------------------------------ MODULE Explorer ------------------------------
(***************************************************************************)
(* The file tree of the desktop window (renderer/explorer.js): the folders *)
(* of the active project, listed lazily, refreshed by a poll and after     *)
(* every file operation, and kept unfolded the way the user left them.     *)
(*                                                                         *)
(* A path is a sequence of names that starts with its root; the last name  *)
(* tells a folder from a file.  Everything the page awaits is a record in  *)
(* "awaited": it is asked, the backend answers when it likes, and the page   *)
(* applies the answer to whatever the tree has become by then.  Two calls  *)
(* in flight that ask the same are one record.  Git marks, the preview,    *)
(* drops outside the tree and the texts of errors are left out.            *)
(***************************************************************************)
EXTENDS Naturals, Sequences, FiniteSets

CONSTANTS Roots,       \* project folders
          Dirs, Files, \* names of folders and of files
          NoPath,      \* null
          First,       \* the folder of the session shown first
          Disk,        \* what the disk holds at first
          Others,      \* bound: the paths other programs make and remove
          MaxActs,     \* bound: what the user and other programs do
          MaxCalls     \* bound: calls in flight when another is made

Names == Dirs \cup Files
Tops  == {<<r>> : r \in Roots}

Parent(p)   == SubSeq(p, 1, Len(p) - 1)
Leaf(p)     == p[Len(p)]
IsDir(p)    == Leaf(p) \in Dirs \cup Roots
Below(p, q) == Len(p) > Len(q) /\ SubSeq(p, 1, Len(q)) = q
Within(p, q) == p = q \/ Below(p, q)

ASSUME NamesAssumption ==
    /\ Roots \cap Names = {} /\ Dirs \cap Files = {}
    /\ NoPath \notin Roots \cup Names /\ NoPath \notin Tops
    /\ First \in Tops
    /\ \A p \in Disk \cup Others : p \in Seq(Roots \cup Names) /\ p # << >>
    /\ \A p \in Disk : Parent(p) \in Disk \cup Tops /\ IsDir(Parent(p))
    /\ MaxActs \in Nat /\ MaxCalls \in Nat

VARIABLES
    fs,      \* what exists on the disk below the roots
    active,  \* the root of the active session (explorerRoot)
    hidden,  \* the panel is folded away
    tree,    \* App._tree: root, gen, entries, open, selected, renaming
    saved,   \* localStorage: the unfolded folders of each root
    newDir,  \* the folder the "new file" dialog was opened for
    dom,     \* the rows drawn, and which of them are drawn unfolded
    awaited,   \* what the page awaits
    crossed, \* history: an operation of one root was applied to another's tree
    treeActs     \* bound counter

treeVars == <<fs, active, hidden, tree, saved, newDir, dom, awaited, crossed, treeActs>>

Exists(d) == d \in Tops \/ (d \in fs /\ IsDir(d))

\* listDir: the entries of a folder, or nothing when it is not there.
ListOf(d) == IF Exists(d) THEN <<{p \in fs : Parent(p) = d}>> ELSE << >>

-----------------------------------------------------------------------------
(* Drawing.                                                                *)

\* A row is reached when every folder above it is listed, and unfolded.
Reached(t, p) ==
    \A n \in (Len(t.root) + 1)..Len(p) :
        LET q == SubSeq(p, 1, n) IN
        /\ Parent(q) \in DOMAIN t.entries
        /\ q \in t.entries[Parent(q)]
        /\ Parent(q) \in t.open \cup {t.root}

Rows(t) ==
    IF t.root = NoPath THEN {}
    ELSE {p \in UNION {t.entries[d] : d \in DOMAIN t.entries} :
              Below(p, t.root) /\ Reached(t, p)}

Drawn(t) == LET rows == Rows(t) IN [rows |-> rows, unfolded |-> rows \cap t.open]

\* Unfolded folders that are not listed yet are asked for while drawing.
Unlisted(t) ==
    IF t.root = NoPath THEN {}
    ELSE ({t.root} \cup {p \in Rows(t) : IsDir(p) /\ p \in t.open}) \ DOMAIN t.entries

LazyLists(t) ==
    {[k |-> "lazy", gen |-> t.gen, force |-> TRUE, dirs |-> {d}, lists |-> << >>] :
        d \in Unlisted(t)}

\* _renderTreeDom: a rename input under way must not disappear.
Redraw(t, cs) ==
    /\ tree' = t
    /\ IF t.renaming # NoPath
       THEN dom' = dom /\ awaited' = cs
       ELSE dom' = Drawn(t) /\ awaited' = cs \cup LazyLists(t)

\* refreshExplorer as far as its await.
Refresh(t, force) ==
    [k |-> "refresh", gen |-> t.gen, force |-> force,
     dirs |-> {t.root} \cup t.open, lists |-> << >>]

AskRefresh(t, force, cs) ==
    IF t.root = NoPath
    THEN Redraw(t, cs)
    ELSE tree' = t /\ awaited' = cs \cup {Refresh(t, force)} /\ UNCHANGED dom

\* _saveOpenSet, _loadOpenSet
SaveOpen(t) ==
    saved' = IF t.root = NoPath THEN saved ELSE [saved EXCEPT ![t.root] = t.open]

-----------------------------------------------------------------------------
NewTree(r, g, unfolded) ==
    [root |-> r, gen |-> g, entries |-> << >>, open |-> unfolded,
     selected |-> NoPath, renaming |-> NoPath]

\* The first folder has been listed and drawn.
Init ==
    /\ fs = Disk
    /\ active = First
    /\ hidden = FALSE
    /\ tree = [NewTree(First, 1, {}) EXCEPT !.entries = [d \in {First} |-> ListOf(d)[1]]]
    /\ saved = [r \in Tops |-> {}]
    /\ newDir = NoPath
    /\ dom = Drawn(tree)
    /\ awaited = {}
    /\ crossed = FALSE
    /\ treeActs = 0

Act  == treeActs < MaxActs /\ treeActs' = treeActs + 1
Free == Cardinality(awaited) < MaxCalls

\* renderExplorer: a new root swaps the whole state, the old root's calls
\* are left to find another generation.
OfRoot(r) == NewTree(r, tree.gen + 1, IF r = NoPath THEN {} ELSE saved[r])

RenderExplorer(r) ==
    IF r = tree.root
    THEN Redraw(tree, awaited)
    ELSE LET t == OfRoot(r) IN
         Redraw(t, IF r = NoPath THEN awaited ELSE awaited \cup {Refresh(t, TRUE)})

\* The active session changes (renderAll draws the panel when it is shown).
Activate(r) ==
    /\ r # active /\ Act
    /\ active' = r
    /\ IF hidden THEN UNCHANGED <<tree, dom, awaited>> ELSE RenderExplorer(r)
    /\ UNCHANGED <<fs, hidden, saved, newDir, crossed>>

\* Any other renderAll.
RenderAll ==
    /\ ~hidden /\ Act
    /\ RenderExplorer(active)
    /\ UNCHANGED <<fs, active, hidden, saved, newDir, crossed>>

\* toggleExplorer
Toggle ==
    /\ Act
    /\ hidden' = ~hidden
    /\ IF hidden THEN RenderExplorer(active) ELSE UNCHANGED <<tree, dom, awaited>>
    /\ UNCHANGED <<fs, active, saved, newDir, crossed>>

Usable == ~hidden /\ newDir = NoPath /\ tree.renaming = NoPath

\* _toggleTreeDir
ToggleDir(p) ==
    LET t == [tree EXCEPT !.selected = p,
                          !.open = IF p \in @ THEN @ \ {p} ELSE @ \cup {p}]
    IN  SaveOpen(t) /\ Redraw(t, awaited)

\* _selectTreeRow: in place, without drawing.
SelectRow(p) ==
    /\ tree' = [tree EXCEPT !.selected = p]
    /\ UNCHANGED <<saved, dom, awaited>>

\* row.onclick
ClickRow(p) ==
    /\ Usable /\ p \in dom.rows /\ Act
    /\ IF IsDir(p) THEN ToggleDir(p) ELSE SelectRow(p)
    /\ UNCHANGED <<fs, active, hidden, newDir, crossed>>

\* Up and Down walk to any row; Left and Right fold the selected folder, when
\* the lists still know it, or walk too.
ArrowKeys ==
    /\ Usable /\ Act
    /\ \/ \E p \in dom.rows : SelectRow(p)
       \/ /\ \E d \in DOMAIN tree.entries : tree.selected \in tree.entries[d]
          /\ IsDir(tree.selected) /\ ToggleDir(tree.selected)
    /\ UNCHANGED <<fs, active, hidden, newDir, crossed>>

\* F2: startTreeRename needs the row to be drawn.
StartRename ==
    /\ Usable /\ tree.selected \in dom.rows /\ Act
    /\ tree' = [tree EXCEPT !.renaming = tree.selected]
    /\ UNCHANGED <<fs, active, hidden, saved, newDir, dom, awaited, crossed>>

Move(from, to, unfold) ==
    [k |-> "move", from |-> from, to |-> to, unfold |-> unfold, state |-> "asked"]

\* finish(): Esc or an unchanged name draws the old name again, another name
\* is handed to movePath.
CancelRename ==
    /\ tree.renaming # NoPath
    /\ Redraw([tree EXCEPT !.renaming = NoPath], awaited)
    /\ UNCHANGED <<fs, active, hidden, saved, newDir, crossed, treeActs>>

CommitRename(n) ==
    /\ tree.renaming # NoPath /\ Free
    /\ n # Leaf(tree.renaming) /\ (n \in Dirs <=> IsDir(tree.renaming))
    /\ tree' = [tree EXCEPT !.renaming = NoPath]
    /\ awaited' = awaited \cup
           {Move(tree.renaming, Append(Parent(tree.renaming), n), NoPath)}
    /\ UNCHANGED <<fs, active, hidden, saved, newDir, dom, crossed, treeActs>>

\* A row dropped on another folder of the tree (moveTreeEntry).
Drag(p, d) ==
    /\ Usable /\ p \in dom.rows /\ d \in dom.rows \cup {tree.root} /\ IsDir(d)
    /\ Parent(p) # d /\ ~Within(d, p)
    /\ Free /\ Act
    /\ awaited' = awaited \cup {Move(p, Append(d, Leaf(p)), d)}
    /\ UNCHANGED <<fs, active, hidden, tree, saved, newDir, dom, crossed>>

\* _newFileDir: the selected folder, or the folder of the selected file.
NewFileDir ==
    IF \E d \in DOMAIN tree.entries : tree.selected \in tree.entries[d]
    THEN IF IsDir(tree.selected) THEN tree.selected ELSE Parent(tree.selected)
    ELSE tree.root

ShowNewFile ==
    /\ Usable /\ tree.root # NoPath /\ Act
    /\ newDir' = NewFileDir
    /\ UNCHANGED <<fs, active, hidden, tree, saved, dom, awaited, crossed>>

\* The dialog stays open until the answer: an error leaves it there.
Create(n) ==
    /\ newDir # NoPath /\ Free
    /\ awaited' = awaited \cup {[k |-> "create", to |-> Append(newDir, n), unfold |-> newDir,
                             state |-> "asked"]}
    /\ UNCHANGED <<fs, active, hidden, tree, saved, newDir, dom, crossed, treeActs>>

CloseNewFile ==
    /\ newDir # NoPath /\ newDir' = NoPath
    /\ UNCHANGED <<fs, active, hidden, tree, saved, dom, awaited, crossed, treeActs>>

\* The confirmed "delete" of a file row's context menu.
Delete(p) ==
    /\ Usable /\ p \in dom.rows /\ ~IsDir(p) /\ Free /\ Act
    /\ tree' = [tree EXCEPT !.selected = p]
    /\ awaited' = awaited \cup {[k |-> "delete", from |-> p, state |-> "asked"]}
    /\ UNCHANGED <<fs, active, hidden, saved, newDir, dom, crossed>>

\* The refresh button (force) and the poll of every TREE_POLL_MS.
Requests == {c \in awaited : c.k \in {"refresh", "lazy"}}
Polls == {c \in awaited : c.k = "refresh" /\ ~c.force}

Poll ==
    /\ ~hidden /\ tree.root # NoPath
    /\ Polls = {}                           \* bound
    /\ AskRefresh(tree, FALSE, awaited)
    /\ UNCHANGED <<fs, active, hidden, saved, newDir, crossed, treeActs>>

RefreshButton ==
    /\ ~hidden /\ Free /\ Act
    /\ AskRefresh(tree, TRUE, awaited)
    /\ UNCHANGED <<fs, active, hidden, saved, newDir, crossed>>

-----------------------------------------------------------------------------
(* The backend and other programs.                                         *)

\* Each folder of a request is a listDir of its own, read at a moment of its own.
Listing(c, d) == [c EXCEPT !.lists = [e \in DOMAIN @ \cup {d} |-> IF e = d THEN ListOf(d) ELSE @[e]]]

ReadDir(c, d) ==
    /\ c \in Requests /\ d \in c.dirs \ DOMAIN c.lists
    /\ awaited' = (awaited \ {c}) \cup {Listing(c, d)}
    /\ UNCHANGED <<fs, active, hidden, tree, saved, newDir, dom, crossed, treeActs>>

\* rename takes the subtree along.
Moved(S, from, to) ==
    {IF Within(p, from) THEN to \o SubSeq(p, Len(from) + 1, Len(p)) ELSE p : p \in S}

Answer(c, s) == awaited' = (awaited \ {c}) \cup {[c EXCEPT !.state = s]}

\* move_path: the source is there, the target is not, its folder is.
MovePath(c) ==
    /\ c \in awaited /\ c.k = "move" /\ c.state = "asked"
    /\ \/ /\ c.from \in fs /\ c.to \notin fs /\ Exists(Parent(c.to))
          /\ ~Within(Parent(c.to), c.from)
          /\ fs' = Moved(fs, c.from, c.to)
          /\ Answer(c, "ok")
       \/ /\ c.from \notin fs \/ c.to \in fs \/ ~Exists(Parent(c.to))
          /\ UNCHANGED fs
          /\ Answer(c, "failed")
    /\ UNCHANGED <<active, hidden, tree, saved, newDir, dom, crossed, treeActs>>

\* create_file, create_dir: never over an existing entry.
CreatePath(c) ==
    /\ c \in awaited /\ c.k = "create" /\ c.state = "asked"
    /\ IF Exists(Parent(c.to)) /\ c.to \notin fs
       THEN fs' = fs \cup {c.to} /\ Answer(c, "ok")
       ELSE UNCHANGED fs /\ Answer(c, "failed")
    /\ UNCHANGED <<active, hidden, tree, saved, newDir, dom, crossed, treeActs>>

DeletePath(c) ==
    /\ c \in awaited /\ c.k = "delete" /\ c.state = "asked"
    /\ IF c.from \in fs
       THEN fs' = fs \ {c.from} /\ Answer(c, "ok")
       ELSE UNCHANGED fs /\ Answer(c, "failed")
    /\ UNCHANGED <<active, hidden, tree, saved, newDir, dom, crossed, treeActs>>

\* An agent in a terminal makes or removes an entry.
AgentActs(p) ==
    /\ Act
    /\ \/ p \notin fs /\ Exists(Parent(p)) /\ fs' = fs \cup {p}
       \/ p \in fs /\ fs' = {q \in fs : ~Within(q, p)}
    /\ UNCHANGED <<active, hidden, tree, saved, newDir, dom, awaited, crossed>>

-----------------------------------------------------------------------------
(* The page goes on after its awaits.                                      *)

\* An answer of an earlier generation is thrown away, and so is the failure
\* of a lazy list.
StaleMutant(c) == c.k = "lazy" /\ \E d \in c.dirs : c.lists[d] = << >>
Stale(c) == c.gen # tree.gen \/ (c.k = "lazy" /\ \E d \in c.dirs : c.lists[d] = << >>)

\* The names differ from what the tree had (the JSON comparison).
DiffersMutant(t, c, d) ==
    IF c.lists[d] = << >> THEN d \in t.open \/ d \in DOMAIN t.entries
    ELSE d \notin DOMAIN t.entries
         \/ Cardinality(t.entries[d]) # Cardinality(c.lists[d][1])
Differs(t, c, d) ==
    IF c.lists[d] = << >> THEN d \in t.open \/ d \in DOMAIN t.entries
    ELSE d \notin DOMAIN t.entries \/ t.entries[d] # c.lists[d][1]

\* A folder that is gone is folded, in the storage too.
KeepOpenMutant(t) == UNCHANGED saved
KeepOpen(t) == IF t.open # tree.open THEN SaveOpen(t) ELSE UNCHANGED saved

Merged(t, c) ==
    LET here == {d \in c.dirs : c.lists[d] # << >>}
        gone == c.dirs \ here
    IN  [t EXCEPT
            !.open = IF c.k = "refresh" THEN @ \ gone ELSE @,
            !.entries = [d \in (DOMAIN @ \ gone) \cup here |->
                            IF d \in here THEN c.lists[d][1] ELSE @[d]]]

\* The end of refreshExplorer, and of the lazy list of a folder.
Listed(c) ==
    /\ c \in Requests /\ DOMAIN c.lists = c.dirs
    /\ IF Stale(c)
       THEN awaited' = awaited \ {c} /\ UNCHANGED <<tree, saved, dom>>
       ELSE LET t == Merged(tree, c) IN
            /\ KeepOpen(t)
            /\ IF c.force \/ \E d \in c.dirs : Differs(tree, c, d)
               THEN Redraw(t, awaited \ {c})
               ELSE tree' = t /\ awaited' = awaited \ {c} /\ UNCHANGED dom
    /\ UNCHANGED <<fs, active, hidden, newDir, crossed, treeActs>>

\* _rebaseTreeState
Rebased(t, from, to) ==
    [t EXCEPT !.open = Moved(@, from, to),
              !.entries = [d \in DOMAIN @ \ {from} |-> @[d]],
              !.selected = to]

Unfolded(t, d) == IF d = NoPath THEN t ELSE [t EXCEPT !.open = @ \cup {d}]

\* The end of moveTreeEntry and of a rename: no generation is compared.
MoveDone(c) ==
    /\ c \in awaited /\ c.k = "move" /\ c.state # "asked"
    /\ IF c.state = "ok"
       THEN LET t == Unfolded(Rebased(tree, c.from, c.to), c.unfold) IN
            /\ SaveOpen(t)
            /\ AskRefresh(t, TRUE, awaited \ {c})
            /\ crossed' = (crossed \/ tree.root = NoPath \/ ~Within(c.to, tree.root))
       ELSE /\ IF c.unfold = NoPath
               THEN Redraw(tree, awaited \ {c})
               ELSE awaited' = awaited \ {c} /\ UNCHANGED <<tree, dom>>
            /\ UNCHANGED <<saved, crossed>>
    /\ UNCHANGED <<fs, active, hidden, newDir, treeActs>>

\* The end of create(): close(), unfold, select, refresh.
CreateDone(c) ==
    /\ c \in awaited /\ c.k = "create" /\ c.state # "asked"
    /\ IF c.state = "ok"
       THEN LET t == [Unfolded(tree, c.unfold) EXCEPT !.selected = c.to] IN
            /\ newDir' = NoPath
            /\ SaveOpen(t)
            /\ AskRefresh(t, TRUE, awaited \ {c})
            /\ crossed' = (crossed \/ tree.root = NoPath \/ ~Within(c.to, tree.root))
       ELSE awaited' = awaited \ {c} /\ UNCHANGED <<tree, saved, newDir, dom, crossed>>
    /\ UNCHANGED <<fs, active, hidden, treeActs>>

DeleteDone(c) ==
    /\ c \in awaited /\ c.k = "delete" /\ c.state # "asked"
    /\ IF c.state = "ok"
       THEN AskRefresh([tree EXCEPT !.selected = IF @ = c.from THEN NoPath ELSE @],
                       TRUE, awaited \ {c})
       ELSE awaited' = awaited \ {c} /\ UNCHANGED <<tree, dom>>
    /\ UNCHANGED <<fs, active, hidden, saved, newDir, crossed, treeActs>>

-----------------------------------------------------------------------------
User ==
    \/ \E r \in Tops \cup {NoPath} : Activate(r)
    \/ Toggle \/ RenderAll
    \/ ArrowKeys \/ \E p \in dom.rows : ClickRow(p) \/ Delete(p)
    \/ \E p \in dom.rows, d \in dom.rows \cup {tree.root} : Drag(p, d)
    \/ StartRename \/ CancelRename
    \/ \E n \in Names : CommitRename(n) \/ Create(n)
    \/ ShowNewFile \/ CloseNewFile \/ RefreshButton

Backend(cs) ==
    \/ \E c \in cs : MovePath(c) \/ CreatePath(c) \/ DeletePath(c)
    \/ \E c \in cs \cap Requests : \E d \in c.dirs : ReadDir(c, d)
Page(cs)    == \E c \in cs : Listed(c) \/ MoveDone(c) \/ CreateDone(c) \/ DeleteDone(c)

Next ==
    \/ User \/ Poll \/ Backend(awaited) \/ Page(awaited)
    \/ \E p \in Others : AgentActs(p)

\* Every command is answered and every continuation runs, however often the
\* interval fires, and it does fire.
Fairness ==
    /\ WF_treeVars(Poll) /\ WF_treeVars(Backend(Polls) \/ Page(Polls))
    /\ WF_treeVars(Backend(awaited \ Polls) \/ Page(awaited \ Polls))

Spec == Init /\ [][Next]_treeVars
FairSpec == Spec /\ Fairness

-----------------------------------------------------------------------------
(* Properties.                                                             *)

\* The answers of an earlier project never reach the tree of the next: as
\* long as no file operation ended after a switch, what is listed, unfolded
\* or remembered lies below its own root (explorer.js:305 and :383, the
\* generation compared after each await).
OneRoot ==
    ~crossed =>
        /\ \A d \in DOMAIN tree.entries \cup tree.open :
               tree.root # NoPath /\ Within(d, tree.root)
        /\ \A r \in Tops : \A d \in saved[r] : Within(d, r)

\* What a restart or a switch back would unfold is what is unfolded now,
\* after every click, move, rename, creation and disappearance of a folder
\* (the _saveOpenSet calls of explorer.js).
SavedIsOpen == tree.root # NoPath => saved[tree.root] = tree.open

\* Once the disk and the user are quiet the panel shows the disk: answers
\* that overtook each other, a drawing held back by a rename, or a list
\* kept from before a folder was moved do not stay (the poll, explorer.js:351).
OnDisk ==
    LET seen == UNION {ListOf(d)[1] : d \in {x \in {tree.root} \cup tree.open : Exists(x)}}
    IN  {p \in seen : \A n \in (Len(tree.root) + 1)..(Len(p) - 1) :
                         SubSeq(p, 1, n) \in tree.open \cap fs}

ShowsDisk ==
    /\ tree.root # NoPath
    /\ dom.rows = {p \in OnDisk : Below(p, tree.root)}
    /\ dom.unfolded = dom.rows \cap tree.open

Quiet == ~hidden /\ tree.root # NoPath /\ tree.renaming = NoPath

TreeSettles == (<>[]Quiet) => <>[]ShowsDisk

=============================================================================
