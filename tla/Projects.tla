------------------------------- MODULE Projects -------------------------------
(***************************************************************************)
(* The projects, presets and recipes of the desktop window: the forms that *)
(* edit them (renderer/modals.js), their order in the sidebar              *)
(* (renderer/worktree.js, app.js), and Git worktrees, which are projects   *)
(* that hang below another one.  "store" is what the backend keeps,        *)
(* "page" is what the window shows and works from.  The forms use the one  *)
(* dialog slot of Dialogs: an answer that comes late closes whatever       *)
(* dialog is shown by then.                                                *)
(*                                                                         *)
(* Store commands run one after the other on the backend's main thread and *)
(* are answered in order: "calls" is that queue.  Git commands run beside  *)
(* them: "git" is the set of those under way.                              *)
(***************************************************************************)
EXTENDS Dialogs, SequencesExt

VARIABLES
    store,    \* projects, presets, recipes, each in order
    page,     \* the same, in the window
    calls,    \* store commands sent, and whether they ran
    git,      \* git commands under way
    folders,  \* the worktree folders that exist, and which have changes
    running,  \* projects with a session
    skew,     \* history: why the two orders may differ: "failed", "dragged", "orphan"
    acts,     \* bound counter: what the user does
    items     \* the newest id

projectVars == <<store, page, calls, git, folders, running, skew, acts, items>>
vars == <<dialogVars, projectVars>>
listVars == <<store, page, calls, skew>>
gitVars  == <<git, folders, running>>
restOfDialogs == <<plan, reads, disk, tmp, eds, edits, choice, pulling, armed, late>>

Top == 0   \* the parent of a project that is no worktree
Ids(list) == [i \in DOMAIN list |-> list[i].id]
Known(list, id) == \E i \in DOMAIN list : list[i].id = id
At(list, id) == CHOOSE i \in DOMAIN list : list[i].id = id

\* The members of S, in the order of the list.
Only(list, S) ==
    LET upTo[i \in 0..Len(list)] ==
            IF i = 0 THEN << >>
            ELSE IF list[i] \in S THEN Append(upTo[i - 1], list[i]) ELSE upTo[i - 1]
    IN upTo[Len(list)]
Without(list, id) == Only(list, {x \in Range(list) : x.id # id})
NotOf(list, proj) == Only(list, {x \in Range(list) : x.proj # proj})

-----------------------------------------------------------------------------
(* Order.                                                                  *)

\* The place behind the worktrees that directly follow position i.
BehindChildren(list, i, parent) ==
    CHOOSE j \in i + 1 .. Len(list) + 1 :
        /\ \A k \in i + 1 .. j - 1 : list[k].parent = parent
        /\ j = Len(list) + 1 \/ list[j].parent # parent

BehindParent(list, p) ==
    InsertAt(list, BehindChildren(list, At(list, p.parent), p.parent), p)

\* insertWorktreeProject: behind its siblings, or last when the parent is gone.
InsertWorktreeMutant(list, p) == Append(list, p)
InsertWorktree(list, p) ==
    IF Known(list, p.parent) THEN BehindParent(list, p) ELSE Append(list, p)

\* add_project: the same, but first when there is no parent.
AddProject(list, p) ==
    IF Known(list, p.parent) THEN BehindParent(list, p) ELSE <<p>> \o list

\* reorder_by_ids: the named ones in the order given, then the others.
ReorderMutant(list, ids) ==
    LET named == Only(ids, Range(Ids(list))) IN
    [i \in DOMAIN named |-> list[At(list, named[i])]]
Reorder(list, ids) ==
    LET named == Only(ids, Range(Ids(list))) IN
    [i \in DOMAIN named |-> list[At(list, named[i])]]
        \o Only(list, {x \in Range(list) : x.id \notin Range(ids)})

\* moveProjectGroup: a project and its worktrees, before or behind another one
\* and its worktrees.  Worktrees only move with their parent.
MoveGroup(list, src, dst, before) ==
    IF src = dst \/ list[At(list, src)].parent # Top \/ list[At(list, dst)].parent # Top
    THEN list
    ELSE LET moves == {x \in Range(list) : x.id = src \/ x.parent = src}
             group == Only(list, moves)
             rest  == Only(list, Range(list) \ moves)
             to    == IF before THEN At(rest, dst)
                      ELSE BehindChildren(rest, At(rest, dst), dst)
         IN SubSeq(rest, 1, to - 1) \o group \o SubSeq(rest, to, Len(rest))

\* orderProjectsWithWorktrees: what the sidebar shows.  A worktree whose parent
\* is not listed counts as a project of its own.
IsChild(list, x) == x.parent # Top /\ Known(list, x.parent)
ChildrenOf(list, p) == {x \in Range(list) : IsChild(list, x) /\ x.parent = p.id}
SidebarOrder(list) ==
    LET out[i \in 0..Len(list)] ==
            IF i = 0 THEN << >>
            ELSE IF IsChild(list, list[i]) THEN out[i - 1]
            ELSE out[i - 1] \o <<list[i]>> \o Only(list, ChildrenOf(list, list[i]))
    IN out[Len(list)]

-----------------------------------------------------------------------------
(* What the window sends.                                                  *)

Send(call) == calls' = Append(calls, call)

OrderCall(list, moved) ==
    [op |-> "reorder", list |-> list, id |-> 0, proj |-> Top, ids |-> Ids(moved),
     back |-> "none", done |-> "no"]

Acts == /\ "forms" \in plan.opens /\ acts < plan.acts
        /\ acts' = acts + 1

\* Dragging in the sidebar or the preset menu; nothing is saved when nothing
\* moved.  The window does not wait for the answer.
MoveProject(src, dst, before) ==
    LET moved == MoveGroup(page.projects, src, dst, before) IN
    /\ Acts /\ Is("none")
    /\ Ids(moved) # Ids(page.projects)
    /\ page' = [page EXCEPT !.projects = moved]
    /\ Send(OrderCall("projects", moved))
    /\ skew' = IF \E i \in DOMAIN calls : calls[i].op = "add" /\ calls[i].list = "projects"
               THEN skew \cup {"dragged"} ELSE skew
    /\ UNCHANGED <<dialogVars, store, gitVars, items>>

MovePreset(src, dst, before) ==
    LET rest  == Without(page.presets, src)
        to    == At(rest, dst) + (IF before THEN 0 ELSE 1)
        moved == InsertAt(rest, to, page.presets[At(page.presets, src)])
    IN /\ Acts /\ Is("none") /\ src # dst
       /\ page' = [page EXCEPT !.presets = moved]
       /\ Send(OrderCall("presets", moved))
       /\ UNCHANGED <<dialogVars, store, skew, gitVars, items>>

\* The dialogs.  A form knows what it edits (0: something new) and the manager
\* it returns to.
Form(kind, item, back) == [kind |-> kind, item |-> item, back |-> back]
Shown(kind) == shown.kind = "form" /\ shown.id.kind = kind
OpenForm(form) == Show("form", form) /\ UNCHANGED restOfDialogs
LeaveForm == Close(shown) /\ UNCHANGED restOfDialogs

\* showProjectModal, from the sidebar or from showSessionAddModal.
ShowProject(id) ==
    /\ Acts
    /\ Is("none") \/ Shown("add")
    /\ OpenForm(Form("project", id, "none"))
    /\ UNCHANGED <<listVars, gitVars, items>>

ShowSessionAdd ==
    /\ Acts /\ Is("none")
    /\ OpenForm(Form("add", 0, "none"))
    /\ UNCHANGED <<listVars, gitVars, items>>

\* Its buttons start a session, which closes it.
StartFromAdd(id) ==
    /\ Shown("add") /\ LeaveForm
    /\ running' = running \cup {id}
    /\ UNCHANGED <<listVars, git, folders, acts, items>>

\* showPresetManager and showRecipeManager, and from there the forms.
FormOf(list) == IF list = "presets" THEN "preset" ELSE "recipe"

ShowManager(list) ==
    /\ Acts /\ Is("none")
    /\ OpenForm(Form(list, 0, "none"))
    /\ UNCHANGED <<listVars, gitVars, items>>

ShowPreset(id) ==
    /\ Acts
    /\ \/ Shown("presets") /\ OpenForm(Form("preset", id, "presets"))
       \/ Is("none") /\ id # 0 /\ OpenForm(Form("preset", id, "none"))
    /\ UNCHANGED <<listVars, gitVars, items>>

\* A recipe starts its sessions in a project.
RunRecipe(p) ==
    /\ Acts /\ Shown("recipes") /\ LeaveForm
    /\ running' = running \cup {p}
    /\ UNCHANGED <<listVars, git, folders, items>>

ShowRecipe(id) ==
    /\ Acts /\ Shown("recipes")
    /\ OpenForm(Form("recipe", id, "recipes"))
    /\ UNCHANGED <<listVars, gitVars, items>>

\* finish() of a form: close whatever is shown, and back to the manager.
Finish(back) ==
    /\ IF back = "none" THEN Close(Nothing) ELSE Show("form", Form(back, 0, "none"))
    /\ UNCHANGED restOfDialogs

CancelForm ==
    /\ shown.kind = "form"
    /\ Finish(shown.id.back)
    /\ UNCHANGED <<listVars, gitVars, acts, items>>

\* The save buttons: nothing keeps them from being clicked twice.
NewCall(op, list, id, proj) ==
    [op |-> op, list |-> list, id |-> id, proj |-> proj, ids |-> << >>,
     back |-> shown.id.back, done |-> "no"]

SaveForm(list, proj) ==
    LET id == shown.id.item IN
    /\ Acts
    /\ IF id = 0
       THEN /\ items < plan.items /\ items' = items + 1
            /\ Send(NewCall("add", list, items + 1, proj))
       ELSE UNCHANGED items /\ Send(NewCall("update", list, id, proj))
    /\ UNCHANGED <<dialogVars, store, page, skew, gitVars>>

SaveProject       == Shown("project") /\ SaveForm("projects", Top)
SavePreset(scope) == Shown("preset") /\ SaveForm("presets", scope)
SaveRecipe(scope) == Shown("recipe") /\ SaveForm("recipes", scope)

\* The delete buttons, in a form and in the rows of a manager.
DeleteProject ==
    /\ Acts /\ Shown("project") /\ shown.id.item # 0
    /\ Send(NewCall("remove", "projects", shown.id.item, Top))
    /\ UNCHANGED <<dialogVars, store, page, skew, gitVars, items>>

DeleteItem(list) ==
    /\ Acts /\ Shown(FormOf(list)) /\ shown.id.item # 0
    /\ Send(NewCall("remove", list, shown.id.item, Top))
    /\ UNCHANGED <<dialogVars, store, page, skew, gitVars, items>>

DeleteRow(list, id) ==
    /\ Acts /\ Shown(list)
    /\ Send([NewCall("remove", list, id, Top) EXCEPT !.back = list])
    /\ UNCHANGED <<dialogVars, store, page, skew, gitVars, items>>

-----------------------------------------------------------------------------
(* The backend.                                                            *)

\* remove_project: its worktrees become projects of their own, its presets and
\* recipes go with it.
RemoveProject(s, id) ==
    LET rest == Without(s.projects, id) IN
    [projects |-> [i \in DOMAIN rest |->
         IF rest[i].parent = id THEN [rest[i] EXCEPT !.parent = Top] ELSE rest[i]],
     presets  |-> NotOf(s.presets, id),
     recipes  |-> NotOf(s.recipes, id)]

Rescoped(list, id, proj) ==
    [i \in DOMAIN list |-> IF list[i].id = id THEN [list[i] EXCEPT !.proj = proj] ELSE list[i]]

Stored(s, c) ==
    CASE c.op = "add" /\ c.list = "projects" ->
            [s EXCEPT !.projects = AddProject(@, [id |-> c.id, parent |-> c.proj])]
      [] c.op = "add" /\ c.list # "projects" ->
            [s EXCEPT ![c.list] = Append(@, [id |-> c.id, proj |-> c.proj])]
      [] c.op = "update" /\ c.list = "projects" -> s
      [] c.op = "update" /\ c.list # "projects" ->
            [s EXCEPT ![c.list] = Rescoped(@, c.id, c.proj)]
      [] c.op = "remove" /\ c.list = "projects" -> RemoveProject(s, c.id)
      [] c.op = "remove" /\ c.list # "projects" -> [s EXCEPT ![c.list] = Without(@, c.id)]
      [] c.op = "reorder" -> [s EXCEPT ![c.list] = Reorder(@, c.ids)]

\* A command changes the settings in memory and then saves them: an error may
\* come after the change.  An unknown id is an error of an update only.
RunCall ==
    \E i \in DOMAIN calls, ok \in BOOLEAN :
       LET c == calls[i] IN
       /\ c.done = "no" /\ \A j \in 1..i - 1 : calls[j].done # "no"
       /\ ok => (c.op # "update" \/ Known(store[c.list], c.id))
       /\ store' = Stored(store, c)
       /\ calls' = [calls EXCEPT ![i].done = IF ok THEN "ok" ELSE "failed"]
       /\ skew' = IF ~ok THEN skew \cup {"failed"}
                  ELSE IF /\ c.op = "add" /\ c.list = "projects" /\ c.proj # Top
                          /\ ~Known(store.projects, c.proj)
                  THEN skew \cup {"orphan"} ELSE skew
       /\ UNCHANGED <<dialogVars, page, gitVars, acts, items>>

-----------------------------------------------------------------------------
(* The answers.                                                            *)

\* Removing a project: the page forgets what belonged to it; its worktrees keep
\* pointing at it.
Forget(p, id) == [projects |-> Without(p.projects, id),
                  presets  |-> NotOf(p.presets, id),
                  recipes  |-> NotOf(p.recipes, id)]

Paged(p, c) ==
    CASE c.op = "add" /\ c.list = "projects" /\ c.proj = Top ->
            [p EXCEPT !.projects = <<[id |-> c.id, parent |-> Top]>> \o @]
      [] c.op = "add" /\ c.list = "projects" /\ c.proj # Top ->
            [p EXCEPT !.projects = InsertWorktree(@, [id |-> c.id, parent |-> c.proj])]
      [] c.op = "add" /\ c.list # "projects" ->
            [p EXCEPT ![c.list] = Append(@, [id |-> c.id, proj |-> c.proj])]
      [] c.op = "update" /\ c.list = "projects" -> p
      [] c.op = "update" /\ c.list # "projects" ->
            [p EXCEPT ![c.list] = Rescoped(@, c.id, c.proj)]
      [] c.op = "remove" /\ c.list = "projects" -> Forget(p, c.id)
      [] c.op = "remove" /\ c.list # "projects" -> [p EXCEPT ![c.list] = Without(@, c.id)]
      [] c.op = "reorder" -> p

\* A failure is told and leaves the dialog open; a worktree's registration and
\* removal close it in any case.
Answered ==
    /\ calls # << >> /\ Head(calls).done # "no"
    /\ calls' = Tail(calls)
    /\ LET c  == Head(calls)
           ok == c.done = "ok"
           worktree == c.op = "add" /\ c.list = "projects" /\ c.proj # Top
       IN /\ page' = IF ok THEN Paged(page, c) ELSE page
          /\ running' = IF ok /\ worktree THEN running \cup {c.id} ELSE running
          /\ IF c.op = "reorder" \/ c.back = "dropped" \/ ~(ok \/ worktree)
             THEN UNCHANGED dialogVars
             ELSE Finish(c.back)
    /\ UNCHANGED <<store, skew, git, folders, acts, items>>

-----------------------------------------------------------------------------
(* Worktrees.                                                              *)

Ask(g) == git' = git \cup {g}

\* showWorktreeModal: reads the repository, then opens.
AskWorktree(p) ==
    /\ Acts /\ Is("none") /\ Ask([op |-> "info", id |-> p])
    /\ UNCHANGED <<dialogVars, listVars, folders, running, items>>

InfoAnswered(g, ok) ==
    /\ g \in git /\ g.op = "info"
    /\ git' = git \ {g}
    /\ IF ok THEN OpenForm(Form("worktree", g.id, "none")) ELSE UNCHANGED dialogVars
    /\ UNCHANGED <<listVars, folders, running, acts, items>>

\* Its create button, disabled while git works for this dialog.
CreateWorktree ==
    /\ Acts /\ Shown("worktree") /\ Ask([op |-> "add", id |-> shown.id.item])
    /\ git' # git
    /\ UNCHANGED <<dialogVars, listVars, folders, running, items>>

\* git made the folder: register it below its parent.  A failure leaves the
\* dialog open.
WorktreeAdded(g, ok) ==
    /\ g \in git /\ g.op = "add"
    /\ git' = git \ {g}
    /\ IF ok
       THEN /\ items < plan.items /\ items' = items + 1
            /\ folders' = [folders EXCEPT ![items + 1] = "clean"]
            /\ Send([op |-> "add", list |-> "projects", id |-> items + 1, proj |-> g.id,
                     ids |-> << >>, back |-> "none", done |-> "no"])
       ELSE UNCHANGED <<items, folders, calls>>
    /\ UNCHANGED <<dialogVars, store, page, skew, running, acts>>

\* removeWorktree: not while a session lives there; then ask git what would be
\* lost, and tell: changes, or commits that were never pushed.
AskRemove(w) ==
    /\ Acts /\ Is("none") /\ w \notin running /\ Ask([op |-> "check", id |-> w])
    /\ UNCHANGED <<dialogVars, listVars, folders, running, items>>

Checked(g, unpushed) ==
    /\ g \in git /\ g.op = "check"
    /\ git' = git \ {g}
    /\ OpenForm([kind |-> "remove", item |-> g.id, back |-> "none",
                 risky |-> folders[g.id] = "changed" \/ unpushed, missing |-> folders[g.id] = "gone",
                 ours |-> folders[g.id] # "foreign"])
    /\ UNCHANGED <<listVars, folders, running, acts, items>>

\* Its remove button, which a risk disables until the user ticks "force".
ConfirmRemove(tick) ==
    /\ Acts /\ Shown("remove") /\ shown.id.ours
    /\ shown.id.risky <=> tick
    /\ Ask([op |-> "remove", id |-> shown.id.item, force |-> tick \/ shown.id.missing])
    /\ UNCHANGED <<dialogVars, listVars, folders, running, items>>

DropCall(w) == [op |-> "remove", list |-> "projects", id |-> w, proj |-> Top,
                ids |-> << >>, back |-> "dropped", done |-> "no"]

\* A folder git does not know is only taken off the list.
DropForeign ==
    /\ Acts /\ Shown("remove") /\ ~shown.id.ours
    /\ LeaveForm /\ Send(DropCall(shown.id.item))
    /\ UNCHANGED <<store, page, skew, gitVars, items>>

\* git worktree remove: refuses a folder with changes unless forced.
WorktreeRemoved(g) ==
    /\ g \in git /\ g.op = "remove"
    /\ git' = git \ {g}
    /\ Close(Nothing) /\ UNCHANGED restOfDialogs
    /\ IF folders[g.id] = "changed" /\ ~g.force
       THEN UNCHANGED <<folders, calls>>
       ELSE /\ folders' = [folders EXCEPT ![g.id] = "gone"]
            /\ Send(DropCall(g.id))
    /\ UNCHANGED <<store, page, skew, running, acts, items>>

\* Sessions and other programs change the folder.
SessionChanges(w) ==
    /\ folders[w] = "clean" /\ folders' = [folders EXCEPT ![w] = "changed"]
    /\ UNCHANGED <<dialogVars, listVars, git, running, acts, items>>

\* Deleted by hand, or no worktree of this repository any more.
FolderGoes(w, to) ==
    /\ Acts /\ folders[w] \in {"clean", "changed"} /\ folders' = [folders EXCEPT ![w] = to]
    /\ UNCHANGED <<dialogVars, listVars, git, running, items>>

SessionEnds(id) ==
    /\ id \in running /\ running' = running \ {id}
    /\ UNCHANGED <<dialogVars, listVars, git, folders, acts, items>>

-----------------------------------------------------------------------------
ProjectsInit ==
    /\ store = [projects |-> << [id |-> 1, parent |-> Top], [id |-> 5, parent |-> 1],
                               [id |-> 2, parent |-> Top] >>,
                presets |-> << [id |-> 3, proj |-> 1], [id |-> 4, proj |-> Top] >>,
                recipes |-> << >>]
    /\ page = store
    /\ calls = << >> /\ git = {} /\ running = {} /\ skew = {}
    /\ acts = 0 /\ items = 5
    /\ folders = [w \in 1..plan.items |-> IF w = 5 THEN "clean" ELSE "gone"]

PageIds(list) == {page[list][i].id : i \in DOMAIN page[list]}
Worktrees == {page.projects[i].id : i \in {j \in DOMAIN page.projects :
                                             page.projects[j].parent # Top}}
Scopes == PageIds("projects") \cup {Top}

FormsNext ==
    \/ \E src, dst \in PageIds("projects"), b \in BOOLEAN : MoveProject(src, dst, b)
    \/ \E src, dst \in PageIds("presets"), b \in BOOLEAN : MovePreset(src, dst, b)
    \/ \E id \in PageIds("projects") \cup {0} : ShowProject(id)
    \/ ShowSessionAdd \/ \E id \in Scopes : StartFromAdd(id)
    \/ \E list \in {"presets", "recipes"} :
          \/ ShowManager(list) \/ DeleteItem(list)
          \/ \E id \in PageIds(list) : DeleteRow(list, id)
    \/ \E id \in PageIds("presets") \cup {0} : ShowPreset(id)
    \/ \E id \in PageIds("recipes") \cup {0} : ShowRecipe(id)
    \/ page.recipes # << >> /\ \E p \in Scopes : RunRecipe(p)
    \/ CancelForm \/ SaveProject \/ DeleteProject
    \/ \E scope \in Scopes : SavePreset(scope) \/ SaveRecipe(scope)
    \/ RunCall \/ Answered

WorktreeNext ==
    \/ \E p \in PageIds("projects") \ Worktrees : AskWorktree(p)
    \/ \E g \in git, ok \in BOOLEAN : \/ InfoAnswered(g, ok) \/ WorktreeAdded(g, ok)
                                   \/ Checked(g, ok)
    \/ \E g \in git : WorktreeRemoved(g)
    \/ CreateWorktree \/ DropForeign
    \/ \E w \in Worktrees : \/ AskRemove(w) \/ SessionChanges(w)
                           \/ \E to \in {"gone", "foreign"} : FolderGoes(w, to)
    \/ \E tick \in BOOLEAN : ConfirmRemove(tick)
    \/ \E id \in running : SessionEnds(id)

DesktopInit == DialogsInit /\ ProjectsInit
DesktopNext == \/ DialogsNext /\ UNCHANGED projectVars
               \/ FormsNext
               \/ WorktreeNext
DesktopSpec == DesktopInit /\ [][DesktopNext]_vars

-----------------------------------------------------------------------------
(* Properties.                                                             *)

\* The window and the backend keep the same lists in the same order, which is
\* the order the sidebar shows them in, once every command is answered
\* ("saved order and shown order do not drift apart", worktree.js:70).  Not so
\* after a command failed, after a project was dragged while another one was
\* being added, and after a worktree was added whose parent was gone.
ListsAgree ==
    (calls = << >> /\ skew = {}) =>
        /\ \A list \in DOMAIN store : Ids(store[list]) = Ids(page[list])
        /\ SidebarOrder(page.projects) = page.projects

\* Whatever becomes of their order, the window and the backend have the same
\* projects, presets and recipes, and each preset and recipe belongs to the same
\* project on both sides, once every command is answered and none failed: also
\* after drags that cross an add, and after worktrees whose parent went.
Members(lists) ==
    [projects |-> {x.id : x \in Range(lists.projects)},
     presets  |-> Range(lists.presets), recipes |-> Range(lists.recipes)]

MembersAgree ==
    (calls = << >> /\ "failed" \notin skew) => Members(store) = Members(page)
=============================================================================
