------------------------------- MODULE Dialogs -------------------------------
(***************************************************************************)
(* The one dialog slot of the desktop window (renderer/modals.js) and the  *)
(* dialogs that keep something the user can lose: the file editor, opened  *)
(* from the preview or the explorer, the settings with their live preview, *)
(* and the diagnosis of a failed Git pull.  The forms for projects and     *)
(* presets are in Projects, which shares the slot.                         *)
(*                                                                         *)
(* Every dialog is drawn into the same element.  Opening one replaces what *)
(* is shown without asking it, and the close() a dialog was given hides    *)
(* whatever is shown by then.  Because the element stays, so does the key  *)
(* listener each editor puts on it: "eds" keeps every editor ever opened.  *)
(*                                                                         *)
(* A text is the number of the edit that made it.                          *)
(***************************************************************************)
EXTENDS Naturals, Sequences, FiniteSets

CONSTANTS Paths,      \* files
          JsonPaths,  \* those the editor checks before it saves
          Plans       \* bound: what happens in one run: the dialogs a user opens,
                      \* how many editors and settings dialogs, how many saves
                      \* of settings at a time, and how many texts are made, by
                      \* the user or by a program

ASSUME DialogsAssumption ==
    /\ JsonPaths \subseteq Paths
    /\ \A b \in Plans : b.eds \in Nat /\ b.edits \in Nat /\ b.sets \in Nat /\ b.saves \in Nat

VARIABLES
    plan,      \* bound: one of the plans
    shown,     \* the dialog in the slot
    reads,     \* the file being read, and what for; bound: one at a time
    disk,      \* what each file holds, whose text it is, and its size
    tmp,       \* the temporary file beside each file: an editor's save
    eds,       \* the editors opened so far
    edits,     \* bound counter, and the newest text
    sets,      \* the settings dialogs opened so far
    live,      \* the settings in effect
    kept,      \* the backend's settings
    saving,    \* the saves of settings that are not answered yet, in order
    astray,    \* history: a preview or a cancel came after the answer of a save, or
               \* a font file after its dialog was left; no save was answered since
    tangled,   \* history: a settings dialog lost the slot, its save failed, or
               \* another one was asked for meanwhile
    pulling,   \* a git pull runs
    armed,     \* the file whose "discard" button waits for its second click
    late       \* what will still call close() or open a dialog by itself

fileVars == <<reads, disk, tmp, eds, edits>>
choice   == <<sets, live, kept, saving, astray>>
setVars  == <<choice, tangled>>
pullVars == <<pulling, armed>>
dialogVars == <<plan, shown, reads, disk, tmp, eds, edits,
                setVars, pulling, armed, late>>

Is(kind)   == shown.kind = kind
Nothing    == [kind |-> "none", id |-> 0]
Outside    == 0    \* the author of a text no editor wrote
NoFile     == "none"

\* What App.modal does to the dialog it replaces: nothing.  A settings dialog
\* keeps its preview in effect and its Esc listener on the document.
Show(kind, id) ==
    /\ shown' = [kind |-> kind, id |-> id]
    /\ tangled' = (tangled \/ (Is("settings") /\ sets[shown.id].restores))

\* Any dialog's close(): hides the slot, whoever has it.  "by" is the dialog
\* whose close it is.
Close(by) ==
    /\ shown' = Nothing
    /\ tangled' = (tangled \/
          (Is("settings") /\ shown # by /\ sets[shown.id].restores))

-----------------------------------------------------------------------------
(* Files: the preview, the editor, and the programs that change them too.  *)

\* showFilePreview, showFileEditor: from the explorer, which the backdrop
\* covers while a dialog is shown.
AskPreview(p) ==
    /\ "editor" \in plan.opens /\ Is("none") /\ reads = {}
    /\ reads' = reads \cup {[op |-> "preview", path |-> p]}
    /\ UNCHANGED <<plan, shown, disk, tmp, eds, edits, setVars, pullVars, late>>

AskEditor(p) ==
    /\ "editor" \in plan.opens /\ reads = {}
    /\ \/ Is("none")
       \/ Is("preview") /\ shown.id = [path |-> p, whole |-> TRUE]
    /\ reads' = reads \cup {[op |-> "editor", path |-> p]}
    /\ UNCHANGED <<plan, shown, disk, tmp, eds, edits, setVars, pullVars, late>>

\* The preview is shown whatever came of the read; a file whose head only was
\* read has no edit button.
ReadForPreview(r, ok) ==
    /\ r \in reads /\ r.op = "preview"
    /\ reads' = reads \ {r}
    /\ Show("preview", [path |-> r.path, whole |-> ok /\ ~disk[r.path].big])
    /\ UNCHANGED <<plan, disk, tmp, eds, edits, choice, pullVars, late>>

NewEditor(p, file) ==
    [path |-> p, text |-> file.text, head |-> file.big, dirty |-> FALSE,
     save |-> "no", sent |-> 0, bad |-> FALSE, armed |-> FALSE, raced |-> FALSE]

\* showFileEditor after its read: a file that cannot be read, and one that was
\* cut, are not opened.
TooBig(file) == file.big

ReadForEditor(r, ok) ==
    /\ r \in reads /\ r.op = "editor"
    /\ reads' = reads \ {r}
    /\ IF ~ok \/ TooBig(disk[r.path])
       THEN UNCHANGED <<shown, tangled, eds>>
       ELSE /\ Cardinality(DOMAIN eds) < plan.eds
            /\ LET e == Cardinality(DOMAIN eds) + 1 IN
               /\ eds' = [x \in 1..e |->
                     IF x = e THEN NewEditor(r.path, disk[r.path]) ELSE eds[x]]
               /\ Show("editor", e)
    /\ UNCHANGED <<plan, disk, tmp, edits, choice, pullVars, late>>

\* markDirty: the user types; a JSON text may be broken by it.
Type(bad) ==
    /\ Is("editor") /\ edits < plan.edits
    /\ LET e == shown.id IN
       /\ bad => eds[e].path \in JsonPaths
       /\ eds' = [eds EXCEPT ![e].text = edits + 1, ![e].dirty = TRUE, ![e].bad = bad,
                             ![e].armed = FALSE]
    /\ edits' = edits + 1
    /\ UNCHANGED <<plan, shown, reads, disk, tmp, setVars, pullVars, late>>

\* An agent or a shell writes the file.
OtherProgram(p, big) ==
    /\ "editor" \in plan.opens /\ edits < plan.edits
    /\ edits' = edits + 1
    /\ disk' = [disk EXCEPT ![p] =
          [text |-> edits + 1, by |-> Outside, big |-> big, head |-> FALSE]]
    /\ UNCHANGED <<plan, shown, reads, tmp, eds, setVars, pullVars, late>>

-----------------------------------------------------------------------------
(* Saving and leaving the editor.                                          *)

\* save(): one at a time, and never a broken JSON.
Saved(ed) == IF ed.save # "no" \/ ed.bad THEN ed
             ELSE [ed EXCEPT !.save = "sent", !.sent = ed.text]

SaveButton ==
    /\ Is("editor")
    /\ eds' = [eds EXCEPT ![shown.id] = Saved(eds[shown.id])]
    /\ UNCHANGED <<plan, shown, reads, disk, tmp, edits, setVars, pullVars, late>>

\* The keys that reach the element: every editor's listener hears them.
Listeners == DOMAIN eds

\* Ctrl+S in a dialog.
SaveKey ==
    /\ ~Is("none")
    /\ eds' = [e \in DOMAIN eds |-> IF e \in Listeners THEN Saved(eds[e]) ELSE eds[e]]
    /\ UNCHANGED <<plan, shown, reads, disk, tmp, edits, setVars, pullVars, late>>

\* write_text_file: the temporary file has one name per file, so two saves of
\* one file may meet in it.
WriteTmp(e) ==
    /\ e \in DOMAIN eds /\ eds[e].save = "sent"
    /\ tmp' = [tmp EXCEPT ![eds[e].path] =
          <<[text |-> eds[e].sent, by |-> e, big |-> FALSE, head |-> eds[e].head]>>]
    /\ eds' = [eds EXCEPT ![e].save = "written"]
    /\ UNCHANGED <<plan, shown, reads, disk, edits, setVars, pullVars, late>>

Rename(e) ==
    /\ e \in DOMAIN eds /\ eds[e].save = "written"
    /\ LET p == eds[e].path IN
       IF tmp[p] = << >>
       THEN /\ eds' = [eds EXCEPT ![e].save = "failed"] /\ UNCHANGED <<disk, tmp>>
       ELSE /\ eds' = [eds EXCEPT ![e].save = "done"]
            /\ disk' = [disk EXCEPT ![p] = tmp[p][1]]
            /\ tmp' = [tmp EXCEPT ![p] = << >>]
    /\ UNCHANGED <<plan, shown, reads, edits, setVars, pullVars, late>>

WriteFails(e) ==
    /\ e \in DOMAIN eds /\ eds[e].save = "sent"
    /\ eds' = [eds EXCEPT ![e].save = "failed"]
    /\ UNCHANGED <<plan, shown, reads, disk, tmp, edits, setVars, pullVars, late>>

\* After the await: "saved" clears the mark of unsaved text, even of text
\* typed since the save was sent ("raced").
AfterSaveMutant(ed) ==
    [ed EXCEPT !.save = "no", !.dirty = FALSE, !.raced = ed.text # ed.sent, !.sent = 0]
AfterSave(ed) ==
    IF ed.save = "failed" THEN [ed EXCEPT !.save = "no", !.sent = 0]
    ELSE [ed EXCEPT !.save = "no", !.dirty = FALSE, !.raced = ed.text # ed.sent, !.sent = 0]

SaveAnswered(e) ==
    /\ e \in DOMAIN eds /\ eds[e].save \in {"done", "failed"}
    /\ eds' = [eds EXCEPT ![e] = AfterSave(eds[e])]
    /\ UNCHANGED <<plan, shown, reads, disk, tmp, edits, setVars, pullVars, late>>

\* The cancel button: closes a clean editor, and a dirty one when clicked twice.
Cancel ==
    /\ Is("editor")
    /\ LET ed == eds[shown.id] IN
       IF ed.dirty /\ ~ed.armed
       THEN /\ eds' = [eds EXCEPT ![shown.id].armed = TRUE]
            /\ UNCHANGED <<shown, tangled>>
       ELSE Close(shown) /\ eds' = [eds EXCEPT ![shown.id].armed = FALSE]
    /\ UNCHANGED <<plan, reads, disk, tmp, edits, choice, pullVars, late>>

\* CONFIRM_ARM_MS later.
Disarm(e) ==
    /\ e \in DOMAIN eds /\ eds[e].armed
    /\ eds' = [eds EXCEPT ![e].armed = FALSE]
    /\ UNCHANGED <<plan, shown, reads, disk, tmp, edits, setVars, pullVars, late>>

-----------------------------------------------------------------------------
(* Settings: what is chosen is in effect at once, and undone by leaving.   *)

UnderWay(i)   == sets[i].hooks > 0 \/ \E n \in DOMAIN saving : saving[n].dlg = i
Unfinished(i) == ~sets[i].open \/ UnderWay(i)

\* The font in effect is noted when the dialog is asked for, the rest when it
\* is drawn: two answers lie between.
AskSettings ==
    /\ "settings" \in plan.opens /\ Is("none") /\ Cardinality(DOMAIN sets) < plan.sets
    /\ LET i == Cardinality(DOMAIN sets) + 1
           new == [open |-> FALSE, before |-> live, chosen |-> live,
                   restores |-> FALSE, picking |-> FALSE, hooks |-> 0]
       IN sets' = [x \in 1..i |-> IF x = i THEN new ELSE sets[x]]
    /\ tangled' = (tangled \/ \E i \in DOMAIN sets : Unfinished(i))
    /\ UNCHANGED <<plan, shown, fileVars, live, kept, saving, astray, pullVars, late>>

DrawSettings(i) ==
    /\ i \in DOMAIN sets /\ ~sets[i].open
    /\ Show("settings", i)
    /\ sets' = [sets EXCEPT ![i].open = TRUE, ![i].restores = TRUE,
                            ![i].before.look = live.look, ![i].chosen.look = live.look]
    /\ UNCHANGED <<plan, fileVars, live, kept, saving, astray, pullVars, late>>

\* What is in effect by now stays so: the dialog was left, or its save is answered
\* and goes on with the hooks.
Strays(i) == ~(Is("settings") /\ shown.id = i) \/ sets[i].hooks > 0

PreviewFont(f) ==
    /\ Is("settings")
    /\ sets' = [sets EXCEPT ![shown.id].chosen.font = f]
    /\ live' = [live EXCEPT !.font = f]
    /\ astray' = (astray \/ Strays(shown.id))
    /\ UNCHANGED <<plan, shown, fileVars, kept, saving, tangled, pullVars, late>>

\* The button for a font file: the system's file dialog, one at a time (bound).
PickFont ==
    /\ Is("settings") /\ ~sets[shown.id].picking
    /\ sets' = [sets EXCEPT ![shown.id].picking = TRUE]
    /\ UNCHANGED <<plan, shown, fileVars, live, kept, saving, astray, tangled, pullVars, late>>

\* The file's font is previewed whatever became of the settings dialog.
FontPicked(i, f) ==
    /\ i \in DOMAIN sets /\ sets[i].picking
    /\ sets' = [sets EXCEPT ![i].picking = FALSE, ![i].chosen.font = f]
    /\ live' = [live EXCEPT !.font = f]
    /\ astray' = (astray \/ Strays(i))
    /\ UNCHANGED <<plan, shown, fileVars, kept, saving, tangled, pullVars, late>>

NothingPicked(i) ==
    /\ i \in DOMAIN sets /\ sets[i].picking
    /\ sets' = [sets EXCEPT ![i].picking = FALSE]
    /\ UNCHANGED <<plan, shown, fileVars, live, kept, saving, astray, tangled, pullVars, late>>

PreviewLook(v) ==
    /\ Is("settings")
    /\ sets' = [sets EXCEPT ![shown.id].chosen.look = v]
    /\ live' = [live EXCEPT !.look = v]
    /\ astray' = (astray \/ Strays(shown.id))
    /\ UNCHANGED <<plan, shown, fileVars, kept, saving, tangled, pullVars, late>>

\* restoreRead: what is in effect again after the cancel button.
UndoneMutant(i) == [sets[i].before EXCEPT !.font = live.font]
Undone(i) == sets[i].before

CancelSettings ==
    /\ Is("settings")
    /\ live' = Undone(shown.id)
    /\ sets' = [sets EXCEPT ![shown.id].restores = FALSE]
    /\ astray' = (astray \/ Strays(shown.id))
    /\ shown' = Nothing
    /\ UNCHANGED <<plan, fileVars, kept, saving, tangled, pullVars, late>>

\* The save button may be clicked again before the first save is through.
SaveSettings ==
    /\ Is("settings")
    /\ Len(saving) + sets[shown.id].hooks < plan.saves     \* bound
    /\ sets' = [sets EXCEPT ![shown.id].restores = FALSE]
    /\ saving' = Append(saving, [dlg |-> shown.id, want |-> sets[shown.id].chosen])
    /\ UNCHANGED <<plan, shown, fileVars, live, kept, astray, tangled, pullVars, late>>

\* The answer of update_settings, with all the settings: they are in effect, and the
\* dialog goes, at once or when the hooks of the tools are changed.  The backend changes its
\* settings before it saves them, so after a failure it still has the new ones.
SettingsAnswered(ok, hooks) ==
    /\ saving # << >>
    /\ saving' = Tail(saving)
    /\ kept' = Head(saving).want
    /\ LET i == Head(saving).dlg IN
       \/ /\ ok /\ live' = kept' /\ astray' = FALSE
          /\ \/ hooks /\ sets' = [sets EXCEPT ![i].hooks = @ + 1] /\ UNCHANGED <<shown, tangled>>
             \/ ~hooks /\ Close([kind |-> "settings", id |-> i]) /\ UNCHANGED sets
       \/ /\ ~ok /\ live' = sets[i].before /\ tangled' = TRUE
          /\ UNCHANGED <<shown, sets, astray>>
    /\ UNCHANGED <<plan, fileVars, pullVars, late>>

\* setClaudeHooks, setCodexHooks have answered: until then the dialog was still usable.
HooksSet(i) ==
    /\ i \in DOMAIN sets /\ sets[i].hooks > 0
    /\ sets' = [sets EXCEPT ![i].hooks = @ - 1]
    /\ Close([kind |-> "settings", id |-> i])
    /\ UNCHANGED <<plan, fileVars, live, kept, saving, astray, pullVars, late>>

-----------------------------------------------------------------------------
(* Esc.                                                                    *)

\* The Esc listeners settings dialogs left on the document run first, the
\* newest last.
Restorers == {i \in DOMAIN sets : sets[i].restores}
Restored  == IF Restorers = {} THEN live
             ELSE sets[CHOOSE i \in Restorers : \A j \in Restorers : j <= i].before

\* An editor's listener with unsaved text takes the key and clicks its own
\* cancel button; the dialog's own listener then never hears it.
Hears(inside)  == {e \in Listeners : inside /\ eds[e].dirty}
Confirmed(inside) == {e \in Hears(inside) : eds[e].armed}

EscKey(inside) ==
    /\ ~Is("none") \/ Restorers # {}
    /\ inside => ~Is("none")
    /\ live' = Restored
    /\ sets' = [i \in DOMAIN sets |-> [sets[i] EXCEPT !.restores = FALSE]]
    /\ eds' = [e \in DOMAIN eds |->
          IF e \in Hears(inside) THEN [eds[e] EXCEPT !.armed = ~@] ELSE eds[e]]
    /\ IF Hears(inside) = {} \/ Confirmed(inside) # {}
       THEN shown' = Nothing /\ UNCHANGED tangled
       ELSE UNCHANGED shown /\ tangled' = (tangled \/ Is("settings"))
    /\ UNCHANGED <<plan, reads, disk, tmp, edits, kept, saving, astray, pullVars, late>>

\* The close button of the others, and the space bar in a preview.
CloseButton ==
    /\ shown.kind \in {"preview", "pull", "update", "clear"}
    /\ Close(shown)
    /\ UNCHANGED <<plan, fileVars, choice, pullVars, late>>

-----------------------------------------------------------------------------
(* Dialogs that open and close by themselves.                              *)

\* runGitPull, from the button in a pane's head or again from the diagnosis.
StartPull ==
    /\ "pull" \in plan.opens /\ ~pulling
    /\ \/ Is("none") /\ UNCHANGED <<shown, tangled>>
       \/ Is("pull") /\ Close(shown)
    /\ pulling' = TRUE /\ armed' = NoFile
    /\ UNCHANGED <<plan, fileVars, choice, late>>

\* After the pull and the recount; a failure opens the diagnosis.
EndPull(ok) ==
    /\ pulling /\ pulling' = FALSE
    /\ IF ok THEN UNCHANGED <<shown, tangled, armed>>
       ELSE Show("pull", 0) /\ armed' = NoFile
    /\ UNCHANGED <<plan, fileVars, choice, late>>

\* The discard button of a file that blocked the pull: a second click within
\* four seconds puts the committed text back.
ArmDiscard(p) ==
    /\ Is("pull") /\ armed = NoFile
    /\ armed' = p
    /\ UNCHANGED <<plan, shown, fileVars, setVars, pulling, late>>

DisarmDiscard ==
    /\ armed # NoFile
    /\ armed' = NoFile
    /\ UNCHANGED <<plan, shown, fileVars, setVars, pulling, late>>

Discard ==
    /\ Is("pull") /\ armed # NoFile
    /\ armed' = NoFile
    /\ disk' = [disk EXCEPT ![armed] =
          [text |-> 0, by |-> Outside, big |-> FALSE, head |-> FALSE]]
    /\ UNCHANGED <<plan, shown, reads, tmp, eds, edits, setVars, pulling, late>>

\* checkUpdate: asked at the start, shown when it answers.
ShowUpdate ==
    /\ "update" \in late
    /\ late' = late \ {"update"}
    /\ Show("update", 0)
    /\ UNCHANGED <<plan, fileVars, choice, pullVars>>

\* showClearSessionsModal, and its close() when every session is closed.
AskClear ==
    /\ "clear" \in plan.opens /\ Is("none")
    /\ Show("clear", 0)
    /\ UNCHANGED <<plan, fileVars, choice, pullVars, late>>

ClearSessions ==
    /\ Is("clear") /\ "cleared" \notin late
    /\ late' = late \cup {"cleared"}
    /\ UNCHANGED <<plan, shown, fileVars, setVars, pullVars>>

SessionsCleared ==
    /\ "cleared" \in late
    /\ late' = late \ {"cleared"}
    /\ Close([kind |-> "clear", id |-> 0])
    /\ UNCHANGED <<plan, fileVars, choice, pullVars>>

-----------------------------------------------------------------------------
Default == [font |-> 0, look |-> 0]

DialogsInit ==
    /\ plan \in Plans
    /\ shown = Nothing
    /\ reads = {} /\ eds = << >> /\ edits = 0
    /\ disk = [p \in Paths |-> [text |-> 0, by |-> Outside, big |-> FALSE, head |-> FALSE]]
    /\ tmp = [p \in Paths |-> << >>]
    /\ sets = << >> /\ live = Default /\ kept = Default /\ saving = << >>
    /\ astray = FALSE /\ tangled = FALSE
    /\ pulling = FALSE /\ armed = NoFile
    /\ late = plan.opens \cap {"update"}

EditorNext ==
    \/ \E p \in Paths : \/ AskPreview(p) \/ AskEditor(p)
                      \/ \E big \in BOOLEAN : OtherProgram(p, big)
    \/ \E r \in reads, ok \in BOOLEAN : ReadForPreview(r, ok) \/ ReadForEditor(r, ok)
    \/ \E bad \in BOOLEAN : Type(bad)
    \/ SaveButton \/ SaveKey \/ Cancel
    \/ \E e \in DOMAIN eds : \/ WriteTmp(e) \/ Rename(e) \/ WriteFails(e)
                           \/ SaveAnswered(e) \/ Disarm(e)

SettingsNext ==
    \/ AskSettings \/ CancelSettings \/ PickFont \/ SaveSettings
    \/ \E ok, hooks \in BOOLEAN : SettingsAnswered(ok, hooks)
    \/ \E i \in DOMAIN sets : DrawSettings(i) \/ NothingPicked(i) \/ HooksSet(i)
    \/ \E v \in {0, 1} : \/ PreviewFont(v) \/ PreviewLook(v)
                        \/ \E i \in DOMAIN sets : FontPicked(i, v)

SlotNext ==
    \/ \E inside \in BOOLEAN : EscKey(inside)
    \/ CloseButton \/ StartPull \/ \E ok \in BOOLEAN : EndPull(ok)
    \/ \E p \in Paths : ArmDiscard(p)
    \/ DisarmDiscard \/ Discard \/ ShowUpdate
    \/ AskClear \/ ClearSessions \/ SessionsCleared

DialogsNext == EditorNext \/ SettingsNext \/ SlotNext

-----------------------------------------------------------------------------
(* Properties.                                                             *)

\* What the editor calls saved is on the disk: with no unsaved mark, no save
\* under way and nothing typed during the last one, a file whose text came from
\* this editor holds what the editor shows; and no file ever holds the cut-off
\* head of a larger one.
FilesKept ==
    /\ Is("editor") =>
         LET ed == eds[shown.id] IN
         (~ed.dirty /\ ed.save = "no" /\ ~ed.raced /\ disk[ed.path].by = shown.id)
            => disk[ed.path].text = ed.text
    /\ \A p \in Paths : ~disk[p].head

\* Leaving the settings undoes their preview: with no settings dialog shown
\* and no save under way, the settings in effect are the backend's.  Left out,
\* until a later save is answered, are the previews the code itself leaves behind: one
\* made, or a cancel clicked, while a save that is answered changes the hooks, and
\* a font file chosen after its dialog was left (README, deviations); and runs in which
\* settings dialogs overlapped, one lost the slot to another dialog, or a save
\* failed (the comments at modals.js:567, 595 and 618).
PreviewUndone ==
    (~tangled /\ ~astray /\ ~Is("settings") /\ \A i \in DOMAIN sets : ~UnderWay(i))
        => live = kept

\* An editor the user has left, discarding its changes or not, does not write
\* its file again ("save and cancel buttons and Ctrl+S", editor.js:6, and
\* "discard the changes", editor.js:107).
LeftEditorIsQuiet ==
    [][\A e \in DOMAIN eds :
         (eds[e].save = "no" /\ eds'[e].save = "sent") => Is("editor") /\ shown.id = e
      ]_dialogVars
=============================================================================
