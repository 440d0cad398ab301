--------------------------- MODULE Desktop_proofs ---------------------------
(***************************************************************************)
(* Proofs about the desktop window: the dialogs that keep something the    *)
(* user can lose (Dialogs, Projects), the lists of projects, presets and   *)
(* recipes on the page and in the backend (Projects), and the file tree    *)
(* (Explorer).                                                             *)
(***************************************************************************)
EXTENDS Projects, Explorer, FiniteSetTheorems, SequenceTheorems, TLAPS

-----------------------------------------------------------------------------
(* The file editor                                                         *)

EditorFields == {"path", "text", "head", "dirty", "save", "sent", "bad", "armed", "raced"}
IsEditor(ed) == /\ ed = [f \in EditorFields |-> ed[f]]
                /\ ed.path \in Paths /\ ~ed.head

\* What an editor says of the text it saved, of which the disk has "text" when
\* the file there came from this editor ("on"): a clean editor sends what it
\* shows, and has what it shows on the disk unless it was typed into meanwhile.
Honest(on, text, ed) ==
  /\ (ed.save # "no" /\ ~ed.dirty) => ed.sent = ed.text
  /\ (on /\ ed.save = "done") => text = ed.sent
  /\ (on /\ ~ed.dirty /\ ~ed.raced) => text = ed.text

EditorsInv ==
  /\ \E n \in Nat : DOMAIN eds = 1..n
  /\ eds = [e \in DOMAIN eds |-> eds[e]]
  /\ \A e \in DOMAIN eds : IsEditor(eds[e])
  /\ \A e \in DOMAIN eds : Honest(disk[eds[e].path].by = e, disk[eds[e].path].text, eds[e])

\* The files, and what is in a temporary file: what the editor that wrote it
\* sent, and has not yet renamed.
FilesOnDisk ==
  /\ disk = [p \in Paths |-> disk[p]]
  /\ \A p \in Paths : ~disk[p].head /\ disk[p].by \in DOMAIN eds \cup {Outside}

Written(p, t) ==
  /\ t.by \in DOMAIN eds /\ ~t.head
  /\ eds[t.by].path = p /\ eds[t.by].save = "written" /\ eds[t.by].sent = t.text

TmpInv ==
  /\ tmp = [p \in Paths |-> tmp[p]]
  /\ \A p \in Paths : tmp[p] # << >> => Written(p, tmp[p][1])

EditorIsThere ==
  /\ Is("editor") => shown.id \in DOMAIN eds
  /\ \A r \in reads : r.path \in Paths

FilesInv == EditorsInv /\ FilesOnDisk /\ TmpInv /\ EditorIsThere

LEMMA FilesInit == ASSUME DialogsInit PROVE FilesInv
<1>1. DOMAIN eds = 1..0 /\ 0 \in Nat
  BY DEF DialogsInit
<1>2. EditorsInv
  BY <1>1 DEF EditorsInv, DialogsInit
<1>3. FilesOnDisk
  BY DEF FilesOnDisk, DialogsInit
<1>4. TmpInv /\ EditorIsThere
  BY DEF TmpInv, EditorIsThere, DialogsInit, Is, Nothing
<1> QED BY <1>2, <1>3, <1>4 DEF FilesInv

\* What an editor does that writes nothing: it keeps its file, and what it says
\* stays true.
Turn(a, b) ==
  /\ b = [f \in EditorFields |-> b[f]]
  /\ b.path = a.path /\ b.head = a.head
  /\ a.save = "written" => b.save = "written" /\ b.sent = a.sent
  /\ \A on, text : Honest(on, text, a) => Honest(on, text, b)

LEMMA TurnSelf == ASSUME NEW a, IsEditor(a) PROVE Turn(a, a)
  BY DEF Turn, IsEditor


LEMMA EditorsTurn ==
  ASSUME FilesInv, UNCHANGED <<disk, tmp>>,
         eds' = [e \in DOMAIN eds |-> eds'[e]],
         \A e \in DOMAIN eds : Turn(eds[e], eds'[e])
  PROVE  EditorsInv' /\ FilesOnDisk' /\ TmpInv' /\ DOMAIN eds' = DOMAIN eds
<1>1. DOMAIN eds' = DOMAIN eds
  OBVIOUS
<1>2. EditorsInv'
  <2>1. \A e \in DOMAIN eds : IsEditor(eds'[e])
    BY DEF FilesInv, EditorsInv, IsEditor, Turn
  <2>2. \A e \in DOMAIN eds :
           Honest(disk[eds'[e].path].by = e, disk[eds'[e].path].text, eds'[e])
    BY DEF FilesInv, EditorsInv, Turn
  <2> QED BY <1>1, <2>1, <2>2 DEF FilesInv, EditorsInv
<1>3. FilesOnDisk'
  BY <1>1 DEF FilesInv, FilesOnDisk
<1>4. TmpInv'
  <2>1. ASSUME NEW p \in Paths, tmp[p] # << >> PROVE Written(p, tmp[p][1])'
    <3>1. Written(p, tmp[p][1])
      BY <2>1 DEF FilesInv, TmpInv
    <3> QED BY <1>1, <3>1 DEF Written, Turn
  <2> QED BY <2>1 DEF FilesInv, TmpInv
<1> QED BY <1>1, <1>2, <1>3, <1>4

LEMMA SavedTurns == ASSUME NEW ed, IsEditor(ed) PROVE Turn(ed, Saved(ed))
<1>1. CASE ed.save # "no" \/ ed.bad
  BY <1>1, TurnSelf DEF Saved
<1>2. CASE ed.save = "no" /\ ~ed.bad
  BY <1>2 DEF Saved, Turn, IsEditor, EditorFields, Honest
<1> QED BY <1>1, <1>2

LEMMA AfterSaveTurns ==
  ASSUME NEW ed, IsEditor(ed), ed.save \in {"done", "failed"}
  PROVE  Turn(ed, AfterSave(ed))
<1>1. CASE ed.save = "failed"
  BY <1>1 DEF AfterSave, Turn, IsEditor, EditorFields, Honest
<1>2. CASE ed.save = "done"
  BY <1>2 DEF AfterSave, Turn, IsEditor, EditorFields, Honest
<1> QED BY <1>1, <1>2

\* An editor that only arms or disarms its cancel button.
LEMMA ArmTurns ==
  ASSUME NEW ed, IsEditor(ed), NEW b PROVE Turn(ed, [ed EXCEPT !.armed = b])
  BY DEF Turn, IsEditor, EditorFields, Honest

LEMMA TypeTurns ==
  ASSUME NEW ed, IsEditor(ed), NEW n, NEW bad
  PROVE  Turn(ed, [ed EXCEPT !.text = n, !.dirty = TRUE, !.bad = bad, !.armed = FALSE])
  BY DEF Turn, IsEditor, EditorFields, Honest

LEMMA FailTurns ==
  ASSUME NEW ed, IsEditor(ed), ed.save = "sent"
  PROVE  Turn(ed, [ed EXCEPT !.save = "failed"])
  BY DEF Turn, IsEditor, EditorFields, Honest

\* One editor turns, the others stay.
LEMMA OneTurns ==
  ASSUME FilesInv, UNCHANGED <<disk, tmp, reads>>, NEW e \in DOMAIN eds, NEW b,
         Turn(eds[e], b), eds' = [eds EXCEPT ![e] = b],
         Is("editor")' => UNCHANGED shown
  PROVE  FilesInv'
<1>1. eds' = [x \in DOMAIN eds |-> eds'[x]] /\ \A x \in DOMAIN eds : Turn(eds[x], eds'[x])
  BY TurnSelf DEF FilesInv, EditorsInv
<1>2. EditorsInv' /\ FilesOnDisk' /\ TmpInv' /\ DOMAIN eds' = DOMAIN eds
  BY <1>1, EditorsTurn
<1> QED BY <1>2 DEF FilesInv, EditorIsThere, Is

LEMMA FilesStay ==
  ASSUME FilesInv, UNCHANGED <<disk, tmp, eds>>, reads' \subseteq reads,
         Is("editor")' => UNCHANGED shown
  PROVE  FilesInv'
<1>1. EditorsInv' BY DEF FilesInv, EditorsInv
<1>2. FilesOnDisk' BY DEF FilesInv, FilesOnDisk
<1>3. TmpInv' BY DEF FilesInv, TmpInv, Written
<1> QED BY <1>1, <1>2, <1>3 DEF FilesInv, EditorIsThere, Is

LEMMA AskedFiles ==
  ASSUME FilesInv, NEW p \in Paths, AskPreview(p) \/ AskEditor(p) PROVE FilesInv'
<1>1. UNCHANGED <<disk, tmp, eds, shown>> /\ \A r \in reads' : r.path \in Paths
  BY DEF FilesInv, EditorIsThere, AskPreview, AskEditor
<1>2. EditorsInv' BY <1>1 DEF FilesInv, EditorsInv
<1>3. FilesOnDisk' BY <1>1 DEF FilesInv, FilesOnDisk
<1>4. TmpInv' BY <1>1 DEF FilesInv, TmpInv, Written
<1> QED BY <1>1, <1>2, <1>3, <1>4 DEF FilesInv, EditorIsThere, Is

\* A new editor shows what is on the disk and has saved nothing.
LEMMA OpenedFiles ==
  ASSUME FilesInv, NEW r \in reads, NEW ok \in BOOLEAN, ReadForEditor(r, ok) PROVE FilesInv'
<1>1. CASE ~ok \/ TooBig(disk[r.path])
  BY <1>1, FilesStay DEF ReadForEditor, Is
<1>2. CASE ok /\ ~TooBig(disk[r.path])
  <2> DEFINE n == Cardinality(DOMAIN eds)
             new == NewEditor(r.path, disk[r.path])
  <2>1. n \in Nat /\ DOMAIN eds = 1..n
    <3>1. PICK k \in Nat : DOMAIN eds = 1..k
      BY DEF FilesInv, EditorsInv
    <3>2. Cardinality(1..k) = k
      BY FS_Interval
    <3> QED BY <3>1, <3>2
  <2>2. r.path \in Paths
    BY DEF FilesInv, EditorIsThere
  <2>3. eds' = [x \in 1..n + 1 |-> IF x = n + 1 THEN new ELSE eds[x]] /\ Show("editor", n + 1)
    BY <1>2 DEF ReadForEditor
  <2>4. UNCHANGED <<disk, tmp>> /\ reads' \subseteq reads /\ shown' = [kind |-> "editor", id |-> n + 1]
    BY <1>2, <2>3 DEF ReadForEditor, Show
  <2>5. IsEditor(new)
    BY <1>2, <2>2 DEF IsEditor, NewEditor, EditorFields, TooBig
  <2>6. new.path = r.path /\ new.save = "no" /\ ~new.dirty
    BY DEF NewEditor
  <2> HIDE DEF n, new
  <2>7. DOMAIN eds' = 1..n + 1 /\ n + 1 \in Nat /\ eds'[n + 1] = new /\ n + 1 \in DOMAIN eds'
        /\ \A x \in DOMAIN eds : x \in DOMAIN eds' /\ eds'[x] = eds[x] /\ x # n + 1
    BY <2>1, <2>3
  <2>8. \A x \in DOMAIN eds' : x = n + 1 \/ x \in DOMAIN eds
    BY <2>1, <2>7
  <2>9. disk[r.path].by # n + 1
    BY <2>1, <2>2 DEF FilesInv, FilesOnDisk, Outside
  <2>10. EditorsInv'
    <3>1. \A x \in DOMAIN eds' : IsEditor(eds'[x])
      BY <2>5, <2>7, <2>8 DEF FilesInv, EditorsInv
    <3>2. \A x \in DOMAIN eds' :
             Honest(disk'[eds'[x].path].by = x, disk'[eds'[x].path].text, eds'[x])
      <4>1. ASSUME NEW x \in DOMAIN eds
            PROVE  Honest(disk'[eds'[x].path].by = x, disk'[eds'[x].path].text, eds'[x])
        BY <2>4, <2>7 DEF FilesInv, EditorsInv
      <4>2. Honest(disk'[new.path].by = n + 1, disk'[new.path].text, new)
        BY <2>4, <2>6, <2>9 DEF Honest
      <4> QED BY <2>7, <2>8, <4>1, <4>2
    <3>3. eds' = [x \in DOMAIN eds' |-> eds'[x]]
      BY <2>3, <2>7
    <3> QED BY <2>7, <3>1, <3>2, <3>3 DEF EditorsInv
  <2>11. FilesOnDisk'
    BY <2>4, <2>7 DEF FilesInv, FilesOnDisk
  <2>12. TmpInv'
    BY <2>4, <2>7 DEF FilesInv, TmpInv, Written
  <2>13. EditorIsThere'
    BY <2>4, <2>7 DEF FilesInv, EditorIsThere, Is
  <2> QED BY <2>10, <2>11, <2>12, <2>13 DEF FilesInv
<1> QED BY <1>1, <1>2

\* A text from outside: no editor has it on the disk.
LEMMA OutsideFiles ==
  ASSUME FilesInv, NEW p, NEW n, NEW big,
         disk' = [disk EXCEPT ![p] = [text |-> n, by |-> Outside, big |-> big, head |-> FALSE]],
         UNCHANGED <<tmp, eds, reads>>, Is("editor")' => UNCHANGED shown
  PROVE  FilesInv'
<1> DEFINE new == [text |-> n, by |-> Outside, big |-> big, head |-> FALSE]
<1>1. disk' = [q \in Paths |-> IF q = p THEN new ELSE disk[q]]
  BY DEF FilesInv, FilesOnDisk
<1>2. new.by = Outside /\ ~new.head
  OBVIOUS
<1> HIDE DEF new
<1>3. \A e \in DOMAIN eds : e # Outside
  BY DEF FilesInv, EditorsInv, Outside
<1>4. EditorsInv'
  <2>1. ASSUME NEW e \in DOMAIN eds
        PROVE  Honest(disk'[eds[e].path].by = e, disk'[eds[e].path].text, eds[e])
    <3>1. /\ eds[e].path \in Paths
          /\ Honest(disk[eds[e].path].by = e, disk[eds[e].path].text, eds[e])
      BY DEF FilesInv, EditorsInv, IsEditor
    <3>2. CASE eds[e].path # p
      BY <1>1, <3>1, <3>2
    <3>3. CASE eds[e].path = p
      BY <1>1, <1>2, <1>3, <3>1, <3>3 DEF Honest
    <3> QED BY <3>2, <3>3
  <2> QED BY <2>1 DEF FilesInv, EditorsInv
<1>5. FilesOnDisk'
  BY <1>1, <1>2 DEF FilesInv, FilesOnDisk
<1>6. TmpInv'
  BY DEF FilesInv, TmpInv, Written
<1> QED BY <1>4, <1>5, <1>6 DEF FilesInv, EditorIsThere, Is

LEMMA WriteTmpFiles ==
  ASSUME FilesInv, NEW e \in DOMAIN eds, WriteTmp(e) PROVE FilesInv'
<1> DEFINE ed == eds[e]
           wrote == [ed EXCEPT !.save = "written"]
           text == [text |-> ed.sent, by |-> e, big |-> FALSE, head |-> ed.head]
<1>1. IsEditor(ed) /\ ed.save = "sent" /\ ed.path \in Paths /\ ~ed.head
  BY DEF FilesInv, EditorsInv, IsEditor, WriteTmp
<1>2. /\ UNCHANGED <<plan, shown, reads, disk>>
      /\ eds' = [eds EXCEPT ![e].save = "written"]
      /\ tmp' = [tmp EXCEPT ![ed.path] = <<text>>]
  BY DEF WriteTmp
<1>3. eds' = [x \in DOMAIN eds |-> IF x = e THEN wrote ELSE eds[x]]
  BY <1>2 DEF FilesInv, EditorsInv
<1>4. tmp' = [p \in Paths |-> IF p = ed.path THEN <<text>> ELSE tmp[p]]
  BY <1>2 DEF FilesInv, TmpInv
<1>5. /\ IsEditor(wrote) /\ wrote.save = "written"
      /\ wrote.path = ed.path /\ wrote.sent = ed.sent
      /\ \A on, t : Honest(on, t, ed) => Honest(on, t, wrote)
  BY <1>1 DEF IsEditor, EditorFields, Honest
<1>6. text.text = ed.sent /\ text.by = e /\ text.head = ed.head /\ <<text>>[1] = text
  OBVIOUS
<1> HIDE DEF wrote, text
<1>7. DOMAIN eds' = DOMAIN eds /\ eds' = [x \in DOMAIN eds' |-> eds'[x]]
  BY <1>3
<1>8. EditorsInv'
  <2>1. ASSUME NEW x \in DOMAIN eds
        PROVE  IsEditor(eds'[x])
               /\ Honest(disk[eds'[x].path].by = x, disk[eds'[x].path].text, eds'[x])
    BY <1>3, <1>5 DEF FilesInv, EditorsInv
  <2> QED BY <1>2, <1>7, <2>1 DEF FilesInv, EditorsInv
<1>9. FilesOnDisk'
  BY <1>2, <1>7 DEF FilesInv, FilesOnDisk
<1>10. TmpInv'
  <2>1. ASSUME NEW p \in Paths, tmp'[p] # << >> PROVE Written(p, tmp[p][1])'
    <3>1. CASE p = ed.path
      BY <1>1, <1>3, <1>4, <1>5, <1>6, <1>7, <3>1 DEF Written
    <3>2. CASE p # ed.path
      <4>1. tmp'[p] = tmp[p] /\ Written(p, tmp[p][1])
        BY <1>4, <2>1, <3>2 DEF FilesInv, TmpInv
      <4> QED BY <1>3, <1>7, <3>2, <4>1 DEF Written
    <3> QED BY <3>1, <3>2
  <2> QED BY <1>4, <2>1 DEF TmpInv
<1> QED BY <1>2, <1>7, <1>8, <1>9, <1>10 DEF FilesInv, EditorIsThere, Is

\* The rename puts what the temporary file holds in the file: what the editor
\* that wrote it sent, be it the one that renames or another.
LEMMA RenameFiles ==
  ASSUME FilesInv, NEW e \in DOMAIN eds, Rename(e) PROVE FilesInv'
<1> DEFINE ed == eds[e]
           p == eds[e].path
<1>1. IsEditor(ed) /\ ed.save = "written" /\ p \in Paths
  BY DEF FilesInv, EditorsInv, IsEditor, Rename
<1>2. UNCHANGED <<plan, shown, reads>>
  BY DEF Rename
<1>3. CASE tmp[p] = << >>
  <2>1. eds' = [eds EXCEPT ![e].save = "failed"] /\ UNCHANGED <<disk, tmp>>
    BY <1>3 DEF Rename
  <2> DEFINE done == [ed EXCEPT !.save = "failed"]
  <2>2. eds' = [x \in DOMAIN eds |-> IF x = e THEN done ELSE eds[x]]
    BY <2>1 DEF FilesInv, EditorsInv
  <2>3. /\ IsEditor(done) /\ done.path = p
        /\ \A on, t : Honest(on, t, ed) => Honest(on, t, done)
    BY <1>1 DEF IsEditor, EditorFields, Honest
  <2> HIDE DEF done
  <2>4. DOMAIN eds' = DOMAIN eds /\ eds' = [x \in DOMAIN eds' |-> eds'[x]]
    BY <2>2
  <2>5. EditorsInv'
    <3>1. ASSUME NEW x \in DOMAIN eds
          PROVE  IsEditor(eds'[x])
                 /\ Honest(disk[eds'[x].path].by = x, disk[eds'[x].path].text, eds'[x])
      BY <2>2, <2>3 DEF FilesInv, EditorsInv
    <3> QED BY <2>1, <2>4, <3>1 DEF FilesInv, EditorsInv
  <2>6. FilesOnDisk'
    BY <2>1, <2>4 DEF FilesInv, FilesOnDisk
  <2>7. TmpInv'
    <3>1. ASSUME NEW q \in Paths, tmp[q] # << >> PROVE Written(q, tmp[q][1])'
      <4>1. Written(q, tmp[q][1])
        BY <3>1 DEF FilesInv, TmpInv
      <4>2. tmp[q][1].by # e
        BY <1>3, <3>1, <4>1 DEF Written
      <4> QED BY <2>1, <2>2, <2>4, <4>1, <4>2 DEF Written
    <3> QED BY <2>1, <3>1 DEF FilesInv, TmpInv
  <2> QED BY <1>2, <2>4, <2>5, <2>6, <2>7 DEF FilesInv, EditorIsThere, Is
<1>4. CASE tmp[p] # << >>
  <2> DEFINE t == tmp[p][1]
             done == [ed EXCEPT !.save = "done"]
  <2>1. /\ eds' = [eds EXCEPT ![e].save = "done"]
        /\ disk' = [disk EXCEPT ![p] = t]
        /\ tmp' = [tmp EXCEPT ![p] = << >>]
    BY <1>4 DEF Rename
  <2>2. Written(p, t)
    BY <1>1, <1>4 DEF FilesInv, TmpInv
  <2>3. eds' = [x \in DOMAIN eds |-> IF x = e THEN done ELSE eds[x]]
    BY <2>1 DEF FilesInv, EditorsInv
  <2>4. disk' = [q \in Paths |-> IF q = p THEN t ELSE disk[q]]
    BY <2>1 DEF FilesInv, FilesOnDisk
  <2>5. tmp' = [q \in Paths |-> IF q = p THEN << >> ELSE tmp[q]]
    BY <2>1 DEF FilesInv, TmpInv
  <2>6. /\ IsEditor(done) /\ done.path = p /\ done.sent = ed.sent /\ done.text = ed.text
        /\ done.dirty = ed.dirty /\ done.raced = ed.raced /\ done.save = "done"
    BY <1>1 DEF IsEditor, EditorFields
  <2> HIDE DEF done
  <2>7. DOMAIN eds' = DOMAIN eds /\ eds' = [x \in DOMAIN eds' |-> eds'[x]]
    BY <2>3
  <2>8. ASSUME NEW x \in DOMAIN eds
        PROVE  IsEditor(eds'[x])
               /\ Honest(disk'[eds'[x].path].by = x, disk'[eds'[x].path].text, eds'[x])
    <3>1. /\ IsEditor(eds[x]) /\ eds[x].path \in Paths
          /\ Honest(disk[eds[x].path].by = x, disk[eds[x].path].text, eds[x])
      BY DEF FilesInv, EditorsInv, IsEditor
    <3>2. CASE x # e /\ eds[x].path # p
      BY <2>3, <2>4, <3>1, <3>2
    <3>3. CASE x # e /\ eds[x].path = p
      <4>1. eds'[x] = eds[x] /\ disk'[eds'[x].path] = t
        BY <1>1, <2>3, <2>4, <3>3
      <4>2. Honest(t.by = x, t.text, eds[x])
        BY <2>2, <3>1, <3>3 DEF Written, Honest
      <4> QED BY <3>1, <4>1, <4>2
    <3>4. CASE x = e
      <4>1. eds'[x] = done /\ disk'[eds'[x].path] = t
        BY <1>1, <2>3, <2>4, <2>6, <3>4
      <4>2. Honest(t.by = e, t.text, done)
        BY <1>1, <2>2, <2>6, <3>1, <3>4 DEF Written, Honest
      <4> QED BY <2>6, <3>4, <4>1, <4>2
    <3> QED BY <3>2, <3>3, <3>4
  <2>9. EditorsInv'
    BY <2>7, <2>8 DEF FilesInv, EditorsInv
  <2>10. FilesOnDisk'
    BY <2>2, <2>4, <2>7 DEF FilesInv, FilesOnDisk, Written
  <2>11. TmpInv'
    <3>1. ASSUME NEW q \in Paths, tmp'[q] # << >> PROVE Written(q, tmp[q][1])'
      <4>1. q # p /\ tmp'[q] = tmp[q] /\ Written(q, tmp[q][1])
        BY <2>5, <3>1 DEF FilesInv, TmpInv
      <4>2. tmp[q][1].by # e
        BY <4>1 DEF Written
      <4> QED BY <2>3, <2>7, <4>1, <4>2 DEF Written
    <3> QED BY <2>5, <3>1 DEF TmpInv
  <2> QED BY <1>2, <2>7, <2>9, <2>10, <2>11 DEF FilesInv, EditorIsThere, Is
<1> QED BY <1>3, <1>4

\* Several editors turn at once: the Ctrl+S and Esc keys.
LEMMA KeyFiles ==
  ASSUME FilesInv, UNCHANGED <<disk, tmp, reads>>, Is("editor")' => UNCHANGED shown,
         eds' = [e \in DOMAIN eds |-> eds'[e]], \A e \in DOMAIN eds : Turn(eds[e], eds'[e])
  PROVE  FilesInv'
<1>1. EditorsInv' /\ FilesOnDisk' /\ TmpInv' /\ DOMAIN eds' = DOMAIN eds
  BY EditorsTurn
<1> QED BY <1>1 DEF FilesInv, EditorIsThere, Is

LEMMA EditorFiles == ASSUME FilesInv, EditorNext PROVE FilesInv'
<1>1. ASSUME NEW p \in Paths, AskPreview(p) \/ AskEditor(p) PROVE FilesInv'
  BY <1>1, AskedFiles
<1>2. ASSUME NEW p \in Paths, NEW big \in BOOLEAN, OtherProgram(p, big) PROVE FilesInv'
  BY <1>2, OutsideFiles DEF OtherProgram
<1>3. ASSUME NEW r \in reads, NEW ok \in BOOLEAN, ReadForPreview(r, ok) PROVE FilesInv'
  <2>1. UNCHANGED <<disk, tmp, eds>> /\ reads' \subseteq reads /\ ~Is("editor")'
    BY <1>3 DEF ReadForPreview, Show, Is
  <2> QED BY <2>1, FilesStay
<1>4. ASSUME NEW r \in reads, NEW ok \in BOOLEAN, ReadForEditor(r, ok) PROVE FilesInv'
  BY <1>4, OpenedFiles
<1>5. ASSUME NEW bad \in BOOLEAN, Type(bad) PROVE FilesInv'
  <2> DEFINE e == shown.id
             b == [eds[e] EXCEPT !.text = edits + 1, !.dirty = TRUE, !.bad = bad, !.armed = FALSE]
  <2>1. e \in DOMAIN eds /\ IsEditor(eds[e])
    BY <1>5 DEF Type, FilesInv, EditorIsThere, EditorsInv
  <2>2. eds' = [eds EXCEPT ![e] = b] /\ UNCHANGED <<disk, tmp, reads, shown>>
    BY <1>5 DEF Type
  <2>3. Turn(eds[e], b)
    BY <2>1, TypeTurns
  <2> HIDE DEF b, e
  <2> QED BY <2>1, <2>2, <2>3, OneTurns
<1>6. ASSUME SaveButton PROVE FilesInv'
  <2> DEFINE e == shown.id
  <2>1. e \in DOMAIN eds /\ IsEditor(eds[e])
    BY <1>6 DEF SaveButton, FilesInv, EditorIsThere, EditorsInv
  <2>2. eds' = [eds EXCEPT ![e] = Saved(eds[e])] /\ UNCHANGED <<disk, tmp, reads, shown>>
    BY <1>6 DEF SaveButton
  <2>3. Turn(eds[e], Saved(eds[e]))
    BY <2>1, SavedTurns
  <2> HIDE DEF e
  <2> QED BY <2>1, <2>2, <2>3, OneTurns
<1>7. ASSUME SaveKey PROVE FilesInv'
  <2>1. /\ eds' = [e \in DOMAIN eds |-> Saved(eds[e])]
        /\ UNCHANGED <<disk, tmp, reads, shown>>
    BY <1>7 DEF SaveKey, Listeners
  <2>2. \A e \in DOMAIN eds : Turn(eds[e], Saved(eds[e]))
    BY SavedTurns DEF FilesInv, EditorsInv
  <2>3. eds' = [e \in DOMAIN eds |-> eds'[e]] /\ \A e \in DOMAIN eds : Turn(eds[e], eds'[e])
    BY <2>1, <2>2
  <2> QED BY <2>1, <2>3, KeyFiles
<1>8. ASSUME Cancel PROVE FilesInv'
  <2> DEFINE e == shown.id
             b == [eds[e] EXCEPT !.armed = TRUE]
             c == [eds[e] EXCEPT !.armed = FALSE]
  <2>1. e \in DOMAIN eds /\ IsEditor(eds[e])
    BY <1>8 DEF Cancel, FilesInv, EditorIsThere, EditorsInv
  <2>2. UNCHANGED <<disk, tmp, reads>>
    BY <1>8 DEF Cancel
  <2>3. \/ eds' = [eds EXCEPT ![e] = b] /\ UNCHANGED shown
        \/ eds' = [eds EXCEPT ![e] = c] /\ shown' = Nothing
    BY <1>8 DEF Cancel, Close
  <2>4. Turn(eds[e], b) /\ Turn(eds[e], c)
    BY <2>1, ArmTurns
  <2>5. Is("editor")' => UNCHANGED shown
    BY <2>3 DEF Is, Nothing
  <2> HIDE DEF b, c, e
  <2> QED BY <2>1, <2>2, <2>3, <2>4, <2>5, OneTurns
<1>9. ASSUME NEW e \in DOMAIN eds, WriteTmp(e) \/ Rename(e) PROVE FilesInv'
  BY <1>9, WriteTmpFiles, RenameFiles
<1>10. ASSUME NEW e \in DOMAIN eds, WriteFails(e) PROVE FilesInv'
  <2> DEFINE b == [eds[e] EXCEPT !.save = "failed"]
  <2>1. eds' = [eds EXCEPT ![e] = b] /\ UNCHANGED <<disk, tmp, reads, shown>>
    BY <1>10 DEF WriteFails
  <2>2. Turn(eds[e], b)
    BY <1>10, FailTurns DEF WriteFails, FilesInv, EditorsInv
  <2> HIDE DEF b
  <2> QED BY <2>1, <2>2, OneTurns
<1>11. ASSUME NEW e \in DOMAIN eds, SaveAnswered(e) PROVE FilesInv'
  <2>1. eds' = [eds EXCEPT ![e] = AfterSave(eds[e])] /\ UNCHANGED <<disk, tmp, reads, shown>>
    BY <1>11 DEF SaveAnswered
  <2>2. Turn(eds[e], AfterSave(eds[e]))
    BY <1>11, AfterSaveTurns DEF SaveAnswered, FilesInv, EditorsInv
  <2> QED BY <2>1, <2>2, OneTurns
<1>12. ASSUME NEW e \in DOMAIN eds, Disarm(e) PROVE FilesInv'
  <2> DEFINE b == [eds[e] EXCEPT !.armed = FALSE]
  <2>1. eds' = [eds EXCEPT ![e] = b] /\ UNCHANGED <<disk, tmp, reads, shown>>
    BY <1>12 DEF Disarm
  <2>2. Turn(eds[e], b)
    BY ArmTurns DEF FilesInv, EditorsInv
  <2> HIDE DEF b
  <2> QED BY <2>1, <2>2, OneTurns
<1> QED BY <1>1, <1>2, <1>3, <1>4, <1>5, <1>6, <1>7, <1>8, <1>9, <1>10, <1>11, <1>12 DEF EditorNext

LEMMA SettingsFiles == ASSUME FilesInv, SettingsNext PROVE FilesInv'
<1>1. UNCHANGED <<disk, tmp, eds, reads>>
  BY DEF SettingsNext, AskSettings, CancelSettings, SaveSettings, DrawSettings, SettingsAnswered,
         PreviewFont, PreviewLook, PickFont, FontPicked, NothingPicked, HooksSet, fileVars
<1>2. Is("editor")' => UNCHANGED shown
  <2>1. CASE AskSettings \/ SaveSettings
    BY <2>1 DEF AskSettings, SaveSettings
  <2>2. CASE CancelSettings
    BY <2>2 DEF CancelSettings, Is, Nothing
  <2>3. CASE \E i \in DOMAIN sets : DrawSettings(i)
    BY <2>3 DEF DrawSettings, Show, Is
  <2>4. ASSUME NEW ok, NEW hooks, SettingsAnswered(ok, hooks), Is("editor")' PROVE UNCHANGED shown
    BY <2>4 DEF SettingsAnswered, Close, Is, Nothing
  <2>5. CASE \E i \in DOMAIN sets : HooksSet(i)
    BY <2>5 DEF HooksSet, Close, Is, Nothing
  <2>6. ASSUME NEW v, NEW i, PickFont \/ PreviewFont(v) \/ PreviewLook(v) \/ FontPicked(i, v)
                             \/ NothingPicked(i)
        PROVE  UNCHANGED shown
    BY <2>6 DEF PickFont, PreviewFont, PreviewLook, FontPicked, NothingPicked
  <2> QED BY <2>1, <2>2, <2>3, <2>4, <2>5, <2>6 DEF SettingsNext
<1> QED BY <1>1, <1>2, FilesStay

LEMMA EscFiles == ASSUME FilesInv, NEW inside \in BOOLEAN, EscKey(inside) PROVE FilesInv'
<1> DEFINE to(e) == IF e \in Hears(inside) THEN [eds[e] EXCEPT !.armed = ~@] ELSE eds[e]
<1>1. eds' = [e \in DOMAIN eds |-> to(e)] /\ UNCHANGED <<disk, tmp, reads>>
  BY DEF EscKey
<1>2. Is("editor")' => UNCHANGED shown
  BY DEF EscKey, Is, Nothing
<1>3. \A e \in DOMAIN eds : Turn(eds[e], to(e))
  BY ArmTurns, TurnSelf DEF FilesInv, EditorsInv
<1> HIDE DEF to
<1>4. eds' = [e \in DOMAIN eds |-> eds'[e]] /\ \A e \in DOMAIN eds : Turn(eds[e], eds'[e])
  BY <1>1, <1>3
<1> QED BY <1>1, <1>2, <1>4, KeyFiles

LEMMA SlotFiles == ASSUME FilesInv, SlotNext PROVE FilesInv'
<1>1. ASSUME NEW inside \in BOOLEAN, EscKey(inside) PROVE FilesInv'
  BY <1>1, EscFiles
<1>2. ASSUME CloseButton \/ StartPull \/ (\E ok \in BOOLEAN : EndPull(ok)) PROVE FilesInv'
  <2>1. UNCHANGED <<disk, tmp, eds, reads>>
    BY <1>2 DEF CloseButton, StartPull, EndPull, fileVars
  <2>2. Is("editor")' => UNCHANGED shown
    BY <1>2 DEF CloseButton, StartPull, EndPull, Show, Close, Nothing, Is
  <2> QED BY <2>1, <2>2, FilesStay
<1>3. ASSUME (\E p \in Paths : ArmDiscard(p)) \/ DisarmDiscard \/ ClearSessions PROVE FilesInv'
  <2>1. UNCHANGED <<disk, tmp, eds, reads, shown>>
    BY <1>3 DEF ArmDiscard, DisarmDiscard, ClearSessions, fileVars
  <2> QED BY <2>1, FilesStay
<1>4. ASSUME Discard PROVE FilesInv'
  BY <1>4, OutsideFiles DEF Discard
<1>5. ASSUME ShowUpdate \/ AskClear \/ SessionsCleared PROVE FilesInv'
  <2>1. UNCHANGED <<disk, tmp, eds, reads>>
    BY <1>5 DEF ShowUpdate, AskClear, SessionsCleared, fileVars
  <2>2. Is("editor")' => UNCHANGED shown
    BY <1>5 DEF ShowUpdate, AskClear, SessionsCleared, Show, Close, Nothing, Is
  <2> QED BY <2>1, <2>2, FilesStay
<1> QED BY <1>1, <1>2, <1>3, <1>4, <1>5 DEF SlotNext

-----------------------------------------------------------------------------
(* The forms share the slot: what they may do to the other dialogs         *)

\* A step that leaves editors and settings alone: the slot stays, or shows
\* something else, and then a settings dialog that was shown is remembered.
Beside ==
  /\ UNCHANGED <<reads, disk, tmp, eds, choice>>
  /\ \/ UNCHANGED <<shown, tangled>>
     \/ /\ shown'.kind \notin {"editor", "settings"}
        /\ (tangled \/ (Is("settings") /\ sets[shown.id].restores)) => tangled'

LEMMA StillBeside == ASSUME UNCHANGED dialogVars PROVE Beside
  BY DEF Beside, dialogVars, setVars

LEMMA ShowBeside ==
  ASSUME NEW kind, NEW id, kind \notin {"editor", "settings"}, Show(kind, id),
         UNCHANGED <<reads, disk, tmp, eds, choice>>
  PROVE  Beside
<1>1. shown'.kind \notin {"editor", "settings"}
  BY DEF Show
<1>2. (tangled \/ (Is("settings") /\ sets[shown.id].restores)) => tangled'
  BY DEF Show
<1> QED BY <1>1, <1>2 DEF Beside

LEMMA CloseBeside ==
  ASSUME NEW by, Is("settings") => shown # by, Close(by),
         UNCHANGED <<reads, disk, tmp, eds, choice>>
  PROVE  Beside
<1>1. shown'.kind \notin {"editor", "settings"}
  BY DEF Close, Nothing
<1>2. (tangled \/ (Is("settings") /\ sets[shown.id].restores)) => tangled'
  BY DEF Close
<1> QED BY <1>1, <1>2 DEF Beside

LEMMA OpenFormBeside == ASSUME NEW form, OpenForm(form) PROVE Beside
  BY ShowBeside DEF OpenForm, restOfDialogs

LEMMA LeaveFormBeside == ASSUME LeaveForm, shown.kind = "form" PROVE Beside
  BY CloseBeside DEF LeaveForm, restOfDialogs, Is

LEMMA FinishBeside == ASSUME NEW back, Finish(back) PROVE Beside
<1>1. UNCHANGED <<reads, disk, tmp, eds, choice>>
  BY DEF Finish, restOfDialogs
<1>2. CASE back = "none"
  <2>1. Is("settings") => shown # Nothing
    BY DEF Is, Nothing
  <2>2. Close(Nothing)
    BY <1>2 DEF Finish
  <2> QED BY <1>1, <2>1, <2>2, CloseBeside
<1>3. CASE back # "none"
  <2>1. Show("form", Form(back, 0, "none"))
    BY <1>3 DEF Finish
  <2> QED BY <1>1, <2>1, ShowBeside
<1> QED BY <1>2, <1>3

LEMMA FormsBeside == ASSUME FormsNext PROVE Beside
<1>1. ASSUME NEW src, NEW dst, NEW b, MoveProject(src, dst, b) \/ MovePreset(src, dst, b)
      PROVE  Beside
  BY <1>1, StillBeside DEF MoveProject, MovePreset
<1>2. ASSUME NEW id, ShowProject(id) \/ ShowPreset(id) \/ ShowRecipe(id) PROVE Beside
  BY <1>2, OpenFormBeside DEF ShowProject, ShowPreset, ShowRecipe
<1>3. ASSUME ShowSessionAdd PROVE Beside
  BY <1>3, OpenFormBeside DEF ShowSessionAdd
<1>4. ASSUME NEW id, StartFromAdd(id) \/ RunRecipe(id) PROVE Beside
  BY <1>4, LeaveFormBeside DEF StartFromAdd, RunRecipe, Shown
<1>5. ASSUME NEW list, ShowManager(list) PROVE Beside
  BY <1>5, OpenFormBeside DEF ShowManager
<1>6. ASSUME NEW list, NEW id, DeleteItem(list) \/ DeleteRow(list, id) PROVE Beside
  BY <1>6, StillBeside DEF DeleteItem, DeleteRow
<1>7. ASSUME CancelForm PROVE Beside
  BY <1>7, FinishBeside DEF CancelForm
<1>8. ASSUME NEW scope, SaveProject \/ DeleteProject \/ SavePreset(scope) \/ SaveRecipe(scope)
      PROVE  Beside
  BY <1>8, StillBeside DEF SaveProject, DeleteProject, SavePreset, SaveRecipe, SaveForm
<1>9. ASSUME RunCall PROVE Beside
  BY <1>9, StillBeside DEF RunCall
<1>10. ASSUME Answered PROVE Beside
  <2>1. UNCHANGED dialogVars \/ Finish(Head(calls).back)
    BY <1>10 DEF Answered
  <2> QED BY <2>1, StillBeside, FinishBeside
<1> QED BY <1>1, <1>2, <1>3, <1>4, <1>5, <1>6, <1>7, <1>8, <1>9, <1>10 DEF FormsNext

LEMMA WorktreesBeside == ASSUME WorktreeNext PROVE Beside
<1>1. ASSUME NEW p, AskWorktree(p) \/ AskRemove(p) \/ SessionChanges(p) \/ SessionEnds(p)
      PROVE  Beside
  BY <1>1, StillBeside DEF AskWorktree, AskRemove, SessionChanges, SessionEnds
<1>2. ASSUME NEW g, NEW ok, InfoAnswered(g, ok) \/ Checked(g, ok) PROVE Beside
  <2>1. UNCHANGED dialogVars \/ \E form : OpenForm(form)
    BY <1>2 DEF InfoAnswered, Checked
  <2> QED BY <2>1, StillBeside, OpenFormBeside
<1>3. ASSUME NEW g, NEW ok, WorktreeAdded(g, ok) PROVE Beside
  BY <1>3, StillBeside DEF WorktreeAdded
<1>4. ASSUME NEW g, WorktreeRemoved(g) PROVE Beside
  <2>1. Is("settings") => shown # Nothing
    BY DEF Is, Nothing
  <2> QED BY <1>4, <2>1, CloseBeside DEF WorktreeRemoved, restOfDialogs
<1>5. ASSUME CreateWorktree PROVE Beside
  BY <1>5, StillBeside DEF CreateWorktree
<1>6. ASSUME DropForeign PROVE Beside
  BY <1>6, LeaveFormBeside DEF DropForeign, Shown
<1>7. ASSUME NEW w, NEW to, FolderGoes(w, to) PROVE Beside
  BY <1>7, StillBeside DEF FolderGoes
<1>8. ASSUME NEW tick, ConfirmRemove(tick) PROVE Beside
  BY <1>8, StillBeside DEF ConfirmRemove
<1> QED BY <1>1, <1>2, <1>3, <1>4, <1>5, <1>6, <1>7, <1>8 DEF WorktreeNext

LEMMA BesideFiles == ASSUME FilesInv, Beside PROVE FilesInv'
<1>1. Is("editor")' => UNCHANGED shown
  BY DEF Beside, Is
<1> QED BY <1>1, FilesStay DEF Beside

LEMMA FilesNext == ASSUME FilesInv, [DesktopNext]_vars PROVE FilesInv'
<1>1. ASSUME DialogsNext PROVE FilesInv'
  BY <1>1, EditorFiles, SettingsFiles, SlotFiles DEF DialogsNext
<1>2. ASSUME FormsNext \/ WorktreeNext \/ UNCHANGED vars PROVE FilesInv'
  BY <1>2, FormsBeside, WorktreesBeside, StillBeside, BesideFiles DEF vars
<1> QED BY <1>1, <1>2 DEF DesktopNext

\* What a file holds came from outside or from an editor that sent it, and what
\* each editor says of its text is true: for all files, texts, editors and
\* dialogs, however their saves and reads cross.
THEOREM EditorsAreHonest == DesktopSpec => []FilesInv
<1>1. DesktopInit => FilesInv
  BY FilesInit DEF DesktopInit
<1>2. FilesInv /\ [DesktopNext]_vars => FilesInv'
  BY FilesNext
<1> QED BY <1>1, <1>2, PTL DEF DesktopSpec

\* What the editor calls saved is on the disk, and the cut-off head of a large
\* file is never written back.
THEOREM SavedFilesAreKept == DesktopSpec => []FilesKept
<1>1. ASSUME FilesInv PROVE FilesKept
  <2>1. ASSUME Is("editor") PROVE LET ed == eds[shown.id] IN
           (~ed.dirty /\ ed.save = "no" /\ ~ed.raced /\ disk[ed.path].by = shown.id)
              => disk[ed.path].text = ed.text
    <3>1. shown.id \in DOMAIN eds
      BY <1>1, <2>1 DEF FilesInv, EditorIsThere
    <3>2. Honest(disk[eds[shown.id].path].by = shown.id, disk[eds[shown.id].path].text,
                 eds[shown.id])
      BY <1>1, <3>1 DEF FilesInv, EditorsInv
    <3> QED BY <3>2 DEF Honest
  <2>2. \A p \in Paths : ~disk[p].head
    BY <1>1 DEF FilesInv, FilesOnDisk
  <2> QED BY <2>1, <2>2 DEF FilesKept
<1> QED BY <1>1, EditorsAreHonest, PTL

-----------------------------------------------------------------------------
(* The settings dialog and its preview                                     *)

Settings == [font : {0, 1}, look : {0, 1}]
SetFields == {"open", "before", "chosen", "restores", "picking", "hooks"}
IsSetting(s) ==
  /\ s = [f \in SetFields |-> s[f]]
  /\ s.before \in Settings /\ s.chosen \in Settings /\ s.hooks \in Nat
  /\ s.open \in BOOLEAN /\ s.restores \in BOOLEAN /\ s.picking \in BOOLEAN

SetTypes ==
  /\ \E n \in Nat : DOMAIN sets = 1..n
  /\ sets = [i \in DOMAIN sets |-> sets[i]]
  /\ \A i \in DOMAIN sets : IsSetting(sets[i])
  /\ saving \in Seq([dlg : Nat, want : Settings])
  /\ \A n \in DOMAIN saving : saving[n].dlg \in DOMAIN sets
  /\ live \in Settings /\ kept \in Settings
  /\ Is("settings") => shown.id \in DOMAIN sets

\* A settings dialog that is asked for, or saving, or would undo its preview.
Owes(s, q, i) == s[i].hooks > 0 \/ \E n \in DOMAIN q : q[n].dlg = i
Busy(s, q, i) == ~s[i].open \/ Owes(s, q, i) \/ s[i].restores

\* One settings dialog at a time: the one that is asked for, is shown, or has
\* a save under way.
OneBusy == \A i, j \in DOMAIN sets : Busy(sets, saving, i) /\ Busy(sets, saving, j) => i = j
ShownBusy ==
  Is("settings") => /\ sets[shown.id].open
                    /\ sets[shown.id].restores \/ Owes(sets, saving, shown.id)
AskedIdle ==
  \A i \in DOMAIN sets : ~sets[i].open => ~Owes(sets, saving, i) /\ ~sets[i].restores
RestoreShown ==
  \A i \in DOMAIN sets : sets[i].restores =>
     Is("settings") /\ shown.id = i /\ ~Owes(sets, saving, i)

OnePreview == OneBusy /\ ShownBusy /\ AskedIdle /\ RestoreShown

\* One that is asked for notes what is in effect and kept, one that is shown
\* would restore that; and with no preview to undo and no save to come the
\* settings in effect are the kept ones.
AskedNoted == \A i \in DOMAIN sets : ~sets[i].open => sets[i].before = live /\ live = kept
PreviewNoted == \A i \in DOMAIN sets : sets[i].restores => sets[i].before = kept
QuietKept == (saving = << >> /\ \A i \in DOMAIN sets : ~sets[i].restores) => live = kept

Noted == AskedNoted /\ PreviewNoted /\ QuietKept

SettingsInv ==
  /\ SetTypes
  /\ ~tangled => OnePreview
  /\ (~tangled /\ ~astray) => Noted

LEMMA FontIsSetting ==
  ASSUME NEW c \in Settings, NEW v \in {0, 1} PROVE [c EXCEPT !.font = v] \in Settings
  BY DEF Settings

LEMMA LookIsSetting ==
  ASSUME NEW c \in Settings, NEW v \in {0, 1} PROVE [c EXCEPT !.look = v] \in Settings
  BY DEF Settings

LEMMA SettingsInit == ASSUME DialogsInit PROVE SettingsInv
<1>1. DOMAIN sets = 1..0 /\ 0 \in Nat /\ sets = [i \in DOMAIN sets |-> sets[i]]
      /\ \A i \in DOMAIN sets : FALSE
  BY DEF DialogsInit
<1>2. ~Is("settings") /\ live = kept /\ live \in Settings
  BY DEF DialogsInit, Is, Nothing, Default, Settings
<1>3. saving \in Seq([dlg : Nat, want : Settings]) /\ \A n \in DOMAIN saving : FALSE
  BY DEF DialogsInit
<1>4. SetTypes
  BY <1>1, <1>2, <1>3 DEF SetTypes
<1>5. OnePreview /\ Noted
  BY <1>1, <1>2 DEF OnePreview, OneBusy, ShownBusy, AskedIdle, RestoreShown,
                    Noted, AskedNoted, PreviewNoted, QuietKept
<1> QED BY <1>4, <1>5 DEF SettingsInv

\* A step that leaves the settings alone, whatever it does to the slot.
SlotMoves ==
  /\ UNCHANGED choice
  /\ \/ UNCHANGED <<shown, tangled>>
     \/ /\ shown'.kind # "settings"
        /\ (tangled \/ (Is("settings") /\ sets[shown.id].restores)) => tangled'

LEMMA SlotMovesSettings == ASSUME SettingsInv, SlotMoves PROVE SettingsInv'
<1>1. UNCHANGED <<sets, live, kept, saving, astray>>
  BY DEF SlotMoves, choice
<1>2. SetTypes'
  BY <1>1 DEF SettingsInv, SetTypes, SlotMoves, Is
<1>3. ASSUME ~tangled' PROVE ~tangled /\ OnePreview'
  <2>1. CASE UNCHANGED <<shown, tangled>>
    BY <1>1, <1>3, <2>1 DEF SettingsInv, OnePreview, OneBusy, ShownBusy, AskedIdle, RestoreShown, Is
  <2>2. CASE shown'.kind # "settings" /\ ~tangled /\ ~(Is("settings") /\ sets[shown.id].restores)
    BY <1>1, <2>2 DEF SettingsInv, OnePreview, OneBusy, ShownBusy, AskedIdle, RestoreShown, Is
  <2> QED BY <1>3, <2>1, <2>2 DEF SlotMoves
<1>4. ASSUME ~tangled', ~astray' PROVE Noted'
  BY <1>1, <1>3, <1>4 DEF SettingsInv, Noted, AskedNoted, PreviewNoted, QuietKept
<1> QED BY <1>2, <1>3, <1>4 DEF SettingsInv

LEMMA ShowMoves ==
  ASSUME NEW kind, NEW id, kind # "settings", Show(kind, id), UNCHANGED choice
  PROVE  SlotMoves
<1>1. shown'.kind # "settings"
  BY DEF Show
<1>2. (tangled \/ (Is("settings") /\ sets[shown.id].restores)) => tangled'
  BY DEF Show
<1> QED BY <1>1, <1>2 DEF SlotMoves

LEMMA CloseMoves ==
  ASSUME NEW by, Is("settings") => shown # by, Close(by), UNCHANGED choice
  PROVE  SlotMoves
<1>1. shown'.kind # "settings"
  BY DEF Close, Nothing
<1>2. (tangled \/ (Is("settings") /\ sets[shown.id].restores)) => tangled'
  BY DEF Close
<1> QED BY <1>1, <1>2 DEF SlotMoves

LEMMA StayMoves == ASSUME UNCHANGED <<shown, tangled, choice>> PROVE SlotMoves
  BY DEF SlotMoves

LEMMA EditorMoves == ASSUME EditorNext PROVE SlotMoves
<1>1. ASSUME NEW p, NEW big, AskPreview(p) \/ AskEditor(p) \/ OtherProgram(p, big) PROVE SlotMoves
  BY <1>1, StayMoves DEF AskPreview, AskEditor, OtherProgram, setVars
<1>2. ASSUME NEW r, NEW ok, ReadForPreview(r, ok) PROVE SlotMoves
  BY <1>2, ShowMoves DEF ReadForPreview
<1>3. ASSUME NEW r, NEW ok, ReadForEditor(r, ok) PROVE SlotMoves
  <2>1. UNCHANGED choice
    BY <1>3 DEF ReadForEditor
  <2>2. UNCHANGED <<shown, tangled>> \/ Show("editor", Cardinality(DOMAIN eds) + 1)
    BY <1>3 DEF ReadForEditor
  <2> QED BY <2>1, <2>2, StayMoves, ShowMoves
<1>4. ASSUME NEW bad, Type(bad) \/ SaveButton \/ SaveKey PROVE SlotMoves
  BY <1>4, StayMoves DEF Type, SaveButton, SaveKey, setVars
<1>5. ASSUME Cancel PROVE SlotMoves
  <2>1. UNCHANGED choice /\ Is("editor")
    BY <1>5 DEF Cancel
  <2>2. UNCHANGED <<shown, tangled>> \/ Close(shown)
    BY <1>5 DEF Cancel
  <2>3. ~Is("settings")
    BY <2>1 DEF Is
  <2> QED BY <2>1, <2>2, <2>3, StayMoves, CloseMoves
<1>6. ASSUME NEW e, WriteTmp(e) \/ Rename(e) \/ WriteFails(e) \/ SaveAnswered(e) \/ Disarm(e)
      PROVE  SlotMoves
  BY <1>6, StayMoves DEF WriteTmp, Rename, WriteFails, SaveAnswered, Disarm, setVars
<1> QED BY <1>1, <1>2, <1>3, <1>4, <1>5, <1>6 DEF EditorNext

\* An update of one settings dialog keeps the types.
LEMMA OneSetting ==
  ASSUME SetTypes, NEW i \in DOMAIN sets, NEW s, IsSetting(s), sets' = [sets EXCEPT ![i] = s],
         live' \in Settings, kept' \in Settings, Is("settings")' => shown'.id \in DOMAIN sets,
         saving' \in Seq([dlg : Nat, want : Settings]),
         \A n \in DOMAIN saving' : saving'[n].dlg \in DOMAIN sets
  PROVE  /\ SetTypes' /\ DOMAIN sets' = DOMAIN sets /\ sets'[i] = s
         /\ \A j \in DOMAIN sets : j # i => sets'[j] = sets[j]
<1>1. sets' = [j \in DOMAIN sets |-> IF j = i THEN s ELSE sets[j]]
  BY DEF SetTypes
<1>2. /\ DOMAIN sets' = DOMAIN sets /\ sets'[i] = s
      /\ \A j \in DOMAIN sets : j # i => sets'[j] = sets[j]
  BY <1>1
<1>3. sets' = [j \in DOMAIN sets' |-> sets'[j]]
  BY <1>1
<1>4. \A j \in DOMAIN sets' : IsSetting(sets'[j])
  BY <1>2 DEF SetTypes
<1> QED BY <1>2, <1>3, <1>4 DEF SetTypes

\* A step after which no settings dialog has more to do than before keeps one
\* at a time.
LEMMA Calms ==
  ASSUME OnePreview, DOMAIN sets' = DOMAIN sets,
         \A j \in DOMAIN sets : /\ sets'[j].open = sets[j].open
                                /\ sets'[j].restores => sets[j].restores /\ UNCHANGED shown
                                /\ Owes(sets', saving', j) => Owes(sets, saving, j),
         Is("settings")' => /\ UNCHANGED shown
                            /\ shown.id \in DOMAIN sets
                            /\ sets'[shown.id].restores \/ Owes(sets', saving', shown.id)
  PROVE  OnePreview'
<1>1. OneBusy' /\ AskedIdle'
  BY DEF OnePreview, OneBusy, AskedIdle, Busy
<1>2. ShownBusy'
  BY DEF OnePreview, ShownBusy, Is
<1>3. RestoreShown'
  BY DEF OnePreview, RestoreShown, Is
<1> QED BY <1>1, <1>2, <1>3 DEF OnePreview

\* What is under way depends on the saves and on the hooks alone.
LEMMA SameOwes ==
  ASSUME UNCHANGED saving, NEW i, sets'[i].hooks = sets[i].hooks
  PROVE  Owes(sets', saving', i) = Owes(sets, saving, i)
  BY DEF Owes

LEMMA AskSettingsFits == ASSUME SettingsInv, AskSettings PROVE SettingsInv'
<1> DEFINE n == Cardinality(DOMAIN sets)
           new == [open |-> FALSE, before |-> live, chosen |-> live,
                   restores |-> FALSE, picking |-> FALSE, hooks |-> 0]
<1>1. n \in Nat /\ DOMAIN sets = 1..n
  <2>1. PICK k \in Nat : DOMAIN sets = 1..k
    BY DEF SettingsInv, SetTypes
  <2>2. Cardinality(1..k) = k
    BY FS_Interval
  <2> QED BY <2>1, <2>2
<1>2. /\ sets' = [x \in 1..n + 1 |-> IF x = n + 1 THEN new ELSE sets[x]]
      /\ Is("none") /\ UNCHANGED <<shown, live, kept, saving, astray>>
      /\ (tangled \/ \E i \in DOMAIN sets : Unfinished(i)) => tangled'
  <2>1. sets' = [x \in 1..n + 1 |-> IF x = n + 1 THEN new ELSE sets[x]]
    BY DEF AskSettings
  <2>2. Is("none") /\ UNCHANGED <<shown, live, kept, saving, astray>>
    BY DEF AskSettings
  <2>3. (tangled \/ \E i \in DOMAIN sets : Unfinished(i)) => tangled'
    BY Zenon DEF AskSettings
  <2> QED BY <2>1, <2>2, <2>3
<1>3. IsSetting(new) /\ ~new.open /\ new.before = live /\ new.hooks = 0 /\ ~new.restores
  BY DEF IsSetting, SetFields, SettingsInv, SetTypes
<1> HIDE DEF n, new
<1>4. /\ DOMAIN sets' = 1..n + 1 /\ n + 1 \in DOMAIN sets' /\ sets'[n + 1] = new
      /\ \A j \in DOMAIN sets : j \in DOMAIN sets' /\ j # n + 1 /\ sets'[j] = sets[j]
      /\ \A j \in DOMAIN sets' : j = n + 1 \/ j \in DOMAIN sets
  BY <1>1, <1>2
<1>5. SetTypes'
  <2>1. \A j \in DOMAIN sets' : IsSetting(sets'[j])
    BY <1>3, <1>4 DEF SettingsInv, SetTypes
  <2>2. sets' = [j \in DOMAIN sets' |-> sets'[j]]
    BY <1>2, <1>4
  <2>3. \A k \in DOMAIN saving' : saving'[k].dlg \in DOMAIN sets'
    BY <1>2, <1>4 DEF SettingsInv, SetTypes
  <2> QED BY <1>1, <1>2, <1>4, <2>1, <2>2, <2>3 DEF SettingsInv, SetTypes, Is
<1>6. ASSUME ~tangled'
      PROVE  /\ ~tangled /\ OnePreview /\ ~Is("settings") /\ ~Is("settings")'
             /\ \A j \in DOMAIN sets : sets[j].open /\ ~sets[j].restores /\ ~Owes(sets, saving, j)
  <2>1. ~tangled /\ OnePreview /\ ~Is("settings") /\ ~Is("settings")'
    BY <1>2, <1>6 DEF SettingsInv, Is
  <2>2. \A j \in DOMAIN sets : ~Unfinished(j)
    BY <1>2, <1>6
  <2> QED BY <2>1, <2>2 DEF Unfinished, UnderWay, Owes, OnePreview, RestoreShown
<1>7. ASSUME ~tangled' PROVE OnePreview'
  <2>1. ~Owes(sets', saving', n + 1)
    <3>1. ~(sets'[n + 1].hooks > 0)
      BY <1>3, <1>4
    <3>2. \A k \in DOMAIN saving' : saving'[k].dlg # n + 1
      BY <1>2, <1>4 DEF SettingsInv, SetTypes
    <3> QED BY <3>1, <3>2 DEF Owes
  <2>2. \A j \in DOMAIN sets' : j # n + 1 => ~Busy(sets', saving', j)
    <3>1. ASSUME NEW j \in DOMAIN sets PROVE Busy(sets', saving', j) = Busy(sets, saving, j)
      BY <1>2, <1>4, <3>1, SameOwes DEF Busy
    <3> QED BY <1>4, <1>6, <1>7, <3>1 DEF Busy
  <2>3. OneBusy'
    BY <2>2 DEF OneBusy
  <2>4. AskedIdle' /\ RestoreShown'
    BY <1>3, <1>4, <2>1, <2>2 DEF AskedIdle, RestoreShown, Busy
  <2> QED BY <1>6, <1>7, <2>3, <2>4 DEF OnePreview, ShownBusy
<1>8. ASSUME ~tangled', ~astray' PROVE Noted'
  <2>1. Noted /\ saving = << >>
    <3>1. ASSUME saving # << >> PROVE FALSE
      <4>1. 1 \in DOMAIN saving /\ saving[1].dlg \in DOMAIN sets
        BY <3>1 DEF SettingsInv, SetTypes
      <4> QED BY <1>6, <1>8, <4>1 DEF Owes
    <3> QED BY <1>2, <1>6, <1>8, <3>1 DEF SettingsInv
  <2>2. live' = kept' /\ live' = live
    BY <1>2, <1>6, <1>8, <2>1 DEF Noted, QuietKept
  <2> QED BY <1>3, <1>4, <1>6, <1>8, <2>2 DEF Noted, AskedNoted, PreviewNoted, QuietKept
<1> QED BY <1>5, <1>6, <1>7, <1>8 DEF SettingsInv

LEMMA DrawSettingsFits ==
  ASSUME SettingsInv, NEW i \in DOMAIN sets, DrawSettings(i) PROVE SettingsInv'
<1> DEFINE s == [sets[i] EXCEPT !.open = TRUE, !.restores = TRUE,
                                !.before.look = live.look, !.chosen.look = live.look]
<1>1. /\ ~sets[i].open /\ shown' = [kind |-> "settings", id |-> i]
      /\ (tangled \/ (Is("settings") /\ sets[shown.id].restores)) => tangled'
      /\ UNCHANGED <<live, kept, saving, astray>>
      /\ sets' = [sets EXCEPT ![i] = s]
  BY DEF DrawSettings, Show
<1>2. /\ IsSetting(sets[i]) /\ live \in Settings /\ kept \in Settings
      /\ saving' \in Seq([dlg : Nat, want : Settings])
      /\ \A n \in DOMAIN saving' : saving'[n].dlg \in DOMAIN sets
  BY <1>1 DEF SettingsInv, SetTypes
<1>3. /\ s = [sets[i] EXCEPT !.open = TRUE, !.restores = TRUE,
                             !.before = [font |-> sets[i].before.font, look |-> live.look],
                             !.chosen = [font |-> sets[i].chosen.font, look |-> live.look]]
  <2>1. \A b \in Settings : [b EXCEPT !.look = live.look] = [font |-> b.font, look |-> live.look]
    BY DEF Settings
  <2>2. /\ [sets[i].before EXCEPT !.look = live.look]
               = [font |-> sets[i].before.font, look |-> live.look]
        /\ [sets[i].chosen EXCEPT !.look = live.look]
               = [font |-> sets[i].chosen.font, look |-> live.look]
    BY <1>2, <2>1 DEF IsSetting
  <2>3. s = [sets[i] EXCEPT !.open = TRUE, !.restores = TRUE,
                            !.before = [sets[i].before EXCEPT !.look = live.look],
                            !.chosen = [sets[i].chosen EXCEPT !.look = live.look]]
    BY <1>2 DEF IsSetting, SetFields
  <2> QED BY <2>2, <2>3
<1>4. /\ s.open /\ s.restores /\ s.hooks = sets[i].hooks
      /\ s.before = [font |-> sets[i].before.font, look |-> live.look]
      /\ IsSetting(s)
  BY <1>2, <1>3 DEF IsSetting, SetFields, Settings
<1> HIDE DEF s
<1>5. Is("settings")' /\ shown'.id = i
  BY <1>1 DEF Is
<1>6. /\ SetTypes' /\ DOMAIN sets' = DOMAIN sets /\ sets'[i] = s
      /\ \A j \in DOMAIN sets : j # i => sets'[j] = sets[j]
  BY <1>1, <1>2, <1>4, <1>5, OneSetting DEF SettingsInv
<1>7. \A j \in DOMAIN sets : Owes(sets', saving', j) = Owes(sets, saving, j)
  BY <1>1, <1>4, <1>6, SameOwes
<1>8. ASSUME ~tangled' PROVE OnePreview /\ \A j \in DOMAIN sets : j # i => ~Busy(sets, saving, j)
  <2>1. OnePreview
    BY <1>1, <1>8 DEF SettingsInv
  <2> QED BY <1>1, <2>1 DEF OnePreview, OneBusy, Busy
<1>9. ASSUME ~tangled' PROVE OnePreview'
  <2>1. OnePreview /\ \A j \in DOMAIN sets : j # i => ~Busy(sets, saving, j)
    BY <1>8, <1>9
  <2>2. ~Owes(sets', saving', i)
    BY <1>1, <1>7, <2>1 DEF OnePreview, AskedIdle
  <2>3. \A j \in DOMAIN sets : j # i => ~Busy(sets', saving', j)
    BY <1>6, <1>7, <2>1 DEF Busy
  <2>4. OneBusy'
    BY <1>6, <2>3 DEF OneBusy
  <2>5. ShownBusy'
    BY <1>4, <1>5, <1>6 DEF ShownBusy
  <2>6. AskedIdle' /\ RestoreShown'
    BY <1>4, <1>5, <1>6, <2>2, <2>3 DEF AskedIdle, RestoreShown, Busy
  <2> QED BY <2>4, <2>5, <2>6 DEF OnePreview
<1>10. ASSUME ~tangled', ~astray' PROVE Noted'
  <2>1. Noted /\ \A j \in DOMAIN sets : j # i => ~Busy(sets, saving, j)
    BY <1>1, <1>8, <1>10 DEF SettingsInv
  <2>2. sets[i].before = live /\ live = kept
    BY <1>1, <2>1 DEF Noted, AskedNoted
  <2>3. s.before = kept'
    BY <1>1, <1>2, <1>4, <2>2 DEF Settings
  <2>4. \A j \in DOMAIN sets : j # i => sets'[j].open /\ ~sets'[j].restores
    BY <1>6, <2>1 DEF Busy
  <2>5. AskedNoted' /\ PreviewNoted'
    BY <1>4, <1>6, <2>3, <2>4 DEF AskedNoted, PreviewNoted
  <2>6. QuietKept'
    BY <1>4, <1>6 DEF QuietKept
  <2> QED BY <2>5, <2>6 DEF Noted
<1> QED BY <1>6, <1>9, <1>10 DEF SettingsInv

\* A step that touches one dialog in what it has chosen, or in its picking of a
\* file, and may preview that: what was noted stays.
LEMMA TouchFits ==
  ASSUME SettingsInv, NEW i \in DOMAIN sets, NEW s, IsSetting(s), sets' = [sets EXCEPT ![i] = s],
         s.open = sets[i].open, s.before = sets[i].before, s.restores = sets[i].restores,
         s.hooks = sets[i].hooks, live' \in Settings, UNCHANGED <<shown, kept, saving, tangled>>,
         UNCHANGED <<live, astray>> \/ astray' = (astray \/ Strays(i))
  PROVE  SettingsInv'
<1>1. /\ Is("settings")' => Is("settings")
      /\ Is("settings") => shown.id \in DOMAIN sets
      /\ Is("settings")' => shown'.id \in DOMAIN sets
      /\ live \in Settings /\ kept \in Settings
      /\ saving' \in Seq([dlg : Nat, want : Settings])
      /\ \A n \in DOMAIN saving' : saving'[n].dlg \in DOMAIN sets
  BY DEF SettingsInv, SetTypes, Is
<1>2. /\ SetTypes' /\ DOMAIN sets' = DOMAIN sets /\ sets'[i] = s
      /\ \A j \in DOMAIN sets : j # i => sets'[j] = sets[j]
  BY <1>1, OneSetting DEF SettingsInv
<1>3. \A j \in DOMAIN sets :
         /\ sets'[j].open = sets[j].open /\ sets'[j].before = sets[j].before
         /\ sets'[j].restores = sets[j].restores /\ sets'[j].hooks = sets[j].hooks
  BY <1>2
<1>4. \A j \in DOMAIN sets : Owes(sets', saving', j) = Owes(sets, saving, j)
  BY <1>3, SameOwes
<1>5. ASSUME ~tangled' PROVE OnePreview /\ OnePreview'
  <2>1. OnePreview
    BY <1>5 DEF SettingsInv
  <2>2. Is("settings")' => sets'[shown.id].restores \/ Owes(sets', saving', shown.id)
    BY <1>1, <1>3, <1>4, <2>1 DEF OnePreview, ShownBusy
  <2> QED BY <1>1, <1>2, <1>3, <1>4, <2>1, <2>2, Calms
<1>6. ASSUME ~tangled', ~astray' PROVE Noted'
  <2>1. Noted
    BY <1>6 DEF SettingsInv
  <2>2. CASE UNCHANGED <<live, astray>>
    BY <1>2, <1>3, <2>1, <2>2 DEF Noted, AskedNoted, PreviewNoted, QuietKept
  <2>3. CASE astray' = (astray \/ Strays(i))
    <3>1. Is("settings") /\ shown.id = i /\ ~(sets[i].hooks > 0)
      BY <1>6, <2>3 DEF Strays
    <3>2. sets[i].open /\ (sets[i].restores \/ Owes(sets, saving, i))
      BY <1>5, <1>6, <3>1 DEF OnePreview, ShownBusy
    <3>3. \A j \in DOMAIN sets : sets[j].open
      BY <1>5, <1>6, <3>2 DEF OnePreview, OneBusy, Busy
    <3>4. QuietKept'
      <4>1. ASSUME saving = << >>, ~sets[i].restores PROVE FALSE
        BY <3>1, <3>2, <4>1 DEF Owes
      <4> QED BY <1>2, <1>3, <4>1 DEF QuietKept
    <3> QED BY <1>2, <1>3, <2>1, <3>3, <3>4 DEF Noted, AskedNoted, PreviewNoted
  <2> QED BY <2>2, <2>3
<1> QED BY <1>2, <1>5, <1>6 DEF SettingsInv

\* A preview changes what is chosen and in effect, not what was noted; a font
\* file is previewed for the dialog it was asked from.
LEMMA PreviewFits ==
  ASSUME SettingsInv, NEW v \in {0, 1}, NEW i \in DOMAIN sets,
         \/ i = shown.id /\ (PreviewFont(v) \/ PreviewLook(v) \/ PickFont)
         \/ FontPicked(i, v) \/ NothingPicked(i)
  PROVE  SettingsInv'
<1>1. IsSetting(sets[i]) /\ live \in Settings
  BY DEF SettingsInv, SetTypes
<1>2. UNCHANGED <<shown, kept, saving, tangled>>
  BY DEF PreviewFont, PreviewLook, PickFont, FontPicked, NothingPicked
<1>3. live' \in Settings /\ (UNCHANGED <<live, astray>> \/ astray' = (astray \/ Strays(i)))
  BY <1>1, Zenon, FontIsSetting, LookIsSetting
     DEF PreviewFont, PreviewLook, PickFont, FontPicked, NothingPicked
<1>4. \E s : /\ sets' = [sets EXCEPT ![i] = s]
             /\ IsSetting(s) /\ s.open = sets[i].open /\ s.before = sets[i].before
             /\ s.restores = sets[i].restores /\ s.hooks = sets[i].hooks
  <2>1. CASE i = shown.id /\ PreviewFont(v)
    <3> DEFINE s == [sets[i] EXCEPT !.chosen = [sets[i].chosen EXCEPT !.font = v]]
    <3>1. sets' = [sets EXCEPT ![i] = s]
      BY <2>1 DEF PreviewFont
    <3>2. [sets[i].chosen EXCEPT !.font = v] \in Settings
      BY <1>1, FontIsSetting DEF IsSetting
    <3>3. /\ IsSetting(s) /\ s.open = sets[i].open /\ s.before = sets[i].before
          /\ s.restores = sets[i].restores /\ s.hooks = sets[i].hooks
      BY <1>1, <3>2 DEF IsSetting, SetFields
    <3> QED BY <3>1, <3>3
  <2>2. CASE i = shown.id /\ PreviewLook(v)
    <3> DEFINE s == [sets[i] EXCEPT !.chosen = [sets[i].chosen EXCEPT !.look = v]]
    <3>1. sets' = [sets EXCEPT ![i] = s]
      BY <2>2 DEF PreviewLook
    <3>2. [sets[i].chosen EXCEPT !.look = v] \in Settings
      BY <1>1, LookIsSetting DEF IsSetting
    <3>3. /\ IsSetting(s) /\ s.open = sets[i].open /\ s.before = sets[i].before
          /\ s.restores = sets[i].restores /\ s.hooks = sets[i].hooks
      BY <1>1, <3>2 DEF IsSetting, SetFields
    <3> QED BY <3>1, <3>3
  <2>3. CASE FontPicked(i, v)
    <3> DEFINE s == [sets[i] EXCEPT !.picking = FALSE,
                                    !.chosen = [sets[i].chosen EXCEPT !.font = v]]
    <3>1. [sets[i].chosen EXCEPT !.font = v] \in Settings
      BY <1>1, FontIsSetting DEF IsSetting
    <3>2. sets' = [sets EXCEPT ![i] = s]
      <4>1. sets' = [sets EXCEPT ![i].picking = FALSE, ![i].chosen.font = v]
        BY <2>3 DEF FontPicked
      <4>2. [sets[i] EXCEPT !.picking = FALSE].chosen = sets[i].chosen
        BY <1>1 DEF IsSetting, SetFields
      <4> QED BY <1>1, <4>1, <4>2 DEF SettingsInv, SetTypes
    <3>3. /\ IsSetting(s) /\ s.open = sets[i].open /\ s.before = sets[i].before
          /\ s.restores = sets[i].restores /\ s.hooks = sets[i].hooks
      BY <1>1, <3>1 DEF IsSetting, SetFields
    <3> QED BY <3>2, <3>3
  <2>4. CASE NothingPicked(i) \/ (i = shown.id /\ PickFont)
    <3>1. PICK b \in BOOLEAN : sets' = [sets EXCEPT ![i] = [sets[i] EXCEPT !.picking = b]]
      BY <2>4 DEF NothingPicked, PickFont
    <3> DEFINE s == [sets[i] EXCEPT !.picking = b]
    <3>2. /\ IsSetting(s) /\ s.open = sets[i].open /\ s.before = sets[i].before
          /\ s.restores = sets[i].restores /\ s.hooks = sets[i].hooks
      BY <1>1 DEF IsSetting, SetFields
    <3> QED BY <3>1, <3>2
  <2> QED BY <2>1, <2>2, <2>3, <2>4
<1> QED BY <1>2, <1>3, <1>4, TouchFits

LEMMA CancelSettingsFits == ASSUME SettingsInv, CancelSettings PROVE SettingsInv'
<1> DEFINE i == shown.id
           s == [sets[i] EXCEPT !.restores = FALSE]
<1>1. /\ Is("settings") /\ i \in DOMAIN sets /\ shown' = Nothing /\ UNCHANGED <<kept, saving, tangled>>
      /\ sets' = [sets EXCEPT ![i] = s] /\ live' = sets[i].before
      /\ astray' = (astray \/ Strays(i))
  BY DEF CancelSettings, Undone, SettingsInv, SetTypes
<1>2. /\ IsSetting(sets[i]) /\ live' \in Settings /\ kept' \in Settings
      /\ saving' \in Seq([dlg : Nat, want : Settings])
      /\ \A n \in DOMAIN saving' : saving'[n].dlg \in DOMAIN sets
  BY <1>1 DEF SettingsInv, SetTypes, IsSetting
<1>3. /\ IsSetting(s) /\ ~s.restores /\ s.open = sets[i].open
      /\ s.hooks = sets[i].hooks /\ s.before = sets[i].before
  BY <1>2 DEF IsSetting, SetFields
<1> HIDE DEF s, i
<1>4. ~Is("settings")'
  BY <1>1 DEF Is, Nothing
<1>5. /\ SetTypes' /\ DOMAIN sets' = DOMAIN sets /\ sets'[i] = s
      /\ \A j \in DOMAIN sets : j # i => sets'[j] = sets[j]
  BY <1>1, <1>2, <1>3, <1>4, OneSetting DEF SettingsInv
<1>6. \A j \in DOMAIN sets : Owes(sets', saving', j) = Owes(sets, saving, j)
  BY <1>1, <1>3, <1>5, SameOwes
<1>7. ASSUME ~tangled'
      PROVE  /\ OnePreview /\ (sets[i].restores \/ Owes(sets, saving, i))
             /\ \A j \in DOMAIN sets : sets'[j].open /\ sets[j].open /\ ~sets'[j].restores
  <2>1. OnePreview
    BY <1>1, <1>7 DEF SettingsInv
  <2>2. sets[i].open /\ (sets[i].restores \/ Owes(sets, saving, i))
    BY <1>1, <2>1 DEF OnePreview, ShownBusy, i
  <2>3. \A j \in DOMAIN sets : j # i => sets[j].open /\ ~sets[j].restores
    BY <1>1, <2>1, <2>2 DEF OnePreview, OneBusy, Busy
  <2> QED BY <1>3, <1>5, <2>1, <2>2, <2>3
<1>8. ASSUME ~tangled' PROVE OnePreview'
  <2>1. \A j \in DOMAIN sets : sets'[j].open = sets[j].open
    BY <1>3, <1>5
  <2> QED BY <1>4, <1>5, <1>6, <1>7, <1>8, <2>1, Calms
<1>9. ASSUME ~tangled', ~astray' PROVE Noted'
  <2>1. Noted /\ ~(sets[i].hooks > 0)
    BY <1>1, <1>9 DEF SettingsInv, Strays
  <2>2. ASSUME saving = << >> PROVE live' = kept'
    <3>1. sets[i].restores
      BY <1>7, <1>9, <2>1, <2>2 DEF Owes
    <3> QED BY <1>1, <2>1, <3>1 DEF Noted, PreviewNoted
  <2> QED BY <1>1, <1>5, <1>7, <1>9, <2>2 DEF Noted, AskedNoted, PreviewNoted, QuietKept
<1> QED BY <1>5, <1>8, <1>9 DEF SettingsInv

LEMMA SaveSettingsFits == ASSUME SettingsInv, SaveSettings PROVE SettingsInv'
<1> DEFINE i == shown.id
           s == [sets[i] EXCEPT !.restores = FALSE]
           call == [dlg |-> i, want |-> sets[i].chosen]
<1>1. /\ Is("settings") /\ i \in DOMAIN sets /\ UNCHANGED <<shown, live, kept, astray, tangled>>
      /\ sets' = [sets EXCEPT ![i] = s] /\ saving' = Append(saving, call)
  BY DEF SaveSettings, SettingsInv, SetTypes
<1>2. IsSetting(sets[i]) /\ live' \in Settings /\ kept' \in Settings /\ i \in Nat
  BY <1>1 DEF SettingsInv, SetTypes, IsSetting
<1>3. IsSetting(s) /\ ~s.restores /\ s.open = sets[i].open /\ s.hooks = sets[i].hooks
  BY <1>2 DEF IsSetting, SetFields
<1>4. Is("settings")' /\ shown'.id = i
  BY <1>1 DEF Is
<1>5. call \in [dlg : Nat, want : Settings] /\ call.dlg = i
  BY <1>2 DEF IsSetting
<1> HIDE DEF s, i, call
<1>6. /\ saving' \in Seq([dlg : Nat, want : Settings]) /\ saving' # << >>
      /\ \A n \in DOMAIN saving' : (n \in DOMAIN saving /\ saving'[n] = saving[n]) \/ saving'[n] = call
      /\ \E n \in DOMAIN saving' : saving'[n] = call
  <2>1. saving \in Seq([dlg : Nat, want : Settings])
    BY DEF SettingsInv, SetTypes
  <2>2. Len(saving) + 1 \in DOMAIN saving' /\ saving'[Len(saving) + 1] = call
    BY <1>1, <1>5, <2>1
  <2> QED BY <1>1, <1>5, <2>1, <2>2
<1>7. \A n \in DOMAIN saving' : saving'[n].dlg \in DOMAIN sets
  BY <1>1, <1>5, <1>6 DEF SettingsInv, SetTypes
<1>8. /\ SetTypes' /\ DOMAIN sets' = DOMAIN sets /\ sets'[i] = s
      /\ \A j \in DOMAIN sets : j # i => sets'[j] = sets[j]
  BY <1>1, <1>2, <1>3, <1>4, <1>6, <1>7, OneSetting DEF SettingsInv
<1>9. \A j \in DOMAIN sets : j # i => (Owes(sets', saving', j) => Owes(sets, saving, j))
  BY <1>5, <1>6, <1>8 DEF Owes
<1>10. Owes(sets', saving', i)
  BY <1>5, <1>6 DEF Owes
<1>11. ASSUME ~tangled'
       PROVE  OnePreview' /\ \A j \in DOMAIN sets : sets'[j].open /\ ~sets'[j].restores
  <2>1. OnePreview
    BY <1>1, <1>11 DEF SettingsInv
  <2>2. sets[i].open /\ (sets[i].restores \/ Owes(sets, saving, i))
    BY <1>1, <2>1 DEF OnePreview, ShownBusy, i
  <2>3. \A j \in DOMAIN sets : j # i => ~Busy(sets, saving, j)
    BY <1>1, <2>1, <2>2 DEF OnePreview, OneBusy, Busy
  <2>4. \A j \in DOMAIN sets : j # i => ~Busy(sets', saving', j)
    BY <1>8, <1>9, <2>3 DEF Busy
  <2>5. OneBusy'
    BY <1>8, <2>4 DEF OneBusy
  <2>6. \A j \in DOMAIN sets : sets'[j].open /\ ~sets'[j].restores
    BY <1>3, <1>8, <2>2, <2>4 DEF Busy
  <2> QED BY <1>4, <1>8, <1>10, <2>2, <1>3, <2>5, <2>6
          DEF OnePreview, ShownBusy, AskedIdle, RestoreShown
<1>12. ASSUME ~tangled', ~astray' PROVE Noted'
  BY <1>6, <1>8, <1>11, <1>12 DEF Noted, AskedNoted, PreviewNoted, QuietKept
<1> QED BY <1>8, <1>11, <1>12 DEF SettingsInv

\* The save that is answered belongs to the only busy dialog.
LEMMA HeadOfSaves ==
  ASSUME SetTypes, saving # << >>
  PROVE  /\ Head(saving).dlg \in DOMAIN sets /\ Head(saving).want \in Settings
         /\ Owes(sets, saving, Head(saving).dlg)
         /\ Tail(saving) \in Seq([dlg : Nat, want : Settings])
         /\ \A n \in DOMAIN Tail(saving) : n + 1 \in DOMAIN saving /\ Tail(saving)[n] = saving[n + 1]
<1>1. saving \in Seq([dlg : Nat, want : Settings])
  BY DEF SetTypes
<1>2. 1 \in DOMAIN saving /\ 1 \in 1..Len(saving) /\ Head(saving) = saving[1]
  BY <1>1
<1>3. saving[1] \in [dlg : Nat, want : Settings]
  BY <1>1, <1>2, ElementOfSeq
<1>4. /\ Tail(saving) \in Seq([dlg : Nat, want : Settings])
      /\ \A n \in DOMAIN Tail(saving) : n + 1 \in DOMAIN saving /\ Tail(saving)[n] = saving[n + 1]
  BY <1>1
<1> QED BY <1>2, <1>3, <1>4 DEF SetTypes, Owes

LEMMA SettingsAnsweredFits ==
  ASSUME SettingsInv, NEW ok \in BOOLEAN, NEW hooks \in BOOLEAN, SettingsAnswered(ok, hooks)
  PROVE  SettingsInv'
<1> DEFINE i == Head(saving).dlg
           s == IF ok /\ hooks THEN [sets[i] EXCEPT !.hooks = @ + 1] ELSE sets[i]
<1>1. saving # << >> /\ saving' = Tail(saving) /\ kept' = Head(saving).want
  BY DEF SettingsAnswered
<1>2. /\ i \in DOMAIN sets /\ kept' \in Settings /\ Owes(sets, saving, i)
      /\ saving' \in Seq([dlg : Nat, want : Settings])
      /\ \A n \in DOMAIN saving' : n + 1 \in DOMAIN saving /\ saving'[n] = saving[n + 1]
  BY <1>1, HeadOfSaves DEF SettingsInv
<1>3. IsSetting(sets[i])
  BY <1>2 DEF SettingsInv, SetTypes
<1>4. /\ IsSetting(s) /\ s.open = sets[i].open /\ s.restores = sets[i].restores
      /\ s.before = sets[i].before /\ (s.hooks > 0 => (ok /\ hooks) \/ sets[i].hooks > 0)
      /\ (ok /\ hooks => s.hooks > 0)
  BY <1>3 DEF IsSetting, SetFields
<1>5. sets' = [sets EXCEPT ![i] = s]
  <2>1. CASE ok /\ hooks
    BY <2>1 DEF SettingsAnswered
  <2>2. CASE ~(ok /\ hooks)
    <3>1. sets' = sets
      BY <2>2 DEF SettingsAnswered
    <3>2. sets = [j \in DOMAIN sets |-> sets[j]]
      BY DEF SettingsInv, SetTypes
    <3> QED BY <1>2, <2>2, <3>1, <3>2
  <2> QED BY <2>1, <2>2
<1>6. \/ ok /\ live' = kept' /\ hooks /\ UNCHANGED <<shown, tangled>>
      \/ /\ ok /\ live' = kept' /\ ~hooks /\ shown' = Nothing
         /\ tangled => tangled'
      \/ live' = sets[i].before /\ tangled' /\ UNCHANGED shown
  BY DEF SettingsAnswered, Close
<1> HIDE DEF i, s
<1>7. live' \in Settings /\ (Is("settings")' => shown'.id \in DOMAIN sets)
  BY <1>2, <1>3, <1>6 DEF Is, Nothing, SettingsInv, SetTypes, IsSetting
<1>8. \A n \in DOMAIN saving' : saving'[n].dlg \in DOMAIN sets
  BY <1>2 DEF SettingsInv, SetTypes
<1>9. /\ SetTypes' /\ DOMAIN sets' = DOMAIN sets /\ sets'[i] = s
      /\ \A j \in DOMAIN sets : j # i => sets'[j] = sets[j]
  BY <1>2, <1>4, <1>5, <1>7, <1>8, OneSetting DEF SettingsInv
<1>10. \A j \in DOMAIN sets : Owes(sets', saving', j) => Owes(sets, saving, j)
  <2>1. ASSUME NEW j \in DOMAIN sets, j # i, Owes(sets', saving', j) PROVE Owes(sets, saving, j)
    BY <1>2, <1>9, <2>1 DEF Owes
  <2> QED BY <1>2, <2>1
<1>11. ASSUME ~tangled'
       PROVE  /\ OnePreview' /\ live' = kept'
              /\ \A j \in DOMAIN sets : sets'[j].open /\ ~sets'[j].restores
  <2>1. OnePreview /\ live' = kept'
    BY <1>6, <1>11 DEF SettingsInv
  <2>2. sets[i].open /\ ~sets[i].restores
    BY <1>2, <2>1 DEF OnePreview, AskedIdle, RestoreShown
  <2>3. \A j \in DOMAIN sets : j # i => sets[j].open /\ ~sets[j].restores
    BY <1>2, <2>1 DEF OnePreview, OneBusy, Busy
  <2>4. \A j \in DOMAIN sets : sets[j].open /\ sets'[j].open /\ ~sets'[j].restores
    BY <1>4, <1>9, <2>2, <2>3
  <2>5. Is("settings")' => /\ UNCHANGED shown /\ shown.id \in DOMAIN sets
                           /\ Owes(sets', saving', shown.id)
    <3>1. ASSUME Is("settings")' PROVE ok /\ hooks /\ UNCHANGED shown /\ Is("settings")
      BY <1>6, <1>11, <3>1 DEF Is, Nothing
    <3>2. ASSUME Is("settings")' PROVE shown.id = i
      BY <1>2, <2>1, <3>1, <3>2 DEF OnePreview, OneBusy, ShownBusy, Busy, SettingsInv, SetTypes
    <3> QED BY <1>2, <1>4, <1>9, <3>1, <3>2 DEF Owes
  <2>6. OnePreview'
    <3>1. \A j \in DOMAIN sets : sets'[j].open = sets[j].open
      BY <1>4, <1>9
    <3> QED BY <1>9, <1>10, <2>1, <2>4, <2>5, <3>1, Calms
  <2> QED BY <2>1, <2>4, <2>6
<1>12. ASSUME ~tangled', ~astray' PROVE Noted'
  BY <1>9, <1>11, <1>12 DEF Noted, AskedNoted, PreviewNoted, QuietKept
<1> QED BY <1>9, <1>11, <1>12 DEF SettingsInv

LEMMA HooksSetFits == ASSUME SettingsInv, NEW i \in DOMAIN sets, HooksSet(i) PROVE SettingsInv'
<1> DEFINE s == [sets[i] EXCEPT !.hooks = @ - 1]
<1>1. /\ sets[i].hooks > 0 /\ sets' = [sets EXCEPT ![i] = s] /\ shown' = Nothing
      /\ UNCHANGED <<live, kept, saving, astray>> /\ (tangled => tangled')
  BY DEF HooksSet, Close
<1>2. /\ IsSetting(sets[i]) /\ live' \in Settings /\ kept' \in Settings
      /\ saving' \in Seq([dlg : Nat, want : Settings])
      /\ \A n \in DOMAIN saving' : saving'[n].dlg \in DOMAIN sets
  BY <1>1 DEF SettingsInv, SetTypes
<1>3. /\ IsSetting(s) /\ s.restores = sets[i].restores /\ s.open = sets[i].open
      /\ s.before = sets[i].before
  <2>1. \A h \in Nat : h > 0 => h - 1 \in Nat
    OBVIOUS
  <2>2. sets[i].hooks - 1 \in Nat
    BY <1>1, <1>2, <2>1 DEF IsSetting
  <2> QED BY <1>2, <2>2 DEF IsSetting, SetFields
<1> HIDE DEF s
<1>4. ~Is("settings")'
  BY <1>1 DEF Is, Nothing
<1>5. /\ SetTypes' /\ DOMAIN sets' = DOMAIN sets /\ sets'[i] = s
      /\ \A j \in DOMAIN sets : j # i => sets'[j] = sets[j]
  BY <1>1, <1>2, <1>3, <1>4, OneSetting DEF SettingsInv
<1>6. Owes(sets, saving, i)
  BY <1>1 DEF Owes
<1>7. \A j \in DOMAIN sets : Owes(sets', saving', j) => Owes(sets, saving, j)
  BY <1>1, <1>5, <1>6, SameOwes
<1>8. ASSUME ~tangled' PROVE OnePreview'
  <2>1. OnePreview
    BY <1>1, <1>8 DEF SettingsInv
  <2>2. \A j \in DOMAIN sets : ~sets[j].restores
    BY <1>6, <2>1 DEF OnePreview, OneBusy, Busy, RestoreShown
  <2>3. \A j \in DOMAIN sets : sets'[j].open = sets[j].open /\ ~sets'[j].restores
    BY <1>3, <1>5, <2>2
  <2> QED BY <1>4, <1>5, <1>7, <2>1, <2>3, Calms
<1>9. ASSUME ~tangled', ~astray' PROVE Noted'
  <2>1. Noted
    BY <1>1, <1>9 DEF SettingsInv
  <2>2. \A j \in DOMAIN sets : /\ sets'[j].open = sets[j].open /\ sets'[j].before = sets[j].before
                               /\ sets'[j].restores = sets[j].restores
    BY <1>3, <1>5
  <2> QED BY <1>1, <1>5, <2>1, <2>2 DEF Noted, AskedNoted, PreviewNoted, QuietKept
<1> QED BY <1>5, <1>8, <1>9 DEF SettingsInv

\* Of some dialogs, one is the newest.
LEMMA HasNewest ==
  ASSUME NEW n \in Nat, NEW S, S \subseteq 1..n, S # {}
  PROVE  \E i \in S : \A j \in S : j <= i
<1> DEFINE T == {n - i : i \in S}
           R == OpToRel(<, Nat)
<1>1. T \subseteq Nat /\ T # {}
  <2>1. \A i \in 1..n : n - i \in Nat
    OBVIOUS
  <2> QED BY <2>1
<1>2. IsWellFoundedOn(R, Nat)
  BY NatLessThanWellFounded
<1>3. \A x, y \in Nat : y < x => <<y, x>> \in R
  <2>1. R = {ss \in Nat \X Nat : ss[1] < ss[2]}
    BY DEF OpToRel
  <2> HIDE DEF R
  <2> QED BY <2>1
<1> HIDE DEF R
<1>4. PICK x \in T : \A y \in T : <<y, x>> \notin R
  <2> HIDE DEF T
  <2> QED BY <1>1, <1>2, WFMin
<1>5. PICK i \in S : x = n - i
  BY <1>4
<1>6. \A j \in S : n - j \in T /\ ~(n - j < x)
  BY <1>1, <1>3, <1>4
<1>7. \A j \in S : j <= i
  BY <1>5, <1>6
<1> QED BY <1>7

\* Esc restores what the only dialog that restores has noted.
LEMMA EscSettingsFits == ASSUME SettingsInv, NEW inside, EscKey(inside) PROVE SettingsInv'
<1> DEFINE to(i) == [sets[i] EXCEPT !.restores = FALSE]
<1>1. /\ sets' = [i \in DOMAIN sets |-> to(i)]
      /\ live' = Restored /\ UNCHANGED <<kept, saving, astray>>
  BY DEF EscKey
<1>2. \/ shown' = Nothing /\ UNCHANGED tangled
      \/ UNCHANGED shown /\ ((tangled \/ Is("settings")) => tangled')
  BY Zenon DEF EscKey
<1>3. \A i \in DOMAIN sets :
         IsSetting(to(i)) /\ ~to(i).restores /\ to(i).open = sets[i].open
         /\ to(i).hooks = sets[i].hooks /\ to(i).before = sets[i].before
  <2>1. ASSUME NEW s, IsSetting(s)
        PROVE  LET t == [s EXCEPT !.restores = FALSE] IN
               IsSetting(t) /\ ~t.restores /\ t.open = s.open
               /\ t.hooks = s.hooks /\ t.before = s.before
    BY <2>1 DEF IsSetting, SetFields
  <2> QED BY <2>1 DEF SettingsInv, SetTypes
<1> HIDE DEF to
<1>4. /\ DOMAIN sets' = DOMAIN sets /\ \A i \in DOMAIN sets : sets'[i] = to(i)
  BY <1>1
<1>5. Restored \in Settings
  <2>1. CASE Restorers = {}
    BY <2>1 DEF Restored, SettingsInv, SetTypes
  <2>2. CASE Restorers # {}
    <3> DEFINE last == CHOOSE i \in Restorers : \A j \in Restorers : j <= i
    <3>1. PICK n \in Nat : DOMAIN sets = 1..n
      BY DEF SettingsInv, SetTypes
    <3>3. \E i \in Restorers : \A j \in Restorers : j <= i
      BY <2>2, <3>1, HasNewest DEF Restorers
    <3>4. last \in Restorers
      BY <3>3
    <3>5. Restored = sets[last].before
      BY <2>2 DEF Restored
    <3> HIDE DEF last
    <3> QED BY <3>4, <3>5 DEF Restorers, SettingsInv, SetTypes, IsSetting
  <2> QED BY <2>1, <2>2
<1>6. SetTypes'
  <2>1. sets' = [i \in DOMAIN sets' |-> sets'[i]]
    BY <1>1, <1>4
  <2>2. Is("settings")' => shown'.id \in DOMAIN sets
    BY <1>2 DEF SettingsInv, SetTypes, Is, Nothing
  <2>3. \A i \in DOMAIN sets' : IsSetting(sets'[i])
    BY <1>3, <1>4
  <2> QED BY <1>1, <1>4, <1>5, <2>1, <2>2, <2>3 DEF SettingsInv, SetTypes
<1>7. \A i \in DOMAIN sets : sets'[i].open = sets[i].open /\ sets'[i].hooks = sets[i].hooks
                             /\ sets'[i].before = sets[i].before /\ ~sets'[i].restores
  BY <1>3, <1>4
<1>8. \A i \in DOMAIN sets : Owes(sets', saving', i) = Owes(sets, saving, i)
  BY <1>1, <1>7, SameOwes
<1>9. ASSUME ~tangled' PROVE OnePreview /\ OnePreview'
  <2>1. OnePreview /\ ~Is("settings")'
    BY <1>2, <1>9 DEF SettingsInv, Is, Nothing
  <2> QED BY <1>4, <1>7, <1>8, <2>1, Calms
<1>10. ASSUME ~tangled', ~astray' PROVE Noted'
  <2>1. OnePreview /\ Noted
    BY <1>1, <1>2, <1>9, <1>10 DEF SettingsInv
  <2>2. Restorers # {} => live' = kept'
    <3>1. ASSUME NEW i \in Restorers PROVE Restored = kept
      <4>1. \A j \in Restorers : j = i
        BY <2>1, <3>1 DEF Restorers, OnePreview, OneBusy, Busy
      <4>2. i <= i
        BY <3>1 DEF Restorers, SettingsInv, SetTypes
      <4>3. (CHOOSE k \in Restorers : \A j \in Restorers : j <= k) = i
        BY <3>1, <4>1, <4>2
      <4>4. Restored = sets[i].before
        BY <3>1, <4>3 DEF Restored
      <4> QED BY <2>1, <3>1, <4>4 DEF Noted, PreviewNoted, Restorers
    <3> QED BY <1>1, <3>1
  <2>3. Restorers = {} => live' = live
    BY <1>1 DEF Restored
  <2>4. AskedNoted'
    <3>1. ASSUME NEW i \in DOMAIN sets, ~sets[i].open PROVE Restorers = {}
      BY <2>1, <3>1 DEF OnePreview, OneBusy, Busy, AskedIdle, Restorers
    <3> QED BY <1>1, <1>4, <1>7, <2>1, <2>3, <3>1 DEF Noted, AskedNoted
  <2>5. QuietKept'
    BY <1>1, <2>1, <2>2, <2>3 DEF Noted, QuietKept, Restorers
  <2>6. PreviewNoted'
    BY <1>4, <1>7 DEF PreviewNoted
  <2> QED BY <2>4, <2>5, <2>6 DEF Noted
<1> QED BY <1>6, <1>9, <1>10 DEF SettingsInv

LEMMA SlotSettings == ASSUME SettingsInv, SlotNext PROVE SettingsInv'
<1>1. ASSUME NEW inside, EscKey(inside) PROVE SettingsInv'
  BY <1>1, EscSettingsFits
<1>2. ASSUME CloseButton PROVE SlotMoves
  BY <1>2, CloseMoves DEF CloseButton, Is
<1>3. ASSUME StartPull PROVE SlotMoves
  BY <1>3, CloseMoves, StayMoves DEF StartPull, Is
<1>4. ASSUME NEW ok, EndPull(ok) PROVE SlotMoves
  BY <1>4, ShowMoves, StayMoves DEF EndPull
<1>5. ASSUME NEW p, ArmDiscard(p) \/ DisarmDiscard \/ Discard \/ ClearSessions PROVE SlotMoves
  BY <1>5, StayMoves DEF ArmDiscard, DisarmDiscard, Discard, ClearSessions, setVars
<1>6. ASSUME ShowUpdate \/ AskClear PROVE SlotMoves
  BY <1>6, ShowMoves DEF ShowUpdate, AskClear
<1>7. ASSUME SessionsCleared PROVE SlotMoves
  <2>1. Is("settings") => shown # [kind |-> "clear", id |-> 0]
    BY DEF Is
  <2> QED BY <1>7, <2>1, CloseMoves DEF SessionsCleared
<1> QED BY <1>1, <1>2, <1>3, <1>4, <1>5, <1>6, <1>7, SlotMovesSettings DEF SlotNext

LEMMA SettingsStep == ASSUME SettingsInv, [DesktopNext]_vars PROVE SettingsInv'
<1>1. ASSUME SettingsNext PROVE SettingsInv'
  <2>1. CASE AskSettings \/ CancelSettings \/ SaveSettings
    BY <2>1, AskSettingsFits, CancelSettingsFits, SaveSettingsFits
  <2>2. ASSUME NEW ok \in BOOLEAN, NEW hooks \in BOOLEAN, SettingsAnswered(ok, hooks)
        PROVE  SettingsInv'
    BY <2>2, SettingsAnsweredFits
  <2>3. ASSUME NEW i \in DOMAIN sets, DrawSettings(i) \/ HooksSet(i) PROVE SettingsInv'
    BY <2>3, DrawSettingsFits, HooksSetFits
  <2>4. ASSUME NEW i \in DOMAIN sets, NEW v \in {0, 1}, NothingPicked(i) \/ FontPicked(i, v)
        PROVE  SettingsInv'
    BY <2>4, PreviewFits
  <2>5. ASSUME NEW v \in {0, 1}, PickFont \/ PreviewFont(v) \/ PreviewLook(v) PROVE SettingsInv'
    <3>1. shown.id \in DOMAIN sets
      BY <2>5 DEF PickFont, PreviewFont, PreviewLook, SettingsInv, SetTypes
    <3> QED BY <2>5, <3>1, PreviewFits
  <2>6. 0 \in {0, 1}
    OBVIOUS
  <2> QED BY <1>1, <2>1, <2>2, <2>3, <2>4, <2>5, <2>6 DEF SettingsNext
<1>2. ASSUME Beside PROVE SettingsInv'
  BY <1>2, SlotMovesSettings DEF Beside, SlotMoves
<1>3. ASSUME DialogsNext PROVE SettingsInv'
  BY <1>1, <1>3, EditorMoves, SlotMovesSettings, SlotSettings DEF DialogsNext
<1> QED BY <1>2, <1>3, FormsBeside, WorktreesBeside, StillBeside DEF DesktopNext, vars

\* A settings dialog that is asked for notes what is in effect and kept; while
\* one previews, it can restore that: for any number of settings dialogs, saves
\* under way and clicks while their answers, the hooks and a font file are
\* awaited, as long as no dialog lost the slot, overlapped another or failed to
\* save, and, for what was noted, no preview strayed since the last answer.
THEOREM PreviewsAreNoted == DesktopSpec => []SettingsInv
<1>1. DesktopInit => SettingsInv
  BY SettingsInit DEF DesktopInit
<1>2. SettingsInv /\ [DesktopNext]_vars => SettingsInv'
  BY SettingsStep
<1> QED BY <1>1, <1>2, PTL DEF DesktopSpec

\* Leaving the settings undoes their preview, but for the previews that the code
\* leaves behind itself.
THEOREM PreviewsAreUndone == DesktopSpec => []PreviewUndone
<1>1. ASSUME SettingsInv PROVE PreviewUndone
  <2>1. ASSUME ~tangled, ~astray, ~Is("settings"), \A i \in DOMAIN sets : ~UnderWay(i)
        PROVE  live = kept
    <3>1. OnePreview /\ Noted
      BY <1>1, <2>1 DEF SettingsInv
    <3>2. saving = << >>
      <4>1. ASSUME saving # << >> PROVE FALSE
        <5>1. Head(saving).dlg \in DOMAIN sets /\ Owes(sets, saving, Head(saving).dlg)
          BY <1>1, <4>1, HeadOfSaves DEF SettingsInv
        <5> QED BY <2>1, <5>1 DEF Owes, UnderWay
      <4> QED BY <4>1
    <3>3. \A i \in DOMAIN sets : ~sets[i].restores
      BY <2>1, <3>1 DEF OnePreview, RestoreShown
    <3> QED BY <3>1, <3>2, <3>3 DEF Noted, QuietKept
  <2> QED BY <2>1 DEF PreviewUndone
<1> QED BY <1>1, PreviewsAreNoted, PTL

-----------------------------------------------------------------------------
(* Lists                                                                   *)

\* Lists are walked by their length.
LEMMA Induction ==
  ASSUME NEW S, 0 \in S, \A n \in Nat : n \in S => n + 1 \in S
  PROVE  \A n \in Nat : n \in S
<1> SUFFICES ASSUME ~(\A n \in Nat : n \in S) PROVE FALSE
  OBVIOUS
<1> DEFINE Bad == {n \in Nat : n \notin S}
<1>1. Bad \subseteq Nat /\ Bad # {}
  OBVIOUS
<1>2. IsWellFoundedOn(OpToRel(<, Nat), Nat)
  BY NatLessThanWellFounded
<1>3. PICK m \in Bad : \A b \in Bad : ~(<<b, m>> \in OpToRel(<, Nat))
  BY <1>1, <1>2, WFMin
<1>4. m \in Nat /\ m # 0 /\ m - 1 \in Nat /\ m - 1 < m
  OBVIOUS
<1>5. m - 1 \notin Bad
  BY <1>3, <1>4 DEF OpToRel
<1>6. (m - 1) + 1 = m
  BY <1>4
<1> QED BY <1>4, <1>5, <1>6


\* The filter of Only, written out for the first n positions.
FiltersTo(f, s, S, n) ==
  f = [i \in 0..n |-> IF i = 0 THEN << >>
                      ELSE IF s[i] \in S THEN Append(f[i - 1], s[i]) ELSE f[i - 1]]

\* The function that Only makes, and what it picks.
LEMMA FilterExists ==
  ASSUME NEW s, NEW S, NEW n \in Nat
  PROVE  \E f : FiltersTo(f, s, S, n)
<1> DEFINE P == {k \in Nat : \E f : FiltersTo(f, s, S, k)}
<1>1. 0 \in P
  <2> DEFINE g == [i \in 0..0 |-> << >>]
  <2>1. g = [i \in 0..0 |-> IF i = 0 THEN << >>
                            ELSE IF s[i] \in S THEN Append(g[i - 1], s[i]) ELSE g[i - 1]]
    OBVIOUS
  <2> HIDE DEF g
  <2>2. FiltersTo(g, s, S, 0)
    BY <2>1 DEF FiltersTo
  <2> QED BY <2>2
<1>2. ASSUME NEW k \in Nat, k \in P PROVE k + 1 \in P
  <2>1. PICK f : FiltersTo(f, s, S, k)
    BY <1>2
  <2> DEFINE new == IF s[k + 1] \in S THEN Append(f[k], s[k + 1]) ELSE f[k]
             g == [i \in 0..(k + 1) |-> IF i = k + 1 THEN new ELSE f[i]]
  <2> HIDE DEF new
  <2>2. ASSUME NEW i \in 0..(k + 1)
        PROVE  g[i] = IF i = 0 THEN << >>
                      ELSE IF s[i] \in S THEN Append(g[i - 1], s[i]) ELSE g[i - 1]
    <3>1. CASE i = k + 1
      <4>1. i # 0 /\ i - 1 = k /\ g[i] = new /\ g[k] = f[k]
        BY <3>1
      <4> HIDE DEF g
      <4> QED BY <3>1, <4>1 DEF new
    <3>2. CASE i # k + 1
      <4>1. i \in 0..k /\ g[i] = f[i]
        BY <3>2
      <4>2. i # 0 => i - 1 \in 0..(k + 1) /\ i - 1 # k + 1 /\ g[i - 1] = f[i - 1]
        BY <4>1
      <4>3. f[i] = IF i = 0 THEN << >>
                   ELSE IF s[i] \in S THEN Append(f[i - 1], s[i]) ELSE f[i - 1]
        BY <2>1, <4>1 DEF FiltersTo
      <4> HIDE DEF g
      <4> QED BY <4>1, <4>2, <4>3
    <3> QED BY <3>1, <3>2
  <2>3. g = [i \in 0..(k + 1) |-> g[i]]
    OBVIOUS
  <2> HIDE DEF g
  <2>4. FiltersTo(g, s, S, k + 1)
    BY <2>2, <2>3 DEF FiltersTo
  <2> QED BY <2>4
<1> HIDE DEF P
<1>3. n \in P
  BY <1>1, <1>2, Induction
<1> QED BY <1>3 DEF P

\* m is what is left of the first n of s: their members of S, in order.
PicksTo(e, m, s, S, n) ==
  /\ e \in [1..Len(m) -> 1..n]
  /\ \A i \in 1..Len(m) : m[i] = s[e[i]] /\ m[i] \in S
  /\ \A i, j \in 1..Len(m) : i < j => e[i] < e[j]
  /\ \A k \in 1..n : s[k] \in S => \E i \in 1..Len(m) : e[i] = k
Picks(e, m, s, S) == PicksTo(e, m, s, S, Len(s))

\* One more member to look at.
LEMMA PicksMore ==
  ASSUME NEW T, NEW s \in Seq(T), NEW S, NEW n \in Nat, n + 1 \in 1..Len(s),
         NEW m \in Seq(T), NEW e, PicksTo(e, m, s, S, n), s[n + 1] \in S,
         NEW w, w = Append(m, s[n + 1])
  PROVE  w \in Seq(T) /\ \E d : PicksTo(d, w, s, S, n + 1)
<1>1. s[n + 1] \in T
  BY ElementOfSeq
<1>2. /\ w \in Seq(T) /\ Len(w) = Len(m) + 1 /\ Len(m) \in Nat
      /\ \A i \in 1..Len(m) : w[i] = m[i]
      /\ w[Len(m) + 1] = s[n + 1]
  BY <1>1, AppendProperties
<1> DEFINE d == [i \in 1..Len(w) |-> IF i = Len(w) THEN n + 1 ELSE e[i]]
<1>3. ASSUME NEW i \in 1..Len(m) PROVE d[i] = e[i] /\ d[i] \in 1..n
  <2>1. i \in 1..Len(w) /\ i # Len(w)
    BY <1>2
  <2>2. e[i] \in 1..n
    BY DEF PicksTo
  <2> QED BY <2>1, <2>2
<1>4. d[Len(w)] = n + 1 /\ Len(w) \in 1..Len(w)
  BY <1>2
<1>6. \A i \in 1..Len(w) : i = Len(w) \/ i \in 1..Len(m)
  BY <1>2
<1>5. d \in [1..Len(w) -> 1..(n + 1)]
  <2>1. \A i \in 1..Len(w) : d[i] \in 1..(n + 1)
    <3> HIDE DEF d
    <3> QED BY <1>3, <1>4, <1>6
  <2> QED BY <2>1
<1> HIDE DEF d
<1>7. ASSUME NEW i \in 1..Len(w) PROVE w[i] = s[d[i]] /\ w[i] \in S
  BY <1>2, <1>3, <1>4, <1>6 DEF PicksTo
<1>8. ASSUME NEW i \in 1..Len(w), NEW j \in 1..Len(w), i < j PROVE d[i] < d[j]
  <2>1. i \in 1..Len(m) /\ d[i] = e[i] /\ d[i] \in 1..n
    BY <1>2, <1>3, <1>8
  <2>2. CASE j = Len(w)
    BY <1>4, <2>1, <2>2
  <2>3. CASE j \in 1..Len(m)
    BY <1>3, <1>8, <2>1, <2>3 DEF PicksTo
  <2> QED BY <1>6, <2>2, <2>3
<1>9. ASSUME NEW k \in 1..(n + 1), s[k] \in S PROVE \E i \in 1..Len(w) : d[i] = k
  <2>1. CASE k = n + 1
    BY <1>4, <2>1
  <2>2. CASE k # n + 1
    <3>1. k \in 1..n /\ s[k] \in S
      BY <1>9, <2>2
    <3>2. PICK i \in 1..Len(m) : e[i] = k
      BY <3>1 DEF PicksTo
    <3>3. i \in 1..Len(w) /\ d[i] = k
      BY <1>2, <1>3, <3>2
    <3> QED BY <3>3
  <2> QED BY <2>1, <2>2
<1>10. PicksTo(d, w, s, S, n + 1)
  BY <1>5, <1>7, <1>8, <1>9 DEF PicksTo
<1> QED BY <1>2, <1>10

LEMMA PicksSame ==
  ASSUME NEW T, NEW s \in Seq(T), NEW S, NEW n \in Nat, n + 1 \in 1..Len(s),
         NEW m \in Seq(T), NEW e, PicksTo(e, m, s, S, n), s[n + 1] \notin S
  PROVE  PicksTo(e, m, s, S, n + 1)
<1>1. 1..n \subseteq 1..(n + 1)
  OBVIOUS
<1>2. \A k \in 1..(n + 1) : k = n + 1 \/ k \in 1..n
  OBVIOUS
<1> QED BY <1>1, <1>2 DEF PicksTo

\* Only picks the members of S and keeps their order.
LEMMA OnlyPicks ==
  ASSUME NEW T, NEW s \in Seq(T), NEW S
  PROVE  /\ Only(s, S) \in Seq(T)
         /\ \E e : Picks(e, Only(s, S), s, S)
<1>1. Len(s) \in Nat
  OBVIOUS
<1> DEFINE f == CHOOSE g : FiltersTo(g, s, S, Len(s))
<1>2. FiltersTo(f, s, S, Len(s))
  BY <1>1, FilterExists
<1>3. Only(s, S) = f[Len(s)]
  BY DEF Only, FiltersTo
<1> HIDE DEF f
<1>4. \A i \in 0..Len(s) : f[i] = IF i = 0 THEN << >>
                                  ELSE IF s[i] \in S THEN Append(f[i - 1], s[i]) ELSE f[i - 1]
  BY <1>2 DEF FiltersTo
<1> DEFINE P == {n \in Nat : n <= Len(s) => f[n] \in Seq(T) /\ \E e : PicksTo(e, f[n], s, S, n)}
<1>5. 0 \in P
  <2>1. f[0] = << >>
    BY <1>1, <1>4
  <2> DEFINE e == [i \in 1..0 |-> 0]
  <2>2. PicksTo(e, << >>, s, S, 0)
    BY DEF PicksTo
  <2>3. << >> \in Seq(T)
    OBVIOUS
  <2> HIDE DEF e
  <2> QED BY <2>1, <2>2, <2>3
<1>6. ASSUME NEW n \in Nat, n \in P PROVE n + 1 \in P
  <2> SUFFICES ASSUME n + 1 <= Len(s)
               PROVE  f[n + 1] \in Seq(T) /\ \E e : PicksTo(e, f[n + 1], s, S, n + 1)
    OBVIOUS
  <2>1. n + 1 \in 1..Len(s) /\ (n + 1) - 1 = n /\ n <= Len(s)
    BY <1>1
  <2>2. PICK m : m = f[n]
    OBVIOUS
  <2>3. PICK e : m \in Seq(T) /\ PicksTo(e, m, s, S, n)
    BY <1>6, <2>1, <2>2
  <2>4. f[n + 1] = IF s[n + 1] \in S THEN Append(m, s[n + 1]) ELSE m
    BY <1>4, <2>1, <2>2
  <2>5. CASE s[n + 1] \in S
    BY <2>1, <2>3, <2>4, <2>5, PicksMore
  <2>6. CASE s[n + 1] \notin S
    BY <2>1, <2>3, <2>4, <2>6, PicksSame
  <2> QED BY <2>5, <2>6
<1> HIDE DEF P
<1>7. Len(s) \in P
  BY <1>1, <1>5, <1>6, Induction
<1> QED BY <1>1, <1>3, <1>7 DEF P, Picks

Distinct(s) == \A i, j \in 1..Len(s) : s[i] = s[j] => i = j
Before(s, x, y) == \E i, j \in 1..Len(s) : i < j /\ s[i] = x /\ s[j] = y
OneEach(list) == \A i, j \in 1..Len(list) : list[i].id = list[j].id => i = j

\* What stands in a list.
LEMMA RangeIs ==
  ASSUME NEW T, NEW s \in Seq(T)
  PROVE  /\ Range(s) \subseteq T
         /\ \A i \in 1..Len(s) : s[i] \in Range(s) /\ s[i] \in T
         /\ \A x \in Range(s) : \E i \in 1..Len(s) : s[i] = x
<1>1. DOMAIN s = 1..Len(s) /\ \A i \in 1..Len(s) : s[i] \in T
  BY LenProperties, ElementOfSeq
<1> QED BY <1>1 DEF Range

\* Two lists that hold the same, nothing twice, in the same order are the same:
\* at the first place where they differed each would have the other's member
\* further behind.
LEMMA SameOrder ==
  ASSUME NEW T, NEW s \in Seq(T), NEW t \in Seq(T), Distinct(s), Distinct(t),
         Range(s) = Range(t), \A x, y : Before(s, x, y) => Before(t, x, y)
  PROVE  s = t
<1>1. Len(s) \in Nat /\ Len(t) \in Nat
  OBVIOUS
<1> DEFINE P == {k \in Nat : \A i \in 1..k : i <= Len(s) => i <= Len(t) /\ s[i] = t[i]}
<1>2. 0 \in P
  OBVIOUS
<1>3. ASSUME NEW k \in Nat, k \in P PROVE k + 1 \in P
  <2> SUFFICES ASSUME k + 1 <= Len(s) PROVE k + 1 <= Len(t) /\ s[k + 1] = t[k + 1]
    <3>1. \A i \in 1..(k + 1) : i = k + 1 \/ i \in 1..k
      OBVIOUS
    <3> QED BY <1>3, <3>1
  <2>1. k + 1 \in 1..Len(s) /\ \A i \in 1..k : i \in 1..Len(s) /\ i \in 1..Len(t) /\ s[i] = t[i]
    BY <1>1, <1>3
  <2>2. PICK j \in 1..Len(t) : t[j] = s[k + 1]
    BY <2>1, RangeIs
  <2>3. j >= k + 1
    <3> SUFFICES ASSUME j \in 1..k PROVE FALSE
      BY <1>1, <2>2
    <3>1. s[j] = s[k + 1] /\ j \in 1..Len(s) /\ j # k + 1
      BY <2>1, <2>2
    <3> QED BY <2>1, <3>1 DEF Distinct
  <2>4. CASE j = k + 1
    BY <2>2, <2>4
  <2>5. CASE j # k + 1
    <3>1. k + 1 \in 1..Len(t) /\ k + 1 < j
      BY <1>1, <2>3, <2>5
    <3>2. PICK m \in 1..Len(s) : s[m] = t[k + 1]
      BY <3>1, RangeIs
    <3>3. m # k + 1
      <4> SUFFICES ASSUME m = k + 1 PROVE FALSE
        OBVIOUS
      <4>1. t[j] = t[k + 1]
        BY <2>2, <3>2
      <4> QED BY <2>5, <3>1, <4>1 DEF Distinct
    <3>4. ~(m \in 1..k)
      <4> SUFFICES ASSUME m \in 1..k PROVE FALSE
        OBVIOUS
      <4>1. t[m] = t[k + 1] /\ m \in 1..Len(t) /\ m # k + 1
        BY <2>1, <3>2
      <4> QED BY <3>1, <4>1 DEF Distinct
    <3>5. k + 1 < m
      BY <1>1, <3>2, <3>3, <3>4
    <3>6. Before(s, s[k + 1], s[m])
      BY <2>1, <3>5 DEF Before
    <3>7. PICK a, b \in 1..Len(t) : a < b /\ t[a] = s[k + 1] /\ t[b] = s[m]
      BY <3>6 DEF Before
    <3>8. a = j
      BY <2>2, <3>7 DEF Distinct
    <3>9. b = k + 1
      BY <3>1, <3>2, <3>7 DEF Distinct
    <3> QED BY <3>1, <3>7, <3>8, <3>9
  <2> QED BY <2>4, <2>5
<1> HIDE DEF P
<1>4. \A k \in Nat : k \in P
  BY <1>2, <1>3, Induction
<1>5. \A i \in 1..Len(s) : i \in 1..Len(t) /\ s[i] = t[i]
  <2> TAKE i \in 1..Len(s)
  <2>1. i \in Nat /\ i \in P
    BY <1>4
  <2> QED BY <1>1, <2>1 DEF P
<1>6. Len(t) <= Len(s)
  <2> SUFFICES ASSUME Len(s) < Len(t) PROVE FALSE
    BY <1>1
  <2>1. Len(t) \in 1..Len(t)
    BY <1>1
  <2>2. PICK i \in 1..Len(s) : s[i] = t[Len(t)]
    BY <2>1, RangeIs
  <2>3. i \in 1..Len(t) /\ t[i] = t[Len(t)] /\ i # Len(t)
    BY <1>1, <1>5, <2>2
  <2> QED BY <2>1, <2>3 DEF Distinct
<1>7. Len(s) = Len(t)
  <2>1. Len(s) <= Len(t)
    <3>1. Len(s) = 0 \/ Len(s) \in 1..Len(s)
      BY <1>1
    <3>2. Len(s) \in 1..Len(s) => Len(s) \in 1..Len(t)
      BY <1>5
    <3> QED BY <1>1, <3>1, <3>2
  <2> QED BY <1>1, <1>6, <2>1
<1> QED BY <1>5, <1>7, SeqEqual

\* The rows of a list have an id each, and every id is in the list once.
HasIds(R) == \A r \in R : r.id \in Nat

\* The ids of a list's rows.
LEMMA IdsAre ==
  ASSUME NEW R, HasIds(R), NEW s \in Seq(R)
  PROVE  /\ Ids(s) \in Seq(Nat) /\ Len(Ids(s)) = Len(s) /\ Len(s) \in Nat
         /\ \A i \in 1..Len(s) : Ids(s)[i] = s[i].id /\ s[i] \in R /\ s[i].id \in Nat
         /\ Range(Ids(s)) = {x.id : x \in Range(s)}
         /\ OneEach(s) => Distinct(Ids(s)) /\ Distinct(s)
<1>1. DOMAIN s = 1..Len(s) /\ Len(s) \in Nat /\ \A i \in 1..Len(s) : s[i] \in R
  BY LenProperties, ElementOfSeq
<1>2. Ids(s) = [i \in 1..Len(s) |-> s[i].id]
  BY <1>1 DEF Ids
<1>3. \A i \in 1..Len(s) : s[i].id \in Nat
  BY <1>1 DEF HasIds
<1>4. Ids(s) \in [1..Len(s) -> Nat]
  BY <1>2, <1>3
<1>5. Ids(s) \in Seq(Nat) /\ Len(Ids(s)) = Len(s)
  BY <1>1, <1>4
<1>6. \A i \in 1..Len(s) : Ids(s)[i] = s[i].id
  BY <1>2
<1>7. Range(Ids(s)) = {x.id : x \in Range(s)}
  BY <1>1, <1>2 DEF Range
<1>8. OneEach(s) => Distinct(Ids(s)) /\ Distinct(s)
  BY <1>5, <1>6 DEF OneEach, Distinct
<1> QED BY <1>1, <1>3, <1>5, <1>6, <1>7, <1>8

LEMMA BeforeRows ==
  ASSUME NEW R, HasIds(R), NEW s \in Seq(R), NEW a, NEW b
  PROVE  Before(Ids(s), a, b) <=> \E i, j \in 1..Len(s) : i < j /\ s[i].id = a /\ s[j].id = b
<1>1. Len(Ids(s)) = Len(s) /\ \A i \in 1..Len(s) : Ids(s)[i] = s[i].id
  BY IdsAre
<1> QED BY <1>1 DEF Before

\* Two lists with the same rows and the same order of ids are the same.
LEMMA SameRows ==
  ASSUME NEW R, HasIds(R), NEW s \in Seq(R), NEW t \in Seq(R), OneEach(s), OneEach(t),
         Range(s) = Range(t), \A a, b : Before(Ids(s), a, b) => Before(Ids(t), a, b)
  PROVE  s = t
<1>1. Ids(s) = Ids(t)
  BY IdsAre, SameOrder
<1>2. Len(s) = Len(t)
  BY <1>1, IdsAre
<1>3. ASSUME NEW i \in 1..Len(s) PROVE s[i] = t[i]
  <2>1. PICK j \in 1..Len(t) : t[j] = s[i]
    BY RangeIs
  <2>2. t[j].id = s[i].id /\ t[i].id = s[i].id
    BY <1>1, <1>2, <2>1, IdsAre
  <2>3. i = j
    BY <1>2, <2>2 DEF OneEach
  <2> QED BY <2>1, <2>3
<1> QED BY <1>2, <1>3, SeqEqual

LEMMA RowOfId ==
  ASSUME NEW R, NEW s \in Seq(R), OneEach(s),
         NEW x \in Range(s), NEW y \in Range(s), x.id = y.id
  PROVE  x = y
<1>1. PICK i \in 1..Len(s) : s[i] = x
  BY RangeIs
<1>2. PICK j \in 1..Len(s) : s[j] = y
  BY RangeIs
<1> QED BY <1>1, <1>2 DEF OneEach

\* What a filter keeps.
LEMMA OnlyKeeps ==
  ASSUME NEW T, NEW s \in Seq(T), NEW S, NEW m, m = Only(s, S)
  PROVE  /\ m \in Seq(T) /\ Range(m) = Range(s) \cap S
         /\ Distinct(s) => Distinct(m)
         /\ OneEach(s) => OneEach(m)
<1>1. m \in Seq(T)
  BY OnlyPicks
<1>2. PICK e : Picks(e, m, s, S)
  BY OnlyPicks
<1>3. Len(s) \in Nat /\ Len(m) \in Nat
  BY <1>1
<1>4. \A i \in 1..Len(m) : e[i] \in 1..Len(s) /\ m[i] = s[e[i]] /\ m[i] \in S
  BY <1>2 DEF Picks, PicksTo
<1>5. Range(m) \subseteq Range(s) \cap S
  <2> SUFFICES ASSUME NEW x \in Range(m) PROVE x \in Range(s) /\ x \in S
    OBVIOUS
  <2>1. PICK i \in 1..Len(m) : m[i] = x
    BY <1>1, RangeIs
  <2> QED BY <1>4, <2>1, RangeIs
<1>6. Range(s) \cap S \subseteq Range(m)
  <2> SUFFICES ASSUME NEW x \in Range(s), x \in S PROVE x \in Range(m)
    OBVIOUS
  <2>1. PICK k \in 1..Len(s) : s[k] = x
    BY RangeIs
  <2>2. PICK i \in 1..Len(m) : e[i] = k
    BY <1>2, <2>1 DEF Picks, PicksTo
  <2> QED BY <1>1, <1>4, <2>1, <2>2, RangeIs
<1>7. ASSUME NEW i \in 1..Len(m), NEW j \in 1..Len(m), e[i] = e[j] PROVE i = j
  <2>1. ~(i < j) /\ ~(j < i)
    <3>1. \A a, b \in 1..Len(m) : a < b => e[a] < e[b]
      BY <1>2 DEF Picks, PicksTo
    <3>2. e[i] \in 1..Len(s) /\ e[j] \in 1..Len(s)
      BY <1>4
    <3> QED BY <1>3, <1>7, <3>1, <3>2
  <2> QED BY <1>3, <2>1
<1>8. Distinct(s) => Distinct(m)
  BY <1>4, <1>7 DEF Distinct
<1>9. OneEach(s) => OneEach(m)
  BY <1>4, <1>7 DEF OneEach
<1> QED BY <1>1, <1>5, <1>6, <1>8, <1>9

\* A filter keeps the order.
LEMMA OnlyOrder ==
  ASSUME NEW T, NEW s \in Seq(T), NEW S, NEW m, m = Only(s, S),
         NEW i \in 1..Len(s), NEW j \in 1..Len(s), s[i] \in S, s[j] \in S, i < j
  PROVE  \E a, b \in 1..Len(m) : a < b /\ m[a] = s[i] /\ m[b] = s[j]
<1>1. m \in Seq(T)
  BY OnlyPicks
<1>2. PICK e : Picks(e, m, s, S)
  BY OnlyPicks
<1>3. PICK a \in 1..Len(m) : e[a] = i
  BY <1>2 DEF Picks, PicksTo
<1>4. PICK b \in 1..Len(m) : e[b] = j
  BY <1>2 DEF Picks, PicksTo
<1>5. m[a] = s[i] /\ m[b] = s[j]
  BY <1>2, <1>3, <1>4 DEF Picks, PicksTo
<1>6. a < b
  <2> SUFFICES ASSUME b <= a PROVE FALSE
    BY <1>1
  <2>1. CASE b = a
    BY <1>3, <1>4, <2>1
  <2>2. CASE b < a
    <3>1. e[b] < e[a]
      BY <1>2, <2>2 DEF Picks, PicksTo
    <3> QED BY <1>3, <1>4, <3>1
  <2> QED BY <1>1, <2>1, <2>2
<1> QED BY <1>5, <1>6

\* Only keeps the order of what it keeps.
LEMMA OrderOfOnly ==
  ASSUME NEW T, NEW s \in Seq(T), NEW S, NEW m, m = Only(s, S),
         NEW a \in 1..Len(m), NEW b \in 1..Len(m), a < b
  PROVE  \E i, j \in 1..Len(s) : i < j /\ m[a] = s[i] /\ m[b] = s[j]
<1>1. m \in Seq(T)
  BY OnlyPicks
<1>2. PICK e : Picks(e, m, s, S)
  BY OnlyPicks
<1>3. e[a] \in 1..Len(s) /\ e[b] \in 1..Len(s) /\ e[a] < e[b] /\ m[a] = s[e[a]] /\ m[b] = s[e[b]]
  BY <1>2 DEF Picks, PicksTo
<1> QED BY <1>3

\* The same for the ids of a list of rows.
LEMMA OnlyBefore ==
  ASSUME NEW R, HasIds(R), NEW s \in Seq(R), NEW S, NEW m, m = Only(s, S), OneEach(s),
         NEW x \in Range(s), NEW y \in Range(s), x \in S, y \in S
  PROVE  Before(Ids(m), x.id, y.id) <=> Before(Ids(s), x.id, y.id)
<1>1. m \in Seq(R) /\ OneEach(m)
  BY OnlyKeeps
<1>2. ASSUME Before(Ids(m), x.id, y.id) PROVE Before(Ids(s), x.id, y.id)
  <2>1. PICK a, b \in 1..Len(m) : a < b /\ m[a].id = x.id /\ m[b].id = y.id
    BY <1>1, <1>2, BeforeRows
  <2>2. PICK i, j \in 1..Len(s) : i < j /\ m[a] = s[i] /\ m[b] = s[j]
    BY <2>1, OrderOfOnly
  <2> QED BY <2>1, <2>2, BeforeRows
<1>3. ASSUME Before(Ids(s), x.id, y.id) PROVE Before(Ids(m), x.id, y.id)
  <2>1. PICK i, j \in 1..Len(s) : i < j /\ s[i].id = x.id /\ s[j].id = y.id
    BY <1>3, BeforeRows
  <2>2. s[i] = x /\ s[j] = y
    BY <2>1, RangeIs, RowOfId
  <2>3. PICK a, b \in 1..Len(m) : a < b /\ m[a] = s[i] /\ m[b] = s[j]
    BY <2>1, <2>2, OnlyOrder
  <2> QED BY <1>1, <2>1, <2>3, BeforeRows
<1> QED BY <1>2, <1>3

\* What comes before what is in the list.
LEMMA BeforeIn ==
  ASSUME NEW R, HasIds(R), NEW s \in Seq(R), NEW a, NEW b, Before(Ids(s), a, b)
  PROVE  /\ \E x, y \in Range(s) : x.id = a /\ y.id = b
         /\ OneEach(s) => a # b
<1>1. PICK i, j \in 1..Len(s) : i < j /\ s[i].id = a /\ s[j].id = b
  BY BeforeRows
<1>2. s[i] \in Range(s) /\ s[j] \in Range(s)
  BY RangeIs
<1>3. i # j
  BY <1>1
<1> QED BY <1>1, <1>2, <1>3 DEF OneEach

\* The place of a row that is there.
LEMMA AtIs ==
  ASSUME NEW R, NEW s \in Seq(R), NEW x \in Range(s)
  PROVE  At(s, x.id) \in 1..Len(s) /\ s[At(s, x.id)].id = x.id
<1>1. DOMAIN s = 1..Len(s)
  BY LenProperties
<1>2. \E i \in DOMAIN s : s[i].id = x.id
  BY <1>1, RangeIs
<1> QED BY <1>1, <1>2 DEF At

\* The order that Reorder makes: those named as they are named, then the others
\* as they were.
Ordered(ids, s, a, b) ==
  \/ Before(ids, a, b)
  \/ a \in Range(ids) /\ b \notin Range(ids)
  \/ a \notin Range(ids) /\ b \notin Range(ids) /\ Before(s, a, b)

\* The two parts of a reordered list.
Unnamed(s, ids) == {x \in Range(s) : x.id \notin Range(ids)}
Parts(s, ids, m, n, f, l) ==
  /\ n = Only(ids, Range(Ids(s))) /\ l = Only(s, Unnamed(s, ids))
  /\ Len(f) = Len(n) /\ \A i \in 1..Len(n) : f[i] \in Range(s) /\ f[i].id = n[i]
  /\ m = f \o l

\* A reordered list is the named rows, then the others.
LEMMA NamedFirst ==
  ASSUME NEW R, HasIds(R), NEW s \in Seq(R), OneEach(s), NEW ids \in Seq(Nat), Distinct(ids),
         NEW m, m = Reorder(s, ids)
  PROVE  \E n, f, l : n \in Seq(Nat) /\ f \in Seq(R) /\ l \in Seq(R) /\ Parts(s, ids, m, n, f, l)
<1> DEFINE n == Only(ids, Range(Ids(s)))
           l == Only(s, Unnamed(s, ids))
           f == [i \in DOMAIN n |-> s[At(s, n[i])]]
<1>1. n \in Seq(Nat) /\ Range(n) = Range(ids) \cap Range(Ids(s))
  BY OnlyKeeps
<1>2. l \in Seq(R)
  BY OnlyKeeps
<1>3. m = f \o l
  BY DEF Reorder, Unnamed
<1> HIDE DEF n, l
<1>4. DOMAIN n = 1..Len(n) /\ Len(n) \in Nat
  BY <1>1, LenProperties
<1>5. ASSUME NEW i \in 1..Len(n)
      PROVE  s[At(s, n[i])] \in Range(s) /\ s[At(s, n[i])] \in R /\ s[At(s, n[i])].id = n[i]
  <2>1. n[i] \in Range(Ids(s))
    BY <1>1, RangeIs
  <2>2. Range(Ids(s)) = {x.id : x \in Range(s)}
    BY IdsAre
  <2>4. PICK x \in Range(s) : x.id = n[i]
    BY <2>1, <2>2
  <2>3. At(s, n[i]) \in 1..Len(s) /\ s[At(s, n[i])].id = n[i]
    BY <2>4, AtIs
  <2> QED BY <2>3, RangeIs
<1>6. f \in [1..Len(n) -> R] /\ \A i \in 1..Len(n) : f[i] = s[At(s, n[i])]
  BY <1>4, <1>5
<1> HIDE DEF f
<1>7. f \in Seq(R) /\ Len(f) = Len(n)
  BY <1>4, <1>6
<1>8. n = Only(ids, Range(Ids(s))) /\ l = Only(s, Unnamed(s, ids))
  BY DEF n, l
<1>9. \A i \in 1..Len(n) : f[i] \in Range(s) /\ f[i].id = n[i]
  BY <1>5, <1>6
<1>10. Parts(s, ids, m, n, f, l)
  BY <1>3, <1>7, <1>8, <1>9 DEF Parts
<1> QED BY <1>1, <1>2, <1>7, <1>10

\* reorder_by_ids loses nothing, doubles nothing, and puts the rows in the order
\* given.
LEMMA ReorderKeeps ==
  ASSUME NEW R, HasIds(R), NEW s \in Seq(R), OneEach(s), NEW ids \in Seq(Nat), Distinct(ids),
         NEW m, m = Reorder(s, ids)
  PROVE  /\ m \in Seq(R) /\ Range(m) = Range(s) /\ OneEach(m)
         /\ \A a, b : Before(Ids(m), a, b) => Ordered(ids, Ids(s), a, b)
<1>0. PICK n, f, l : n \in Seq(Nat) /\ f \in Seq(R) /\ l \in Seq(R) /\ Parts(s, ids, m, n, f, l)
  BY NamedFirst
<1>1. /\ n \in Seq(Nat) /\ f \in Seq(R) /\ l \in Seq(R)
      /\ Len(f) = Len(n) /\ \A i \in 1..Len(n) : f[i] \in Range(s) /\ f[i].id = n[i]
      /\ m = f \o l
  BY <1>0 DEF Parts
<1>20. n = Only(ids, Range(Ids(s)))
  BY <1>0 DEF Parts
<1>21. l = Only(s, Unnamed(s, ids))
  BY <1>0 DEF Parts
<1>26. \A p, q \in 1..Len(l) : p < q => \E k, o \in 1..Len(s) : k < o /\ l[p] = s[k] /\ l[q] = s[o]
  BY <1>21, OrderOfOnly
<1>2. Range(n) = Range(ids) \cap Range(Ids(s)) /\ Distinct(n)
  BY <1>20, OnlyKeeps
<1>3. (\A x : x \in Range(l) <=> (x \in Range(s) /\ x.id \notin Range(ids))) /\ OneEach(l)
  <2>1. Range(l) = Range(s) \cap Unnamed(s, ids) /\ OneEach(l)
    BY <1>21, OnlyKeeps
  <2> QED BY <2>1 DEF Unnamed
<1>22. m \in Seq(R)
  BY <1>1, ConcatProperties
<1>4. m \in Seq(R) /\ Len(m) = Len(n) + Len(l) /\ Len(n) \in Nat /\ Len(l) \in Nat
  <2>1. Len(n) \in Nat /\ Len(l) \in Nat
    BY <1>1
  <2>2. Len(m) = Len(f) + Len(l)
    BY <1>1, ConcatProperties
  <2> QED BY <1>1, <1>22, <2>1, <2>2
<1>23. n \in Seq(Nat) /\ l \in Seq(R)
  BY <1>1
<1>24. /\ \A i \in 1..Len(n) : n[i] \in Range(n)
       /\ \A x \in Range(n) : \E i \in 1..Len(n) : n[i] = x
  BY <1>23, RangeIs
<1>25. /\ \A i \in 1..Len(l) : l[i] \in Range(l)
       /\ \A x \in Range(l) : \E i \in 1..Len(l) : l[i] = x
  BY <1>23, RangeIs
<1>5. ASSUME NEW i \in 1..Len(n) PROVE i \in 1..Len(m) /\ m[i] = f[i] /\ m[i].id = n[i] /\ n[i] \in Range(ids)
  <2>1. i \in 1..Len(f) /\ i \in 1..(Len(f) + Len(l))
    BY <1>1, <1>4
  <2>2. i \in 1..Len(m) /\ m[i] = f[i]
    BY <1>1, <1>4, <2>1, ConcatProperties
  <2>3. n[i] \in Range(n)
    BY <1>24
  <2> QED BY <1>1, <1>2, <2>2, <2>3
<1>6. ASSUME NEW i \in 1..Len(m), i \notin 1..Len(n)
      PROVE  i - Len(n) \in 1..Len(l) /\ m[i] = l[i - Len(n)] /\ m[i].id \notin Range(ids)
  <2>1. i - Len(n) \in 1..Len(l) /\ m[i] = l[i - Len(n)]
    <3>1. i \in 1..(Len(f) + Len(l)) /\ ~(i <= Len(f))
      BY <1>1, <1>4, <1>6
    <3>2. m[i] = l[i - Len(f)]
      BY <1>1, <3>1, ConcatProperties
    <3> QED BY <1>1, <1>4, <3>1, <3>2
  <2> QED BY <1>3, <1>25, <2>1
<1>7. Range(m) = Range(s)
  <2>1. Range(m) \subseteq Range(s)
    <3> SUFFICES ASSUME NEW x \in Range(m) PROVE x \in Range(s)
      OBVIOUS
    <3>3. PICK i \in 1..Len(m) : m[i] = x
      BY <1>4, RangeIs
    <3>1. CASE i \in 1..Len(n)
      BY <1>1, <1>5, <3>1, <3>3
    <3>2. CASE i \notin 1..Len(n)
      <4>1. l[i - Len(n)] \in Range(l) /\ m[i] = l[i - Len(n)]
        BY <1>6, <1>25, <3>2
      <4> QED BY <1>3, <3>3, <4>1
    <3> QED BY <3>1, <3>2
  <2>2. ASSUME NEW x \in Range(s) PROVE x \in Range(m)
    <3>1. CASE x.id \in Range(ids)
      <4>1. x.id \in Range(n)
        BY <1>2, <3>1, IdsAre
      <4>2. PICK i \in 1..Len(n) : n[i] = x.id
        BY <1>24, <4>1
      <4>3. m[i] = x
        BY <1>1, <1>5, <4>2, RowOfId
      <4> QED BY <1>4, <1>5, <4>3, RangeIs
    <3>2. CASE x.id \notin Range(ids)
      <4>1. PICK i \in 1..Len(l) : l[i] = x
        BY <1>3, <1>25, <3>2
      <4>2. Len(n) + i \in 1..Len(m) /\ m[Len(n) + i] = l[i]
        BY <1>1, <1>4, ConcatProperties
      <4> QED BY <1>4, <4>1, <4>2, RangeIs
    <3> QED BY <3>1, <3>2
  <2> QED BY <2>1, <2>2
<1>8. ASSUME NEW i \in 1..Len(m), NEW j \in 1..Len(m), m[i].id = m[j].id PROVE i = j
  <2>1. CASE i \in 1..Len(n) /\ j \in 1..Len(n)
    BY <1>2, <1>5, <1>8, <2>1 DEF Distinct
  <2>2. CASE i \notin 1..Len(n) /\ j \notin 1..Len(n)
    <3>1. i - Len(n) \in 1..Len(l) /\ j - Len(n) \in 1..Len(l) /\ l[i - Len(n)].id = l[j - Len(n)].id
      BY <1>6, <1>8, <2>2
    <3>2. i - Len(n) = j - Len(n)
      BY <1>3, <3>1 DEF OneEach
    <3> QED BY <1>4, <3>2
  <2>3. (i \in 1..Len(n)) <=> (j \in 1..Len(n))
    <3>1. \A k \in 1..Len(m) : (k \in 1..Len(n)) <=> m[k].id \in Range(ids)
      BY <1>5, <1>6
    <3> QED BY <1>8, <3>1
  <2> QED BY <2>1, <2>2, <2>3
<1>9. ASSUME NEW a, NEW b, Before(Ids(m), a, b) PROVE Ordered(ids, Ids(s), a, b)
  <2>1. PICK i, j \in 1..Len(m) : i < j /\ m[i].id = a /\ m[j].id = b
    BY <1>22, <1>9, BeforeRows
  <2>2. CASE i \in 1..Len(n) /\ j \in 1..Len(n)
    <3>1. n[i] = a /\ n[j] = b
      BY <1>5, <2>1, <2>2
    <3>2. PICK k, o \in 1..Len(ids) : k < o /\ n[i] = ids[k] /\ n[j] = ids[o]
      BY <1>20, <2>1, <2>2, OrderOfOnly
    <3> QED BY <3>1, <3>2 DEF Before, Ordered
  <2>3. CASE i \in 1..Len(n) /\ j \notin 1..Len(n)
    BY <1>5, <1>6, <2>1, <2>3 DEF Ordered
  <2>4. CASE i \notin 1..Len(n) /\ j \notin 1..Len(n)
    <3>1. PICK p, q \in 1..Len(l) :
            p < q /\ l[p].id = a /\ l[q].id = b /\ a \notin Range(ids) /\ b \notin Range(ids)
      <4>1. /\ i - Len(n) \in 1..Len(l) /\ j - Len(n) \in 1..Len(l) /\ i - Len(n) < j - Len(n)
            /\ l[i - Len(n)].id = a /\ l[j - Len(n)].id = b
            /\ a \notin Range(ids) /\ b \notin Range(ids)
        BY <1>4, <1>6, <2>1, <2>4
      <4> QED BY <4>1
    <3>4. p < q
      BY <3>1
    <3>2. PICK k, o \in 1..Len(s) : k < o /\ l[p] = s[k] /\ l[q] = s[o]
      BY <1>26, <3>4
    <3>3. Before(Ids(s), a, b)
      BY <3>1, <3>2, BeforeRows
    <3> QED BY <3>1, <3>3 DEF Ordered
  <2>5. CASE i \notin 1..Len(n) /\ j \in 1..Len(n)
    BY <1>4, <2>1, <2>5
  <2> QED BY <2>2, <2>3, <2>4, <2>5
<1> QED BY <1>4, <1>7, <1>8, <1>9 DEF OneEach

\* Of two rows one stands before the other.
LEMMA BeforeTotal ==
  ASSUME NEW R, HasIds(R), NEW s \in Seq(R), NEW x \in Range(s), NEW y \in Range(s), x.id # y.id
  PROVE  Before(Ids(s), x.id, y.id) \/ Before(Ids(s), y.id, x.id)
<1>1. PICK i \in 1..Len(s) : s[i] = x
  BY RangeIs
<1>2. PICK j \in 1..Len(s) : s[j] = y
  BY RangeIs
<1>3. i < j \/ j < i
  BY <1>1, <1>2
<1>4. CASE i < j
  BY <1>1, <1>2, <1>4, BeforeRows
<1>5. CASE j < i
  BY <1>1, <1>2, <1>5, BeforeRows
<1> QED BY <1>3, <1>4, <1>5

LEMMA BeforeOnce ==
  ASSUME NEW T, NEW s \in Seq(T), Distinct(s), NEW a, NEW b, Before(s, a, b)
  PROVE  ~Before(s, b, a)
<1> SUFFICES ASSUME Before(s, b, a) PROVE FALSE
  OBVIOUS
<1>1. PICK i, j \in 1..Len(s) : i < j /\ s[i] = a /\ s[j] = b
  BY DEF Before
<1>2. PICK k, o \in 1..Len(s) : k < o /\ s[k] = b /\ s[o] = a
  BY DEF Before
<1>3. i = o /\ j = k
  BY <1>1, <1>2 DEF Distinct
<1> QED BY <1>1, <1>2, <1>3

LEMMA BeforeNamed ==
  ASSUME NEW T, NEW s \in Seq(T), NEW a, NEW b, Before(s, a, b)
  PROVE  a \in Range(s) /\ b \in Range(s)
BY RangeIs DEF Before

\* The order that reorder_by_ids makes is one.
LEMMA OrderedOnce ==
  ASSUME NEW ids \in Seq(Nat), Distinct(ids), NEW s \in Seq(Nat), Distinct(s),
         NEW a, NEW b, Ordered(ids, s, a, b)
  PROVE  ~Ordered(ids, s, b, a)
BY BeforeOnce, BeforeNamed DEF Ordered

\* The rows stand in that order.
LEMMA ReorderMakes ==
  ASSUME NEW R, HasIds(R), NEW s \in Seq(R), OneEach(s), NEW ids \in Seq(Nat), Distinct(ids),
         NEW m, m = Reorder(s, ids), NEW x \in Range(s), NEW y \in Range(s), x.id # y.id,
         Ordered(ids, Ids(s), x.id, y.id)
  PROVE  Before(Ids(m), x.id, y.id)
<1>1. /\ m \in Seq(R) /\ Range(m) = Range(s)
      /\ \A a, b : Before(Ids(m), a, b) => Ordered(ids, Ids(s), a, b)
  BY ReorderKeeps
<1>2. Ids(s) \in Seq(Nat) /\ Distinct(Ids(s))
  BY IdsAre
<1>3. ~Ordered(ids, Ids(s), y.id, x.id)
  BY <1>2, OrderedOnce
<1> QED BY <1>1, <1>3, BeforeTotal

-----------------------------------------------------------------------------
\* Reordering and the other changes of a list do not disturb each other.
LEMMA OnlyReordered ==
  ASSUME NEW R, HasIds(R), NEW s \in Seq(R), OneEach(s), NEW ids \in Seq(Nat), Distinct(ids), NEW S
  PROVE  Reorder(Only(s, S), ids) = Only(Reorder(s, ids), S)
<1>1. PICK o : o = Only(s, S)
  OBVIOUS
<1>2. PICK p : p = Reorder(o, ids)
  OBVIOUS
<1>3. PICK q : q = Reorder(s, ids)
  OBVIOUS
<1>4. PICK t : t = Only(q, S)
  OBVIOUS
<1>5. o \in Seq(R) /\ OneEach(o) /\ Range(o) = Range(s) \cap S
  BY <1>1, OnlyKeeps
<1>6. /\ p \in Seq(R) /\ OneEach(p) /\ Range(p) = Range(o)
      /\ \A a, b : Before(Ids(p), a, b) => Ordered(ids, Ids(o), a, b)
  BY <1>2, <1>5, ReorderKeeps
<1>7. q \in Seq(R) /\ OneEach(q) /\ Range(q) = Range(s)
  BY <1>3, ReorderKeeps
<1>8. t \in Seq(R) /\ OneEach(t) /\ Range(t) = Range(q) \cap S
  BY <1>4, <1>7, OnlyKeeps
<1>9. ASSUME NEW a, NEW b, Before(Ids(p), a, b) PROVE Before(Ids(t), a, b)
  <2>1. PICK x, y \in Range(o) : x.id = a /\ y.id = b /\ a # b
    BY <1>6, <1>9, BeforeIn
  <2>2. x \in Range(s) /\ y \in Range(s) /\ x \in S /\ y \in S
    BY <1>5, <2>1
  <2>3. Before(Ids(o), a, b) => Before(Ids(s), a, b)
    BY <1>1, <2>1, <2>2, OnlyBefore
  <2>4. Ordered(ids, Ids(s), a, b)
    BY <1>6, <1>9, <2>3 DEF Ordered
  <2>5. Before(Ids(q), a, b)
    BY <1>3, <2>1, <2>2, <2>4, ReorderMakes
  <2> QED BY <1>4, <1>7, <2>1, <2>2, <2>5, OnlyBefore
<1>10. p = t
  BY <1>5, <1>6, <1>7, <1>8, <1>9, SameRows
<1> QED BY <1>1, <1>2, <1>3, <1>4, <1>10

\* Two lists with the same ids are reordered alike.
LEMMA AlikeReordered ==
  ASSUME NEW R, HasIds(R), NEW s \in Seq(R), OneEach(s), NEW t \in Seq(R), OneEach(t), Ids(s) = Ids(t),
         NEW ids \in Seq(Nat), Distinct(ids)
  PROVE  Ids(Reorder(s, ids)) = Ids(Reorder(t, ids))
<1>1. PICK p : p = Reorder(s, ids)
  OBVIOUS
<1>2. PICK q : q = Reorder(t, ids)
  OBVIOUS
<1>3. /\ p \in Seq(R) /\ OneEach(p) /\ Range(p) = Range(s)
      /\ \A a, b : Before(Ids(p), a, b) => Ordered(ids, Ids(s), a, b)
  BY <1>1, ReorderKeeps
<1>4. q \in Seq(R) /\ OneEach(q) /\ Range(q) = Range(t)
  BY <1>2, ReorderKeeps
<1>5. /\ Range(Ids(p)) = {x.id : x \in Range(s)}
      /\ Range(Ids(q)) = {x.id : x \in Range(t)}
      /\ Range(Ids(s)) = {x.id : x \in Range(s)}
      /\ Range(Ids(t)) = {x.id : x \in Range(t)}
  BY <1>3, <1>4, IdsAre
<1>6. ASSUME NEW a, NEW b, Before(Ids(p), a, b) PROVE Before(Ids(q), a, b)
  <2>1. PICK x, y \in Range(s) : x.id = a /\ y.id = b /\ a # b
    BY <1>3, <1>6, BeforeIn
  <2>2. a \in Range(Ids(t)) /\ b \in Range(Ids(t))
    BY <1>5, <2>1
  <2>3. PICK v, w \in Range(t) : v.id = a /\ w.id = b
    BY <1>5, <2>2
  <2>4. Ordered(ids, Ids(t), a, b)
    BY <1>3, <1>6
  <2> QED BY <1>2, <2>1, <2>3, <2>4, ReorderMakes
<1>7. Ids(p) \in Seq(Nat) /\ Ids(q) \in Seq(Nat) /\ Distinct(Ids(p)) /\ Distinct(Ids(q))
  BY <1>3, <1>4, IdsAre
<1>8. Ids(p) = Ids(q)
  BY <1>5, <1>6, <1>7, SameOrder
<1> QED BY <1>1, <1>2, <1>8

\* A list with the ids of one and the rows of another one.
LEMMA SameIdsSameRows ==
  ASSUME NEW R, HasIds(R), NEW s \in Seq(R), NEW t \in Seq(R), OneEach(s),
         Ids(s) = Ids(t), Range(s) = Range(t)
  PROVE  s = t
<1>1. Len(s) = Len(t) /\ OneEach(t)
  <2>1. Len(s) = Len(t) /\ \A i \in 1..Len(s) : s[i].id = t[i].id
    BY IdsAre
  <2> QED BY <2>1 DEF OneEach
<1>2. \A a, b : Before(Ids(s), a, b) => Before(Ids(t), a, b)
  OBVIOUS
<1> QED BY <1>1, <1>2, SameRows

\* reorder_by_ids with the ids of a list in its new order makes that list of the
\* old one (app.js:740 sends ids, the backend sorts its own rows by them).
THEOREM OrderSentIsOrderKept ==
  ASSUME NEW R, HasIds(R), NEW s \in Seq(R), OneEach(s), NEW t \in Seq(R), OneEach(t), Range(s) = Range(t)
  PROVE  Reorder(s, Ids(t)) = t
<1>1. PICK ids : ids = Ids(t)
  OBVIOUS
<1>2. PICK m : m = Reorder(s, ids)
  OBVIOUS
<1>3. ids \in Seq(Nat) /\ Distinct(ids) /\ Range(ids) = {x.id : x \in Range(t)}
  BY <1>1, IdsAre
<1>4. /\ m \in Seq(R) /\ OneEach(m) /\ Range(m) = Range(s)
      /\ \A a, b : Before(Ids(m), a, b) => Ordered(ids, Ids(s), a, b)
  BY <1>2, <1>3, ReorderKeeps
<1>5. ASSUME NEW a, NEW b, Before(Ids(m), a, b) PROVE Before(Ids(t), a, b)
  <2>1. PICK x, y \in Range(s) : x.id = a /\ y.id = b
    BY <1>4, <1>5, BeforeIn
  <2>2. a \in Range(ids) /\ b \in Range(ids)
    BY <1>3, <2>1
  <2> QED BY <1>1, <1>4, <1>5, <2>2 DEF Ordered
<1>6. m = t
  BY <1>4, <1>5, SameRows
<1> QED BY <1>1, <1>2, <1>6

PRow == [id : Nat, parent : Nat]
IRow == [id : Nat, proj : Nat]

LEMMA RowsHaveIds == HasIds(PRow) /\ HasIds(IRow)
BY DEF HasIds, PRow, IRow

\* A list knows the ids of its rows.
LEMMA KnownIs ==
  ASSUME NEW R, NEW s \in Seq(R), NEW id
  PROVE  Known(s, id) <=> id \in {x.id : x \in Range(s)}
<1>1. DOMAIN s = 1..Len(s)
  BY LenProperties
<1>2. Known(s, id) => id \in {x.id : x \in Range(s)}
  <2> SUFFICES ASSUME Known(s, id) PROVE id \in {x.id : x \in Range(s)}
    OBVIOUS
  <2>1. PICK i \in 1..Len(s) : s[i].id = id
    BY <1>1 DEF Known
  <2>2. s[i] \in Range(s)
    BY RangeIs
  <2> QED BY <2>1, <2>2
<1>3. ASSUME id \in {x.id : x \in Range(s)} PROVE Known(s, id)
  <2>1. PICK x \in Range(s) : x.id = id
    BY <1>3
  <2>2. PICK i \in 1..Len(s) : s[i] = x
    BY RangeIs
  <2> QED BY <1>1, <2>1, <2>2 DEF Known
<1> QED BY <1>2, <1>3

\* An update of one row.
Row(x, id, proj) == IF x.id = id THEN [x EXCEPT !.proj = proj] ELSE x

\* An update changes where a preset belongs, nothing else.
LEMMA RescopedIs ==
  ASSUME NEW s \in Seq(IRow), NEW id, NEW proj \in Nat, NEW m, m = Rescoped(s, id, proj)
  PROVE  /\ m \in Seq(IRow) /\ Len(m) = Len(s)
         /\ \A i \in 1..Len(s) : m[i] = Row(s[i], id, proj)
         /\ Ids(m) = Ids(s)
         /\ Range(m) = {Row(x, id, proj) : x \in Range(s)}
         /\ OneEach(s) => OneEach(m)
<1>1. DOMAIN s = 1..Len(s) /\ Len(s) \in Nat /\ \A i \in 1..Len(s) : s[i] \in IRow
  BY LenProperties, ElementOfSeq
<1>2. m = [i \in 1..Len(s) |-> Row(s[i], id, proj)]
  BY <1>1 DEF Rescoped, Row
<1>3. ASSUME NEW x \in IRow PROVE Row(x, id, proj) \in IRow /\ Row(x, id, proj).id = x.id
  BY DEF Row, IRow
<1>4. m \in [1..Len(s) -> IRow]
  <2>1. \A i \in 1..Len(s) : Row(s[i], id, proj) \in IRow
    BY <1>1, <1>3
  <2> QED BY <1>2, <2>1
<1>5. m \in Seq(IRow) /\ Len(m) = Len(s) /\ DOMAIN m = 1..Len(s)
  BY <1>1, <1>4
<1>6. \A i \in 1..Len(s) : m[i] = Row(s[i], id, proj) /\ m[i].id = s[i].id
  BY <1>1, <1>2, <1>3
<1>7. Ids(m) = Ids(s)
  BY <1>1, <1>5, <1>6 DEF Ids
<1>8. Range(m) = {Row(x, id, proj) : x \in Range(s)}
  BY <1>1, <1>5, <1>6 DEF Range
<1>9. OneEach(s) => OneEach(m)
  BY <1>5, <1>6 DEF OneEach
<1> QED BY <1>5, <1>6, <1>7, <1>8, <1>9

\* Updating and reordering may swap.
LEMMA RescopedReordered ==
  ASSUME NEW s \in Seq(IRow), OneEach(s), NEW ids \in Seq(Nat), Distinct(ids),
         NEW id, NEW proj \in Nat
  PROVE  Reorder(Rescoped(s, id, proj), ids) = Rescoped(Reorder(s, ids), id, proj)
<1>1. PICK o : o = Rescoped(s, id, proj)
  OBVIOUS
<1>2. PICK p : p = Reorder(o, ids)
  OBVIOUS
<1>3. PICK q : q = Reorder(s, ids)
  OBVIOUS
<1>4. PICK t : t = Rescoped(q, id, proj)
  OBVIOUS
<1>0. HasIds(IRow)
  BY RowsHaveIds
<1>5. /\ o \in Seq(IRow) /\ OneEach(o) /\ Ids(o) = Ids(s)
      /\ Range(o) = {Row(x, id, proj) : x \in Range(s)}
  BY <1>1, RescopedIs
<1>6. p \in Seq(IRow) /\ OneEach(p) /\ Range(p) = Range(o)
  BY <1>0, <1>2, <1>5, ReorderKeeps
<1>7. q \in Seq(IRow) /\ OneEach(q) /\ Range(q) = Range(s)
  BY <1>0, <1>3, ReorderKeeps
<1>8. /\ t \in Seq(IRow) /\ Ids(t) = Ids(q)
      /\ Range(t) = {Row(x, id, proj) : x \in Range(q)}
  BY <1>4, <1>7, RescopedIs
<1>9. Ids(p) = Ids(q)
  BY <1>0, <1>2, <1>3, <1>5, AlikeReordered
<1>10. Range(p) = Range(t)
  BY <1>5, <1>6, <1>7, <1>8
<1>11. p = t
  BY <1>0, <1>6, <1>8, <1>9, <1>10, SameIdsSameRows
<1> QED BY <1>1, <1>2, <1>3, <1>4, <1>11

\* One more row at the end.
Longer(s, x, m) == /\ Len(m) = Len(s) + 1
                   /\ \A i \in 1..Len(s) : m[i] = s[i]
                   /\ m[Len(s) + 1] = x

\* A row at the end.
LEMMA AppendLonger ==
  ASSUME NEW R, NEW s \in Seq(R), NEW x \in R
  PROVE  Append(s, x) \in Seq(R) /\ Longer(s, x, Append(s, x))
BY AppendProperties DEF Longer

LEMMA LongerIs ==
  ASSUME NEW R, HasIds(R), NEW s \in Seq(R), NEW x \in R, NEW m \in Seq(R), Longer(s, x, m)
  PROVE  /\ Range(m) = Range(s) \cup {x}
         /\ (OneEach(s) /\ ~Known(s, x.id)) => OneEach(m)
<1>1. /\ Len(m) = Len(s) + 1 /\ Len(s) \in Nat
      /\ \A i \in 1..Len(s) : m[i] = s[i]
      /\ m[Len(s) + 1] = x
  BY DEF Longer
<1>2. \A i \in 1..Len(m) : i \in 1..Len(s) \/ i = Len(s) + 1
  BY <1>1
<1>3. \A i \in 1..Len(s) : i \in 1..Len(m) /\ i < Len(m)
  BY <1>1
<1>4. Len(m) \in 1..Len(m) /\ m[Len(m)] = x
  BY <1>1
<1>5. DOMAIN m = 1..Len(m) /\ DOMAIN s = 1..Len(s)
  BY LenProperties
<1>6. Range(m) = Range(s) \cup {x}
  <2>1. \A y \in Range(m) : y \in Range(s) \cup {x}
    BY <1>1, <1>2, <1>5 DEF Range
  <2>2. \A y \in Range(s) \cup {x} : y \in Range(m)
    BY <1>1, <1>3, <1>4, <1>5 DEF Range
  <2> QED BY <2>1, <2>2
<1>7. ASSUME OneEach(s), ~Known(s, x.id) PROVE OneEach(m)
  <2>1. \A i \in 1..Len(s) : m[i].id # x.id
    BY <1>1, <1>5, <1>7 DEF Known
  <2>2. \A i, j \in 1..Len(s) : m[i].id = m[j].id => i = j
    BY <1>1, <1>7 DEF OneEach
  <2> QED BY <1>1, <1>2, <2>1, <2>2 DEF OneEach
<1> QED BY <1>6, <1>7

LEMMA LongerBefore ==
  ASSUME NEW R, HasIds(R), NEW s \in Seq(R), NEW x \in R, NEW m \in Seq(R), Longer(s, x, m), NEW a, NEW b
  PROVE  Before(Ids(m), a, b) <=> Before(Ids(s), a, b) \/ (Known(s, a) /\ b = x.id)
<1>1. /\ Len(m) = Len(s) + 1 /\ Len(s) \in Nat
      /\ \A i \in 1..Len(s) : m[i] = s[i]
      /\ m[Len(s) + 1] = x
  BY DEF Longer
<1>2. \A i \in 1..Len(m) : i \in 1..Len(s) \/ i = Len(s) + 1
  BY <1>1
<1>3. \A i \in 1..Len(s) : i \in 1..Len(m) /\ i < Len(m)
  BY <1>1
<1>4. Len(m) \in 1..Len(m) /\ m[Len(m)] = x
  BY <1>1
<1>5. DOMAIN s = 1..Len(s)
  BY LenProperties
<1>6. Before(Ids(m), a, b) <=> \E i, j \in 1..Len(m) : i < j /\ m[i].id = a /\ m[j].id = b
  BY BeforeRows
<1>7. Before(Ids(s), a, b) <=> \E i, j \in 1..Len(s) : i < j /\ s[i].id = a /\ s[j].id = b
  BY BeforeRows
<1>8. ASSUME NEW i \in 1..Len(m), NEW j \in 1..Len(m), i < j, m[i].id = a, m[j].id = b
      PROVE  Before(Ids(s), a, b) \/ (Known(s, a) /\ b = x.id)
  <2>1. i \in 1..Len(s) /\ s[i].id = a /\ Known(s, a)
    BY <1>1, <1>2, <1>5, <1>8 DEF Known
  <2>2. CASE j \in 1..Len(s)
    <3>1. s[j].id = b
      BY <1>1, <1>8, <2>2
    <3> QED BY <1>7, <1>8, <2>1, <2>2, <3>1
  <2>3. CASE j = Len(s) + 1
    BY <1>1, <1>8, <2>1, <2>3
  <2> QED BY <1>2, <2>2, <2>3
<1>9. ASSUME NEW i \in 1..Len(s), NEW j \in 1..Len(s), i < j, s[i].id = a, s[j].id = b
      PROVE  Before(Ids(m), a, b)
  <2>1. i \in 1..Len(m) /\ j \in 1..Len(m) /\ m[i].id = a /\ m[j].id = b
    BY <1>1, <1>3, <1>9
  <2> QED BY <1>6, <1>9, <2>1
<1>10. ASSUME Known(s, a), b = x.id PROVE Before(Ids(m), a, b)
  <2>1. PICK i \in 1..Len(s) : s[i].id = a
    BY <1>5, <1>10 DEF Known
  <2>2. i \in 1..Len(m) /\ i < Len(m) /\ m[i].id = a /\ m[Len(m)].id = b
    BY <1>1, <1>3, <1>4, <1>10, <2>1
  <2> QED BY <1>4, <1>6, <2>2
<1> QED BY <1>6, <1>7, <1>8, <1>9, <1>10

\* Appending and reordering may swap when the new row was not named.
LEMMA AppendReordered ==
  ASSUME NEW R, HasIds(R), NEW s \in Seq(R), OneEach(s), NEW ids \in Seq(Nat), Distinct(ids),
         NEW x \in R, ~Known(s, x.id), x.id \notin Range(ids)
  PROVE  Reorder(Append(s, x), ids) = Append(Reorder(s, ids), x)
<1>1. PICK o : o = Append(s, x)
  OBVIOUS
<1>2. PICK p : p = Reorder(o, ids)
  OBVIOUS
<1>3. PICK q : q = Reorder(s, ids)
  OBVIOUS
<1>4. PICK t : t = Append(q, x)
  OBVIOUS
<1>14. o \in Seq(R) /\ Longer(s, x, o)
  BY <1>1, AppendLonger
<1>5. o \in Seq(R) /\ OneEach(o) /\ Range(o) = Range(s) \cup {x}
  BY <1>14, LongerIs
<1>12. \A a, b : Before(Ids(o), a, b) => Before(Ids(s), a, b) \/ b = x.id
  BY <1>14, LongerBefore
<1>6. /\ p \in Seq(R) /\ OneEach(p) /\ Range(p) = Range(o)
      /\ \A a, b : Before(Ids(p), a, b) => Ordered(ids, Ids(o), a, b)
  BY <1>2, <1>5, ReorderKeeps
<1>7. q \in Seq(R) /\ OneEach(q) /\ Range(q) = Range(s)
  BY <1>3, ReorderKeeps
<1>8. \A a : Known(q, a) <=> Known(s, a)
  BY <1>7, KnownIs
<1>15. t \in Seq(R) /\ Longer(q, x, t)
  BY <1>4, <1>7, AppendLonger
<1>9. t \in Seq(R) /\ OneEach(t) /\ Range(t) = Range(q) \cup {x}
  BY <1>7, <1>8, <1>15, LongerIs
<1>13. \A a, b : Before(Ids(q), a, b) \/ (Known(q, a) /\ b = x.id) => Before(Ids(t), a, b)
  BY <1>7, <1>15, LongerBefore
<1>10. ASSUME NEW a, NEW b, Before(Ids(p), a, b) PROVE Before(Ids(t), a, b)
  <2>1. PICK y, z \in Range(o) : y.id = a /\ z.id = b /\ a # b
    BY <1>6, <1>10, BeforeIn
  <2>2. Ordered(ids, Ids(o), a, b)
    BY <1>6, <1>10
  <2>3. CASE y = x
    <3>1. a \notin Range(ids) /\ ~Known(s, a)
      BY <2>1, <2>3
    <3>2. Before(Ids(s), a, b) => Known(s, a)
      <4>1. ASSUME Before(Ids(s), a, b) PROVE \E w \in Range(s) : w.id = a
        BY <4>1, BeforeIn
      <4> QED BY <4>1, KnownIs
    <3>3. ~Before(ids, a, b)
      BY <3>1, BeforeNamed
    <3>4. x \in Range(o) /\ b # x.id
      BY <2>1, <2>3
    <3> QED BY <1>12, <2>2, <3>1, <3>2, <3>3, <3>4 DEF Ordered
  <2>4. CASE y # x /\ z = x
    <3>1. y \in Range(s)
      BY <1>5, <2>1, <2>4
    <3>2. Known(s, a)
      BY <2>1, <3>1, KnownIs
    <3> QED BY <1>8, <1>13, <2>1, <2>4, <3>2
  <2>5. CASE y # x /\ z # x
    <3>1. y \in Range(s) /\ z \in Range(s)
      BY <1>5, <2>1, <2>5
    <3>2. b # x.id
      <4>1. Known(s, b)
        BY <2>1, <3>1, KnownIs
      <4> QED BY <4>1
    <3>3. Ordered(ids, Ids(s), a, b)
      BY <1>12, <2>2, <3>2 DEF Ordered
    <3>4. Before(Ids(q), a, b)
      BY <1>3, <2>1, <3>1, <3>3, ReorderMakes
    <3> QED BY <1>13, <3>4
  <2> QED BY <2>3, <2>4, <2>5
<1>11. p = t
  BY <1>5, <1>6, <1>7, <1>9, <1>10, SameRows
<1> QED BY <1>1, <1>2, <1>3, <1>4, <1>11

-----------------------------------------------------------------------------
\* What the backend has for a list of the page: a worktree whose parent is gone
\* is a project of its own there.
Settle(list, x) == [id |-> x.id, parent |-> IF IsChild(list, x) THEN x.parent ELSE Top]
Settled(list) == [i \in DOMAIN list |-> Settle(list, list[i])]

\* Settling keeps the rows and their order.
LEMMA SettledIs ==
  ASSUME NEW s \in Seq(PRow), NEW m, m = Settled(s)
  PROVE  /\ m \in Seq(PRow) /\ Len(m) = Len(s)
         /\ \A i \in 1..Len(s) : m[i] = Settle(s, s[i])
         /\ Ids(m) = Ids(s)
         /\ Range(m) = {Settle(s, x) : x \in Range(s)}
         /\ OneEach(s) => OneEach(m)
<1>1. DOMAIN s = 1..Len(s) /\ Len(s) \in Nat /\ \A i \in 1..Len(s) : s[i] \in PRow
  BY LenProperties, ElementOfSeq
<1>2. m = [i \in 1..Len(s) |-> Settle(s, s[i])]
  BY <1>1 DEF Settled
<1>3. ASSUME NEW x \in PRow PROVE Settle(s, x) \in PRow /\ Settle(s, x).id = x.id
  BY DEF Settle, PRow, Top
<1>4. m \in [1..Len(s) -> PRow]
  <2>1. \A i \in 1..Len(s) : Settle(s, s[i]) \in PRow
    BY <1>1, <1>3
  <2> QED BY <1>2, <2>1
<1>5. m \in Seq(PRow) /\ Len(m) = Len(s) /\ DOMAIN m = 1..Len(s)
  BY <1>1, <1>4
<1>6. \A i \in 1..Len(s) : m[i] = Settle(s, s[i]) /\ m[i].id = s[i].id
  BY <1>1, <1>2, <1>3
<1>7. Ids(m) = Ids(s)
  BY <1>1, <1>5, <1>6 DEF Ids
<1>8. Range(m) = {Settle(s, x) : x \in Range(s)}
  BY <1>1, <1>5, <1>6 DEF Range
<1>9. OneEach(s) => OneEach(m)
  BY <1>5, <1>6 DEF OneEach
<1> QED BY <1>5, <1>6, <1>7, <1>8, <1>9

LEMMA SettleAlike ==
  ASSUME NEW s \in Seq(PRow), NEW t \in Seq(PRow), Range(s) = Range(t), NEW x
  PROVE  Settle(s, x) = Settle(t, x)
<1>1. Known(s, x.parent) <=> Known(t, x.parent)
  BY KnownIs
<1> QED BY <1>1 DEF Settle, IsChild

\* Settling and reordering may swap.
LEMMA SettledReordered ==
  ASSUME NEW s \in Seq(PRow), OneEach(s), NEW ids \in Seq(Nat), Distinct(ids)
  PROVE  Reorder(Settled(s), ids) = Settled(Reorder(s, ids))
<1>1. PICK o : o = Settled(s)
  OBVIOUS
<1>2. PICK p : p = Reorder(o, ids)
  OBVIOUS
<1>3. PICK q : q = Reorder(s, ids)
  OBVIOUS
<1>4. PICK t : t = Settled(q)
  OBVIOUS
<1>0. HasIds(PRow)
  BY RowsHaveIds
<1>5. /\ o \in Seq(PRow) /\ OneEach(o) /\ Ids(o) = Ids(s)
      /\ Range(o) = {Settle(s, x) : x \in Range(s)}
  BY <1>1, SettledIs
<1>6. p \in Seq(PRow) /\ OneEach(p) /\ Range(p) = Range(o)
  BY <1>0, <1>2, <1>5, ReorderKeeps
<1>7. q \in Seq(PRow) /\ OneEach(q) /\ Range(q) = Range(s)
  BY <1>0, <1>3, ReorderKeeps
<1>8. /\ t \in Seq(PRow) /\ Ids(t) = Ids(q)
      /\ Range(t) = {Settle(q, x) : x \in Range(q)}
  BY <1>4, <1>7, SettledIs
<1>9. Ids(p) = Ids(q)
  BY <1>0, <1>2, <1>3, <1>5, AlikeReordered
<1>10. \A x : Settle(q, x) = Settle(s, x)
  BY <1>7, SettleAlike
<1>11. Range(p) = Range(t)
  BY <1>5, <1>6, <1>7, <1>8, <1>10
<1>12. p = t
  BY <1>0, <1>6, <1>8, <1>9, <1>11, SameIdsSameRows
<1> QED BY <1>1, <1>2, <1>3, <1>4, <1>12

\* The three lists, and what a call does to each of them.
ListNames == {"projects", "presets", "recipes"}
Three(p, q, r) == [projects |-> p, presets |-> q, recipes |-> r]
IsThree(p) == p = Three(p.projects, p.presets, p.recipes)

ItemsAfter(list, name, c) ==
  IF c.op = "remove" /\ c.list = "projects" THEN NotOf(list, c.id)
  ELSE IF c.list # name \/ c.op = "reorder" THEN list
  ELSE IF c.op = "add" THEN Append(list, [id |-> c.id, proj |-> c.proj])
  ELSE IF c.op = "update" THEN Rescoped(list, c.id, c.proj)
  ELSE Without(list, c.id)

PageAfter(list, c) ==
  IF c.list # "projects" \/ c.op \in {"update", "reorder"} THEN list
  ELSE IF c.op = "remove" THEN Without(list, c.id)
  ELSE IF c.proj = Top THEN <<[id |-> c.id, parent |-> Top]>> \o list
  ELSE InsertWorktree(list, [id |-> c.id, parent |-> c.proj])

Orphaned(list, id) ==
  [i \in DOMAIN list |-> IF list[i].parent = id THEN [list[i] EXCEPT !.parent = Top] ELSE list[i]]

StoreAfter(list, c) ==
  IF c.list # "projects" \/ c.op = "update" THEN list
  ELSE IF c.op = "remove" THEN Orphaned(Without(list, c.id), c.id)
  ELSE AddProject(list, [id |-> c.id, parent |-> c.proj])

IsCall(c) == /\ c.op \in {"add", "update", "remove", "reorder"} /\ c.list \in ListNames
             /\ c.op = "reorder" => c.list \in {"projects", "presets"}

\* One list is replaced.
LEMMA ThreeSet ==
  ASSUME NEW p, IsThree(p), NEW x
  PROVE  /\ [p EXCEPT !.projects = x] = Three(x, p.presets, p.recipes)
         /\ [p EXCEPT !.presets = x] = Three(p.projects, x, p.recipes)
         /\ [p EXCEPT !.recipes = x] = Three(p.projects, p.presets, x)
BY DEF IsThree, Three

LEMMA ThreeIs ==
  ASSUME NEW x, NEW y, NEW z
  PROVE  /\ IsThree(Three(x, y, z))
         /\ Three(x, y, z).projects = x /\ Three(x, y, z).presets = y /\ Three(x, y, z).recipes = z
         /\ Three(x, y, z)["projects"] = x /\ Three(x, y, z)["presets"] = y /\ Three(x, y, z)["recipes"] = z
BY DEF IsThree, Three

\* What the window does with an answer, list by list.
LEMMA PagedIs ==
  ASSUME NEW p, IsThree(p), NEW c, IsCall(c)
  PROVE  Paged(p, c) = Three(PageAfter(p.projects, c), ItemsAfter(p.presets, "presets", c),
                             ItemsAfter(p.recipes, "recipes", c))
<1>1. CASE c.op = "add" /\ c.list = "projects" /\ c.proj = Top
  <2>1. Paged(p, c) = [p EXCEPT !.projects = <<[id |-> c.id, parent |-> Top]>> \o p.projects]
    BY <1>1 DEF Paged
  <2>2. Paged(p, c) = Three(<<[id |-> c.id, parent |-> Top]>> \o p.projects, p.presets, p.recipes)
    BY <2>1, ThreeSet
  <2> QED BY <1>1, <2>2 DEF PageAfter, ItemsAfter
<1>2. CASE c.op = "add" /\ c.list = "projects" /\ c.proj # Top
  <2>1. Paged(p, c) = [p EXCEPT !.projects = InsertWorktree(p.projects, [id |-> c.id, parent |-> c.proj])]
    BY <1>2 DEF Paged
  <2>2. Paged(p, c) = Three(InsertWorktree(p.projects, [id |-> c.id, parent |-> c.proj]), p.presets, p.recipes)
    BY <2>1, ThreeSet
  <2> QED BY <1>2, <2>2 DEF PageAfter, ItemsAfter
<1>3. CASE c.op = "remove" /\ c.list = "projects"
  <2>1. Paged(p, c) = Forget(p, c.id)
    BY <1>3 DEF Paged
  <2> QED BY <1>3, <2>1 DEF Forget, PageAfter, ItemsAfter, Three
<1>4. CASE c.op = "reorder" \/ (c.op = "update" /\ c.list = "projects")
  <2>1. Paged(p, c) = p
    BY <1>4 DEF Paged
  <2> QED BY <1>4, <2>1 DEF PageAfter, ItemsAfter, IsThree
<1>5. CASE c.op = "add" /\ c.list = "presets"
  <2>1. Paged(p, c) = [p EXCEPT !.presets = Append(p.presets, [id |-> c.id, proj |-> c.proj])]
    BY <1>5 DEF Paged
  <2>2. Paged(p, c) = Three(p.projects, Append(p.presets, [id |-> c.id, proj |-> c.proj]), p.recipes)
    BY <2>1, ThreeSet
  <2> QED BY <1>5, <2>2 DEF PageAfter, ItemsAfter
<1>6. CASE c.op = "add" /\ c.list = "recipes"
  <2>1. Paged(p, c) = [p EXCEPT !.recipes = Append(p.recipes, [id |-> c.id, proj |-> c.proj])]
    BY <1>6 DEF Paged
  <2>2. Paged(p, c) = Three(p.projects, p.presets, Append(p.recipes, [id |-> c.id, proj |-> c.proj]))
    BY <2>1, ThreeSet
  <2> QED BY <1>6, <2>2 DEF PageAfter, ItemsAfter
<1>7. CASE c.op = "update" /\ c.list = "presets"
  <2>1. Paged(p, c) = [p EXCEPT !.presets = Rescoped(p.presets, c.id, c.proj)]
    BY <1>7 DEF Paged
  <2>2. Paged(p, c) = Three(p.projects, Rescoped(p.presets, c.id, c.proj), p.recipes)
    BY <2>1, ThreeSet
  <2> QED BY <1>7, <2>2 DEF PageAfter, ItemsAfter
<1>8. CASE c.op = "update" /\ c.list = "recipes"
  <2>1. Paged(p, c) = [p EXCEPT !.recipes = Rescoped(p.recipes, c.id, c.proj)]
    BY <1>8 DEF Paged
  <2>2. Paged(p, c) = Three(p.projects, p.presets, Rescoped(p.recipes, c.id, c.proj))
    BY <2>1, ThreeSet
  <2> QED BY <1>8, <2>2 DEF PageAfter, ItemsAfter
<1>9. CASE c.op = "remove" /\ c.list = "presets"
  <2>1. Paged(p, c) = [p EXCEPT !.presets = Without(p.presets, c.id)]
    BY <1>9 DEF Paged
  <2>2. Paged(p, c) = Three(p.projects, Without(p.presets, c.id), p.recipes)
    BY <2>1, ThreeSet
  <2> QED BY <1>9, <2>2 DEF PageAfter, ItemsAfter
<1>10. CASE c.op = "remove" /\ c.list = "recipes"
  <2>1. Paged(p, c) = [p EXCEPT !.recipes = Without(p.recipes, c.id)]
    BY <1>10 DEF Paged
  <2>2. Paged(p, c) = Three(p.projects, p.presets, Without(p.recipes, c.id))
    BY <2>1, ThreeSet
  <2> QED BY <1>10, <2>2 DEF PageAfter, ItemsAfter
<1> QED BY <1>1, <1>2, <1>3, <1>4, <1>5, <1>6, <1>7, <1>8, <1>9, <1>10 DEF IsCall, ListNames

\* What the backend does with a call, list by list.
LEMMA StoredIs ==
  ASSUME NEW s, IsThree(s), NEW c, IsCall(c), c.op # "reorder"
  PROVE  Stored(s, c) = Three(StoreAfter(s.projects, c), ItemsAfter(s.presets, "presets", c),
                              ItemsAfter(s.recipes, "recipes", c))
<1>1. CASE c.op = "add" /\ c.list = "projects"
  <2>1. Stored(s, c) = [s EXCEPT !.projects = AddProject(s.projects, [id |-> c.id, parent |-> c.proj])]
    BY <1>1 DEF Stored
  <2>2. Stored(s, c) = Three(AddProject(s.projects, [id |-> c.id, parent |-> c.proj]), s.presets, s.recipes)
    BY <2>1, ThreeSet
  <2> QED BY <1>1, <2>2 DEF StoreAfter, ItemsAfter
<1>3. CASE c.op = "remove" /\ c.list = "projects"
  <2>1. Stored(s, c) = RemoveProject(s, c.id)
    BY <1>3 DEF Stored
  <2> QED BY <1>3, <2>1 DEF RemoveProject, Orphaned, StoreAfter, ItemsAfter, Three
<1>4. CASE c.op = "update" /\ c.list = "projects"
  <2>1. Stored(s, c) = s
    BY <1>4 DEF Stored
  <2> QED BY <1>4, <2>1 DEF StoreAfter, ItemsAfter, IsThree
<1>5. CASE c.op = "add" /\ c.list = "presets"
  <2>1. Stored(s, c) = [s EXCEPT !.presets = Append(s.presets, [id |-> c.id, proj |-> c.proj])]
    BY <1>5 DEF Stored
  <2>2. Stored(s, c) = Three(s.projects, Append(s.presets, [id |-> c.id, proj |-> c.proj]), s.recipes)
    BY <2>1, ThreeSet
  <2> QED BY <1>5, <2>2 DEF StoreAfter, ItemsAfter
<1>6. CASE c.op = "add" /\ c.list = "recipes"
  <2>1. Stored(s, c) = [s EXCEPT !.recipes = Append(s.recipes, [id |-> c.id, proj |-> c.proj])]
    BY <1>6 DEF Stored
  <2>2. Stored(s, c) = Three(s.projects, s.presets, Append(s.recipes, [id |-> c.id, proj |-> c.proj]))
    BY <2>1, ThreeSet
  <2> QED BY <1>6, <2>2 DEF StoreAfter, ItemsAfter
<1>7. CASE c.op = "update" /\ c.list = "presets"
  <2>1. Stored(s, c) = [s EXCEPT !.presets = Rescoped(s.presets, c.id, c.proj)]
    BY <1>7 DEF Stored
  <2>2. Stored(s, c) = Three(s.projects, Rescoped(s.presets, c.id, c.proj), s.recipes)
    BY <2>1, ThreeSet
  <2> QED BY <1>7, <2>2 DEF StoreAfter, ItemsAfter
<1>8. CASE c.op = "update" /\ c.list = "recipes"
  <2>1. Stored(s, c) = [s EXCEPT !.recipes = Rescoped(s.recipes, c.id, c.proj)]
    BY <1>8 DEF Stored
  <2>2. Stored(s, c) = Three(s.projects, s.presets, Rescoped(s.recipes, c.id, c.proj))
    BY <2>1, ThreeSet
  <2> QED BY <1>8, <2>2 DEF StoreAfter, ItemsAfter
<1>9. CASE c.op = "remove" /\ c.list = "presets"
  <2>1. Stored(s, c) = [s EXCEPT !.presets = Without(s.presets, c.id)]
    BY <1>9 DEF Stored
  <2>2. Stored(s, c) = Three(s.projects, Without(s.presets, c.id), s.recipes)
    BY <2>1, ThreeSet
  <2> QED BY <1>9, <2>2 DEF StoreAfter, ItemsAfter
<1>10. CASE c.op = "remove" /\ c.list = "recipes"
  <2>1. Stored(s, c) = [s EXCEPT !.recipes = Without(s.recipes, c.id)]
    BY <1>10 DEF Stored
  <2>2. Stored(s, c) = Three(s.projects, s.presets, Without(s.recipes, c.id))
    BY <2>1, ThreeSet
  <2> QED BY <1>10, <2>2 DEF StoreAfter, ItemsAfter
<1> QED BY <1>1, <1>3, <1>4, <1>5, <1>6, <1>7, <1>8, <1>9, <1>10 DEF IsCall, ListNames

-----------------------------------------------------------------------------
\* Presets and recipes.
IsItems(list, n) == /\ list \in Seq(IRow) /\ OneEach(list)
                    /\ \A x \in Range(list) : x.id \in 1..n
Adds(c, name) == c.op = "add" /\ c.list = name
NewTo(c, list) == \A x \in Range(list) : x.id < c.id
IsItemCall(c, name, n) == /\ c.proj \in Nat
                          /\ Adds(c, name) => c.id \in 1..n

\* A list of presets or recipes stays one.
LEMMA ItemsStay ==
  ASSUME NEW n \in Nat, NEW list, IsItems(list, n), NEW name, NEW c, IsItemCall(c, name, n),
         Adds(c, name) => NewTo(c, list), NEW m, m = ItemsAfter(list, name, c)
  PROVE  IsItems(m, n)
<1>0. HasIds(IRow) /\ list \in Seq(IRow)
  BY RowsHaveIds DEF IsItems
<1>1. ASSUME NEW S PROVE IsItems(Only(list, S), n)
  <2>1. PICK o : o = Only(list, S)
    OBVIOUS
  <2>2. o \in Seq(IRow) /\ Range(o) = Range(list) \cap S /\ OneEach(o)
    BY <1>0, <2>1, OnlyKeeps DEF IsItems
  <2> QED BY <2>1, <2>2 DEF IsItems
<1>2. ASSUME Adds(c, name), NEW x \in IRow, x.id = c.id PROVE IsItems(Append(list, x), n)
  <2>1. PICK o : o = Append(list, x)
    OBVIOUS
  <2>2. o \in Seq(IRow) /\ Longer(list, x, o)
    BY <1>0, <2>1, AppendLonger
  <2>3. ~Known(list, x.id)
    <3>1. \A y \in Range(list) : y.id # x.id
      BY <1>2 DEF NewTo, IsItems
    <3> QED BY <1>0, <3>1, KnownIs
  <2>4. Range(o) = Range(list) \cup {x} /\ OneEach(o)
    BY <1>0, <2>2, <2>3, LongerIs DEF IsItems
  <2>5. x.id \in 1..n
    BY <1>2 DEF IsItemCall
  <2> QED BY <2>1, <2>2, <2>4, <2>5 DEF IsItems
<1>3. IsItems(Rescoped(list, c.id, c.proj), n)
  <2>1. PICK o : o = Rescoped(list, c.id, c.proj)
    OBVIOUS
  <2>2. /\ o \in Seq(IRow) /\ OneEach(o) /\ Ids(o) = Ids(list)
    BY <1>0, <2>1, RescopedIs DEF IsItems, IsItemCall
  <2>3. {x.id : x \in Range(o)} = {x.id : x \in Range(list)}
    BY <1>0, <2>2, IdsAre
  <2>4. \A x \in Range(o) : x.id \in 1..n
    BY <2>3 DEF IsItems
  <2> QED BY <2>1, <2>2, <2>4 DEF IsItems
<1>4. IsItems(Without(list, c.id), n) /\ IsItems(NotOf(list, c.id), n)
  BY <1>1 DEF Without, NotOf
<1>5. Adds(c, name) => IsItems(Append(list, [id |-> c.id, proj |-> c.proj]), n)
  <2> SUFFICES ASSUME Adds(c, name) PROVE IsItems(Append(list, [id |-> c.id, proj |-> c.proj]), n)
    OBVIOUS
  <2>1. PICK x : x = [id |-> c.id, proj |-> c.proj]
    OBVIOUS
  <2>2. x \in IRow /\ x.id = c.id
    BY <2>1 DEF IsItemCall, IRow
  <2> QED BY <1>2, <2>1, <2>2
<1> QED BY <1>3, <1>4, <1>5 DEF ItemsAfter, Adds

\* Any call and a new order of the presets may swap, when a new preset is not
\* among those ordered.
LEMMA ItemsReordered ==
  ASSUME NEW n \in Nat, NEW list, IsItems(list, n), NEW name, NEW c, IsItemCall(c, name, n),
         NEW ids \in Seq(Nat), Distinct(ids),
         Adds(c, name) => NewTo(c, list) /\ c.id \notin Range(ids)
  PROVE  Reorder(ItemsAfter(list, name, c), ids) = ItemsAfter(Reorder(list, ids), name, c)
<1>0. HasIds(IRow) /\ list \in Seq(IRow) /\ OneEach(list)
  BY RowsHaveIds DEF IsItems
<1>1. PICK q : q = Reorder(list, ids)
  OBVIOUS
<1>2. q \in Seq(IRow) /\ Range(q) = Range(list)
  BY <1>0, <1>1, ReorderKeeps
<1>3. ASSUME NEW S PROVE Reorder(Only(list, S), ids) = Only(q, S)
  BY <1>0, <1>1, OnlyReordered
<1>4. Reorder(Without(list, c.id), ids) = Without(q, c.id)
  BY <1>2, <1>3 DEF Without
<1>5. Reorder(NotOf(list, c.id), ids) = NotOf(q, c.id)
  BY <1>2, <1>3 DEF NotOf
<1>6. Reorder(Rescoped(list, c.id, c.proj), ids) = Rescoped(q, c.id, c.proj)
  BY <1>0, <1>1, RescopedReordered DEF IsItemCall
<1>7. Adds(c, name) => Reorder(Append(list, [id |-> c.id, proj |-> c.proj]), ids)
                       = Append(q, [id |-> c.id, proj |-> c.proj])
  <2> SUFFICES ASSUME Adds(c, name)
               PROVE  Reorder(Append(list, [id |-> c.id, proj |-> c.proj]), ids)
                       = Append(q, [id |-> c.id, proj |-> c.proj])
    OBVIOUS
  <2>1. PICK x : x = [id |-> c.id, proj |-> c.proj]
    OBVIOUS
  <2>2. x \in IRow /\ x.id = c.id
    BY <2>1 DEF IsItemCall, IRow
  <2>3. ~Known(list, x.id)
    <3>1. \A y \in Range(list) : y.id # x.id
      BY <2>2 DEF NewTo, IsItems
    <3> QED BY <1>0, <3>1, KnownIs
  <2>4. Reorder(Append(list, x), ids) = Append(q, x)
    BY <1>0, <1>1, <2>2, <2>3, AppendReordered
  <2> QED BY <2>1, <2>4
<1>8. q = Reorder(list, ids)
  BY <1>1
<1> QED BY <1>4, <1>5, <1>6, <1>7, <1>8 DEF ItemsAfter, Adds

\* Every project has the parent it got when it was made: none, or an older
\* project that is no worktree.
IsKin(kin, n) == /\ kin \in [1..n -> Nat]
                 /\ \A id \in 1..n : kin[id] < id /\ (kin[id] # Top => kin[kin[id]] = Top)
IsProjects(list, kin, n) == /\ list \in Seq(PRow) /\ OneEach(list)
                            /\ \A x \in Range(list) : x.id \in 1..n /\ x.parent = kin[x.id]
IsProjectCall(c, kin, n) == /\ c.proj \in Nat
                            /\ Adds(c, "projects") => c.id \in 1..n /\ kin[c.id] = c.proj

\* The worktrees of a project stand behind it and nothing else between.
Grouped(list) ==
  \A i, k \in 1..Len(list) : (list[k].parent # Top /\ list[k].parent = list[i].id) =>
     /\ i < k
     /\ \A j \in i + 1..k : list[j].parent = list[i].id

-----------------------------------------------------------------------------
\* A row at position i.
Inserted(s, i, e, m) ==
  /\ Len(m) = Len(s) + 1
  /\ \A k \in 1..Len(s) + 1 : m[k] = IF k < i THEN s[k] ELSE IF k = i THEN e ELSE s[k - 1]

\* InsertAt puts a row at a position.
LEMMA InsertIs ==
  ASSUME NEW T, NEW s \in Seq(T), NEW e \in T, NEW i \in 1..Len(s) + 1
  PROVE  InsertAt(s, i, e) \in Seq(T) /\ Inserted(s, i, e, InsertAt(s, i, e))
<1>1. Len(s) \in Nat
  OBVIOUS
<1>2. PICK a : a = SubSeq(s, 1, i - 1)
  OBVIOUS
<1>3. PICK b : b = SubSeq(s, i, Len(s))
  OBVIOUS
<1>4. a \in Seq(T) /\ Len(a) = i - 1 /\ \A k \in 1..i - 1 : a[k] = s[k]
  <2>1. \A k \in 1..(i - 1) : s[k] \in T
    BY <1>1, ElementOfSeq
  <2>2. i - 1 \in Int
    OBVIOUS
  <2> QED BY <1>1, <1>2, <2>1, <2>2, SubSeqProperties
<1>5. b \in Seq(T) /\ Len(b) = Len(s) - i + 1 /\ \A k \in 1..Len(s) - i + 1 : b[k] = s[i + k - 1]
  <2>1. \A k \in i..Len(s) : s[k] \in T
    BY <1>1, ElementOfSeq
  <2> QED BY <1>1, <1>3, <2>1, SubSeqProperties
<1>6. <<e>> \in Seq(T) /\ Len(<<e>>) = 1 /\ <<e>>[1] = e
  OBVIOUS
<1>7. PICK c : c = a \o <<e>>
  OBVIOUS
<1>8. c \in Seq(T) /\ Len(c) = i /\ \A k \in 1..i : c[k] = IF k < i THEN s[k] ELSE e
  <2>1. c \in Seq(T) /\ Len(c) = (i - 1) + 1
    BY <1>4, <1>6, <1>7, ConcatProperties
  <2>2. \A k \in 1..(i - 1) + 1 : c[k] = IF k <= i - 1 THEN a[k] ELSE <<e>>[k - (i - 1)]
    BY <1>4, <1>6, <1>7, ConcatProperties
  <2>3. (i - 1) + 1 = i
    OBVIOUS
  <2>4. ASSUME NEW k \in 1..i PROVE c[k] = IF k < i THEN s[k] ELSE e
    <3>1. CASE k < i
      <4>1. k \in 1..i - 1 /\ k <= i - 1
        BY <3>1
      <4>2. c[k] = a[k]
        BY <2>2, <2>3, <4>1
      <4> QED BY <1>4, <3>1, <4>1, <4>2
    <3>2. CASE k = i
      <4>1. ~(k <= i - 1) /\ k - (i - 1) = 1
        BY <3>2
      <4>2. c[k] = <<e>>[k - (i - 1)]
        BY <2>2, <2>3, <4>1
      <4> QED BY <1>6, <3>2, <4>1, <4>2
    <3> QED BY <3>1, <3>2
  <2> QED BY <2>1, <2>3, <2>4
<1>9. PICK m : m = c \o b
  OBVIOUS
<1>10. m = InsertAt(s, i, e)
  BY <1>2, <1>3, <1>7, <1>9 DEF InsertAt
<1>11. m \in Seq(T) /\ Len(m) = i + (Len(s) - i + 1)
  BY <1>5, <1>8, <1>9, ConcatProperties
<1>12. \A k \in 1..i + (Len(s) - i + 1) : m[k] = IF k <= i THEN c[k] ELSE b[k - i]
  BY <1>5, <1>8, <1>9, ConcatProperties
<1>13. Len(m) = Len(s) + 1
  BY <1>1, <1>11
<1>14. ASSUME NEW k \in 1..Len(s) + 1
       PROVE  m[k] = IF k < i THEN s[k] ELSE IF k = i THEN e ELSE s[k - 1]
  <2>1. k \in 1..i + (Len(s) - i + 1)
    BY <1>1
  <2>2. CASE k <= i
    BY <1>8, <1>12, <2>1, <2>2
  <2>3. CASE k > i
    <3>1. k - i \in 1..Len(s) - i + 1 /\ i + (k - i) - 1 = k - 1
      BY <1>1, <2>3
    <3>2. m[k] = b[k - i] /\ b[k - i] = s[i + (k - i) - 1]
      BY <1>5, <1>12, <2>1, <2>3, <3>1
    <3> QED BY <2>3, <3>1, <3>2
  <2> QED BY <2>2, <2>3
<1> QED BY <1>10, <1>11, <1>13, <1>14 DEF Inserted

\* Its rows.
LEMMA InsertedIs ==
  ASSUME NEW R, HasIds(R), NEW s \in Seq(R), NEW e \in R, NEW i \in 1..Len(s) + 1,
         NEW m \in Seq(R), Inserted(s, i, e, m)
  PROVE  /\ Range(m) = Range(s) \cup {e}
         /\ (OneEach(s) /\ ~Known(s, e.id)) => OneEach(m)
<1>1. /\ Len(m) = Len(s) + 1 /\ Len(s) \in Nat
      /\ \A k \in 1..Len(m) : m[k] = IF k < i THEN s[k] ELSE IF k = i THEN e ELSE s[k - 1]
  BY DEF Inserted
<1>2. DOMAIN m = 1..Len(m) /\ DOMAIN s = 1..Len(s)
  BY LenProperties
<1>3. ASSUME NEW k \in 1..Len(s)
      PROVE  (k < i /\ k \in 1..Len(m) /\ m[k] = s[k]) \/ (k + 1 > i /\ k + 1 \in 1..Len(m) /\ m[k + 1] = s[k])
  <2>1. CASE k < i
    BY <1>1, <2>1
  <2>2. CASE k >= i
    <3>1. k + 1 \in 1..Len(m) /\ ~(k + 1 < i) /\ k + 1 # i /\ (k + 1) - 1 = k
      BY <1>1, <2>2
    <3> QED BY <1>1, <3>1
  <2> QED BY <2>1, <2>2
<1>4. i \in 1..Len(m) /\ m[i] = e
  BY <1>1
<1>5. ASSUME NEW k \in 1..Len(m)
      PROVE  \/ k < i /\ k \in 1..Len(s) /\ m[k] = s[k]
             \/ k = i /\ m[k] = e
             \/ k > i /\ k - 1 \in 1..Len(s) /\ m[k] = s[k - 1]
  BY <1>1
<1>6. Range(m) = Range(s) \cup {e}
  <2>1. \A y \in Range(m) : y \in Range(s) \cup {e}
    BY <1>2, <1>5 DEF Range
  <2>2. \A y \in Range(s) \cup {e} : y \in Range(m)
    BY <1>2, <1>3, <1>4 DEF Range
  <2> QED BY <2>1, <2>2
<1>7. ASSUME OneEach(s), ~Known(s, e.id), NEW j \in 1..Len(m), NEW k \in 1..Len(m), m[j].id = m[k].id
      PROVE  j = k
  <2>1. \A o \in 1..Len(s) : s[o].id # e.id
    BY <1>2, <1>7 DEF Known
  <2>2. \A o, p \in 1..Len(s) : s[o].id = s[p].id => o = p
    BY <1>7 DEF OneEach
  <2>3. CASE j < i
    <3>1. j \in 1..Len(s) /\ m[j] = s[j]
      BY <1>5, <2>3
    <3>2. CASE k < i
      BY <1>5, <1>7, <2>2, <3>1, <3>2
    <3>3. CASE k = i
      BY <1>4, <1>7, <2>1, <3>1, <3>3
    <3>4. CASE k > i
      <4>1. k - 1 \in 1..Len(s) /\ m[k] = s[k - 1]
        BY <1>5, <3>4
      <4>2. j = k - 1
        BY <1>7, <2>2, <3>1, <4>1
      <4> QED BY <2>3, <3>4, <4>2
    <3> QED BY <3>2, <3>3, <3>4
  <2>4. CASE j = i
    BY <1>5, <1>7, <2>1, <2>4
  <2>5. CASE j > i
    <3>1. j - 1 \in 1..Len(s) /\ m[j] = s[j - 1]
      BY <1>5, <2>5
    <3>2. CASE k < i
      <4>1. k \in 1..Len(s) /\ m[k] = s[k]
        BY <1>5, <3>2
      <4>2. j - 1 = k
        BY <1>7, <2>2, <3>1, <4>1
      <4> QED BY <2>5, <3>2, <4>2
    <3>3. CASE k = i
      BY <1>4, <1>7, <2>1, <3>1, <3>3
    <3>4. CASE k > i
      <4>1. k - 1 \in 1..Len(s) /\ m[k] = s[k - 1]
        BY <1>5, <3>4
      <4>2. j - 1 = k - 1
        BY <1>7, <2>2, <3>1, <4>1
      <4> QED BY <4>2
    <3> QED BY <3>2, <3>3, <3>4
  <2> QED BY <1>1, <2>3, <2>4, <2>5
<1> QED BY <1>6, <1>7 DEF OneEach

-----------------------------------------------------------------------------
\* The place behind the worktrees that directly follow.
EndsAt(s, i, q, j) ==
  /\ j \in i + 1..Len(s) + 1
  /\ \A k \in i + 1..j - 1 : s[k].parent = q
  /\ j = Len(s) + 1 \/ s[j].parent # q

\* BehindChildren finds the place behind the worktrees at position i.
LEMMA BehindIs ==
  ASSUME NEW R, NEW s \in Seq(R), NEW i \in 1..Len(s), NEW q
  PROVE  EndsAt(s, i, q, BehindChildren(s, i, q))
<1>1. Len(s) \in Nat /\ i \in Nat
  OBVIOUS
<1> DEFINE P == {n \in Nat : (\E j : EndsAt(s, i, q, j))
                             \/ (i + n <= Len(s) /\ \A k \in i + 1..i + n : s[k].parent = q)}
<1>2. 0 \in P
  <2>1. i + 0 <= Len(s) /\ \A k \in i + 1..i + 0 : s[k].parent = q
    BY <1>1
  <2> QED BY <2>1
<1>3. ASSUME NEW n \in Nat, n \in P PROVE n + 1 \in P
  <2> SUFFICES ASSUME i + n <= Len(s), \A k \in i + 1..i + n : s[k].parent = q,
                      ~(i + (n + 1) <= Len(s) /\ \A k \in i + 1..i + (n + 1) : s[k].parent = q)
               PROVE  \E j : EndsAt(s, i, q, j)
    BY <1>3
  <2>1. i + n + 1 \in i + 1..Len(s) + 1 /\ (i + n + 1) - 1 = i + n
    BY <1>1
  <2>2. i + n + 1 = Len(s) + 1 \/ s[i + n + 1].parent # q
    <3> SUFFICES ASSUME i + n + 1 # Len(s) + 1, s[i + n + 1].parent = q PROVE FALSE
      OBVIOUS
    <3>1. i + (n + 1) <= Len(s)
      BY <1>1
    <3>2. \A k \in i + 1..i + (n + 1) : k = i + n + 1 \/ k \in i + 1..i + n
      BY <1>1
    <3> QED BY <3>1, <3>2
  <2>3. EndsAt(s, i, q, i + n + 1)
    BY <2>1, <2>2 DEF EndsAt
  <2> QED BY <2>3
<1> HIDE DEF P
<1>4. Len(s) + 1 \in P
  <2>1. Len(s) + 1 \in Nat
    BY <1>1
  <2> QED BY <1>2, <1>3, <2>1, Induction
<1>5. \E j : EndsAt(s, i, q, j)
  BY <1>1, <1>4 DEF P
<1>6. BehindChildren(s, i, q) = CHOOSE j \in i + 1..Len(s) + 1 :
        /\ \A k \in i + 1..j - 1 : s[k].parent = q
        /\ j = Len(s) + 1 \/ s[j].parent # q
  BY DEF BehindChildren
<1> QED BY <1>5, <1>6 DEF EndsAt

\* There is one such place.
LEMMA EndsOnce ==
  ASSUME NEW R, NEW s \in Seq(R), NEW i \in 1..Len(s), NEW q, NEW j, EndsAt(s, i, q, j),
         NEW k, EndsAt(s, i, q, k)
  PROVE  j = k
<1>1. Len(s) \in Nat /\ j \in Nat /\ k \in Nat
  BY DEF EndsAt
<1>2. ~(j < k)
  <2> SUFFICES ASSUME j < k PROVE FALSE
    OBVIOUS
  <2>1. j \in i + 1..k - 1 /\ j # Len(s) + 1
    BY <1>1 DEF EndsAt
  <2> QED BY <2>1 DEF EndsAt
<1>3. ~(k < j)
  <2> SUFFICES ASSUME k < j PROVE FALSE
    OBVIOUS
  <2>1. k \in i + 1..j - 1 /\ k # Len(s) + 1
    BY <1>1 DEF EndsAt
  <2> QED BY <2>1 DEF EndsAt
<1> QED BY <1>1, <1>2, <1>3

\* The parent of a row is older, and no worktree.
LEMMA KinOf ==
  ASSUME NEW n \in Nat, NEW kin, IsKin(kin, n), NEW list, IsProjects(list, kin, n), NEW y \in Range(list)
  PROVE  /\ y \in PRow /\ y.id \in 1..n /\ y.parent = kin[y.id] /\ y.parent \in Nat
         /\ y.parent < y.id
         /\ y.parent # Top => y.parent \in 1..n /\ kin[y.parent] = Top
<1>1. y \in PRow /\ y.id \in 1..n /\ y.parent = kin[y.id]
  BY RangeIs DEF IsProjects
<1>2. y.parent \in Nat
  BY <1>1 DEF PRow
<1> QED BY <1>1, <1>2 DEF IsKin, Top

LEMMA RowAt ==
  ASSUME NEW n \in Nat, NEW kin, NEW list, IsProjects(list, kin, n)
  PROVE  /\ list \in Seq(PRow) /\ OneEach(list) /\ Len(list) \in Nat /\ DOMAIN list = 1..Len(list)
         /\ \A i \in 1..Len(list) : list[i] \in Range(list) /\ list[i] \in PRow
BY RangeIs, LenProperties DEF IsProjects

\* A place for a new project that keeps the groups together.
Fits(list, x, j) ==
  /\ \A i \in 1..Len(list) : (x.parent # Top /\ list[i].id = x.parent) => EndsAt(list, i, x.parent, j)
  /\ \/ j = 1 \/ j = Len(list) + 1
     \/ \E i \in 1..Len(list) : x.parent # Top /\ list[i].id = x.parent

IsNew(x, list, kin, n) == /\ x \in PRow /\ x.id \in 1..n /\ x.parent = kin[x.id] /\ NewTo(x, list)

\* What stands before the new project does not reach over it.
LEMMA NothingAcross ==
  ASSUME NEW n \in Nat, NEW kin, IsKin(kin, n), NEW list, IsProjects(list, kin, n), Grouped(list),
         NEW x, IsNew(x, list, kin, n), NEW j \in 1..Len(list) + 1, Fits(list, x, j),
         NEW i \in 1..Len(list), NEW k \in 1..Len(list), i < j, j <= k,
         list[k].parent # Top, list[k].parent = list[i].id
  PROVE  FALSE
<1>0. list \in Seq(PRow) /\ OneEach(list) /\ \A o \in 1..Len(list) : list[o] \in Range(list)
  BY RowAt
<1>1. \A o \in i + 1..k : list[o].parent = list[i].id
  BY DEF Grouped
<1>2. PICK r : r = list[i].id
  OBVIOUS
<1>3. j \in 1..Len(list) /\ j \in i + 1..k /\ list[j].parent = r /\ r # Top
  BY <1>1, <1>2
<1>4. r = list[j].parent /\ kin[r] = Top
  <2>1. list[j] \in Range(list)
    BY <1>0, <1>3
  <2>2. list[j].parent # Top => kin[list[j].parent] = Top
    BY <2>1, KinOf
  <2> QED BY <1>3, <2>2
<1>5. PICK p \in 1..Len(list) : x.parent # Top /\ list[p].id = x.parent
  BY <1>3 DEF Fits
<1>6. EndsAt(list, p, x.parent, j)
  BY <1>5 DEF Fits
<1>7. list[j].parent # x.parent /\ j \in p + 1..Len(list) + 1 /\ \A o \in p + 1..j - 1 : list[o].parent = x.parent
  BY <1>3, <1>6 DEF EndsAt
<1>8. kin[x.parent] = Top
  BY <1>5 DEF IsNew, IsKin
<1>9. list[p].parent = Top
  <2>1. list[p].parent = kin[list[p].id]
    BY <1>0, KinOf
  <2> QED BY <1>5, <1>8, <2>1
<1>10. p <= j - 1 /\ i <= j - 1 /\ j - 1 \in 1..Len(list) /\ j - 1 \in Nat
  BY <1>3, <1>7
<1>11. CASE p = j - 1 /\ i = j - 1
  BY <1>2, <1>3, <1>5, <1>7, <1>11
<1>12. CASE p = j - 1 /\ i < j - 1
  <2>1. j - 1 \in i + 1..k
    BY <1>3, <1>10, <1>12
  <2>2. list[j - 1].parent = r
    BY <1>1, <1>2, <2>1
  <2> QED BY <1>3, <1>9, <1>12, <2>2
<1>13. CASE p < j - 1 /\ i = j - 1
  <2>1. j - 1 \in p + 1..j - 1
    BY <1>10, <1>13
  <2>2. list[i].parent = x.parent
    BY <1>7, <1>13, <2>1
  <2>3. list[i].parent = kin[list[i].id]
    BY <1>0, KinOf
  <2> QED BY <1>2, <1>4, <1>5, <2>2, <2>3
<1>14. CASE p < j - 1 /\ i < j - 1
  <2>1. j - 1 \in p + 1..j - 1 /\ j - 1 \in i + 1..k
    BY <1>3, <1>10, <1>14
  <2>2. list[j - 1].parent = x.parent /\ list[j - 1].parent = r
    BY <1>1, <1>2, <1>7, <2>1
  <2> QED BY <1>3, <1>7, <2>2
<1> QED BY <1>10, <1>11, <1>12, <1>13, <1>14

\* Inserting at a fitting place keeps every worktree behind its parent.
LEMMA InsertGroups ==
  ASSUME NEW n \in Nat, NEW kin, IsKin(kin, n), NEW list, IsProjects(list, kin, n), Grouped(list),
         NEW x, IsNew(x, list, kin, n), NEW j \in 1..Len(list) + 1, Fits(list, x, j),
         NEW m \in Seq(PRow), Inserted(list, j, x, m)
  PROVE  IsProjects(m, kin, n) /\ Grouped(m)
<1>0. /\ list \in Seq(PRow) /\ OneEach(list) /\ Len(list) \in Nat
      /\ \A o \in 1..Len(list) : list[o] \in Range(list)
  BY RowAt
<1>1. ~Known(list, x.id)
  <2>1. \A y \in Range(list) : y.id # x.id
    BY KinOf DEF IsNew, NewTo
  <2> QED BY <1>0, <2>1, KnownIs
<1>2. x \in PRow /\ x.id \in 1..n /\ x.parent = kin[x.id]
  BY DEF IsNew
<1>3. Range(m) = Range(list) \cup {x} /\ OneEach(m)
  BY <1>0, <1>1, <1>2, InsertedIs, RowsHaveIds
<1>4. IsProjects(m, kin, n)
  BY <1>2, <1>3 DEF IsProjects
<1>5. /\ Len(m) = Len(list) + 1
      /\ \A k \in 1..Len(m) : /\ k < j => k \in 1..Len(list) /\ m[k] = list[k]
                              /\ k = j => m[k] = x
                              /\ k > j => k - 1 \in 1..Len(list) /\ m[k] = list[k - 1]
  BY <1>0 DEF Inserted
<1>6. /\ \A y \in Range(list) : y.parent # x.id
      /\ x.parent # x.id
  <2>1. \A y \in Range(list) : y.parent \in Nat /\ y.parent < y.id /\ y.id < x.id /\ y.id \in Nat
    BY KinOf DEF IsNew, NewTo
  <2>2. x.parent < x.id /\ x.id \in Nat
    BY <1>2 DEF IsKin
  <2> QED BY <1>2, <2>1, <2>2
<1>7. ASSUME NEW i \in 1..Len(m), NEW k \in 1..Len(m), m[k].parent # Top, m[k].parent = m[i].id
      PROVE  i < k /\ \A o \in i + 1..k : m[o].parent = m[i].id
  <2>1. i # j
    <3> SUFFICES ASSUME i = j PROVE FALSE
      OBVIOUS
    <3>1. m[k].parent = x.id
      BY <1>5, <1>7
    <3>2. CASE k < j
      <4>1. list[k] \in Range(list) /\ m[k] = list[k]
        BY <1>0, <1>5, <3>2
      <4> QED BY <1>6, <3>1, <4>1
    <3>3. CASE k = j
      BY <1>5, <1>6, <3>1, <3>3
    <3>4. CASE k > j
      <4>1. list[k - 1] \in Range(list) /\ m[k] = list[k - 1]
        BY <1>0, <1>5, <3>4
      <4> QED BY <1>6, <3>1, <4>1
    <3>5. k \in Int /\ j \in Int
      BY <1>0, <1>5
    <3> QED BY <3>2, <3>3, <3>4, <3>5
  <2>2. CASE k = j
    <3>1. m[k] = x /\ x.parent # Top /\ m[i].id = x.parent
      BY <1>5, <1>7, <2>2
    <3>2. PICK p \in 1..Len(list) : list[p] = m[i]
      BY <1>0, <1>5, <2>1
    <3>3. EndsAt(list, p, x.parent, j)
      BY <3>1, <3>2 DEF Fits
    <3>4. p < j /\ p \in 1..Len(m) /\ m[p] = list[p]
      BY <1>0, <1>5, <3>3 DEF EndsAt
    <3>5. i = p
      BY <1>3, <3>2, <3>4 DEF OneEach
    <3>6. ASSUME NEW o \in i + 1..k PROVE m[o].parent = m[i].id
      <4>1. CASE o = j
        BY <3>1, <2>2, <4>1
      <4>2. CASE o # j
        <5>1. o \in p + 1..j - 1 /\ o < j /\ o \in 1..Len(m)
          BY <1>0, <1>5, <2>2, <3>5, <4>2
        <5> QED BY <1>5, <3>1, <3>3, <5>1 DEF EndsAt
      <4> QED BY <4>1, <4>2
    <3> QED BY <2>2, <3>4, <3>5, <3>6
  <2>3. CASE k < j /\ i < j
    <3>1. m[k] = list[k] /\ m[i] = list[i] /\ i \in 1..Len(list) /\ k \in 1..Len(list)
      BY <1>5, <2>3
    <3>2. i < k /\ \A o \in i + 1..k : list[o].parent = list[i].id
      BY <1>7, <3>1 DEF Grouped
    <3>3. \A o \in i + 1..k : m[o] = list[o]
      BY <1>0, <1>5, <2>3, <3>1
    <3> QED BY <3>1, <3>2, <3>3
  <2>4. CASE k < j /\ i > j
    <3>1. m[k] = list[k] /\ m[i] = list[i - 1] /\ i - 1 \in 1..Len(list) /\ k \in 1..Len(list)
      BY <1>5, <2>4
    <3>2. i - 1 < k
      BY <1>7, <3>1 DEF Grouped
    <3> QED BY <1>0, <2>4, <3>2
  <2>5. CASE k > j /\ i < j
    <3>1. m[k] = list[k - 1] /\ m[i] = list[i] /\ k - 1 \in 1..Len(list) /\ i \in 1..Len(list) /\ j <= k - 1
      BY <1>0, <1>5, <2>5
    <3> QED BY <1>7, <2>5, <3>1, NothingAcross
  <2>6. CASE k > j /\ i > j
    <3>1. m[k] = list[k - 1] /\ m[i] = list[i - 1] /\ k - 1 \in 1..Len(list) /\ i - 1 \in 1..Len(list)
      BY <1>0, <1>5, <2>6
    <3>2. i - 1 < k - 1 /\ \A o \in (i - 1) + 1..k - 1 : list[o].parent = list[i - 1].id
      BY <1>7, <3>1 DEF Grouped
    <3>3. ASSUME NEW o \in i + 1..k PROVE m[o].parent = m[i].id
      <4>1. o > j /\ o \in 1..Len(m) /\ o - 1 \in (i - 1) + 1..k - 1
        BY <1>0, <1>5, <2>6, <3>1
      <4> QED BY <1>5, <3>1, <3>2, <4>1
    <3> QED BY <3>2, <3>3
  <2> QED BY <2>1, <2>2, <2>3, <2>4, <2>5, <2>6
<1> QED BY <1>4, <1>7 DEF Grouped

\* Where new projects go.
LEMMA PrependFits ==
  ASSUME NEW n \in Nat, NEW kin, NEW list, IsProjects(list, kin, n), NEW x \in PRow, x.parent = Top
  PROVE  /\ <<x>> \o list \in Seq(PRow) /\ Inserted(list, 1, x, <<x>> \o list)
         /\ 1 \in 1..Len(list) + 1 /\ Fits(list, x, 1)
<1>0. list \in Seq(PRow) /\ Len(list) \in Nat
  BY RowAt
<1>1. PICK m : m = <<x>> \o list
  OBVIOUS
<1>2. <<x>> \in Seq(PRow) /\ Len(<<x>>) = 1 /\ <<x>>[1] = x
  OBVIOUS
<1>3. m \in Seq(PRow) /\ Len(m) = 1 + Len(list)
  BY <1>0, <1>1, <1>2, ConcatProperties
<1>4. \A k \in 1..1 + Len(list) : m[k] = IF k <= 1 THEN <<x>>[k] ELSE list[k - 1]
  BY <1>0, <1>1, <1>2, ConcatProperties
<1>5. Inserted(list, 1, x, m)
  BY <1>0, <1>2, <1>3, <1>4 DEF Inserted
<1>6. Fits(list, x, 1)
  BY DEF Fits
<1> QED BY <1>0, <1>1, <1>3, <1>5, <1>6

\* The end of the list fits when the parent is gone.
LEMMA AppendFits ==
  ASSUME NEW n \in Nat, NEW kin, NEW list, IsProjects(list, kin, n), NEW x \in PRow, ~Known(list, x.parent)
  PROVE  /\ Append(list, x) \in Seq(PRow) /\ Inserted(list, Len(list) + 1, x, Append(list, x))
         /\ Len(list) + 1 \in 1..Len(list) + 1 /\ Fits(list, x, Len(list) + 1)
<1>0. list \in Seq(PRow) /\ Len(list) \in Nat /\ DOMAIN list = 1..Len(list)
  BY RowAt
<1>1. PICK m : m = Append(list, x)
  OBVIOUS
<1>3. /\ m \in Seq(PRow) /\ Len(m) = Len(list) + 1
      /\ \A i \in 1..Len(list) : m[i] = list[i]
      /\ m[Len(list) + 1] = x
  BY <1>0, <1>1, AppendProperties
<1>5. Inserted(list, Len(list) + 1, x, m)
  BY <1>0, <1>3 DEF Inserted
<1>6. Fits(list, x, Len(list) + 1)
  BY <1>0 DEF Fits, Known
<1> QED BY <1>0, <1>1, <1>3, <1>5, <1>6

\* The place behind the siblings fits.
LEMMA BehindFits ==
  ASSUME NEW n \in Nat, NEW kin, NEW list, IsProjects(list, kin, n), NEW x \in PRow, x.parent # Top,
         Known(list, x.parent)
  PROVE  \E j \in 1..Len(list) + 1, i \in 1..Len(list) :
           /\ j = BehindChildren(list, i, x.parent) /\ i = At(list, x.parent) /\ list[i].id = x.parent
           /\ BehindParent(list, x) \in Seq(PRow) /\ Inserted(list, j, x, BehindParent(list, x))
           /\ Fits(list, x, j) /\ EndsAt(list, i, x.parent, j)
           /\ BehindParent(list, x) = InsertAt(list, j, x)
<1>0. list \in Seq(PRow) /\ Len(list) \in Nat /\ OneEach(list) /\ DOMAIN list = 1..Len(list)
  BY RowAt
<1>1. PICK i : i = At(list, x.parent)
  OBVIOUS
<1>2. i \in 1..Len(list) /\ list[i].id = x.parent
  BY <1>0, <1>1 DEF At, Known
<1>3. PICK j : j = BehindChildren(list, i, x.parent)
  OBVIOUS
<1>4. EndsAt(list, i, x.parent, j)
  BY <1>0, <1>2, <1>3, BehindIs
<1>5. j \in 1..Len(list) + 1
  BY <1>0, <1>2, <1>4 DEF EndsAt
<1>6. BehindParent(list, x) = InsertAt(list, j, x)
  BY <1>1, <1>3 DEF BehindParent
<1>7. InsertAt(list, j, x) \in Seq(PRow) /\ Inserted(list, j, x, InsertAt(list, j, x))
  BY <1>0, <1>5, InsertIs
<1>8. Fits(list, x, j)
  <2>1. ASSUME NEW o \in 1..Len(list), list[o].id = x.parent PROVE o = i
    BY <1>0, <1>2, <2>1 DEF OneEach
  <2> QED BY <1>2, <1>4, <2>1 DEF Fits
<1> QED BY <1>1, <1>2, <1>3, <1>4, <1>5, <1>6, <1>7, <1>8

\* A filter keeps the groups together.
LEMMA OnlyGroups ==
  ASSUME NEW n \in Nat, NEW kin, NEW list, IsProjects(list, kin, n), NEW S, NEW m, m = Only(list, S)
  PROVE  /\ IsProjects(m, kin, n) /\ Range(m) = Range(list) \cap S
         /\ Grouped(list) => Grouped(m)
<1>0. list \in Seq(PRow) /\ OneEach(list) /\ Len(list) \in Nat
  BY RowAt
<1>1. m \in Seq(PRow) /\ Range(m) = Range(list) \cap S /\ OneEach(m)
  BY <1>0, OnlyKeeps
<1>2. IsProjects(m, kin, n)
  BY <1>1 DEF IsProjects
<1>3. PICK e : Picks(e, m, list, S)
  BY <1>0, OnlyPicks
<1>4. /\ \A i \in 1..Len(m) : e[i] \in 1..Len(list) /\ m[i] = list[e[i]]
      /\ \A i, j \in 1..Len(m) : i < j => e[i] < e[j]
      /\ Len(m) \in Nat
  BY <1>1, <1>3 DEF Picks, PicksTo
<1>5. ASSUME Grouped(list), NEW i \in 1..Len(m), NEW k \in 1..Len(m), m[k].parent # Top, m[k].parent = m[i].id
      PROVE  i < k /\ \A o \in i + 1..k : m[o].parent = m[i].id
  <2>1. e[i] < e[k] /\ \A o \in e[i] + 1..e[k] : list[o].parent = list[e[i]].id
    BY <1>4, <1>5 DEF Grouped
  <2>2. i < k
    <3> SUFFICES ASSUME k <= i PROVE FALSE
      BY <1>4
    <3>1. k = i \/ k < i
      BY <1>4
    <3>2. k < i => e[k] < e[i]
      BY <1>4
    <3> QED BY <1>0, <1>4, <2>1, <3>1, <3>2
  <2>3. ASSUME NEW o \in i + 1..k PROVE m[o].parent = m[i].id
    <3>1. o \in 1..Len(m) /\ i < o
      BY <1>4, <2>2
    <3>2. e[i] < e[o] /\ (o = k \/ e[o] < e[k])
      BY <1>4, <3>1
    <3>3. e[o] \in e[i] + 1..e[k]
      BY <1>0, <1>4, <3>1, <3>2
    <3> QED BY <1>4, <2>1, <3>1, <3>3
  <2> QED BY <2>2, <2>3
<1> QED BY <1>1, <1>2, <1>5 DEF Grouped

\* A new project keeps the list a list of projects.
LEMMA InsertStays ==
  ASSUME NEW n \in Nat, NEW kin, IsKin(kin, n), NEW list, IsProjects(list, kin, n),
         NEW x, IsNew(x, list, kin, n), NEW j \in 1..Len(list) + 1,
         NEW m \in Seq(PRow), Inserted(list, j, x, m)
  PROVE  IsProjects(m, kin, n) /\ Range(m) = Range(list) \cup {x}
<1>0. list \in Seq(PRow) /\ OneEach(list)
  BY RowAt
<1>1. ~Known(list, x.id)
  <2>1. \A y \in Range(list) : y.id # x.id
    BY KinOf DEF IsNew, NewTo
  <2> QED BY <1>0, <2>1, KnownIs
<1>2. x \in PRow /\ x.id \in 1..n /\ x.parent = kin[x.id]
  BY DEF IsNew
<1>3. Range(m) = Range(list) \cup {x} /\ OneEach(m)
  BY <1>0, <1>1, <1>2, InsertedIs, RowsHaveIds
<1> QED BY <1>2, <1>3 DEF IsProjects

\* m is the page's list after x was added.
Added(list, x, m) == m = IF x.parent = Top THEN <<x>> \o list ELSE InsertWorktree(list, x)

\* Adding keeps the groups.
LEMMA AddStays ==
  ASSUME NEW n \in Nat, NEW kin, IsKin(kin, n), NEW list, IsProjects(list, kin, n),
         NEW x, IsNew(x, list, kin, n), NEW m, Added(list, x, m)
  PROVE  /\ IsProjects(m, kin, n)
         /\ Grouped(list) => Grouped(m)
         /\ \E j \in 1..Len(list) + 1 : m \in Seq(PRow) /\ Inserted(list, j, x, m)
<1>0. x \in PRow
  BY DEF IsNew
<1>1. ASSUME NEW j \in 1..Len(list) + 1, m \in Seq(PRow), Inserted(list, j, x, m), Fits(list, x, j)
      PROVE  IsProjects(m, kin, n) /\ (Grouped(list) => Grouped(m))
  BY <1>1, InsertStays, InsertGroups
<1>2. \E j \in 1..Len(list) + 1 : m \in Seq(PRow) /\ Inserted(list, j, x, m) /\ Fits(list, x, j)
  <2>1. CASE x.parent = Top
    <3>1. m = <<x>> \o list
      BY <2>1 DEF Added
    <3> QED BY <1>0, <2>1, <3>1, PrependFits
  <2>2. CASE x.parent # Top /\ ~Known(list, x.parent)
    <3>1. m = Append(list, x)
      BY <2>2 DEF InsertWorktree, Added
    <3> QED BY <1>0, <2>2, <3>1, AppendFits
  <2>3. CASE x.parent # Top /\ Known(list, x.parent)
    <3>1. m = BehindParent(list, x)
      BY <2>3 DEF InsertWorktree, Added
    <3> QED BY <1>0, <2>3, <3>1, BehindFits
  <2> QED BY <2>1, <2>2, <2>3
<1> QED BY <1>1, <1>2

\* What a command adds.
NewRow(c) == [id |-> c.id, parent |-> c.proj]

LEMMA NewRowIs ==
  ASSUME NEW n \in Nat, NEW kin, NEW list, NEW c, IsProjectCall(c, kin, n), Adds(c, "projects"), NewTo(c, list)
  PROVE  /\ IsNew(NewRow(c), list, kin, n)
         /\ NewRow(c).id = c.id /\ NewRow(c).parent = c.proj
         /\ c.proj = Top => NewRow(c) = [id |-> c.id, parent |-> Top]
<1>1. c.proj \in Nat /\ c.id \in 1..n /\ kin[c.id] = c.proj
  BY DEF IsProjectCall
<1>2. NewRow(c) \in PRow /\ NewRow(c).id = c.id /\ NewRow(c).parent = c.proj
  BY <1>1 DEF NewRow, PRow
<1>3. NewTo(NewRow(c), list)
  BY <1>2 DEF NewTo
<1> QED BY <1>1, <1>2, <1>3 DEF IsNew, NewRow

LEMMA PageAdds ==
  ASSUME NEW list, NEW c, Adds(c, "projects")
  PROVE  Added(list, NewRow(c), PageAfter(list, c))
BY DEF PageAfter, Adds, NewRow, Added

\* The window's projects stay grouped with every answer.
LEMMA PageStays ==
  ASSUME NEW n \in Nat, NEW kin, IsKin(kin, n), NEW list, IsProjects(list, kin, n),
         NEW c, IsCall(c), IsProjectCall(c, kin, n), Adds(c, "projects") => NewTo(c, list)
  PROVE  /\ IsProjects(PageAfter(list, c), kin, n)
         /\ Grouped(list) => Grouped(PageAfter(list, c))
<1>1. CASE Adds(c, "projects")
  <2>1. PICK x : x = NewRow(c)
    OBVIOUS
  <2>2. PICK m : m = PageAfter(list, c)
    OBVIOUS
  <2>3. IsNew(x, list, kin, n)
    BY <1>1, <2>1, NewRowIs
  <2>4. Added(list, x, m)
    BY <1>1, <2>1, <2>2, PageAdds
  <2>5. IsProjects(m, kin, n) /\ (Grouped(list) => Grouped(m))
    BY <2>3, <2>4, AddStays
  <2> QED BY <2>2, <2>5
<1>2. CASE c.op = "remove" /\ c.list = "projects"
  <2>1. PageAfter(list, c) = Only(list, {x \in Range(list) : x.id # c.id})
    BY <1>2 DEF PageAfter, Without
  <2> QED BY <2>1, OnlyGroups
<1>3. CASE ~Adds(c, "projects") /\ ~(c.op = "remove" /\ c.list = "projects")
  <2>1. PageAfter(list, c) = list
    BY <1>3 DEF PageAfter, Adds, IsCall
  <2> QED BY <2>1
<1> QED BY <1>1, <1>2, <1>3

\* Removing a project and a new order may swap.
LEMMA ProjectsReordered ==
  ASSUME NEW n \in Nat, NEW kin, NEW list, IsProjects(list, kin, n), NEW c, IsCall(c), ~Adds(c, "projects"),
         NEW ids \in Seq(Nat), Distinct(ids)
  PROVE  Reorder(PageAfter(list, c), ids) = PageAfter(Reorder(list, ids), c)
<1>0. HasIds(PRow) /\ list \in Seq(PRow) /\ OneEach(list)
  BY RowsHaveIds DEF IsProjects
<1>1. PICK q : q = Reorder(list, ids)
  OBVIOUS
<1>2. q \in Seq(PRow) /\ Range(q) = Range(list)
  BY <1>0, <1>1, ReorderKeeps
<1>3. ASSUME NEW S PROVE Reorder(Only(list, S), ids) = Only(q, S)
  BY <1>0, <1>1, OnlyReordered
<1>4. Reorder(Without(list, c.id), ids) = Without(q, c.id)
  BY <1>2, <1>3 DEF Without
<1>5. q = Reorder(list, ids)
  BY <1>1
<1> QED BY <1>4, <1>5 DEF PageAfter, Adds, IsCall

-----------------------------------------------------------------------------
\* The backend's list after a command is what it has for the page's list after
\* the answer.
LEMMA InsertedSame ==
  ASSUME NEW R, NEW s \in Seq(R), NEW j, NEW x, NEW a \in Seq(R), NEW b \in Seq(R),
         Inserted(s, j, x, a), Inserted(s, j, x, b)
  PROVE  a = b
<1>1. Len(a) = Len(b) /\ \A k \in 1..Len(a) : a[k] = b[k]
  BY DEF Inserted
<1>2. a = [k \in 1..Len(a) |-> a[k]] /\ b = [k \in 1..Len(b) |-> b[k]]
  BY LenProperties
<1> QED BY <1>1, <1>2

LEMMA SettleIs ==
  ASSUME NEW s, NEW x
  PROVE  Settle(s, x).id = x.id /\ Settle(s, x).parent = IF IsChild(s, x) THEN x.parent ELSE Top
BY DEF Settle

\* Inserting and settling may swap.
LEMMA SettledInserted ==
  ASSUME NEW n \in Nat, NEW kin, IsKin(kin, n), NEW list, IsProjects(list, kin, n),
         NEW x, IsNew(x, list, kin, n), NEW j \in 1..Len(list) + 1,
         NEW m \in Seq(PRow), Inserted(list, j, x, m)
  PROVE  /\ Inserted(Settled(list), j, Settle(m, x), Settled(m))
         /\ Settled(m) \in Seq(PRow)
<1>0. list \in Seq(PRow) /\ Len(list) \in Nat
  BY RowAt
<1>1. PICK s : s = Settled(list)
  OBVIOUS
<1>2. PICK t : t = Settled(m)
  OBVIOUS
<1>3. s \in Seq(PRow) /\ Len(s) = Len(list) /\ \A i \in 1..Len(list) : s[i] = Settle(list, list[i])
  BY <1>0, <1>1, SettledIs
<1>4. t \in Seq(PRow) /\ Len(t) = Len(m) /\ \A i \in 1..Len(m) : t[i] = Settle(m, m[i])
  BY <1>2, SettledIs
<1>5. Range(m) = Range(list) \cup {x}
  BY InsertStays
<1>6. ASSUME NEW y \in Range(list) PROVE Settle(m, y) = Settle(list, y)
  <2>1. y.parent # x.id
    <3>1. y.parent \in Nat /\ y.parent < y.id /\ y.id < x.id /\ y.id \in Nat /\ x.id \in Nat
      BY KinOf DEF IsNew, NewTo
    <3> QED BY <3>1
  <2>2. Known(m, y.parent) <=> Known(list, y.parent)
    BY <1>0, <1>5, <2>1, KnownIs
  <2> QED BY <2>2 DEF Settle, IsChild
<1>7. \A i \in 1..Len(list) : Settle(m, list[i]) = s[i]
  BY <1>0, <1>3, <1>6, RangeIs
<1>8. Len(m) = Len(list) + 1 /\ \A k \in 1..Len(list) + 1 : m[k] = IF k < j THEN list[k] ELSE IF k = j THEN x ELSE list[k - 1]
  BY DEF Inserted
<1>9. ASSUME NEW k \in 1..Len(s) + 1
      PROVE  t[k] = IF k < j THEN s[k] ELSE IF k = j THEN Settle(m, x) ELSE s[k - 1]
  <2>1. k \in 1..Len(m) /\ t[k] = Settle(m, m[k])
    BY <1>3, <1>4, <1>8
  <2>2. CASE k < j
    <3>1. m[k] = list[k] /\ k \in 1..Len(list)
      BY <1>0, <1>3, <1>8, <2>2
    <3> QED BY <1>7, <2>1, <2>2, <3>1
  <2>3. CASE k = j
    BY <1>3, <1>8, <2>1, <2>3
  <2>4. CASE k > j
    <3>1. m[k] = list[k - 1] /\ k - 1 \in 1..Len(list)
      BY <1>0, <1>3, <1>8, <2>4
    <3> QED BY <1>7, <2>1, <2>4, <3>1
  <2> QED BY <1>0, <1>3, <2>2, <2>3, <2>4
<1>10. Inserted(s, j, Settle(m, x), t)
  BY <1>3, <1>4, <1>8, <1>9 DEF Inserted
<1> QED BY <1>1, <1>2, <1>4, <1>10

LEMMA PrependIs ==
  ASSUME NEW R, NEW s \in Seq(R), NEW x \in R
  PROVE  <<x>> \o s \in Seq(R) /\ Inserted(s, 1, x, <<x>> \o s)
<1>0. Len(s) \in Nat
  OBVIOUS
<1>1. PICK m : m = <<x>> \o s
  OBVIOUS
<1>2. <<x>> \in Seq(R) /\ Len(<<x>>) = 1 /\ <<x>>[1] = x
  OBVIOUS
<1>3. m \in Seq(R) /\ Len(m) = 1 + Len(s)
  BY <1>0, <1>1, <1>2, ConcatProperties
<1>4. \A k \in 1..1 + Len(s) : m[k] = IF k <= 1 THEN <<x>>[k] ELSE s[k - 1]
  BY <1>0, <1>1, <1>2, ConcatProperties
<1>5. Inserted(s, 1, x, m)
  BY <1>0, <1>2, <1>3, <1>4 DEF Inserted
<1> QED BY <1>1, <1>3, <1>5

\* A project that is in a list once was put in one place.
LEMMA InsertedOnce ==
  ASSUME NEW R, NEW s \in Seq(R), NEW x, NEW m \in Seq(R), OneEach(m),
         NEW j \in 1..Len(s) + 1, Inserted(s, j, x, m), NEW k \in 1..Len(s) + 1, Inserted(s, k, x, m)
  PROVE  j = k
<1>1. m[j] = x /\ m[k] = x /\ Len(m) = Len(s) + 1
  BY DEF Inserted
<1> QED BY <1>1 DEF OneEach

\* add_project puts a project where the page will.
LEMMA StoreAdds ==
  ASSUME NEW n \in Nat, NEW kin, IsKin(kin, n), NEW list, IsProjects(list, kin, n),
         NEW x, IsNew(x, list, kin, n), x.parent # Top => Known(Settled(list), x.parent),
         NEW m, Added(list, x, m)
  PROVE  AddProject(Settled(list), x) = Settled(m)
<1>0. /\ list \in Seq(PRow) /\ OneEach(list) /\ Len(list) \in Nat /\ DOMAIN list = 1..Len(list)
      /\ \A i \in 1..Len(list) : list[i] \in Range(list)
  BY RowAt
<1>x. x \in PRow /\ x.parent \in Nat /\ x.id \in Nat
  BY DEF IsNew, PRow
<1>1. PICK s : s = Settled(list)
  OBVIOUS
<1>2. PICK j \in 1..Len(list) + 1 : m \in Seq(PRow) /\ Inserted(list, j, x, m)
  BY AddStays
<1>3. /\ s \in Seq(PRow) /\ Len(s) = Len(list) /\ Ids(s) = Ids(list) /\ OneEach(s)
      /\ \A i \in 1..Len(list) : s[i] = Settle(list, list[i])
  BY <1>0, <1>1, SettledIs
<1>4. PICK t : t = Settled(m)
  OBVIOUS
<1>5. t \in Seq(PRow) /\ Inserted(s, j, Settle(m, x), t)
  BY <1>1, <1>2, <1>4, SettledInserted
<1>6. \A id : Known(s, id) <=> Known(list, id)
  <2>1. {y.id : y \in Range(s)} = {y.id : y \in Range(list)}
    BY <1>0, <1>3, RowsHaveIds, IdsAre
  <2> QED BY <1>0, <1>3, <2>1, KnownIs
<1>7. ~Known(list, Top)
  <2>1. \A y \in Range(list) : y.id # Top
    BY KinOf DEF Top
  <2> QED BY <1>0, <2>1, KnownIs
<1>8. IsProjects(m, kin, n) /\ Range(m) = Range(list) \cup {x}
  BY <1>2, InsertStays
<1>13. OneEach(m)
  BY <1>8 DEF IsProjects
<1>9. Settle(m, x) = x
  <2>1. x = [id |-> x.id, parent |-> x.parent]
    BY <1>x DEF PRow
  <2>2. CASE x.parent = Top
    BY <2>1, <2>2 DEF Settle, IsChild
  <2>3. CASE x.parent # Top
    <3>1. Known(list, x.parent)
      BY <1>1, <1>6, <2>3
    <3>2. PICK y \in Range(list) : y.id = x.parent
      BY <1>0, <3>1, KnownIs
    <3>3. Known(m, x.parent)
      BY <1>2, <1>8, <3>2, KnownIs
    <3> QED BY <2>1, <2>3, <3>3 DEF Settle, IsChild
  <2> QED BY <2>2, <2>3
<1>10. PICK a : a = AddProject(s, x)
  OBVIOUS
<1>11. a \in Seq(PRow) /\ Inserted(s, j, x, a)
  <2>1. CASE x.parent = Top
    <3>1. ~Known(s, x.parent)
      BY <1>6, <1>7, <2>1
    <3>2. a = <<x>> \o s
      BY <1>10, <3>1 DEF AddProject
    <3>3. <<x>> \o s \in Seq(PRow) /\ Inserted(s, 1, x, <<x>> \o s)
      BY <1>3, <1>x, PrependIs
    <3>7. m = <<x>> \o list
      BY <2>1 DEF Added
    <3>4. Inserted(list, 1, x, m)
      BY <1>0, <1>x, <3>7, PrependIs
    <3>5. j = 1
      BY <1>0, <1>2, <1>13, <3>4, InsertedOnce
    <3> QED BY <3>2, <3>3, <3>5
  <2>2. CASE x.parent # Top
    <3>1. Known(s, x.parent) /\ Known(list, x.parent)
      BY <1>1, <1>6, <2>2
    <3>2. m = BehindParent(list, x) /\ a = BehindParent(s, x)
      BY <1>10, <2>2, <3>1 DEF InsertWorktree, AddProject, Added
    <3>3. PICK k \in 1..Len(list) + 1, i \in 1..Len(list) :
            /\ list[i].id = x.parent /\ EndsAt(list, i, x.parent, k) /\ Inserted(list, k, x, m)
      BY <1>x, <2>2, <3>1, <3>2, BehindFits
    <3>4. j = k
      BY <1>0, <1>2, <1>13, <3>3, InsertedOnce
    <3>5. At(s, x.parent) = i
      <4>1. PICK o : o = At(s, x.parent)
        OBVIOUS
      <4>2. o \in 1..Len(s) /\ s[o].id = x.parent
        BY <1>3, <3>1, <4>1 DEF At, Known
      <4>3. s[i].id = x.parent /\ i \in 1..Len(s)
        BY <1>3, <3>3, SettleIs
      <4> QED BY <1>3, <4>1, <4>2, <4>3 DEF OneEach
    <3>6. ASSUME NEW o \in 1..Len(list) PROVE s[o].parent = x.parent <=> list[o].parent = x.parent
      <4>1. s[o].parent = IF IsChild(list, list[o]) THEN list[o].parent ELSE Top
        BY <1>3, SettleIs
      <4>2. list[o].parent = x.parent => IsChild(list, list[o])
        BY <2>2, <3>1 DEF IsChild
      <4> QED BY <2>2, <4>1, <4>2
    <3>7. EndsAt(s, i, x.parent, k)
      <4>1. \A o \in i + 1..k - 1 : s[o].parent = x.parent
        <5>1. \A o \in i + 1..k - 1 : o \in 1..Len(list)
          BY <1>0
        <5> QED BY <3>3, <3>6, <5>1 DEF EndsAt
      <4>2. k = Len(s) + 1 \/ s[k].parent # x.parent
        <5>1. k \in 1..Len(list) \/ k = Len(list) + 1
          BY <1>0
        <5>2. k = Len(list) + 1 \/ list[k].parent # x.parent
          BY <3>3 DEF EndsAt
        <5> QED BY <1>3, <3>6, <5>1, <5>2
      <4> QED BY <1>3, <3>3, <4>1, <4>2 DEF EndsAt
    <3>8. k = BehindChildren(s, i, x.parent)
      <4>1. EndsAt(s, i, x.parent, BehindChildren(s, i, x.parent))
        BY <1>3, BehindIs
      <4> QED BY <1>3, <3>7, <4>1, EndsOnce
    <3>9. a = InsertAt(s, k, x)
      BY <3>2, <3>5, <3>8 DEF BehindParent
    <3>10. InsertAt(s, k, x) \in Seq(PRow) /\ Inserted(s, k, x, InsertAt(s, k, x))
      BY <1>3, <1>x, InsertIs
    <3> QED BY <3>4, <3>9, <3>10
  <2> QED BY <2>1, <2>2
<1>12. a = t
  BY <1>3, <1>5, <1>9, <1>11, InsertedSame
<1> QED BY <1>1, <1>4, <1>10, <1>12

Orphan(x, id) == IF x.parent = id THEN [x EXCEPT !.parent = Top] ELSE x

LEMMA OrphanIs ==
  ASSUME NEW x \in PRow, NEW id
  PROVE  /\ Orphan(x, id) \in PRow /\ Orphan(x, id).id = x.id
         /\ Orphan(x, id) = [id |-> x.id, parent |-> IF x.parent = id THEN Top ELSE x.parent]
BY DEF Orphan, PRow, Top

\* remove_project makes worktrees of nobody projects of their own.
LEMMA OrphanedIs ==
  ASSUME NEW s \in Seq(PRow), NEW id, NEW m, m = Orphaned(s, id)
  PROVE  /\ m \in Seq(PRow) /\ Ids(m) = Ids(s)
         /\ Range(m) = {Orphan(x, id) : x \in Range(s)}
         /\ OneEach(s) => OneEach(m)
<1>1. DOMAIN s = 1..Len(s) /\ Len(s) \in Nat /\ \A i \in 1..Len(s) : s[i] \in PRow
  BY LenProperties, ElementOfSeq
<1>2. m = [i \in 1..Len(s) |-> Orphan(s[i], id)]
  BY <1>1 DEF Orphaned, Orphan
<1>4. m \in [1..Len(s) -> PRow]
  <2>1. \A i \in 1..Len(s) : Orphan(s[i], id) \in PRow
    BY <1>1, OrphanIs
  <2> QED BY <1>2, <2>1
<1>5. m \in Seq(PRow) /\ Len(m) = Len(s) /\ DOMAIN m = 1..Len(s)
  BY <1>1, <1>4
<1>6. \A i \in 1..Len(s) : m[i] = Orphan(s[i], id) /\ m[i].id = s[i].id
  BY <1>1, <1>2, OrphanIs
<1>7. Ids(m) = Ids(s)
  BY <1>1, <1>5, <1>6 DEF Ids
<1>8. Range(m) = {Orphan(x, id) : x \in Range(s)}
  BY <1>1, <1>5, <1>6 DEF Range
<1>9. OneEach(s) => OneEach(m)
  BY <1>5, <1>6 DEF OneEach
<1> QED BY <1>5, <1>7, <1>8, <1>9

\* remove_project: the worktrees of a removed project become projects; on the
\* page they keep pointing at it.
LEMMA StoreRemoves ==
  ASSUME NEW list \in Seq(PRow), OneEach(list), NEW id
  PROVE  Orphaned(Without(Settled(list), id), id) = Settled(Without(list, id))
<1>0. HasIds(PRow)
  BY RowsHaveIds
<1>1. PICK s : s = Settled(list)
  OBVIOUS
<1>2. PICK o : o = Without(s, id)
  OBVIOUS
<1>3. PICK p : p = Orphaned(o, id)
  OBVIOUS
<1>4. PICK w : w = Without(list, id)
  OBVIOUS
<1>5. PICK t : t = Settled(w)
  OBVIOUS
<1>6. PICK S : S = {x \in Range(s) : x.id # id}
  OBVIOUS
<1>7. PICK L : L = {x \in Range(list) : x.id # id}
  OBVIOUS
<1>8. /\ s \in Seq(PRow) /\ OneEach(s) /\ Ids(s) = Ids(list)
      /\ Range(s) = {Settle(list, x) : x \in Range(list)}
  BY <1>1, SettledIs
<1>9. o = Only(s, S) /\ w = Only(list, L)
  BY <1>2, <1>4, <1>6, <1>7 DEF Without
<1>10. o \in Seq(PRow) /\ OneEach(o) /\ Range(o) = Range(s) \cap S
  BY <1>8, <1>9, OnlyKeeps
<1>11. w \in Seq(PRow) /\ OneEach(w) /\ Range(w) = Range(list) \cap L
  BY <1>9, OnlyKeeps
<1>12. /\ p \in Seq(PRow) /\ OneEach(p) /\ Ids(p) = Ids(o)
       /\ Range(p) = {Orphan(x, id) : x \in Range(o)}
  BY <1>3, <1>10, OrphanedIs
<1>13. /\ t \in Seq(PRow) /\ OneEach(t) /\ Ids(t) = Ids(w)
       /\ Range(t) = {Settle(w, x) : x \in Range(w)}
  BY <1>5, <1>11, SettledIs
<1>14. ASSUME NEW x \in Range(list), x.id # id PROVE Orphan(Settle(list, x), id) = Settle(w, x)
  <2>1. Known(w, x.parent) <=> Known(list, x.parent) /\ x.parent # id
    <3>1. ASSUME Known(w, x.parent) PROVE Known(list, x.parent) /\ x.parent # id
      <4>1. PICK y \in Range(w) : y.id = x.parent
        BY <1>11, <3>1, KnownIs
      <4>2. y \in Range(list) /\ y.id # id
        BY <1>7, <1>11, <4>1
      <4> QED BY <4>1, <4>2, KnownIs
    <3>2. ASSUME Known(list, x.parent), x.parent # id PROVE Known(w, x.parent)
      <4>1. PICK y \in Range(list) : y.id = x.parent
        BY <3>2, KnownIs
      <4>2. y \in Range(w)
        BY <1>7, <1>11, <3>2, <4>1
      <4> QED BY <1>11, <4>1, <4>2, KnownIs
    <3> QED BY <3>1, <3>2
  <2>2. x \in PRow
    BY RangeIs
  <2>3. PICK q : q = Settle(list, x)
    OBVIOUS
  <2>4. q \in PRow /\ q.id = x.id /\ q.parent = IF IsChild(list, x) THEN x.parent ELSE Top
    BY <2>2, <2>3 DEF Settle, PRow, Top
  <2>5. Orphan(q, id) = [id |-> x.id, parent |-> IF q.parent = id THEN Top ELSE q.parent]
    BY <2>4, OrphanIs
  <2>6. (IF q.parent = id THEN Top ELSE q.parent) = IF IsChild(w, x) THEN x.parent ELSE Top
    BY <2>1, <2>4 DEF IsChild
  <2> QED BY <2>3, <2>5, <2>6 DEF Settle
<1>15. Range(p) = Range(t)
  <2>1. ASSUME NEW y \in Range(p) PROVE y \in Range(t)
    <3>1. PICK x \in Range(list) : y = Orphan(Settle(list, x), id) /\ Settle(list, x).id # id
      BY <1>6, <1>8, <1>10, <1>12
    <3>2. x.id # id /\ x \in Range(w)
      BY <1>7, <1>11, <3>1, SettleIs
    <3> QED BY <1>13, <1>14, <3>1, <3>2
  <2>2. ASSUME NEW y \in Range(t) PROVE y \in Range(p)
    <3>1. PICK x \in Range(w) : y = Settle(w, x)
      BY <1>13
    <3>2. x \in Range(list) /\ x.id # id
      BY <1>7, <1>11
    <3>3. Settle(list, x) \in Range(o)
      BY <1>6, <1>8, <1>10, <3>2, SettleIs
    <3>4. y = Orphan(Settle(list, x), id)
      BY <1>14, <3>1, <3>2
    <3> QED BY <1>12, <3>3, <3>4
  <2> QED BY <2>1, <2>2
<1>16. ASSUME NEW a, NEW b, Before(Ids(p), a, b) PROVE Before(Ids(t), a, b)
  <2>1. Before(Ids(o), a, b)
    BY <1>12, <1>16
  <2>2. PICK y, z \in Range(o) : y.id = a /\ z.id = b
    BY <1>0, <1>10, <2>1, BeforeIn
  <2>3. Before(Ids(s), a, b) /\ a # id /\ b # id
    BY <1>0, <1>6, <1>8, <1>9, <1>10, <2>1, <2>2, OnlyBefore
  <2>4. Before(Ids(list), a, b)
    BY <1>8, <2>3
  <2>5. PICK u, v \in Range(list) : u.id = a /\ v.id = b
    BY <1>0, <2>4, BeforeIn
  <2>6. u \in L /\ v \in L
    BY <1>7, <2>3, <2>5
  <2>7. Before(Ids(w), a, b)
    BY <1>0, <1>9, <2>4, <2>5, <2>6, OnlyBefore
  <2> QED BY <1>13, <2>7
<1>17. p = t
  BY <1>0, <1>12, <1>13, <1>15, <1>16, SameRows
<1> QED BY <1>1, <1>2, <1>3, <1>4, <1>5, <1>17

\* The backend does to its projects what the window does to its own, but for the
\* worktrees whose parent is gone.
LEMMA StoreSettled ==
  ASSUME NEW n \in Nat, NEW kin, IsKin(kin, n), NEW list, IsProjects(list, kin, n),
         NEW c, IsCall(c), c.op # "reorder", IsProjectCall(c, kin, n),
         Adds(c, "projects") => NewTo(c, list) /\ (c.proj # Top => Known(Settled(list), c.proj))
  PROVE  StoreAfter(Settled(list), c) = Settled(PageAfter(list, c))
<1>1. CASE Adds(c, "projects")
  <2>1. PICK x : x = NewRow(c)
    OBVIOUS
  <2>2. PICK m : m = PageAfter(list, c)
    OBVIOUS
  <2>3. IsNew(x, list, kin, n) /\ x.parent = c.proj
    BY <1>1, <2>1, NewRowIs
  <2>4. Added(list, x, m)
    BY <1>1, <2>1, <2>2, PageAdds
  <2>5. AddProject(Settled(list), x) = Settled(m)
    BY <1>1, <2>3, <2>4, StoreAdds
  <2>6. StoreAfter(Settled(list), c) = AddProject(Settled(list), x)
    BY <1>1, <2>1 DEF StoreAfter, Adds, NewRow
  <2> QED BY <2>2, <2>5, <2>6
<1>2. CASE c.op = "remove" /\ c.list = "projects"
  <2>1. list \in Seq(PRow) /\ OneEach(list)
    BY RowAt
  <2>2. StoreAfter(Settled(list), c) = Orphaned(Without(Settled(list), c.id), c.id)
    BY <1>2 DEF StoreAfter
  <2>3. PageAfter(list, c) = Without(list, c.id)
    BY <1>2 DEF PageAfter
  <2> QED BY <2>1, <2>2, <2>3, StoreRemoves
<1>3. CASE ~Adds(c, "projects") /\ ~(c.op = "remove" /\ c.list = "projects")
  <2>1. PageAfter(list, c) = list /\ StoreAfter(Settled(list), c) = Settled(list)
    BY <1>3 DEF PageAfter, StoreAfter, Adds, IsCall
  <2> QED BY <2>1
<1> QED BY <1>1, <1>2, <1>3

\* A group in the middle of a list.
Spliced(r, to, g, m) ==
  /\ Len(m) = Len(r) + Len(g)
  /\ \A k \in 1..to - 1 : m[k] = r[k]
  /\ \A k \in 1..Len(g) : m[to - 1 + k] = g[k]
  /\ \A k \in to..Len(r) : m[k + Len(g)] = r[k]

\* A group put elsewhere.
LEMMA SpliceIs ==
  ASSUME NEW T, NEW r \in Seq(T), NEW g \in Seq(T), NEW to \in 1..Len(r) + 1
  PROVE  /\ SubSeq(r, 1, to - 1) \o g \o SubSeq(r, to, Len(r)) \in Seq(T)
         /\ Spliced(r, to, g, SubSeq(r, 1, to - 1) \o g \o SubSeq(r, to, Len(r)))
<1>1. Len(r) \in Nat /\ Len(g) \in Nat
  OBVIOUS
<1>2. PICK a : a = SubSeq(r, 1, to - 1)
  OBVIOUS
<1>3. PICK b : b = SubSeq(r, to, Len(r))
  OBVIOUS
<1>4. a \in Seq(T) /\ Len(a) = to - 1 /\ \A k \in 1..to - 1 : a[k] = r[k]
  <2>1. \A k \in 1..(to - 1) : r[k] \in T
    BY <1>1, ElementOfSeq
  <2>2. to - 1 \in Int
    OBVIOUS
  <2> QED BY <1>1, <1>2, <2>1, <2>2, SubSeqProperties
<1>5. b \in Seq(T) /\ Len(b) = Len(r) - to + 1 /\ \A k \in 1..Len(r) - to + 1 : b[k] = r[to + k - 1]
  <2>1. \A k \in to..Len(r) : r[k] \in T
    BY <1>1, ElementOfSeq
  <2> QED BY <1>1, <1>3, <2>1, SubSeqProperties
<1>6. PICK c : c = a \o g
  OBVIOUS
<1>7. c \in Seq(T) /\ Len(c) = (to - 1) + Len(g)
  BY <1>4, <1>6, ConcatProperties
<1>8. \A k \in 1..(to - 1) + Len(g) : c[k] = IF k <= to - 1 THEN a[k] ELSE g[k - (to - 1)]
  BY <1>4, <1>6, ConcatProperties
<1>9. PICK m : m = c \o b
  OBVIOUS
<1>10. m = SubSeq(r, 1, to - 1) \o g \o SubSeq(r, to, Len(r))
  BY <1>2, <1>3, <1>6, <1>9
<1>18. m \in Seq(T) /\ Len(m) = Len(c) + Len(b)
  BY <1>5, <1>7, <1>9, ConcatProperties
<1>11. m \in Seq(T) /\ Len(m) = ((to - 1) + Len(g)) + (Len(r) - to + 1)
  BY <1>5, <1>7, <1>18
<1>12. \A k \in 1..((to - 1) + Len(g)) + (Len(r) - to + 1) :
          m[k] = IF k <= (to - 1) + Len(g) THEN c[k] ELSE b[k - ((to - 1) + Len(g))]
  <2>1. \A k \in 1..Len(c) + Len(b) : m[k] = IF k <= Len(c) THEN c[k] ELSE b[k - Len(c)]
    BY <1>5, <1>7, <1>9, ConcatProperties
  <2> QED BY <1>5, <1>7, <2>1
<1>13. Len(m) = Len(r) + Len(g)
  BY <1>1, <1>11
<1>14. ASSUME NEW k \in 1..to - 1 PROVE m[k] = r[k]
  <2>1. k \in 1..((to - 1) + Len(g)) + (Len(r) - to + 1) /\ k <= (to - 1) + Len(g) /\ k \in 1..(to - 1) + Len(g)
    BY <1>1
  <2>2. m[k] = c[k] /\ c[k] = a[k]
    BY <1>8, <1>12, <2>1
  <2> QED BY <1>4, <2>2
<1>15. ASSUME NEW k \in 1..Len(g) PROVE m[to - 1 + k] = g[k]
  <2>0. PICK o : o = to - 1 + k
    OBVIOUS
  <2>1. /\ o \in 1..((to - 1) + Len(g)) + (Len(r) - to + 1) /\ o <= (to - 1) + Len(g)
        /\ o \in 1..(to - 1) + Len(g) /\ ~(o <= to - 1) /\ o - (to - 1) = k
    BY <1>1, <2>0
  <2>2. m[o] = c[o] /\ c[o] = g[k]
    BY <1>8, <1>12, <2>1
  <2> QED BY <2>0, <2>2
<1>16. ASSUME NEW k \in to..Len(r) PROVE m[k + Len(g)] = r[k]
  <2>0. PICK o : o = k + Len(g)
    OBVIOUS
  <2>1. /\ o \in 1..((to - 1) + Len(g)) + (Len(r) - to + 1) /\ ~(o <= (to - 1) + Len(g))
        /\ o - ((to - 1) + Len(g)) = k - to + 1 /\ k - to + 1 \in 1..Len(r) - to + 1
        /\ to + (k - to + 1) - 1 = k
    BY <1>1, <2>0
  <2>2. m[o] = b[k - to + 1] /\ b[k - to + 1] = r[to + (k - to + 1) - 1]
    BY <1>5, <1>12, <2>1
  <2> QED BY <2>0, <2>1, <2>2
<1>17. Spliced(r, to, g, m)
  BY <1>13, <1>14, <1>15, <1>16 DEF Spliced
<1> QED BY <1>10, <1>11, <1>17

LEMMA SplicedAt ==
  ASSUME NEW T, NEW r \in Seq(T), NEW g \in Seq(T), NEW to \in 1..Len(r) + 1,
         NEW m \in Seq(T), Spliced(r, to, g, m), NEW k \in 1..Len(m)
  PROVE  /\ k < to => k \in 1..Len(r) /\ m[k] = r[k]
         /\ (to <= k /\ k < to + Len(g)) => k - (to - 1) \in 1..Len(g) /\ m[k] = g[k - (to - 1)]
         /\ to + Len(g) <= k => /\ k - Len(g) \in to..Len(r) /\ k - Len(g) \in 1..Len(r)
                                /\ m[k] = r[k - Len(g)]
         /\ k < to \/ (to <= k /\ k < to + Len(g)) \/ to + Len(g) <= k
<1>1. Len(r) \in Nat /\ Len(g) \in Nat /\ Len(m) = Len(r) + Len(g)
  BY DEF Spliced
<1>2. ASSUME k < to PROVE k \in 1..Len(r) /\ m[k] = r[k]
  <2>1. k \in 1..to - 1 /\ k \in 1..Len(r)
    BY <1>1, <1>2
  <2> QED BY <2>1 DEF Spliced
<1>3. ASSUME to <= k, k < to + Len(g) PROVE k - (to - 1) \in 1..Len(g) /\ m[k] = g[k - (to - 1)]
  <2>1. k - (to - 1) \in 1..Len(g) /\ to - 1 + (k - (to - 1)) = k
    BY <1>1, <1>3
  <2>2. m[to - 1 + (k - (to - 1))] = g[k - (to - 1)]
    BY <2>1 DEF Spliced
  <2> QED BY <2>1, <2>2
<1>4. ASSUME to + Len(g) <= k
      PROVE  k - Len(g) \in to..Len(r) /\ k - Len(g) \in 1..Len(r) /\ m[k] = r[k - Len(g)]
  <2>1. k - Len(g) \in to..Len(r) /\ k - Len(g) \in 1..Len(r) /\ (k - Len(g)) + Len(g) = k
    BY <1>1, <1>4
  <2>2. m[(k - Len(g)) + Len(g)] = r[k - Len(g)]
    BY <2>1 DEF Spliced
  <2> QED BY <2>1, <2>2
<1> QED BY <1>1, <1>2, <1>3, <1>4

LEMMA SplicedIs ==
  ASSUME NEW R, HasIds(R), NEW r \in Seq(R), NEW g \in Seq(R), NEW to \in 1..Len(r) + 1,
         NEW m \in Seq(R), Spliced(r, to, g, m)
  PROVE  /\ Range(m) = Range(r) \cup Range(g)
         /\ (OneEach(r) /\ OneEach(g) /\ \A x \in Range(r), y \in Range(g) : x.id # y.id) => OneEach(m)
<1>1. Len(r) \in Nat /\ Len(g) \in Nat /\ Len(m) = Len(r) + Len(g)
  BY DEF Spliced
<1>2. /\ \A k \in 1..Len(r) : r[k] \in Range(r)
      /\ \A k \in 1..Len(g) : g[k] \in Range(g)
      /\ \A k \in 1..Len(m) : m[k] \in Range(m)
  BY RangeIs
<1>7. ASSUME NEW k \in 1..Len(m), k < to PROVE k \in 1..Len(r) /\ m[k] = r[k]
  BY <1>7, SplicedAt
<1>8. ASSUME NEW k \in 1..Len(m), to <= k, k < to + Len(g)
      PROVE  k - (to - 1) \in 1..Len(g) /\ m[k] = g[k - (to - 1)]
  BY <1>8, SplicedAt
<1>9. ASSUME NEW k \in 1..Len(m), to + Len(g) <= k
      PROVE  k - Len(g) \in to..Len(r) /\ k - Len(g) \in 1..Len(r) /\ m[k] = r[k - Len(g)]
  BY <1>9, SplicedAt
<1>3. ASSUME NEW y \in Range(m) PROVE y \in Range(r) \cup Range(g)
  <2>1. PICK k \in 1..Len(m) : m[k] = y
    BY RangeIs
  <2>2. CASE k < to
    BY <1>2, <1>7, <2>1, <2>2
  <2>3. CASE to <= k /\ k < to + Len(g)
    BY <1>2, <1>8, <2>1, <2>3
  <2>4. CASE to + Len(g) <= k
    BY <1>2, <1>9, <2>1, <2>4
  <2> QED BY <1>1, <2>2, <2>3, <2>4
<1>4. ASSUME NEW y \in Range(r) PROVE y \in Range(m)
  <2>1. PICK k \in 1..Len(r) : r[k] = y
    BY RangeIs
  <2>2. CASE k < to
    <3>1. k \in 1..to - 1 /\ k \in 1..Len(m)
      BY <1>1, <2>2
    <3> QED BY <1>2, <2>1, <3>1 DEF Spliced
  <2>3. CASE k >= to
    <3>1. k \in to..Len(r) /\ k + Len(g) \in 1..Len(m)
      BY <1>1, <2>3
    <3>2. m[k + Len(g)] = r[k]
      BY <3>1 DEF Spliced
    <3> QED BY <1>2, <2>1, <3>1, <3>2
  <2> QED BY <2>2, <2>3
<1>5. ASSUME NEW y \in Range(g) PROVE y \in Range(m)
  <2>1. PICK k \in 1..Len(g) : g[k] = y
    BY RangeIs
  <2>2. to - 1 + k \in 1..Len(m) /\ m[to - 1 + k] = g[k]
    BY <1>1 DEF Spliced
  <2> QED BY <1>2, <2>1, <2>2
<1>6. ASSUME OneEach(r), OneEach(g), \A x \in Range(r), y \in Range(g) : x.id # y.id,
             NEW i \in 1..Len(m), NEW k \in 1..Len(m), m[i].id = m[k].id
      PROVE  i = k
  <2>1. \A o, p \in 1..Len(r) : r[o].id = r[p].id => o = p
    BY <1>6 DEF OneEach
  <2>2. \A o, p \in 1..Len(g) : g[o].id = g[p].id => o = p
    BY <1>6 DEF OneEach
  <2>3. \A o \in 1..Len(r), p \in 1..Len(g) : r[o].id # g[p].id
    BY <1>2, <1>6
  <2>4. CASE i < to
    <3>1. i \in 1..Len(r) /\ m[i] = r[i]
      BY <1>7, <2>4
    <3>2. CASE k < to
      <4>1. k \in 1..Len(r) /\ m[k] = r[k]
        BY <1>7, <3>2
      <4> QED BY <1>6, <2>1, <3>1, <4>1
    <3>3. CASE to <= k /\ k < to + Len(g)
      <4>1. k - (to - 1) \in 1..Len(g) /\ m[k] = g[k - (to - 1)]
        BY <1>8, <3>3
      <4> QED BY <1>6, <2>3, <3>1, <4>1
    <3>4. CASE to + Len(g) <= k
      <4>1. k - Len(g) \in to..Len(r) /\ k - Len(g) \in 1..Len(r) /\ m[k] = r[k - Len(g)]
        BY <1>9, <3>4
      <4>2. i = k - Len(g)
        BY <1>6, <2>1, <3>1, <4>1
      <4> QED BY <2>4, <4>1, <4>2
    <3> QED BY <1>1, <3>2, <3>3, <3>4
  <2>5. CASE to <= i /\ i < to + Len(g)
    <3>1. i - (to - 1) \in 1..Len(g) /\ m[i] = g[i - (to - 1)]
      BY <1>8, <2>5
    <3>2. CASE k < to
      <4>1. k \in 1..Len(r) /\ m[k] = r[k]
        BY <1>7, <3>2
      <4> QED BY <1>6, <2>3, <3>1, <4>1
    <3>3. CASE to <= k /\ k < to + Len(g)
      <4>1. k - (to - 1) \in 1..Len(g) /\ m[k] = g[k - (to - 1)]
        BY <1>8, <3>3
      <4>2. i - (to - 1) = k - (to - 1)
        BY <1>6, <2>2, <3>1, <4>1
      <4> QED BY <4>2
    <3>4. CASE to + Len(g) <= k
      <4>1. k - Len(g) \in 1..Len(r) /\ m[k] = r[k - Len(g)]
        BY <1>9, <3>4
      <4> QED BY <1>6, <2>3, <3>1, <4>1
    <3> QED BY <1>1, <3>2, <3>3, <3>4
  <2>6. CASE to + Len(g) <= i
    <3>1. i - Len(g) \in to..Len(r) /\ i - Len(g) \in 1..Len(r) /\ m[i] = r[i - Len(g)]
      BY <1>9, <2>6
    <3>2. CASE k < to
      <4>1. k \in 1..Len(r) /\ m[k] = r[k]
        BY <1>7, <3>2
      <4>2. i - Len(g) = k
        BY <1>6, <2>1, <3>1, <4>1
      <4> QED BY <3>1, <3>2, <4>2
    <3>3. CASE to <= k /\ k < to + Len(g)
      <4>1. k - (to - 1) \in 1..Len(g) /\ m[k] = g[k - (to - 1)]
        BY <1>8, <3>3
      <4> QED BY <1>6, <2>3, <3>1, <4>1
    <3>4. CASE to + Len(g) <= k
      <4>1. k - Len(g) \in 1..Len(r) /\ m[k] = r[k - Len(g)]
        BY <1>9, <3>4
      <4>2. i - Len(g) = k - Len(g)
        BY <1>6, <2>1, <3>1, <4>1
      <4> QED BY <1>1, <4>2
    <3> QED BY <1>1, <3>2, <3>3, <3>4
  <2> QED BY <1>1, <2>4, <2>5, <2>6
<1> QED BY <1>3, <1>4, <1>5, <1>6 DEF OneEach

Apart(r, g) == \A x \in Range(r), y \in Range(g) :
  /\ x.id # y.id
  /\ x.parent # Top => x.parent # y.id
  /\ y.parent # Top => y.parent # x.id
NothingOver(r, to) == \A i, k \in 1..Len(r) :
  (i < to /\ to <= k /\ r[k].parent # Top) => r[k].parent # r[i].id

\* Moving a whole group keeps every worktree behind its parent.
LEMMA SplicedGroups ==
  ASSUME NEW n \in Nat, NEW kin, NEW r, IsProjects(r, kin, n), Grouped(r),
         NEW g, IsProjects(g, kin, n), Grouped(g), Apart(r, g),
         NEW to \in 1..Len(r) + 1, NothingOver(r, to), NEW m \in Seq(PRow), Spliced(r, to, g, m)
  PROVE  IsProjects(m, kin, n) /\ Grouped(m) /\ Range(m) = Range(r) \cup Range(g)
<1>0. r \in Seq(PRow) /\ OneEach(r) /\ g \in Seq(PRow) /\ OneEach(g)
  BY RowAt
<1>1. Len(r) \in Nat /\ Len(g) \in Nat /\ Len(m) = Len(r) + Len(g)
  BY <1>0 DEF Spliced
<1>2. /\ \A k \in 1..Len(r) : r[k] \in Range(r)
      /\ \A k \in 1..Len(g) : g[k] \in Range(g)
  BY <1>0, RangeIs
<1>3. Range(m) = Range(r) \cup Range(g) /\ OneEach(m)
  <2>1. \A x \in Range(r), y \in Range(g) : x.id # y.id
    BY DEF Apart
  <2> QED BY <1>0, <2>1, RowsHaveIds, SplicedIs
<1>4. IsProjects(m, kin, n)
  BY <1>3 DEF IsProjects
<1>5. ASSUME NEW k \in 1..Len(m), k < to PROVE k \in 1..Len(r) /\ m[k] = r[k]
  BY <1>0, <1>5, SplicedAt
<1>6. ASSUME NEW k \in 1..Len(m), to <= k, k < to + Len(g)
      PROVE  k - (to - 1) \in 1..Len(g) /\ m[k] = g[k - (to - 1)]
  BY <1>0, <1>6, SplicedAt
<1>7. ASSUME NEW k \in 1..Len(m), to + Len(g) <= k
      PROVE  k - Len(g) \in to..Len(r) /\ k - Len(g) \in 1..Len(r) /\ m[k] = r[k - Len(g)]
  BY <1>0, <1>7, SplicedAt
<1>8. ASSUME NEW i \in 1..Len(m), NEW k \in 1..Len(m), m[k].parent # Top, m[k].parent = m[i].id
      PROVE  i < k /\ \A o \in i + 1..k : m[o].parent = m[i].id
  <2>1. CASE k < to /\ i < to
    <3>1. i < k /\ \A o \in i + 1..k : r[o].parent = r[i].id
      BY <1>5, <1>8, <2>1 DEF Grouped
    <3>2. \A o \in i + 1..k : o \in 1..Len(m) /\ o < to
      BY <1>1, <2>1
    <3> QED BY <1>5, <2>1, <3>1, <3>2
  <2>2. CASE k < to /\ to <= i /\ i < to + Len(g)
    <3>1. m[k] \in Range(r) /\ m[i] \in Range(g)
      BY <1>2, <1>5, <1>6, <2>2
    <3> QED BY <1>8, <3>1 DEF Apart
  <2>3. CASE k < to /\ to + Len(g) <= i
    <3>1. i - Len(g) < k
      BY <1>5, <1>7, <1>8, <2>3 DEF Grouped
    <3>2. to <= i - Len(g)
      BY <1>7, <2>3
    <3> QED BY <1>1, <2>3, <3>1, <3>2
  <2>4. CASE to <= k /\ k < to + Len(g) /\ to <= i /\ i < to + Len(g)
    <3>1. i - (to - 1) < k - (to - 1) /\ \A o \in (i - (to - 1)) + 1..k - (to - 1) : g[o].parent = g[i - (to - 1)].id
      BY <1>6, <1>8, <2>4 DEF Grouped
    <3>2. ASSUME NEW o \in i + 1..k PROVE m[o].parent = m[i].id
      <4>1. o \in 1..Len(m) /\ to <= o /\ o < to + Len(g) /\ o - (to - 1) \in (i - (to - 1)) + 1..k - (to - 1)
        BY <1>1, <2>4
      <4> QED BY <1>6, <2>4, <3>1, <4>1
    <3> QED BY <3>1, <3>2
  <2>5. CASE to <= k /\ k < to + Len(g) /\ ~(to <= i /\ i < to + Len(g))
    <3>1. m[k] \in Range(g)
      BY <1>2, <1>6, <2>5
    <3>2. m[i] \in Range(r)
      <4>1. CASE i < to
        BY <1>2, <1>5, <4>1
      <4>2. CASE to + Len(g) <= i
        BY <1>2, <1>7, <4>2
      <4> QED BY <1>1, <2>5, <4>1, <4>2
    <3> QED BY <1>8, <3>1, <3>2 DEF Apart
  <2>6. CASE to + Len(g) <= k /\ i < to
    <3>1. k - Len(g) \in 1..Len(r) /\ to <= k - Len(g) /\ m[k] = r[k - Len(g)] /\ i \in 1..Len(r) /\ m[i] = r[i]
      BY <1>5, <1>7, <2>6
    <3> QED BY <1>8, <2>6, <3>1 DEF NothingOver
  <2>7. CASE to + Len(g) <= k /\ to <= i /\ i < to + Len(g)
    <3>1. m[k] \in Range(r) /\ m[i] \in Range(g)
      BY <1>2, <1>6, <1>7, <2>7
    <3> QED BY <1>8, <3>1 DEF Apart
  <2>8. CASE to + Len(g) <= k /\ to + Len(g) <= i
    <3>1. i - Len(g) < k - Len(g) /\ \A o \in (i - Len(g)) + 1..k - Len(g) : r[o].parent = r[i - Len(g)].id
      BY <1>7, <1>8, <2>8 DEF Grouped
    <3>2. ASSUME NEW o \in i + 1..k PROVE m[o].parent = m[i].id
      <4>1. o \in 1..Len(m) /\ to + Len(g) <= o /\ o - Len(g) \in (i - Len(g)) + 1..k - Len(g)
        BY <1>1, <2>8
      <4> QED BY <1>7, <2>8, <3>1, <4>1
    <3> QED BY <1>1, <3>1, <3>2
  <2> QED BY <1>1, <2>1, <2>2, <2>3, <2>4, <2>5, <2>6, <2>7, <2>8
<1> QED BY <1>3, <1>4, <1>8 DEF Grouped

-----------------------------------------------------------------------------
\* Dragging a project loses no row, doubles none, and leaves every worktree
\* directly behind its parent, wherever the project is dropped
\* (moveProjectGroup, worktree.js).
THEOREM GroupsMoveWhole ==
  ASSUME NEW n \in Nat, NEW kin, IsKin(kin, n), NEW list, IsProjects(list, kin, n), Grouped(list),
         NEW src, Known(list, src), NEW dst, Known(list, dst), NEW before \in BOOLEAN,
         NEW m, m = MoveGroup(list, src, dst, before)
  PROVE  /\ m \in Seq(PRow) /\ Range(m) = Range(list)
         /\ IsProjects(m, kin, n) /\ Grouped(m)
<1>0. /\ list \in Seq(PRow) /\ OneEach(list) /\ Len(list) \in Nat /\ DOMAIN list = 1..Len(list)
      /\ \A i \in 1..Len(list) : list[i] \in Range(list)
  BY RowAt
<1>1. CASE src = dst \/ list[At(list, src)].parent # Top \/ list[At(list, dst)].parent # Top
  <2>1. m = list
    BY <1>1 DEF MoveGroup
  <2> QED BY <1>0, <2>1
<1>2. CASE ~(src = dst \/ list[At(list, src)].parent # Top \/ list[At(list, dst)].parent # Top)
  <2>1. PICK moves : moves = {x \in Range(list) : x.id = src \/ x.parent = src}
    OBVIOUS
  <2>2. PICK g : g = Only(list, moves)
    OBVIOUS
  <2>3. PICK r : r = Only(list, Range(list) \ moves)
    OBVIOUS
  <2>4. PICK to : to = IF before THEN At(r, dst) ELSE BehindChildren(r, At(r, dst), dst)
    OBVIOUS
  <2>5. m = SubSeq(r, 1, to - 1) \o g \o SubSeq(r, to, Len(r))
    BY <1>2, <2>1, <2>2, <2>3, <2>4 DEF MoveGroup
  <2>6. IsProjects(g, kin, n) /\ Grouped(g) /\ Range(g) = Range(list) \cap moves
    BY <2>2, OnlyGroups
  <2>7. IsProjects(r, kin, n) /\ Grouped(r) /\ Range(r) = Range(list) \cap (Range(list) \ moves)
    BY <2>3, OnlyGroups
  <2>8. g \in Seq(PRow) /\ r \in Seq(PRow) /\ Len(r) \in Nat /\ OneEach(r) /\ \A i \in 1..Len(r) : r[i] \in Range(r)
    BY <2>6, <2>7, RowAt
  <2>9. PICK x \in Range(list) : x.id = src /\ x.parent = Top
    <3>1. At(list, src) \in 1..Len(list) /\ list[At(list, src)].id = src
      BY <1>0 DEF At, Known
    <3> QED BY <1>0, <1>2, <3>1
  <2>10. PICK y \in Range(list) : y.id = dst /\ y.parent = Top
    <3>1. At(list, dst) \in 1..Len(list) /\ list[At(list, dst)].id = dst
      BY <1>0 DEF At, Known
    <3> QED BY <1>0, <1>2, <3>1
  <2>11. src \in 1..n /\ dst \in 1..n /\ src # Top /\ dst # Top /\ src # dst
    BY <1>2, <2>9, <2>10, KinOf DEF Top
  <2>12. y \in Range(r)
    BY <2>1, <2>7, <2>10, <2>11
  <2>13. PICK a : a = At(r, dst)
    OBVIOUS
  <2>14. a \in 1..Len(r) /\ r[a].id = dst
    BY <2>8, <2>10, <2>12, <2>13, AtIs
  <2>15. r[a].parent = Top
    <3>1. r[a] = y
      BY <1>0, <2>7, <2>8, <2>10, <2>14, RowOfId
    <3> QED BY <2>10, <3>1
  <2>16. Apart(r, g)
    <3>1. ASSUME NEW u \in Range(r), NEW v \in Range(g)
          PROVE  /\ u.id # v.id
                 /\ u.parent # Top => u.parent # v.id
                 /\ v.parent # Top => v.parent # u.id
      <4>1. /\ u \in Range(list) /\ u.id # src /\ u.parent # src
            /\ v \in Range(list) /\ (v.id = src \/ v.parent = src)
        BY <2>1, <2>6, <2>7
      <4>2. u.id # v.id
        <5> SUFFICES ASSUME u.id = v.id PROVE FALSE
          OBVIOUS
        <5>1. u = v
          BY <1>0, <4>1, RowOfId
        <5> QED BY <4>1, <5>1
      <4>3. v.id # src => v.parent = src
        BY <4>1
      <4>4. v.id = src => v.parent = Top
        <5>1. v.id = src => v = x
          BY <1>0, <2>9, <4>1, RowOfId
        <5> QED BY <2>9, <5>1
      <4>5. v.parent # Top => v.parent # u.id
        BY <4>1, <4>3, <4>4
      <4>6. u.parent # Top => u.parent # v.id
        <5> SUFFICES ASSUME u.parent # Top, u.parent = v.id PROVE FALSE
          OBVIOUS
        <5>1. kin[v.id] = Top /\ v.parent = kin[v.id]
          BY <4>1, KinOf
        <5> QED BY <2>11, <4>1, <5>1
      <4> QED BY <4>2, <4>5, <4>6
    <3> QED BY <3>1 DEF Apart
  <2>17. to \in 1..Len(r) + 1 /\ (to = a \/ EndsAt(r, a, dst, to))
    <3>1. CASE before
      BY <2>4, <2>8, <2>13, <2>14, <3>1
    <3>2. CASE ~before
      <4>1. to = BehindChildren(r, a, dst)
        BY <2>4, <2>13, <3>2
      <4>2. EndsAt(r, a, dst, to)
        BY <2>8, <2>14, <4>1, BehindIs
      <4>3. to \in a + 1..Len(r) + 1
        BY <4>2 DEF EndsAt
      <4> QED BY <2>8, <2>14, <4>2, <4>3
    <3> QED BY <3>1, <3>2
  <2>18. NothingOver(r, to)
    <3> SUFFICES ASSUME NEW i \in 1..Len(r), NEW k \in 1..Len(r), i < to, to <= k,
                        r[k].parent # Top, r[k].parent = r[i].id
                 PROVE  FALSE
      BY DEF NothingOver
    <3>1. \A o \in i + 1..k : r[o].parent = r[i].id
      BY <2>7 DEF Grouped
    <3>2. to \in i + 1..k /\ to \in 1..Len(r)
      BY <2>8, <2>17
    <3>3. r[to].parent = r[i].id /\ r[i].id # Top
      BY <3>1, <3>2
    <3>4. to # a
      BY <2>15, <3>3
    <3>5. EndsAt(r, a, dst, to)
      BY <2>17, <3>4
    <3>6. r[to].parent # dst /\ to \in a + 1..Len(r) + 1 /\ \A o \in a + 1..to - 1 : r[o].parent = dst
      BY <2>8, <3>2, <3>5 DEF EndsAt
    <3>7. i # a
      BY <2>14, <3>3, <3>6
    <3>8. CASE i < a
      <4>1. a \in i + 1..k
        <5>1. a < to
          BY <2>8, <2>14, <3>6
        <5> QED BY <2>8, <2>14, <3>2, <3>8, <5>1
      <4> QED BY <2>15, <3>1, <3>3, <4>1
    <3>9. CASE a < i
      <4>1. i \in a + 1..to - 1
        BY <2>8, <2>14, <2>17, <3>9
      <4>2. r[i].parent = dst
        BY <3>6, <4>1
      <4>3. r[i].parent = kin[r[i].id]
        BY <2>7, <2>8, KinOf
      <4>4. kin[r[to].parent] = Top
        BY <2>7, <2>8, <3>2, <3>3, KinOf
      <4> QED BY <2>11, <3>3, <4>2, <4>3, <4>4
    <3> QED BY <2>8, <2>14, <3>7, <3>8, <3>9
  <2>19. m \in Seq(PRow) /\ Spliced(r, to, g, m)
    BY <2>5, <2>8, <2>17, SpliceIs
  <2>20. IsProjects(m, kin, n) /\ Grouped(m) /\ Range(m) = Range(r) \cup Range(g)
    BY <2>6, <2>7, <2>16, <2>17, <2>18, <2>19, SplicedGroups
  <2>21. Range(r) \cup Range(g) = Range(list)
    BY <2>1, <2>6, <2>7
  <2> QED BY <2>19, <2>20, <2>21
<1> QED BY <1>1, <1>2

\* The sidebar's order, written out for the first n positions.
Side(list, m, x) ==
  IF IsChild(list, x) THEN m ELSE m \o <<x>> \o Only(list, ChildrenOf(list, x))
SidesTo(f, list, n) ==
  f = [i \in 0..n |-> IF i = 0 THEN << >> ELSE Side(list, f[i - 1], list[i])]

\* The function that SidebarOrder makes.
LEMMA SidesExist ==
  ASSUME NEW list, NEW n \in Nat
  PROVE  \E f : SidesTo(f, list, n)
<1> DEFINE P == {k \in Nat : \E f : SidesTo(f, list, k)}
<1>1. 0 \in P
  <2> DEFINE g == [i \in 0..0 |-> << >>]
  <2>1. g = [i \in 0..0 |-> IF i = 0 THEN << >> ELSE Side(list, g[i - 1], list[i])]
    OBVIOUS
  <2> HIDE DEF g
  <2>2. SidesTo(g, list, 0)
    BY <2>1 DEF SidesTo
  <2> QED BY <2>2
<1>2. ASSUME NEW k \in Nat, k \in P PROVE k + 1 \in P
  <2>1. PICK f : SidesTo(f, list, k)
    BY <1>2
  <2> DEFINE new == Side(list, f[k], list[k + 1])
             g == [i \in 0..(k + 1) |-> IF i = k + 1 THEN new ELSE f[i]]
  <2> HIDE DEF new
  <2>2. ASSUME NEW i \in 0..(k + 1)
        PROVE  g[i] = IF i = 0 THEN << >> ELSE Side(list, g[i - 1], list[i])
    <3>1. CASE i = k + 1
      <4>1. i # 0 /\ i - 1 = k /\ g[i] = new /\ g[k] = f[k]
        BY <3>1
      <4> HIDE DEF g
      <4> QED BY <3>1, <4>1 DEF new
    <3>2. CASE i # k + 1
      <4>1. i \in 0..k /\ g[i] = f[i]
        BY <3>2
      <4>2. i # 0 => i - 1 \in 0..(k + 1) /\ i - 1 # k + 1 /\ g[i - 1] = f[i - 1]
        BY <4>1
      <4>3. f[i] = IF i = 0 THEN << >> ELSE Side(list, f[i - 1], list[i])
        BY <2>1, <4>1 DEF SidesTo
      <4> HIDE DEF g
      <4> QED BY <4>1, <4>2, <4>3
    <3> QED BY <3>1, <3>2
  <2>3. g = [i \in 0..(k + 1) |-> g[i]]
    OBVIOUS
  <2> HIDE DEF g
  <2>4. SidesTo(g, list, k + 1)
    BY <2>2, <2>3 DEF SidesTo
  <2> QED BY <2>4
<1> HIDE DEF P
<1>3. n \in P
  BY <1>1, <1>2, Induction
<1> QED BY <1>3 DEF P

\* Where the worktrees of a project are, when every group is together.
LEMMA ChildrenAre ==
  ASSUME NEW n \in Nat, NEW kin, IsKin(kin, n), NEW list, IsProjects(list, kin, n), Grouped(list),
         NEW i \in 1..Len(list), NEW j, EndsAt(list, i, list[i].id, j), NEW k \in 1..Len(list)
  PROVE  list[k] \in ChildrenOf(list, list[i]) <=> k \in i + 1..j - 1
<1>0. /\ list \in Seq(PRow) /\ Len(list) \in Nat /\ DOMAIN list = 1..Len(list)
      /\ \A o \in 1..Len(list) : list[o] \in Range(list)
  BY RowAt
<1>1. list[i].id # Top /\ Known(list, list[i].id)
  <2>1. list[i].id \in 1..n
    BY <1>0, KinOf
  <2> QED BY <1>0, <2>1 DEF Known, Top
<1>2. list[k] \in ChildrenOf(list, list[i]) <=> list[k].parent = list[i].id
  BY <1>0, <1>1 DEF ChildrenOf, IsChild
<1>3. k \in i + 1..j - 1 => list[k].parent = list[i].id
  BY DEF EndsAt
<1>4. ASSUME list[k].parent = list[i].id PROVE k \in i + 1..j - 1
  <2>1. i < k /\ \A o \in i + 1..k : list[o].parent = list[i].id
    BY <1>1, <1>4 DEF Grouped
  <2>2. j \in i + 1..Len(list) + 1 /\ (j = Len(list) + 1 \/ list[j].parent # list[i].id)
    BY DEF EndsAt
  <2>3. j \notin i + 1..k
    <3>1. j \in i + 1..k => j # Len(list) + 1
      BY <1>0
    <3> QED BY <2>1, <2>2, <3>1
  <2> QED BY <1>0, <2>1, <2>2, <2>3
<1> QED BY <1>2, <1>3, <1>4

\* A filter that keeps a run of positions gives that run.
Places(m, s) ==
  \A p, q \in 1..Len(m) : p < q => \E k, o \in 1..Len(s) : k < o /\ m[p] = s[k] /\ m[q] = s[o]

LEMMA OnlyPlaces ==
  ASSUME NEW T, NEW s \in Seq(T), NEW S, NEW m, m = Only(s, S)
  PROVE  Places(m, s)
<1>1. \A p, q \in 1..Len(m) : p < q => \E k, o \in 1..Len(s) : k < o /\ m[p] = s[k] /\ m[q] = s[o]
  BY OrderOfOnly
<1> QED BY <1>1 DEF Places

KeepsRun(s, S, lo, hi) == \A k \in 1..Len(s) : s[k] \in S <=> (lo < k /\ k <= hi)

\* Picking a run of neighbours gives that run.
LEMMA OnlyRun ==
  ASSUME NEW R, HasIds(R), NEW s \in Seq(R), OneEach(s), NEW S, NEW lo \in Nat, NEW hi \in lo..Len(s),
         KeepsRun(s, S, lo, hi), NEW c, c = Only(s, S)
  PROVE  /\ c \in Seq(R) /\ Len(c) = hi - lo
         /\ \A k \in 1..hi - lo : c[k] = s[lo + k]
<1>0. Len(s) \in Nat /\ \A o \in 1..Len(s) : s[o] \in Range(s) /\ s[o] \in R
  BY RangeIs
<1>3. c \in Seq(R) /\ OneEach(c) /\ Range(c) = Range(s) \cap S
  BY OnlyKeeps
<1>2. PICK m : m = Only(s, S)
  OBVIOUS
<1>13. Places(m, s)
  BY ONLY s \in Seq(R), <1>2, OnlyPlaces
<1>14. \A p, q \in 1..Len(c) : p < q => \E k, o \in 1..Len(s) : k < o /\ c[p] = s[k] /\ c[q] = s[o]
  <2>1. c = m
    BY <1>2
  <2> QED BY <1>13, <2>1 DEF Places
<1>4. \A k \in 1..Len(s) : s[k] \in S <=> (lo < k /\ k <= hi)
  BY DEF KeepsRun
<1>5. PICK d : d = SubSeq(s, lo + 1, hi)
  OBVIOUS
<1>6. d \in Seq(R) /\ Len(d) = hi - lo /\ \A k \in 1..hi - lo : d[k] = s[lo + k]
  <2>1. \A k \in (lo + 1)..hi : s[k] \in R
    BY <1>0
  <2>2. lo + 1 \in Int /\ hi \in Int
    OBVIOUS
  <2>3. /\ d \in Seq(R)
        /\ Len(d) = IF lo + 1 <= hi THEN hi - (lo + 1) + 1 ELSE 0
        /\ \A k \in 1..hi - (lo + 1) + 1 : d[k] = s[(lo + 1) + k - 1]
    BY <1>5, <2>1, <2>2, SubSeqProperties
  <2>4. hi - (lo + 1) + 1 = hi - lo /\ (~(lo + 1 <= hi) => hi - lo = 0)
    OBVIOUS
  <2>5. \A k \in 1..hi - lo : (lo + 1) + k - 1 = lo + k
    OBVIOUS
  <2> QED BY <2>3, <2>4, <2>5
<1>7. \A k \in 1..Len(d) : lo + k \in 1..Len(s) /\ lo < lo + k /\ lo + k <= hi /\ d[k] = s[lo + k]
  BY <1>0, <1>6
<1>8. \A k \in 1..Len(s) : (lo < k /\ k <= hi) => k - lo \in 1..Len(d) /\ d[k - lo] = s[k]
  <2>1. \A k \in 1..Len(s) : (lo < k /\ k <= hi) => k - lo \in 1..Len(d) /\ lo + (k - lo) = k
    BY <1>0, <1>6
  <2> QED BY <1>7, <2>1
<1>9. OneEach(d)
  <2>1. ASSUME NEW a \in 1..Len(d), NEW b \in 1..Len(d), d[a].id = d[b].id PROVE a = b
    <3>1. lo + a = lo + b
      BY <1>7, <2>1 DEF OneEach
    <3> QED BY <1>6, <3>1
  <2> QED BY <2>1 DEF OneEach
<1>10. Range(c) = Range(d)
  <2>1. ASSUME NEW y \in Range(d) PROVE y \in Range(c)
    <3>1. PICK k \in 1..Len(d) : d[k] = y
      BY <1>6, RangeIs
    <3> QED BY <1>0, <1>3, <1>4, <1>7, <3>1
  <2>2. ASSUME NEW y \in Range(c) PROVE y \in Range(d)
    <3>1. PICK k \in 1..Len(s) : s[k] = y
      BY <1>3, RangeIs
    <3>2. k - lo \in 1..Len(d) /\ d[k - lo] = y
      BY <1>3, <1>4, <1>8, <3>1
    <3> QED BY <1>6, <3>2, RangeIs
  <2> QED BY <2>1, <2>2
<1>11. ASSUME NEW a, NEW b, Before(Ids(c), a, b) PROVE Before(Ids(d), a, b)
  <2>1. PICK p, q \in 1..Len(c) : p < q /\ c[p].id = a /\ c[q].id = b
    BY <1>3, <1>11, BeforeRows
  <2>2. PICK u, v \in 1..Len(s) : u < v /\ c[p] = s[u] /\ c[q] = s[v]
    BY <1>14, <2>1
  <2>3. s[u] \in S /\ s[v] \in S
    BY <1>3, <2>1, <2>2, RangeIs
  <2>4. u - lo \in 1..Len(d) /\ d[u - lo] = s[u] /\ v - lo \in 1..Len(d) /\ d[v - lo] = s[v] /\ u - lo < v - lo
    BY <1>4, <1>8, <2>2, <2>3
  <2>5. \E y, z \in 1..Len(d) : y < z /\ d[y].id = a /\ d[z].id = b
    BY <2>1, <2>2, <2>4
  <2> QED BY <1>6, <2>5, BeforeRows
<1>12. c = d
  BY <1>3, <1>6, <1>9, <1>10, <1>11, SameRows
<1> QED BY <1>6, <1>12

GroupOf(list, x, c) == c = Only(list, ChildrenOf(list, x))

\* A project's worktrees are the rows behind it.
LEMMA GroupIs ==
  ASSUME NEW n \in Nat, NEW kin, IsKin(kin, n), NEW list, IsProjects(list, kin, n), Grouped(list),
         NEW i \in 1..Len(list), NEW j, EndsAt(list, i, list[i].id, j),
         NEW c, GroupOf(list, list[i], c)
  PROVE  /\ c \in Seq(PRow) /\ Len(c) = j - 1 - i
         /\ \A k \in 1..j - 1 - i : c[k] = list[i + k]
<1>0. list \in Seq(PRow) /\ OneEach(list) /\ Len(list) \in Nat
  BY RowAt
<1>1. j \in i + 1..Len(list) + 1
  BY DEF EndsAt
<1>2. PICK S : S = ChildrenOf(list, list[i])
  OBVIOUS
<1>3. PICK hi : hi = j - 1
  OBVIOUS
<1>4. hi \in i..Len(list) /\ i \in Nat
  BY <1>0, <1>1, <1>3
<1>5. KeepsRun(list, S, i, hi)
  <2>1. ASSUME NEW k \in 1..Len(list) PROVE list[k] \in S <=> (i < k /\ k <= hi)
    <3>1. list[k] \in S <=> k \in i + 1..j - 1
      BY <1>2, ChildrenAre
    <3> QED BY <1>3, <1>4, <3>1
  <2> QED BY <2>1 DEF KeepsRun
<1>6. c = Only(list, S)
  BY <1>2 DEF GroupOf
<1>7. /\ c \in Seq(PRow) /\ Len(c) = hi - i
      /\ \A k \in 1..hi - i : c[k] = list[i + k]
  BY <1>0, <1>4, <1>5, <1>6, RowsHaveIds, OnlyRun
<1> QED BY <1>3, <1>7

\* What stands behind a group is no worktree of a listed project.
LEMMA BehindGroup ==
  ASSUME NEW n \in Nat, NEW kin, IsKin(kin, n), NEW list, IsProjects(list, kin, n), Grouped(list),
         NEW i \in 1..Len(list), ~IsChild(list, list[i]), NEW j, EndsAt(list, i, list[i].id, j), j <= Len(list)
  PROVE  ~IsChild(list, list[j])
<1>0. /\ list \in Seq(PRow) /\ Len(list) \in Nat /\ DOMAIN list = 1..Len(list)
      /\ \A o \in 1..Len(list) : list[o] \in Range(list)
  BY RowAt
<1> SUFFICES ASSUME IsChild(list, list[j]) PROVE FALSE
  OBVIOUS
<1>1. j \in i + 1..Len(list) /\ j \in 1..Len(list) /\ list[j].parent # list[i].id
  BY <1>0 DEF EndsAt
<1>2. PICK a \in 1..Len(list) : list[a].id = list[j].parent /\ list[j].parent # Top
  BY <1>0 DEF IsChild, Known
<1>3. a < j /\ \A o \in a + 1..j : list[o].parent = list[a].id
  BY <1>1, <1>2 DEF Grouped
<1>4. a # i
  BY <1>1, <1>2
<1>5. CASE a < i
  <2>1. i \in a + 1..j
    BY <1>1, <1>5
  <2>2. list[i].parent = list[a].id
    BY <1>3, <2>1
  <2> QED BY <1>0, <1>2, <2>2 DEF IsChild, Known
<1>6. CASE i < a
  <2>1. a \in i + 1..j - 1
    BY <1>1, <1>3, <1>6
  <2>2. list[a].parent = list[i].id
    BY <2>1 DEF EndsAt
  <2>3. list[i].id \in 1..n /\ list[a].parent = kin[list[a].id] /\ kin[list[j].parent] = Top
    BY <1>0, <1>1, <1>2, KinOf
  <2> QED BY <1>2, <2>2, <2>3 DEF Top
<1> QED BY <1>4, <1>5, <1>6

\* m is what the sidebar shows of the first i projects: the list up to the end
\* of the last group.
Sided(list, m, i) ==
  /\ Len(m) \in i..Len(list)
  /\ \A k \in 1..Len(m) : m[k] = list[k]
  /\ \A k \in i + 1..Len(m) : IsChild(list, list[k])
  /\ Len(m) < Len(list) => ~IsChild(list, list[Len(m) + 1])

\* The sidebar, one project further.
LEMMA SideNext ==
  ASSUME NEW n \in Nat, NEW kin, IsKin(kin, n), NEW list, IsProjects(list, kin, n), Grouped(list),
         NEW i \in Nat, i + 1 \in 1..Len(list), NEW m \in Seq(PRow), Sided(list, m, i)
  PROVE  /\ Side(list, m, list[i + 1]) \in Seq(PRow)
         /\ Sided(list, Side(list, m, list[i + 1]), i + 1)
<1>0. /\ list \in Seq(PRow) /\ Len(list) \in Nat /\ DOMAIN list = 1..Len(list)
      /\ \A o \in 1..Len(list) : list[o] \in PRow
  BY RowAt
<1>1. Len(m) \in i..Len(list) /\ Len(m) \in Nat
  BY DEF Sided
<1>2. CASE IsChild(list, list[i + 1])
  <2>1. Side(list, m, list[i + 1]) = m
    BY <1>2 DEF Side
  <2>2. Len(m) # i
    BY <1>0, <1>1, <1>2 DEF Sided
  <2>3. Len(m) \in i + 1..Len(list) /\ \A k \in (i + 1) + 1..Len(m) : k \in i + 1..Len(m)
    BY <1>1, <2>2
  <2> QED BY <2>1, <2>3 DEF Sided
<1>3. CASE ~IsChild(list, list[i + 1])
  <2>1. Len(m) = i
    <3>1. i + 1 \notin i + 1..Len(m)
      BY <1>3 DEF Sided
    <3> QED BY <1>1, <3>1
  <2>2. PICK x : x = list[i + 1]
    OBVIOUS
  <2>3. PICK j : EndsAt(list, i + 1, x.id, j)
    BY <1>0, BehindIs
  <2>4. j \in (i + 1) + 1..Len(list) + 1 /\ j - 1 - (i + 1) \in Nat
    BY <1>0, <2>3 DEF EndsAt
  <2>5. PICK c : c = Only(list, ChildrenOf(list, x))
    OBVIOUS
  <2>6. /\ c \in Seq(PRow) /\ Len(c) = j - 1 - (i + 1)
        /\ \A k \in 1..j - 1 - (i + 1) : c[k] = list[(i + 1) + k]
    <3>1. EndsAt(list, i + 1, list[i + 1].id, j) /\ GroupOf(list, list[i + 1], c)
      BY <2>2, <2>3, <2>5 DEF GroupOf
    <3>2. i + 1 \in 1..Len(list)
      OBVIOUS
    <3>3. PICK o : o = i + 1
      OBVIOUS
    <3>4. o \in 1..Len(list) /\ EndsAt(list, o, list[o].id, j) /\ GroupOf(list, list[o], c)
      BY <3>1, <3>2, <3>3
    <3>5. c \in Seq(PRow) /\ Len(c) = j - 1 - o /\ \A k \in 1..j - 1 - o : c[k] = list[o + k]
      BY <3>4, GroupIs
    <3> QED BY <3>3, <3>5
  <2>7. PICK a : a = Append(m, x)
    OBVIOUS
  <2>8. /\ a \in Seq(PRow) /\ Len(a) = i + 1
        /\ \A k \in 1..i + 1 : a[k] = list[k]
    <3>1. x \in PRow
      BY <1>0, <2>2
    <3>2. a \in Seq(PRow) /\ Longer(m, x, a)
      BY <2>7, <3>1, AppendLonger
    <3>3. \A k \in 1..i + 1 : k \in 1..i \/ k = i + 1
      OBVIOUS
    <3> QED BY <2>1, <2>2, <3>2, <3>3 DEF Longer, Sided
  <2>9. PICK w : w = a \o c
    OBVIOUS
  <2>10. w = Side(list, m, x)
    <3>1. x \in PRow
      BY <1>0, <2>2
    <3>2. a = m \o <<x>>
      BY <2>7, <3>1, AppendIsConcat
    <3> QED BY <1>3, <2>2, <2>5, <2>9, <3>2 DEF Side
  <2>18. w \in Seq(PRow) /\ Len(w) = Len(a) + Len(c)
    BY <2>6, <2>8, <2>9, ConcatProperties
  <2>11. w \in Seq(PRow) /\ Len(w) = (i + 1) + (j - 1 - (i + 1))
    BY <2>6, <2>8, <2>18
  <2>12. \A k \in 1..(i + 1) + (j - 1 - (i + 1)) : w[k] = IF k <= i + 1 THEN a[k] ELSE c[k - (i + 1)]
    BY <2>6, <2>8, <2>9, ConcatProperties
  <2>13. Len(w) = j - 1 /\ j - 1 \in i + 1..Len(list)
    BY <2>4, <2>11
  <2>14. ASSUME NEW k \in 1..j - 1 PROVE w[k] = list[k]
    <3>1. k \in 1..(i + 1) + (j - 1 - (i + 1))
      BY <2>4
    <3>2. CASE k <= i + 1
      BY <2>8, <2>12, <3>1, <3>2
    <3>3. CASE k > i + 1
      <4>1. k - (i + 1) \in 1..j - 1 - (i + 1) /\ (i + 1) + (k - (i + 1)) = k
        BY <2>4, <3>3
      <4>2. w[k] = c[k - (i + 1)] /\ c[k - (i + 1)] = list[(i + 1) + (k - (i + 1))]
        BY <2>6, <2>12, <3>1, <3>3, <4>1
      <4> QED BY <4>1, <4>2
    <3> QED BY <3>2, <3>3
  <2>15. ASSUME NEW k \in (i + 1) + 1..j - 1 PROVE IsChild(list, list[k])
    <3>1. k \in 1..Len(list)
      BY <1>0, <2>4
    <3>2. list[k] \in ChildrenOf(list, x)
      BY <2>2, <2>3, <3>1, ChildrenAre
    <3> QED BY <3>2 DEF ChildrenOf
  <2>16. j - 1 < Len(list) => ~IsChild(list, list[(j - 1) + 1])
    <3>1. (j - 1) + 1 = j /\ (j - 1 < Len(list) => j <= Len(list))
      BY <1>0, <2>4
    <3> QED BY <1>3, <2>2, <2>3, <3>1, BehindGroup
  <2>17. Sided(list, w, i + 1)
    BY <2>13, <2>14, <2>15, <2>16 DEF Sided
  <2> QED BY <2>2, <2>10, <2>11, <2>17
<1> QED BY <1>2, <1>3

\* The sidebar lists each project with its worktrees behind it; of a list whose
\* worktrees already stand there it shows the list itself, also when the parent
\* of some is gone (orderProjectsWithWorktrees, worktree.js).
THEOREM SidebarShowsTheOrder ==
  ASSUME NEW n \in Nat, NEW kin, IsKin(kin, n), NEW list, IsProjects(list, kin, n), Grouped(list)
  PROVE  SidebarOrder(list) = list
<1>0. /\ list \in Seq(PRow) /\ Len(list) \in Nat /\ DOMAIN list = 1..Len(list)
      /\ \A o \in 1..Len(list) : list[o] \in Range(list)
  BY RowAt
<1> DEFINE f == CHOOSE g : SidesTo(g, list, Len(list))
<1>1. SidesTo(f, list, Len(list))
  BY <1>0, SidesExist
<1>2. SidebarOrder(list) = f[Len(list)]
  BY DEF SidebarOrder, SidesTo, Side
<1> HIDE DEF f
<1>3. \A i \in 0..Len(list) : f[i] = IF i = 0 THEN << >> ELSE Side(list, f[i - 1], list[i])
  BY <1>1 DEF SidesTo
<1> DEFINE P == {i \in Nat : i <= Len(list) => f[i] \in Seq(PRow) /\ Sided(list, f[i], i)}
<1>4. 0 \in P
  <2>1. f[0] = << >>
    BY <1>0, <1>3
  <2>2. Len(<< >>) = 0 /\ << >> \in Seq(PRow)
    OBVIOUS
  <2>3. 0 < Len(list) => ~IsChild(list, list[0 + 1])
    <3> SUFFICES ASSUME 0 < Len(list), IsChild(list, list[1]) PROVE FALSE
      OBVIOUS
    <3>1. PICK a \in 1..Len(list) : list[a].id = list[1].parent /\ list[1].parent # Top
      BY <1>0 DEF IsChild, Known
    <3>2. a < 1
      BY <1>0, <3>1 DEF Grouped
    <3> QED BY <1>0, <3>2
  <2>4. Sided(list, << >>, 0)
    BY <1>0, <2>2, <2>3 DEF Sided
  <2> QED BY <2>1, <2>2, <2>4
<1>5. ASSUME NEW i \in Nat, i \in P PROVE i + 1 \in P
  <2> SUFFICES ASSUME i + 1 <= Len(list) PROVE f[i + 1] \in Seq(PRow) /\ Sided(list, f[i + 1], i + 1)
    OBVIOUS
  <2>1. i + 1 \in 1..Len(list) /\ (i + 1) - 1 = i /\ i <= Len(list)
    BY <1>0
  <2>2. PICK m : m = f[i]
    OBVIOUS
  <2>3. m \in Seq(PRow) /\ Sided(list, m, i)
    BY <1>5, <2>1, <2>2
  <2>4. f[i + 1] = Side(list, m, list[i + 1])
    BY <1>3, <2>1, <2>2
  <2> QED BY <2>1, <2>3, <2>4, SideNext
<1> HIDE DEF P
<1>6. Len(list) \in P
  BY <1>0, <1>4, <1>5, Induction
<1>7. PICK m : m = f[Len(list)]
  OBVIOUS
<1>8. m \in Seq(PRow) /\ Sided(list, m, Len(list))
  BY <1>0, <1>6, <1>7 DEF P
<1>9. Len(m) = Len(list) /\ \A k \in 1..Len(list) : m[k] = list[k]
  BY <1>0, <1>8 DEF Sided
<1>10. m = [k \in 1..Len(m) |-> m[k]] /\ list = [k \in 1..Len(list) |-> list[k]]
  BY <1>0, <1>8, LenProperties
<1>11. m = list
  BY <1>9, <1>10
<1> QED BY <1>2, <1>7, <1>11

-----------------------------------------------------------------------------
\* Dragging a preset.
LEMMA MoveItems ==
  ASSUME NEW n \in Nat, NEW list, IsItems(list, n), NEW src, Known(list, src), NEW dst, Known(list, dst),
         src # dst, NEW before \in BOOLEAN, NEW r, r = Without(list, src),
         NEW to, to = At(r, dst) + (IF before THEN 0 ELSE 1),
         NEW m, m = InsertAt(r, to, list[At(list, src)])
  PROVE  m \in Seq(IRow) /\ OneEach(m) /\ Range(m) = Range(list)
<1>0. list \in Seq(IRow) /\ OneEach(list) /\ HasIds(IRow) /\ DOMAIN list = 1..Len(list)
  BY RowsHaveIds, LenProperties DEF IsItems
<1>1. PICK x \in Range(list) : x.id = src /\ x = list[At(list, src)]
  <2>1. At(list, src) \in 1..Len(list) /\ list[At(list, src)].id = src
    BY <1>0 DEF At, Known
  <2> QED BY <1>0, <2>1, RangeIs
<1>2. PICK S : S = {y \in Range(list) : y.id # src}
  OBVIOUS
<1>3. r \in Seq(IRow) /\ OneEach(r) /\ Range(r) = Range(list) \cap S
  <2>1. r = Only(list, S)
    BY <1>2 DEF Without
  <2> QED BY <1>0, <2>1, OnlyKeeps
<1>4. PICK y \in Range(list) : y.id = dst
  BY <1>0, KnownIs
<1>5. y \in Range(r)
  BY <1>2, <1>3, <1>4
<1>6. At(r, dst) \in 1..Len(r)
  BY <1>3, <1>4, <1>5, AtIs
<1>7. to \in 1..Len(r) + 1
  BY <1>3, <1>6
<1>8. x \in IRow /\ ~Known(r, x.id)
  <2>1. \A z \in Range(r) : z.id # x.id
    BY <1>1, <1>2, <1>3
  <2>2. x \in IRow
    BY <1>0, RangeIs
  <2> QED BY <1>3, <2>1, <2>2, KnownIs
<1>9. InsertAt(r, to, x) \in Seq(IRow) /\ Inserted(r, to, x, InsertAt(r, to, x))
  BY <1>3, <1>7, <1>8, InsertIs
<1>10. m = InsertAt(r, to, x)
  BY <1>1
<1>14. m \in Seq(IRow) /\ Inserted(r, to, x, m)
  BY <1>9, <1>10
<1>11. Range(m) = Range(r) \cup {x} /\ OneEach(m)
  BY <1>0, <1>3, <1>7, <1>8, <1>14, InsertedIs
<1>12. \A z \in Range(list) : z.id = src => z = x
  BY <1>0, <1>1, RowOfId
<1>13. Range(r) \cup {x} = Range(list)
  BY <1>1, <1>2, <1>3, <1>12
<1> QED BY <1>11, <1>13, <1>14

-----------------------------------------------------------------------------
(* The queue of commands                                                   *)
CallFields == {"op", "list", "id", "proj", "ids", "back", "done"}
IsRecord(c) == c = [f \in CallFields |-> c[f]]
IsQueue(cs) == /\ \E S : cs \in Seq(S)
               /\ \A i \in 1..Len(cs) : IsRecord(cs[i])

\* A call is sent.
LEMMA MoreCalls ==
  ASSUME NEW cs, IsQueue(cs), NEW c, IsRecord(c), NEW m, m = Append(cs, c)
  PROVE  IsQueue(m) /\ Longer(cs, c, m) /\ Len(cs) \in Nat
<1>1. PICK S : cs \in Seq(S)
  BY DEF IsQueue
<1>2. PICK T : T = S \cup {c}
  OBVIOUS
<1>3. cs \in Seq(T) /\ c \in T
  BY <1>1, <1>2
<1>4. m \in Seq(T) /\ Longer(cs, c, m)
  BY <1>3, AppendLonger
<1>5. Len(cs) \in Nat
  BY <1>1
<1>6. ASSUME NEW i \in 1..Len(m) PROVE IsRecord(m[i])
  <2>1. i \in 1..Len(cs) \/ i = Len(cs) + 1
    BY <1>4, <1>5 DEF Longer
  <2>2. CASE i \in 1..Len(cs)
    <3>1. m[i] = cs[i]
      BY <1>4, <2>2 DEF Longer
    <3> QED BY <2>2, <3>1 DEF IsQueue
  <2>3. CASE i = Len(cs) + 1
    <3>1. m[i] = c
      BY <1>4, <2>3 DEF Longer
    <3> QED BY <3>1
  <2> QED BY <2>1, <2>2, <2>3
<1> QED BY <1>4, <1>5, <1>6 DEF IsQueue

\* A call is answered.
LEMMA LessCalls ==
  ASSUME NEW cs, IsQueue(cs), cs # << >>, NEW m, m = Tail(cs)
  PROVE  /\ IsQueue(m) /\ Len(cs) \in Nat /\ Len(m) = Len(cs) - 1 /\ 1 \in 1..Len(cs) /\ Head(cs) = cs[1]
         /\ \A i \in 1..Len(m) : i + 1 \in 1..Len(cs) /\ m[i] = cs[i + 1]
<1>1. PICK S : cs \in Seq(S)
  BY DEF IsQueue
<1>2. Len(cs) \in Nat /\ Len(cs) # 0
  BY <1>1, EmptySeq
<1>3. /\ m \in Seq(S) /\ Len(m) = Len(cs) - 1 /\ Head(cs) = cs[1]
      /\ \A i \in 1..Len(m) : m[i] = cs[i + 1]
  BY <1>1, <1>2, HeadTailProperties
<1>4. \A i \in 1..Len(m) : i + 1 \in 1..Len(cs)
  BY <1>2, <1>3
<1>5. \A i \in 1..Len(m) : IsRecord(m[i])
  BY <1>3, <1>4 DEF IsQueue
<1> QED BY <1>2, <1>3, <1>4, <1>5 DEF IsQueue

LEMMA FunctionIsSeq ==
  ASSUME NEW T, NEW n \in Nat, NEW m \in [1..n -> T]
  PROVE  m \in Seq(T) /\ Len(m) = n
OBVIOUS

\* c is d, but for whether it ran.
Same(c, d) == /\ c.op = d.op /\ c.list = d.list /\ c.id = d.id /\ c.proj = d.proj
              /\ c.ids = d.ids /\ c.back = d.back
Marked(cs, i, v, m) ==
  /\ IsQueue(m) /\ Len(m) = Len(cs) /\ Len(cs) \in Nat
  /\ \A j \in 1..Len(cs) : j # i => m[j] = cs[j]
  /\ m[i].done = v /\ Same(m[i], cs[i])

\* A call ran.
LEMMA RanCalls ==
  ASSUME NEW cs, IsQueue(cs), NEW i \in 1..Len(cs), NEW v, NEW m, m = [cs EXCEPT ![i].done = v]
  PROVE  Marked(cs, i, v, m)
<1>1. PICK S : cs \in Seq(S)
  BY DEF IsQueue
<1>2. PICK c : c = cs[i]
  OBVIOUS
<1>3. c = [f \in CallFields |-> c[f]]
  BY <1>2 DEF IsQueue, IsRecord
<1>4. PICK e : e = [c EXCEPT !.done = v]
  OBVIOUS
<1>5. e = [f \in CallFields |-> IF f = "done" THEN v ELSE c[f]]
  BY <1>3, <1>4
<1>6. /\ e.done = v /\ e.op = c.op /\ e.list = c.list /\ e.id = c.id /\ e.proj = c.proj
      /\ e.ids = c.ids /\ e.back = c.back
  BY <1>5 DEF CallFields
<1>7. IsRecord(e)
  BY <1>5 DEF IsRecord
<1>8. Len(cs) \in Nat /\ DOMAIN cs = 1..Len(cs) /\ \A j \in 1..Len(cs) : cs[j] \in S
  BY <1>1, LenProperties, ElementOfSeq
<1>9. cs = [j \in 1..Len(cs) |-> cs[j]]
  BY <1>1, LenProperties
<1>10. m = [j \in 1..Len(cs) |-> IF j = i THEN e ELSE cs[j]]
  BY <1>2, <1>4, <1>9
<1>11. PICK T : T = S \cup {e}
  OBVIOUS
<1>12. m \in [1..Len(cs) -> T]
  BY <1>8, <1>10, <1>11
<1>13. m \in Seq(T) /\ Len(m) = Len(cs)
  <2>1. Len(cs) \in Nat
    BY <1>8
  <2> QED BY ONLY <1>12, <2>1, FunctionIsSeq
<1>14. m[i] = e /\ \A j \in 1..Len(cs) : j # i => m[j] = cs[j]
  BY <1>10
<1>15. \A j \in 1..Len(m) : IsRecord(m[j])
  BY <1>7, <1>13, <1>14 DEF IsQueue
<1> QED BY <1>2, <1>6, <1>8, <1>13, <1>14, <1>15 DEF Marked, Same, IsQueue

LEMMA SameDoes ==
  ASSUME NEW c, NEW d, Same(c, d)
  PROVE  \A p : Paged(p, c) = Paged(p, d) /\ Stored(p, c) = Stored(p, d)
BY DEF Same, Paged, Stored

-----------------------------------------------------------------------------
\* What the backend has had, and will have, after each of the calls in the
\* queue: the first d of them ran.
AddsWorktree(c) == Adds(c, "projects") /\ c.proj # Top
StorePath(cs, s, st, d) ==
  /\ d \in 0..Len(cs)
  /\ \A i \in 1..Len(cs) : /\ i <= d => cs[i].done = "ok"
                           /\ d < i => cs[i].done = "no" /\ st[i] = Stored(st[i - 1], cs[i])
  /\ st[d] = s

\* A worktree will be registered whose parent is gone by then.
Doomed(cs, st, d) ==
  \E i \in 1..Len(cs) : d < i /\ AddsWorktree(cs[i]) /\ ~Known(st[i - 1].projects, cs[i].proj)

\* What the backend will have after one more call.
LEMMA SendStore ==
  ASSUME NEW cs, Len(cs) \in Nat, NEW s, NEW st, NEW d, StorePath(cs, s, st, d),
         NEW c, c.done = "no", NEW m, Longer(cs, c, m)
  PROVE  \E su : /\ StorePath(m, s, su, d)
                 /\ Doomed(cs, st, d) => Doomed(m, su, d)
                 /\ (AddsWorktree(c) /\ ~Known(st[Len(cs)].projects, c.proj)) => Doomed(m, su, d)
                 /\ su[Len(m)] = Stored(st[Len(cs)], c)
<1>1. /\ Len(m) = Len(cs) + 1 /\ Len(m) \in 1..Len(m) /\ m[Len(m)] = c
      /\ \A i \in 1..Len(cs) : m[i] = cs[i] /\ i \in 1..Len(m)
      /\ \A i \in 1..Len(m) : i \in 1..Len(cs) \/ i = Len(m)
  BY DEF Longer
<1>2. PICK new : new = Stored(st[Len(cs)], c)
  OBVIOUS
<1>3. PICK su : su = [i \in Nat |-> IF i = Len(cs) + 1 THEN new ELSE st[i]]
  OBVIOUS
<1>4. d \in 0..Len(cs) /\ d \in Nat
  BY DEF StorePath
<1>5. su[Len(m)] = new /\ su[Len(m) - 1] = st[Len(cs)] /\ Len(m) - 1 = Len(cs) /\ d < Len(m)
  BY <1>1, <1>3, <1>4
<1>6. \A i \in 0..Len(cs) : su[i] = st[i]
  BY <1>3
<1>7. \A i \in 1..Len(cs) : su[i] = st[i] /\ su[i - 1] = st[i - 1]
  BY <1>6
<1>8. StorePath(m, s, su, d)
  <2>1. d \in 0..Len(m) /\ su[d] = s
    BY <1>1, <1>4, <1>6 DEF StorePath
  <2>2. ASSUME NEW i \in 1..Len(m)
        PROVE  /\ i <= d => m[i].done = "ok"
               /\ d < i => m[i].done = "no" /\ su[i] = Stored(su[i - 1], m[i])
    <3>1. CASE i \in 1..Len(cs)
      BY <1>1, <1>7, <3>1 DEF StorePath
    <3>2. CASE i = Len(m)
      BY <1>1, <1>2, <1>4, <1>5, <3>2
    <3> QED BY <1>1, <3>1, <3>2
  <2> QED BY <2>1, <2>2 DEF StorePath
<1>9. Doomed(cs, st, d) => Doomed(m, su, d)
  BY <1>1, <1>7 DEF Doomed
<1>10. (AddsWorktree(c) /\ ~Known(st[Len(cs)].projects, c.proj)) => Doomed(m, su, d)
  BY <1>1, <1>5 DEF Doomed
<1> QED BY <1>2, <1>5, <1>8, <1>9, <1>10

\* A call ran: nothing else is still to come.
LEMMA RunStore ==
  ASSUME NEW cs, NEW s, NEW st, NEW d, StorePath(cs, s, st, d),
         NEW i \in 1..Len(cs), cs[i].done = "no", \A j \in 1..i - 1 : cs[j].done # "no",
         NEW m, Marked(cs, i, "ok", m)
  PROVE  /\ StorePath(m, Stored(s, cs[i]), st, i)
         /\ Doomed(cs, st, d) => Doomed(m, st, i) \/ (AddsWorktree(cs[i]) /\ ~Known(s.projects, cs[i].proj))
<1>1. d \in 0..Len(cs) /\ Len(cs) \in Nat /\ d \in Nat
  BY DEF StorePath, Marked
<1>2. i = d + 1
  <2>1. ~(i <= d)
    BY DEF StorePath
  <2>2. ~(d + 1 < i)
    <3> SUFFICES ASSUME d + 1 < i PROVE FALSE
      OBVIOUS
    <3>1. d + 1 \in 1..i - 1 /\ d + 1 \in 1..Len(cs) /\ d < d + 1
      BY <1>1
    <3> QED BY <3>1 DEF StorePath
  <2> QED BY <1>1, <2>1, <2>2
<1>3. st[i] = Stored(s, cs[i]) /\ i - 1 = d /\ st[i - 1] = s
  BY <1>1, <1>2 DEF StorePath
<1>4. /\ Len(m) = Len(cs) /\ m[i].done = "ok"
      /\ \A j \in 1..Len(cs) : j # i => m[j] = cs[j]
  BY DEF Marked
<1>5. StorePath(m, Stored(s, cs[i]), st, i)
  <2>1. ASSUME NEW j \in 1..Len(m)
        PROVE  /\ j <= i => m[j].done = "ok"
               /\ i < j => m[j].done = "no" /\ st[j] = Stored(st[j - 1], m[j])
    <3>1. CASE j = i
      BY <1>4, <3>1
    <3>2. CASE j < i
      <4>1. j <= d /\ j \in 1..Len(cs) /\ m[j] = cs[j]
        BY <1>1, <1>2, <1>4, <3>2
      <4> QED BY <3>2, <4>1 DEF StorePath
    <3>3. CASE i < j
      <4>1. d < j /\ j \in 1..Len(cs) /\ j # i
        BY <1>1, <1>2, <1>4, <3>3
      <4>2. m[j] = cs[j]
        BY <1>4, <4>1
      <4> QED BY <3>3, <4>1, <4>2 DEF StorePath
    <3> QED BY <1>4, <3>1, <3>2, <3>3
  <2>2. i \in 0..Len(m) /\ st[i] = Stored(s, cs[i])
    BY <1>1, <1>3, <1>4
  <2> QED BY <2>1, <2>2 DEF StorePath
<1>6. ASSUME Doomed(cs, st, d), ~(AddsWorktree(cs[i]) /\ ~Known(s.projects, cs[i].proj))
      PROVE  Doomed(m, st, i)
  <2>1. PICK j \in 1..Len(cs) : d < j /\ AddsWorktree(cs[j]) /\ ~Known(st[j - 1].projects, cs[j].proj)
    BY <1>6 DEF Doomed
  <2>2. j # i
    BY <1>3, <1>6, <2>1
  <2>3. i < j
    BY <1>1, <1>2, <2>1, <2>2
  <2> QED BY <1>4, <2>1, <2>2, <2>3 DEF Doomed
<1> QED BY <1>5, <1>6

\* The first call, which ran, is answered.
LEMMA AnswerStore ==
  ASSUME NEW cs, Len(cs) \in Nat, NEW s, NEW st, NEW d, StorePath(cs, s, st, d), 1 \in 1..Len(cs), cs[1].done # "no",
         NEW m, Len(m) = Len(cs) - 1, \A i \in 1..Len(m) : i + 1 \in 1..Len(cs) /\ m[i] = cs[i + 1]
  PROVE  /\ cs[1].done = "ok"
         /\ \E su, e : /\ StorePath(m, s, su, e)
                       /\ Doomed(cs, st, d) => Doomed(m, su, e)
                       /\ su[Len(m)] = st[Len(cs)]
<1>1. d \in 0..Len(cs) /\ 1 <= d /\ cs[1].done = "ok"
  BY DEF StorePath
<1>2. PICK su : su = [i \in Nat |-> st[i + 1]]
  OBVIOUS
<1>3. PICK e : e = d - 1
  OBVIOUS
<1>4. e \in 0..Len(m) /\ e + 1 = d /\ su[e] = s
  BY <1>1, <1>2, <1>3 DEF StorePath
<1>5. \A i \in 1..Len(m) : su[i] = st[i + 1] /\ su[i - 1] = st[i] /\ (i + 1) - 1 = i
  BY <1>2
<1>6. \A i \in 1..Len(m) : (i <= e => i + 1 <= d) /\ (e < i => d < i + 1)
  BY <1>1, <1>4
<1>7. StorePath(m, s, su, e)
  <2>1. ASSUME NEW i \in 1..Len(m)
        PROVE  /\ i <= e => m[i].done = "ok"
               /\ e < i => m[i].done = "no" /\ su[i] = Stored(su[i - 1], m[i])
    <3>1. i + 1 \in 1..Len(cs) /\ m[i] = cs[i + 1] /\ su[i] = st[i + 1] /\ su[i - 1] = st[(i + 1) - 1]
      BY <1>5
    <3> QED BY <1>6, <3>1 DEF StorePath
  <2> QED BY <1>4, <2>1 DEF StorePath
<1>8. Doomed(cs, st, d) => Doomed(m, su, e)
  <2> SUFFICES ASSUME NEW j \in 1..Len(cs), d < j, AddsWorktree(cs[j]), ~Known(st[j - 1].projects, cs[j].proj)
               PROVE  Doomed(m, su, e)
    BY DEF Doomed
  <2>1. j - 1 \in 1..Len(m) /\ (j - 1) + 1 = j /\ e < j - 1
    BY <1>1, <1>4
  <2>2. m[j - 1] = cs[j] /\ su[(j - 1) - 1] = st[j - 1]
    BY <1>5, <2>1
  <2> QED BY <2>1, <2>2 DEF Doomed
<1>9. su[Len(m)] = st[Len(cs)]
  <2>1. Len(m) \in Nat /\ Len(m) + 1 = Len(cs)
    BY <1>1
  <2> QED BY <1>2, <2>1
<1> QED BY <1>1, <1>7, <1>8, <1>9

-----------------------------------------------------------------------------
(* The window's lists, and what they become with every answer to come      *)
IsPage(p, kin, n) == /\ IsThree(p) /\ IsProjects(p.projects, kin, n)
                     /\ IsItems(p.presets, n) /\ IsItems(p.recipes, n)
FitsCall(c, kin, n) == /\ IsCall(c) /\ IsProjectCall(c, kin, n)
                       /\ IsItemCall(c, "presets", n) /\ IsItemCall(c, "recipes", n)
                       /\ c.back # "worktree"
NewIn(c, p) == /\ Adds(c, "projects") => NewTo(c, p.projects)
               /\ Adds(c, "presets") => NewTo(c, p.presets)
               /\ Adds(c, "recipes") => NewTo(c, p.recipes)

\* What the backend keeps of a window's lists: a worktree whose parent is gone
\* is a project of its own.
AsStored(p) == Three(Settled(p.projects), p.presets, p.recipes)

\* The window's lists stay lists.
LEMMA PageStep ==
  ASSUME NEW n \in Nat, NEW kin, IsKin(kin, n), NEW p, IsPage(p, kin, n),
         NEW c, FitsCall(c, kin, n), NewIn(c, p)
  PROVE  /\ IsPage(Paged(p, c), kin, n)
         /\ Grouped(p.projects) => Grouped(Paged(p, c).projects)
<1>1. IsCall(c) /\ IsProjectCall(c, kin, n) /\ IsThree(p) /\ IsProjects(p.projects, kin, n)
  BY DEF FitsCall, IsPage
<1>2. Paged(p, c) = Three(PageAfter(p.projects, c), ItemsAfter(p.presets, "presets", c),
                          ItemsAfter(p.recipes, "recipes", c))
  BY <1>1, PagedIs
<1>3. /\ IsProjects(PageAfter(p.projects, c), kin, n)
      /\ Grouped(p.projects) => Grouped(PageAfter(p.projects, c))
  BY <1>1, PageStays DEF NewIn
<1>4. IsItems(ItemsAfter(p.presets, "presets", c), n) /\ IsItems(ItemsAfter(p.recipes, "recipes", c), n)
  BY ItemsStay DEF FitsCall, IsPage, NewIn
<1> QED BY <1>2, <1>3, <1>4, ThreeIs DEF IsPage

\* Running a call and showing its answer do the same.
LEMMA StoredStep ==
  ASSUME NEW n \in Nat, NEW kin, IsKin(kin, n), NEW p, IsPage(p, kin, n),
         NEW c, FitsCall(c, kin, n), NewIn(c, p), c.op # "reorder",
         AddsWorktree(c) => Known(AsStored(p).projects, c.proj)
  PROVE  Stored(AsStored(p), c) = AsStored(Paged(p, c))
<1>1. IsCall(c) /\ IsProjectCall(c, kin, n) /\ IsThree(p) /\ IsProjects(p.projects, kin, n)
  BY DEF FitsCall, IsPage
<1>2. Paged(p, c) = Three(PageAfter(p.projects, c), ItemsAfter(p.presets, "presets", c),
                          ItemsAfter(p.recipes, "recipes", c))
  BY <1>1, PagedIs
<1>3. /\ IsThree(AsStored(p)) /\ AsStored(p).projects = Settled(p.projects)
      /\ AsStored(p).presets = p.presets /\ AsStored(p).recipes = p.recipes
  BY ThreeIs DEF AsStored
<1>4. Stored(AsStored(p), c) = Three(StoreAfter(Settled(p.projects), c), ItemsAfter(p.presets, "presets", c),
                                     ItemsAfter(p.recipes, "recipes", c))
  BY <1>1, <1>3, StoredIs
<1>5. Adds(c, "projects") => NewTo(c, p.projects) /\ (c.proj # Top => Known(Settled(p.projects), c.proj))
  BY <1>3 DEF NewIn, AddsWorktree
<1>6. StoreAfter(Settled(p.projects), c) = Settled(PageAfter(p.projects, c))
  BY <1>1, <1>5, StoreSettled
<1> QED BY <1>2, <1>4, <1>6, ThreeIs DEF AsStored

-----------------------------------------------------------------------------
\* A list in the order of ids.
Placed(p, name, ids) ==
  IF name = "projects" THEN Three(Reorder(p.projects, ids), p.presets, p.recipes)
  ELSE Three(p.projects, Reorder(p.presets, ids), p.recipes)

MayMove(c, name, ids) == IF name = "projects" THEN ~Adds(c, "projects")
                         ELSE Adds(c, "presets") => c.id \notin Range(ids)

\* A new order keeps the rows.
LEMMA MovedIs ==
  ASSUME NEW n \in Nat, NEW kin, NEW p, IsPage(p, kin, n),
         NEW name \in {"projects", "presets"}, NEW ids \in Seq(Nat), Distinct(ids)
  PROVE  /\ IsPage(Placed(p, name, ids), kin, n)
         /\ \A c : NewIn(c, p) => NewIn(c, Placed(p, name, ids))
<1>1. /\ HasIds(PRow) /\ HasIds(IRow) /\ p.projects \in Seq(PRow) /\ OneEach(p.projects)
      /\ p.presets \in Seq(IRow) /\ OneEach(p.presets)
  BY RowsHaveIds DEF IsPage, IsProjects, IsItems
<1>2. CASE name = "projects"
  <2>1. PICK q : q = Reorder(p.projects, ids)
    OBVIOUS
  <2>2. q \in Seq(PRow) /\ Range(q) = Range(p.projects) /\ OneEach(q)
    BY <1>1, <2>1, ReorderKeeps
  <2>3. Placed(p, name, ids) = Three(q, p.presets, p.recipes)
    BY <1>2, <2>1 DEF Placed
  <2>4. IsProjects(q, kin, n)
    BY <2>2 DEF IsPage, IsProjects
  <2>5. \A c : NewTo(c, q) <=> NewTo(c, p.projects)
    BY <2>2 DEF NewTo
  <2> QED BY <2>3, <2>4, <2>5, ThreeIs DEF IsPage, NewIn
<1>3. CASE name = "presets"
  <2>1. PICK q : q = Reorder(p.presets, ids)
    OBVIOUS
  <2>2. q \in Seq(IRow) /\ Range(q) = Range(p.presets) /\ OneEach(q)
    BY <1>1, <2>1, ReorderKeeps
  <2>3. Placed(p, name, ids) = Three(p.projects, q, p.recipes)
    BY <1>3, <2>1 DEF Placed
  <2>4. IsItems(q, n)
    BY <2>2 DEF IsPage, IsItems
  <2>5. \A c : NewTo(c, q) <=> NewTo(c, p.presets)
    BY <2>2 DEF NewTo
  <2> QED BY <2>3, <2>4, <2>5, ThreeIs DEF IsPage, NewIn
<1> QED BY <1>2, <1>3

\* An answer that comes after the new order finds what it expects.
LEMMA MovedStep ==
  ASSUME NEW n \in Nat, NEW kin, NEW p, IsPage(p, kin, n),
         NEW c, FitsCall(c, kin, n), NewIn(c, p),
         NEW name \in {"projects", "presets"}, NEW ids \in Seq(Nat), Distinct(ids), MayMove(c, name, ids)
  PROVE  Paged(Placed(p, name, ids), c) = Placed(Paged(p, c), name, ids)
<1>1. IsCall(c) /\ IsThree(p) /\ IsProjects(p.projects, kin, n)
  BY DEF FitsCall, IsPage
<1>2. Paged(p, c) = Three(PageAfter(p.projects, c), ItemsAfter(p.presets, "presets", c),
                          ItemsAfter(p.recipes, "recipes", c))
  BY <1>1, PagedIs
<1>3. CASE name = "projects"
  <2>1. PICK q : q = Reorder(p.projects, ids)
    OBVIOUS
  <2>2. PICK r : r = Three(q, p.presets, p.recipes)
    OBVIOUS
  <2>3. r = Placed(p, name, ids)
    BY <1>3, <2>1, <2>2 DEF Placed
  <2>4. IsThree(r) /\ r.projects = q /\ r.presets = p.presets /\ r.recipes = p.recipes
    BY <2>2, ThreeIs
  <2>5. Paged(r, c) = Three(PageAfter(q, c), ItemsAfter(p.presets, "presets", c),
                            ItemsAfter(p.recipes, "recipes", c))
    BY <1>1, <2>4, PagedIs
  <2>6. Reorder(PageAfter(p.projects, c), ids) = PageAfter(q, c)
    <3>1. ~Adds(c, "projects")
      BY <1>3 DEF MayMove
    <3> QED BY <1>1, <2>1, <3>1, ProjectsReordered
  <2> QED BY <1>2, <1>3, <2>3, <2>5, <2>6, ThreeIs DEF Placed
<1>4. CASE name = "presets"
  <2>1. PICK q : q = Reorder(p.presets, ids)
    OBVIOUS
  <2>2. PICK r : r = Three(p.projects, q, p.recipes)
    OBVIOUS
  <2>3. r = Placed(p, name, ids)
    BY <1>4, <2>1, <2>2 DEF Placed
  <2>4. IsThree(r) /\ r.projects = p.projects /\ r.presets = q /\ r.recipes = p.recipes
    BY <2>2, ThreeIs
  <2>5. Paged(r, c) = Three(PageAfter(p.projects, c), ItemsAfter(q, "presets", c),
                            ItemsAfter(p.recipes, "recipes", c))
    BY <1>1, <2>4, PagedIs
  <2>6. Reorder(ItemsAfter(p.presets, "presets", c), ids) = ItemsAfter(q, "presets", c)
    <3>1. Adds(c, "presets") => NewTo(c, p.presets) /\ c.id \notin Range(ids)
      BY <1>4 DEF MayMove, NewIn
    <3>2. IsItems(p.presets, n) /\ IsItemCall(c, "presets", n)
      BY DEF FitsCall, IsPage
    <3> QED BY <2>1, <3>1, <3>2, ItemsReordered
  <2> QED BY <1>2, <1>4, <2>3, <2>5, <2>6, ThreeIs DEF Placed
<1> QED BY <1>3, <1>4

\* What the backend does with the new order.
Orders(c, name, ids) == c.op = "reorder" /\ c.list = name /\ c.ids = ids

\* The backend takes the new order over.
LEMMA StoreMoved ==
  ASSUME NEW n \in Nat, NEW kin, NEW p, IsPage(p, kin, n),
         NEW name \in {"projects", "presets"}, NEW ids \in Seq(Nat), Distinct(ids),
         NEW c, Orders(c, name, ids)
  PROVE  Stored(AsStored(p), c) = AsStored(Placed(p, name, ids))
<1>1. p.projects \in Seq(PRow) /\ OneEach(p.projects)
  BY DEF IsPage, IsProjects
<1>2. PICK s : s = AsStored(p)
  OBVIOUS
<1>3. /\ IsThree(s) /\ s.projects = Settled(p.projects) /\ s.presets = p.presets /\ s.recipes = p.recipes
      /\ s["projects"] = Settled(p.projects) /\ s["presets"] = p.presets
  BY <1>2, ThreeIs DEF AsStored
<1>4. CASE name = "projects"
  <2>1. Stored(s, c) = [s EXCEPT !.projects = Reorder(s.projects, ids)]
    BY <1>4 DEF Stored, Orders
  <2>2. Stored(s, c) = Three(Reorder(s.projects, ids), s.presets, s.recipes)
    BY <1>3, <2>1, ThreeSet
  <2>3. Reorder(Settled(p.projects), ids) = Settled(Reorder(p.projects, ids))
    BY <1>1, SettledReordered
  <2> QED BY <1>2, <1>3, <1>4, <2>2, <2>3, ThreeIs DEF AsStored, Placed
<1>5. CASE name = "presets"
  <2>1. Stored(s, c) = [s EXCEPT !.presets = Reorder(s.presets, ids)]
    BY <1>5 DEF Stored, Orders
  <2>2. Stored(s, c) = Three(s.projects, Reorder(s.presets, ids), s.recipes)
    BY <1>3, <2>1, ThreeSet
  <2> QED BY <1>2, <1>3, <1>5, <2>2, ThreeIs DEF AsStored, Placed
<1> QED BY <1>4, <1>5

-----------------------------------------------------------------------------
\* The window shows p, and will show tr[i] after the first i answers; once
\* every call ran and is answered, the backend keeps the same lists.
PagePath(cs, p, tr) == tr[0] = p /\ \A i \in 1..Len(cs) : tr[i] = Paged(tr[i - 1], cs[i])
CallsFit(cs, tr, kin, n) ==
  \A i \in 1..Len(cs) : FitsCall(cs[i], kin, n) /\ \A j \in 0..i - 1 : NewIn(cs[i], tr[j])
Agreed(cs, p, tr, s, kin, n) ==
  /\ IsKin(kin, n) /\ PagePath(cs, p, tr)
  /\ \A i \in 0..Len(cs) : IsPage(tr[i], kin, n)
  /\ Grouped(p.projects)
  /\ CallsFit(cs, tr, kin, n)
  /\ s = AsStored(tr[Len(cs)])

\* Another project, or another preset or recipe (whose parent is nobody).
Grows(kin, n, q, new) ==
  /\ new \in [1..n + 1 -> Nat] /\ new[n + 1] = q /\ \A i \in 1..n : new[i] = kin[i]
IsTop(id, kin, n) == id \in 1..n /\ kin[id] = Top

\* Another item.
LEMMA KinGrows ==
  ASSUME NEW n \in Nat, NEW kin, IsKin(kin, n), NEW q, q = Top \/ IsTop(q, kin, n)
  PROVE  \E new : Grows(kin, n, q, new) /\ IsKin(new, n + 1)
<1>1. kin \in [1..n -> Nat] /\ q \in Nat /\ q < n + 1
  BY DEF IsKin, IsTop, Top
<1>2. PICK new : new = [i \in 1..n + 1 |-> IF i = n + 1 THEN q ELSE kin[i]]
  OBVIOUS
<1>3. Grows(kin, n, q, new)
  BY <1>1, <1>2 DEF Grows
<1>4. ASSUME NEW id \in 1..n + 1 PROVE new[id] < id /\ (new[id] # Top => new[new[id]] = Top)
  <2>1. CASE id = n + 1
    BY <1>1, <1>3, <2>1 DEF Grows, IsTop
  <2>2. CASE id \in 1..n
    <3>1. kin[id] \in Nat /\ kin[id] < id /\ (kin[id] # Top => kin[kin[id]] = Top) /\ new[id] = kin[id]
      BY <1>1, <1>3, <2>2 DEF Grows, IsKin
    <3>2. kin[id] # Top => kin[id] \in 1..n
      BY <2>2, <3>1 DEF Top
    <3> QED BY <1>3, <3>1, <3>2 DEF Grows
  <2> QED BY <2>1, <2>2
<1> QED BY <1>3, <1>4 DEF IsKin, Grows

LEMMA PageGrows ==
  ASSUME NEW n \in Nat, NEW kin, NEW q, NEW new, Grows(kin, n, q, new), NEW p, IsPage(p, kin, n)
  PROVE  /\ IsPage(p, new, n + 1)
         /\ \A c : (c.id = n + 1) => NewIn(c, p)
<1>1. \A i \in 1..n : i \in 1..n + 1 /\ i < n + 1 /\ new[i] = kin[i]
  BY DEF Grows
<1>2. IsProjects(p.projects, new, n + 1) /\ \A x \in Range(p.projects) : x.id < n + 1
  BY <1>1 DEF IsPage, IsProjects
<1>3. IsItems(p.presets, n + 1) /\ \A x \in Range(p.presets) : x.id < n + 1
  BY <1>1 DEF IsPage, IsItems
<1>4. IsItems(p.recipes, n + 1) /\ \A x \in Range(p.recipes) : x.id < n + 1
  BY <1>1 DEF IsPage, IsItems
<1> QED BY <1>2, <1>3, <1>4 DEF IsPage, NewIn, NewTo

LEMMA CallGrows ==
  ASSUME NEW n \in Nat, NEW kin, NEW q, NEW new, Grows(kin, n, q, new), NEW c, FitsCall(c, kin, n)
  PROVE  FitsCall(c, new, n + 1)
<1>1. \A i \in 1..n : i \in 1..n + 1 /\ new[i] = kin[i]
  BY DEF Grows
<1> QED BY <1>1 DEF FitsCall, IsProjectCall, IsItemCall

LEMMA AgreedGrows ==
  ASSUME NEW n \in Nat, NEW kin, NEW q, NEW new, Grows(kin, n, q, new), IsKin(new, n + 1),
         NEW cs, NEW p, NEW tr, NEW s, Agreed(cs, p, tr, s, kin, n)
  PROVE  /\ Agreed(cs, p, tr, s, new, n + 1)
         /\ \A c : c.id = n + 1 => \A i \in 0..Len(cs) : NewIn(c, tr[i])
<1>1. \A i \in 0..Len(cs) : IsPage(tr[i], new, n + 1) /\ \A c : c.id = n + 1 => NewIn(c, tr[i])
  BY PageGrows DEF Agreed
<1>2. \A i \in 1..Len(cs) : FitsCall(cs[i], new, n + 1)
  BY CallGrows DEF Agreed, CallsFit
<1>3. CallsFit(cs, tr, new, n + 1)
  BY <1>2 DEF Agreed, CallsFit
<1> QED BY <1>1, <1>3 DEF Agreed

\* A call that is no new order.
LEMMA SendAgreed ==
  ASSUME NEW n \in Nat, NEW kin, NEW cs, Len(cs) \in Nat, NEW p, NEW tr, NEW s, Agreed(cs, p, tr, s, kin, n),
         NEW c, FitsCall(c, kin, n), c.op # "reorder", \A i \in 0..Len(cs) : NewIn(c, tr[i]),
         AddsWorktree(c) => Known(s.projects, c.proj), NEW m, Longer(cs, c, m)
  PROVE  \E tu : Agreed(m, p, tu, Stored(s, c), kin, n)
<1>1. /\ Len(m) = Len(cs) + 1 /\ m[Len(m)] = c
      /\ \A i \in 1..Len(cs) : m[i] = cs[i] /\ i # Len(m)
      /\ \A i \in 1..Len(m) : i \in 1..Len(cs) \/ i = Len(m)
      /\ \A i \in 0..Len(m) : i \in 0..Len(cs) \/ i = Len(m)
  BY DEF Longer
<1>2. PICK last : last = Paged(tr[Len(cs)], c)
  OBVIOUS
<1>3. PICK tu : tu = [i \in Nat |-> IF i = Len(cs) + 1 THEN last ELSE tr[i]]
  OBVIOUS
<1>4. tu[Len(m)] = last /\ \A i \in 0..Len(cs) : tu[i] = tr[i]
  BY <1>1, <1>3
<1>5. IsKin(kin, n) /\ Len(cs) \in 0..Len(cs) /\ IsPage(tr[Len(cs)], kin, n) /\ NewIn(c, tr[Len(cs)])
  BY DEF Agreed
<1>6. IsPage(last, kin, n)
  BY <1>2, <1>5, PageStep
<1>7. Stored(s, c) = AsStored(last)
  <2>1. s = AsStored(tr[Len(cs)])
    BY DEF Agreed
  <2>2. Stored(AsStored(tr[Len(cs)]), c) = AsStored(Paged(tr[Len(cs)], c))
    BY <1>5, <2>1, StoredStep
  <2> QED BY <1>2, <2>1, <2>2
<1>8. PagePath(m, p, tu)
  <2>1. tu[0] = p
    BY <1>4 DEF Agreed, PagePath
  <2>2. ASSUME NEW i \in 1..Len(m) PROVE tu[i] = Paged(tu[i - 1], m[i])
    <3>1. CASE i \in 1..Len(cs)
      <4>1. tu[i] = tr[i] /\ tu[i - 1] = tr[i - 1] /\ m[i] = cs[i]
        BY <1>1, <1>4, <3>1
      <4> QED BY <3>1, <4>1 DEF Agreed, PagePath
    <3>2. CASE i = Len(m)
      <4>1. tu[i] = last /\ tu[i - 1] = tr[Len(cs)] /\ m[i] = c
        BY <1>1, <1>4, <3>2
      <4> QED BY <1>2, <4>1
    <3> QED BY <1>1, <3>1, <3>2
  <2> QED BY <2>1, <2>2 DEF PagePath
<1>9. CallsFit(m, tu, kin, n)
  <2>1. ASSUME NEW i \in 1..Len(m)
        PROVE  FitsCall(m[i], kin, n) /\ \A j \in 0..i - 1 : NewIn(m[i], tu[j])
    <3>1. \A j \in 0..i - 1 : j \in 0..Len(cs) /\ tu[j] = tr[j]
      BY <1>1, <1>4
    <3>2. CASE i \in 1..Len(cs)
      <4>1. m[i] = cs[i]
        BY <1>1, <3>2
      <4> QED BY <3>1, <3>2, <4>1 DEF Agreed, CallsFit
    <3>3. CASE i = Len(m)
      BY <1>1, <3>1, <3>3
    <3> QED BY <1>1, <3>2, <3>3
  <2> QED BY <2>1 DEF CallsFit
<1>10. \A i \in 0..Len(m) : IsPage(tu[i], kin, n)
  BY <1>1, <1>4, <1>6 DEF Agreed
<1> QED BY <1>4, <1>5, <1>7, <1>8, <1>9, <1>10 DEF Agreed

\* A new order, chosen in the window, that the backend hears of later.
LEMMA MoveAgreed ==
  ASSUME NEW n \in Nat, NEW kin, NEW cs, Len(cs) \in Nat, NEW p, NEW tr, NEW s, Agreed(cs, p, tr, s, kin, n),
         NEW name \in {"projects", "presets"}, NEW ids \in Seq(Nat), Distinct(ids),
         \A i \in 1..Len(cs) : MayMove(cs[i], name, ids),
         NEW c, FitsCall(c, kin, n), Orders(c, name, ids), NEW m, Longer(cs, c, m),
         NEW to, to = Placed(p, name, ids), Grouped(to.projects)
  PROVE  \E tu : Agreed(m, to, tu, Stored(s, c), kin, n)
<1>1. /\ Len(m) = Len(cs) + 1 /\ m[Len(m)] = c
      /\ \A i \in 1..Len(cs) : m[i] = cs[i] /\ i # Len(m)
      /\ \A i \in 1..Len(m) : i \in 1..Len(cs) \/ i = Len(m)
      /\ \A i \in 0..Len(m) : i \in 0..Len(cs) \/ i = Len(m)
  BY DEF Longer
<1>2. PICK tu : tu = [i \in Nat |-> IF i = Len(cs) + 1 THEN Placed(tr[Len(cs)], name, ids)
                                    ELSE Placed(tr[i], name, ids)]
  OBVIOUS
<1>3. tu[Len(m)] = Placed(tr[Len(cs)], name, ids) /\ \A i \in 0..Len(cs) : tu[i] = Placed(tr[i], name, ids)
  BY <1>1, <1>2
<1>4. /\ IsKin(kin, n) /\ Len(cs) \in 0..Len(cs) /\ IsPage(tr[Len(cs)], kin, n)
      /\ \A i \in 0..Len(cs) : IsPage(tr[i], kin, n)
      /\ CallsFit(cs, tr, kin, n) /\ PagePath(cs, p, tr)
  BY DEF Agreed
<1>5. \A i \in 0..Len(cs) : IsPage(Placed(tr[i], name, ids), kin, n)
  BY <1>4, MovedIs
<1>6. \A i \in 0..Len(m) : IsPage(tu[i], kin, n)
  BY <1>1, <1>3, <1>4, <1>5
<1>7. PagePath(m, to, tu)
  <2>1. tu[0] = to
    BY <1>3, <1>4 DEF PagePath
  <2>2. ASSUME NEW i \in 1..Len(m) PROVE tu[i] = Paged(tu[i - 1], m[i])
    <3>1. CASE i \in 1..Len(cs)
      <4>1. /\ tu[i] = Placed(tr[i], name, ids) /\ tu[i - 1] = Placed(tr[i - 1], name, ids) /\ m[i] = cs[i]
            /\ i - 1 \in 0..Len(cs) /\ i - 1 \in 0..i - 1
        BY <1>1, <1>3, <3>1
      <4>2. /\ IsPage(tr[i - 1], kin, n) /\ FitsCall(cs[i], kin, n) /\ NewIn(cs[i], tr[i - 1])
            /\ MayMove(cs[i], name, ids) /\ tr[i] = Paged(tr[i - 1], cs[i])
        BY <1>4, <3>1, <4>1 DEF CallsFit, PagePath
      <4>3. Paged(Placed(tr[i - 1], name, ids), cs[i]) = Placed(Paged(tr[i - 1], cs[i]), name, ids)
        BY <4>2, MovedStep
      <4> QED BY <4>1, <4>2, <4>3
    <3>2. CASE i = Len(m)
      <4>1. tu[i] = Placed(tr[Len(cs)], name, ids) /\ tu[i - 1] = Placed(tr[Len(cs)], name, ids) /\ m[i] = c
        BY <1>1, <1>3, <3>2
      <4>2. Paged(tu[i - 1], c) = tu[i - 1]
        BY DEF Paged, Orders
      <4> QED BY <4>1, <4>2
    <3> QED BY <1>1, <3>1, <3>2
  <2> QED BY <2>1, <2>2 DEF PagePath
<1>8. CallsFit(m, tu, kin, n)
  <2>1. ASSUME NEW i \in 1..Len(m)
        PROVE  FitsCall(m[i], kin, n) /\ \A j \in 0..i - 1 : NewIn(m[i], tu[j])
    <3>1. CASE i \in 1..Len(cs)
      <4>1. m[i] = cs[i] /\ FitsCall(cs[i], kin, n)
        BY <1>1, <1>4, <3>1 DEF CallsFit
      <4>2. ASSUME NEW j \in 0..i - 1 PROVE NewIn(m[i], tu[j])
        <5>1. j \in 0..Len(cs) /\ tu[j] = Placed(tr[j], name, ids)
          BY <1>3, <3>1
        <5>2. IsPage(tr[j], kin, n) /\ NewIn(cs[i], tr[j])
          BY <1>4, <3>1, <5>1 DEF CallsFit
        <5>3. NewIn(cs[i], Placed(tr[j], name, ids))
          BY <5>2, MovedIs
        <5> QED BY <4>1, <5>1, <5>3
      <4> QED BY <4>1, <4>2
    <3>2. CASE i = Len(m)
      <4>1. m[i] = c /\ \A p2 : NewIn(c, p2)
        BY <1>1, <3>2 DEF NewIn, Adds, Orders
      <4> QED BY <4>1
    <3> QED BY <1>1, <3>1, <3>2
  <2> QED BY <2>1 DEF CallsFit
<1>9. Stored(s, c) = AsStored(tu[Len(m)])
  <2>1. s = AsStored(tr[Len(cs)])
    BY DEF Agreed
  <2>2. Stored(AsStored(tr[Len(cs)]), c) = AsStored(Placed(tr[Len(cs)], name, ids))
    BY <1>4, StoreMoved
  <2> QED BY <1>3, <2>1, <2>2
<1> QED BY <1>4, <1>6, <1>7, <1>8, <1>9 DEF Agreed

\* An answer comes.
LEMMA AnswerAgreed ==
  ASSUME NEW n \in Nat, NEW kin, NEW cs, Len(cs) \in Nat, 1 \in 1..Len(cs),
         NEW p, NEW tr, NEW s, Agreed(cs, p, tr, s, kin, n),
         NEW m, Len(m) = Len(cs) - 1, \A i \in 1..Len(m) : i + 1 \in 1..Len(cs) /\ m[i] = cs[i + 1]
  PROVE  \E tu : Agreed(m, Paged(p, cs[1]), tu, s, kin, n)
<1>1. PICK tu : tu = [i \in Nat |-> tr[i + 1]]
  OBVIOUS
<1>2. \A i \in 0..Len(m) : tu[i] = tr[i + 1] /\ i + 1 \in 0..Len(cs)
  BY <1>1
<1>3. /\ IsKin(kin, n) /\ \A i \in 0..Len(cs) : IsPage(tr[i], kin, n)
      /\ CallsFit(cs, tr, kin, n) /\ PagePath(cs, p, tr) /\ Grouped(p.projects)
  BY DEF Agreed
<1>4. tr[0] = p /\ tr[1] = Paged(p, cs[1]) /\ IsPage(p, kin, n) /\ FitsCall(cs[1], kin, n) /\ NewIn(cs[1], p)
  <2>1. tr[0] = p /\ tr[1] = Paged(tr[1 - 1], cs[1]) /\ 0 \in 0..Len(cs) /\ 0 \in 0..1 - 1 /\ 1 - 1 = 0
    BY <1>3 DEF PagePath
  <2> QED BY <1>3, <2>1 DEF CallsFit
<1>5. Grouped(Paged(p, cs[1]).projects)
  BY <1>3, <1>4, PageStep
<1>6. PagePath(m, Paged(p, cs[1]), tu)
  <2>1. tu[0] = Paged(p, cs[1])
    BY <1>1, <1>4
  <2>2. ASSUME NEW i \in 1..Len(m) PROVE tu[i] = Paged(tu[i - 1], m[i])
    <3>1. i + 1 \in 1..Len(cs) /\ m[i] = cs[i + 1] /\ tu[i] = tr[i + 1] /\ tu[i - 1] = tr[(i + 1) - 1]
      BY <1>1
    <3> QED BY <1>3, <3>1 DEF PagePath
  <2> QED BY <2>1, <2>2 DEF PagePath
<1>7. CallsFit(m, tu, kin, n)
  <2>1. ASSUME NEW i \in 1..Len(m)
        PROVE  FitsCall(m[i], kin, n) /\ \A j \in 0..i - 1 : NewIn(m[i], tu[j])
    <3>1. i + 1 \in 1..Len(cs) /\ m[i] = cs[i + 1]
      OBVIOUS
    <3>2. \A j \in 0..i - 1 : tu[j] = tr[j + 1] /\ j + 1 \in 0..(i + 1) - 1
      BY <1>1
    <3> QED BY <1>3, <3>1, <3>2 DEF CallsFit
  <2> QED BY <2>1 DEF CallsFit
<1>8. \A i \in 0..Len(m) : IsPage(tu[i], kin, n)
  BY <1>2, <1>3
<1>9. tu[Len(m)] = tr[Len(cs)]
  <2>1. Len(m) \in Nat /\ Len(m) + 1 = Len(cs)
    OBVIOUS
  <2> QED BY <1>1, <2>1
<1>10. s = AsStored(tu[Len(m)])
  BY <1>9 DEF Agreed
<1> QED BY <1>3, <1>5, <1>6, <1>7, <1>8, <1>10 DEF Agreed

\* A call ran: the window does not notice.
LEMMA RunAgreed ==
  ASSUME NEW n \in Nat, NEW kin, NEW cs, NEW i, NEW v, NEW m, Marked(cs, i, v, m), i \in 1..Len(cs),
         NEW p, NEW tr, NEW s, Agreed(cs, p, tr, s, kin, n)
  PROVE  Agreed(m, p, tr, s, kin, n)
<1>1. Len(m) = Len(cs) /\ \A j \in 1..Len(cs) : Same(m[j], cs[j])
  BY DEF Marked, Same
<1>2. \A j \in 1..Len(cs) : \A q : Paged(q, m[j]) = Paged(q, cs[j])
  BY <1>1, SameDoes
<1>3. PagePath(m, p, tr)
  BY <1>1, <1>2 DEF Agreed, PagePath
<1>4. \A j \in 1..Len(cs) : FitsCall(cs[j], kin, n) => FitsCall(m[j], kin, n)
  BY <1>1 DEF Same, FitsCall, IsCall, IsProjectCall, IsItemCall, Adds
<1>5. \A j \in 1..Len(cs) : \A q : NewIn(cs[j], q) => NewIn(m[j], q)
  BY <1>1 DEF Same, NewIn, Adds, NewTo
<1>6. CallsFit(m, tr, kin, n)
  BY <1>1, <1>4, <1>5 DEF Agreed, CallsFit
<1> QED BY <1>1, <1>3, <1>6 DEF Agreed

-----------------------------------------------------------------------------
\* Worktrees hang below projects, never below each other: git is asked about
\* projects only, and so are the forms.
GitOk(g, kin, n) == \A x \in g : x.op \in {"info", "add"} => IsTop(x.id, kin, n)
ShownOk(sh, kin, n) ==
  sh.kind = "form" => /\ sh.id.back # "worktree"
                      /\ sh.id.kind = "worktree" => IsTop(sh.id.item, kin, n)

Fine(cs, p, s, g, sh, n) ==
  \E tr, kin : Agreed(cs, p, tr, s, kin, n) /\ GitOk(g, kin, n) /\ ShownOk(sh, kin, n)
Lists(cs, s, p, g, sh, n) ==
  /\ n \in Nat /\ IsQueue(cs)
  /\ \E st, d : /\ StorePath(cs, s, st, d)
                /\ Doomed(cs, st, d) \/ Fine(cs, p, st[Len(cs)], g, sh, n)

\* A step that neither sends nor runs nor answers a call.
Keeps(p, g, sh, g2, sh2, n) ==
  \A kin : (IsPage(p, kin, n) /\ GitOk(g, kin, n) /\ ShownOk(sh, kin, n))
              => GitOk(g2, kin, n) /\ ShownOk(sh2, kin, n)

LEMMA QueueLen == ASSUME NEW cs, IsQueue(cs) PROVE Len(cs) \in Nat /\ DOMAIN cs = 1..Len(cs)
BY LenProperties DEF IsQueue

\* What the window shows now.
LEMMA PageNow ==
  ASSUME NEW n \in Nat, NEW kin, NEW cs, Len(cs) \in Nat, NEW p, NEW tr, NEW s, Agreed(cs, p, tr, s, kin, n)
  PROVE  IsPage(p, kin, n) /\ IsKin(kin, n) /\ Grouped(p.projects)
<1>1. 0 \in 0..Len(cs) /\ tr[0] = p
  BY DEF Agreed, PagePath
<1> QED BY <1>1 DEF Agreed

\* Nothing happens to the lists.
LEMMA AsideLists ==
  ASSUME NEW cs, NEW s, NEW p, NEW g, NEW sh, NEW n, Lists(cs, s, p, g, sh, n),
         NEW g2, NEW sh2, Keeps(p, g, sh, g2, sh2, n)
  PROVE  Lists(cs, s, p, g2, sh2, n)
<1>1. n \in Nat /\ IsQueue(cs) /\ Len(cs) \in Nat
  BY QueueLen DEF Lists
<1>2. PICK st, d : StorePath(cs, s, st, d) /\ (Doomed(cs, st, d) \/ Fine(cs, p, st[Len(cs)], g, sh, n))
  BY DEF Lists
<1>3. ASSUME Fine(cs, p, st[Len(cs)], g, sh, n) PROVE Fine(cs, p, st[Len(cs)], g2, sh2, n)
  <2>1. PICK tr, kin : Agreed(cs, p, tr, st[Len(cs)], kin, n) /\ GitOk(g, kin, n) /\ ShownOk(sh, kin, n)
    BY <1>3 DEF Fine
  <2>2. IsPage(p, kin, n)
    BY <1>1, <2>1, PageNow
  <2>3. GitOk(g2, kin, n) /\ ShownOk(sh2, kin, n)
    BY <2>1, <2>2 DEF Keeps
  <2> QED BY <2>1, <2>3 DEF Fine
<1> QED BY <1>1, <1>2, <1>3 DEF Lists

\* A call is sent that is no new order: a new item has the next number.
Numbers(c, n, n2) == IF c.op = "add" THEN n2 = n + 1 /\ c.id = n2 ELSE n2 = n
MaySend(c, p, g, sh, n) ==
  \A kin : (IsPage(p, kin, n) /\ GitOk(g, kin, n) /\ ShownOk(sh, kin, n))
              => /\ c.proj \in Nat /\ c.back # "worktree"
                 /\ AddsWorktree(c) => IsTop(c.proj, kin, n)

LEMMA OkGrows ==
  ASSUME NEW n \in Nat, NEW kin, NEW q, NEW new, Grows(kin, n, q, new), NEW g, NEW sh,
         GitOk(g, kin, n), ShownOk(sh, kin, n)
  PROVE  GitOk(g, new, n + 1) /\ ShownOk(sh, new, n + 1)
<1>1. \A i : IsTop(i, kin, n) => IsTop(i, new, n + 1)
  BY DEF IsTop, Grows
<1> QED BY <1>1 DEF GitOk, ShownOk

\* Sending keeps the two on their way to the same lists.
LEMMA SendFine ==
  ASSUME NEW cs, Len(cs) \in Nat, NEW s, NEW p, NEW g, NEW sh, NEW n \in Nat, Fine(cs, p, s, g, sh, n),
         NEW c, IsCall(c), c.op # "reorder", NEW n2, Numbers(c, n, n2), MaySend(c, p, g, sh, n),
         AddsWorktree(c) => Known(s.projects, c.proj), NEW m, Longer(cs, c, m)
  PROVE  Fine(m, p, Stored(s, c), g, sh, n2)
<1>1. PICK tr, kin : Agreed(cs, p, tr, s, kin, n) /\ GitOk(g, kin, n) /\ ShownOk(sh, kin, n)
  BY DEF Fine
<1>2. c.proj \in Nat /\ c.back # "worktree" /\ (AddsWorktree(c) => IsTop(c.proj, kin, n))
  BY <1>1, PageNow DEF MaySend
<1>3. CASE c.op # "add"
  <2>1. n2 = n /\ FitsCall(c, kin, n) /\ \A q : NewIn(c, q)
    BY <1>2, <1>3 DEF Numbers, FitsCall, IsProjectCall, IsItemCall, Adds, NewIn
  <2>2. PICK tu : Agreed(m, p, tu, Stored(s, c), kin, n)
    BY <1>1, <2>1, SendAgreed
  <2> QED BY <1>1, <2>1, <2>2 DEF Fine
<1>4. CASE c.op = "add"
  <2>1. n2 = n + 1 /\ n2 \in Nat /\ c.id = n + 1
    BY <1>4 DEF Numbers
  <2>2. PICK q : q = IF AddsWorktree(c) THEN c.proj ELSE Top
    OBVIOUS
  <2>3. q = Top \/ IsTop(q, kin, n)
    BY <1>2, <2>2
  <2>4. IsKin(kin, n)
    BY <1>1 DEF Agreed
  <2>5. PICK new : Grows(kin, n, q, new) /\ IsKin(new, n + 1)
    BY <2>3, <2>4, KinGrows
  <2>6. /\ Agreed(cs, p, tr, s, new, n + 1)
        /\ \A i \in 0..Len(cs) : NewIn(c, tr[i])
    BY <1>1, <2>1, <2>5, AgreedGrows
  <2>7. FitsCall(c, new, n + 1)
    <3>1. c.id \in 1..n + 1 /\ (Adds(c, "projects") => new[c.id] = c.proj)
      BY <2>1, <2>2, <2>5 DEF Grows, AddsWorktree
    <3> QED BY <1>2, <3>1 DEF FitsCall, IsProjectCall, IsItemCall
  <2>8. PICK tu : Agreed(m, p, tu, Stored(s, c), new, n + 1)
    BY <2>1, <2>6, <2>7, SendAgreed
  <2>9. GitOk(g, new, n + 1) /\ ShownOk(sh, new, n + 1)
    BY <1>1, <2>5, OkGrows
  <2> QED BY <2>1, <2>8, <2>9 DEF Fine
<1> QED BY <1>3, <1>4

LEMMA SendLists ==
  ASSUME NEW cs, NEW s, NEW p, NEW g, NEW sh, NEW n, Lists(cs, s, p, g, sh, n),
         NEW c, IsRecord(c), c.done = "no", IsCall(c), c.op # "reorder",
         NEW n2, Numbers(c, n, n2), MaySend(c, p, g, sh, n), NEW m, m = Append(cs, c)
  PROVE  Lists(m, s, p, g, sh, n2)
<1>1. n \in Nat /\ IsQueue(cs) /\ n2 \in Nat
  BY DEF Lists, Numbers
<1>2. IsQueue(m) /\ Longer(cs, c, m) /\ Len(cs) \in Nat
  BY <1>1, MoreCalls
<1>3. PICK st, d : StorePath(cs, s, st, d) /\ (Doomed(cs, st, d) \/ Fine(cs, p, st[Len(cs)], g, sh, n))
  BY DEF Lists
<1>4. PICK su : /\ StorePath(m, s, su, d)
                /\ Doomed(cs, st, d) => Doomed(m, su, d)
                /\ (AddsWorktree(c) /\ ~Known(st[Len(cs)].projects, c.proj)) => Doomed(m, su, d)
                /\ su[Len(m)] = Stored(st[Len(cs)], c)
  <2>1. StorePath(cs, s, st, d) /\ Len(cs) \in Nat /\ Longer(cs, c, m) /\ c.done = "no"
    BY <1>2, <1>3
  <2> QED BY ONLY <2>1, SendStore
<1>5. Doomed(m, su, d) \/ Fine(m, p, su[Len(m)], g, sh, n2)
  <2> SUFFICES ASSUME ~Doomed(m, su, d) PROVE Fine(m, p, su[Len(m)], g, sh, n2)
    OBVIOUS
  <2>1. Fine(cs, p, st[Len(cs)], g, sh, n) /\ (AddsWorktree(c) => Known(st[Len(cs)].projects, c.proj))
    BY <1>3, <1>4
  <2>2. Fine(m, p, Stored(st[Len(cs)], c), g, sh, n2)
    BY <1>1, <1>2, <2>1, SendFine
  <2> QED BY <1>4, <2>2
<1> QED BY <1>1, <1>2, <1>4, <1>5 DEF Lists

-----------------------------------------------------------------------------
\* A new order.
Reordered(p, name, to, c) ==
  \E ids \in Seq(Nat) : /\ Distinct(ids) /\ to = Placed(p, name, ids) /\ Grouped(to.projects)
                        /\ Orders(c, name, ids)
                        /\ name = "presets" => Range(ids) \subseteq {x.id : x \in Range(p.presets)}
MayReorder(p, name, to, c, n) ==
  \A kin : (IsPage(p, kin, n) /\ IsKin(kin, n) /\ Grouped(p.projects)) => Reordered(p, name, to, c)

\* So does a new order.
LEMMA MoveFine ==
  ASSUME NEW cs, Len(cs) \in Nat, NEW s, NEW p, NEW g, NEW sh, NEW n \in Nat, Fine(cs, p, s, g, sh, n),
         NEW name \in {"projects", "presets"}, NEW to, NEW c, MayReorder(p, name, to, c, n),
         c.proj \in Nat, c.back # "worktree",
         name = "projects" => \A i \in 1..Len(cs) : ~Adds(cs[i], "projects"),
         NEW m, Longer(cs, c, m)
  PROVE  Fine(m, to, Stored(s, c), g, sh, n)
<1>1. PICK tr, kin : Agreed(cs, p, tr, s, kin, n) /\ GitOk(g, kin, n) /\ ShownOk(sh, kin, n)
  BY DEF Fine
<1>2. IsPage(p, kin, n) /\ IsKin(kin, n) /\ Grouped(p.projects)
  BY <1>1, PageNow
<1>3. Reordered(p, name, to, c)
  BY <1>2 DEF MayReorder
<1>4. PICK ids \in Seq(Nat) :
         /\ Distinct(ids) /\ to = Placed(p, name, ids) /\ Grouped(to.projects) /\ Orders(c, name, ids)
         /\ name = "presets" => Range(ids) \subseteq {x.id : x \in Range(p.presets)}
  BY <1>3 DEF Reordered
<1>5. ASSUME NEW i \in 1..Len(cs) PROVE MayMove(cs[i], name, ids)
  <2>1. CASE name = "projects"
    BY <2>1 DEF MayMove
  <2>2. CASE name = "presets"
    <3>1. NewIn(cs[i], p)
      <4>1. tr[0] = p /\ 0 \in 0..i - 1
        BY <1>1 DEF Agreed, PagePath
      <4> QED BY <1>1, <4>1 DEF Agreed, CallsFit
    <3>2. \A x \in Range(p.presets) : x.id \in Nat
      BY <1>2 DEF IsPage, IsItems
    <3>3. ASSUME Adds(cs[i], "presets") PROVE cs[i].id \notin Range(ids)
      <4>1. \A x \in Range(p.presets) : x.id < cs[i].id /\ x.id \in Nat
        BY <3>1, <3>2, <3>3 DEF NewIn, NewTo
      <4>2. \A x \in Range(p.presets) : x.id # cs[i].id
        BY <4>1
      <4> QED BY <1>4, <2>2, <4>2
    <3> QED BY <2>2, <3>3 DEF MayMove
  <2> QED BY <2>1, <2>2
<1>6. FitsCall(c, kin, n)
  <2>1. c.op = "reorder" /\ c.list = name
    BY <1>4 DEF Orders
  <2> QED BY <2>1 DEF FitsCall, IsCall, ListNames, IsProjectCall, IsItemCall, Adds
<1>7. PICK t : t = Placed(p, name, ids)
  OBVIOUS
<1>8. PICK tu : Agreed(m, t, tu, Stored(s, c), kin, n)
  BY <1>1, <1>4, <1>5, <1>6, <1>7, MoveAgreed
<1> QED BY <1>1, <1>4, <1>7, <1>8 DEF Fine

LEMMA MoveLists ==
  ASSUME NEW cs, NEW s, NEW p, NEW g, NEW sh, NEW n, Lists(cs, s, p, g, sh, n),
         NEW name \in {"projects", "presets"}, NEW to, NEW c, MayReorder(p, name, to, c, n),
         IsRecord(c), c.done = "no", c.op = "reorder", c.proj \in Nat, c.back # "worktree",
         name = "projects" => \A i \in 1..Len(cs) : ~Adds(cs[i], "projects"),
         NEW m, m = Append(cs, c)
  PROVE  Lists(m, s, to, g, sh, n)
<1>1. n \in Nat /\ IsQueue(cs)
  BY DEF Lists
<1>2. IsQueue(m) /\ Longer(cs, c, m) /\ Len(cs) \in Nat
  BY <1>1, MoreCalls
<1>3. PICK st, d : StorePath(cs, s, st, d) /\ (Doomed(cs, st, d) \/ Fine(cs, p, st[Len(cs)], g, sh, n))
  BY DEF Lists
<1>4. PICK su : /\ StorePath(m, s, su, d)
                /\ Doomed(cs, st, d) => Doomed(m, su, d)
                /\ su[Len(m)] = Stored(st[Len(cs)], c)
  <2>1. StorePath(cs, s, st, d) /\ Len(cs) \in Nat /\ Longer(cs, c, m) /\ c.done = "no"
    BY <1>2, <1>3
  <2> QED BY ONLY <2>1, SendStore
<1>5. Fine(cs, p, st[Len(cs)], g, sh, n) => Fine(m, to, Stored(st[Len(cs)], c), g, sh, n)
  BY <1>1, <1>2, MoveFine
<1> QED BY <1>1, <1>2, <1>3, <1>4, <1>5 DEF Lists

\* A project's new place, and a preset's.
OrderedAs(c, list, m) == Orders(c, list, Ids(m))

LEMMA ProjectMoves ==
  ASSUME NEW p, NEW n \in Nat, NEW src, Known(p.projects, src), NEW dst, Known(p.projects, dst),
         NEW before \in BOOLEAN, NEW l, l = MoveGroup(p.projects, src, dst, before),
         NEW c, OrderedAs(c, "projects", l), NEW to, to = [p EXCEPT !.projects = l]
  PROVE  MayReorder(p, "projects", to, c, n)
<1> SUFFICES ASSUME NEW kin, IsPage(p, kin, n), IsKin(kin, n), Grouped(p.projects)
             PROVE  Reordered(p, "projects", to, c)
  BY DEF MayReorder
<1>1. IsThree(p) /\ IsProjects(p.projects, kin, n)
  BY DEF IsPage
<1>2. l \in Seq(PRow) /\ Range(l) = Range(p.projects) /\ IsProjects(l, kin, n) /\ Grouped(l)
  BY <1>1, GroupsMoveWhole
<1>3. HasIds(PRow) /\ p.projects \in Seq(PRow) /\ OneEach(p.projects) /\ OneEach(l)
  BY <1>1, <1>2, RowsHaveIds DEF IsProjects
<1>4. Ids(l) \in Seq(Nat) /\ Distinct(Ids(l))
  BY <1>2, <1>3, IdsAre
<1>5. Reorder(p.projects, Ids(l)) = l
  BY <1>2, <1>3, OrderSentIsOrderKept
<1>6. to = Three(l, p.presets, p.recipes)
  BY <1>1, ThreeSet
<1>7. to = Placed(p, "projects", Ids(l)) /\ to.projects = l
  BY <1>5, <1>6, ThreeIs DEF Placed
<1> QED BY <1>2, <1>4, <1>7 DEF Reordered, OrderedAs

LEMMA PresetMoves ==
  ASSUME NEW p, NEW n \in Nat, NEW src, Known(p.presets, src), NEW dst, Known(p.presets, dst), src # dst,
         NEW before \in BOOLEAN, NEW r, r = Without(p.presets, src),
         NEW at, at = At(r, dst) + (IF before THEN 0 ELSE 1),
         NEW l, l = InsertAt(r, at, p.presets[At(p.presets, src)]),
         NEW c, OrderedAs(c, "presets", l), NEW to, to = [p EXCEPT !.presets = l]
  PROVE  MayReorder(p, "presets", to, c, n)
<1> SUFFICES ASSUME NEW kin, IsPage(p, kin, n), IsKin(kin, n), Grouped(p.projects)
             PROVE  Reordered(p, "presets", to, c)
  BY DEF MayReorder
<1>1. IsThree(p) /\ IsItems(p.presets, n)
  BY DEF IsPage
<1>2. l \in Seq(IRow) /\ Range(l) = Range(p.presets) /\ OneEach(l)
  BY <1>1, MoveItems
<1>3. HasIds(IRow) /\ p.presets \in Seq(IRow) /\ OneEach(p.presets)
  BY <1>1, RowsHaveIds DEF IsItems
<1>4. Ids(l) \in Seq(Nat) /\ Distinct(Ids(l)) /\ Range(Ids(l)) = {x.id : x \in Range(p.presets)}
  BY <1>2, <1>3, IdsAre
<1>5. Reorder(p.presets, Ids(l)) = l
  BY <1>2, <1>3, OrderSentIsOrderKept
<1>6. to = Three(p.projects, l, p.recipes)
  BY <1>1, ThreeSet
<1>7. to = Placed(p, "presets", Ids(l)) /\ to.projects = p.projects
  BY <1>5, <1>6, ThreeIs DEF Placed
<1> QED BY <1>4, <1>7 DEF Reordered, OrderedAs

-----------------------------------------------------------------------------
\* The backend runs a call, and the window gets an answer.
LEMMA RunLists ==
  ASSUME NEW cs, NEW s, NEW p, NEW g, NEW sh, NEW n, Lists(cs, s, p, g, sh, n),
         NEW i \in 1..Len(cs), cs[i].done = "no", \A j \in 1..i - 1 : cs[j].done # "no",
         ~(AddsWorktree(cs[i]) /\ ~Known(s.projects, cs[i].proj)),
         NEW m, m = [cs EXCEPT ![i].done = "ok"]
  PROVE  Lists(m, Stored(s, cs[i]), p, g, sh, n)
<1>1. n \in Nat /\ IsQueue(cs)
  BY DEF Lists
<1>2. Marked(cs, i, "ok", m)
  BY <1>1, RanCalls
<1>3. PICK st, d : StorePath(cs, s, st, d) /\ (Doomed(cs, st, d) \/ Fine(cs, p, st[Len(cs)], g, sh, n))
  BY DEF Lists
<1>4. StorePath(m, Stored(s, cs[i]), st, i) /\ (Doomed(cs, st, d) => Doomed(m, st, i))
  BY <1>2, <1>3, RunStore
<1>5. ASSUME Fine(cs, p, st[Len(cs)], g, sh, n) PROVE Fine(m, p, st[Len(m)], g, sh, n)
  <2>1. PICK tr, kin : Agreed(cs, p, tr, st[Len(cs)], kin, n) /\ GitOk(g, kin, n) /\ ShownOk(sh, kin, n)
    BY <1>5 DEF Fine
  <2>2. Agreed(m, p, tr, st[Len(cs)], kin, n)
    BY <1>1, <1>2, <2>1, RunAgreed
  <2>3. Len(m) = Len(cs)
    BY <1>2 DEF Marked
  <2> QED BY <2>1, <2>2, <2>3 DEF Fine
<1>6. IsQueue(m)
  BY <1>2 DEF Marked
<1> QED BY <1>1, <1>3, <1>4, <1>5, <1>6 DEF Lists

\* What an answer does to the dialog.
AnswerShows(c, sh, sh2) ==
  sh2 = sh \/ sh2.kind # "form" \/ (sh2.id.kind = c.back /\ sh2.id.back = "none")

\* The backend's side of it.
Rests(cs, s, st, d, m, su, e) ==
  /\ StorePath(m, s, su, e)
  /\ Doomed(cs, st, d) => Doomed(m, su, e)
  /\ su[Len(m)] = st[Len(cs)]

LEMMA AnswerLists ==
  ASSUME NEW cs, NEW s, NEW p, NEW g, NEW sh, NEW n, Lists(cs, s, p, g, sh, n),
         cs # << >>, Head(cs).done # "no", NEW m, m = Tail(cs), NEW sh2, AnswerShows(Head(cs), sh, sh2)
  PROVE  Head(cs).done = "ok" /\ Lists(m, s, Paged(p, Head(cs)), g, sh2, n)
<1>1. n \in Nat /\ IsQueue(cs)
  BY DEF Lists
<1>2. /\ IsQueue(m) /\ Len(cs) \in Nat /\ Len(m) = Len(cs) - 1 /\ 1 \in 1..Len(cs) /\ Head(cs) = cs[1]
      /\ \A i \in 1..Len(m) : i + 1 \in 1..Len(cs) /\ m[i] = cs[i + 1]
  BY <1>1, LessCalls
<1>3. PICK st, d : StorePath(cs, s, st, d) /\ (Doomed(cs, st, d) \/ Fine(cs, p, st[Len(cs)], g, sh, n))
  BY DEF Lists
<1>4. PICK c : c = cs[1]
  OBVIOUS
<1>5. c.done = "ok" /\ \E su, e : Rests(cs, s, st, d, m, su, e)
  <2>1. /\ Len(cs) \in Nat /\ StorePath(cs, s, st, d) /\ 1 \in 1..Len(cs) /\ cs[1].done # "no"
        /\ Len(m) = Len(cs) - 1 /\ \A i \in 1..Len(m) : i + 1 \in 1..Len(cs) /\ m[i] = cs[i + 1]
    BY <1>2, <1>3
  <2> QED BY ONLY <1>4, <2>1, AnswerStore DEF Rests
<1>6. PICK su, e : Rests(cs, s, st, d, m, su, e)
  BY ONLY <1>5
<1>7. ASSUME Fine(cs, p, st[Len(cs)], g, sh, n) PROVE Fine(m, Paged(p, c), su[Len(m)], g, sh2, n)
  <2>1. PICK tr, kin : Agreed(cs, p, tr, st[Len(cs)], kin, n) /\ GitOk(g, kin, n) /\ ShownOk(sh, kin, n)
    BY <1>7 DEF Fine
  <2>2. PICK tu : Agreed(m, Paged(p, c), tu, st[Len(cs)], kin, n)
    BY <1>1, <1>2, <1>4, <2>1, AnswerAgreed
  <2>3. c.back # "worktree"
    BY <1>2, <1>4, <2>1 DEF Agreed, CallsFit, FitsCall
  <2>4. ShownOk(sh2, kin, n)
    BY <1>2, <1>4, <2>1, <2>3 DEF ShownOk, AnswerShows
  <2> QED BY <1>6, <2>1, <2>2, <2>4 DEF Fine, Rests
<1> QED BY <1>1, <1>2, <1>3, <1>4, <1>5, <1>6, <1>7 DEF Lists, Rests

\* What the lists are once everything is answered.
LEMMA ListsMean ==
  ASSUME NEW s, NEW p, NEW g, NEW sh, NEW n, NEW cs, cs = << >>, Lists(cs, s, p, g, sh, n)
  PROVE  /\ \A list \in DOMAIN s : Ids(s[list]) = Ids(p[list])
         /\ SidebarOrder(p.projects) = p.projects
<1>1. n \in Nat /\ Len(cs) = 0
  BY DEF Lists
<1>2. PICK st, d : StorePath(cs, s, st, d) /\ (Doomed(cs, st, d) \/ Fine(cs, p, st[Len(cs)], g, sh, n))
  BY DEF Lists
<1>3. st[Len(cs)] = s
  BY <1>1, <1>2 DEF StorePath
<1>4. ~Doomed(cs, st, d)
  BY <1>1 DEF Doomed
<1>5. PICK tr, kin : Agreed(cs, p, tr, s, kin, n)
  BY <1>2, <1>3, <1>4 DEF Fine
<1>6. IsPage(p, kin, n) /\ IsKin(kin, n) /\ Grouped(p.projects)
  BY <1>1, <1>5, PageNow
<1>7. s = AsStored(p)
  BY <1>1, <1>5 DEF Agreed, PagePath
<1>8. IsProjects(p.projects, kin, n) /\ p.projects \in Seq(PRow)
  BY <1>6 DEF IsPage, IsProjects
<1>9. SidebarOrder(p.projects) = p.projects
  BY <1>1, <1>6, <1>8, SidebarShowsTheOrder
<1>10. Ids(Settled(p.projects)) = Ids(p.projects)
  BY <1>8, SettledIs
<1>11. DOMAIN s = ListNames /\ s["projects"] = Settled(p.projects) /\ s["presets"] = p.presets
       /\ s["recipes"] = p.recipes
  BY <1>7, ThreeIs DEF AsStored, Three, ListNames
<1> QED BY <1>9, <1>10, <1>11 DEF ListNames

-----------------------------------------------------------------------------
(* The steps                                                               *)
ListsInv == skew # {} \/ Lists(calls, store, page, git, shown, items)

Call(op, list, id, proj, ids, back) ==
  [op |-> op, list |-> list, id |-> id, proj |-> proj, ids |-> ids, back |-> back, done |-> "no"]

LEMMA CallIs ==
  ASSUME NEW op, NEW list, NEW id, NEW proj, NEW ids, NEW back, NEW c, c = Call(op, list, id, proj, ids, back)
  PROVE  /\ IsRecord(c) /\ c.done = "no"
         /\ c.op = op /\ c.list = list /\ c.id = id /\ c.proj = proj /\ c.ids = ids /\ c.back = back
BY DEF Call, IsRecord, CallFields

\* Steps that leave the lists and the calls alone.
Stays == UNCHANGED <<store, page, calls, skew, items>>
Shows == \/ shown' = shown \/ shown'.kind # "form"
         \/ shown'.id.kind # "worktree" /\ shown'.id.back # "worktree"
Asks == \A x \in git' : x \in git \/ x.op \notin {"info", "add"}

LEMMA KeepsStep ==
  ASSUME ListsInv, Stays, Keeps(page, git, shown, git', shown', items) PROVE ListsInv'
<1>1. CASE skew # {}
  BY <1>1 DEF ListsInv, Stays
<1>2. CASE Lists(calls, store, page, git, shown, items)
  <2>1. Lists(calls, store, page, git', shown', items)
    BY <1>2, AsideLists
  <2> QED BY <2>1 DEF ListsInv, Stays
<1> QED BY <1>1, <1>2 DEF ListsInv

LEMMA ShowsKeeps == ASSUME Shows, Asks PROVE Keeps(page, git, shown, git', shown', items)
BY DEF Shows, Asks, Keeps, GitOk, ShownOk

LEMMA AsideStep == ASSUME ListsInv, Stays, Shows, Asks PROVE ListsInv'
BY KeepsStep, ShowsKeeps

\* Steps that send a call.
LEMMA SendStep ==
  ASSUME ListsInv, UNCHANGED <<store, page, skew>>, NEW c, Send(c), IsRecord(c), c.done = "no",
         IsCall(c), c.op # "reorder", Numbers(c, items, items'), MaySend(c, page, git, shown, items),
         Shows, Asks
  PROVE  ListsInv'
<1>1. CASE skew # {}
  BY <1>1 DEF ListsInv
<1>2. CASE Lists(calls, store, page, git, shown, items)
  <2>1. calls' = Append(calls, c)
    BY DEF Send
  <2>2. Lists(calls', store, page, git, shown, items')
    BY <1>2, <2>1, SendLists
  <2>3. Keeps(page, git, shown, git', shown', items')
    BY DEF Shows, Asks, Keeps, GitOk, ShownOk
  <2>4. Lists(calls', store, page, git', shown', items')
    BY <2>2, <2>3, AsideLists
  <2> QED BY <2>4 DEF ListsInv
<1> QED BY <1>1, <1>2 DEF ListsInv

-----------------------------------------------------------------------------
\* The other dialogs show no form.
Slot == shown' = shown \/ shown'.kind # "form"

LEMMA ShowSlot == ASSUME NEW kind, NEW id, kind # "form", Show(kind, id) PROVE Slot
BY DEF Show, Slot

LEMMA CloseSlot == ASSUME NEW by, Close(by) PROVE Slot
BY DEF Close, Slot, Nothing

\* The editor's steps.
LEMMA EditorSlot == ASSUME EditorNext PROVE Slot
<1>1. ASSUME NEW p, NEW big, AskPreview(p) \/ AskEditor(p) \/ OtherProgram(p, big) PROVE Slot
  BY <1>1 DEF AskPreview, AskEditor, OtherProgram, Slot
<1>2. ASSUME NEW r, NEW ok, ReadForPreview(r, ok) PROVE Slot
  BY <1>2, ShowSlot DEF ReadForPreview
<1>3. ASSUME NEW r, NEW ok, ReadForEditor(r, ok) PROVE Slot
  <2>1. UNCHANGED shown \/ Show("editor", Cardinality(DOMAIN eds) + 1)
    BY <1>3 DEF ReadForEditor
  <2> QED BY <2>1, ShowSlot DEF Slot
<1>4. ASSUME NEW bad, Type(bad) \/ SaveButton \/ SaveKey PROVE Slot
  BY <1>4 DEF Type, SaveButton, SaveKey, Slot
<1>5. ASSUME Cancel PROVE Slot
  <2>1. UNCHANGED shown \/ Close(shown)
    BY <1>5 DEF Cancel
  <2> QED BY <2>1, CloseSlot DEF Slot
<1>6. ASSUME NEW e, WriteTmp(e) \/ Rename(e) \/ WriteFails(e) \/ SaveAnswered(e) \/ Disarm(e)
      PROVE  Slot
  BY <1>6 DEF WriteTmp, Rename, WriteFails, SaveAnswered, Disarm, Slot
<1> QED BY <1>1, <1>2, <1>3, <1>4, <1>5, <1>6 DEF EditorNext

\* The settings' steps.
LEMMA SettingsSlot == ASSUME SettingsNext PROVE Slot
<1>1. ASSUME AskSettings \/ SaveSettings \/ PickFont PROVE Slot
  BY <1>1 DEF AskSettings, SaveSettings, PickFont, Slot
<1>2. ASSUME CancelSettings PROVE Slot
  BY <1>2 DEF CancelSettings, Slot, Nothing
<1>3. ASSUME NEW i, DrawSettings(i) PROVE Slot
  BY <1>3, ShowSlot DEF DrawSettings
<1>4. ASSUME NEW ok, NEW hooks, SettingsAnswered(ok, hooks) PROVE Slot
  BY <1>4 DEF SettingsAnswered, Close, Slot, Nothing
<1>5. ASSUME NEW v, PreviewFont(v) \/ PreviewLook(v) PROVE Slot
  BY <1>5 DEF PreviewFont, PreviewLook, Slot
<1>6. ASSUME NEW i, NEW v, FontPicked(i, v) \/ NothingPicked(i) PROVE Slot
  BY <1>6 DEF FontPicked, NothingPicked, Slot
<1>7. ASSUME NEW i, HooksSet(i) PROVE Slot
  BY <1>7, CloseSlot DEF HooksSet
<1> QED BY <1>1, <1>2, <1>3, <1>4, <1>5, <1>6, <1>7 DEF SettingsNext

\* The steps of the slot itself.
LEMMA SlotSlot == ASSUME SlotNext PROVE Slot
<1>1. ASSUME NEW inside, EscKey(inside) PROVE Slot
  BY <1>1 DEF EscKey, Slot, Nothing
<1>2. ASSUME CloseButton \/ SessionsCleared PROVE Slot
  BY <1>2, CloseSlot DEF CloseButton, SessionsCleared
<1>3. ASSUME StartPull PROVE Slot
  <2>1. UNCHANGED shown \/ Close(shown)
    BY <1>3 DEF StartPull
  <2> QED BY <2>1, CloseSlot DEF Slot
<1>4. ASSUME NEW ok, EndPull(ok) PROVE Slot
  <2>1. UNCHANGED shown \/ Show("pull", 0)
    BY <1>4 DEF EndPull
  <2> QED BY <2>1, ShowSlot DEF Slot
<1>5. ASSUME NEW p, ArmDiscard(p) PROVE Slot
  BY <1>5 DEF ArmDiscard, Slot
<1>6. ASSUME DisarmDiscard \/ Discard \/ ClearSessions PROVE Slot
  BY <1>6 DEF DisarmDiscard, Discard, ClearSessions, Slot
<1>7. ASSUME ShowUpdate \/ AskClear PROVE Slot
  BY <1>7, ShowSlot DEF ShowUpdate, AskClear
<1> QED BY <1>1, <1>2, <1>3, <1>4, <1>5, <1>6, <1>7 DEF SlotNext

\* The dialogs that are no forms leave the lists alone.
LEMMA DialogsStep == ASSUME ListsInv, DialogsNext, UNCHANGED projectVars PROVE ListsInv'
<1>1. Slot
  BY EditorSlot, SettingsSlot, SlotSlot DEF DialogsNext
<1>2. Stays /\ Asks
  BY DEF projectVars, Stays, Asks
<1> QED BY <1>1, <1>2, AsideStep DEF Slot, Shows

-----------------------------------------------------------------------------
\* Forms that open and close.
LEMMA OpenShows ==
  ASSUME NEW kind, NEW item, NEW back, kind # "worktree", back # "worktree", OpenForm(Form(kind, item, back))
  PROVE  Shows
BY DEF OpenForm, Form, Show, Shows

LEMMA LeaveShows == ASSUME LeaveForm PROVE Shows
BY DEF LeaveForm, Close, Nothing, Shows

LEMMA SameGit == ASSUME UNCHANGED git PROVE Asks
BY DEF Asks

\* The forms and managers open.
LEMMA FormSteps ==
  ASSUME ListsInv,
         \/ \E id : ShowProject(id) \/ ShowPreset(id) \/ ShowRecipe(id) \/ StartFromAdd(id) \/ RunRecipe(id)
         \/ ShowSessionAdd \/ \E list \in {"presets", "recipes"} : ShowManager(list)
  PROVE  ListsInv'
<1>1. ASSUME NEW id, ShowProject(id) PROVE ListsInv'
  <2>1. Stays /\ Asks
    BY <1>1, SameGit DEF ShowProject, Stays, listVars, gitVars
  <2>2. Shows
    BY <1>1, OpenShows DEF ShowProject
  <2> QED BY <2>1, <2>2, AsideStep
<1>2. ASSUME NEW id, ShowPreset(id) PROVE ListsInv'
  <2>1. Stays /\ Asks
    BY <1>2, SameGit DEF ShowPreset, Stays, listVars, gitVars
  <2>2. Shows
    BY <1>2, OpenShows DEF ShowPreset
  <2> QED BY <2>1, <2>2, AsideStep
<1>3. ASSUME NEW id, ShowRecipe(id) PROVE ListsInv'
  <2>1. Stays /\ Asks
    BY <1>3, SameGit DEF ShowRecipe, Stays, listVars, gitVars
  <2>2. Shows
    BY <1>3, OpenShows DEF ShowRecipe
  <2> QED BY <2>1, <2>2, AsideStep
<1>4. ASSUME NEW id, StartFromAdd(id) \/ RunRecipe(id) PROVE ListsInv'
  <2>1. Stays /\ Asks
    BY <1>4, SameGit DEF StartFromAdd, RunRecipe, Stays, listVars
  <2>2. Shows
    BY <1>4, LeaveShows DEF StartFromAdd, RunRecipe
  <2> QED BY <2>1, <2>2, AsideStep
<1>5. ASSUME ShowSessionAdd PROVE ListsInv'
  <2>1. Stays /\ Asks
    BY <1>5, SameGit DEF ShowSessionAdd, Stays, listVars, gitVars
  <2>2. Shows
    BY <1>5, OpenShows DEF ShowSessionAdd
  <2> QED BY <2>1, <2>2, AsideStep
<1>6. ASSUME NEW list \in {"presets", "recipes"}, ShowManager(list) PROVE ListsInv'
  <2>1. Stays /\ Asks
    BY <1>6, SameGit DEF ShowManager, Stays, listVars, gitVars
  <2>2. list # "worktree" /\ OpenForm(Form(list, 0, "none"))
    BY <1>6 DEF ShowManager
  <2>3. Shows
    BY <2>2, OpenShows
  <2> QED BY <2>1, <2>3, AsideStep
<1> QED BY <1>1, <1>2, <1>3, <1>4, <1>5, <1>6

\* A form closes, and the manager comes back.
LEMMA CancelStep == ASSUME ListsInv, CancelForm PROVE ListsInv'
<1>1. Stays /\ Asks /\ shown.kind = "form" /\ Finish(shown.id.back)
  BY SameGit DEF CancelForm, Stays, listVars, gitVars
<1>2. \/ shown'.kind # "form"
      \/ shown'.id.kind = shown.id.back /\ shown'.id.back = "none"
  BY <1>1 DEF Finish, Close, Nothing, Show, Form
<1>3. Keeps(page, git, shown, git', shown', items)
  BY <1>1, <1>2 DEF Keeps, GitOk, ShownOk, Asks
<1> QED BY <1>1, <1>3, KeepsStep

-----------------------------------------------------------------------------
\* The save and delete buttons.
LEMMA SaveStep ==
  ASSUME ListsInv, NEW kind, Shown(kind), NEW list \in ListNames, NEW proj, SaveForm(list, proj),
         proj \in Scopes, list = "projects" => proj = Top
  PROVE  ListsInv'
<1>1. /\ shown.kind = "form" /\ UNCHANGED <<store, page, skew, shown, git>>
      /\ Shows /\ Asks
  BY SameGit DEF Shown, SaveForm, dialogVars, gitVars, Shows
<1>2. PICK op, id :
         /\ op \in {"add", "update"}
         /\ Send(NewCall(op, list, id, proj))
         /\ op = "add" => items' = items + 1 /\ id = items'
         /\ op = "update" => items' = items
  BY DEF SaveForm
<1>3. PICK c : c = NewCall(op, list, id, proj)
  OBVIOUS
<1>4. c = Call(op, list, id, proj, << >>, shown.id.back)
  BY <1>3 DEF NewCall, Call
<1>5. /\ IsRecord(c) /\ c.done = "no"
      /\ c.op = op /\ c.list = list /\ c.id = id /\ c.proj = proj /\ c.back = shown.id.back
  BY <1>4, CallIs
<1>6. IsCall(c) /\ c.op # "reorder" /\ Numbers(c, items, items')
  BY <1>2, <1>5 DEF IsCall, Numbers
<1>7. ~AddsWorktree(c)
  BY <1>5 DEF AddsWorktree, Adds
<1>8. MaySend(c, page, git, shown, items)
  <2> SUFFICES ASSUME NEW kin, IsPage(page, kin, items), GitOk(git, kin, items), ShownOk(shown, kin, items)
               PROVE  proj \in Nat /\ c.back # "worktree"
    BY <1>5, <1>7 DEF MaySend
  <2>1. c.back # "worktree"
    BY <1>1, <1>5 DEF ShownOk
  <2>2. CASE proj = Top
    BY <2>1, <2>2 DEF Top
  <2>3. CASE proj \in PageIds("projects")
    <3>1. PICK i \in DOMAIN page["projects"] : proj = page["projects"][i].id
      BY <2>3 DEF PageIds
    <3>2. page.projects \in Seq(PRow) /\ DOMAIN page.projects = 1..Len(page.projects)
      BY LenProperties DEF IsPage, IsProjects
    <3>3. page.projects[i] \in PRow
      BY <3>1, <3>2, ElementOfSeq
    <3> QED BY <2>1, <3>1, <3>3 DEF PRow
  <2> QED BY <2>2, <2>3 DEF Scopes
<1>9. Send(c)
  BY <1>2, <1>3
<1> QED BY <1>1, <1>5, <1>6, <1>8, <1>9, SendStep

\* Removing something, in a form, in a manager's row or behind a worktree.
LEMMA RemoveStep ==
  ASSUME ListsInv, UNCHANGED <<store, page, skew, items>>, NEW list \in ListNames, NEW id, NEW back,
         back # "worktree" \/ (shown.kind = "form" /\ back = shown.id.back),
         Send(Call("remove", list, id, Top, << >>, back)), Shows, Asks
  PROVE  ListsInv'
<1>1. PICK c : c = Call("remove", list, id, Top, << >>, back)
  OBVIOUS
<1>2. /\ IsRecord(c) /\ c.done = "no" /\ Send(c)
      /\ c.op = "remove" /\ c.list = list /\ c.id = id /\ c.proj = Top /\ c.back = back
  BY <1>1, CallIs
<1>3. IsCall(c) /\ c.op # "reorder" /\ Numbers(c, items, items') /\ ~AddsWorktree(c)
  BY <1>2 DEF IsCall, Numbers, AddsWorktree, Adds
<1>4. MaySend(c, page, git, shown, items)
  BY <1>2, <1>3 DEF MaySend, ShownOk, Top
<1> QED BY <1>2, <1>3, <1>4, SendStep

\* The delete buttons.
LEMMA DeleteSteps ==
  ASSUME ListsInv,
         \/ DeleteProject
         \/ \E list \in {"presets", "recipes"} : DeleteItem(list) \/ \E id : DeleteRow(list, id)
  PROVE  ListsInv'
<1>1. CASE DeleteProject
  <2>1. /\ UNCHANGED <<store, page, skew, items>> /\ Shows /\ Asks /\ shown.kind = "form"
        /\ Send(NewCall("remove", "projects", shown.id.item, Top))
    BY <1>1, SameGit DEF DeleteProject, Shown, gitVars, dialogVars, Shows
  <2>2. NewCall("remove", "projects", shown.id.item, Top)
          = Call("remove", "projects", shown.id.item, Top, << >>, shown.id.back)
    BY DEF NewCall, Call
  <2> QED BY <2>1, <2>2, RemoveStep DEF ListNames
<1>2. ASSUME NEW list \in {"presets", "recipes"}, DeleteItem(list) PROVE ListsInv'
  <2>1. /\ UNCHANGED <<store, page, skew, items>> /\ Shows /\ Asks /\ shown.kind = "form"
        /\ Send(NewCall("remove", list, shown.id.item, Top)) /\ list \in ListNames
    BY <1>2, SameGit DEF DeleteItem, Shown, gitVars, dialogVars, Shows, ListNames
  <2>2. NewCall("remove", list, shown.id.item, Top)
          = Call("remove", list, shown.id.item, Top, << >>, shown.id.back)
    BY DEF NewCall, Call
  <2> QED BY <2>1, <2>2, RemoveStep
<1>3. ASSUME NEW list \in {"presets", "recipes"}, NEW id, DeleteRow(list, id) PROVE ListsInv'
  <2>1. /\ UNCHANGED <<store, page, skew, items>> /\ Shows /\ Asks /\ list \in ListNames /\ list # "worktree"
        /\ Send([NewCall("remove", list, id, Top) EXCEPT !.back = list])
    BY <1>3, SameGit DEF DeleteRow, gitVars, dialogVars, Shows, ListNames
  <2>2. [NewCall("remove", list, id, Top) EXCEPT !.back = list]
          = Call("remove", list, id, Top, << >>, list)
    BY DEF NewCall, Call
  <2> QED BY <2>1, <2>2, RemoveStep
<1> QED BY <1>1, <1>2, <1>3

-----------------------------------------------------------------------------
\* Dragging.
LEMMA MoveStep ==
  ASSUME ListsInv, UNCHANGED <<store, shown, git, items>>, NEW name \in {"projects", "presets"}, NEW l,
         Send(OrderCall(name, l)), skew # {} => skew' # {},
         \A c, n : OrderedAs(c, name, l) /\ n \in Nat => MayReorder(page, name, page', c, n),
         name = "projects" => skew' # {} \/ \A i \in DOMAIN calls : ~Adds(calls[i], "projects")
  PROVE  ListsInv'
<1> SUFFICES ASSUME skew' = {} PROVE Lists(calls', store, page', git, shown, items)
  BY DEF ListsInv
<1>1. Lists(calls, store, page, git, shown, items)
  BY DEF ListsInv
<1>2. items \in Nat /\ DOMAIN calls = 1..Len(calls)
  BY <1>1, QueueLen DEF Lists
<1>3. PICK c : c = OrderCall(name, l)
  OBVIOUS
<1>4. c = Call("reorder", name, 0, Top, Ids(l), "none")
  BY <1>3 DEF OrderCall, Call
<1>5. /\ IsRecord(c) /\ c.done = "no" /\ c.proj \in Nat /\ c.back # "worktree" /\ c.op = "reorder"
      /\ OrderedAs(c, name, l)
  BY <1>4, CallIs DEF OrderedAs, Orders, Top
<1>6. MayReorder(page, name, page', c, items)
  BY <1>2, <1>5
<1>7. calls' = Append(calls, c)
  BY <1>3 DEF Send
<1>8. name = "projects" => \A i \in 1..Len(calls) : ~Adds(calls[i], "projects")
  BY <1>2
<1> QED BY <1>1, <1>5, <1>6, <1>7, <1>8, MoveLists

LEMMA OnPage ==
  ASSUME NEW list \in {"projects", "presets"}, NEW id \in PageIds(list)
  PROVE  Known(page[list], id)
BY DEF PageIds, Known

\* A project is dragged.
LEMMA ProjectStep ==
  ASSUME ListsInv, NEW src \in PageIds("projects"), NEW dst \in PageIds("projects"), NEW b \in BOOLEAN,
         MoveProject(src, dst, b)
  PROVE  ListsInv'
<1>1. PICK l : l = MoveGroup(page.projects, src, dst, b)
  OBVIOUS
<1>2. /\ page' = [page EXCEPT !.projects = l] /\ Send(OrderCall("projects", l))
      /\ skew' = IF \E i \in DOMAIN calls : calls[i].op = "add" /\ calls[i].list = "projects"
                 THEN skew \cup {"dragged"} ELSE skew
      /\ UNCHANGED <<store, shown, git, items>>
  BY <1>1 DEF MoveProject, dialogVars, gitVars
<1>3. Known(page.projects, src) /\ Known(page.projects, dst)
  <2>1. Known(page["projects"], src) /\ Known(page["projects"], dst)
    BY OnPage
  <2> QED BY <2>1
<1>4. ASSUME NEW c, NEW n \in Nat, OrderedAs(c, "projects", l) PROVE MayReorder(page, "projects", page', c, n)
  BY <1>1, <1>2, <1>3, <1>4, ProjectMoves
<1>5. skew # {} => skew' # {}
  BY <1>2
<1>6. skew' # {} \/ \A i \in DOMAIN calls : ~Adds(calls[i], "projects")
  BY <1>2 DEF Adds
<1> QED BY <1>2, <1>4, <1>5, <1>6, MoveStep

\* A preset is dragged.
LEMMA PresetStep ==
  ASSUME ListsInv, NEW src \in PageIds("presets"), NEW dst \in PageIds("presets"), NEW b \in BOOLEAN,
         MovePreset(src, dst, b)
  PROVE  ListsInv'
<1>1. PICK r : r = Without(page.presets, src)
  OBVIOUS
<1>2. PICK at : at = At(r, dst) + (IF b THEN 0 ELSE 1)
  OBVIOUS
<1>3. PICK l : l = InsertAt(r, at, page.presets[At(page.presets, src)])
  OBVIOUS
<1>4. /\ page' = [page EXCEPT !.presets = l] /\ Send(OrderCall("presets", l)) /\ src # dst
      /\ UNCHANGED <<store, shown, git, items, skew>>
  BY <1>1, <1>2, <1>3 DEF MovePreset, dialogVars, gitVars
<1>5. Known(page.presets, src) /\ Known(page.presets, dst)
  <2>1. Known(page["presets"], src) /\ Known(page["presets"], dst)
    BY OnPage
  <2> QED BY <2>1
<1>6. ASSUME NEW c, NEW n \in Nat, OrderedAs(c, "presets", l) PROVE MayReorder(page, "presets", page', c, n)
  BY <1>1, <1>2, <1>3, <1>4, <1>5, <1>6, PresetMoves
<1> QED BY <1>4, <1>6, MoveStep

-----------------------------------------------------------------------------
\* The backend runs a call; the window hears of it.
LEMMA RunStep == ASSUME ListsInv, RunCall PROVE ListsInv'
<1>1. PICK i \in DOMAIN calls, ok \in BOOLEAN :
         /\ calls[i].done = "no" /\ \A j \in 1..i - 1 : calls[j].done # "no"
         /\ store' = Stored(store, calls[i])
         /\ calls' = [calls EXCEPT ![i].done = IF ok THEN "ok" ELSE "failed"]
         /\ skew' = IF ~ok THEN skew \cup {"failed"}
                    ELSE IF /\ calls[i].op = "add" /\ calls[i].list = "projects" /\ calls[i].proj # Top
                            /\ ~Known(store.projects, calls[i].proj)
                    THEN skew \cup {"orphan"} ELSE skew
         /\ UNCHANGED <<dialogVars, page, gitVars, acts, items>>
  BY DEF RunCall
<1> SUFFICES ASSUME skew' = {} PROVE Lists(calls', store', page, git, shown, items)
  BY <1>1 DEF ListsInv, dialogVars, gitVars
<1>2. Lists(calls, store, page, git, shown, items) /\ ok /\ calls' = [calls EXCEPT ![i].done = "ok"]
  BY <1>1 DEF ListsInv
<1>3. ~(AddsWorktree(calls[i]) /\ ~Known(store.projects, calls[i].proj))
  BY <1>1 DEF AddsWorktree, Adds
<1>4. i \in 1..Len(calls)
  BY <1>2, QueueLen DEF Lists
<1>5. Lists(calls', Stored(store, calls[i]), page, git, shown, items)
  BY <1>1, <1>2, <1>3, <1>4, RunLists
<1> QED BY <1>1, <1>5

\* The window hears of the first call.
LEMMA AnswerStep == ASSUME ListsInv, Answered PROVE ListsInv'
<1>1. PICK c : c = Head(calls)
  OBVIOUS
<1>2. /\ calls # << >> /\ c.done # "no" /\ calls' = Tail(calls)
      /\ page' = IF c.done = "ok" THEN Paged(page, c) ELSE page
      /\ UNCHANGED dialogVars \/ Finish(c.back)
      /\ UNCHANGED <<store, skew, git, items>>
  BY <1>1 DEF Answered
<1>3. CASE skew # {}
  BY <1>2, <1>3 DEF ListsInv
<1>4. CASE Lists(calls, store, page, git, shown, items)
  <2>1. AnswerShows(c, shown, shown')
    BY <1>2 DEF AnswerShows, dialogVars, Finish, Close, Nothing, Show, Form
  <2>2. c.done = "ok" /\ Lists(calls', store, Paged(page, c), git, shown', items)
    BY <1>1, <1>2, <1>4, <2>1, AnswerLists
  <2> QED BY <1>2, <2>2 DEF ListsInv
<1> QED BY <1>3, <1>4 DEF ListsInv

\* Every step of the forms and of the backend.
LEMMA FormsStep == ASSUME ListsInv, FormsNext PROVE ListsInv'
<1>1. ASSUME SaveProject \/ \E scope \in Scopes : SavePreset(scope) \/ SaveRecipe(scope) PROVE ListsInv'
  <2>1. CASE SaveProject
    <3>1. Shown("project") /\ SaveForm("projects", Top) /\ Top \in Scopes /\ "projects" \in ListNames
      BY <2>1 DEF SaveProject, Scopes, ListNames
    <3> QED BY <3>1, SaveStep
  <2>2. ASSUME NEW scope \in Scopes, SavePreset(scope) PROVE ListsInv'
    <3>1. Shown("preset") /\ SaveForm("presets", scope) /\ "presets" \in ListNames
      BY <2>2 DEF SavePreset, ListNames
    <3> QED BY <3>1, SaveStep
  <2>3. ASSUME NEW scope \in Scopes, SaveRecipe(scope) PROVE ListsInv'
    <3>1. Shown("recipe") /\ SaveForm("recipes", scope) /\ "recipes" \in ListNames
      BY <2>3 DEF SaveRecipe, ListNames
    <3> QED BY <3>1, SaveStep
  <2> QED BY <1>1, <2>1, <2>2, <2>3
<1> QED BY <1>1, ProjectStep, PresetStep, FormSteps, CancelStep, DeleteSteps, RunStep, AnswerStep DEF FormsNext

-----------------------------------------------------------------------------
\* Git is asked about projects only: those the sidebar offers it for.
LEMMA TopOnPage ==
  ASSUME NEW kin, NEW n, IsPage(page, kin, n), NEW id \in PageIds("projects") \ Worktrees
  PROVE  IsTop(id, kin, n)
<1>1. PICK i \in DOMAIN page["projects"] : id = page["projects"][i].id
  BY DEF PageIds
<1>2. page.projects[i].parent = Top
  BY <1>1 DEF Worktrees
<1>3. DOMAIN page.projects = 1..Len(page.projects) /\ page.projects[i] \in Range(page.projects)
  BY <1>1, LenProperties, RangeIs DEF IsPage, IsProjects
<1> QED BY <1>1, <1>2, <1>3 DEF IsPage, IsProjects, IsTop

\* Git is asked, and answers.
LEMMA AskSteps ==
  ASSUME ListsInv,
         \/ \E id \in PageIds("projects") \ Worktrees : AskWorktree(id)
         \/ \E g \in git, ok \in BOOLEAN : InfoAnswered(g, ok)
         \/ CreateWorktree
  PROVE  ListsInv'
<1>1. ASSUME NEW id \in PageIds("projects") \ Worktrees, AskWorktree(id) PROVE ListsInv'
  <2>1. Stays /\ UNCHANGED shown /\ git' = git \cup {[op |-> "info", id |-> id]}
    BY <1>1 DEF AskWorktree, Ask, Stays, listVars, dialogVars
  <2>2. Keeps(page, git, shown, git', shown', items)
    BY <2>1, TopOnPage DEF Keeps, GitOk
  <2> QED BY <2>1, <2>2, KeepsStep
<1>2. ASSUME NEW g \in git, NEW ok \in BOOLEAN, InfoAnswered(g, ok) PROVE ListsInv'
  <2>1. /\ Stays /\ git' = git \ {g} /\ g.op = "info"
        /\ UNCHANGED shown \/ shown' = [kind |-> "form", id |-> Form("worktree", g.id, "none")]
    BY <1>2 DEF InfoAnswered, Stays, listVars, dialogVars, OpenForm, Show
  <2>2. Keeps(page, git, shown, git', shown', items)
    BY <2>1 DEF Keeps, GitOk, ShownOk, Form
  <2> QED BY <2>1, <2>2, KeepsStep
<1>3. ASSUME CreateWorktree PROVE ListsInv'
  <2>1. /\ Stays /\ git' = git \cup {[op |-> "add", id |-> shown.id.item]} /\ UNCHANGED shown
        /\ shown.kind = "form" /\ shown.id.kind = "worktree"
    BY <1>3 DEF CreateWorktree, Ask, Shown, Stays, listVars, dialogVars
  <2>2. Keeps(page, git, shown, git', shown', items)
    BY <2>1 DEF Keeps, GitOk, ShownOk
  <2> QED BY <2>1, <2>2, KeepsStep
<1> QED BY <1>1, <1>2, <1>3

\* git made the folder: the worktree is registered.
LEMMA AddedStep == ASSUME ListsInv, NEW g \in git, NEW ok \in BOOLEAN, WorktreeAdded(g, ok) PROVE ListsInv'
<1>1. g.op = "add" /\ git' = git \ {g} /\ UNCHANGED <<shown, store, page, skew>> /\ Shows /\ Asks
  BY DEF WorktreeAdded, dialogVars, Shows, Asks
<1>2. CASE ~ok
  <2>1. Stays
    BY <1>2 DEF WorktreeAdded, Stays
  <2> QED BY <1>1, <2>1, AsideStep
<1>3. CASE ok
  <2>1. PICK c : c = Call("add", "projects", items + 1, g.id, << >>, "none")
    OBVIOUS
  <2>2. items' = items + 1 /\ Send(c)
    BY <1>3, <2>1 DEF WorktreeAdded, Call
  <2>3. /\ IsRecord(c) /\ c.done = "no"
        /\ c.op = "add" /\ c.list = "projects" /\ c.id = items + 1 /\ c.proj = g.id /\ c.back = "none"
    BY <2>1, CallIs
  <2>4. IsCall(c) /\ c.op # "reorder" /\ Numbers(c, items, items')
    BY <2>2, <2>3 DEF IsCall, Numbers, ListNames
  <2>5. MaySend(c, page, git, shown, items)
    BY <1>1, <2>3 DEF MaySend, GitOk, IsTop
  <2> QED BY <1>1, <2>2, <2>3, <2>4, <2>5, SendStep
<1> QED BY <1>2, <1>3

\* A worktree goes.
LEMMA RemovalSteps ==
  ASSUME ListsInv, DropForeign \/ \E g \in git : WorktreeRemoved(g)
  PROVE  ListsInv'
<1>1. CASE DropForeign
  <2>1. /\ UNCHANGED <<store, page, skew, items>> /\ Shows /\ Asks
        /\ Send(DropCall(shown.id.item))
    BY <1>1, LeaveShows, SameGit DEF DropForeign, gitVars
  <2>2. DropCall(shown.id.item) = Call("remove", "projects", shown.id.item, Top, << >>, "dropped")
    BY DEF DropCall, Call
  <2> QED BY <2>1, <2>2, RemoveStep DEF ListNames
<1>2. ASSUME NEW g \in git, WorktreeRemoved(g) PROVE ListsInv'
  <2>1. /\ UNCHANGED <<store, page, skew, items>> /\ Shows /\ Asks
        /\ UNCHANGED calls \/ Send(DropCall(g.id))
    BY <1>2 DEF WorktreeRemoved, Close, Nothing, Shows, Asks
  <2>2. DropCall(g.id) = Call("remove", "projects", g.id, Top, << >>, "dropped")
    BY DEF DropCall, Call
  <2>3. CASE UNCHANGED calls
    BY <2>1, <2>3, AsideStep DEF Stays
  <2>4. CASE Send(DropCall(g.id))
    BY <2>1, <2>2, <2>4, RemoveStep DEF ListNames
  <2> QED BY <2>1, <2>3, <2>4
<1> QED BY <1>1, <1>2

\* What folders, sessions and the check do.
LEMMA OtherWorktreeSteps ==
  ASSUME ListsInv,
         \/ \E g, un : Checked(g, un)
         \/ \E w : AskRemove(w) \/ SessionChanges(w) \/ SessionEnds(w) \/ \E to : FolderGoes(w, to)
         \/ \E tick : ConfirmRemove(tick)
  PROVE  ListsInv'
<1>1. ASSUME NEW g, NEW un, Checked(g, un) PROVE ListsInv'
  <2>1. Stays /\ Asks /\ Shows
    BY <1>1 DEF Checked, Stays, listVars, Asks, OpenForm, Show, Shows
  <2> QED BY <2>1, AsideStep
<1>2. ASSUME NEW w, AskRemove(w) PROVE ListsInv'
  <2>1. Stays /\ Asks /\ Shows
    BY <1>2 DEF AskRemove, Ask, Stays, listVars, dialogVars, Asks, Shows
  <2> QED BY <2>1, AsideStep
<1>3. ASSUME NEW w, NEW to, SessionChanges(w) \/ SessionEnds(w) \/ FolderGoes(w, to) PROVE ListsInv'
  <2>1. Stays /\ Asks /\ Shows
    BY <1>3 DEF SessionChanges, SessionEnds, FolderGoes, Stays, listVars, dialogVars, Asks, Shows
  <2> QED BY <2>1, AsideStep
<1>4. ASSUME NEW tick, ConfirmRemove(tick) PROVE ListsInv'
  <2>1. Stays /\ Asks /\ Shows
    BY <1>4 DEF ConfirmRemove, Ask, Stays, listVars, dialogVars, Asks, Shows
  <2> QED BY <2>1, AsideStep
<1> QED BY <1>1, <1>2, <1>3, <1>4

\* Every step of the worktrees.
LEMMA WorktreeStep == ASSUME ListsInv, WorktreeNext PROVE ListsInv'
BY AskSteps, AddedStep, RemovalSteps, OtherWorktreeSteps DEF WorktreeNext

-----------------------------------------------------------------------------
\* The start: two projects, a worktree, two presets.
FirstKin == [id \in 1..5 |-> IF id = 5 THEN 1 ELSE 0]
FirstProjects == << [id |-> 1, parent |-> 0], [id |-> 5, parent |-> 1], [id |-> 2, parent |-> 0] >>
FirstPresets == << [id |-> 3, proj |-> 1], [id |-> 4, proj |-> 0] >>

LEMMA FirstProjectsAre ==
  /\ IsKin(FirstKin, 5) /\ IsProjects(FirstProjects, FirstKin, 5) /\ Grouped(FirstProjects)
  /\ Settled(FirstProjects) = FirstProjects
<1>1. PICK l : l = FirstProjects
  OBVIOUS
<1>2. /\ l \in Seq(PRow) /\ Len(l) = 3 /\ l[1].id = 1 /\ l[2].id = 5 /\ l[3].id = 2
      /\ l[1].parent = 0 /\ l[2].parent = 1 /\ l[3].parent = 0
  BY <1>1 DEF FirstProjects, PRow
<1>3. \A i \in 1..Len(l) : i = 1 \/ i = 2 \/ i = 3
  BY <1>2
<1>4. DOMAIN l = 1..Len(l) /\ \A x \in Range(l) : x = l[1] \/ x = l[2] \/ x = l[3]
  BY <1>2, <1>3, RangeIs, LenProperties
<1>5. \A i \in 1..5 : FirstKin[i] = IF i = 5 THEN 1 ELSE 0
  BY DEF FirstKin
<1>6. IsKin(FirstKin, 5)
  BY <1>5 DEF IsKin, FirstKin, Top
<1>7. OneEach(l)
  BY <1>2, <1>3 DEF OneEach
<1>8. IsProjects(l, FirstKin, 5)
  BY <1>2, <1>4, <1>5, <1>7 DEF IsProjects
<1>9. Grouped(l)
  BY <1>2, <1>3 DEF Grouped, Top
<1>10. Settled(l) = l
  <2>1. Known(l, 1)
    BY <1>2, <1>4 DEF Known
  <2>2. PICK m : m = Settled(l)
    OBVIOUS
  <2>3. m \in Seq(PRow) /\ Len(m) = Len(l) /\ \A i \in 1..Len(l) : m[i] = Settle(l, l[i])
    BY <1>2, <2>2, SettledIs
  <2>4. ASSUME NEW i \in 1..Len(l) PROVE m[i] = l[i]
    <3>1. l[i] \in PRow
      BY <1>2, ElementOfSeq
    <3>2. l[i] = [id |-> l[i].id, parent |-> l[i].parent]
      BY <3>1 DEF PRow
    <3>3. IF IsChild(l, l[i]) THEN TRUE ELSE l[i].parent = Top
      BY <1>2, <1>3, <2>1 DEF IsChild, Top
    <3>4. Settle(l, l[i]) = [id |-> l[i].id, parent |-> l[i].parent]
      BY <3>3 DEF Settle
    <3> QED BY <2>3, <3>2, <3>4
  <2> QED BY <1>2, <2>2, <2>3, <2>4, SeqEqual
<1> QED BY <1>1, <1>6, <1>8, <1>9, <1>10

LEMMA FirstItemsAre == IsItems(FirstPresets, 5) /\ IsItems(<< >>, 5)
<1>1. PICK l : l = FirstPresets
  OBVIOUS
<1>2. l \in Seq(IRow) /\ Len(l) = 2 /\ l[1].id = 3 /\ l[2].id = 4
  BY <1>1 DEF FirstPresets, IRow
<1>3. \A i \in 1..Len(l) : i = 1 \/ i = 2
  BY <1>2
<1>4. \A x \in Range(l) : x = l[1] \/ x = l[2]
  BY <1>2, <1>3, RangeIs
<1>5. IsItems(l, 5)
  BY <1>2, <1>3, <1>4 DEF IsItems, OneEach
<1>6. PICK e : e = << >>
  OBVIOUS
<1>7. e \in Seq(IRow) /\ Len(e) = 0
  BY <1>6
<1>8. \A x \in Range(e) : FALSE
  <2>1. DOMAIN e = 1..Len(e)
    BY <1>7, LenProperties
  <2> QED BY <1>7, <2>1 DEF Range
<1>9. IsItems(e, 5)
  BY <1>7, <1>8 DEF IsItems, OneEach
<1> QED BY <1>1, <1>5, <1>6, <1>9

\* They agree at the start.
LEMMA ListsInit == ASSUME DesktopInit PROVE ListsInv
<1>1. PICK p : p = Three(FirstProjects, FirstPresets, << >>)
  OBVIOUS
<1>2. /\ store = p /\ page = p /\ calls = << >> /\ git = {} /\ shown.kind # "form" /\ items = 5
  BY <1>1 DEF DesktopInit, ProjectsInit, DialogsInit, Nothing, Three, FirstProjects, FirstPresets, Top
<1>3. IsPage(p, FirstKin, 5) /\ Grouped(p.projects)
  BY <1>1, FirstProjectsAre, FirstItemsAre, ThreeIs DEF IsPage
<1>4. AsStored(p) = p
  BY <1>1, FirstProjectsAre, ThreeIs DEF AsStored
<1>5. PICK cs : cs = << >>
  OBVIOUS
<1>6. cs \in Seq({}) /\ Len(cs) = 0
  BY <1>5
<1>7. IsQueue(cs)
  BY <1>6 DEF IsQueue
<1>8. PICK st : st = [i \in {0} |-> p]
  OBVIOUS
<1>9. st[0] = p
  BY <1>8
<1>10. StorePath(cs, p, st, 0)
  BY <1>6, <1>9 DEF StorePath
<1>11. Agreed(cs, p, st, st[Len(cs)], FirstKin, 5)
  BY <1>3, <1>4, <1>6, <1>9, FirstProjectsAre DEF Agreed, PagePath, CallsFit
<1>12. Fine(cs, p, st[Len(cs)], git, shown, 5)
  BY <1>2, <1>11 DEF Fine, GitOk, ShownOk
<1>13. Lists(cs, p, p, git, shown, 5)
  BY <1>7, <1>10, <1>12 DEF Lists
<1> QED BY <1>2, <1>5, <1>13 DEF ListsInv

\* And after every step.
LEMMA ListsStep == ASSUME ListsInv, [DesktopNext]_vars PROVE ListsInv'
<1>1. CASE UNCHANGED vars
  BY <1>1 DEF vars, dialogVars, projectVars, ListsInv
<1>2. CASE DesktopNext
  BY <1>2, DialogsStep, FormsStep, WorktreeStep DEF DesktopNext
<1> QED BY <1>1, <1>2

\* The page's lists and the backend's stay on their way to each other: what the
\* backend (main.rs) keeps when every queued command ran is what the page shows
\* when every answer came (modals.js, worktree.js).
THEOREM ListsGoTheSameWay == DesktopSpec => []ListsInv
<1>1. DesktopInit => ListsInv
  BY ListsInit
<1>2. ListsInv /\ [DesktopNext]_vars => ListsInv'
  BY ListsStep
<1> QED BY <1>1, <1>2, PTL DEF DesktopSpec

\* With no command under way the page and the backend have the same projects,
\* presets and recipes in the same order, the one the sidebar shows: the page
\* applies to its own lists what the commands answer (modals.js, worktree.js,
\* app.js), and reads the backend's only at the start.
THEOREM SavedAndShownAgree == DesktopSpec => []ListsAgree
<1>1. ListsInv => ListsAgree
  <2> SUFFICES ASSUME ListsInv, calls = << >>, skew = {}
               PROVE  /\ \A list \in DOMAIN store : Ids(store[list]) = Ids(page[list])
                      /\ SidebarOrder(page.projects) = page.projects
    BY DEF ListsAgree
  <2>1. Lists(calls, store, page, git, shown, items)
    BY DEF ListsInv
  <2> QED BY <2>1, ListsMean
<1> QED BY <1>1, ListsGoTheSameWay, PTL

-----------------------------------------------------------------------------
(* The file tree: paths                                                    *)

Elems == Roots \cup Names
Path  == {p \in Seq(Elems) : p # << >>}

\* Below a root a path is known by its first name.
LEMMA PathHas ==
  ASSUME NEW p \in Path
  PROVE  p \in Seq(Elems) /\ Len(p) \in Nat \ {0} /\ p[1] \in Elems
<1>1. p \in Seq(Elems) /\ p # << >>
  BY DEF Path
<1>2. Len(p) \in Nat \ {0}
  BY <1>1, EmptySeq
<1> QED BY <1>1, <1>2, ElementOfSeq

LEMMA TopIsPath == ASSUME NEW r \in Tops PROVE r \in Path /\ Len(r) = 1
<1>1. PICK x \in Roots : r = <<x>>
  BY DEF Tops
<1>2. <<x>> \in Seq(Elems) /\ <<x>> # << >> /\ Len(<<x>>) = 1
  BY DEF Elems
<1> QED BY <1>1, <1>2 DEF Path

LEMMA WithinRoot ==
  ASSUME NEW p \in Path, NEW r \in Tops
  PROVE  Within(p, r) <=> p[1] = r[1]
<1>1. PICK x \in Roots : r = <<x>>
  BY DEF Tops
<1>2. Len(r) = 1 /\ r[1] = x
  BY <1>1
<1>3. p \in Seq(Elems) /\ Len(p) \in Nat \ {0} /\ p[1] \in Elems
  BY PathHas
<1>4. ASSUME Within(p, r) PROVE p[1] = r[1]
  <2>1. CASE p = r
    BY <2>1
  <2>2. CASE Below(p, r)
    <3>1. SubSeq(p, 1, 1) = r
      BY <1>2, <2>2 DEF Below
    <3>2. SubSeq(p, 1, 1)[1] = p[1]
      BY <1>3
    <3> QED BY <3>1, <3>2
  <2> QED BY <1>4, <2>1, <2>2 DEF Within
<1>5. ASSUME p[1] = r[1] PROVE Within(p, r)
  <2>1. SubSeq(p, 1, 1) = r
    <3>1. SubSeq(p, 1, 1) \in Seq(Elems) /\ Len(SubSeq(p, 1, 1)) = 1 /\ SubSeq(p, 1, 1)[1] = p[1]
      BY <1>3
    <3>2. r \in Seq(Elems)
      BY <1>1 DEF Elems
    <3> QED BY <1>2, <1>5, <3>1, <3>2, SeqEqual
  <2>2. CASE Len(p) > 1
    BY <1>2, <2>1, <2>2 DEF Within, Below
  <2>3. CASE Len(p) = 1
    <3>1. r \in Seq(Elems)
      BY <1>1 DEF Elems
    <3>2. p = r
      <4>1. Len(p) = Len(r) /\ \A i \in 1..Len(p) : p[i] = r[i]
        BY <1>2, <1>5, <2>3
      <4>2. p \in Seq(Elems)
        BY <1>3
      <4> QED BY <3>1, <4>1, <4>2, SeqEqual
    <3> QED BY <3>2 DEF Within
  <2>4. Len(p) > 1 \/ Len(p) = 1
    <3>1. \A n \in Nat \ {0} : n > 1 \/ n = 1
      OBVIOUS
    <3>2. Len(p) \in Nat \ {0}
      BY <1>3
    <3> QED BY <3>1, <3>2
  <2> QED BY <2>2, <2>3, <2>4
<1> QED BY <1>4, <1>5

LEMMA BelowRoot ==
  ASSUME NEW p \in Path, NEW r \in Tops, Below(p, r) PROVE p[1] = r[1]
  BY WithinRoot DEF Within

\* The folder of a path is in the same root.
LEMMA ParentRoot ==
  ASSUME NEW p \in Path, Parent(p) \in Path PROVE p[1] = Parent(p)[1]
<1>1. p \in Seq(Elems) /\ Len(p) \in Nat \ {0}
  BY PathHas
<1>2. Len(Parent(p)) \in Nat \ {0}
  BY PathHas
<1>3. PICK n \in Nat : Len(p) = n + 1
  BY <1>1
<1>4. \A i \in 1..n : p[i] \in Elems
  BY <1>1, <1>3, ElementOfSeq
<1>5. Parent(p) = SubSeq(p, 1, n)
  BY <1>3 DEF Parent
<1>6. /\ Len(SubSeq(p, 1, n)) = IF 1 <= n THEN n - 1 + 1 ELSE 0
      /\ \A i \in 1..n - 1 + 1 : SubSeq(p, 1, n)[i] = p[1 + i - 1]
  BY <1>4, SubSeqProperties
<1> QED BY <1>2, <1>3, <1>5, <1>6

LEMMA ParentIsSeq == ASSUME NEW p \in Path PROVE Parent(p) \in Seq(Elems)
  BY PathHas DEF Parent

LEMMA AppendPath ==
  ASSUME NEW d \in Seq(Elems), NEW n \in Elems
  PROVE  Append(d, n) \in Path /\ (d \in Path => Append(d, n)[1] = d[1])
<1>1. Append(d, n) \in Path
  BY AppendProperties DEF Path
<1>2. d \in Path => Append(d, n)[1] = d[1]
  BY PathHas, AppendProperties
<1> QED BY <1>1, <1>2

LEMMA LeafIsElem == ASSUME NEW p \in Path PROVE Leaf(p) \in Elems
  BY PathHas, ElementOfSeq DEF Leaf

\* A renamed folder takes what is below it along.
LEMMA MovedPath ==
  ASSUME NEW p \in Path, NEW from \in Path, NEW to \in Path
  PROVE  /\ to \o SubSeq(p, Len(from) + 1, Len(p)) \in Path
         /\ (to \o SubSeq(p, Len(from) + 1, Len(p)))[1] = to[1]
<1> DEFINE rest == SubSeq(p, Len(from) + 1, Len(p))
<1>1. p \in Seq(Elems) /\ Len(p) \in Nat /\ Len(from) + 1 \in Nat \ {0}
  BY PathHas
<1>2. rest \in Seq(Elems)
  <2>1. \A i \in Len(from) + 1 .. Len(p) : i \in 1..Len(p)
    BY <1>1
  <2>2. \A i \in 1..Len(p) : p[i] \in Elems
    BY <1>1, ElementOfSeq
  <2> QED BY <1>1, <2>1, <2>2, SubSeqProperties
<1>3. to \in Seq(Elems) /\ Len(to) \in Nat \ {0}
  BY PathHas
<1> HIDE DEF rest
<1>4. Len(rest) \in Nat
  BY <1>2
<1>5. to \o rest \in Seq(Elems) /\ Len(to \o rest) = Len(to) + Len(rest) /\ (to \o rest)[1] = to[1]
  BY <1>2, <1>3, <1>4, ConcatProperties
<1>6. to \o rest # << >>
  BY <1>3, <1>4, <1>5
<1> QED BY <1>5, <1>6 DEF Path, rest

LEMMA MovedPaths ==
  ASSUME NEW S, S \subseteq Path, NEW from \in Path, NEW to \in Path
  PROVE  /\ Moved(S, from, to) \subseteq Path
         /\ \A x : (\A p \in S : p[1] = x) /\ to[1] = x
                      => \A p \in Moved(S, from, to) : p[1] = x
<1>1. ASSUME NEW q \in Moved(S, from, to)
      PROVE  q \in Path /\ (q[1] = to[1] \/ q \in S)
  <2>1. PICK p \in S : q = IF Within(p, from) THEN to \o SubSeq(p, Len(from) + 1, Len(p)) ELSE p
    BY <1>1 DEF Moved
  <2> QED BY <2>1, MovedPath
<1> QED BY <1>1

-----------------------------------------------------------------------------
(* The file tree: what the page keeps                                      *)

Root == Tops \cup {NoPath}
TreeFields == {"root", "gen", "entries", "open", "selected", "renaming"}

\* The tree: listed folders with what is in them, and the unfolded ones.
IsTree(t) ==
  /\ t = [f \in TreeFields |-> t[f]]
  /\ t.root \in Root /\ t.gen \in Nat
  /\ t.open \subseteq Path
  /\ \A d \in DOMAIN t.entries :
        d \in Path /\ \A p \in t.entries[d] : p \in Path /\ Parent(p) = d
  /\ t.renaming \in Path \cup {NoPath}

\* The rows drawn are below the root of the tree.
IsDom(dm, t) == \A p \in dm.rows : p \in Path /\ t.root \in Tops /\ t.root # NoPath /\ p[1] = t.root[1]

\* What the page awaits: the answers list folders, and an operation's folder is
\* in the root of what it makes.
IsRequest(c, gen) ==
  /\ c = [f \in {"k", "gen", "force", "dirs", "lists"} |-> c[f]]
  /\ c.gen \in Nat /\ c.gen <= gen /\ c.dirs \subseteq Path
  /\ \A d \in DOMAIN c.lists : c.lists[d] # << >> =>
        \A p \in c.lists[d][1] : p \in Path /\ Parent(p) = d

IsOperation(c) ==
  /\ c.k = "move" => /\ c = [f \in {"k", "from", "to", "unfold", "state"} |-> c[f]]
                     /\ c.from \in Path /\ c.to \in Path
                     /\ c.unfold # NoPath => c.unfold \in Path /\ c.unfold[1] = c.to[1]
  /\ c.k = "create" => /\ c = [f \in {"k", "to", "unfold", "state"} |-> c[f]]
                       /\ c.to \in Path
                       /\ c.unfold \in Path /\ c.unfold[1] = c.to[1]
  /\ c.k = "delete" => c = [f \in {"k", "from", "state"} |-> c[f]]

IsCalls(cs, gen) ==
  \A c \in cs : IF c.k \in {"refresh", "lazy"} THEN IsRequest(c, gen) ELSE IsOperation(c)

IsSaved(sv) == sv = [r \in Tops |-> sv[r]] /\ \A r \in Tops : sv[r] \subseteq Path

PageTypes ==
  /\ fs \subseteq Path /\ active \in Root /\ newDir \in Path \cup {NoPath}
  /\ IsTree(tree) /\ IsDom(dom, tree) /\ IsCalls(awaited, tree.gen) /\ IsSaved(saved)

\* Each root to itself: what the tree has is in its root, what was asked for
\* this tree too, and what is remembered for a root is in that root.
OwnTree(t) ==
  \A d \in DOMAIN t.entries \cup t.open : t.root # NoPath /\ d[1] = t.root[1]
OwnCalls(cs, t) ==
  \A c \in cs : (c.k \in {"refresh", "lazy"} /\ c.gen = t.gen) =>
     t.root # NoPath /\ \A d \in c.dirs : d[1] = t.root[1]
OwnSaved(sv) == \A r \in Tops : \A d \in sv[r] : d[1] = r[1]

TreesInv ==
  /\ PageTypes /\ SavedIsOpen
  /\ ~crossed => OwnTree(tree) /\ OwnCalls(awaited, tree) /\ OwnSaved(saved)

LEMMA TreesAreOneRoot == ASSUME TreesInv PROVE OneRoot
<1>1. ASSUME ~crossed PROVE /\ \A d \in DOMAIN tree.entries \cup tree.open :
                                   tree.root # NoPath /\ Within(d, tree.root)
                            /\ \A r \in Tops : \A d \in saved[r] : Within(d, r)
  <2>1. ASSUME NEW d \in DOMAIN tree.entries \cup tree.open
        PROVE  tree.root # NoPath /\ Within(d, tree.root)
    <3>1. d \in Path /\ tree.root \in Root
      BY <2>1 DEF TreesInv, PageTypes, IsTree
    <3>2. tree.root # NoPath /\ d[1] = tree.root[1]
      BY <1>1, <2>1 DEF TreesInv, OwnTree
    <3> QED BY <3>1, <3>2, WithinRoot DEF Root
  <2>2. ASSUME NEW r \in Tops, NEW d \in saved[r] PROVE Within(d, r)
    <3>1. d \in Path
      BY <2>2 DEF TreesInv, PageTypes, IsSaved
    <3>2. d[1] = r[1]
      BY <1>1, <2>2 DEF TreesInv, OwnSaved
    <3> QED BY <3>1, <3>2, WithinRoot
  <2> QED BY <2>1, <2>2
<1> QED BY <1>1 DEF OneRoot

\* What is drawn of a tree is in its root.
LEMMA DrawnFits == ASSUME NEW t, IsTree(t) PROVE IsDom(Drawn(t), t)
<1>1. Drawn(t).rows = Rows(t)
  BY DEF Drawn
<1>2. CASE t.root = NoPath
  BY <1>1, <1>2 DEF Rows, IsDom
<1>3. ASSUME t.root # NoPath, NEW p \in Rows(t)
      PROVE  p \in Path /\ t.root \in Tops /\ p[1] = t.root[1]
  <2>1. p \in UNION {t.entries[d] : d \in DOMAIN t.entries} /\ Below(p, t.root)
    BY <1>3 DEF Rows
  <2>2. p \in Path /\ t.root \in Tops
    BY <1>3, <2>1 DEF IsTree, Root
  <2>3. Below(p, t.root)
    BY <2>1
  <2> QED BY <2>2, <2>3, BelowRoot
<1> QED BY <1>1, <1>2, <1>3 DEF IsDom

LEMMA LazyFits ==
  ASSUME NEW t, IsTree(t)
  PROVE  IsCalls(LazyLists(t), t.gen) /\ OwnCalls(LazyLists(t), t)
<1>1. ASSUME NEW d \in Unlisted(t) PROVE d \in Path /\ t.root # NoPath /\ d[1] = t.root[1]
  <2>1. t.root # NoPath /\ (d = t.root \/ d \in Rows(t))
    BY <1>1 DEF Unlisted
  <2>2. CASE d = t.root
    BY <2>1, <2>2, TopIsPath DEF IsTree, Root
  <2>3. CASE d \in Rows(t)
    BY <2>1, <2>3, DrawnFits DEF IsDom, Drawn
  <2> QED BY <2>1, <2>2, <2>3
<1>2. ASSUME NEW c \in LazyLists(t)
      PROVE  c.k = "lazy" /\ IsRequest(c, t.gen)
             /\ t.root # NoPath /\ \A d \in c.dirs : d[1] = t.root[1]
  <2>1. PICK d \in Unlisted(t) :
          c = [k |-> "lazy", gen |-> t.gen, force |-> TRUE, dirs |-> {d}, lists |-> << >>]
    BY <1>2 DEF LazyLists
  <2>2. /\ c.k = "lazy" /\ c.gen = t.gen /\ c.dirs = {d} /\ c.lists = << >>
        /\ c = [f \in {"k", "gen", "force", "dirs", "lists"} |-> c[f]]
    BY <2>1
  <2>3. t.gen \in Nat /\ t.gen <= t.gen
    BY DEF IsTree
  <2>4. IsRequest(c, t.gen)
    BY <1>1, <2>2, <2>3 DEF IsRequest
  <2> QED BY <1>1, <2>2, <2>4
<1> QED BY <1>2 DEF IsCalls, OwnCalls

LEMMA RefreshFits ==
  ASSUME NEW t, IsTree(t), t.root # NoPath, NEW force
  PROVE  /\ IsCalls({Refresh(t, force)}, t.gen)
         /\ OwnTree(t) => OwnCalls({Refresh(t, force)}, t)
<1> DEFINE c == Refresh(t, force)
<1>1. /\ c.k = "refresh" /\ c.gen = t.gen /\ c.dirs = {t.root} \cup t.open /\ c.lists = << >>
      /\ c = [f \in {"k", "gen", "force", "dirs", "lists"} |-> c[f]]
  BY DEF Refresh
<1>2. t.root \in Path
  BY TopIsPath DEF IsTree, Root
<1> HIDE DEF c
<1>3. IsRequest(c, t.gen)
  BY <1>1, <1>2 DEF IsRequest, IsTree
<1>4. OwnTree(t) => \A d \in c.dirs : d[1] = t.root[1]
  BY <1>1 DEF OwnTree
<1>5. IsCalls({c}, t.gen)
  BY <1>1, <1>3 DEF IsCalls
<1>6. OwnTree(t) => OwnCalls({c}, t)
  BY <1>4 DEF OwnCalls
<1> QED BY <1>5, <1>6 DEF c

LEMMA CallsJoin ==
  ASSUME NEW cs, NEW ds, NEW t, IsCalls(cs, t.gen), IsCalls(ds, t.gen)
  PROVE  /\ IsCalls(cs \cup ds, t.gen)
         /\ OwnCalls(cs, t) /\ OwnCalls(ds, t) => OwnCalls(cs \cup ds, t)
<1>1. IsCalls(cs \cup ds, t.gen)
  BY DEF IsCalls
<1>2. OwnCalls(cs, t) /\ OwnCalls(ds, t) => OwnCalls(cs \cup ds, t)
  BY DEF OwnCalls
<1> QED BY <1>1, <1>2

\* Drawing a tree: _renderTreeDom.
LEMMA RedrawFits ==
  ASSUME NEW t, NEW cs, Redraw(t, cs), IsTree(t), IsCalls(cs, t.gen),
         t.renaming # NoPath => IsDom(dom, t)
  PROVE  /\ tree' = t /\ IsDom(dom', t) /\ IsCalls(awaited', t.gen)
         /\ OwnCalls(cs, t) => OwnCalls(awaited', t)
<1>1. CASE t.renaming # NoPath
  BY <1>1 DEF Redraw
<1>2. CASE t.renaming = NoPath
  <2>1. tree' = t /\ dom' = Drawn(t) /\ awaited' = cs \cup LazyLists(t)
    BY <1>2 DEF Redraw
  <2> QED BY <2>1, DrawnFits, LazyFits, CallsJoin
<1> QED BY <1>1, <1>2

LEMMA AskRefreshFits ==
  ASSUME NEW t, NEW force, NEW cs, AskRefresh(t, force, cs), IsTree(t), IsCalls(cs, t.gen),
         IsDom(dom, t)
  PROVE  /\ tree' = t /\ IsDom(dom', t) /\ IsCalls(awaited', t.gen)
         /\ OwnTree(t) /\ OwnCalls(cs, t) => OwnCalls(awaited', t)
<1>1. CASE t.root = NoPath
  BY <1>1, RedrawFits DEF AskRefresh
<1>2. CASE t.root # NoPath
  <2>1. tree' = t /\ awaited' = cs \cup {Refresh(t, force)} /\ UNCHANGED dom
    BY <1>2 DEF AskRefresh
  <2> QED BY <1>2, <2>1, RefreshFits, CallsJoin
<1> QED BY <1>1, <1>2

\* A step of the page that leaves it with the tree t.
LEMMA TreeStep ==
  ASSUME TreesInv, NEW t, tree' = t, IsTree(t), IsDom(dom', t), IsCalls(awaited', t.gen),
         IsSaved(saved'), t.root # NoPath => saved'[t.root] = t.open,
         UNCHANGED fs, active' \in Root, newDir' \in Path \cup {NoPath},
         ~crossed' => OwnTree(t) /\ OwnCalls(awaited', t) /\ OwnSaved(saved')
  PROVE  TreesInv'
<1>1. PageTypes'
  BY DEF TreesInv, PageTypes
<1>2. SavedIsOpen'
  BY DEF SavedIsOpen
<1> QED BY <1>1, <1>2 DEF TreesInv

\* Updates of a tree's fields.
LEMMA SelectTree ==
  ASSUME NEW t, IsTree(t), NEW s
  PROVE  LET u == [t EXCEPT !.selected = s] IN
         /\ IsTree(u) /\ u.root = t.root /\ u.gen = t.gen /\ u.entries = t.entries
         /\ u.open = t.open /\ u.renaming = t.renaming
  BY DEF IsTree, TreeFields

\* _saveOpenSet
LEMMA SaveFits ==
  ASSUME TreesInv, NEW t, IsTree(t), t.root = tree.root, SaveOpen(t)
  PROVE  /\ IsSaved(saved') /\ (t.root # NoPath => saved'[t.root] = t.open)
         /\ OwnSaved(saved) /\ OwnTree(t) => OwnSaved(saved')
<1>1. IsSaved(saved)
  BY DEF TreesInv, PageTypes
<1>2. CASE t.root = NoPath
  BY <1>1, <1>2 DEF SaveOpen
<1>3. CASE t.root # NoPath
  <2>1. saved' = [r \in Tops |-> IF r = t.root THEN t.open ELSE saved[r]] /\ t.root \in Tops
    BY <1>1, <1>3 DEF SaveOpen, IsSaved, IsTree, Root
  <2>2. t.open \subseteq Path
    BY DEF IsTree
  <2>3. IsSaved(saved') /\ saved'[t.root] = t.open
    BY <1>1, <2>1, <2>2 DEF IsSaved
  <2>4. OwnSaved(saved) /\ OwnTree(t) => OwnSaved(saved')
    BY <2>1 DEF OwnSaved, OwnTree
  <2> QED BY <2>3, <2>4
<1> QED BY <1>2, <1>3

LEMMA Kept ==
  ASSUME TreesInv
  PROVE  /\ IsTree(tree) /\ IsDom(dom, tree) /\ IsCalls(awaited, tree.gen) /\ IsSaved(saved)
         /\ active \in Root /\ newDir \in Path \cup {NoPath}
         /\ tree.root # NoPath => saved[tree.root] = tree.open
         /\ ~crossed => OwnTree(tree) /\ OwnCalls(awaited, tree) /\ OwnSaved(saved)
  BY DEF TreesInv, PageTypes, SavedIsOpen

\* A tree that differs in what is selected or renamed.
Alike(u, t) == u.root = t.root /\ u.gen = t.gen /\ u.entries = t.entries /\ u.open = t.open

LEMMA AlikeFits ==
  ASSUME NEW t, NEW u, Alike(u, t), NEW dm, NEW cs
  PROVE  /\ IsDom(dm, t) => IsDom(dm, u)
         /\ OwnTree(t) => OwnTree(u)
         /\ OwnCalls(cs, t) => OwnCalls(cs, u)
<1>1. IsDom(dm, t) => IsDom(dm, u)
  BY DEF Alike, IsDom
<1>2. OwnTree(t) => OwnTree(u)
  BY DEF Alike, OwnTree
<1>3. OwnCalls(cs, t) => OwnCalls(cs, u)
  BY DEF Alike, OwnCalls
<1> QED BY <1>1, <1>2, <1>3

\* renderExplorer
LEMMA RenderFits ==
  ASSUME TreesInv, NEW r \in Root, RenderExplorer(r), UNCHANGED <<fs, saved, newDir, crossed>>,
         active' \in Root
  PROVE  TreesInv'
<1>1. CASE r = tree.root
  <2>1. Redraw(tree, awaited)
    BY <1>1 DEF RenderExplorer
  <2>2. /\ tree' = tree /\ IsDom(dom', tree) /\ IsCalls(awaited', tree.gen)
        /\ OwnCalls(awaited, tree) => OwnCalls(awaited', tree)
    BY <2>1, Kept, RedrawFits
  <2> QED BY <2>2, Kept, TreeStep
<1>2. CASE r # tree.root
  <2> DEFINE t == OfRoot(r)
             cs == IF r = NoPath THEN awaited ELSE awaited \cup {Refresh(t, TRUE)}
  <2>1. Redraw(t, cs)
    BY <1>2 DEF RenderExplorer
  <2>2. /\ t.root = r /\ t.gen = tree.gen + 1 /\ t.entries = << >> /\ t.renaming = NoPath
        /\ t.open = (IF r = NoPath THEN {} ELSE saved[r])
        /\ t = [f \in TreeFields |-> t[f]]
    BY DEF OfRoot, NewTree, TreeFields
  <2>3. tree.gen \in Nat /\ IsSaved(saved) /\ (r # NoPath => r \in Tops)
    BY Kept DEF IsTree, Root
  <2> HIDE DEF t
  <2>4. IsTree(t)
    <3>1. t.open \subseteq Path
      BY <2>2, <2>3 DEF IsSaved
    <3> QED BY <2>2, <2>3, <3>1 DEF IsTree
  <2>5. ~crossed => OwnTree(t)
    <3>1. ASSUME ~crossed, NEW d \in t.open PROVE r # NoPath /\ d[1] = r[1]
      BY <2>2, <2>3, <3>1, Kept DEF OwnSaved
    <3> QED BY <2>2, <3>1 DEF OwnTree
  <2>6. IsCalls(awaited, t.gen) /\ OwnCalls(awaited, t)
    <3>1. ASSUME NEW c \in awaited, c.k \in {"refresh", "lazy"}
          PROVE  IsRequest(c, t.gen) /\ c.gen # t.gen
      <4>1. IsRequest(c, tree.gen)
        BY <3>1, Kept DEF IsCalls
      <4> QED BY <2>2, <2>3, <4>1 DEF IsRequest
    <3>2. IsCalls(awaited, t.gen)
      BY <3>1, Kept DEF IsCalls
    <3> QED BY <3>1, <3>2 DEF OwnCalls
  <2>7. IsCalls(cs, t.gen) /\ (~crossed => OwnCalls(cs, t))
    <3>1. CASE r = NoPath
      BY <2>6, <3>1
    <3>2. CASE r # NoPath
      BY <2>2, <2>4, <2>5, <2>6, <3>2, RefreshFits, CallsJoin
    <3> QED BY <3>1, <3>2
  <2> HIDE DEF cs
  <2>8. /\ tree' = t /\ IsDom(dom', t) /\ IsCalls(awaited', t.gen)
        /\ OwnCalls(cs, t) => OwnCalls(awaited', t)
    BY <2>1, <2>2, <2>4, <2>7, RedrawFits
  <2> QED BY <2>2, <2>4, <2>5, <2>7, <2>8, Kept, TreeStep
<1> QED BY <1>1, <1>2

\* _toggleTreeDir, of a row or of a listed folder.
LEMMA ToggleFits ==
  ASSUME TreesInv, NEW p \in Path, ~crossed => tree.root # NoPath /\ p[1] = tree.root[1],
         ToggleDir(p), UNCHANGED <<fs, active, newDir, crossed>>
  PROVE  TreesInv'
<1> DEFINE S == IF p \in tree.open THEN tree.open \ {p} ELSE tree.open \cup {p}
           t == [tree EXCEPT !.selected = p, !.open = S]
<1>1. SaveOpen(t) /\ Redraw(t, awaited)
  BY DEF ToggleDir
<1>2. S \subseteq Path
  BY Kept DEF IsTree
<1>3. ~crossed => \A d \in S : d[1] = tree.root[1]
  BY Kept DEF OwnTree
<1> HIDE DEF S
<1>4. /\ IsTree(t) /\ t.root = tree.root /\ t.gen = tree.gen /\ t.entries = tree.entries
      /\ t.open = S /\ t.renaming = tree.renaming
  <2>1. IsTree(tree)
    BY Kept
  <2> QED BY <1>2, <2>1 DEF IsTree, TreeFields
<1> HIDE DEF t
<1>5. IsDom(dom, t) /\ (~crossed => OwnTree(t) /\ OwnCalls(awaited, t))
  BY <1>3, <1>4, Kept DEF IsDom, OwnTree, OwnCalls
<1>6. /\ tree' = t /\ IsDom(dom', t) /\ IsCalls(awaited', t.gen)
      /\ OwnCalls(awaited, t) => OwnCalls(awaited', t)
  BY <1>1, <1>4, <1>5, Kept, RedrawFits
<1>7. /\ IsSaved(saved') /\ (t.root # NoPath => saved'[t.root] = t.open)
      /\ OwnSaved(saved) /\ OwnTree(t) => OwnSaved(saved')
  BY <1>1, <1>4, SaveFits
<1> QED BY <1>4, <1>5, <1>6, <1>7, Kept, TreeStep

\* A step that selects, renames or starts an operation, and draws nothing.
LEMMA QuietFits ==
  ASSUME TreesInv, NEW t, tree' = t, IsTree(t), Alike(t, tree), UNCHANGED <<fs, saved, crossed>>,
         IsCalls(awaited', t.gen), OwnCalls(awaited, t) => OwnCalls(awaited', t), UNCHANGED dom,
         active' \in Root, newDir' \in Path \cup {NoPath}
  PROVE  TreesInv'
<1>1. IsDom(dom', t) /\ (~crossed => OwnTree(t) /\ OwnCalls(awaited, t))
  BY Kept, AlikeFits
<1> QED BY <1>1, Kept, TreeStep DEF Alike

LEMMA SelectFits ==
  ASSUME TreesInv, NEW p, SelectRow(p), UNCHANGED <<fs, active, newDir, crossed>>
  PROVE  TreesInv'
<1> DEFINE t == [tree EXCEPT !.selected = p]
<1>1. tree' = t /\ UNCHANGED <<saved, dom, awaited>>
  BY DEF SelectRow
<1>2. IsTree(t) /\ Alike(t, tree)
  BY Kept, SelectTree DEF Alike
<1> HIDE DEF t
<1>3. IsCalls(awaited', t.gen)
  BY <1>1, <1>2, Kept DEF Alike
<1> QED BY <1>1, <1>2, <1>3, Kept, QuietFits

\* A file operation that is asked for.
LEMMA OperationFits ==
  ASSUME NEW cs, NEW t, IsCalls(cs, t.gen), NEW c, IsOperation(c), c.k \in {"move", "create", "delete"}
  PROVE  /\ IsCalls(cs \cup {c}, t.gen)
         /\ OwnCalls(cs, t) => OwnCalls(cs \cup {c}, t)
<1>1. IsCalls({c}, t.gen) /\ OwnCalls({c}, t)
  BY DEF IsCalls, OwnCalls
<1> QED BY <1>1, CallsJoin

LEMMA RowHas ==
  ASSUME TreesInv, NEW p \in dom.rows
  PROVE  p \in Path /\ tree.root \in Tops /\ tree.root # NoPath /\ p[1] = tree.root[1]
  BY Kept DEF IsDom

LEMMA MoveCall ==
  ASSUME NEW from \in Path, NEW to \in Path, NEW u, u # NoPath => u \in Path /\ u[1] = to[1]
  PROVE  IsOperation(Move(from, to, u)) /\ Move(from, to, u).k = "move"
  BY DEF Move, IsOperation

\* The tree stays, and one operation is asked for.
LEMMA AskFits ==
  ASSUME TreesInv, NEW c, IsOperation(c), c.k \in {"move", "create", "delete"},
         awaited' = awaited \cup {c}, NEW t, tree' = t, IsTree(t), Alike(t, tree),
         UNCHANGED <<fs, active, newDir, saved, dom, crossed>>
  PROVE  TreesInv'
<1>1. IsCalls(awaited, t.gen)
  BY Kept DEF Alike
<1>2. /\ IsCalls(awaited', t.gen)
      /\ OwnCalls(awaited, t) => OwnCalls(awaited', t)
  BY <1>1, OperationFits
<1> QED BY <1>2, Kept, QuietFits

LEMMA AlikeSelf == Alike(tree, tree)
  BY DEF Alike

LEMMA DragFits ==
  ASSUME TreesInv, NEW p \in dom.rows, NEW d \in dom.rows \cup {tree.root}, Drag(p, d)
  PROVE  TreesInv'
<1>1. p \in Path /\ tree.root \in Tops /\ d \in Path
  BY RowHas, TopIsPath
<1>2. Leaf(p) \in Elems
  BY <1>1, LeafIsElem
<1>3. Append(d, Leaf(p)) \in Path /\ Append(d, Leaf(p))[1] = d[1]
  BY <1>1, <1>2, AppendPath DEF Path
<1>4. IsOperation(Move(p, Append(d, Leaf(p)), d)) /\ Move(p, Append(d, Leaf(p)), d).k = "move"
  <2> DEFINE to == Append(d, Leaf(p))
  <2>1. to \in Path /\ d \in Path /\ d[1] = to[1] /\ p \in Path
    BY <1>1, <1>3
  <2> HIDE DEF to
  <2>2. IsOperation(Move(p, to, d)) /\ Move(p, to, d).k = "move"
    BY <2>1, MoveCall
  <2> QED BY <2>2 DEF to
<1>5. awaited' = awaited \cup {Move(p, Append(d, Leaf(p)), d)} /\ tree' = tree
      /\ UNCHANGED <<fs, active, newDir, saved, dom, crossed>>
  BY DEF Drag
<1> QED BY <1>4, <1>5, Kept, AlikeSelf, AskFits

LEMMA CommitFits ==
  ASSUME TreesInv, NEW n \in Names, CommitRename(n) PROVE TreesInv'
<1> DEFINE r == tree.renaming
           to == Append(Parent(r), n)
           t == [tree EXCEPT !.renaming = NoPath]
<1>1. r \in Path
  BY Kept DEF CommitRename, IsTree
<1>2. n \in Elems /\ Parent(r) \in Seq(Elems)
  BY <1>1, ParentIsSeq DEF Elems
<1>3. to \in Path
  BY <1>2, AppendPath
<1>4. awaited' = awaited \cup {Move(r, to, NoPath)} /\ tree' = t
      /\ UNCHANGED <<fs, active, newDir, saved, dom, crossed>>
  BY DEF CommitRename
<1>5. IsTree(t) /\ Alike(t, tree)
  <2>1. IsTree(tree)
    BY Kept
  <2> QED BY <2>1 DEF IsTree, TreeFields, Alike
<1> HIDE DEF r, to, t
<1>6. IsOperation(Move(r, to, NoPath)) /\ Move(r, to, NoPath).k = "move"
  BY <1>1, <1>3, MoveCall
<1> QED BY <1>4, <1>5, <1>6, AskFits

LEMMA CreateFits ==
  ASSUME TreesInv, NEW n \in Names, Create(n) PROVE TreesInv'
<1> DEFINE to == Append(newDir, n)
           c == [k |-> "create", to |-> to, unfold |-> newDir, state |-> "asked"]
<1>1. newDir \in Path /\ newDir \in Seq(Elems) /\ n \in Elems
  BY Kept DEF Create, Path, Elems
<1>2. to \in Path /\ to[1] = newDir[1]
  BY <1>1, AppendPath
<1>3. awaited' = awaited \cup {c} /\ tree' = tree
      /\ UNCHANGED <<fs, active, newDir, saved, dom, crossed>>
  BY DEF Create
<1> HIDE DEF to
<1>4. IsOperation(c) /\ c.k = "create"
  BY <1>1, <1>2 DEF IsOperation
<1> HIDE DEF c
<1> QED BY <1>3, <1>4, Kept, AlikeSelf, AskFits

LEMMA DeleteFits ==
  ASSUME TreesInv, NEW p \in dom.rows, Delete(p) PROVE TreesInv'
<1> DEFINE t == [tree EXCEPT !.selected = p]
           c == [k |-> "delete", from |-> p, state |-> "asked"]
<1>1. awaited' = awaited \cup {c} /\ tree' = t
      /\ UNCHANGED <<fs, active, newDir, saved, dom, crossed>>
  BY DEF Delete
<1>2. IsTree(t) /\ Alike(t, tree)
  <2>1. IsTree(tree)
    BY Kept
  <2> QED BY <2>1 DEF IsTree, TreeFields, Alike
<1>3. IsOperation(c) /\ c.k = "delete"
  BY DEF IsOperation
<1> HIDE DEF t, c
<1> QED BY <1>1, <1>2, <1>3, AskFits

\* A step that draws the tree again, with another row selected or renamed.
LEMMA DrawFits ==
  ASSUME TreesInv, NEW t, NEW cs, IsTree(t), Alike(t, tree), Redraw(t, cs), cs \subseteq awaited,
         UNCHANGED <<fs, active, saved, crossed>>, newDir' \in Path \cup {NoPath}
  PROVE  TreesInv'
<1>1. IsDom(dom, t) /\ (~crossed => OwnTree(t) /\ OwnCalls(awaited, t))
  BY Kept, AlikeFits
<1>2. IsCalls(cs, t.gen) /\ (~crossed => OwnCalls(cs, t))
  BY <1>1, Kept DEF IsCalls, OwnCalls, Alike
<1>3. /\ tree' = t /\ IsDom(dom', t) /\ IsCalls(awaited', t.gen)
      /\ OwnCalls(cs, t) => OwnCalls(awaited', t)
  BY <1>1, <1>2, RedrawFits
<1> QED BY <1>1, <1>2, <1>3, Kept, TreeStep DEF Alike

\* The same for a step that asks for a fresh list.
LEMMA RefreshStep ==
  ASSUME TreesInv, NEW t, NEW cs, NEW force, IsTree(t), Alike(t, tree), AskRefresh(t, force, cs),
         cs \subseteq awaited, UNCHANGED <<fs, active, saved, crossed>>,
         newDir' \in Path \cup {NoPath}
  PROVE  TreesInv'
<1>1. IsDom(dom, t) /\ (~crossed => OwnTree(t) /\ OwnCalls(awaited, t))
  BY Kept, AlikeFits
<1>2. IsCalls(cs, t.gen) /\ (~crossed => OwnCalls(cs, t))
  BY <1>1, Kept DEF IsCalls, OwnCalls, Alike
<1>3. /\ tree' = t /\ IsDom(dom', t) /\ IsCalls(awaited', t.gen)
      /\ OwnTree(t) /\ OwnCalls(cs, t) => OwnCalls(awaited', t)
  BY <1>1, <1>2, AskRefreshFits
<1> QED BY <1>1, <1>2, <1>3, Kept, TreeStep DEF Alike

\* A listed entry is a path, in the root unless an operation crossed.
LEMMA EntryHas ==
  ASSUME TreesInv, NEW d \in DOMAIN tree.entries, NEW p \in tree.entries[d]
  PROVE  p \in Path /\ Parent(p) = d /\ d \in Path
         /\ (~crossed => tree.root # NoPath /\ p[1] = tree.root[1])
<1>1. p \in Path /\ Parent(p) = d /\ d \in Path
  BY Kept DEF IsTree
<1>2. ~crossed => tree.root # NoPath /\ d[1] = tree.root[1]
  BY Kept DEF OwnTree
<1> QED BY <1>1, <1>2, ParentRoot

LEMMA NewFileFits == ASSUME TreesInv, ShowNewFile PROVE TreesInv'
<1>1. newDir' \in Path
  <2>1. tree.root \in Path
    BY Kept, TopIsPath DEF ShowNewFile, IsTree, Root
  <2>2. ASSUME NEW d \in DOMAIN tree.entries, tree.selected \in tree.entries[d]
        PROVE  tree.selected \in Path /\ Parent(tree.selected) \in Path
    BY <2>2, EntryHas
  <2> QED BY <2>1, <2>2 DEF ShowNewFile, NewFileDir
<1>2. UNCHANGED <<fs, active, tree, saved, dom, awaited, crossed>>
  BY DEF ShowNewFile
<1> QED BY <1>1, <1>2, Kept, AlikeSelf, QuietFits

LEMMA UserFits == ASSUME TreesInv, User PROVE TreesInv'
<1>1. ASSUME NEW r \in Tops \cup {NoPath}, Activate(r) PROVE TreesInv'
  <2>1. active' = r /\ r \in Root /\ UNCHANGED <<fs, saved, newDir, crossed>>
    BY <1>1 DEF Activate, Root
  <2>2. CASE hidden
    BY <1>1, <2>1, <2>2, Kept, AlikeSelf, QuietFits DEF Activate
  <2>3. CASE ~hidden
    BY <1>1, <2>1, <2>3, RenderFits DEF Activate
  <2> QED BY <2>2, <2>3
<1>2. ASSUME Toggle PROVE TreesInv'
  <2>1. UNCHANGED <<fs, saved, newDir, crossed, active>> /\ active \in Root
    BY <1>2, Kept DEF Toggle
  <2>2. CASE ~hidden
    BY <1>2, <2>1, <2>2, Kept, AlikeSelf, QuietFits DEF Toggle
  <2>3. CASE hidden
    BY <1>2, <2>1, <2>3, RenderFits DEF Toggle
  <2> QED BY <2>2, <2>3
<1>3. ASSUME RenderAll PROVE TreesInv'
  BY <1>3, Kept, RenderFits DEF RenderAll
<1>4. ASSUME ArrowKeys PROVE TreesInv'
  <2>1. UNCHANGED <<fs, active, newDir, crossed>>
    BY <1>4 DEF ArrowKeys
  <2>2. ASSUME NEW p, SelectRow(p) PROVE TreesInv'
    BY <2>1, <2>2, SelectFits
  <2>3. ASSUME NEW d \in DOMAIN tree.entries, tree.selected \in tree.entries[d],
               ToggleDir(tree.selected)
        PROVE  TreesInv'
    BY <2>1, <2>3, EntryHas, ToggleFits
  <2> QED BY <1>4, <2>2, <2>3 DEF ArrowKeys
<1>5. ASSUME NEW p \in dom.rows, ClickRow(p) PROVE TreesInv'
  <2>1. UNCHANGED <<fs, active, newDir, crossed>> /\ (ToggleDir(p) \/ SelectRow(p))
    BY <1>5 DEF ClickRow
  <2> QED BY <2>1, RowHas, ToggleFits, SelectFits
<1>6. ASSUME StartRename PROVE TreesInv'
  <2> DEFINE t == [tree EXCEPT !.renaming = tree.selected]
  <2>1. tree' = t /\ UNCHANGED <<fs, active, newDir, saved, dom, awaited, crossed>>
        /\ tree.selected \in dom.rows
    BY <1>6 DEF StartRename
  <2>2. IsTree(tree) /\ tree.selected \in Path
    BY <2>1, Kept, RowHas
  <2>3. IsTree(t) /\ Alike(t, tree)
    BY <2>2 DEF IsTree, TreeFields, Alike
  <2> HIDE DEF t
  <2>4. IsCalls(awaited', t.gen)
    BY <2>1, <2>3, Kept DEF Alike
  <2> QED BY <2>1, <2>3, <2>4, Kept, QuietFits
<1>7. ASSUME CancelRename PROVE TreesInv'
  <2> DEFINE t == [tree EXCEPT !.renaming = NoPath]
  <2>1. Redraw(t, awaited) /\ UNCHANGED <<fs, active, newDir, saved, crossed>>
    BY <1>7 DEF CancelRename
  <2>2. IsTree(tree) /\ newDir' \in Path \cup {NoPath}
    BY <2>1, Kept
  <2>3. IsTree(t) /\ Alike(t, tree)
    BY <2>2 DEF IsTree, TreeFields, Alike
  <2> HIDE DEF t
  <2> QED BY <2>1, <2>2, <2>3, DrawFits
<1>8. ASSUME CloseNewFile PROVE TreesInv'
  <2>1. newDir' = NoPath /\ UNCHANGED <<fs, active, tree, saved, dom, awaited, crossed>>
    BY <1>8 DEF CloseNewFile
  <2> QED BY <2>1, Kept, AlikeSelf, QuietFits
<1>9. ASSUME RefreshButton PROVE TreesInv'
  BY <1>9, Kept, AlikeSelf, RefreshStep DEF RefreshButton
<1> QED BY <1>1, <1>2, <1>3, <1>4, <1>5, <1>6, <1>7, <1>8, <1>9, DeleteFits, DragFits,
           CommitFits, CreateFits, NewFileFits DEF User

LEMMA PollFits == ASSUME TreesInv, Poll PROVE TreesInv'
  BY Kept, AlikeSelf, RefreshStep DEF Poll

-----------------------------------------------------------------------------
(* The file tree: the backend answers                                      *)

\* A step of the disk: the page only has another answer to wait for.
LEMMA DiskStep ==
  ASSUME TreesInv, fs' \subseteq Path, UNCHANGED <<active, tree, saved, newDir, dom, crossed>>,
         IsCalls(awaited', tree.gen),
         OwnCalls(awaited, tree) => OwnCalls(awaited', tree)
  PROVE  TreesInv'
<1>1. PageTypes'
  BY DEF TreesInv, PageTypes
<1>2. SavedIsOpen'
  BY DEF TreesInv, SavedIsOpen
<1> QED BY <1>1, <1>2 DEF TreesInv

LEMMA DiskIsPaths == ASSUME TreesInv PROVE fs \subseteq Path
  BY DEF TreesInv, PageTypes

\* One call is replaced by its answer.
LEMMA AnswerFits ==
  ASSUME TreesInv, NEW c, NEW s, c \in awaited, c.k \in {"move", "create", "delete"},
         Answer(c, s), fs' \subseteq Path, UNCHANGED <<active, tree, saved, newDir, dom, crossed>>
  PROVE  TreesInv'
<1> DEFINE a == [c EXCEPT !.state = s]
           cs == awaited \ {c}
<1>1. IsOperation(c)
  BY Kept DEF IsCalls
<1>2. IsOperation(a) /\ a.k \in {"move", "create", "delete"}
  <2>1. CASE c.k = "move"
    BY <1>1, <2>1 DEF IsOperation
  <2>2. CASE c.k = "create"
    BY <1>1, <2>2 DEF IsOperation
  <2>3. CASE c.k = "delete"
    BY <1>1, <2>3 DEF IsOperation
  <2> QED BY <2>1, <2>2, <2>3
<1>3. awaited' = cs \cup {a}
  BY DEF Answer
<1>4. IsCalls(cs, tree.gen) /\ (OwnCalls(awaited, tree) => OwnCalls(cs, tree))
  BY Kept DEF IsCalls, OwnCalls
<1> HIDE DEF a, cs
<1> QED BY <1>2, <1>3, <1>4, OperationFits, DiskStep

LEMMA ReadFits ==
  ASSUME TreesInv, NEW c \in awaited, NEW d \in c.dirs, ReadDir(c, d)
  PROVE  TreesInv'
<1> DEFINE D == DOMAIN c.lists \cup {d}
           L == [e \in D |-> IF e = d THEN ListOf(d) ELSE c.lists[e]]
           a == [c EXCEPT !.lists = L]
           cs == awaited \ {c}
<1>1. c.k \in {"refresh", "lazy"} /\ IsRequest(c, tree.gen)
  BY Kept DEF ReadDir, Requests, IsCalls
<1>2. ASSUME NEW e \in D, L[e] # << >>, NEW p \in L[e][1]
      PROVE  p \in Path /\ Parent(p) = e
  <2>1. CASE e = d
    <3>1. L[e] = <<{q \in fs : Parent(q) = d}>>
      BY <1>2, <2>1 DEF ListOf
    <3> QED BY <1>2, <2>1, <3>1, DiskIsPaths
  <2>2. CASE e # d
    <3>1. e \in DOMAIN c.lists /\ L[e] = c.lists[e]
      BY <1>2, <2>2
    <3> QED BY <1>1, <1>2, <3>1 DEF IsRequest
  <2> QED BY <2>1, <2>2
<1>3. DOMAIN L = D
  OBVIOUS
<1> HIDE DEF L, D
<1>4. /\ a.k = c.k /\ a.gen = c.gen /\ a.dirs = c.dirs /\ a.lists = L
      /\ a = [f \in {"k", "gen", "force", "dirs", "lists"} |-> a[f]]
  BY <1>1 DEF IsRequest
<1>5. awaited' = cs \cup {a} /\ UNCHANGED <<fs, active, tree, saved, newDir, dom, crossed>>
  BY DEF ReadDir, Listing, L, D
<1> HIDE DEF a
<1>6. IsRequest(a, tree.gen)
  BY <1>1, <1>2, <1>3, <1>4 DEF IsRequest
<1>7. IsCalls(awaited', tree.gen)
  BY <1>1, <1>4, <1>5, <1>6, Kept DEF IsCalls
<1>8. OwnCalls(awaited, tree) => OwnCalls(awaited', tree)
  BY <1>1, <1>4, <1>5 DEF OwnCalls
<1> QED BY <1>5, <1>7, <1>8, DiskIsPaths, DiskStep

LEMMA BackendFits == ASSUME TreesInv, Backend(awaited) PROVE TreesInv'
<1>1. ASSUME NEW c \in awaited, MovePath(c) PROVE TreesInv'
  <2>1. c.from \in Path /\ c.to \in Path
    BY <1>1, Kept DEF MovePath, IsCalls, IsOperation
  <2>2. fs' \subseteq Path
    BY <1>1, <2>1, DiskIsPaths, MovedPaths DEF MovePath
  <2>3. c.k = "move" /\ UNCHANGED <<active, tree, saved, newDir, dom, crossed>>
        /\ (Answer(c, "ok") \/ Answer(c, "failed"))
    BY <1>1 DEF MovePath
  <2> QED BY <2>2, <2>3, AnswerFits
<1>2. ASSUME NEW c \in awaited, CreatePath(c) PROVE TreesInv'
  <2>1. c.to \in Path
    BY <1>2, Kept DEF CreatePath, IsCalls, IsOperation
  <2>2. fs' \subseteq Path
    BY <1>2, <2>1, DiskIsPaths DEF CreatePath
  <2>3. c.k = "create" /\ UNCHANGED <<active, tree, saved, newDir, dom, crossed>>
        /\ (Answer(c, "ok") \/ Answer(c, "failed"))
    BY <1>2 DEF CreatePath
  <2> QED BY <2>2, <2>3, AnswerFits
<1>3. ASSUME NEW c \in awaited, DeletePath(c) PROVE TreesInv'
  <2>1. fs' \subseteq Path
    BY <1>3, DiskIsPaths DEF DeletePath
  <2>2. c.k = "delete" /\ UNCHANGED <<active, tree, saved, newDir, dom, crossed>>
        /\ (Answer(c, "ok") \/ Answer(c, "failed"))
    BY <1>3 DEF DeletePath
  <2> QED BY <2>1, <2>2, AnswerFits
<1> QED BY <1>1, <1>2, <1>3, ReadFits DEF Backend

LEMMA AgentFits == ASSUME TreesInv, NEW p \in Others, AgentActs(p) PROVE TreesInv'
<1>1. p \in Path
  BY NamesAssumption DEF Path, Elems
<1>2. fs' \subseteq Path
  BY <1>1, DiskIsPaths DEF AgentActs
<1>3. UNCHANGED <<active, tree, saved, newDir, dom, awaited, crossed>>
  BY DEF AgentActs
<1> QED BY <1>2, <1>3, Kept, DiskStep

-----------------------------------------------------------------------------
(* The file tree: the page goes on                                         *)

\* Fewer calls are awaited.
LEMMA FewerFits ==
  ASSUME TreesInv, NEW c
  PROVE  /\ IsCalls(awaited \ {c}, tree.gen)
         /\ ~crossed => OwnCalls(awaited \ {c}, tree)
  BY Kept DEF IsCalls, OwnCalls

\* An answer that is dropped.
LEMMA DropFits ==
  ASSUME TreesInv, NEW c, awaited' = awaited \ {c},
         UNCHANGED <<fs, active, tree, saved, newDir, dom, crossed>>
  PROVE  TreesInv'
<1>1. IsCalls(awaited', tree.gen) /\ (OwnCalls(awaited, tree) => OwnCalls(awaited', tree))
  BY Kept DEF IsCalls, OwnCalls
<1> QED BY <1>1, DiskIsPaths, DiskStep

LEMMA MergedFits ==
  ASSUME TreesInv, NEW c \in awaited, c.k \in {"refresh", "lazy"}, DOMAIN c.lists = c.dirs,
         c.gen = tree.gen
  PROVE  /\ IsTree(Merged(tree, c))
         /\ Merged(tree, c).root = tree.root /\ Merged(tree, c).gen = tree.gen
         /\ Merged(tree, c).renaming = tree.renaming
         /\ ~crossed => OwnTree(Merged(tree, c))
<1> DEFINE here == {d \in c.dirs : c.lists[d] # << >>}
           gone == c.dirs \ here
           O == IF c.k = "refresh" THEN tree.open \ gone ELSE tree.open
           D == (DOMAIN tree.entries \ gone) \cup here
           E == [d \in D |-> IF d \in here THEN c.lists[d][1] ELSE tree.entries[d]]
           t == [tree EXCEPT !.open = O, !.entries = E]
<1>1. Merged(tree, c) = t
  BY DEF Merged
<1>2. IsTree(tree) /\ IsRequest(c, tree.gen)
  BY Kept DEF IsCalls
<1>3. O \subseteq tree.open /\ O \subseteq Path
  BY <1>2 DEF IsTree
<1>4. DOMAIN E = D
  OBVIOUS
<1>5. ASSUME NEW d \in D PROVE d \in Path /\ \A p \in E[d] : p \in Path /\ Parent(p) = d
  <2>1. CASE d \in here
    <3>1. E[d] = c.lists[d][1] /\ d \in c.dirs /\ c.lists[d] # << >>
      BY <2>1
    <3> QED BY <1>2, <3>1 DEF IsRequest
  <2>2. CASE d \notin here
    <3>1. E[d] = tree.entries[d] /\ d \in DOMAIN tree.entries
      BY <1>5, <2>2
    <3> QED BY <1>2, <3>1 DEF IsTree
  <2> QED BY <2>1, <2>2
<1>6. ~crossed => \A d \in D \cup O : tree.root # NoPath /\ d[1] = tree.root[1]
  BY <1>3, Kept DEF OwnTree, OwnCalls
<1> HIDE DEF O, D, E
<1>7. /\ t.root = tree.root /\ t.gen = tree.gen /\ t.renaming = tree.renaming
      /\ t.open = O /\ t.entries = E /\ t = [f \in TreeFields |-> t[f]]
  BY <1>2 DEF IsTree, TreeFields
<1> HIDE DEF t
<1>8. IsTree(t)
  BY <1>2, <1>3, <1>4, <1>5, <1>7 DEF IsTree
<1>9. ~crossed => OwnTree(t)
  BY <1>4, <1>6, <1>7 DEF OwnTree
<1> QED BY <1>1, <1>7, <1>8, <1>9

LEMMA ListedFits == ASSUME TreesInv, NEW c \in awaited, Listed(c) PROVE TreesInv'
<1>1. c.k \in {"refresh", "lazy"} /\ DOMAIN c.lists = c.dirs /\ UNCHANGED <<fs, active, newDir, crossed>>
  BY DEF Listed, Requests
<1>2. CASE Stale(c)
  BY <1>1, <1>2, DropFits DEF Listed
<1>3. CASE ~Stale(c)
  <2> DEFINE t == Merged(tree, c)
  <2>1. c.gen = tree.gen
    BY <1>3 DEF Stale
  <2>2. /\ IsTree(t) /\ t.root = tree.root /\ t.gen = tree.gen /\ t.renaming = tree.renaming
        /\ ~crossed => OwnTree(t)
    BY <1>1, <2>1, MergedFits
  <2>3. /\ KeepOpen(t)
        /\ Redraw(t, awaited \ {c})
           \/ (tree' = t /\ awaited' = awaited \ {c} /\ UNCHANGED dom)
    BY <1>3 DEF Listed
  <2> HIDE DEF t
  <2>4. /\ IsSaved(saved') /\ (t.root # NoPath => saved'[t.root] = t.open)
        /\ OwnSaved(saved) /\ OwnTree(t) => OwnSaved(saved')
    <3>1. CASE t.open # tree.open
      BY <2>2, <2>3, <3>1, SaveFits DEF KeepOpen
    <3>2. CASE t.open = tree.open
      BY <2>2, <2>3, <3>2, Kept DEF KeepOpen
    <3> QED BY <3>1, <3>2
  <2>5. IsDom(dom, t) /\ IsCalls(awaited \ {c}, t.gen) /\ (~crossed => OwnCalls(awaited \ {c}, t))
    BY <2>2, Kept, FewerFits DEF IsDom, OwnCalls
  <2>6. /\ tree' = t /\ IsDom(dom', t) /\ IsCalls(awaited', t.gen)
        /\ ~crossed => OwnCalls(awaited', t)
    <3>1. CASE Redraw(t, awaited \ {c})
      BY <2>2, <2>5, <3>1, RedrawFits
    <3>2. CASE tree' = t /\ awaited' = awaited \ {c} /\ UNCHANGED dom
      BY <2>5, <3>2
    <3> QED BY <2>3, <3>1, <3>2
  <2> QED BY <1>1, <2>2, <2>4, <2>6, Kept, TreeStep
<1> QED BY <1>2, <1>3

\* What the tree becomes after an operation: saved, and asked for again.
LEMMA AfterFits ==
  ASSUME TreesInv, NEW t, NEW c, IsTree(t), t.root = tree.root, t.gen = tree.gen,
         ~crossed' => ~crossed /\ OwnTree(t),
         SaveOpen(t), AskRefresh(t, TRUE, awaited \ {c}), UNCHANGED <<fs, active>>,
         newDir' \in Path \cup {NoPath}
  PROVE  TreesInv'
<1>1. /\ IsSaved(saved') /\ (t.root # NoPath => saved'[t.root] = t.open)
      /\ OwnSaved(saved) /\ OwnTree(t) => OwnSaved(saved')
  BY SaveFits
<1>2. IsDom(dom, t) /\ IsCalls(awaited \ {c}, t.gen) /\ (~crossed => OwnCalls(awaited \ {c}, t))
  BY Kept, FewerFits DEF IsDom, OwnCalls
<1>3. /\ tree' = t /\ IsDom(dom', t) /\ IsCalls(awaited', t.gen)
      /\ OwnTree(t) /\ OwnCalls(awaited \ {c}, t) => OwnCalls(awaited', t)
  BY <1>2, AskRefreshFits
<1>4. active' \in Root
  BY Kept
<1>5. ~crossed' => OwnTree(t) /\ OwnCalls(awaited', t) /\ OwnSaved(saved')
  BY <1>1, <1>2, <1>3, Kept
<1> QED BY <1>1, <1>3, <1>4, <1>5, TreeStep

\* A target inside the root of the tree has the root's name first.
LEMMA NotCrossed ==
  ASSUME TreesInv, NEW to \in Path, crossed' = (crossed \/ tree.root = NoPath \/ ~Within(to, tree.root))
  PROVE  ~crossed' => ~crossed /\ tree.root # NoPath /\ to[1] = tree.root[1]
<1>1. ASSUME ~crossed' PROVE ~crossed /\ tree.root # NoPath /\ Within(to, tree.root)
  BY <1>1
<1>2. tree.root \in Root
  BY Kept DEF IsTree
<1> QED BY <1>1, <1>2, WithinRoot DEF Root

LEMMA MoveFits == ASSUME TreesInv, NEW c \in awaited, MoveDone(c) PROVE TreesInv'
<1>1. c.from \in Path /\ c.to \in Path /\ (c.unfold # NoPath => c.unfold \in Path /\ c.unfold[1] = c.to[1])
  BY Kept DEF MoveDone, IsCalls, IsOperation
<1>2. UNCHANGED <<fs, active, newDir>>
  BY DEF MoveDone
<1>3. CASE c.state # "ok"
  <2>1. UNCHANGED <<saved, crossed>>
        /\ (Redraw(tree, awaited \ {c}) \/ (awaited' = awaited \ {c} /\ UNCHANGED <<tree, dom>>))
    BY <1>3 DEF MoveDone
  <2>2. CASE Redraw(tree, awaited \ {c})
    <3>1. awaited \ {c} \subseteq awaited
      OBVIOUS
    <3> QED BY <1>2, <2>1, <2>2, <3>1, Kept, AlikeSelf, DrawFits
  <2>3. CASE awaited' = awaited \ {c} /\ UNCHANGED <<tree, dom>>
    BY <1>2, <2>1, <2>3, DropFits
  <2> QED BY <2>1, <2>2, <2>3
<1>4. CASE c.state = "ok"
  <2> DEFINE M == Moved(tree.open, c.from, c.to)
             O == IF c.unfold = NoPath THEN M ELSE M \cup {c.unfold}
             E == [d \in DOMAIN tree.entries \ {c.from} |-> tree.entries[d]]
             t == Unfolded(Rebased(tree, c.from, c.to), c.unfold)
  <2>1. /\ SaveOpen(t) /\ AskRefresh(t, TRUE, awaited \ {c})
        /\ crossed' = (crossed \/ tree.root = NoPath \/ ~Within(c.to, tree.root))
    BY <1>4 DEF MoveDone
  <2>2. IsTree(tree)
    BY Kept
  <2>3. /\ t.root = tree.root /\ t.gen = tree.gen /\ t.renaming = tree.renaming
        /\ t.open = O /\ t.entries = E /\ t = [f \in TreeFields |-> t[f]]
    BY <2>2 DEF Unfolded, Rebased, IsTree, TreeFields
  <2>4. ~crossed' => ~crossed /\ tree.root # NoPath /\ c.to[1] = tree.root[1]
    BY <1>1, <2>1, NotCrossed
  <2>5. O \subseteq Path
    BY <1>1, <2>2, MovedPaths DEF IsTree
  <2>6. ~crossed' => \A d \in O : d[1] = tree.root[1]
    <3>1. ASSUME ~crossed' PROVE \A d \in M : d[1] = tree.root[1]
      <4>1. \A p \in tree.open : p[1] = tree.root[1]
        BY <2>4, <3>1, Kept DEF OwnTree
      <4> QED BY <1>1, <2>2, <2>4, <3>1, <4>1, MovedPaths DEF IsTree
    <3> QED BY <1>1, <2>4, <3>1
  <2>7. /\ \A d \in DOMAIN E : d \in Path /\ \A p \in E[d] : p \in Path /\ Parent(p) = d
        /\ DOMAIN E \subseteq DOMAIN tree.entries
    BY <2>2 DEF IsTree
  <2> HIDE DEF O, E, t
  <2>8. IsTree(t)
    BY <2>2, <2>3, <2>5, <2>7 DEF IsTree
  <2>9. ~crossed' => ~crossed /\ OwnTree(t)
    BY <2>3, <2>4, <2>6, <2>7, Kept DEF OwnTree
  <2> QED BY <1>2, <2>1, <2>3, <2>8, <2>9, Kept, AfterFits
<1> QED BY <1>3, <1>4

LEMMA CreateDoneFits == ASSUME TreesInv, NEW c \in awaited, CreateDone(c) PROVE TreesInv'
<1>1. c.to \in Path /\ c.unfold \in Path /\ c.unfold[1] = c.to[1]
  BY Kept DEF CreateDone, IsCalls, IsOperation
<1>2. UNCHANGED <<fs, active>>
  BY DEF CreateDone
<1>3. CASE c.state # "ok"
  BY <1>2, <1>3, DropFits DEF CreateDone
<1>4. CASE c.state = "ok"
  <2> DEFINE O == IF c.unfold = NoPath THEN tree.open ELSE tree.open \cup {c.unfold}
             t == [Unfolded(tree, c.unfold) EXCEPT !.selected = c.to]
  <2>1. /\ SaveOpen(t) /\ AskRefresh(t, TRUE, awaited \ {c}) /\ newDir' = NoPath
        /\ crossed' = (crossed \/ tree.root = NoPath \/ ~Within(c.to, tree.root))
    BY <1>4 DEF CreateDone
  <2>2. IsTree(tree)
    BY Kept
  <2>3. /\ t.root = tree.root /\ t.gen = tree.gen /\ t.renaming = tree.renaming
        /\ t.open = O /\ t.entries = tree.entries /\ t = [f \in TreeFields |-> t[f]]
    BY <2>2 DEF Unfolded, IsTree, TreeFields
  <2>4. ~crossed' => ~crossed /\ tree.root # NoPath /\ c.to[1] = tree.root[1]
    BY <1>1, <2>1, NotCrossed
  <2> HIDE DEF t
  <2>5. IsTree(t)
    BY <1>1, <2>2, <2>3 DEF IsTree
  <2>6. ~crossed' => ~crossed /\ OwnTree(t)
    BY <1>1, <2>3, <2>4, Kept DEF OwnTree
  <2> QED BY <1>2, <2>1, <2>3, <2>5, <2>6, AfterFits
<1> QED BY <1>3, <1>4

LEMMA DeleteDoneFits == ASSUME TreesInv, NEW c \in awaited, DeleteDone(c) PROVE TreesInv'
<1>1. UNCHANGED <<fs, active, saved, newDir, crossed>>
  BY DEF DeleteDone
<1>2. CASE c.state # "ok"
  BY <1>1, <1>2, DropFits DEF DeleteDone
<1>3. CASE c.state = "ok"
  <2> DEFINE t == [tree EXCEPT !.selected = IF @ = c.from THEN NoPath ELSE @]
  <2>1. AskRefresh(t, TRUE, awaited \ {c})
    BY <1>3 DEF DeleteDone
  <2>2. IsTree(t) /\ Alike(t, tree)
    <3>1. IsTree(tree)
      BY Kept
    <3> QED BY <3>1 DEF IsTree, TreeFields, Alike
  <2> HIDE DEF t
  <2>3. awaited \ {c} \subseteq awaited
    OBVIOUS
  <2> QED BY <1>1, <2>1, <2>2, <2>3, Kept, RefreshStep
<1> QED BY <1>2, <1>3

-----------------------------------------------------------------------------
(* The file tree: the theorems                                             *)

LEMMA TreesAtFirst == ASSUME Init PROVE TreesInv
<1>1. Disk \subseteq Path
  BY NamesAssumption DEF Path, Elems
<1>2. First \in Path /\ First \in Tops /\ First # NoPath
  BY NamesAssumption, TopIsPath
<1>3. /\ tree.root = First /\ tree.gen = 1 /\ tree.open = {} /\ tree.renaming = NoPath
      /\ tree.entries = [d \in {First} |-> ListOf(d)[1]]
      /\ tree = [f \in TreeFields |-> tree[f]]
  BY DEF Init, NewTree, TreeFields
<1>4. ListOf(First)[1] = {p \in fs : Parent(p) = First}
  BY <1>2 DEF ListOf, Exists
<1>5. IsTree(tree)
  BY <1>1, <1>2, <1>3, <1>4 DEF IsTree, Root, Init
<1>6. IsDom(dom, tree)
  BY <1>5, DrawnFits DEF Init
<1>7. PageTypes /\ SavedIsOpen
  BY <1>1, <1>2, <1>3, <1>5, <1>6 DEF PageTypes, SavedIsOpen, IsCalls, IsSaved, Init, Root
<1>8. OwnTree(tree) /\ OwnCalls(awaited, tree) /\ OwnSaved(saved)
  BY <1>2, <1>3 DEF OwnTree, OwnCalls, OwnSaved, Init
<1> QED BY <1>7, <1>8 DEF TreesInv

\* Whatever was switched, moved, made or removed while answers were under way,
\* the tree, the rows and the calls keep their shape, and what belongs to a root
\* stays below it (the generation and root tests of renderer/explorer.js).
THEOREM TreesKeepTheirRoots == Spec => []TreesInv
<1>1. ASSUME TreesInv, [Next]_treeVars PROVE TreesInv'
  <2>1. CASE Next
    <3>1. ASSUME Page(awaited) PROVE TreesInv'
      BY <1>1, <3>1, ListedFits, MoveFits, CreateDoneFits, DeleteDoneFits DEF Page
    <3> QED BY <1>1, <2>1, <3>1, UserFits, PollFits, BackendFits, AgentFits DEF Next
  <2>2. CASE UNCHANGED treeVars
    <3>1. /\ UNCHANGED <<fs, active, tree, saved, newDir, dom, crossed>>
          /\ awaited' = awaited
      BY <2>2 DEF treeVars
    <3>2. fs' \subseteq Path
      BY <1>1, <3>1, DiskIsPaths
    <3> QED BY <1>1, <3>1, <3>2, Kept, DiskStep
  <2> QED BY <1>1, <2>1, <2>2
<1> QED BY <1>1, TreesAtFirst, PTL DEF Spec

\* The answers of an earlier project never reach the tree of the next one.
THEOREM EachRootToItself == Spec => []OneRoot
  BY TreesKeepTheirRoots, TreesAreOneRoot, PTL

\* A restart or a switch back unfolds what is unfolded now.
THEOREM FoldsAreRemembered == Spec => []SavedIsOpen
<1>1. TreesInv => SavedIsOpen
  BY DEF TreesInv
<1> QED BY <1>1, TreesKeepTheirRoots, PTL

=============================================================================
