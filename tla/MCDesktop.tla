----------------------------- MODULE MCDesktop -----------------------------
\* A user who edits one file over and over while a program writes it too, one
\* who edits it once while other dialogs come and go, one who changes the
\* settings, one who does both, and one who keeps projects and presets.
EXTENDS Projects

DialogPlans == {
    [opens |-> {"editor"}, eds |-> 2, edits |-> 2, sets |-> 0, saves |-> 0, acts |-> 0, items |-> 5],
    [opens |-> {"editor", "update", "pull", "clear"}, eds |-> 1, edits |-> 1, sets |-> 0, saves |-> 0, acts |-> 0, items |-> 5],
    [opens |-> {"settings", "update", "clear"}, eds |-> 0, edits |-> 0, sets |-> 1, saves |-> 2, acts |-> 0, items |-> 5],
    [opens |-> {"settings"}, eds |-> 0, edits |-> 0, sets |-> 2, saves |-> 1, acts |-> 0, items |-> 5],
    [opens |-> {"editor", "settings"}, eds |-> 1, edits |-> 1, sets |-> 1, saves |-> 0, acts |-> 0, items |-> 5],
    [opens |-> {"forms"}, eds |-> 0, edits |-> 0, sets |-> 0, saves |-> 0, acts |-> 4, items |-> 6]}
=============================================================================
