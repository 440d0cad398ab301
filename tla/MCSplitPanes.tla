---------------------------- MODULE MCSplitPanes ----------------------------
EXTENDS SplitPanes, TLC

\* Panes of the instance's modes.
CountOf == [m \in Modes |-> IF m = "1x1" THEN 1 ELSE IF m = "3x1" THEN 3 ELSE 2]
\* Session ids are interchangeable.
Symmetry == Permutations(Sess)
=============================================================================
