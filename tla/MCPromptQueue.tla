---------------------------- MODULE MCPromptQueue ----------------------------
(* Small instances of PromptQueue for TLC.  The second of two prompts is long *)
(* enough to be folded by the tool.  One prompt meets any two acts, two       *)
(* prompts any one.                                                           *)
EXTENDS PromptQueue

FoldedItems == {2}

FewActs == [n \in 0..MaxItems |-> IF n = 2 THEN 1 ELSE 2]
=============================================================================
