----------------------------- MODULE MCStagingArea -----------------------------
(***************************************************************************)
(* Small instances of StagingArea for TLC.                                 *)
(***************************************************************************)
EXTENDS StagingArea, TLC

\* The first item makes two images, the others one.
FirstMakesTwo == [i \in Items |-> IF i = 1 THEN 2 ELSE 1]

===============================================================================
