---------------------------- MODULE MCSessionProcessor ----------------------------
(***************************************************************************)
(* Small instances of SessionProcessor for TLC.                            *)
(***************************************************************************)
EXTENDS SessionProcessor

CONSTANTS u1, u2, q1, d1

\* One user's batch, and a second batch of another user, on the same queue.
B1 == [id |-> 1, queue |-> q1, dest |-> d1, user |-> u1]
B2 == [id |-> 2, queue |-> q1, dest |-> d1, user |-> u2]

OneBatch == {B1}
TwoUsers == {B1, B2}
===================================================================================
