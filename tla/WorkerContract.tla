------------------------------ MODULE WorkerContract ------------------------------
(***************************************************************************)
(* What the session queue and the session processor promise together: a    *)
(* single worker that takes each job at most once and always lets go of    *)
(* it.  It says nothing of how jobs arrive, are chosen, canceled or saved. *)
(***************************************************************************)
EXTENDS Naturals

CONSTANT Jobs

VARIABLES
    taken,   \* the jobs ever given to the worker
    current  \* the job the worker is executing, 0 for none

contractVars == <<taken, current>>

ContractInit == taken = {} /\ current = 0

Take(j) ==
    /\ current = 0
    /\ j \notin taken
    /\ taken' = taken \cup {j}
    /\ current' = j

\* The job came to an end, or the worker died with it.
Release ==
    /\ current # 0
    /\ current' = 0
    /\ UNCHANGED taken

ContractNext == Release \/ \E j \in Jobs : Take(j)

Contract == ContractInit /\ [][ContractNext]_contractVars
FairContract == Contract /\ WF_contractVars(Release)
===================================================================================
