------------------------------ MODULE JobQueue ------------------------------
(***************************************************************************)
(* What a pool of download threads is for: the jobs of a list are taken    *)
(* one after the other, each of them once, and the pool returns when all   *)
(* of them were taken, or earlier when something failed.                   *)
(***************************************************************************)
EXTENDS Naturals, Sequences

VARIABLES
    jobs,           \* the list handed to the pool
    taken,          \* what the workers have taken, in order
    failed,         \* something has failed
    over            \* the pool has returned

Init ==
    /\ taken = <<>>
    /\ failed = FALSE
    /\ over = FALSE

Take ==
    /\ ~over
    /\ Len(taken) < Len(jobs)
    /\ taken' = Append(taken, jobs[Len(taken) + 1])
    /\ UNCHANGED <<jobs, failed, over>>

Fail ==
    /\ ~over
    /\ failed' = TRUE
    /\ UNCHANGED <<jobs, taken, over>>

Return ==
    /\ ~over
    /\ failed \/ Len(taken) = Len(jobs)
    /\ over' = TRUE
    /\ UNCHANGED <<jobs, taken, failed>>

Next == Take \/ Fail \/ Return

Spec == Init /\ [][Next]_<<jobs, taken, failed, over>>
=============================================================================
