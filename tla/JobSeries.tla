------------------------------ MODULE JobSeries ------------------------------
(***************************************************************************)
(* What a controller promises about the Jobs it makes: those of one owner  *)
(* and key form a series of numbered attempts, the next of which is begun  *)
(* only when all before it have ended.  A name that is taken stays taken   *)
(* until its Job is dropped, and a Job that has ended does not run again.  *)
(*                                                                         *)
(* How the controller knows what it has begun, from lists that are old and *)
(* copies that are stale, and what the Jobs do, is left to the detailed    *)
(* specification.                                                          *)
(***************************************************************************)
EXTENDS Naturals

CONSTANTS
    Keys,           \* what there may be a series of Jobs for
    MaxAttempts,    \* how many Jobs a series may have
    Owners          \* those that may own a series

VARIABLE jobs       \* by key and number: the Job of that name

Numbers == 1 .. MaxAttempts

NoJob == [owner |-> 0, state |-> "none"]

Init == jobs = [name \in Keys \X Numbers |-> NoJob]

\* The next attempt of its owner at this key, under a name that is free.
Begin(owner, key, n) ==
    /\ jobs[<<key, n>>] = NoJob
    /\ \A m \in Numbers :
          jobs[<<key, m>>].owner = owner => m < n /\ jobs[<<key, m>>].state = "ended"
    /\ jobs' = [jobs EXCEPT ![<<key, n>>] = [owner |-> owner, state |-> "running"]]

End(name) ==
    /\ jobs[name].state = "running"
    /\ jobs' = [jobs EXCEPT ![name].state = "ended"]

\* A Job that expired, or whose owner is gone.
Drop(name) == jobs' = [jobs EXCEPT ![name] = NoJob]

Next ==
    \/ \E owner \in Owners, key \in Keys, n \in Numbers : Begin(owner, key, n)
    \/ \E name \in Keys \X Numbers : End(name) \/ Drop(name)

Spec == Init /\ [][Next]_jobs
=============================================================================
