----------------------------- MODULE AuditJobs -----------------------------
(***************************************************************************)
(* What the asynchronous prompt audit promises of its jobs: no more than   *)
(* Capacity of them are pending; a pending job ends once, done with at     *)
(* most one event or failed without one; an event is only ever removed     *)
(* together with its job.                                                  *)
(***************************************************************************)
EXTENDS Naturals, FiniteSets

CONSTANTS Jobs,     \* prompts to audit
          Capacity  \* cfg.QueueCapacity

VARIABLES
    phase,   \* absent, pending, done, failed or deleted
    events   \* number of events recorded for the job

Pending == {j \in Jobs : phase[j] = "pending"}

Init ==
    /\ phase = [j \in Jobs |-> "absent"]
    /\ events = [j \in Jobs |-> 0]

Admit(j) ==
    /\ phase[j] = "absent" /\ Cardinality(Pending) < Capacity
    /\ phase' = [phase EXCEPT ![j] = "pending"]
    /\ UNCHANGED events

\* A job ends with its verdict; one of a blocking request is recorded so.
Done(j) ==
    /\ phase[j] \in {"absent", "pending"}
    /\ phase' = [phase EXCEPT ![j] = "done"]
    /\ \E n \in {0, 1} : events' = [events EXCEPT ![j] = n]

Fail(S) ==
    /\ S \subseteq Pending
    /\ phase' = [j \in Jobs |-> IF j \in S THEN "failed" ELSE phase[j]]
    /\ UNCHANGED events

Delete(j) ==
    /\ phase[j] = "done" /\ events[j] = 1
    /\ phase' = [phase EXCEPT ![j] = "deleted"]
    /\ events' = [events EXCEPT ![j] = 0]

Next ==
    \/ \E j \in Jobs : Admit(j) \/ Done(j) \/ Delete(j)
    \/ \E S \in SUBSET Jobs : Fail(S)

Spec == Init /\ [][Next]_<<phase, events>>
=============================================================================
