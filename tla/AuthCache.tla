----------------------------- MODULE AuthCache -----------------------------
(***************************************************************************)
(* What the processes remember of one API key, and how they forget it when *)
(* the key, its user or its group changes: the snapshot in Redis (l2), the *)
(* one in each process (l1), the outbox row a trigger writes in the        *)
(* transaction of the change, the worker of every process that delivers    *)
(* the rows in two passes, and the Pub/Sub channel that reaches the other  *)
(* processes at most once.  A snapshot is the number of changes it has     *)
(* seen.  A step is one statement or call, with what the process does in   *)
(* its own memory before the next one.                                     *)
(***************************************************************************)
EXTENDS Integers, FiniteSets

CONSTANTS Procs,           \* server processes
          Editors,         \* those that change the key
          MaxChanges,      \* bound on the number of changes
          Nothing,         \* nobody, or nothing cached
          AuthFaultKinds,  \* faults that may happen, see AllAuthFaults
          MaxAuthFaults    \* bound on the number of faults in a behaviour

\* db, redis: a call fails without effect; answer: it is done and seems to
\* fail; net: a subscription breaks; slow: a process is slower than its 30 s
\* lease, or a load slower than the 30 s between the passes; crash: a process
\* restarts.
AllAuthFaults == {"db", "redis", "answer", "net", "slow", "crash"}

ASSUME AuthCacheAssumption ==
    /\ IsFiniteSet(Procs)
    /\ Editors \subseteq Procs
    /\ MaxChanges \in Nat
    /\ Nothing \notin Int \cup Procs
    /\ AuthFaultKinds \subseteq AllAuthFaults
    /\ MaxAuthFaults \in Nat

Changes == 1 .. MaxChanges
Seen    == 0 .. MaxChanges

VARIABLES
    db,          \* changes that are committed
    outbox,      \* auth_cache_invalidation_outbox: the row of each change
    l2,          \* the snapshot in Redis
    l1,          \* the snapshot in each process
    reader,      \* a request that is looking the key up
    direct,      \* deleteAuthCache after a change
    work,        \* the batch of each worker
    conn,        \* processes that are subscribed
    inbox,       \* processes a message is on its way to
    missed,      \* history: processes that may keep an old snapshot, see Miss
    late,        \* history: a load took longer than the safety delay
    authFaults   \* faults still allowed

ofKey  == <<db, outbox>>
ofProc == <<l1, reader, missed>>
authVars ==
    <<ofKey, l2, ofProc, direct, work, conn, inbox, late, authFaults>>

\* stage: absent before the change and after the second pass; due:
\* available_at has come; by: claimed_by; lapsed: the claim is older than its
\* lease; waits: the lookups that were under way when the second pass was
\* scheduled and still are.
Rows == [stage : {"absent", "first", "second"}, due : BOOLEAN,
         by : Procs \cup {Nothing}, lapsed : BOOLEAN, waits : SUBSET Procs]

\* copy: with a snapshot from Redis; load: with one from the database.
Readers == [pc : {"idle", "copy", "load"}, seen : Seen]
Idle    == [pc |-> "idle", seen |-> 0]

Tasks == [id : Changes, stage : {"first", "second"},
          pc : {"delete", "publish", "ack", "retry"}]

\* Type correctness; a worker has a row once in its batch.
AuthTypeOK ==
    /\ db \in Seen
    /\ outbox \in [Changes -> Rows]
    /\ l2 \in Seen \cup {Nothing}
    /\ l1 \in [Procs -> Seen \cup {Nothing}]
    /\ reader \in [Procs -> Readers]
    /\ direct \in [Procs -> {"no", "delete", "publish"}]
    /\ work \in [Procs -> SUBSET Tasks]
    /\ \A p \in Procs : \A s, t \in work[p] : s.id = t.id => s = t
    /\ conn \subseteq Procs
    /\ inbox \subseteq Procs
    /\ missed \subseteq Procs
    /\ late \in BOOLEAN
    /\ authFaults \in 0 .. MaxAuthFaults

NoRow == [stage |-> "absent", due |-> FALSE, by |-> Nothing, lapsed |-> FALSE,
          waits |-> {}]

AuthInit ==
    /\ db = 0 /\ outbox = [v \in Changes |-> NoRow]
    /\ l2 = Nothing /\ l1 = [p \in Procs |-> Nothing]
    /\ reader = [p \in Procs |-> Idle]
    /\ direct = [p \in Procs |-> "no"]
    /\ work = [p \in Procs |-> {}]
    /\ conn = Procs /\ inbox = {}
    /\ missed = {} /\ late = FALSE /\ authFaults = MaxAuthFaults

-----------------------------------------------------------------------------
NoAuthFault     == UNCHANGED authFaults
AuthFault(kind) == /\ kind \in AuthFaultKinds /\ authFaults > 0
                   /\ authFaults' = authFaults - 1

Pending(v)  == outbox[v].stage # "absent"
Reading(p)  == reader[p].pc # "idle"
Row(v, row) == outbox' = [outbox EXCEPT ![v] = row]

\* invalidateLocalAuthCache; a lookup under way may still write what it
\* found before.
Forget(p) ==
    /\ l1' = [l1 EXCEPT ![p] = Nothing]
    /\ missed' = IF Reading(p) THEN missed \cup {p} ELSE missed \ {p}

\* DeleteAuthCache and PublishAuthCacheInvalidation; ok: what the caller
\* learns.
DeleteL2(ok) ==
    \/ ok /\ l2' = Nothing /\ NoAuthFault
    \/ ~ok /\ UNCHANGED l2 /\ AuthFault("redis")
    \/ ~ok /\ l2' = Nothing /\ AuthFault("answer")

Miss(Q) == missed' = missed \cup {q \in Q : l1[q] # Nothing \/ Reading(q)}
Send    == inbox' = inbox \cup conn /\ Miss(Procs \ conn)

Publish(ok) ==
    \/ ok /\ Send /\ NoAuthFault
    \/ ~ok /\ UNCHANGED <<inbox, missed>> /\ AuthFault("redis")
    \/ ~ok /\ Send /\ AuthFault("answer")

-----------------------------------------------------------------------------
(* A change, and the direct invalidation by the process that made it.      *)

\* An update of api_keys, users, groups or user_allowed_groups, with the
\* triggers of the table.
Change(p) ==
    /\ p \in Editors /\ direct[p] = "no" /\ db < MaxChanges
    /\ db' = db + 1
    /\ Row(db', [NoRow EXCEPT !.stage = "first", !.due = TRUE])
    /\ direct' = [direct EXCEPT ![p] = "delete"]
    /\ UNCHANGED <<l2, ofProc, work, conn, inbox, late, authFaults>>

\* deleteAuthCache; its errors are ignored.
DirectDelete(p) ==
    /\ direct[p] = "delete" /\ Forget(p)
    /\ \E ok \in BOOLEAN : DeleteL2(ok)
    /\ direct' = [direct EXCEPT ![p] = "publish"]
    /\ UNCHANGED <<ofKey, reader, work, conn, inbox, late>>

DirectPublish(p) ==
    /\ direct[p] = "publish"
    /\ \E ok \in BOOLEAN : Publish(ok)
    /\ direct' = [direct EXCEPT ![p] = "no"]
    /\ UNCHANGED <<ofKey, l2, l1, reader, work, conn, late>>

-----------------------------------------------------------------------------
(* Lookups: getAuthCacheEntry, and loadAuthCacheEntry after a miss.        *)

ByReader == UNCHANGED <<db, direct, work, conn, inbox, late>>

Find(p, pc, v) == reader' = [reader EXCEPT ![p] = [pc |-> pc, seen |-> v]]

Lookup(p) ==
    /\ ~Reading(p) /\ l1[p] = Nothing
    /\ \/ l2 # Nothing /\ Find(p, "copy", l2) /\ NoAuthFault
       \/ Find(p, "load", db) /\ l2 = Nothing /\ NoAuthFault
       \/ Find(p, "load", db) /\ l2 # Nothing /\ AuthFault("redis")
    /\ UNCHANGED <<outbox, l2, l1, missed>> /\ ByReader

\* The lookup is over, for the rows that wait for it too.
Return(p) ==
    /\ reader' = [reader EXCEPT ![p] = Idle]
    /\ outbox' = [v \in Changes |->
                    [outbox[v] EXCEPT !.waits = @ \ {p}]]

\* setAuthCacheL1, after a load in setAuthCacheEntry.
Remember(p) ==
    /\ Reading(p) /\ Return(p)
    /\ l1' = [l1 EXCEPT ![p] = reader[p].seen]
    /\ missed' = IF reader[p].seen = db THEN missed \ {p} ELSE missed
    /\ \/ reader[p].pc = "copy" /\ UNCHANGED l2 /\ NoAuthFault
       \/ reader[p].pc = "load" /\ l2' = reader[p].seen /\ NoAuthFault
       \/ reader[p].pc = "load" /\ UNCHANGED l2 /\ AuthFault("redis")
    /\ ByReader

-----------------------------------------------------------------------------
(* The worker of a process.                                                *)

\* A batch of rows that are due and nobody's, or whose claim has lapsed; a
\* new batch is claimed when the last one is done with.
Claimable_unclaimed(v) ==
    Pending(v) /\ outbox[v].due /\ outbox[v].by = Nothing

Claimable(v) ==
    Pending(v) /\ outbox[v].due /\ (outbox[v].by = Nothing \/ outbox[v].lapsed)

Claim(p) ==
    LET batch == {v \in Changes : Claimable(v)} IN
    /\ work[p] = {} /\ batch # {}
    /\ outbox' = [v \in Changes |->
          IF v \in batch THEN [outbox[v] EXCEPT !.by = p, !.lapsed = FALSE]
          ELSE outbox[v]]
    /\ \/ NoAuthFault
          /\ work' = [work EXCEPT ![p] =
                {[id |-> v, stage |-> outbox[v].stage, pc |-> "delete"] :
                    v \in batch}]
       \/ AuthFault("answer") /\ UNCHANGED work
    /\ UNCHANGED <<db, l2, ofProc, direct, conn, inbox, late>>

Done(p, t)     == work' = [work EXCEPT ![p] = @ \ {t}]
Goes(p, t, pc) == work' = [work EXCEPT ![p] = (@ \ {t}) \cup
                                                {[t EXCEPT !.pc = pc]}]

\* processEvent.
Delete(p, t) ==
    /\ t.pc = "delete" /\ Forget(p)
    /\ \E ok \in BOOLEAN :
         DeleteL2(ok) /\ Goes(p, t, IF ok THEN "publish" ELSE "retry")
    /\ UNCHANGED <<ofKey, reader, direct, conn, inbox, late>>

Tell(p, t) ==
    /\ t.pc = "publish"
    /\ \E ok \in BOOLEAN :
         Publish(ok) /\ Goes(p, t, IF ok THEN "ack" ELSE "retry")
    /\ UNCHANGED <<ofKey, l2, l1, reader, direct, conn, late>>

\* A statement that finds the claim taken over changes nothing, and neither
\* does one that fails; the worker drops the row in every case.
Mine(p, t) == Pending(t.id) /\ outbox[t.id].by = p

Settle(p, t, row) ==
    /\ Done(p, t)
    /\ \/ Mine(p, t) /\ Row(t.id, row) /\ NoAuthFault
       \/ ~Mine(p, t) /\ UNCHANGED outbox /\ NoAuthFault
       \/ UNCHANGED outbox /\ AuthFault("db")
    /\ UNCHANGED <<db, l2, ofProc, direct, conn, inbox, late>>

Free(v) == [outbox[v] EXCEPT !.due = FALSE, !.by = Nothing, !.lapsed = FALSE]

ScheduleSecondPass_enough(p, t) ==
    t.pc = "ack" /\ t.stage = "first" /\ Settle(p, t, NoRow)

\* ScheduleSecondPass also asks that the row is at the first stage, which it
\* is under this claim.
ScheduleSecondPass(p, t) ==
    /\ t.pc = "ack" /\ t.stage = "first"
    /\ Settle(p, t, [Free(t.id) EXCEPT !.stage = "second",
                                       !.waits = {q \in Procs : Reading(q)}])

DeleteClaimed(p, t) ==
    t.pc = "ack" /\ t.stage = "second" /\ Settle(p, t, NoRow)

RetryClaimed(p, t) == t.pc = "retry" /\ Settle(p, t, Free(t.id))

Process(p) ==
    \E t \in work[p] :
        \/ Delete(p, t) \/ Tell(p, t) \/ ScheduleSecondPass(p, t)
        \/ DeleteClaimed(p, t) \/ RetryClaimed(p, t)

-----------------------------------------------------------------------------
(* Messages, time, and the end of a process.                               *)

Deliver(p) ==
    /\ p \in inbox /\ inbox' = inbox \ {p} /\ Forget(p)
    /\ UNCHANGED <<ofKey, l2, reader, direct, work, conn, late, authFaults>>

Disconnect(p) ==
    /\ p \in conn /\ conn' = conn \ {p}
    /\ inbox' = inbox \ {p} /\ Miss(inbox \cap {p})
    /\ AuthFault("net")
    /\ UNCHANGED <<ofKey, l2, l1, reader, direct, work, late>>

Subscribe(p) ==
    /\ p \notin conn /\ conn' = conn \cup {p}
    /\ UNCHANGED <<ofKey, l2, ofProc, direct, work, inbox, late, authFaults>>

ByTime == UNCHANGED <<db, reader, direct, work, conn, inbox>>

\* available_at comes: of a retry after its delay, of a second pass after
\* 30 s, when the lookups under way at the first one have ended.
ComesDue(v) ==
    /\ Pending(v) /\ ~outbox[v].due
    /\ outbox[v].waits = {}
    /\ Row(v, [outbox[v] EXCEPT !.due = TRUE])
    /\ UNCHANGED <<l2, l1, missed, late, authFaults>> /\ ByTime

ComesDueEarly(v) ==
    /\ Pending(v) /\ ~outbox[v].due
    /\ outbox[v].waits # {} /\ AuthFault("slow") /\ late' = TRUE
    /\ Row(v, [outbox[v] EXCEPT !.due = TRUE, !.waits = {}])
    /\ UNCHANGED <<l2, l1, missed>> /\ ByTime

\* A claim lapses, of a worker that has lost it or is slower than 30 s.
Forsaken(v) == ~\E p \in Procs : \E t \in work[p] :
                    t.id = v /\ outbox[v].by = p

ClaimLapses(v) ==
    /\ Pending(v) /\ outbox[v].by # Nothing /\ ~outbox[v].lapsed
    /\ Row(v, [outbox[v] EXCEPT !.lapsed = TRUE])
    /\ \/ Forsaken(v) /\ NoAuthFault
       \/ ~Forsaken(v) /\ AuthFault("slow")
    /\ UNCHANGED <<l2, l1, missed, late>> /\ ByTime

L1Expires(p) ==
    /\ l1[p] # Nothing /\ Forget(p)
    /\ UNCHANGED <<outbox, l2, late, authFaults>> /\ ByTime

L2Expires ==
    /\ l2 # Nothing /\ l2' = Nothing
    /\ UNCHANGED <<outbox, l1, missed, late, authFaults>> /\ ByTime

Restart(p) ==
    /\ AuthFault("crash")
    /\ l1' = [l1 EXCEPT ![p] = Nothing] /\ missed' = missed \ {p} /\ Return(p)
    /\ direct' = [direct EXCEPT ![p] = "no"]
    /\ work' = [work EXCEPT ![p] = {}]
    /\ conn' = conn \ {p} /\ inbox' = inbox \ {p}
    /\ UNCHANGED <<db, l2, late>>

AuthNext ==
    \/ \E p \in Procs :
          \/ Change(p) \/ DirectDelete(p) \/ DirectPublish(p)
          \/ Lookup(p) \/ Remember(p) \/ Claim(p) \/ Process(p) \/ Deliver(p)
          \/ Disconnect(p) \/ Subscribe(p) \/ L1Expires(p) \/ Restart(p)
    \/ \E v \in Changes : ComesDue(v) \/ ComesDueEarly(v) \/ ClaimLapses(v)
    \/ L2Expires

AuthSpec == AuthInit /\ [][AuthNext]_authVars

\* Lookups and workers go on, time passes and entries expire; no message
\* need ever arrive.
AuthFairness ==
    /\ \A p \in Procs : /\ WF_authVars(Remember(p))
                        /\ WF_authVars(Claim(p) \/ Process(p))
                        /\ WF_authVars(L1Expires(p))
    /\ \A v \in Changes : /\ WF_authVars(ComesDue(v))
                          /\ WF_authVars(Forsaken(v) /\ ClaimLapses(v))

AuthFairSpec == AuthSpec /\ AuthFairness

-----------------------------------------------------------------------------
(* Properties.                                                             *)

\* A snapshot in Redis that has not seen a change is still to be removed by
\* the row of that change, whatever loads were under way; but for a load
\* slower than the delay between the passes.  So is a snapshot in a process,
\* or a message that removes it is on its way; but for a process that was not
\* subscribed, and for a lookup that had found the old snapshot when the
\* process was told to forget it.
StaleIsPending ==
    ~late =>
        /\ l2 # Nothing => \A v \in l2 + 1 .. db : Pending(v)
        /\ \A p \in Procs \ missed :
               l1[p] # Nothing =>
                   p \in inbox \/ \A v \in l1[p] + 1 .. db : Pending(v)

\* After the last change every copy that misses it is forgotten, in Redis
\* without the help of its TTL, and none comes back.
AllCurrent == \A c \in {l2} \cup {l1[p] : p \in Procs} : c \in {Nothing, db}
ChangesReachAll == db = MaxChanges ~> [](late \/ AllCurrent)
=============================================================================
