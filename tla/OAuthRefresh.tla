---------------------------- MODULE OAuthRefresh ----------------------------
(***************************************************************************)
(* OAuthRefreshAPI and its callers, for one account: the refresh cycle of  *)
(* TokenRefreshService and the requests of the token providers, in several *)
(* processes, beside an administrator.  The provider rotates: it accepts a *)
(* refresh token once.  Credentials are numbered in the order in which the *)
(* provider issued them.  A step is one statement, one Redis command or    *)
(* one call of the provider; a limit is counted in what is left of it.     *)
(***************************************************************************)
EXTENDS Naturals, Sequences, FiniteSets

CONSTANTS Processes,       \* processes of the server
          Refreshers,      \* the callers, each with a process and a kind
          None,            \* nobody
          LockTTL,         \* defaultRefreshLockTTL
          LockMargin,      \* maxTokenRefreshLockSafetyMargin
          AttemptTimeout,  \* attempt_timeout_seconds as configured
          RequestTimeout,  \* grokRequestRefreshTimeout
          MaxCredentials,  \* bound on the credentials the provider issues
          MaxEdits,        \* bound on the operations of the administrator
          FaultKinds,      \* faults that may happen, see AllFaults
          MaxFaults        \* bound on the number of faults in a behaviour

\* crash: a process dies; leave: the client of a request goes away; redis, db:
\* a command or a statement fails, perhaps after it was done; provider: so does
\* a call of the provider.
AllFaults == {"crash", "leave", "redis", "db", "provider"}

Kinds == {"background", "request"}

ASSUME RefreshAssumption ==
    /\ IsFiniteSet(Processes)
    /\ Refreshers \subseteq Processes \X Kinds
    /\ None \notin Refreshers
    /\ {LockTTL, LockMargin, AttemptTimeout, RequestTimeout} \subseteq Nat \ {0}
    /\ LockMargin < LockTTL /\ RequestTimeout <= LockTTL - LockMargin
    /\ MaxCredentials \in Nat \ {0}
    /\ {MaxEdits, MaxFaults} \subseteq Nat
    /\ FaultKinds \subseteq AllFaults

VARIABLES
    grok,      \* a Grok account: updates compare the credentials
    db,        \* the row of the account: credentials, edits of what else is
               \* in their document (model mappings), status
    tokens,    \* _token_version of the credentials issued so far
    due,       \* credentials that are to be refreshed
    usable,    \* refresh tokens the provider still accepts
    lock,      \* what is left of the TTL of the Redis lock, 0 without a lock
    local,     \* who has the mutex of each process
    cache,     \* the access token in Redis, and was it current when written
    ref,       \* the callers
    admin,     \* the administrator
    edits,     \* operations the administrator may still start
    faults,    \* faults still allowed
    lost,      \* history: credentials whose successor was lost
    missed,    \* history: the clean-up of the cache was cut short
    unlocked   \* history: a refresh ran without the Redis lock

vars == <<grok, db, tokens, due, usable, lock, local, cache, ref, admin, edits,
          faults, lost, missed, unlocked>>

Issued == DOMAIN tokens
Number == 0 .. MaxCredentials

\* The steps of RefreshIfNeeded under its locks, and of its callers.
Inside  == {"read", "call", "answered", "refused", "reload", "release"}
Steps   == Inside \cup {"idle", "lookup", "lock", "wait", "check", "set",
                        "quarantine", "sync"}
Results == {"none", "refreshed", "current", "refused", "failed"}

\* acct: the account the caller has; from, rev: the document the attempt read;
\* new: the successor; left: what is left of the time limit; locked: has the
\* Redis lock.
Refresher == [pc : Steps, acct : Number, from : Number, rev : 0 .. MaxEdits,
              new : Number,
              left : 0 .. LockTTL, locked : BOOLEAN, result : Results]

Idle == [pc |-> "idle", acct |-> 0, from |-> 0, rev |-> 0, new |-> 0,
         left |-> 0, locked |-> FALSE, result |-> "none"]

\* cred, rev and status are what UpdateAccount will save.
Admin == [pc : {"idle", "call", "read", "save", "clear", "drop"},
          op : {"none", "edit", "apply", "manual"}, cred : Number,
          rev : 0 .. MaxEdits, status : {"active", "error"}]

NoOperation == [pc |-> "idle", op |-> "none", cred |-> 0, rev |-> 0,
                status |-> "active"]

NoToken == [cred |-> 0, fresh |-> TRUE]

\* Type correctness; the mutex of a process is held by its caller inside
\* RefreshIfNeeded, and only such a caller has the Redis lock.
TypeOK ==
    /\ grok \in BOOLEAN
    /\ db \in [cred : Issued, rev : 0 .. MaxEdits, status : {"active", "error"}]
    /\ tokens \in Seq(Number) /\ Len(tokens) <= MaxCredentials
    /\ due \cup usable \cup lost \subseteq Issued
    /\ lock \in 0 .. LockTTL
    /\ local \in [Processes -> Refreshers \cup {None}]
    /\ cache \in [cred : Number, fresh : BOOLEAN]
    /\ ref \in [Refreshers -> Refresher]
    /\ admin \in Admin
    /\ edits \in 0 .. MaxEdits /\ faults \in 0 .. MaxFaults
    /\ {missed, unlocked} \subseteq BOOLEAN
    /\ \A r \in Refreshers :
          /\ (ref[r].pc \in Inside) = (local[r[1]] = r)
          /\ ref[r].locked => ref[r].pc \in Inside

\* An account whose credentials may be near their expiry, and whose refresh
\* token the provider may have revoked.
Init ==
    /\ grok \in BOOLEAN
    /\ db = [cred |-> 1, rev |-> 0, status |-> "active"]
    /\ tokens = <<0>>
    /\ due \in SUBSET {1} /\ usable \in SUBSET {1}
    /\ lock = 0
    /\ local = [p \in Processes |-> None]
    /\ cache = NoToken
    /\ ref = [r \in Refreshers |-> Idle]
    /\ admin = NoOperation
    /\ edits = MaxEdits /\ faults = MaxFaults
    /\ lost = {1} \ usable
    /\ missed = FALSE /\ unlocked = FALSE

-----------------------------------------------------------------------------
IsRequest(r) == r[2] = "request"
At(r, pc)    == ref[r].pc = pc

NoFault     == faults' = faults
Fault(kind) == kind \in FaultKinds /\ faults > 0 /\ faults' = faults - 1

provider == <<tokens, due, usable>>
redis    == <<lock, cache>>
history  == <<lost, missed, unlocked>>
others   == <<grok, admin, edits>>

Goto(r, pc) == ref' = [ref EXCEPT ![r].pc = pc]
Done(r)     == ref' = [ref EXCEPT ![r] = Idle]

\* RefreshIfNeeded has its result and, where it has one, an account; the cycle
\* only asks for the result.
Return(r, result, acct) ==
    ref' = [ref EXCEPT ![r].pc = "release", ![r].result = result,
                       ![r].acct = IF IsRequest(r) THEN acct ELSE 0,
                       ![r].from = IF result = "refused" THEN @ ELSE 0,
                       ![r].rev = IF result = "refused" THEN @ ELSE 0,
                       ![r].new = 0]

\* The provider issues new credentials; "from" is not accepted any more.
Next_number == Len(tokens) + 1

Issue(from, version) ==
    /\ Next_number <= MaxCredentials
    /\ tokens' = Append(tokens, version)
    /\ usable' = (usable \ {from}) \cup {Next_number}
    /\ due' = due

\* The cycle has the longer refresh window: a request that found its credentials
\* good for now may see them refreshed while it goes on.
NeedsRefresh(c) == c \in due

\* Clamped to the whole TTL.
AttemptLimit_noMargin ==
    IF AttemptTimeout > LockTTL THEN LockTTL ELSE AttemptTimeout

\* attemptTimeout, clampRefreshAttemptToLockLease: an attempt of the cycle ends
\* before its lock can lapse.
AttemptLimit ==
    IF AttemptTimeout > LockTTL - LockMargin THEN LockTTL - LockMargin
                                             ELSE AttemptTimeout

\* A request of another provider has no limit of its own.
Limited(r) == grok \/ ~IsRequest(r)
TimedOut(r) == Limited(r) /\ ref[r].left = 0

Begin(r, c) ==
    ref' = [ref EXCEPT ![r].pc = "lock", ![r].acct = c,
               ![r].left = IF IsRequest(r) THEN RequestTimeout
                                           ELSE AttemptLimit]

\* The cycle lists an account in need of a refresh; a request gets an account
\* from the scheduler.
Take(r) ==
    /\ At(r, "idle") /\ db.status = "active"
    /\ \/ ~IsRequest(r) /\ NeedsRefresh(db.cred) /\ Begin(r, db.cred)
       \/ IsRequest(r)
          /\ ref' = [ref EXCEPT ![r].pc = "lookup", ![r].acct = db.cred]
    /\ UNCHANGED <<db, provider, redis, local, others, faults, history>>

\* GetAccessToken: the cached token answers the request; a Grok request wants
\* it to be its account's and not near its expiry.
Hit(r) ==
    /\ cache.cred # 0
    /\ grok => cache.cred = ref[r].acct /\ ~NeedsRefresh(ref[r].acct)

Lookup(r) ==
    /\ At(r, "lookup")
    /\ LET c == ref[r].acct IN
       \/ Hit(r) /\ Done(r) /\ NoFault
       \/ /\ \/ ~Hit(r) /\ NoFault
             \/ Fault("redis")
          /\ \/ NeedsRefresh(c) /\ Begin(r, c)
             \/ ~NeedsRefresh(c) /\ Goto(r, "check")
    /\ UNCHANGED <<db, provider, redis, local, others, history>>

\* The mutex is not kept.
Enter_unlocking(r, locked) ==
    /\ UNCHANGED local
    /\ ref' = [ref EXCEPT ![r].pc = "read", ![r].locked = locked]

\* The mutex of the process, then SETNX.  Without an answer of Redis the
\* refresh goes on with the mutex alone.
Enter(r, locked) ==
    /\ local' = [local EXCEPT ![r[1]] = r]
    /\ ref' = [ref EXCEPT ![r].pc = "read", ![r].locked = locked]

Lock(r) ==
    /\ At(r, "lock")
    /\ \/ /\ local[r[1]] = None /\ ~TimedOut(r)
          /\ \/ /\ lock = 0 /\ lock' = LockTTL
                /\ Enter(r, TRUE) /\ NoFault /\ UNCHANGED unlocked
             \/ /\ lock > 0 /\ lock' = lock
                /\ IF IsRequest(r) THEN Goto(r, "wait") ELSE Done(r)
                /\ NoFault /\ UNCHANGED <<local, unlocked>>
             \/ /\ lock' \in {lock, IF lock = 0 THEN LockTTL ELSE lock}
                /\ Enter(r, FALSE) /\ Fault("redis") /\ unlocked' = TRUE
       \/ TimedOut(r) /\ Done(r) /\ NoFault
          /\ UNCHANGED <<local, lock, unlocked>>
    /\ UNCHANGED <<db, provider, cache, others, lost, missed>>

\* The account is read again.
Read(r) ==
    /\ At(r, "read")
    /\ \/ /\ db.status = "active" /\ NeedsRefresh(db.cred)
          /\ ref' = [ref EXCEPT ![r].pc = "call", ![r].from = db.cred,
                                 ![r].rev = db.rev]
          /\ NoFault
       \/ /\ db.status = "active" /\ ~NeedsRefresh(db.cred)
          /\ Return(r, "current", db.cred) /\ NoFault
       \/ /\ db.status # "active"
          /\ Return(r, IF IsRequest(r) THEN "failed" ELSE "current",
                    ref[r].acct)
          /\ NoFault
       \/ Return(r, "failed", ref[r].acct) /\ Fault("db")
    /\ UNCHANGED <<db, provider, redis, local, others, history>>

\* executor.Refresh: the provider answers, refuses the token, fails or is too
\* slow; the last two perhaps after it has rotated the token.
Call(r) ==
    /\ At(r, "call")
    /\ LET from == ref[r].from
           Rotated == from \in usable /\ Issue(from, Next_number)
       IN
       \/ /\ ~TimedOut(r) /\ Rotated /\ NoFault /\ UNCHANGED lost
          /\ ref' = [ref EXCEPT ![r].pc = "answered", ![r].new = Next_number]
       \/ /\ ~TimedOut(r) /\ from \notin usable /\ Goto(r, "refused")
          /\ NoFault /\ UNCHANGED <<provider, lost>>
       \/ /\ \/ TimedOut(r) /\ NoFault /\ Return(r, "none", ref[r].acct)
             \/ Fault("leave") /\ IsRequest(r)
                /\ Return(r, "none", ref[r].acct)
             \/ Fault("provider") /\ Return(r, "failed", ref[r].acct)
          /\ \/ Rotated /\ lost' = lost \cup {from}
             \/ UNCHANGED <<provider, lost>>
    /\ UNCHANGED <<db, redis, local, others, missed, unlocked>>

-----------------------------------------------------------------------------
\* Compared with the account the caller came with.
Unchanged_sinceTaken(r) == db.cred = ref[r].acct

\* UpdateGrokOAuthCredentialsIfUnchanged compares the whole document.
Unchanged(r) == db.cred = ref[r].from /\ db.rev = ref[r].rev

Store(r) ==
    /\ \/ grok /\ Unchanged(r)
          /\ ref' = [ref EXCEPT ![r].pc = "reload", ![r].result = "refreshed"]
       \/ ~grok /\ Return(r, "refreshed", ref[r].new)
    /\ db' = [db EXCEPT !.cred = ref[r].new, !.rev = ref[r].rev]

\* Never persist credentials after the attempt's end; else store them.
Persist(r) ==
    /\ At(r, "answered")
    /\ \/ /\ \/ TimedOut(r) /\ NoFault
             \/ IsRequest(r) /\ Fault("leave")
          /\ Return(r, "none", ref[r].acct)
          /\ lost' = lost \cup {ref[r].from}
          /\ UNCHANGED <<db, missed>>
       \/ /\ ~TimedOut(r) /\ Store(r) /\ NoFault /\ UNCHANGED <<lost, missed>>
       \/ /\ ~TimedOut(r) /\ grok /\ ~Unchanged(r) /\ NoFault
          /\ ref' = [ref EXCEPT ![r].pc = "reload", ![r].result = "current"]
          /\ lost' = IF db.cred = ref[r].from /\ db.rev # ref[r].rev
                     THEN lost \cup {db.cred} ELSE lost
          /\ UNCHANGED <<db, missed>>
       \/ /\ ~TimedOut(r) /\ Fault("db") /\ Return(r, "failed", ref[r].acct)
          /\ \/ /\ grok => Unchanged(r)
                /\ db' = [db EXCEPT !.cred = ref[r].new, !.rev = ref[r].rev]
                /\ missed' = TRUE /\ UNCHANGED lost
             \/ /\ lost' = lost \cup {ref[r].from}
                /\ UNCHANGED <<db, missed>>
    /\ UNCHANGED <<provider, redis, local, others, unlocked>>

\* grokOAuthRequestAccountEligibilityError: a Grok request ends if the account
\* may not be scheduled any more.
Gone(r) == grok /\ IsRequest(r) /\ db.status = "error"

\* loadGrokDurableAccountAfterPersist after a success, a plain read after a
\* miss.
Reload(r) ==
    /\ At(r, "reload")
    /\ LET stored == ref[r].result = "refreshed"
           Result == Return(r, IF Gone(r) THEN "none" ELSE ref[r].result,
                            db.cred)
           Delete == cache' = IF stored THEN NoToken ELSE cache
       IN
       \/ Delete /\ Result /\ NoFault /\ UNCHANGED missed
       \/ Delete /\ Return(r, "none", ref[r].acct) /\ Fault("db")
          /\ UNCHANGED missed
       \/ stored /\ cache' = cache /\ missed' = TRUE /\ Result /\ Fault("redis")
    /\ UNCHANGED <<db, provider, lock, local, others, lost, unlocked>>

\* tryRecoverFromRefreshRace: other credentials in the row mean that somebody
\* else has refreshed.
Recover(r) ==
    /\ At(r, "refused")
    /\ \/ /\ db.cred # ref[r].from
          /\ Return(r, IF Gone(r) THEN "none" ELSE "current", db.cred)
          /\ NoFault
       \/ /\ db.cred = ref[r].from
          /\ Return(r, "refused", ref[r].acct) /\ NoFault
       \/ Return(r, "refused", ref[r].acct) /\ Fault("db")
    /\ UNCHANGED <<db, provider, redis, local, others, history>>

\* What the caller does with the result.
After(r) ==
    CASE ref[r].result = "none" -> "idle"
      [] ref[r].result = "refused" /\ (grok \/ ~IsRequest(r)) -> "quarantine"
      [] ref[r].result = "refreshed" /\ ~IsRequest(r) -> "sync"
      [] /\ IsRequest(r)
         /\ \/ ref[r].result \in {"refreshed", "current"}
            \/ ref[r].result \in {"refused", "failed"} /\ ~grok -> "check"
      [] OTHER -> "idle"

\* The deferred release deletes the Redis lock if this caller acquired it,
\* whoever has it now, and the mutex is given back.
DeleteLock(r) == lock' = IF ref[r].locked THEN 0 ELSE lock

Release(r) ==
    /\ At(r, "release")
    /\ local' = [local EXCEPT ![r[1]] = None]
    /\ IF After(r) = "idle" THEN Done(r)
       ELSE ref' = [ref EXCEPT ![r].pc = After(r), ![r].locked = FALSE,
                               ![r].left = 0]
    /\ \/ DeleteLock(r) /\ NoFault
       \/ ref[r].locked /\ lock' = lock /\ Fault("redis")
    /\ UNCHANGED <<db, provider, cache, others, history>>

\* The lock is held.  A request sleeps and looks at the cache, and goes on with
\* the token it has; a Grok request polls the row for other credentials and
\* repairs an outdated cache.
Wait(r) ==
    /\ At(r, "wait")
    /\ \/ /\ ~grok
          /\ IF cache.cred # 0 THEN Done(r) ELSE Goto(r, "check")
       \/ /\ grok
          /\ IF /\ db.status = "active" /\ db.cred # ref[r].acct
                /\ cache.cred \notin {0, db.cred}
             THEN ref' = [ref EXCEPT ![r].pc = "set", ![r].acct = db.cred]
             ELSE Done(r)
    /\ UNCHANGED <<db, provider, redis, local, others, faults, history>>

\* CheckTokenVersion: the token of an older version is not cached.  Without an
\* answer of the database it is.
Stale(r) == tokens[ref[r].acct] < tokens[db.cred]

Check(r) ==
    /\ At(r, "check")
    /\ \/ Stale(r) /\ Done(r) /\ NoFault
       \/ ~Stale(r) /\ Goto(r, "set") /\ NoFault
       \/ Goto(r, "set") /\ Fault("db")
    /\ UNCHANGED <<db, provider, redis, local, others, history>>

\* The caller still has to remove or replace the token it made outdated.
Cleaning(r) ==
    \/ At(r, "reload") /\ ref[r].result = "refreshed"
    \/ ~grok /\ ref[r].result = "refreshed" /\ ~At(r, "idle")

\* SetAccessToken.
Set(r) ==
    /\ At(r, "set")
    /\ \/ /\ cache' = [cred |-> ref[r].acct, fresh |-> ref[r].acct = db.cred]
          /\ NoFault /\ UNCHANGED missed
       \/ /\ Fault("redis") \/ Fault("leave")
          /\ cache' = cache /\ missed' = (missed \/ Cleaning(r))
    /\ Done(r)
    /\ UNCHANGED <<db, provider, lock, local, others, lost, unlocked>>

\* The credentials are not compared.
Match_active(r) == db.status = "active"

\* SetGrokOAuthRefreshErrorIfCredentialsUnchanged,
\* SetGrokCredentialErrorIfMatch.
Match(r) == db.status = "active" /\ Unchanged(r)

\* The provider refused the credentials: the account is put into error, on
\* another platform whatever its credentials are now.
Quarantine(r) ==
    /\ At(r, "quarantine")
    /\ LET Error == db' = [db EXCEPT !.status = "error"] IN
       \/ (grok => Match(r)) /\ Error /\ Goto(r, "sync") /\ NoFault
       \/ grok /\ ~Match(r) /\ UNCHANGED db /\ Done(r) /\ NoFault
       \/ /\ Fault("db")
          /\ \/ (grok => Match(r)) /\ Error
             \/ UNCHANGED db
          /\ IF grok THEN Done(r) ELSE Goto(r, "sync")
    /\ UNCHANGED <<provider, redis, local, others, history>>

\* Only a quarantine removes the cached token.
Sync_quarantined(r) ==
    /\ At(r, "sync") /\ Done(r)
    /\ cache' = (IF ref[r].result = "refused" THEN NoToken ELSE cache)
    /\ NoFault
    /\ UNCHANGED <<db, provider, lock, local, others, history>>

\* InvalidateToken, after a refresh of the cycle or a quarantine.
Sync(r) ==
    /\ At(r, "sync") /\ Done(r)
    /\ \/ cache' = NoToken /\ NoFault /\ UNCHANGED missed
       \/ cache' = cache /\ Fault("redis") /\ missed' = TRUE
    /\ UNCHANGED <<db, provider, lock, local, others, lost, unlocked>>

Crash(p) ==
    LET here == {r \in Refreshers : r[1] = p} IN
    /\ \E r \in here : ~At(r, "idle")
    /\ Fault("crash")
    /\ ref' = [r \in Refreshers |-> IF r \in here THEN Idle ELSE ref[r]]
    /\ local' = [local EXCEPT ![p] = None]
    /\ lost' = lost \cup {ref[r].from : r \in {h \in here : At(h, "answered")}}
    /\ missed' = (missed \/ \E r \in here : Cleaning(r))
    /\ UNCHANGED <<db, provider, redis, others, unlocked>>

-----------------------------------------------------------------------------
\* The administrator's operations.  Their statements do not fail here.
adminIdle == UNCHANGED <<grok, lock, local, ref, faults>>

\* UpdateAccount reads the row it will save, to edit something else; or it is
\* about to: refreshSingleAccount and ApplyOAuthCredentials read it before.
Open(op) ==
    /\ admin.pc = "idle" /\ edits > 0 /\ edits' = edits - 1
    /\ \/ /\ op = "edit" /\ UNCHANGED provider
          /\ \E rev \in {db.rev, db.rev + 1} :
                admin' = [pc |-> "save", op |-> op, cred |-> db.cred,
                          rev |-> rev, status |-> db.status]
       \/ /\ op = "apply" /\ Issue(0, tokens[db.cred])
          /\ admin' = [NoOperation EXCEPT !.pc = "read", !.op = op,
                                          !.cred = Next_number]
       \/ /\ op = "manual" /\ UNCHANGED provider
          /\ admin' = [NoOperation EXCEPT !.pc = "call", !.op = op,
                                          !.cred = db.cred]
    /\ UNCHANGED <<db, cache, history>> /\ adminIdle

\* refreshSingleAccount calls the provider without any lock.
Manual ==
    /\ admin.pc = "call"
    /\ \/ /\ admin.cred \in usable
          /\ Issue(admin.cred, tokens[admin.cred])
          /\ admin' = [admin EXCEPT !.pc = "read", !.cred = Next_number]
          /\ unlocked' = TRUE
       \/ /\ admin.cred \notin usable
          /\ admin' = NoOperation /\ UNCHANGED <<provider, unlocked>>
    /\ UNCHANGED <<db, cache, edits, lost, missed>> /\ adminIdle

\* UpdateAccount reads the row and saves all of it.
ReadRow ==
    /\ admin.pc = "read"
    /\ admin' = [admin EXCEPT !.pc = "save", !.rev = db.rev,
                              !.status = db.status]
    /\ UNCHANGED <<db, provider, cache, edits, history>> /\ adminIdle

Overwrites == admin.op = "edit" /\ admin.cred # db.cred

Save ==
    /\ admin.pc = "save"
    /\ db' = [cred |-> admin.cred, rev |-> admin.rev, status |-> admin.status]
    /\ admin' = CASE admin.op = "edit"   -> NoOperation
                  [] admin.op = "apply"  -> [admin EXCEPT !.pc = "clear"]
                  [] admin.op = "manual" -> [admin EXCEPT !.pc = "drop"]
    /\ lost' = IF Overwrites THEN lost \cup {admin.cred} ELSE lost
    /\ missed' = (missed \/ Overwrites)
    /\ UNCHANGED <<provider, cache, edits, unlocked>> /\ adminIdle

\* ClearAccountError, after re-authorisation.
ClearError ==
    /\ admin.pc = "clear"
    /\ db' = [db EXCEPT !.status = "active"]
    /\ admin' = [admin EXCEPT !.pc = "drop"]
    /\ UNCHANGED <<provider, cache, edits, history>> /\ adminIdle

\* InvalidateToken.
Drop ==
    /\ admin.pc = "drop"
    /\ cache' = NoToken /\ admin' = NoOperation
    /\ UNCHANGED <<db, provider, edits, history>> /\ adminIdle

-----------------------------------------------------------------------------
\* The credentials in the row come near their expiry.
Age ==
    /\ db.cred \notin due /\ due' = due \cup {db.cred}
    /\ UNCHANGED <<db, tokens, usable, redis, local, ref, others, faults,
                   history>>

\* The TTL of the cached token.
CacheExpires ==
    /\ cache.cred # 0 /\ cache' = NoToken
    /\ UNCHANGED <<db, provider, lock, local, ref, others, faults, history>>

Counting(r) == Limited(r) /\ ref[r].pc \in Inside \cup {"lock"}

\* Time passes.  The end of a limit ends what is under way at once: the margin
\* of the lock covers the clean-up after it.
Tick ==
    /\ lock > 0 \/ \E r \in Refreshers : Counting(r)
    /\ \A r \in Refreshers : Counting(r) => ref[r].left > 0
    /\ lock' = IF lock > 0 THEN lock - 1 ELSE 0
    /\ ref' = [r \in Refreshers |->
                 IF Counting(r) THEN [ref[r] EXCEPT !.left = @ - 1] ELSE ref[r]]
    /\ UNCHANGED <<db, provider, cache, local, others, faults, history>>

Next ==
    \/ \E r \in Refreshers :
          \/ Take(r) \/ Lookup(r) \/ Lock(r) \/ Read(r) \/ Call(r)
          \/ Persist(r) \/ Reload(r) \/ Recover(r) \/ Release(r)
          \/ Wait(r) \/ Check(r) \/ Set(r) \/ Quarantine(r) \/ Sync(r)
    \/ \E p \in Processes : Crash(p)
    \/ \E op \in {"edit", "apply", "manual"} : Open(op)
    \/ Manual \/ ReadRow \/ Save \/ ClearError \/ Drop
    \/ Age \/ CacheExpires \/ Tick

Spec == Init /\ [][Next]_vars

-----------------------------------------------------------------------------
\* AcquireRefreshLock, clampRefreshAttemptToLockLease: of the callers with the
\* Redis lock of a Grok account, in all processes, one at a time is inside
\* RefreshIfNeeded: none outlives its lock, and none deletes another's.
RefreshesAreExclusive ==
    grok => \A r, s \in Refreshers : ref[r].locked /\ ref[s].locked => r = s

\* RefreshIfNeeded: when the provider does not accept the stored refresh token
\* any more, somebody is about to store its successor, or the successor was
\* lost in one of the ways listed.
SuccessorIsStored ==
    \/ db.cred \in usable \cup lost
    \/ \E r \in Refreshers : At(r, "answered") /\ ref[r].from = db.cred
    \/ admin.op = "manual" /\ admin.pc \in {"read", "save"}

\* refreshWithRetry, applyGrokCredentialAccountFailure: a Grok account is in
\* error only if its refresh token is dead, also when an administrator stores
\* new credentials while a refresh of the old ones fails.  Of an account that lost
\* its entitlement or has an invalid proxy, which is put into error as well,
\* nothing is said.
QuarantineIsDeserved ==
    grok /\ db.status = "error" /\ db.cred \in usable =>
        unlocked \/ admin.pc = "clear"

\* postRefreshStateSync, loadGrokDurableAccountAfterPersist: a token that was
\* current when it was cached does not stay there after a refresh: its caller
\* removes or replaces it.
RefreshCleansTheCache ==
    cache.cred \notin {0, db.cred} /\ cache.fresh =>
        \/ \E r \in Refreshers : Cleaning(r)
        \/ admin.pc \in {"clear", "drop"}
        \/ missed

=============================================================================
