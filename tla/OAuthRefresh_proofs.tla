-------------------------- MODULE OAuthRefresh_proofs --------------------------
(***************************************************************************)
(* Proofs about OAuthRefresh for any processes, callers, limits, numbers   *)
(* of credentials, operations of the administrator and faults.             *)
(***************************************************************************)
EXTENDS OAuthRefresh, TLAPS

-----------------------------------------------------------------------------
(***************************************************************************)
(* The inductive invariant.                                                *)
(***************************************************************************)

\* Where a caller has not got its result yet.
Early == {"idle", "lookup", "lock", "wait", "read", "call", "answered", "refused"}

\* What a caller has is issued, and its result fits its step.
CallerInv(r) ==
    /\ {ref[r].acct, ref[r].from, ref[r].new} \subseteq Issued \cup {0}
    /\ ref[r].rev + edits <= MaxEdits
    /\ ref[r].pc \in Early => ref[r].result = "none"
    /\ ref[r].pc = "quarantine" => ref[r].result = "refused"
    /\ ref[r].pc = "reload" => ref[r].result \in {"refreshed", "current"}
    /\ ref[r].pc \in {"call", "answered", "refused"} => ref[r].from # 0
    /\ ref[r].pc = "answered" => ref[r].new # 0
    /\ ref[r].pc \in {"lookup", "wait", "check", "set"} => IsRequest(r)

\* The steps of each operation of the administrator.
AdminInv ==
    /\ admin.pc # "idle" => admin.op # "none" /\ admin.cred \in Issued
    /\ admin.pc = "idle" => admin.op = "none" /\ admin.cred = 0
    /\ admin.op = "edit" => admin.pc = "save"
    /\ admin.op = "apply" => admin.pc # "call"
    /\ admin.op = "manual" => admin.pc # "clear"
    /\ admin.rev + edits <= MaxEdits /\ db.rev + edits <= MaxEdits

\* A limit ends before the lock can lapse, and one caller has the lock.
LeaseInv ==
    /\ \A r \in Refreshers : Counting(r) => ref[r].left + LockMargin <= LockTTL
    /\ grok => \A r \in Refreshers : ref[r].locked => ref[r].left < lock
    /\ RefreshesAreExclusive

\* The administrator has new credentials and did not save them yet.
Unsaved == admin.op \in {"apply", "manual"} /\ admin.pc \in {"read", "save"}

\* Credentials that somebody may refresh.
Known(c) ==
    \/ c = db.cred
    \/ \E s \in Refreshers : ref[s].from = c
    \/ c = admin.cred /\ ~Unsaved

\* New credentials are known to nobody else before they are stored.
SecretInv ==
    /\ \A r \in Refreshers : At(r, "answered") =>
          /\ ref[r].new \in usable /\ ~Known(ref[r].new)
          /\ admin.cred # ref[r].new
          /\ \A s \in Refreshers :
                At(s, "answered") /\ ref[s].new = ref[r].new => r = s
    /\ Unsaved => admin.cred \in usable /\ ~Known(admin.cred)

\* Every refresh of a Grok account so far had the Redis lock.
Strict == grok /\ ~unlocked

\* Credentials that have no successor that may still be stored.
Dead(c) ==
    /\ c \notin usable
    /\ \A s \in Refreshers : At(s, "answered") => ref[s].from # c

\* The caller's credentials were refused.
Refused(r) ==
    \/ At(r, "refused")
    \/ ref[r].pc \in {"release", "quarantine"} /\ ref[r].result = "refused"

\* An account is in error, or about to be, only with dead credentials.
ErrorInv ==
    Strict =>
        /\ \A r \in Refreshers : ref[r].pc \in Inside => ref[r].locked
        /\ \A r \in Refreshers : Refused(r) => Dead(ref[r].from)
        /\ db.status = "error" => admin.pc = "clear" \/ Dead(db.cred)
        /\ admin.op = "edit" /\ admin.status = "error" => Dead(admin.cred)
        /\ admin.op = "manual" => admin.pc = "call"

\* Whoever stored the credentials that are in the row cleans the cache.
CacheInv ==
    cache.cred \notin {0, db.cred} /\ cache.fresh =>
        \/ \E r \in Refreshers :
              Cleaning(r) /\ (grok \/ ~IsRequest(r) \/ ref[r].acct = db.cred)
        \/ admin.pc \in {"clear", "drop"}
        \/ missed

\* Types, and what a caller and the administrator have.
BaseInv == TypeOK /\ AdminInv /\ \A r \in Refreshers : CallerInv(r)

Inv ==
    /\ BaseInv /\ LeaseInv
    /\ SecretInv /\ SuccessorIsStored
    /\ ErrorInv /\ CacheInv

-----------------------------------------------------------------------------
(***************************************************************************)
(* Lemmas about the operators of the model.                                *)
(***************************************************************************)

OthersStay(r) == \A s \in Refreshers \ {r} : ref'[s] = ref[s]

\* The fields of a caller.
LEMMA Fields ==
    ASSUME TypeOK, NEW r \in Refreshers
    PROVE  /\ ref \in [Refreshers -> Refresher] /\ ref[r] \in Refresher
           /\ ref[r].pc \in Steps /\ ref[r].acct \in Number
           /\ ref[r].from \in Number /\ ref[r].rev \in 0 .. MaxEdits
           /\ ref[r].new \in Number /\ ref[r].left \in 0 .. LockTTL
           /\ ref[r].locked \in BOOLEAN /\ ref[r].result \in Results
           /\ r[1] \in Processes
<1>1. ref \in [Refreshers -> Refresher] /\ ref[r] \in Refresher
  BY DEF TypeOK
<1>2. r \in Processes \X Kinds
  BY RefreshAssumption
<1> QED
  BY <1>1, <1>2 DEF Refresher

\* The numbers of credentials.
LEMMA Numbers ==
    ASSUME TypeOK
    PROVE  /\ Issued \subseteq Number \ {0} /\ Number \subseteq Nat
           /\ 0 \in Number /\ Len(tokens) \in Nat
           /\ Issued = 1 .. Len(tokens)
           /\ \A c \in Issued : tokens[c] \in Number
<1>1. tokens \in Seq(Number) /\ Len(tokens) <= MaxCredentials
      /\ MaxCredentials \in Nat
  BY RefreshAssumption DEF TypeOK
<1>2. Issued = 1 .. Len(tokens) /\ Len(tokens) \in Nat
  BY <1>1 DEF Issued
<1>3. \A c \in Issued : tokens[c] \in Number
  BY <1>1, <1>2
<1> QED
  BY <1>1, <1>2, <1>3 DEF Number

\* The provider issues the next number, which nobody has.
LEMMA Issues ==
    ASSUME TypeOK, NEW from, NEW v \in Number, Issue(from, v)
    PROVE  /\ tokens' \in Seq(Number) /\ Len(tokens') <= MaxCredentials
           /\ Issued' = Issued \cup {Next_number}
           /\ Next_number \notin Issued /\ Next_number \in Number \ {0}
           /\ usable' = (usable \ {from}) \cup {Next_number}
           /\ due' = due
<1>1. tokens \in Seq(Number) /\ Len(tokens) \in Nat /\ Issued = 1 .. Len(tokens)
  BY Numbers DEF TypeOK
<1>2. /\ Next_number = Len(tokens) + 1 /\ Next_number <= MaxCredentials
      /\ tokens' = Append(tokens, v)
      /\ usable' = (usable \ {from}) \cup {Next_number} /\ due' = due
  BY DEF Issue, Next_number
<1>3. tokens' \in Seq(Number) /\ Len(tokens') = Len(tokens) + 1
  BY <1>1, <1>2
<1>4. Issued' = 1 .. Len(tokens) + 1
  BY <1>3 DEF Issued
<1> QED
  BY <1>1, <1>2, <1>3, <1>4, RefreshAssumption DEF Number

\* A caller with a field changed is a caller.
LEMMA Changed ==
    ASSUME TypeOK, NEW r \in Refreshers, NEW pc \in Steps
    PROVE  /\ Goto(r, pc) =>
                 /\ ref' \in [Refreshers -> Refresher] /\ OthersStay(r)
                 /\ ref'[r].pc = pc
                 /\ ref'[r].acct = ref[r].acct /\ ref'[r].from = ref[r].from
                 /\ ref'[r].rev = ref[r].rev /\ ref'[r].new = ref[r].new
                 /\ ref'[r].left = ref[r].left
                 /\ ref'[r].locked = ref[r].locked
                 /\ ref'[r].result = ref[r].result
           /\ Done(r) =>
                 /\ ref' \in [Refreshers -> Refresher] /\ OthersStay(r)
                 /\ ref'[r] = Idle
<1>1. ref \in [Refreshers -> Refresher] /\ ref[r] \in Refresher
  BY Fields
<1>2. Idle \in Refresher
  BY RefreshAssumption DEF Idle, Refresher, Steps, Results, Number
<1> QED
  BY <1>1, <1>2 DEF Goto, Done, OthersStay, Refresher

\* RefreshIfNeeded returns.
LEMMA Returns ==
    ASSUME TypeOK, NEW r \in Refreshers, NEW result \in Results,
           NEW acct \in Number, Return(r, result, acct)
    PROVE  /\ ref' \in [Refreshers -> Refresher] /\ OthersStay(r)
           /\ ref'[r].pc = "release" /\ ref'[r].result = result
           /\ ref'[r].acct = IF IsRequest(r) THEN acct ELSE 0
           /\ ref'[r].from = IF result = "refused" THEN ref[r].from ELSE 0
           /\ ref'[r].rev = IF result = "refused" THEN ref[r].rev ELSE 0
           /\ ref'[r].new = 0 /\ ref'[r].left = ref[r].left
           /\ ref'[r].locked = ref[r].locked
<1> DEFINE a == IF IsRequest(r) THEN acct ELSE 0
           f == IF result = "refused" THEN ref[r].from ELSE 0
           v == IF result = "refused" THEN ref[r].rev ELSE 0
           p == [ref[r] EXCEPT !.pc = "release", !.result = result, !.acct = a,
                               !.from = f, !.rev = v, !.new = 0]
<1>1. ref \in [Refreshers -> Refresher] /\ ref[r] \in Refresher
  BY Fields
<1>2. a \in Number /\ f \in Number /\ v \in 0 .. MaxEdits /\ 0 \in Number
      /\ "release" \in Steps
  BY Fields, Numbers, RefreshAssumption DEF Steps, Inside
<1>3. ref' = [ref EXCEPT ![r] = p]
  BY <1>1 DEF Return
<1> HIDE DEF a, f, v
<1>4. p \in Refresher
  BY <1>1, <1>2 DEF Refresher
<1>5. /\ p.pc = "release" /\ p.result = result /\ p.acct = a /\ p.from = f
      /\ p.rev = v /\ p.new = 0 /\ p.left = ref[r].left
      /\ p.locked = ref[r].locked
  BY <1>1 DEF Refresher
<1> HIDE DEF p
<1>6. ref' \in [Refreshers -> Refresher] /\ OthersStay(r) /\ ref'[r] = p
  BY <1>1, <1>3, <1>4 DEF OthersStay
<1> QED
  BY <1>5, <1>6 DEF a, f, v

-----------------------------------------------------------------------------
(***************************************************************************)
(* What is left to show about a step of one caller.                        *)
(***************************************************************************)

\* The mutex of the process, as a step of its caller leaves it.
MutexStep(r) ==
    \/ local' = local /\ (ref'[r].pc \in Inside) = (ref[r].pc \in Inside)
    \/ /\ local[r[1]] = None /\ local' = [local EXCEPT ![r[1]] = r]
       /\ ref'[r].pc \in Inside
    \/ /\ ref[r].pc \in Inside /\ local' = [local EXCEPT ![r[1]] = None]
       /\ ref'[r].pc \notin Inside

\* A step of one caller keeps the types of all, and the mutexes.
LEMMA CallerBase ==
    ASSUME BaseInv, NEW r \in Refreshers,
           ref' \in [Refreshers -> Refresher], OthersStay(r), MutexStep(r),
           UNCHANGED <<grok, admin, edits>>,
           db' \in [cred : Issued', rev : 0 .. MaxEdits,
                    status : {"active", "error"}],
           db'.rev + edits <= MaxEdits,
           tokens' \in Seq(Number), Len(tokens') <= MaxCredentials,
           Issued \subseteq Issued', due' \cup usable' \cup lost' \subseteq Issued',
           lock' \in 0 .. LockTTL, cache' \in [cred : Number, fresh : BOOLEAN],
           faults' \in 0 .. MaxFaults, {missed', unlocked'} \subseteq BOOLEAN,
           ref'[r].locked => ref'[r].pc \in Inside,
           CallerInv(r)'
    PROVE  BaseInv'
<1> USE DEF BaseInv
<1>1. local' \in [Processes -> Refreshers \cup {None}]
  BY Fields DEF MutexStep, TypeOK
<1>2. ASSUME NEW s \in Refreshers
      PROVE  /\ (ref'[s].pc \in Inside) = (local'[s[1]] = s)
             /\ ref'[s].locked => ref'[s].pc \in Inside
  <2>1. /\ local \in [Processes -> Refreshers \cup {None}]
        /\ r[1] \in Processes /\ s[1] \in Processes /\ None \notin Refreshers
        /\ (ref[s].pc \in Inside) = (local[s[1]] = s)
        /\ (ref[r].pc \in Inside) = (local[r[1]] = r)
        /\ ref[s].locked => ref[s].pc \in Inside
    BY Fields, RefreshAssumption DEF TypeOK
  <2>2. CASE s = r
    BY <2>1, <2>2 DEF MutexStep
  <2>3. CASE s # r
    <3>1. ref'[s] = ref[s]
      BY <2>3 DEF OthersStay
    <3>2. (local'[s[1]] = s) = (local[s[1]] = s)
      BY <2>1, <2>3 DEF MutexStep
    <3> QED
      BY <2>1, <3>1, <3>2
  <2> QED
    BY <2>2, <2>3
<1>3. TypeOK'
  <2>1. admin' \in Admin /\ edits' \in 0 .. MaxEdits /\ grok' \in BOOLEAN
    BY DEF TypeOK
  <2> QED
    BY <1>1, <1>2, <2>1 DEF TypeOK
<1>4. AdminInv'
  BY DEF AdminInv
<1>5. ASSUME NEW s \in Refreshers
      PROVE  CallerInv(s)'
  <2>1. CASE s = r
    BY <2>1
  <2>2. CASE s # r
    BY <2>2 DEF OthersStay, CallerInv, IsRequest
  <2> QED
    BY <2>1, <2>2
<1> QED
  BY <1>3, <1>4, <1>5

\* What a caller leaves alone that does not call, store, quarantine or lock, and
\* that does not clean the cache either.
Fixed == <<grok, db, tokens, due, usable, lock, local, admin, edits, lost,
           unlocked>>
World == <<grok, db, tokens, due, usable, lock, local, cache, admin, edits,
           lost, missed, unlocked>>

\* A step of one caller that reads, waits, cleans or gives up, and keeps its
\* locks.
Settles(r) ==
    /\ UNCHANGED Fixed
    /\ OthersStay(r)
    /\ (ref'[r].pc \in Inside) = (ref[r].pc \in Inside)
    /\ ref'[r].locked = ref[r].locked
    /\ ref[r].pc \in Inside => ref'[r].left = ref[r].left
    /\ Counting(r)' => \/ Counting(r) /\ ref'[r].left = ref[r].left
                       \/ ref'[r].left + LockMargin <= LockTTL
    /\ ~At(r, "answered") /\ ~At(r, "answered")'
    /\ ref'[r].from \in {0, ref[r].from, db.cred}
    /\ Refused(r)' =>
          \/ Refused(r) /\ ref'[r].from = ref[r].from
          \/ Strict => Dead(ref'[r].from)

\* A step that leaves the cache alone, and what it cleans.
Pauses(r) ==
    /\ Settles(r) /\ UNCHANGED World
    /\ Cleaning(r) /\ (grok \/ ~IsRequest(r) \/ ref[r].acct = db.cred) =>
          Cleaning(r)' /\ ref'[r].acct = ref[r].acct

\* Such a step keeps everything but what is said of the cache.
LEMMA InvSettles ==
    ASSUME Inv, NEW r \in Refreshers, Settles(r), BaseInv', CacheInv'
    PROVE  Inv'
<1> USE DEF Inv, Fixed
<1>1. /\ UNCHANGED Fixed /\ OthersStay(r)
      /\ \A s \in Refreshers \ {r} : ref'[s] = ref[s]
  BY DEF Settles, OthersStay
<1>2. LeaseInv'
  <2>1. ASSUME NEW s \in Refreshers, Counting(s)'
        PROVE  ref'[s].left + LockMargin <= LockTTL
    BY <1>1, <2>1 DEF Settles, LeaseInv, Counting, Limited, IsRequest
  <2>2. ASSUME grok, NEW s \in Refreshers, ref'[s].locked
        PROVE  ref[s].locked /\ ref'[s].left < lock'
    <3>1. ref[s].locked /\ ref[s].pc \in Inside
      BY <1>1, <2>2 DEF Settles, BaseInv, TypeOK
    <3> QED
      BY <1>1, <2>2, <3>1 DEF Settles, LeaseInv
  <2> QED
    BY <1>1, <2>1, <2>2 DEF LeaseInv, RefreshesAreExclusive
<1>3. \A s \in Refreshers : At(s, "answered")' = At(s, "answered")
  BY <1>1 DEF Settles, At
<1>4. \A s \in Refreshers : At(s, "answered") => ref'[s] = ref[s]
  BY <1>1 DEF Settles
<1>5. \A c : c # 0 /\ Known(c)' => Known(c)
  BY <1>1 DEF Known, Unsaved, Settles
<1>6. SecretInv'
  <2>1. 0 \notin usable
    BY Numbers DEF BaseInv, TypeOK
  <2> QED
    BY <1>1, <1>3, <1>4, <1>5, <2>1 DEF SecretInv, Unsaved
<1>7. SuccessorIsStored'
  BY <1>1, <1>3, <1>4 DEF SuccessorIsStored
<1>8. \A c : Dead(c)' = Dead(c)
  BY <1>1, <1>3, <1>4 DEF Dead
<1>9. ErrorInv'
  <2>1. ASSUME NEW s \in Refreshers, Refused(s)', Strict
        PROVE  Dead(ref'[s].from)
    BY <1>1, <2>1 DEF Settles, Refused, At, ErrorInv
  <2>2. ASSUME NEW s \in Refreshers, ref'[s].pc \in Inside, Strict
        PROVE  ref'[s].locked
    BY <1>1, <2>2 DEF Settles, ErrorInv
  <2>3. Strict' = Strict
    BY <1>1 DEF Strict
  <2>4. \A s \in Refreshers : Refused(s)' => (Dead(ref[s].from))' = Dead(ref'[s].from)
    BY <1>1, <1>3, <1>4 DEF Dead
  <2> QED
    BY <1>1, <1>8, <2>1, <2>2, <2>3, <2>4 DEF ErrorInv
<1> QED
  BY <1>2, <1>6, <1>7, <1>9

\* A step that leaves the cache alone keeps everything.
LEMMA InvPauses ==
    ASSUME Inv, NEW r \in Refreshers, Pauses(r), BaseInv'
    PROVE  Inv'
<1>1. UNCHANGED World /\ Settles(r) /\ \A s \in Refreshers \ {r} : ref'[s] = ref[s]
  BY DEF Pauses, Settles, OthersStay
<1>2. CacheInv'
  <2>1. ASSUME NEW s \in Refreshers, Cleaning(s),
               grok \/ ~IsRequest(s) \/ ref[s].acct = db.cred
        PROVE  Cleaning(s)' /\ ref'[s].acct = ref[s].acct
    BY <1>1, <2>1 DEF World, Pauses, Cleaning, At
  <2> QED
    BY <1>1, <2>1 DEF Inv, World, CacheInv, IsRequest
<1> QED
  BY <1>1, <1>2, InvSettles

-----------------------------------------------------------------------------
(***************************************************************************)
(* Steps of the callers.                                                   *)
(***************************************************************************)

\* What a caller and the row have is typed.
LEMMA Having ==
    ASSUME BaseInv, NEW r \in Refreshers
    PROVE  /\ db.cred \in Issued /\ db.cred \in Number /\ db.cred # 0
           /\ db.rev \in 0 .. MaxEdits /\ db.rev + edits <= MaxEdits
           /\ db.status \in {"active", "error"}
           /\ ref[r].acct \in Issued \cup {0} /\ ref[r].from \in Issued \cup {0}
           /\ ref[r].new \in Issued \cup {0}
           /\ ref[r].rev + edits <= MaxEdits /\ edits \in Nat /\ edits <= MaxEdits
           /\ MaxEdits \in Nat
<1>1. db \in [cred : Issued, rev : 0 .. MaxEdits, status : {"active", "error"}]
      /\ edits \in 0 .. MaxEdits
  BY DEF BaseInv, TypeOK
<1>2. Issued \subseteq Number \ {0}
  BY Numbers DEF BaseInv
<1> QED
  BY <1>1, <1>2, RefreshAssumption DEF BaseInv, AdminInv, CallerInv

\* A fault, and none.
LEMMA FaultTyped ==
    ASSUME faults \in 0 .. MaxFaults
    PROVE  /\ NoFault => faults' \in 0 .. MaxFaults
           /\ \A kind : Fault(kind) => faults' \in 0 .. MaxFaults
BY RefreshAssumption DEF NoFault, Fault

\* CallerBase for the steps that change the callers, the cache and the faults.
LEMMA SettlesBase ==
    ASSUME BaseInv, NEW r \in Refreshers, UNCHANGED Fixed,
           ref' \in [Refreshers -> Refresher], OthersStay(r),
           (ref'[r].pc \in Inside) = (ref[r].pc \in Inside),
           ref'[r].locked = ref[r].locked,
           cache' \in [cred : Number, fresh : BOOLEAN], missed' \in BOOLEAN,
           faults' \in 0 .. MaxFaults,
           CallerInv(r)'
    PROVE  BaseInv'
<1>1. TypeOK /\ AdminInv
  BY DEF BaseInv
<1>2. /\ db' \in [cred : Issued', rev : 0 .. MaxEdits,
                  status : {"active", "error"}]
      /\ db'.rev + edits <= MaxEdits
      /\ tokens' \in Seq(Number) /\ Len(tokens') <= MaxCredentials
      /\ Issued \subseteq Issued' /\ due' \cup usable' \cup lost' \subseteq Issued'
      /\ lock' \in 0 .. LockTTL /\ {missed', unlocked'} \subseteq BOOLEAN
  BY <1>1 DEF Fixed, TypeOK, Issued, AdminInv
<1>3. MutexStep(r) /\ UNCHANGED <<grok, admin, edits>>
  BY DEF MutexStep, Fixed
<1>4. ref'[r].locked => ref'[r].pc \in Inside
  BY <1>1 DEF TypeOK
<1> QED
  BY <1>2, <1>3, <1>4, CallerBase

\* The same for the steps that leave the cache alone.
LEMMA PausesBase ==
    ASSUME BaseInv, NEW r \in Refreshers, UNCHANGED World,
           ref' \in [Refreshers -> Refresher], OthersStay(r),
           (ref'[r].pc \in Inside) = (ref[r].pc \in Inside),
           ref'[r].locked = ref[r].locked,
           faults' \in 0 .. MaxFaults,
           CallerInv(r)'
    PROVE  BaseInv'
<1>1. /\ UNCHANGED Fixed /\ cache' \in [cred : Number, fresh : BOOLEAN]
      /\ missed' \in BOOLEAN
  BY DEF World, Fixed, BaseInv, TypeOK
<1> QED
  BY <1>1, SettlesBase

\* A caller that gives up outside the locks, with no cache to clean.
LEMMA GivesUp ==
    ASSUME Inv, NEW r \in Refreshers, UNCHANGED World, Done(r),
           ref[r].pc \notin Inside, faults' \in 0 .. MaxFaults,
           ~(Cleaning(r) /\ (grok \/ ~IsRequest(r) \/ ref[r].acct = db.cred))
    PROVE  Inv'
<1>1. /\ ref' \in [Refreshers -> Refresher] /\ OthersStay(r) /\ ref'[r] = Idle
      /\ ~ref[r].locked
  BY Changed DEF Inv, BaseInv, TypeOK, Steps, Inside
<1>2. /\ Idle.pc = "idle" /\ Idle.acct = 0 /\ Idle.from = 0 /\ Idle.new = 0
      /\ Idle.rev = 0 /\ Idle.result = "none" /\ ~Idle.locked
      /\ Idle.locked \in BOOLEAN /\ ref[r].locked \in BOOLEAN
  BY Fields DEF Idle, Inv, BaseInv
<1>3. CallerInv(r)'
  BY <1>1, <1>2, Having, RefreshAssumption DEF CallerInv, Inv, World, Early
<1>4. BaseInv'
  BY <1>1, <1>2, <1>3, PausesBase DEF Inv, Inside
<1>5. Pauses(r)
  BY <1>1, <1>2
  DEF Pauses, Settles, Fixed, World, Counting, Limited, Inside, At, Refused
<1> QED
  BY <1>4, <1>5, InvPauses

\* A caller that begins has a limit that ends before a lock of its can lapse.
LEMMA Begins ==
    ASSUME TypeOK, NEW r \in Refreshers, NEW c \in Number, Begin(r, c)
    PROVE  /\ ref' \in [Refreshers -> Refresher] /\ OthersStay(r)
           /\ ref'[r].pc = "lock" /\ ref'[r].acct = c
           /\ ref'[r].left + LockMargin <= LockTTL
           /\ ref'[r].from = ref[r].from /\ ref'[r].new = ref[r].new
           /\ ref'[r].rev = ref[r].rev /\ ref'[r].locked = ref[r].locked
           /\ ref'[r].result = ref[r].result
<1> DEFINE l == IF IsRequest(r) THEN RequestTimeout ELSE AttemptLimit
<1>1. l \in 0 .. LockTTL /\ l + LockMargin <= LockTTL
  BY RefreshAssumption DEF AttemptLimit
<1>2. ref' = [ref EXCEPT ![r].pc = "lock", ![r].acct = c, ![r].left = l]
  BY DEF Begin
<1>3. ref \in [Refreshers -> Refresher] /\ "lock" \in Steps
  BY Fields DEF Steps
<1> HIDE DEF l
<1> QED
  BY <1>1, <1>2, <1>3 DEF OthersStay, Refresher

\* A step outside the locks of a caller without a result.
LEMMA Waits ==
    ASSUME Inv, NEW r \in Refreshers, UNCHANGED World,
           ref' \in [Refreshers -> Refresher], OthersStay(r),
           faults' \in 0 .. MaxFaults,
           ref[r].pc \in Early \ Inside,
           ref'[r].pc \in {"lookup", "lock", "wait", "check", "set"},
           ref'[r].pc # "lock" => IsRequest(r),
           ref'[r].acct \in {ref[r].acct, db.cred},
           ref'[r].pc = "lock" => ref'[r].left + LockMargin <= LockTTL,
           ref'[r].from = ref[r].from, ref'[r].new = ref[r].new,
           ref'[r].rev = ref[r].rev, ref'[r].locked = ref[r].locked,
           ref'[r].result = ref[r].result
    PROVE  Inv'
<1>1. /\ ref[r].result = "none" /\ ref[r].pc \notin Inside
      /\ ref'[r].pc \notin Inside
  BY DEF Inv, BaseInv, CallerInv, Inside
<1>2. CallerInv(r)'
  BY <1>1, Having DEF CallerInv, Inv, World, Early, IsRequest, Issued, BaseInv
<1>3. BaseInv'
  BY <1>1, <1>2, PausesBase DEF Inv
<1>4. Pauses(r)
  BY <1>1 DEF Pauses, Settles, Fixed, Counting, Inside, At, Refused, Cleaning, World
<1> QED
  BY <1>3, <1>4, InvPauses

\* A caller takes an account, and may look its token up in the cache.
LEMMA InvTake ==
    ASSUME Inv, NEW r \in Refreshers, Take(r) \/ Lookup(r)
    PROVE  Inv'
<1> USE DEF Inv
<1>t. TypeOK /\ faults \in 0 .. MaxFaults
  BY DEF BaseInv, TypeOK
<1>u. UNCHANGED World /\ ref[r].pc \in {"idle", "lookup"}
      /\ ref[r].pc \in Early \ Inside
  BY DEF Take, Lookup, World, provider, redis, history, others, At, Early, Inside
<1>f. faults' \in 0 .. MaxFaults
  BY <1>t, FaultTyped DEF Take, Lookup
<1>n. ref[r].result = "none"
  BY <1>u DEF BaseInv, CallerInv, Early
<1>b. ASSUME NEW c \in Number, Begin(r, c), c \in {ref[r].acct, db.cred}
      PROVE  Inv'
  BY <1>t, <1>u, <1>f, <1>b, Begins, Waits
<1>1. CASE Take(r)
  <2>1. CASE Begin(r, db.cred)
    BY <1>b, <2>1, Having
  <2>2. CASE IsRequest(r)
             /\ ref' = [ref EXCEPT ![r].pc = "lookup", ![r].acct = db.cred]
    <3>1. "lookup" \in Steps /\ db.cred \in Number /\ ref \in [Refreshers -> Refresher]
      BY <1>t, Having, Fields DEF Steps
    <3>2. /\ ref' \in [Refreshers -> Refresher] /\ OthersStay(r)
          /\ ref'[r].pc = "lookup" /\ ref'[r].acct = db.cred
          /\ ref'[r].from = ref[r].from /\ ref'[r].new = ref[r].new
          /\ ref'[r].rev = ref[r].rev /\ ref'[r].locked = ref[r].locked
          /\ ref'[r].result = ref[r].result
      BY <2>2, <3>1 DEF OthersStay, Refresher
    <3> QED
      BY <1>u, <1>f, <2>2, <3>2, Waits
  <2> QED
    BY <1>1, <2>1, <2>2 DEF Take
<1>2. CASE Lookup(r)
  <2>1. IsRequest(r)
    BY <1>2 DEF Lookup, At, BaseInv, CallerInv
  <2>2. CASE Done(r)
    BY <1>u, <1>f, <1>n, <2>2, GivesUp DEF Cleaning
  <2>3. CASE Begin(r, ref[r].acct)
    BY <1>b, <1>t, <2>3, Fields
  <2>4. CASE Goto(r, "check")
    <3>1. "check" \in Steps
      BY DEF Steps
    <3> QED
      BY <1>t, <1>u, <1>f, <2>1, <2>4, <3>1, Changed, Waits
  <2> QED
    BY <1>2, <2>2, <2>3, <2>4 DEF Lookup
<1> QED
  BY <1>1, <1>2

\* A request waits for the caller that has the lock.
LEMMA InvWait ==
    ASSUME Inv, NEW r \in Refreshers, Wait(r)
    PROVE  Inv'
<1> USE DEF Inv
<1>t. TypeOK /\ faults \in 0 .. MaxFaults
  BY DEF BaseInv, TypeOK
<1>u. UNCHANGED World /\ ref[r].pc = "wait" /\ faults' = faults
      /\ ref[r].pc \in Early \ Inside
  BY DEF Wait, World, provider, redis, history, others, At, Early, Inside
<1>n. ref[r].result = "none" /\ IsRequest(r)
  BY <1>u DEF BaseInv, CallerInv, Early
<1>1. CASE Done(r)
  BY <1>t, <1>u, <1>n, <1>1, GivesUp DEF Cleaning
<1>2. CASE Goto(r, "check")
  <2>1. "check" \in Steps
    BY DEF Steps
  <2> QED
    BY <1>t, <1>u, <1>n, <1>2, <2>1, Changed, Waits
<1>3. CASE ref' = [ref EXCEPT ![r].pc = "set", ![r].acct = db.cred]
  <2>1. "set" \in Steps /\ db.cred \in Number /\ ref \in [Refreshers -> Refresher]
    BY <1>t, Having, Fields DEF Steps
  <2>2. /\ ref' \in [Refreshers -> Refresher] /\ OthersStay(r)
        /\ ref'[r].pc = "set" /\ ref'[r].acct = db.cred
        /\ ref'[r].from = ref[r].from /\ ref'[r].new = ref[r].new
        /\ ref'[r].rev = ref[r].rev /\ ref'[r].locked = ref[r].locked
        /\ ref'[r].result = ref[r].result
    BY <1>3, <2>1 DEF OthersStay, Refresher
  <2> QED
    BY <1>t, <1>u, <1>n, <2>2, Waits
<1> QED
  BY <1>1, <1>2, <1>3 DEF Wait

\* A request compares the versions; who stored the credentials that are in the
\* row does not find newer ones.
LEMMA InvCheck ==
    ASSUME Inv, NEW r \in Refreshers, Check(r)
    PROVE  Inv'
<1> USE DEF Inv
<1>t. TypeOK /\ faults \in 0 .. MaxFaults
  BY DEF BaseInv, TypeOK
<1>u. UNCHANGED World /\ ref[r].pc = "check" /\ ref[r].pc \notin Inside
  BY DEF Check, World, provider, redis, history, others, At, Inside
<1>f. faults' \in 0 .. MaxFaults
  BY <1>t, FaultTyped DEF Check
<1>n. IsRequest(r)
  BY <1>u DEF BaseInv, CallerInv
<1>1. CASE Stale(r) /\ Done(r)
  <2>1. ref[r].acct # db.cred
    <3>1. tokens[db.cred] \in Nat
      BY <1>t, Having, Numbers
    <3> QED
      BY <1>1, <3>1 DEF Stale
  <2>2. ~(Cleaning(r) /\ (grok \/ ~IsRequest(r) \/ ref[r].acct = db.cred))
    BY <1>u, <1>n, <2>1 DEF Cleaning, At
  <2> QED
    BY <1>u, <1>f, <1>1, <2>2, GivesUp
<1>2. CASE Goto(r, "set")
  <2>1. "set" \in Steps
    BY DEF Steps
  <2>2. /\ ref' \in [Refreshers -> Refresher] /\ OthersStay(r)
        /\ ref'[r].pc = "set" /\ ref'[r].acct = ref[r].acct
        /\ ref'[r].from = ref[r].from /\ ref'[r].new = ref[r].new
        /\ ref'[r].rev = ref[r].rev /\ ref'[r].locked = ref[r].locked
        /\ ref'[r].result = ref[r].result
    BY <1>t, <1>2, <2>1, Changed
  <2>3. CallerInv(r)'
    BY <1>u, <1>n, <2>2, Having DEF CallerInv, World, Early, IsRequest, Issued
  <2>4. BaseInv'
    BY <1>u, <1>f, <2>2, <2>3, PausesBase DEF Inside
  <2>5. Pauses(r)
    BY <1>u, <2>2 DEF Pauses, Settles, Fixed, Counting, Inside, At, Refused, Cleaning, World
  <2> QED
    BY <2>4, <2>5, InvPauses
<1> QED
  BY <1>1, <1>2 DEF Check

\* RefreshIfNeeded returns before it has called the provider, or refused by it.
LEMMA Gives ==
    ASSUME Inv, NEW r \in Refreshers, UNCHANGED World,
           ref[r].pc \in {"read", "call", "refused"}, faults' \in 0 .. MaxFaults,
           NEW result \in {"none", "current", "failed", "refused"},
           result = "refused" => ref[r].pc = "refused",
           NEW acct \in Issued \cup {0}, Return(r, result, acct)
    PROVE  Inv'
<1> USE DEF Inv
<1>1. result \in Results /\ acct \in Number
  BY Numbers DEF BaseInv, Results
<1>2. /\ ref' \in [Refreshers -> Refresher] /\ OthersStay(r)
      /\ ref'[r].pc = "release" /\ ref'[r].result = result
      /\ ref'[r].acct \in {acct, 0}
      /\ ref'[r].from = IF result = "refused" THEN ref[r].from ELSE 0
      /\ ref'[r].rev = IF result = "refused" THEN ref[r].rev ELSE 0
      /\ ref'[r].new = 0 /\ ref'[r].left = ref[r].left
      /\ ref'[r].locked = ref[r].locked
  BY <1>1, Returns DEF BaseInv
<1>3. ref[r].result = "none" /\ {"release", ref[r].pc} \subseteq Inside
  BY DEF BaseInv, CallerInv, Early, Inside
<1>4. CallerInv(r)'
  BY <1>2, Having DEF CallerInv, World, Early, Issued
<1>5. BaseInv'
  BY <1>2, <1>3, <1>4, PausesBase
<1>6. Pauses(r)
  BY <1>2, <1>3 DEF Pauses, Settles, Fixed, Counting, Limited, At, Refused, Cleaning, World
<1> QED
  BY <1>5, <1>6, InvPauses

\* The account is read again under the locks.
LEMMA InvRead ==
    ASSUME Inv, NEW r \in Refreshers, Read(r)
    PROVE  Inv'
<1> USE DEF Inv
<1>t. TypeOK /\ faults \in 0 .. MaxFaults
  BY DEF BaseInv, TypeOK
<1>u. UNCHANGED World /\ ref[r].pc = "read"
  BY DEF Read, World, provider, redis, history, others, At
<1>f. faults' \in 0 .. MaxFaults
  BY <1>t, FaultTyped DEF Read
<1>1. CASE ref' = [ref EXCEPT ![r].pc = "call", ![r].from = db.cred,
                              ![r].rev = db.rev]
  <2>1. /\ "call" \in Steps /\ db.cred \in Number /\ db.rev \in 0 .. MaxEdits
        /\ ref \in [Refreshers -> Refresher]
    BY <1>t, Having, Fields DEF Steps, Inside
  <2>2. /\ ref' \in [Refreshers -> Refresher] /\ OthersStay(r)
        /\ ref'[r].pc = "call" /\ ref'[r].acct = ref[r].acct
        /\ ref'[r].from = db.cred /\ ref'[r].new = ref[r].new
        /\ ref'[r].rev = db.rev /\ ref'[r].locked = ref[r].locked
        /\ ref'[r].result = ref[r].result /\ ref'[r].left = ref[r].left
    BY <1>1, <2>1 DEF OthersStay, Refresher
  <2>3. ref[r].result = "none"
    BY <1>u DEF BaseInv, CallerInv, Early
  <2>4. CallerInv(r)'
    BY <1>u, <2>2, <2>3, Having DEF CallerInv, World, Early, Issued
  <2>5. BaseInv'
    BY <1>u, <1>f, <2>2, <2>4, PausesBase DEF Inside
  <2>6. Pauses(r)
    BY <1>u, <2>2, <2>3
    DEF Pauses, Settles, Fixed, Counting, Limited, Inside, At, Refused, Cleaning, World
  <2> QED
    BY <2>5, <2>6, InvPauses
<1>2. ASSUME NEW result \in {"current", "failed"},
             NEW acct \in {db.cred, ref[r].acct}, Return(r, result, acct)
      PROVE  Inv'
  BY <1>u, <1>f, <1>2, Having, Gives
<1> QED
  BY <1>1, <1>2 DEF Read

\* A refused refresh token is dead, or another caller's refresh was first.
LEMMA InvRecover ==
    ASSUME Inv, NEW r \in Refreshers, Recover(r)
    PROVE  Inv'
<1> USE DEF Inv
<1>t. TypeOK /\ faults \in 0 .. MaxFaults
  BY DEF BaseInv, TypeOK
<1>u. UNCHANGED World /\ ref[r].pc = "refused"
  BY DEF Recover, World, provider, redis, history, others, At
<1>f. faults' \in 0 .. MaxFaults
  BY <1>t, FaultTyped DEF Recover
<1>1. ASSUME NEW result \in {"none", "current", "refused"},
             NEW acct \in {db.cred, ref[r].acct}, Return(r, result, acct)
      PROVE  Inv'
  BY <1>u, <1>f, <1>1, Having, Gives
<1> QED
  BY <1>1 DEF Recover

\* The mutex and the Redis lock: a caller gets the lock only when nobody has it,
\* for longer than its limit.
LEMMA InvLock ==
    ASSUME Inv, NEW r \in Refreshers, Lock(r)
    PROVE  Inv'
<1> USE DEF Inv
<1>t. TypeOK /\ faults \in 0 .. MaxFaults /\ lock \in 0 .. LockTTL
      /\ LockTTL \in Nat \ {0} /\ LockMargin \in Nat \ {0}
  BY RefreshAssumption DEF BaseInv, TypeOK
<1>u. /\ UNCHANGED <<grok, db, tokens, due, usable, cache, admin, edits, lost,
                     missed>>
      /\ ref[r].pc = "lock" /\ ref[r].pc \in Early \ Inside
  BY DEF Lock, provider, others, At, Early, Inside
<1>f. faults' \in 0 .. MaxFaults
  BY <1>t, FaultTyped DEF Lock
<1>n. ref[r].result = "none" /\ ref[r].from \in Number
  BY <1>t, <1>u, Fields DEF BaseInv, CallerInv
<1>1. CASE Done(r) /\ UNCHANGED <<local, lock, unlocked>>
  BY <1>u, <1>f, <1>n, <1>1, GivesUp DEF Cleaning, World
<1>2. CASE IsRequest(r) /\ Goto(r, "wait") /\ UNCHANGED <<local, lock, unlocked>>
  <2>1. "wait" \in Steps /\ UNCHANGED World
    BY <1>u, <1>2 DEF Steps, World
  <2>2. /\ ref' \in [Refreshers -> Refresher] /\ OthersStay(r)
        /\ ref'[r].pc = "wait" /\ ref'[r].acct = ref[r].acct
        /\ ref'[r].from = ref[r].from /\ ref'[r].new = ref[r].new
        /\ ref'[r].rev = ref[r].rev /\ ref'[r].locked = ref[r].locked
        /\ ref'[r].result = ref[r].result
    BY <1>t, <1>2, <2>1, Changed
  <2> QED
    BY <1>u, <1>f, <1>2, <2>1, <2>2, Waits
<1>3. ASSUME NEW locked \in BOOLEAN, Enter(r, locked), local[r[1]] = None,
             lock' \in 0 .. LockTTL, unlocked' \in BOOLEAN,
             IF locked THEN lock = 0 /\ lock' = LockTTL /\ unlocked' = unlocked
                       ELSE /\ lock = 0 \/ lock' = lock
                            /\ unlocked' = TRUE
      PROVE  Inv'
  <2>1. /\ local' = [local EXCEPT ![r[1]] = r]
        /\ ref' \in [Refreshers -> Refresher] /\ OthersStay(r)
        /\ ref'[r].pc = "read" /\ ref'[r].locked = locked
        /\ ref'[r].acct = ref[r].acct /\ ref'[r].from = ref[r].from
        /\ ref'[r].new = ref[r].new /\ ref'[r].rev = ref[r].rev
        /\ ref'[r].left = ref[r].left /\ ref'[r].result = "none"
    <3>1. "read" \in Steps /\ ref \in [Refreshers -> Refresher]
      BY <1>t, Fields DEF Steps, Inside
    <3> QED
      BY <1>3, <1>n, <3>1 DEF Enter, OthersStay, Refresher
  <2>2. MutexStep(r) /\ ref'[r].pc \in Inside
    BY <1>3, <2>1 DEF MutexStep, Inside
  <2>3. CallerInv(r)'
    BY <1>u, <2>1, Having DEF CallerInv, Early, Issued
  <2>4. BaseInv'
    <3>1. /\ db' \in [cred : Issued', rev : 0 .. MaxEdits,
                      status : {"active", "error"}]
          /\ db'.rev + edits <= MaxEdits
          /\ tokens' \in Seq(Number) /\ Len(tokens') <= MaxCredentials
          /\ Issued \subseteq Issued' /\ due' \cup usable' \cup lost' \subseteq Issued'
          /\ cache' \in [cred : Number, fresh : BOOLEAN]
          /\ {missed', unlocked'} \subseteq BOOLEAN
      BY <1>t, <1>u, <1>3 DEF TypeOK, Issued, BaseInv, AdminInv
    <3> QED
      BY <1>u, <1>f, <1>3, <2>1, <2>2, <2>3, <3>1, CallerBase
  <2>5. LeaseInv'
    <3>1. ASSUME NEW s \in Refreshers, Counting(s)'
          PROVE  ref'[s].left + LockMargin <= LockTTL
      BY <1>u, <2>1, <3>1 DEF OthersStay, LeaseInv, Counting, Limited, IsRequest
    <3>2. ASSUME grok, NEW s \in Refreshers \ {r}, ref[s].locked
          PROVE  lock # 0 /\ lock' = lock /\ ~locked /\ ref[s].left < lock
      <4>1. ref[s].left < lock /\ ref[s].left \in Nat /\ lock \in Nat
        BY <1>t, <3>2, Fields DEF LeaseInv
      <4>2. lock # 0
        BY <4>1
      <4> QED
        BY <1>3, <4>1, <4>2
    <3>3. ASSUME grok, locked
          PROVE  ref'[r].left < lock'
      <4>1. Counting(r) /\ ref[r].left \in Nat
        BY <1>t, <1>u, <3>3, Fields DEF Counting, Limited
      <4>2. ref[r].left + LockMargin <= LockTTL
        BY <4>1 DEF LeaseInv
      <4> QED
        BY <1>t, <1>3, <2>1, <3>3, <4>1, <4>2
    <3>4. \A s \in Refreshers \ {r} : ref'[s] = ref[s]
      BY <2>1 DEF OthersStay
    <3>5. grok => \A s \in Refreshers : ref'[s].locked => ref'[s].left < lock'
      BY <2>1, <3>2, <3>3, <3>4
    <3>6. RefreshesAreExclusive'
      BY <1>u, <2>1, <3>2, <3>4 DEF LeaseInv, RefreshesAreExclusive
    <3> QED
      BY <1>u, <3>1, <3>5, <3>6 DEF LeaseInv
  <2>6. /\ \A s \in Refreshers : At(s, "answered")' = At(s, "answered")
        /\ \A s \in Refreshers : At(s, "answered") => ref'[s] = ref[s]
        /\ \A s \in Refreshers : ref'[s].from = ref[s].from
    BY <1>u, <2>1 DEF OthersStay, At
  <2>7. SecretInv'
    BY <1>u, <2>6 DEF SecretInv, Known, Unsaved
  <2>8. SuccessorIsStored'
    BY <1>u, <2>6 DEF SuccessorIsStored
  <2>9. ErrorInv'
    <3>1. \A c : Dead(c)' = Dead(c)
      BY <1>u, <2>6 DEF Dead
    <3>2. \A s \in Refreshers : Refused(s)' => Refused(s)
      BY <1>u, <2>1 DEF Refused, OthersStay, At
    <3>3. \A s \in Refreshers : Refused(s)' => (Dead(ref[s].from))' = Dead(ref[s].from)
      BY <1>u, <2>6 DEF Dead
    <3>4. Strict' => Strict /\ locked
      BY <1>u, <1>3 DEF Strict
    <3>5. Strict' => \A s \in Refreshers : ref'[s].pc \in Inside => ref'[s].locked
      BY <2>1, <3>4 DEF ErrorInv, OthersStay
    <3> QED
      BY <1>u, <2>6, <3>1, <3>2, <3>3, <3>4, <3>5 DEF ErrorInv
  <2>10. CacheInv'
    <3>1. \A s \in Refreshers : Cleaning(s) =>
              Cleaning(s)' /\ ref'[s].acct = ref[s].acct
      BY <1>u, <1>n, <2>1 DEF Cleaning, OthersStay, At
    <3> QED
      BY <1>u, <3>1 DEF CacheInv, IsRequest
  <2> QED
    BY <2>4, <2>5, <2>7, <2>8, <2>9, <2>10
<1>4. CASE lock = 0 /\ lock' = LockTTL /\ Enter(r, TRUE) /\ UNCHANGED unlocked
           /\ local[r[1]] = None
  <2>1. lock' \in 0 .. LockTTL /\ unlocked' \in BOOLEAN
    BY <1>t, <1>4 DEF TypeOK
  <2> QED
    BY <1>3, <1>4, <2>1
<1>5. CASE /\ lock' \in {lock, IF lock = 0 THEN LockTTL ELSE lock}
           /\ Enter(r, FALSE) /\ unlocked' = TRUE /\ local[r[1]] = None
  <2>1. lock' \in 0 .. LockTTL /\ (lock = 0 \/ lock' = lock)
    BY <1>t, <1>5
  <2> QED
    BY <1>3, <1>5, <2>1
<1> QED
  BY <1>1, <1>2, <1>4, <1>5 DEF Lock

\* A step inside the locks that keeps them keeps the lease.
LEMMA KeepsLease ==
    ASSUME Inv, NEW r \in Refreshers, OthersStay(r), UNCHANGED <<grok, lock>>,
           ref[r].pc \in Inside, ref'[r].left = ref[r].left,
           ref'[r].locked = ref[r].locked
    PROVE  LeaseInv'
<1>1. \A s \in Refreshers : /\ ref'[s].left = ref[s].left
                            /\ ref'[s].locked = ref[s].locked
                            /\ Counting(s)' => Counting(s)
  BY DEF OthersStay, Counting, Limited, IsRequest
<1> QED
  BY <1>1 DEF Inv, LeaseInv, RefreshesAreExclusive

\* Credentials that are dead stay so when others, that the provider still
\* accepts, are rotated: their successor is new.
LEMMA DeadStays ==
    ASSUME Inv, NEW r \in Refreshers, OthersStay(r), NEW from \in usable,
           usable' = (usable \ {from}) \cup {Next_number},
           Next_number \notin Issued \cup {0},
           At(r, "answered")' => ref'[r].from = from
    PROVE  \A c \in Issued \cup {0} : Dead(c) => Dead(c)'
BY DEF Dead, OthersStay, At

\* A caller calls the provider, which rotates its refresh token; the caller has
\* the successor, or it is lost.
LEMMA Rotates ==
    ASSUME Inv, NEW r \in Refreshers, ref[r].pc = "call",
           ref[r].from \in usable, Issue(ref[r].from, Next_number),
           UNCHANGED <<db, lock, cache, local, grok, admin, edits, missed,
                       unlocked>>,
           faults' \in 0 .. MaxFaults,
           ref' \in [Refreshers -> Refresher], OthersStay(r),
           ref'[r].left = ref[r].left, ref'[r].locked = ref[r].locked,
           \/ /\ ref'[r] = [ref[r] EXCEPT !.pc = "answered", !.new = Next_number]
              /\ lost' = lost
           \/ /\ ref'[r].pc = "release" /\ ref'[r].result \in {"none", "failed"}
              /\ ref'[r].from = 0 /\ ref'[r].rev = 0 /\ ref'[r].new = 0
              /\ ref'[r].acct \in {0, ref[r].acct}
              /\ lost' = lost \cup {ref[r].from}
    PROVE  Inv'
<1> USE DEF Inv
<1>t. TypeOK /\ faults \in 0 .. MaxFaults /\ ref[r] \in Refresher
  BY Fields DEF BaseInv, TypeOK
<1> PICK from \in usable : from = ref[r].from
  OBVIOUS
<1> PICK n : n = Next_number
  OBVIOUS
<1>i. /\ tokens' \in Seq(Number) /\ Len(tokens') <= MaxCredentials
      /\ Issued' = Issued \cup {n}
      /\ n \notin Issued /\ n \in Number \ {0}
      /\ usable' = (usable \ {from}) \cup {n} /\ due' = due
  <2>1. Next_number \in Number
    <3>1. Next_number <= MaxCredentials /\ Len(tokens) \in Nat
      BY <1>t, Numbers DEF Issue
    <3> QED
      BY <3>1, RefreshAssumption DEF Next_number, Number
  <2> QED
    BY <1>t, <2>1, Issues
<1>c. /\ usable \subseteq Issued /\ 0 \notin Issued /\ db.cred \in Issued
      /\ admin.cred \in Issued \cup {0}
      /\ \A s \in Refreshers : /\ ref[s].from \in Issued \cup {0}
                               /\ ref[s].new \in Issued \cup {0}
  <2>1. admin.cred \in Issued \cup {0}
    BY DEF BaseInv, AdminInv
  <2> QED
    BY <1>t, <2>1, Having, Numbers DEF TypeOK
<1>r. /\ ref'[r].pc \in {"answered", "release"} /\ ref'[r].pc \in Inside
      /\ ref'[r].from \in {0, from} /\ ref[r].result = "none"
      /\ At(r, "answered")' => /\ ref'[r].new = n /\ ref'[r].from = from
                               /\ lost' = lost
      /\ ~At(r, "answered")' => lost' = lost \cup {from}
      /\ ref'[r].result # "refused" /\ ~Refused(r)' /\ lost \subseteq lost'
      /\ ref[r].pc \in Inside
  BY <1>t DEF BaseInv, CallerInv, Early, Inside, At, Refresher, Refused
<1>o. /\ \A s \in Refreshers \ {r} : ref'[s] = ref[s]
      /\ ~At(r, "answered") /\ ~Cleaning(r)
  BY <1>r DEF OthersStay, At, Cleaning
<1>1. CallerInv(r)'
  <2>1. /\ ref'[r].acct \in {0, ref[r].acct} /\ ref'[r].new \in {0, ref[r].new, n}
        /\ ref'[r].rev \in {0, ref[r].rev}
        /\ ref'[r].pc = "answered" =>
              /\ ref'[r].new # 0 /\ ref'[r].result = "none"
              /\ ref'[r].from = from /\ from # 0
        /\ 0 + edits <= MaxEdits
    <3>1. 0 + edits <= MaxEdits /\ from # 0
      BY <1>c, Having
    <3>2. CASE ref'[r] = [ref[r] EXCEPT !.pc = "answered", !.new = Next_number]
      BY <1>t, <1>i, <1>r, <3>1, <3>2 DEF Refresher
    <3>3. CASE /\ ref'[r].pc = "release" /\ ref'[r].rev = 0 /\ ref'[r].new = 0
               /\ ref'[r].acct \in {0, ref[r].acct}
      BY <3>1, <3>3
    <3> QED
      BY <3>2, <3>3
  <2> QED
    BY <1>t, <1>i, <1>c, <1>r, <2>1, Having DEF CallerInv, Early
<1>2. BaseInv'
  <2>1. MutexStep(r) /\ (ref'[r].locked => ref'[r].pc \in Inside)
    BY <1>r DEF MutexStep
  <2>2. /\ db' \in [cred : Issued', rev : 0 .. MaxEdits,
                    status : {"active", "error"}]
        /\ db'.rev + edits <= MaxEdits
        /\ due' \cup usable' \cup lost' \subseteq Issued'
        /\ lock' \in 0 .. LockTTL /\ cache' \in [cred : Number, fresh : BOOLEAN]
        /\ {missed', unlocked'} \subseteq BOOLEAN
    BY <1>t, <1>i, <1>r DEF TypeOK, BaseInv, AdminInv
  <2> QED
    BY <1>i, <1>1, <2>1, <2>2, CallerBase
<1>3. LeaseInv'
  BY <1>r, KeepsLease
<1>4. SecretInv'
  <2>1. \A c \in Issued : Known(c)' => Known(c)
    BY <1>c, <1>o, <1>r DEF Known, Unsaved
  <2>2. ~Known(n)' /\ Known(from) /\ admin.cred # n
    BY <1>c, <1>i, <1>o, <1>r DEF Known, Unsaved
  <2>3. ASSUME NEW s \in Refreshers, At(s, "answered")'
        PROVE  /\ ref'[s].new \in usable' /\ ~(Known(ref[s].new))'
               /\ admin'.cred # ref'[s].new
               /\ \A q \in Refreshers :
                     At(q, "answered")' /\ ref'[q].new = ref'[s].new => s = q
    <3>1. CASE s = r
      BY <1>c, <1>i, <1>o, <1>r, <2>2, <2>3, <3>1 DEF Known, Unsaved, At
    <3>2. CASE s # r
      <4>1. At(s, "answered") /\ ref'[s] = ref[s]
        BY <1>o, <2>3, <3>2 DEF At
      <4>2. PICK c : c = ref[s].new
        OBVIOUS
      <4>3. c \in usable /\ ~Known(c) /\ admin.cred # c /\ c \in Issued
        BY <1>c, <4>1, <4>2 DEF SecretInv
      <4>4. c \in usable' /\ ~Known(c)' /\ c # n
        BY <1>i, <2>1, <2>2, <4>3
      <4>5. ~(Known(ref[s].new))'
        BY <4>1, <4>2, <4>4 DEF Known, Unsaved
      <4>6. \A q \in Refreshers :
                At(q, "answered")' /\ ref'[q].new = c => s = q
        BY <1>o, <1>r, <4>1, <4>2, <4>4 DEF SecretInv, At
      <4> QED
        BY <4>1, <4>2, <4>3, <4>4, <4>5, <4>6
    <3> QED
      BY <3>1, <3>2
  <2>4. Unsaved' => admin'.cred \in usable' /\ ~(Known(admin.cred))'
    <3>1. Unsaved => admin.cred \in usable /\ ~Known(admin.cred)
      BY DEF SecretInv
    <3>2. (Known(admin.cred))' => Known(admin.cred) \/ admin.cred \notin Issued
      BY <2>1 DEF Known, Unsaved
    <3> QED
      BY <1>c, <1>i, <2>2, <3>1, <3>2 DEF Unsaved
  <2> QED
    BY <2>3, <2>4 DEF SecretInv
<1>5. SuccessorIsStored'
  <2>1. CASE db.cred \in usable \cup lost
    BY <1>i, <1>r, <2>1 DEF SuccessorIsStored
  <2>2. CASE db.cred \notin usable \cup lost
    BY <1>o, <2>2 DEF SuccessorIsStored, At
  <2> QED
    BY <2>1, <2>2
<1>6. ErrorInv'
  <2>1. \A c \in Issued \cup {0} : Dead(c) => Dead(c)'
    BY <1>i, <1>r, DeadStays
  <2>2. ASSUME Strict, NEW s \in Refreshers, Refused(s)'
        PROVE  (Dead(ref[s].from))'
    <3>1. s # r /\ ref'[s] = ref[s]
      BY <1>o, <1>r, <2>2
    <3>2. PICK c : c = ref[s].from
      OBVIOUS
    <3>3. Dead(c)
      BY <2>2, <3>1, <3>2 DEF ErrorInv, Refused, At
    <3>4. Dead(c)'
      BY <1>c, <2>1, <3>2, <3>3
    <3> QED
      BY <3>1, <3>2, <3>4 DEF Dead
  <2>3. Strict' = Strict
    BY DEF Strict
  <2>4. Dead(db.cred) => (Dead(db.cred))'
    BY <1>c, <2>1 DEF Dead
  <2>5. Dead(admin.cred) => (Dead(admin.cred))'
    BY <1>c, <2>1 DEF Dead
  <2>6. Strict => \A s \in Refreshers : ref'[s].pc \in Inside => ref'[s].locked
    BY <1>o, <1>r DEF ErrorInv
  <2> QED
    BY <2>2, <2>3, <2>4, <2>5, <2>6 DEF ErrorInv
<1>7. CacheInv'
  <2>1. \A s \in Refreshers : Cleaning(s) => Cleaning(s)' /\ ref'[s] = ref[s]
    BY <1>o DEF Cleaning, At
  <2> QED
    BY <2>1 DEF CacheInv, IsRequest
<1> QED
  BY <1>2, <1>3, <1>4, <1>5, <1>6, <1>7

\* The provider rotates the token, refuses it, or does not answer in time.
LEMMA InvCall ==
    ASSUME Inv, NEW r \in Refreshers, Call(r)
    PROVE  Inv'
<1> USE DEF Inv
<1>t. TypeOK /\ faults \in 0 .. MaxFaults
  BY DEF BaseInv, TypeOK
<1>u. /\ UNCHANGED <<db, lock, cache, local, grok, admin, edits, missed,
                     unlocked>>
      /\ ref[r].pc = "call"
  BY DEF Call, redis, others, At
<1>f. faults' \in 0 .. MaxFaults
  BY <1>t, FaultTyped DEF Call
<1>n. ref[r].result = "none" /\ ref[r].acct \in Issued \cup {0}
  BY <1>u, Having DEF BaseInv, CallerInv, Early
<1>1. CASE /\ ref[r].from \in usable /\ Issue(ref[r].from, Next_number)
           /\ lost' = lost
           /\ ref' = [ref EXCEPT ![r].pc = "answered", ![r].new = Next_number]
  <2>1. /\ ref \in [Refreshers -> Refresher] /\ "answered" \in Steps
        /\ Next_number \in Number
    <3>1. Next_number <= MaxCredentials /\ Len(tokens) \in Nat
      BY <1>t, <1>1, Numbers DEF Issue
    <3> QED
      BY <1>t, <3>1, Fields, RefreshAssumption
      DEF Next_number, Number, Steps, Inside
  <2>2. /\ ref' \in [Refreshers -> Refresher] /\ OthersStay(r)
        /\ ref'[r] = [ref[r] EXCEPT !.pc = "answered", !.new = Next_number]
        /\ ref'[r].left = ref[r].left /\ ref'[r].locked = ref[r].locked
    BY <1>1, <2>1 DEF OthersStay, Refresher
  <2> QED
    BY <1>u, <1>f, <1>1, <2>2, Rotates
<1>2. CASE /\ ref[r].from \notin usable /\ Goto(r, "refused")
           /\ UNCHANGED <<provider, lost>>
  <2>1. UNCHANGED World /\ "refused" \in Steps
    BY <1>u, <1>2 DEF World, provider, Steps, Inside
  <2>2. /\ ref' \in [Refreshers -> Refresher] /\ OthersStay(r)
        /\ ref'[r].pc = "refused" /\ ref'[r].acct = ref[r].acct
        /\ ref'[r].from = ref[r].from /\ ref'[r].new = ref[r].new
        /\ ref'[r].rev = ref[r].rev /\ ref'[r].locked = ref[r].locked
        /\ ref'[r].result = ref[r].result /\ ref'[r].left = ref[r].left
    BY <1>t, <1>2, <2>1, Changed
  <2>3. CallerInv(r)'
    BY <1>u, <1>n, <2>1, <2>2, Having
    DEF CallerInv, World, Early, Issued, BaseInv
  <2>4. BaseInv'
    BY <1>u, <1>f, <2>1, <2>2, <2>3, PausesBase DEF Inside
  <2>5. Strict => Dead(ref[r].from)
    <3>1. ASSUME Strict, NEW s \in Refreshers, At(s, "answered")
          PROVE  s = r
      <4>1. ref[s].locked /\ ref[r].locked
        BY <1>u, <3>1 DEF ErrorInv, At, Inside
      <4> QED
        BY <3>1, <4>1 DEF LeaseInv, RefreshesAreExclusive, Strict
    <3> QED
      BY <1>u, <1>2, <3>1 DEF Dead, At
  <2>6. Pauses(r)
    BY <1>u, <1>n, <2>1, <2>2, <2>5
    DEF Pauses, Settles, Fixed, World, Counting, Limited, Inside, At, Refused,
        Cleaning
  <2> QED
    BY <2>4, <2>6, InvPauses
<1>3. ASSUME NEW result \in {"none", "failed"}, Return(r, result, ref[r].acct),
             \/ /\ ref[r].from \in usable /\ Issue(ref[r].from, Next_number)
                /\ lost' = lost \cup {ref[r].from}
             \/ UNCHANGED <<provider, lost>>
      PROVE  Inv'
  <2>1. CASE /\ ref[r].from \in usable /\ Issue(ref[r].from, Next_number)
             /\ lost' = lost \cup {ref[r].from}
    <3>1. result \in Results /\ ref[r].acct \in Number
      BY <1>t, Fields DEF Results
    <3>2. /\ ref' \in [Refreshers -> Refresher] /\ OthersStay(r)
          /\ ref'[r].pc = "release" /\ ref'[r].result = result
          /\ ref'[r].acct \in {0, ref[r].acct}
          /\ ref'[r].from = 0 /\ ref'[r].rev = 0
          /\ ref'[r].new = 0 /\ ref'[r].left = ref[r].left
          /\ ref'[r].locked = ref[r].locked
      BY <1>t, <1>3, <3>1, Returns
    <3> QED
      BY <1>u, <1>f, <2>1, <3>2, Rotates
  <2>2. CASE UNCHANGED <<provider, lost>>
    <3>1. UNCHANGED World
      BY <1>u, <2>2 DEF World, provider
    <3> QED
      BY <1>u, <1>f, <1>n, <1>3, <3>1, Gives
  <2> QED
    BY <1>3, <2>1, <2>2
<1> QED
  BY <1>1, <1>2, <1>3 DEF Call

\* A caller that has the successor leaves it: what holds whether it has stored
\* the successor or not.
LEMMA Leaves ==
    ASSUME Inv, NEW r \in Refreshers, ref[r].pc = "answered",
           UNCHANGED <<grok, tokens, due, usable, lock, cache, local, admin,
                       edits, unlocked>>,
           faults' \in 0 .. MaxFaults, missed' \in BOOLEAN,
           ref' \in [Refreshers -> Refresher], OthersStay(r),
           ref'[r].left = ref[r].left, ref'[r].locked = ref[r].locked,
           \/ /\ ref'[r].pc = "release"
              /\ ref'[r].result \in {"none", "failed", "refreshed"}
           \/ /\ ref'[r].pc = "reload"
              /\ ref'[r].result \in {"current", "refreshed"},
           ref'[r].acct \in {0, ref[r].acct, ref[r].new},
           ref'[r].from \in {0, ref[r].from}, ref'[r].new \in {0, ref[r].new},
           ref'[r].rev \in {0, ref[r].rev},
           lost' \in {lost, lost \cup {ref[r].from}},
           \/ db' = db
           \/ /\ db' = [db EXCEPT !.cred = ref[r].new, !.rev = ref[r].rev]
              /\ grok => db.cred = ref[r].from
    PROVE  /\ BaseInv' /\ LeaseInv' /\ SecretInv' /\ ErrorInv'
           /\ ~Cleaning(r) /\ \A s \in Refreshers \ {r} : ref'[s] = ref[s]
<1> USE DEF Inv
<1>t. /\ TypeOK /\ ref[r].result = "none" /\ ref[r].from # 0 /\ ref[r].new # 0
      /\ usable \subseteq Issued /\ 0 \notin Issued
  BY Numbers DEF BaseInv, CallerInv, Early, TypeOK
<1>h. /\ ref[r].acct \in Issued \cup {0} /\ ref[r].from \in Issued
      /\ ref[r].new \in Issued /\ ref[r].rev + edits <= MaxEdits
      /\ ref[r].rev \in 0 .. MaxEdits
      /\ edits \in Nat /\ edits <= MaxEdits /\ MaxEdits \in Nat
  BY <1>t, Having, Fields
<1>p. /\ ref[r].pc \in Inside /\ ref'[r].pc \in Inside
      /\ ~Refused(r)' /\ ~At(r, "answered")' /\ At(r, "answered")
      /\ ~Cleaning(r) /\ \A s \in Refreshers \ {r} : ref'[s] = ref[s]
  BY <1>t DEF Inside, Refused, At, OthersStay, Cleaning
<1>1. CallerInv(r)'
  <2>1. /\ {ref'[r].acct, ref'[r].from, ref'[r].new} \subseteq Issued' \cup {0}
        /\ ref'[r].rev + edits' <= MaxEdits
    BY <1>h DEF Issued
  <2> QED
    BY <2>1 DEF CallerInv, Early
<1>2. BaseInv'
  <2>1. MutexStep(r) /\ (ref'[r].locked => ref'[r].pc \in Inside)
    BY <1>p DEF MutexStep
  <2>2. /\ db' \in [cred : Issued', rev : 0 .. MaxEdits,
                    status : {"active", "error"}]
        /\ db'.rev + edits <= MaxEdits
    BY <1>t, <1>h DEF TypeOK, BaseInv, AdminInv, Issued
  <2>3. /\ tokens' \in Seq(Number) /\ Len(tokens') <= MaxCredentials
        /\ Issued \subseteq Issued' /\ due' \cup usable' \cup lost' \subseteq Issued'
        /\ lock' \in 0 .. LockTTL /\ cache' \in [cred : Number, fresh : BOOLEAN]
        /\ {missed', unlocked'} \subseteq BOOLEAN
    BY <1>t, <1>h DEF TypeOK, Issued
  <2> QED
    BY <1>1, <2>1, <2>2, <2>3, CallerBase
<1>3. LeaseInv'
  BY <1>p, KeepsLease
<1>4. \A s \in Refreshers : At(s, "answered")' => At(s, "answered") /\ s # r /\ ref'[s] = ref[s]
  BY <1>p DEF At
<1>5. SecretInv'
  <2>0. db'.cred \in {db.cred, ref[r].new}
    BY <1>t DEF TypeOK
  <2>1. \A c : c # 0 /\ c # ref[r].new /\ Known(c)' => Known(c)
    BY <1>t, <1>p, <2>0 DEF Known, Unsaved
  <2>2. ASSUME NEW s \in Refreshers, At(s, "answered")'
        PROVE  /\ ref'[s].new \in usable' /\ ~(Known(ref[s].new))'
               /\ admin'.cred # ref'[s].new
               /\ \A q \in Refreshers :
                     At(q, "answered")' /\ ref'[q].new = ref'[s].new => s = q
    <3>1. PICK c : c = ref[s].new
      OBVIOUS
    <3>2. c \in usable /\ ~Known(c) /\ admin.cred # c /\ c # ref[r].new /\ c # 0
      BY <1>t, <1>p, <1>4, <2>2, <3>1 DEF SecretInv
    <3>3. ~Known(c)'
      BY <2>1, <3>2
    <3>4. ~(Known(ref[s].new))'
      BY <1>4, <2>2, <3>1, <3>3 DEF Known, Unsaved
    <3> QED
      BY <1>4, <2>2, <3>1, <3>2, <3>4 DEF SecretInv
  <2>3. Unsaved' => admin'.cred \in usable' /\ ~(Known(admin.cred))'
    <3>1. Unsaved => admin.cred \in usable /\ ~Known(admin.cred)
      BY DEF SecretInv
    <3>2. admin.cred # ref[r].new
      BY <1>p DEF SecretInv
    <3>3. admin.cred # 0 /\ (Known(admin.cred))' => Known(admin.cred)
      BY <2>1, <3>2 DEF Known, Unsaved
    <3> QED
      BY <1>t, <3>1, <3>3 DEF Unsaved
  <2> QED
    BY <2>2, <2>3 DEF SecretInv
<1>6. \A c : Dead(c) => Dead(c)'
  BY <1>4 DEF Dead
<1>7. ErrorInv'
  <2>1. ASSUME Strict, NEW s \in Refreshers, Refused(s)'
        PROVE  (Dead(ref[s].from))'
    <3>1. s # r /\ ref'[s] = ref[s]
      BY <1>p, <2>1
    <3>2. PICK c : c = ref[s].from
      OBVIOUS
    <3>3. Dead(c)
      BY <2>1, <3>1, <3>2 DEF ErrorInv, Refused, At
    <3> QED
      BY <1>6, <3>1, <3>2, <3>3 DEF Dead
  <2>2. Strict' = Strict
    BY DEF Strict
  <2>3. ASSUME Strict, db'.status = "error", admin.pc # "clear"
        PROVE  Dead(db'.cred)
    <3>1. db' = db
      <4>1. db.status = "error"
        BY <1>t, <2>3 DEF TypeOK
      <4>2. Dead(db.cred)
        BY <2>3, <4>1 DEF ErrorInv
      <4>3. db.cred # ref[r].from
        BY <1>p, <4>2 DEF Dead
      <4> QED
        BY <2>3, <4>3 DEF Strict
    <3> QED
      BY <2>3, <3>1 DEF ErrorInv
  <2>4. Dead(db'.cred) => (Dead(db.cred))'
    <3>1. PICK c : c = db'.cred
      OBVIOUS
    <3> QED
      BY <1>6, <3>1 DEF Dead
  <2>5. Dead(admin.cred) => (Dead(admin.cred))'
    BY <1>6 DEF Dead
  <2>6. Strict => \A s \in Refreshers : ref'[s].pc \in Inside => ref'[s].locked
    BY <1>p DEF ErrorInv
  <2> QED
    BY <2>1, <2>2, <2>3, <2>4, <2>5, <2>6 DEF ErrorInv
<1> QED
  BY <1>p, <1>2, <1>3, <1>5, <1>7

\* The caller stores the successor, unless the row has changed or its time is
\* up; the successor is lost, or not needed.
LEMMA InvPersist ==
    ASSUME Inv, NEW r \in Refreshers, Persist(r)
    PROVE  Inv'
<1> USE DEF Inv
<1>t. /\ TypeOK /\ faults \in 0 .. MaxFaults /\ missed \in BOOLEAN
      /\ ref \in [Refreshers -> Refresher]
      /\ {ref[r].acct, ref[r].new} \subseteq Number
      /\ {"none", "failed", "refreshed", "current"} \subseteq Results
      /\ {"reload", "release"} \subseteq Steps
  BY Fields DEF BaseInv, TypeOK, Results, Steps, Inside
<1>u. /\ UNCHANGED <<grok, tokens, due, usable, lock, cache, local, admin,
                     edits, unlocked>>
      /\ ref[r].pc = "answered" /\ At(r, "answered")
  BY DEF Persist, provider, redis, others, At
<1>f. faults' \in 0 .. MaxFaults
  BY <1>t, FaultTyped DEF Persist
<1>n. ref[r].new \in usable
  BY <1>u DEF SecretInv
<1>r. ASSUME NEW result \in {"none", "failed", "refreshed"},
             NEW acct \in {ref[r].acct, ref[r].new}, Return(r, result, acct)
      PROVE  /\ ref' \in [Refreshers -> Refresher] /\ OthersStay(r)
             /\ ref'[r].left = ref[r].left /\ ref'[r].locked = ref[r].locked
             /\ ref'[r].pc = "release" /\ ref'[r].result = result
             /\ ref'[r].acct = IF IsRequest(r) THEN acct ELSE 0
             /\ ref'[r].from = 0 /\ ref'[r].new = 0 /\ ref'[r].rev = 0
  BY <1>t, <1>r, Returns
<1>l. ASSUME NEW result \in {"refreshed", "current"},
             ref' = [ref EXCEPT ![r].pc = "reload", ![r].result = result]
      PROVE  /\ ref' \in [Refreshers -> Refresher] /\ OthersStay(r)
             /\ ref'[r].left = ref[r].left /\ ref'[r].locked = ref[r].locked
             /\ ref'[r].pc = "reload" /\ ref'[r].result = result
             /\ ref'[r].acct = ref[r].acct /\ ref'[r].from = ref[r].from
             /\ ref'[r].new = ref[r].new /\ ref'[r].rev = ref[r].rev
  BY <1>t, <1>l DEF OthersStay, Refresher
<1>g. ASSUME BaseInv', LeaseInv', SecretInv', ErrorInv', ~Cleaning(r),
             \A s \in Refreshers \ {r} : ref'[s] = ref[s],
             \/ /\ db' = db /\ lost \subseteq lost' /\ missed' = missed
                /\ db.cred = ref[r].from => ref[r].from \in lost'
             \/ /\ db'.cred = ref[r].new
                /\ \/ missed'
                   \/ /\ Cleaning(r)'
                      /\ grok \/ ~IsRequest(r) \/ ref'[r].acct = ref[r].new
      PROVE  Inv'
  <2>1. SuccessorIsStored'
    BY <1>u, <1>n, <1>g DEF SuccessorIsStored, At
  <2>2. CacheInv'
    <3>1. CASE db' = db /\ missed' = missed
      <4>1. \A s \in Refreshers : Cleaning(s) => Cleaning(s)' /\ ref'[s] = ref[s]
        BY <1>u, <1>g DEF Cleaning, At
      <4> QED
        BY <1>u, <3>1, <4>1 DEF CacheInv, IsRequest
    <3>2. CASE missed'
      BY <3>2 DEF CacheInv
    <3>3. CASE /\ db'.cred = ref[r].new /\ Cleaning(r)'
               /\ grok \/ ~IsRequest(r) \/ ref'[r].acct = ref[r].new
      BY <1>u, <3>3 DEF CacheInv, IsRequest
    <3> QED
      BY <1>g, <3>1, <3>2, <3>3
  <2> QED
    BY <1>g, <2>1, <2>2
<1>1. ASSUME NEW result \in {"none", "failed"}, Return(r, result, ref[r].acct),
             lost' = lost \cup {ref[r].from}, UNCHANGED <<db, missed>>
      PROVE  Inv'
  <2>1. /\ BaseInv' /\ LeaseInv' /\ SecretInv' /\ ErrorInv'
        /\ ~Cleaning(r) /\ \A s \in Refreshers \ {r} : ref'[s] = ref[s]
    BY <1>t, <1>u, <1>f, <1>1, <1>r, Leaves
  <2> QED
    BY <1>1, <1>g, <2>1
<1>2. CASE Store(r) /\ UNCHANGED <<lost, missed>>
  <2>1. CASE grok
    <3>1. /\ db.cred = ref[r].from
          /\ db' = [db EXCEPT !.cred = ref[r].new, !.rev = ref[r].rev]
          /\ ref' = [ref EXCEPT ![r].pc = "reload", ![r].result = "refreshed"]
      BY <1>2, <2>1 DEF Store, Unchanged
    <3>2. /\ BaseInv' /\ LeaseInv' /\ SecretInv' /\ ErrorInv'
          /\ ~Cleaning(r) /\ \A s \in Refreshers \ {r} : ref'[s] = ref[s]
      BY <1>t, <1>u, <1>f, <1>2, <1>l, <3>1, Leaves
    <3>3. Cleaning(r)' /\ db'.cred = ref[r].new
      BY <1>t, <1>l, <3>1 DEF Cleaning, At, TypeOK
    <3> QED
      BY <1>g, <2>1, <3>2, <3>3
  <2>2. CASE ~grok
    <3>1. /\ db' = [db EXCEPT !.cred = ref[r].new, !.rev = ref[r].rev]
          /\ Return(r, "refreshed", ref[r].new)
      BY <1>2, <2>2 DEF Store
    <3>2. /\ BaseInv' /\ LeaseInv' /\ SecretInv' /\ ErrorInv'
          /\ ~Cleaning(r) /\ \A s \in Refreshers \ {r} : ref'[s] = ref[s]
      BY <1>t, <1>u, <1>f, <1>2, <1>r, <2>2, <3>1, Leaves
    <3>3. /\ Cleaning(r)' /\ db'.cred = ref[r].new
          /\ ~IsRequest(r) \/ ref'[r].acct = ref[r].new
      BY <1>t, <1>u, <1>r, <2>2, <3>1 DEF Cleaning, At, TypeOK
    <3> QED
      BY <1>g, <3>2, <3>3
  <2> QED
    BY <2>1, <2>2
<1>3. CASE /\ ~Unchanged(r)
           /\ ref' = [ref EXCEPT ![r].pc = "reload", ![r].result = "current"]
           /\ lost' = IF db.cred = ref[r].from /\ db.rev # ref[r].rev
                      THEN lost \cup {db.cred} ELSE lost
           /\ UNCHANGED <<db, missed>>
  <2>1. /\ lost' \in {lost, lost \cup {ref[r].from}} /\ lost \subseteq lost'
        /\ db.cred = ref[r].from => ref[r].from \in lost'
    BY <1>3 DEF Unchanged
  <2>2. /\ BaseInv' /\ LeaseInv' /\ SecretInv' /\ ErrorInv'
        /\ ~Cleaning(r) /\ \A s \in Refreshers \ {r} : ref'[s] = ref[s]
    BY <1>t, <1>u, <1>f, <1>3, <1>l, <2>1, Leaves
  <2> QED
    BY <1>3, <1>g, <2>1, <2>2
<1>4. CASE /\ Return(r, "failed", ref[r].acct) /\ (grok => Unchanged(r))
           /\ db' = [db EXCEPT !.cred = ref[r].new, !.rev = ref[r].rev]
           /\ missed' = TRUE /\ UNCHANGED lost
  <2>1. /\ BaseInv' /\ LeaseInv' /\ SecretInv' /\ ErrorInv'
        /\ ~Cleaning(r) /\ \A s \in Refreshers \ {r} : ref'[s] = ref[s]
    BY <1>t, <1>u, <1>f, <1>4, <1>r, Leaves DEF Unchanged
  <2>2. db'.cred = ref[r].new
    BY <1>t, <1>4 DEF TypeOK
  <2> QED
    BY <1>4, <1>g, <2>1, <2>2
<1> QED
  BY <1>1, <1>2, <1>3, <1>4 DEF Persist

\* What the cache is when a caller has cleaned it, or could not.
LEMMA Cleaned ==
    ASSUME Inv, NEW r \in Refreshers, OthersStay(r), UNCHANGED Fixed,
           \/ cache' = NoToken
           \/ cache' = [cred |-> ref[r].acct, fresh |-> ref[r].acct = db.cred]
           \/ missed'
           \/ cache' = cache /\ missed' = missed /\ ~Cleaning(r)
    PROVE  CacheInv'
<1>1. CASE cache' = NoToken
  BY <1>1 DEF CacheInv, NoToken
<1>2. CASE cache' = [cred |-> ref[r].acct, fresh |-> ref[r].acct = db.cred]
  BY <1>2 DEF CacheInv, Fixed
<1>3. CASE missed'
  BY <1>3 DEF CacheInv
<1>4. CASE cache' = cache /\ missed' = missed /\ ~Cleaning(r)
  <2>1. \A s \in Refreshers : Cleaning(s) => Cleaning(s)' /\ ref'[s] = ref[s]
    BY <1>4 DEF OthersStay, Cleaning, At, Fixed
  <2> QED
    BY <1>4, <2>1 DEF Inv, CacheInv, IsRequest, Fixed
<1> QED
  BY <1>1, <1>2, <1>3, <1>4

\* The account is read back, and after a success the cached token removed.
LEMMA InvReload ==
    ASSUME Inv, NEW r \in Refreshers, Reload(r)
    PROVE  Inv'
<1> USE DEF Inv
<1>t. TypeOK /\ faults \in 0 .. MaxFaults /\ {missed, TRUE} \subseteq BOOLEAN
  BY DEF BaseInv, TypeOK
<1>u. UNCHANGED Fixed /\ ref[r].pc = "reload"
  BY DEF Reload, provider, others, At, Fixed
<1>f. faults' \in 0 .. MaxFaults
  BY <1>t, FaultTyped DEF Reload
<1>n. ref[r].result \in {"refreshed", "current"}
  BY <1>u DEF BaseInv, CallerInv
<1>1. cache' \in [cred : Number, fresh : BOOLEAN] /\ missed' \in BOOLEAN
  <2>1. cache' \in {NoToken, cache}
    BY DEF Reload
  <2>2. missed' \in {missed, TRUE}
    BY DEF Reload
  <2>3. {NoToken, cache} \subseteq [cred : Number, fresh : BOOLEAN]
    BY <1>t, Numbers DEF TypeOK, NoToken
  <2> QED
    BY <1>t, <2>1, <2>2, <2>3
<1>2. \/ cache' = NoToken
      \/ missed'
      \/ cache' = cache /\ missed' = missed /\ ~Cleaning(r)
  BY <1>u, <1>n DEF Reload, Cleaning, At
<1>3. PICK result \in {"none", "refreshed", "current"},
           acct \in {db.cred, ref[r].acct} : Return(r, result, acct)
  BY <1>n DEF Reload
<1>4. /\ ref' \in [Refreshers -> Refresher] /\ OthersStay(r)
      /\ ref'[r].pc = "release" /\ ref'[r].result = result
      /\ ref'[r].acct \in {acct, 0}
      /\ ref'[r].from = 0 /\ ref'[r].rev = 0
      /\ ref'[r].new = 0 /\ ref'[r].left = ref[r].left
      /\ ref'[r].locked = ref[r].locked
  <2>1. result \in Results /\ acct \in Number
    BY <1>t, Having, Fields DEF Results
  <2> QED
    BY <1>t, <1>3, <2>1, Returns
<1>5. CallerInv(r)'
  BY <1>u, <1>3, <1>4, Having DEF CallerInv, Fixed, Early, Issued
<1>6. {"release", "reload"} \subseteq Inside
  BY DEF Inside
<1>7. BaseInv'
  BY <1>u, <1>f, <1>1, <1>4, <1>5, <1>6, SettlesBase
<1>8. Settles(r)
  BY <1>u, <1>4, <1>6 DEF Settles, Counting, Limited, At, Refused, Fixed
<1> QED
  BY <1>u, <1>2, <1>4, <1>7, <1>8, Cleaned, InvSettles

\* A caller writes or removes the cached token, or fails to, and is done.
LEMMA InvSet ==
    ASSUME Inv, NEW r \in Refreshers, Set(r) \/ Sync(r)
    PROVE  Inv'
<1> USE DEF Inv
<1>t. TypeOK /\ faults \in 0 .. MaxFaults /\ {missed, TRUE} \subseteq BOOLEAN
  BY DEF BaseInv, TypeOK
<1>u. UNCHANGED Fixed /\ ref[r].pc \in {"set", "sync"} /\ Done(r)
  BY DEF Set, Sync, provider, others, At, Fixed
<1>f. faults' \in 0 .. MaxFaults
  BY <1>t, FaultTyped DEF Set, Sync
<1>1. cache' \in [cred : Number, fresh : BOOLEAN] /\ missed' \in BOOLEAN
  <2>1. cache' \in {NoToken, cache, [cred |-> ref[r].acct,
                                      fresh |-> ref[r].acct = db.cred]}
    BY DEF Set, Sync
  <2>2. missed' \in {missed, TRUE, missed \/ Cleaning(r)}
    BY DEF Set, Sync
  <2>3. Cleaning(r) \in BOOLEAN
    BY DEF Cleaning, At
  <2>4. ref[r].acct \in Number /\ 0 \in Number
    BY <1>t, Fields, Numbers
  <2>5. {NoToken, cache, [cred |-> ref[r].acct, fresh |-> ref[r].acct = db.cred]}
            \subseteq [cred : Number, fresh : BOOLEAN]
    BY <1>t, <2>4 DEF TypeOK, NoToken
  <2>6. (missed \/ Cleaning(r)) \in BOOLEAN
    BY <1>t, <2>3
  <2> QED
    BY <1>t, <2>1, <2>2, <2>5, <2>6
<1>2. \/ cache' = NoToken
      \/ cache' = [cred |-> ref[r].acct, fresh |-> ref[r].acct = db.cred]
      \/ missed'
      \/ cache' = cache /\ missed' = missed /\ ~Cleaning(r)
  <2>1. CASE Set(r)
    BY <1>t, <2>1 DEF Set
  <2>2. CASE Sync(r)
    BY <2>2 DEF Sync
  <2> QED
    BY <2>1, <2>2
<1>3. /\ ref' \in [Refreshers -> Refresher] /\ OthersStay(r) /\ ref'[r] = Idle
      /\ ref[r].pc \notin Inside /\ ~ref[r].locked
  BY <1>t, <1>u, Changed DEF TypeOK, Steps, Inside
<1>4. /\ Idle.pc = "idle" /\ Idle.acct = 0 /\ Idle.from = 0 /\ Idle.new = 0
      /\ Idle.rev = 0 /\ Idle.result = "none" /\ ~Idle.locked
      /\ Idle.locked \in BOOLEAN /\ ref[r].locked \in BOOLEAN
  BY <1>t, Fields DEF Idle
<1>5. CallerInv(r)'
  BY <1>u, <1>3, <1>4, Having, RefreshAssumption DEF CallerInv, Fixed, Early
<1>6. BaseInv'
  BY <1>u, <1>f, <1>1, <1>3, <1>4, <1>5, SettlesBase DEF Inside
<1>7. Settles(r)
  BY <1>u, <1>3, <1>4
  DEF Settles, Fixed, Counting, Limited, Inside, At, Refused
<1> QED
  BY <1>u, <1>2, <1>3, <1>6, <1>7, Cleaned, InvSettles

\* A caller gives back the locks: the Redis lock it deletes is its own.
LEMMA InvRelease ==
    ASSUME Inv, NEW r \in Refreshers, Release(r)
    PROVE  Inv'
<1> USE DEF Inv
<1>t. /\ TypeOK /\ faults \in 0 .. MaxFaults /\ lock \in 0 .. LockTTL
      /\ LockTTL \in Nat /\ FALSE \in BOOLEAN
      /\ ref \in [Refreshers -> Refresher]
  BY Fields, RefreshAssumption DEF BaseInv, TypeOK
<1>u. /\ UNCHANGED <<grok, db, tokens, due, usable, cache, admin, edits, lost,
                     missed, unlocked>>
      /\ ref[r].pc = "release" /\ ref[r].pc \in Inside
      /\ local' = [local EXCEPT ![r[1]] = None]
  BY DEF Release, provider, others, history, At, Inside
<1>f. faults' \in 0 .. MaxFaults
  BY <1>t, FaultTyped DEF Release
<1>a. After(r) \in {"idle", "quarantine", "sync", "check"}
  BY DEF After
<1>q. /\ After(r) = "quarantine" => ref[r].result = "refused"
      /\ After(r) = "check" => IsRequest(r)
      /\ After(r) = "idle" => ref[r].result # "refreshed"
  <2>1. ref[r].result = "none" => After(r) = "idle"
    BY DEF After
  <2>2. After(r) = "quarantine" => ref[r].result = "refused"
    BY <2>1 DEF After
  <2>3. After(r) = "check" => IsRequest(r)
    BY DEF After
  <2>4. ref[r].result = "refreshed" => After(r) \in {"sync", "check"}
    BY DEF After
  <2> QED
    BY <2>2, <2>3, <2>4
<1>i. /\ Idle.pc = "idle" /\ Idle.acct = 0 /\ Idle.from = 0 /\ Idle.new = 0
      /\ Idle.rev = 0 /\ Idle.result = "none" /\ ~Idle.locked
  BY DEF Idle
<1>r. /\ ref' \in [Refreshers -> Refresher] /\ OthersStay(r)
      /\ ref'[r].pc = After(r) /\ ~ref'[r].locked
      /\ \/ /\ After(r) = "idle" /\ ref'[r].from = 0 /\ ref'[r].new = 0
            /\ ref'[r].acct = 0 /\ ref'[r].rev = 0 /\ ref'[r].result = "none"
         \/ /\ After(r) # "idle" /\ ref'[r].from = ref[r].from
            /\ ref'[r].new = ref[r].new /\ ref'[r].acct = ref[r].acct
            /\ ref'[r].rev = ref[r].rev /\ ref'[r].result = ref[r].result
  <2>1. CASE After(r) = "idle"
    <3>1. Done(r) /\ "idle" \in Steps
      BY <2>1 DEF Release, Steps
    <3> QED
      BY <1>t, <1>i, <2>1, <3>1, Changed
  <2>2. CASE After(r) # "idle"
    <3>1. ref' = [ref EXCEPT ![r].pc = After(r), ![r].locked = FALSE,
                             ![r].left = 0]
      BY <2>2 DEF Release
    <3>2. After(r) \in Steps /\ 0 \in 0 .. LockTTL
      BY <1>a, <1>t DEF Steps
    <3> HIDE DEF After
    <3> QED
      BY <1>t, <2>2, <3>1, <3>2 DEF OthersStay, Refresher
  <2> QED
    BY <2>1, <2>2
<1>p. /\ ref'[r].pc \notin Inside /\ ref'[r].pc # "lock"
      /\ \A s \in Refreshers \ {r} : ref'[s] = ref[s]
      /\ ~At(r, "answered") /\ ~At(r, "answered")'
      /\ ref'[r].from \in {0, ref[r].from}
      /\ Refused(r)' => Refused(r) /\ ref'[r].from = ref[r].from
  BY <1>u, <1>a, <1>q, <1>r DEF Inside, OthersStay, At, Refused
<1>1. CallerInv(r)'
  BY <1>u, <1>a, <1>q, <1>r, Having DEF CallerInv, Early, IsRequest, Issued
<1>l. \/ lock' = lock
      \/ lock' = 0 /\ ref[r].locked
  BY DEF Release, DeleteLock
<1>2. BaseInv'
  <2>1. MutexStep(r) /\ (ref'[r].locked => ref'[r].pc \in Inside)
    BY <1>u, <1>r, <1>p DEF MutexStep
  <2>2. /\ db' \in [cred : Issued', rev : 0 .. MaxEdits,
                    status : {"active", "error"}]
        /\ db'.rev + edits <= MaxEdits
        /\ tokens' \in Seq(Number) /\ Len(tokens') <= MaxCredentials
        /\ Issued \subseteq Issued' /\ due' \cup usable' \cup lost' \subseteq Issued'
        /\ lock' \in 0 .. LockTTL /\ cache' \in [cred : Number, fresh : BOOLEAN]
        /\ {missed', unlocked'} \subseteq BOOLEAN
    BY <1>t, <1>u, <1>l DEF TypeOK, Issued, BaseInv, AdminInv
  <2> QED
    BY <1>u, <1>f, <1>r, <1>1, <2>1, <2>2, CallerBase
<1>3. LeaseInv'
  <2>1. ASSUME NEW s \in Refreshers, Counting(s)'
        PROVE  ref'[s].left + LockMargin <= LockTTL
    BY <1>u, <1>p, <2>1 DEF LeaseInv, Counting, Limited, IsRequest
  <2>2. ASSUME grok, NEW s \in Refreshers, ref'[s].locked
        PROVE  s # r /\ ref[s].locked /\ ref'[s].left < lock'
    <3>1. s # r /\ ref'[s] = ref[s]
      BY <1>r, <1>p, <2>2
    <3>2. ~ref[r].locked
      BY <2>2, <3>1 DEF LeaseInv, RefreshesAreExclusive
    <3> QED
      BY <1>l, <2>2, <3>1, <3>2 DEF LeaseInv
  <2>3. RefreshesAreExclusive'
    BY <1>u, <2>2 DEF LeaseInv, RefreshesAreExclusive
  <2> QED
    BY <1>u, <2>1, <2>2, <2>3 DEF LeaseInv
<1>4. /\ \A s \in Refreshers : At(s, "answered")' = At(s, "answered")
      /\ \A s \in Refreshers : At(s, "answered") => ref'[s] = ref[s]
  BY <1>p DEF At
<1>5. SecretInv'
  <2>1. \A c : c # 0 /\ Known(c)' => Known(c)
    BY <1>u, <1>p DEF Known, Unsaved
  <2>2. 0 \notin usable
    BY <1>t, Numbers DEF TypeOK
  <2> QED
    BY <1>u, <1>4, <2>1, <2>2 DEF SecretInv, Unsaved
<1>6. SuccessorIsStored'
  BY <1>u, <1>4 DEF SuccessorIsStored
<1>7. ErrorInv'
  <2>1. \A c : Dead(c)' = Dead(c)
    BY <1>u, <1>4 DEF Dead
  <2>2. ASSUME Strict, NEW s \in Refreshers, Refused(s)'
        PROVE  (Dead(ref[s].from))' /\ ref'[s].from = ref[s].from
    <3>1. Refused(s) /\ ref'[s].from = ref[s].from
      BY <1>p, <2>2 DEF Refused, At
    <3>2. Dead(ref[s].from)
      BY <2>2, <3>1 DEF ErrorInv
    <3> QED
      BY <1>u, <1>4, <3>1, <3>2 DEF Dead
  <2>3. Strict' = Strict
    BY <1>u DEF Strict
  <2>4. Strict => \A s \in Refreshers : ref'[s].pc \in Inside => ref'[s].locked
    BY <1>p DEF ErrorInv
  <2> QED
    BY <1>u, <2>1, <2>2, <2>3, <2>4 DEF ErrorInv
<1>8. CacheInv'
  <2>1. \A s \in Refreshers : Cleaning(s) =>
            Cleaning(s)' /\ ref'[s].acct = ref[s].acct
    BY <1>u, <1>a, <1>q, <1>r, <1>p DEF Cleaning, At
  <2> QED
    BY <1>u, <2>1 DEF CacheInv, IsRequest
<1> QED
  BY <1>2, <1>3, <1>5, <1>6, <1>7, <1>8

\* The account is put into error: a Grok account only while its row has the
\* credentials that were refused.
LEMMA InvQuarantine ==
    ASSUME Inv, NEW r \in Refreshers, Quarantine(r)
    PROVE  Inv'
<1> USE DEF Inv
<1>t. TypeOK /\ faults \in 0 .. MaxFaults
  BY DEF BaseInv, TypeOK
<1>u. /\ UNCHANGED <<grok, tokens, due, usable, lock, local, cache, admin,
                     edits, lost, missed, unlocked>>
      /\ ref[r].pc = "quarantine" /\ ref[r].pc \notin Inside
      /\ ~ref[r].locked
  BY DEF Quarantine, provider, redis, others, history, At, Inside, BaseInv, TypeOK
<1>f. faults' \in 0 .. MaxFaults
  BY <1>t, FaultTyped DEF Quarantine
<1>n. ref[r].result = "refused" /\ Refused(r) /\ ~Cleaning(r)
  BY <1>u DEF BaseInv, CallerInv, Refused, Cleaning, At
<1>d. \/ db' = db
      \/ db' = [db EXCEPT !.status = "error"] /\ (grok => db.cred = ref[r].from)
  BY DEF Quarantine, Match, Unchanged
<1>c. /\ db'.cred = db.cred /\ db'.rev = db.rev /\ db' \in [cred : Issued,
             rev : 0 .. MaxEdits, status : {"active", "error"}]
      /\ db' = db \/ (grok => db.cred = ref[r].from)
  BY <1>t, <1>d DEF TypeOK
<1>r. /\ ref' \in [Refreshers -> Refresher] /\ OthersStay(r)
      /\ ref'[r].pc \in {"idle", "sync"} /\ ~ref'[r].locked
      /\ ref'[r].acct \in {0, ref[r].acct} /\ ref'[r].from \in {0, ref[r].from}
      /\ ref'[r].new \in {0, ref[r].new} /\ ref'[r].rev \in {0, ref[r].rev}
      /\ ref'[r].pc = "idle" => ref'[r].result = "none"
  <2>1. CASE Done(r)
    <3>1. "idle" \in Steps
      BY DEF Steps
    <3>2. ref' \in [Refreshers -> Refresher] /\ OthersStay(r) /\ ref'[r] = Idle
      BY <1>t, <2>1, <3>1, Changed
    <3> QED
      BY <3>2 DEF Idle
  <2>2. CASE Goto(r, "sync")
    <3>1. "sync" \in Steps
      BY DEF Steps
    <3> QED
      BY <1>t, <1>u, <2>2, <3>1, Changed
  <2> QED
    BY <2>1, <2>2 DEF Quarantine
<1>p. /\ ref'[r].pc \notin Inside \cup {"lock"}
      /\ \A s \in Refreshers \ {r} : ref'[s] = ref[s]
      /\ ~At(r, "answered") /\ ~At(r, "answered")' /\ ~Refused(r)'
  BY <1>u, <1>r DEF Inside, OthersStay, At, Refused
<1>1. CallerInv(r)'
  BY <1>u, <1>r, Having DEF CallerInv, Early, IsRequest, Issued
<1>2. BaseInv'
  <2>1. MutexStep(r) /\ (ref'[r].locked => ref'[r].pc \in Inside)
    BY <1>u, <1>r, <1>p DEF MutexStep
  <2>2. /\ db' \in [cred : Issued', rev : 0 .. MaxEdits,
                    status : {"active", "error"}]
        /\ db'.rev + edits <= MaxEdits
        /\ tokens' \in Seq(Number) /\ Len(tokens') <= MaxCredentials
        /\ Issued \subseteq Issued' /\ due' \cup usable' \cup lost' \subseteq Issued'
        /\ lock' \in 0 .. LockTTL /\ cache' \in [cred : Number, fresh : BOOLEAN]
        /\ {missed', unlocked'} \subseteq BOOLEAN
    BY <1>t, <1>u, <1>c DEF TypeOK, Issued, BaseInv, AdminInv
  <2> QED
    BY <1>u, <1>f, <1>r, <1>1, <2>1, <2>2, CallerBase
<1>3. LeaseInv'
  BY <1>u, <1>r, <1>p
  DEF LeaseInv, Counting, Limited, IsRequest, RefreshesAreExclusive
<1>4. /\ \A s \in Refreshers : At(s, "answered")' = At(s, "answered")
      /\ \A s \in Refreshers : At(s, "answered") => ref'[s] = ref[s]
  BY <1>p DEF At
<1>5. SecretInv'
  <2>1. \A c : c # 0 /\ Known(c)' => Known(c)
    BY <1>u, <1>c, <1>r, <1>p DEF Known, Unsaved
  <2>2. 0 \notin usable
    BY <1>t, Numbers DEF TypeOK
  <2> QED
    BY <1>u, <1>4, <2>1, <2>2 DEF SecretInv, Unsaved
<1>6. SuccessorIsStored'
  BY <1>u, <1>c, <1>4 DEF SuccessorIsStored
<1>7. ErrorInv'
  <2>1. \A c : Dead(c)' = Dead(c)
    BY <1>u, <1>4 DEF Dead
  <2>2. ASSUME Strict, NEW s \in Refreshers, Refused(s)'
        PROVE  (Dead(ref[s].from))' /\ ref'[s].from = ref[s].from
    <3>1. Refused(s) /\ ref'[s] = ref[s]
      BY <1>p, <2>2 DEF Refused, At
    <3>2. Dead(ref[s].from)
      BY <2>2, <3>1 DEF ErrorInv
    <3> QED
      BY <1>u, <1>4, <3>1, <3>2 DEF Dead
  <2>3. Strict' = Strict
    BY <1>u DEF Strict
  <2>4. Strict => \A s \in Refreshers : ref'[s].pc \in Inside => ref'[s].locked
    BY <1>p DEF ErrorInv
  <2>5. Strict /\ db' # db => Dead(db.cred)
    <3>1. Strict => Dead(ref[r].from)
      BY <1>n DEF ErrorInv
    <3> QED
      BY <1>c, <3>1 DEF Strict
  <2>6. Dead(db.cred) => (Dead(db.cred))'
    BY <1>u, <1>c, <1>4 DEF Dead
  <2>7. Dead(admin.cred) => (Dead(admin.cred))'
    BY <1>u, <1>4 DEF Dead
  <2>8. Strict /\ db'.status = "error" => admin.pc = "clear" \/ (Dead(db.cred))'
    BY <2>5, <2>6 DEF ErrorInv
  <2> QED
    BY <1>u, <2>2, <2>3, <2>4, <2>7, <2>8 DEF ErrorInv
<1>8. CacheInv'
  <2>1. \A s \in Refreshers : Cleaning(s) => Cleaning(s)' /\ ref'[s] = ref[s]
    BY <1>u, <1>n, <1>p DEF Cleaning, At
  <2> QED
    BY <1>u, <1>c, <2>1 DEF CacheInv, IsRequest
<1> QED
  BY <1>2, <1>3, <1>5, <1>6, <1>7, <1>8

\* A process dies: the successors its callers had are lost, and the cache they
\* were to clean stays as it is.
LEMMA InvCrash ==
    ASSUME Inv, NEW p \in Processes, Crash(p)
    PROVE  Inv'
<1> USE DEF Inv
<1>t. /\ TypeOK /\ faults \in 0 .. MaxFaults
      /\ local \in [Processes -> Refreshers \cup {None}]
      /\ ref \in [Refreshers -> Refresher] /\ None \notin Refreshers
      /\ \A s \in Refreshers : s[1] \in Processes
  BY Fields, RefreshAssumption DEF BaseInv, TypeOK
<1>u. UNCHANGED <<db, tokens, due, usable, lock, cache, grok, admin, edits,
                  unlocked>>
  BY DEF Crash, provider, redis, others
<1>f. faults' \in 0 .. MaxFaults
  BY <1>t, FaultTyped DEF Crash
<1>i. /\ Idle.pc = "idle" /\ Idle.acct = 0 /\ Idle.from = 0 /\ Idle.new = 0
      /\ Idle.rev = 0 /\ Idle.result = "none" /\ ~Idle.locked
      /\ "idle" \notin Inside /\ Idle \in Refresher
  BY RefreshAssumption DEF Idle, Inside, Refresher, Steps, Results, Number
<1>r. \A s \in Refreshers : ref'[s] = IF s[1] = p THEN Idle ELSE ref[s]
  BY <1>t DEF Crash
<1>a. \A s \in Refreshers : At(s, "answered")' =>
          At(s, "answered") /\ s[1] # p /\ ref'[s] = ref[s]
  BY <1>i, <1>r DEF At
<1>l. /\ lost \subseteq lost'
      /\ \A s \in Refreshers : s[1] = p /\ At(s, "answered") =>
            ref[s].from \in lost'
      /\ \A c \in lost' : c \in lost \/ \E s \in Refreshers :
            At(s, "answered") /\ c = ref[s].from
  BY DEF Crash
<1>m. /\ missed => missed'
      /\ \A s \in Refreshers : s[1] = p /\ Cleaning(s) => missed'
      /\ missed' \in BOOLEAN
  BY <1>t DEF Crash, TypeOK
<1>1. BaseInv'
  <2>1. TypeOK'
    <3>1. ref' \in [Refreshers -> Refresher]
      BY <1>t, <1>i DEF Crash
    <3>2. local' = [local EXCEPT ![p] = None]
          /\ local' \in [Processes -> Refreshers \cup {None}]
      BY <1>t DEF Crash
    <3>3. ASSUME NEW s \in Refreshers
          PROVE  /\ (ref'[s].pc \in Inside) = (local'[s[1]] = s)
                 /\ ref'[s].locked => ref'[s].pc \in Inside
      BY <1>t, <1>i, <1>r, <3>2 DEF TypeOK
    <3>4. lost' \subseteq Issued
      <4>1. \A s \in Refreshers : At(s, "answered") => ref[s].from \in Issued
        BY Having DEF BaseInv, CallerInv, At
      <4> QED
        BY <1>t, <1>l, <4>1 DEF TypeOK
    <3>5. /\ grok' \in BOOLEAN
          /\ db' \in [cred : Issued', rev : 0 .. MaxEdits,
                      status : {"active", "error"}]
          /\ tokens' \in Seq(Number) /\ Len(tokens') <= MaxCredentials
          /\ due' \cup usable' \cup lost' \subseteq Issued'
          /\ lock' \in 0 .. LockTTL
          /\ cache' \in [cred : Number, fresh : BOOLEAN]
          /\ admin' \in Admin /\ edits' \in 0 .. MaxEdits
          /\ {missed', unlocked'} \subseteq BOOLEAN
      BY <1>t, <1>u, <1>m, <3>4 DEF TypeOK, Issued
    <3> QED
      BY <1>f, <3>1, <3>2, <3>3, <3>5 DEF TypeOK
  <2>2. AdminInv'
    BY <1>u DEF BaseInv, AdminInv, Issued
  <2>3. ASSUME NEW s \in Refreshers
        PROVE  CallerInv(s)'
    <3>1. CASE s[1] = p
      BY <1>i, <1>r, <1>u, <3>1, Having DEF CallerInv, Early
    <3>2. CASE s[1] # p
      BY <1>r, <1>u, <3>2 DEF BaseInv, CallerInv, IsRequest, Issued
    <3> QED
      BY <3>1, <3>2
  <2> QED
    BY <2>1, <2>2, <2>3 DEF BaseInv
<1>2. LeaseInv'
  BY <1>i, <1>r, <1>u
  DEF LeaseInv, Counting, Limited, IsRequest, RefreshesAreExclusive
<1>3. SecretInv'
  <2>1. \A c : c # 0 /\ Known(c)' => Known(c)
    BY <1>i, <1>r, <1>u DEF Known, Unsaved
  <2>2. 0 \notin usable
    BY <1>t, Numbers DEF TypeOK
  <2> QED
    BY <1>u, <1>a, <2>1, <2>2 DEF SecretInv, Unsaved
<1>4. SuccessorIsStored'
  <2>1. ASSUME NEW s \in Refreshers, At(s, "answered"), ref[s].from = db.cred,
               s[1] # p
        PROVE  At(s, "answered")' /\ ref'[s].from = db'.cred
    BY <1>r, <1>u, <2>1 DEF At
  <2> QED
    BY <1>u, <1>l, <2>1 DEF SuccessorIsStored
<1>5. ErrorInv'
  <2>1. \A c : Dead(c) => Dead(c)'
    BY <1>u, <1>a DEF Dead
  <2>2. ASSUME Strict, NEW s \in Refreshers, Refused(s)'
        PROVE  (Dead(ref[s].from))' /\ ref'[s].from = ref[s].from
    <3>1. Refused(s) /\ ref'[s] = ref[s]
      BY <1>i, <1>r, <2>2 DEF Refused, At
    <3>2. PICK c : c = ref[s].from
      OBVIOUS
    <3>3. Dead(c)'
      BY <2>1, <2>2, <3>1, <3>2 DEF ErrorInv
    <3> QED
      BY <3>1, <3>2, <3>3 DEF Dead
  <2>3. Strict' = Strict
    BY <1>u DEF Strict
  <2>4. Strict => \A s \in Refreshers : ref'[s].pc \in Inside => ref'[s].locked
    BY <1>i, <1>r DEF ErrorInv
  <2>5. Dead(db.cred) => (Dead(db.cred))'
    BY <1>u, <1>a DEF Dead
  <2>6. Dead(admin.cred) => (Dead(admin.cred))'
    BY <1>u, <1>a DEF Dead
  <2> QED
    BY <1>u, <2>2, <2>3, <2>4, <2>5, <2>6 DEF ErrorInv
<1>6. CacheInv'
  <2>1. \A s \in Refreshers : Cleaning(s) =>
            \/ missed'
            \/ Cleaning(s)' /\ ref'[s] = ref[s]
    BY <1>r, <1>u, <1>m DEF Cleaning, At
  <2> QED
    BY <1>u, <1>m, <2>1 DEF CacheInv, IsRequest
<1> QED
  BY <1>1, <1>2, <1>3, <1>4, <1>5, <1>6

-----------------------------------------------------------------------------
(***************************************************************************)
(* Steps of the administrator, and of nobody.                              *)
(***************************************************************************)

\* A step of the administrator keeps the types.
LEMMA AdminBase ==
    ASSUME BaseInv, adminIdle, AdminInv', admin' \in Admin,
           db' \in [cred : Issued', rev : 0 .. MaxEdits,
                    status : {"active", "error"}],
           edits' \in 0 .. MaxEdits, edits' <= edits,
           tokens' \in Seq(Number), Len(tokens') <= MaxCredentials,
           Issued \subseteq Issued', due' \cup usable' \cup lost' \subseteq Issued',
           cache' \in [cred : Number, fresh : BOOLEAN],
           {missed', unlocked'} \subseteq BOOLEAN
    PROVE  BaseInv'
<1>1. TypeOK'
  BY DEF BaseInv, TypeOK, adminIdle
<1>2. ASSUME NEW r \in Refreshers
      PROVE  CallerInv(r)'
  <2>1. CallerInv(r) /\ ref' = ref /\ ref[r].rev \in Nat /\ edits' \in Nat
        /\ edits \in Nat /\ MaxEdits \in Nat
    BY Fields, RefreshAssumption DEF BaseInv, adminIdle, TypeOK
  <2>2. ref[r].rev + edits' <= MaxEdits
    BY <2>1 DEF CallerInv
  <2> QED
    BY <2>1, <2>2 DEF CallerInv
<1> QED
  BY <1>1, <1>2 DEF BaseInv

\* What is left to show about a step of the administrator that does not call
\* the provider.
LEMMA AdminStep ==
    ASSUME Inv, adminIdle, UNCHANGED provider, BaseInv',
           db'.cred \in {db.cred, admin.cred},
           admin'.cred \in {0, db.cred, admin.cred},
           Unsaved' => Unsaved /\ admin'.cred = admin.cred /\ db'.cred = db.cred,
           SuccessorIsStored', CacheInv',
           Strict' =>
              /\ Strict
              /\ db'.status = "error" => admin'.pc = "clear" \/ Dead(db'.cred)
              /\ admin'.op = "edit" /\ admin'.status = "error" =>
                    Dead(admin'.cred)
              /\ admin'.op = "manual" => admin'.pc = "call"
    PROVE  Inv'
<1> USE DEF Inv
<1>u. ref' = ref /\ grok' = grok /\ lock' = lock /\ usable' = usable
  BY DEF adminIdle, provider
<1>0. 0 \notin usable
  BY Numbers DEF BaseInv, TypeOK
<1>1. LeaseInv'
  BY <1>u DEF LeaseInv, Counting, Limited, IsRequest, RefreshesAreExclusive
<1>2. SecretInv'
  <2>1. \A c : c # 0 /\ c # admin.cred /\ Known(c)' => Known(c)
    BY <1>u DEF Known, Unsaved
  <2>2. ASSUME NEW s \in Refreshers, At(s, "answered")'
        PROVE  /\ ref'[s].new \in usable' /\ ~(Known(ref[s].new))'
               /\ admin'.cred # ref'[s].new
               /\ \A q \in Refreshers :
                     At(q, "answered")' /\ ref'[q].new = ref'[s].new => s = q
    <3>1. At(s, "answered")
      BY <1>u, <2>2 DEF At
    <3>2. PICK c : c = ref[s].new
      OBVIOUS
    <3>3. c \in usable /\ ~Known(c) /\ c # admin.cred /\ c # 0 /\ c # db.cred
      BY <1>0, <3>1, <3>2 DEF SecretInv, Known
    <3>4. ~Known(c)'
      BY <2>1, <3>3
    <3>5. ~(Known(ref[s].new))'
      BY <1>u, <3>2, <3>4 DEF Known, Unsaved
    <3> QED
      BY <1>u, <3>1, <3>2, <3>3, <3>5 DEF SecretInv, At
  <2>3. ASSUME Unsaved'
        PROVE  admin'.cred \in usable' /\ ~(Known(admin.cred))'
    BY <1>u, <2>3 DEF SecretInv, Known, Unsaved
  <2> QED
    BY <1>u, <2>2, <2>3 DEF SecretInv, Known, Unsaved
<1>3. ErrorInv'
  <2>1. /\ (Dead(db.cred))' = Dead(db'.cred)
        /\ (Dead(admin.cred))' = Dead(admin'.cred)
    BY <1>u DEF Dead, At
  <2>2. \A s \in Refreshers : /\ Refused(s)' = Refused(s)
                              /\ (Dead(ref[s].from))' = Dead(ref[s].from)
    BY <1>u DEF Refused, Dead, At
  <2> QED
    BY <1>u, <2>1, <2>2 DEF ErrorInv
<1> QED
  BY <1>1, <1>2, <1>3

\* The provider issues credentials to the administrator, who has them to save:
\* by a refresh without the lock, or by a new authorisation.
LEMMA AdminIssues ==
    ASSUME Inv, adminIdle, NEW v \in Number, NEW from \in usable \cup {0},
           Issue(from, v), UNCHANGED <<db, cache, lost, missed>>,
           unlocked' \in BOOLEAN, edits' \in 0 .. MaxEdits, edits' <= edits,
           admin' \in Admin, admin'.pc = "read", admin'.cred = Next_number,
           admin'.rev + edits' <= MaxEdits,
           \/ admin'.op = "manual" /\ Known(from) /\ unlocked'
           \/ /\ admin'.op = "apply" /\ from = 0 /\ unlocked' = unlocked
              /\ admin.pc = "idle",
           admin.pc \in {"idle", "call"}
    PROVE  Inv'
<1> USE DEF Inv
<1>t. /\ TypeOK /\ usable \subseteq Issued /\ 0 \notin Issued
      /\ db.cred \in Issued
      /\ \A s \in Refreshers : /\ ref[s].from \in Issued \cup {0}
                               /\ ref[s].new \in Issued \cup {0}
  BY Having, Numbers DEF BaseInv, TypeOK
<1>u. ref' = ref /\ grok' = grok /\ lock' = lock
  BY DEF adminIdle
<1> PICK n : n = Next_number
  OBVIOUS
<1>i. /\ tokens' \in Seq(Number) /\ Len(tokens') <= MaxCredentials
      /\ Issued' = Issued \cup {n}
      /\ n \notin Issued /\ n \in Number \ {0}
      /\ usable' = (usable \ {from}) \cup {n} /\ due' = due
  BY <1>t, Issues
<1>1. BaseInv'
  <2>1. AdminInv'
    <3>1. db.rev + edits' <= MaxEdits
      <4>1. /\ db.rev \in Nat /\ edits \in Nat /\ MaxEdits \in Nat
            /\ edits' \in Nat /\ edits' <= edits /\ db.rev + edits <= MaxEdits
        BY <1>t, RefreshAssumption DEF TypeOK, BaseInv, AdminInv
      <4> QED
        BY <4>1
    <3> QED
      BY <1>i, <3>1 DEF AdminInv
  <2>2. /\ db' \in [cred : Issued', rev : 0 .. MaxEdits,
                    status : {"active", "error"}]
        /\ Issued \subseteq Issued' /\ due' \cup usable' \cup lost' \subseteq Issued'
        /\ cache' \in [cred : Number, fresh : BOOLEAN]
        /\ {missed', unlocked'} \subseteq BOOLEAN
    BY <1>t, <1>i DEF TypeOK
  <2> QED
    BY <1>i, <2>1, <2>2, AdminBase
<1>2. LeaseInv'
  BY <1>u DEF LeaseInv, Counting, Limited, IsRequest, RefreshesAreExclusive
<1>a. Unsaved' /\ admin'.cred = n /\ \A s \in Refreshers : At(s, "answered")' = At(s, "answered")
  BY <1>u DEF Unsaved, At
<1>3. SecretInv'
  <2>1. \A c : Known(c)' => Known(c)
    BY <1>u, <1>a DEF Known
  <2>2. ~Known(n)'
    BY <1>t, <1>u, <1>i, <1>a DEF Known
  <2>3. ASSUME NEW s \in Refreshers, At(s, "answered")'
        PROVE  /\ ref'[s].new \in usable' /\ ~(Known(ref[s].new))'
               /\ admin'.cred # ref'[s].new
               /\ \A q \in Refreshers :
                     At(q, "answered")' /\ ref'[q].new = ref'[s].new => s = q
    <3>1. PICK c : c = ref[s].new
      OBVIOUS
    <3>2. c \in usable /\ ~Known(c) /\ c # n /\ c # from
      <4>1. c \in usable /\ ~Known(c)
        BY <1>a, <2>3, <3>1 DEF SecretInv
      <4> QED
        BY <1>t, <1>i, <4>1
    <3>3. ~(Known(ref[s].new))'
      BY <1>u, <1>a, <2>1, <3>1, <3>2 DEF Known
    <3> QED
      BY <1>u, <1>i, <1>a, <2>3, <3>1, <3>2, <3>3 DEF SecretInv
  <2>4. admin'.cred \in usable' /\ ~(Known(admin.cred))'
    BY <1>i, <1>a, <2>2 DEF Known
  <2> QED
    BY <2>3, <2>4 DEF SecretInv
<1>4. SuccessorIsStored'
  <2>1. CASE admin'.op = "manual"
    BY <2>1 DEF SuccessorIsStored
  <2>2. CASE from = 0 /\ admin.pc = "idle"
    BY <1>t, <1>u, <1>i, <2>2 DEF SuccessorIsStored, At
  <2> QED
    BY <2>1, <2>2
<1>5. ErrorInv'
  <2>1. CASE unlocked'
    BY <2>1 DEF ErrorInv, Strict
  <2>2. CASE admin'.op = "apply" /\ from = 0 /\ unlocked' = unlocked
             /\ admin.pc = "idle"
    <3>1. \A c \in Issued \cup {0} : Dead(c) => Dead(c)'
      BY <1>t, <1>u, <1>i DEF Dead, At
    <3>2. ASSUME Strict, NEW s \in Refreshers, Refused(s)'
          PROVE  (Dead(ref[s].from))'
      <4>1. PICK c : c = ref[s].from
        OBVIOUS
      <4>2. Dead(c)
        BY <1>u, <3>2, <4>1 DEF ErrorInv, Refused, At
      <4> QED
        BY <1>t, <1>u, <3>1, <4>1, <4>2 DEF Dead
    <3>3. Strict' = Strict
      BY <1>u, <2>2 DEF Strict
    <3>4. Dead(db.cred) => (Dead(db.cred))'
      BY <1>t, <3>1 DEF Dead
    <3> QED
      BY <1>u, <2>2, <3>2, <3>3, <3>4 DEF ErrorInv
  <2> QED
    BY <2>1, <2>2
<1>6. CacheInv'
  BY <1>u DEF CacheInv, Cleaning, At, IsRequest
<1> QED
  BY <1>1, <1>2, <1>3, <1>4, <1>5, <1>6

\* The administrator opens the row, or is about to read it.
LEMMA InvOpen ==
    ASSUME Inv, NEW op \in {"edit", "apply", "manual"}, Open(op)
    PROVE  Inv'
<1> USE DEF Inv
<1>t. /\ TypeOK /\ AdminInv /\ edits \in 0 .. MaxEdits /\ MaxEdits \in Nat
      /\ db \in [cred : Issued, rev : 0 .. MaxEdits, status : {"active", "error"}]
      /\ Issued \subseteq Number /\ 0 \in Number /\ tokens[db.cred] \in Number
  BY Numbers, RefreshAssumption DEF BaseInv, TypeOK
<1>u. /\ adminIdle /\ UNCHANGED <<db, cache, lost, missed, unlocked>>
      /\ admin.pc = "idle" /\ edits > 0 /\ edits' = edits - 1
      /\ admin.op = "none" /\ admin.cred = 0
  BY <1>t DEF Open, history, AdminInv
<1>e. /\ edits' \in 0 .. MaxEdits /\ edits' <= edits /\ db.rev + edits <= MaxEdits
      /\ unlocked' \in BOOLEAN
  BY <1>t, <1>u DEF AdminInv, TypeOK
<1>b. ASSUME admin' \in Admin, AdminInv', UNCHANGED provider
      PROVE  BaseInv'
  <2>1. /\ db' \in [cred : Issued', rev : 0 .. MaxEdits,
                    status : {"active", "error"}]
        /\ tokens' \in Seq(Number) /\ Len(tokens') <= MaxCredentials
        /\ Issued \subseteq Issued' /\ due' \cup usable' \cup lost' \subseteq Issued'
        /\ cache' \in [cred : Number, fresh : BOOLEAN]
        /\ {missed', unlocked'} \subseteq BOOLEAN
    BY <1>t, <1>u, <1>b DEF TypeOK, Issued, provider
  <2> QED
    BY <1>u, <1>e, <1>b, <2>1, AdminBase
<1>g. ASSUME admin' \in Admin, AdminInv', UNCHANGED provider,
             admin'.op \in {"edit", "manual"}, admin'.cred = db.cred,
             admin'.pc \in {"call", "save"},
             admin'.op = "manual" => admin'.pc = "call",
             admin'.op = "edit" => admin'.status = db.status
      PROVE  Inv'
  <2>1. BaseInv' /\ ~Unsaved' /\ ref' = ref
    BY <1>u, <1>g, <1>b DEF Unsaved, adminIdle
  <2>2. SuccessorIsStored'
    BY <1>u, <1>g, <2>1 DEF SuccessorIsStored, provider, At
  <2>3. CacheInv'
    BY <1>u, <2>1 DEF CacheInv, Cleaning, At, IsRequest, adminIdle
  <2>4. Strict' => /\ Strict
                   /\ db'.status = "error" => Dead(db'.cred)
                   /\ admin'.op = "edit" /\ admin'.status = "error" =>
                         Dead(admin'.cred)
    BY <1>u, <1>g DEF Strict, ErrorInv, adminIdle
  <2> QED
    BY <1>u, <1>g, <2>1, <2>2, <2>3, <2>4, AdminStep
<1>1. CASE op = "edit"
  <2>1. UNCHANGED provider
    BY <1>1 DEF Open
  <2>2. PICK rev \in {db.rev, db.rev + 1} :
           admin' = [pc |-> "save", op |-> "edit", cred |-> db.cred,
                     rev |-> rev, status |-> db.status]
    BY <1>1 DEF Open
  <2>3. rev \in 0 .. MaxEdits /\ rev + edits' <= MaxEdits
        /\ db.rev + edits' <= MaxEdits
    BY <1>t, <1>u, <1>e
  <2>4. admin' \in Admin /\ AdminInv'
    <3>1. db.cred \in Number /\ db.cred \in Issued'
      BY <1>t, <2>1 DEF provider, Issued
    <3>2. admin' \in Admin
      BY <1>t, <2>2, <2>3, <3>1 DEF Admin
    <3> QED
      BY <1>u, <2>2, <2>3, <3>1, <3>2 DEF AdminInv
  <2> QED
    BY <1>g, <2>1, <2>2, <2>4
<1>2. CASE op = "apply"
  <2>1. /\ Issue(0, tokens[db.cred])
        /\ admin' = [NoOperation EXCEPT !.pc = "read", !.op = "apply",
                                        !.cred = Next_number]
    BY <1>2 DEF Open
  <2>2. Next_number \in Number
    BY <1>t, <2>1, Issues
  <2>3. /\ admin' \in Admin /\ admin'.pc = "read" /\ admin'.cred = Next_number
        /\ admin'.rev = 0 /\ admin'.op = "apply"
    <3>1. admin' = [pc |-> "read", op |-> "apply", cred |-> Next_number,
                    rev |-> 0, status |-> "active"]
      BY <2>1 DEF NoOperation
    <3> QED
      BY <1>t, <2>2, <3>1 DEF Admin
  <2>4. 0 + edits' <= MaxEdits
    <3>1. edits' \in Nat /\ edits' <= MaxEdits
      BY <1>t, <1>e
    <3> QED
      BY <3>1
  <2> QED
    BY <1>t, <1>u, <1>e, <2>1, <2>3, <2>4, AdminIssues
<1>3. CASE op = "manual"
  <2>1. /\ UNCHANGED provider
        /\ admin' = [NoOperation EXCEPT !.pc = "call", !.op = "manual",
                                        !.cred = db.cred]
    BY <1>3 DEF Open
  <2>2. db.cred \in Number /\ db.cred \in Issued' /\ db.rev + edits' <= MaxEdits
        /\ 0 + edits' <= MaxEdits
    BY <1>t, <1>u, <1>e, <2>1 DEF provider, Issued
  <2>3. /\ admin' \in Admin /\ admin'.pc = "call" /\ admin'.cred = db.cred
        /\ admin'.rev = 0 /\ admin'.op = "manual"
    <3>1. admin' = [pc |-> "call", op |-> "manual", cred |-> db.cred,
                    rev |-> 0, status |-> "active"]
      BY <2>1 DEF NoOperation
    <3> QED
      BY <1>t, <2>2, <3>1 DEF Admin
  <2>4. AdminInv'
    BY <1>u, <2>2, <2>3 DEF AdminInv
  <2> QED
    BY <1>g, <2>1, <2>3, <2>4
<1> QED
  BY <1>1, <1>2, <1>3

\* The administrator refreshes the token without the lock.
LEMMA InvManual ==
    ASSUME Inv, Manual
    PROVE  Inv'
<1> USE DEF Inv
<1>t. /\ TypeOK /\ AdminInv /\ edits \in 0 .. MaxEdits /\ admin \in Admin
      /\ \A c \in Issued : tokens[c] \in Number
      /\ MaxEdits \in Nat /\ usable \subseteq Issued
  BY Numbers, RefreshAssumption DEF BaseInv, TypeOK
<1>u. /\ adminIdle /\ UNCHANGED <<db, cache, edits, lost, missed>>
      /\ admin.pc = "call" /\ admin.op = "manual" /\ ~Unsaved
  BY <1>t DEF Manual, AdminInv, Admin, Unsaved
<1>1. CASE /\ admin.cred \in usable
           /\ Issue(admin.cred, tokens[admin.cred])
           /\ admin' = [admin EXCEPT !.pc = "read", !.cred = Next_number]
           /\ unlocked' = TRUE
  <2>1. Next_number \in Number /\ tokens[admin.cred] \in Number
    BY <1>t, <1>1, Issues
  <2>2. /\ admin' \in Admin /\ admin'.pc = "read" /\ admin'.cred = Next_number
        /\ admin'.rev = admin.rev /\ admin'.op = "manual"
    BY <1>t, <1>u, <1>1, <2>1 DEF Admin
  <2>3. Known(admin.cred) /\ edits' <= edits /\ admin.rev + edits' <= MaxEdits
    BY <1>t, <1>u DEF Known, AdminInv
  <2> QED
    BY <1>t, <1>u, <1>1, <2>1, <2>2, <2>3, AdminIssues
<1>2. CASE admin' = NoOperation /\ UNCHANGED <<provider, unlocked>>
  <2>1. /\ admin' \in Admin /\ admin'.pc = "idle" /\ admin'.cred = 0
        /\ admin'.rev = 0 /\ admin'.op = "none" /\ ~Unsaved'
        /\ 0 + edits <= MaxEdits
    BY <1>t, <1>2, RefreshAssumption DEF NoOperation, Admin, Number, Unsaved
  <2>2. AdminInv'
    BY <1>t, <1>u, <2>1 DEF AdminInv
  <2>3. BaseInv'
    <3>1. /\ db' \in [cred : Issued', rev : 0 .. MaxEdits,
                      status : {"active", "error"}]
          /\ tokens' \in Seq(Number) /\ Len(tokens') <= MaxCredentials
          /\ Issued \subseteq Issued' /\ due' \cup usable' \cup lost' \subseteq Issued'
          /\ cache' \in [cred : Number, fresh : BOOLEAN]
          /\ {missed', unlocked'} \subseteq BOOLEAN
          /\ edits' \in 0 .. MaxEdits /\ edits' <= edits
      BY <1>t, <1>u, <1>2 DEF TypeOK, Issued, provider
    <3> QED
      BY <1>u, <2>1, <2>2, <3>1, AdminBase
  <2>4. SuccessorIsStored' /\ CacheInv' /\ (Strict' => Strict)
    BY <1>u, <1>2, <2>1
    DEF SuccessorIsStored, provider, At, CacheInv, Cleaning, IsRequest,
        adminIdle, Strict
  <2>5. Strict /\ db'.status = "error" => Dead(db'.cred)
    BY <1>u DEF ErrorInv
  <2> QED
    BY <1>u, <1>2, <2>1, <2>3, <2>4, <2>5, AdminStep
<1> QED
  BY <1>1, <1>2 DEF Manual

\* AdminBase for the steps that only change the row, the cache and what the
\* administrator has.
LEMMA AdminSame ==
    ASSUME BaseInv, adminIdle, UNCHANGED <<provider, edits, unlocked>>,
           admin' \in Admin, AdminInv',
           db' \in [cred : Issued, rev : 0 .. MaxEdits,
                    status : {"active", "error"}],
           lost' \subseteq Issued, missed' \in BOOLEAN,
           cache' \in [cred : Number, fresh : BOOLEAN]
    PROVE  BaseInv'
<1>1. /\ TypeOK /\ edits \in 0 .. MaxEdits /\ MaxEdits \in Nat
  BY RefreshAssumption DEF BaseInv, TypeOK
<1>2. /\ db' \in [cred : Issued', rev : 0 .. MaxEdits,
                  status : {"active", "error"}]
      /\ tokens' \in Seq(Number) /\ Len(tokens') <= MaxCredentials
      /\ Issued \subseteq Issued' /\ due' \cup usable' \cup lost' \subseteq Issued'
      /\ {missed', unlocked'} \subseteq BOOLEAN
      /\ edits' \in 0 .. MaxEdits /\ edits' <= edits
  BY <1>1 DEF TypeOK, Issued, provider
<1> QED
  BY <1>2, AdminBase

\* UpdateAccount reads the row.
LEMMA InvReadRow ==
    ASSUME Inv, ReadRow
    PROVE  Inv'
<1> USE DEF Inv
<1>t. /\ TypeOK /\ AdminInv /\ admin \in Admin
      /\ db \in [cred : Issued, rev : 0 .. MaxEdits, status : {"active", "error"}]
      /\ lost \subseteq Issued /\ {missed, unlocked} \subseteq BOOLEAN
      /\ cache \in [cred : Number, fresh : BOOLEAN]
  BY DEF BaseInv, TypeOK
<1>u. /\ adminIdle
      /\ UNCHANGED <<db, provider, cache, edits, lost, missed, unlocked>>
      /\ admin.pc = "read" /\ admin.op \in {"apply", "manual"} /\ Unsaved
  BY <1>t DEF ReadRow, history, AdminInv, Admin, Unsaved
<1>a. /\ admin' \in Admin /\ admin'.pc = "save" /\ admin'.cred = admin.cred
      /\ admin'.op = admin.op /\ admin'.rev = db.rev
      /\ admin'.status = db.status
  BY <1>t DEF ReadRow, Admin
<1>1. AdminInv'
  BY <1>t, <1>u, <1>a DEF AdminInv, provider, Issued
<1>2. BaseInv'
  BY <1>t, <1>u, <1>a, <1>1, AdminSame
<1>3. SuccessorIsStored' /\ CacheInv'
  BY <1>u, <1>a
  DEF SuccessorIsStored, provider, At, CacheInv, Cleaning, IsRequest, adminIdle
<1>4. Strict' => /\ Strict /\ admin.op = "apply"
                 /\ db'.status = "error" => Dead(db'.cred)
  BY <1>u DEF ErrorInv, Strict, adminIdle
<1> QED
  BY <1>u, <1>a, <1>2, <1>3, <1>4, AdminStep

\* UpdateAccount saves the row it has read: an edit may put back credentials
\* that were rotated, the other operations store new ones.
LEMMA InvSave ==
    ASSUME Inv, Save
    PROVE  Inv'
<1> USE DEF Inv
<1>t. /\ TypeOK /\ AdminInv /\ admin \in Admin /\ missed \in BOOLEAN
      /\ lost \subseteq Issued /\ cache \in [cred : Number, fresh : BOOLEAN]
      /\ MaxEdits \in Nat /\ edits \in 0 .. MaxEdits
  BY RefreshAssumption DEF BaseInv, TypeOK
<1>u. /\ adminIdle /\ UNCHANGED <<provider, cache, edits, unlocked>>
      /\ admin.pc = "save" /\ admin.op \in {"edit", "apply", "manual"}
      /\ db' = [cred |-> admin.cred, rev |-> admin.rev, status |-> admin.status]
      /\ admin.cred \in Issued /\ ref' = ref /\ grok' = grok
  BY <1>t DEF Save, AdminInv, Admin, adminIdle
<1>d. db' \in [cred : Issued, rev : 0 .. MaxEdits, status : {"active", "error"}]
  BY <1>t, <1>u DEF Admin
<1>l. /\ lost' = IF Overwrites THEN lost \cup {admin.cred} ELSE lost
      /\ missed' = (missed \/ Overwrites)
  BY DEF Save
<1>m. lost' \subseteq Issued /\ missed' \in BOOLEAN
  BY <1>t, <1>u, <1>l DEF Overwrites
<1>1. CASE admin.op = "edit"
  <2>1. admin' = NoOperation
    BY <1>1 DEF Save
  <2>2. /\ admin' \in Admin /\ admin'.pc = "idle" /\ admin'.cred = 0
        /\ admin'.op = "none" /\ ~Unsaved' /\ admin'.rev = 0
    BY <1>t, <2>1, RefreshAssumption DEF NoOperation, Admin, Number, Unsaved
  <2>3. AdminInv'
    BY <1>t, <1>u, <2>2 DEF AdminInv
  <2>4. BaseInv'
    BY <1>t, <1>u, <1>d, <1>m, <2>2, <2>3, AdminSame
  <2>5. SuccessorIsStored'
    <3>1. CASE Overwrites
      BY <1>u, <1>l, <3>1 DEF SuccessorIsStored
    <3>2. CASE ~Overwrites
      BY <1>1, <1>u, <1>l, <3>2
      DEF SuccessorIsStored, Overwrites, provider, At
    <3> QED
      BY <3>1, <3>2
  <2>6. CacheInv'
    <3>1. CASE Overwrites
      BY <1>l, <3>1 DEF CacheInv
    <3>2. CASE ~Overwrites
      BY <1>1, <1>u, <1>l, <1>t, <3>2
      DEF CacheInv, Overwrites, Cleaning, At, IsRequest
    <3> QED
      BY <3>1, <3>2
  <2>7. Strict' => Strict /\ (db'.status = "error" => Dead(db'.cred))
    BY <1>1, <1>u DEF Strict, ErrorInv
  <2> QED
    BY <1>u, <2>2, <2>4, <2>5, <2>6, <2>7, AdminStep
<1>2. CASE admin.op \in {"apply", "manual"}
  <2>1. /\ admin' \in Admin /\ admin'.cred = admin.cred
        /\ admin'.op = admin.op /\ admin'.rev = admin.rev
        /\ admin'.pc = IF admin.op = "apply" THEN "clear" ELSE "drop"
        /\ ~Unsaved'
    <3>1. CASE admin.op = "apply"
      <4>1. admin' = [admin EXCEPT !.pc = "clear"]
        BY <3>1 DEF Save
      <4> QED
        BY <1>t, <3>1, <4>1 DEF Admin, Unsaved
    <3>2. CASE admin.op = "manual"
      <4>1. admin' = [admin EXCEPT !.pc = "drop"]
        BY <3>2 DEF Save
      <4> QED
        BY <1>t, <3>2, <4>1 DEF Admin, Unsaved
    <3> QED
      BY <1>2, <3>1, <3>2
  <2>2. AdminInv'
    BY <1>t, <1>u, <1>2, <2>1 DEF AdminInv, provider, Issued
  <2>3. BaseInv'
    BY <1>t, <1>u, <1>d, <1>m, <2>1, <2>2, AdminSame
  <2>4. SuccessorIsStored'
    <3>1. admin.cred \in usable
      BY <1>u, <1>2 DEF SecretInv, Unsaved
    <3> QED
      BY <1>u, <3>1 DEF SuccessorIsStored, provider
  <2>5. CacheInv'
    BY <2>1 DEF CacheInv
  <2>6. Strict' => Strict /\ admin.op = "apply"
    BY <1>u, <1>2 DEF Strict, ErrorInv
  <2> QED
    BY <1>u, <1>2, <2>1, <2>3, <2>4, <2>5, <2>6, AdminStep
<1> QED
  BY <1>u, <1>1, <1>2

\* The error is cleared after re-authorisation, and the cached token removed.
LEMMA InvDrop ==
    ASSUME Inv, ClearError \/ Drop
    PROVE  Inv'
<1> USE DEF Inv
<1>t. /\ TypeOK /\ AdminInv /\ admin \in Admin /\ lost \subseteq Issued
      /\ db \in [cred : Issued, rev : 0 .. MaxEdits, status : {"active", "error"}]
      /\ {missed, unlocked} \subseteq BOOLEAN
      /\ cache \in [cred : Number, fresh : BOOLEAN]
      /\ MaxEdits \in Nat /\ edits \in 0 .. MaxEdits
  BY RefreshAssumption DEF BaseInv, TypeOK
<1>u. /\ adminIdle /\ UNCHANGED <<provider, edits, lost, missed, unlocked>>
      /\ admin.pc \in {"clear", "drop"} /\ ref' = ref /\ grok' = grok /\ ~Unsaved
  BY DEF ClearError, Drop, history, adminIdle, Unsaved
<1>d. /\ db' \in [cred : Issued, rev : 0 .. MaxEdits,
                  status : {"active", "error"}]
      /\ db'.cred = db.cred /\ db'.rev = db.rev
      /\ db'.status = "error" => db' = db /\ Drop
  <2>1. CASE ClearError
    BY <1>t, <2>1 DEF ClearError
  <2>2. CASE Drop
    BY <1>t, <2>2 DEF Drop
  <2> QED
    BY <2>1, <2>2
<1>a. /\ admin' \in Admin /\ ~Unsaved' /\ admin'.cred \in {0, admin.cred}
      /\ \/ /\ admin'.pc = "drop" /\ cache' = cache /\ admin.op = "apply"
            /\ admin'.op = "apply" /\ admin'.cred = admin.cred
            /\ admin'.rev = admin.rev
         \/ /\ admin'.pc = "idle" /\ cache' = NoToken
            /\ admin'.op = "none" /\ admin'.cred = 0 /\ admin'.rev = 0
  <2>1. CASE ClearError
    <3>1. admin.pc = "clear" /\ admin.op = "apply" /\ cache' = cache
          /\ admin' = [admin EXCEPT !.pc = "drop"]
      BY <1>t, <2>1 DEF ClearError, AdminInv, Admin
    <3> QED
      BY <1>t, <3>1 DEF Admin, Unsaved
  <2>2. CASE Drop
    <3>1. admin' = NoOperation /\ cache' = NoToken
      BY <2>2 DEF Drop
    <3> QED
      BY <3>1, RefreshAssumption DEF NoOperation, Admin, Number, Unsaved
  <2> QED
    BY <2>1, <2>2
<1>1. AdminInv'
  BY <1>t, <1>u, <1>d, <1>a DEF AdminInv, provider, Issued
<1>2. BaseInv'
  <2>1. cache' \in [cred : Number, fresh : BOOLEAN]
    <3>1. NoToken \in [cred : Number, fresh : BOOLEAN]
      BY <1>t, Numbers DEF NoToken
    <3>2. cache' \in {cache, NoToken}
      BY <1>a
    <3> QED
      BY <1>t, <3>1, <3>2
  <2> QED
    BY <1>t, <1>u, <1>d, <1>a, <1>1, <2>1, AdminSame
<1>3. SuccessorIsStored' /\ CacheInv'
  <2>1. SuccessorIsStored'
    BY <1>u, <1>d DEF SuccessorIsStored, provider, At
  <2>2. CacheInv'
    BY <1>a DEF CacheInv, NoToken
  <2> QED
    BY <2>1, <2>2
<1>4. Strict' => /\ Strict
                 /\ db'.status = "error" => Dead(db'.cred)
  <2>1. Drop => admin.pc = "drop"
    BY DEF Drop
  <2> QED
    BY <1>u, <1>d, <2>1 DEF ErrorInv, Strict
<1> QED
  BY <1>u, <1>d, <1>a, <1>2, <1>3, <1>4, AdminStep

\* The credentials in the row come near their expiry, or the cached token
\* expires.
LEMMA InvAge ==
    ASSUME Inv, Age \/ CacheExpires
    PROVE  Inv'
<1> USE DEF Inv
<1>u. /\ UNCHANGED <<grok, db, tokens, usable, lock, local, ref, admin, edits,
                     faults, lost, missed, unlocked>>
      /\ cache' \in {cache, NoToken}
      /\ due' \in {due, due \cup {db.cred}}
  BY DEF Age, CacheExpires, provider, redis, others, history
<1>1. BaseInv'
  <2>1. TypeOK'
    <3>1. NoToken \in [cred : Number, fresh : BOOLEAN]
      BY Numbers DEF BaseInv, NoToken
    <3> QED
      BY <1>u, <3>1 DEF BaseInv, TypeOK, Issued
  <2> QED
    BY <1>u, <2>1 DEF BaseInv, AdminInv, CallerInv, IsRequest, Issued
<1>2. LeaseInv'
  BY <1>u DEF LeaseInv, Counting, Limited, IsRequest, RefreshesAreExclusive
<1>3. SecretInv' /\ SuccessorIsStored'
  BY <1>u DEF SecretInv, SuccessorIsStored, Known, Unsaved, At
<1>4. ErrorInv'
  BY <1>u DEF ErrorInv, Strict, Refused, Dead, At
<1>5. CacheInv'
  BY <1>u DEF CacheInv, Cleaning, At, IsRequest, NoToken
<1> QED
  BY <1>1, <1>2, <1>3, <1>4, <1>5

\* Time passes for the lock and for the callers alike.
LEMMA InvTick ==
    ASSUME Inv, Tick
    PROVE  Inv'
<1> USE DEF Inv
<1>t. /\ TypeOK /\ lock \in 0 .. LockTTL /\ LockTTL \in Nat /\ LockMargin \in Nat
      /\ ref \in [Refreshers -> Refresher]
  BY RefreshAssumption DEF BaseInv, TypeOK
<1>u. /\ UNCHANGED <<grok, db, tokens, due, usable, local, cache, admin, edits,
                     faults, lost, missed, unlocked>>
      /\ lock' = IF lock > 0 THEN lock - 1 ELSE 0
  BY DEF Tick, provider, others, history
<1>l. \A l \in 0 .. LockTTL : l > 0 => l - 1 \in 0 .. LockTTL
  BY <1>t
<1>r. ASSUME NEW s \in Refreshers
      PROVE  /\ ref'[s] \in Refresher
             /\ ref'[s].pc = ref[s].pc /\ ref'[s].acct = ref[s].acct
             /\ ref'[s].from = ref[s].from /\ ref'[s].rev = ref[s].rev
             /\ ref'[s].new = ref[s].new /\ ref'[s].locked = ref[s].locked
             /\ ref'[s].result = ref[s].result
             /\ ref'[s].left = IF Counting(s) THEN ref[s].left - 1
                                              ELSE ref[s].left
             /\ Counting(s) => ref[s].left > 0
  <2>1. ref'[s] = IF Counting(s) THEN [ref[s] EXCEPT !.left = ref[s].left - 1]
                                 ELSE ref[s]
    BY <1>t DEF Tick
  <2>2. Counting(s) => ref[s].left > 0
    BY DEF Tick
  <2>3. ref[s] \in Refresher /\ ref[s].left \in 0 .. LockTTL
    BY <1>t, Fields
  <2>4. Counting(s) => ref[s].left - 1 \in 0 .. LockTTL
    BY <1>l, <2>2, <2>3
  <2>5. CASE Counting(s)
    BY <2>1, <2>2, <2>3, <2>4, <2>5 DEF Refresher
  <2>6. CASE ~Counting(s)
    BY <2>1, <2>3, <2>6
  <2> QED
    BY <2>5, <2>6
<1>f. DOMAIN ref' = Refreshers /\ ref' = [s \in Refreshers |-> ref'[s]]
  BY DEF Tick
<1>c. \A s \in Refreshers : /\ Counting(s)' = Counting(s)
                            /\ Refused(s)' = Refused(s)
                            /\ Cleaning(s)' = Cleaning(s)
                            /\ At(s, "answered")' = At(s, "answered")
  BY <1>u, <1>r DEF Counting, Limited, IsRequest, Refused, Cleaning, At
<1>1. BaseInv'
  <2>1. ref' \in [Refreshers -> Refresher]
    BY <1>r, <1>f
  <2>2. lock' \in 0 .. LockTTL
    BY <1>t, <1>u, <1>l
  <2>3. TypeOK'
    BY <1>t, <1>u, <1>r, <2>1, <2>2 DEF TypeOK, Issued
  <2>4. \A s \in Refreshers : CallerInv(s)'
    BY <1>u, <1>r DEF BaseInv, CallerInv, IsRequest, Issued
  <2> QED
    BY <1>u, <2>3, <2>4 DEF BaseInv, AdminInv, Issued
<1>2. LeaseInv'
  <2>1. ASSUME NEW s \in Refreshers, Counting(s)'
        PROVE  ref'[s].left + LockMargin <= LockTTL
    <3>1. /\ ref[s].left + LockMargin <= LockTTL /\ ref[s].left > 0
          /\ ref'[s].left = ref[s].left - 1 /\ ref[s].left \in Nat
      BY <1>t, <1>c, <1>r, <2>1, Fields DEF LeaseInv
    <3> QED
      BY <1>t, <3>1
  <2>2. ASSUME grok, NEW s \in Refreshers, ref'[s].locked
        PROVE  ref'[s].left < lock'
    <3>1. ref[s].locked /\ ref[s].left < lock /\ ref[s].left \in Nat
          /\ lock \in Nat
      BY <1>t, <1>r, <2>2, Fields DEF LeaseInv
    <3>2. Counting(s)
      BY <2>2, <3>1 DEF Counting, Limited, BaseInv, TypeOK
    <3>3. ref'[s].left = ref[s].left - 1 /\ ref[s].left > 0
      BY <1>r, <3>2
    <3>4. lock > 0
      BY <3>1
    <3> QED
      BY <1>u, <3>1, <3>3, <3>4
  <2> QED
    BY <1>u, <1>r, <2>1, <2>2 DEF LeaseInv, RefreshesAreExclusive
<1>3. SecretInv' /\ SuccessorIsStored'
  <2>1. \A c : Known(c)' = Known(c)
    BY <1>u, <1>r DEF Known, Unsaved
  <2>2. /\ \A s \in Refreshers : (Known(ref[s].new))' = Known(ref[s].new)
        /\ (Known(admin.cred))' = Known(admin.cred)
    BY <1>u, <1>r DEF Known, Unsaved
  <2> QED
    BY <1>u, <1>r, <1>c, <2>2 DEF SecretInv, SuccessorIsStored, Unsaved
<1>4. ErrorInv'
  <2>1. /\ \A s \in Refreshers : (Dead(ref[s].from))' = Dead(ref[s].from)
        /\ (Dead(admin.cred))' = Dead(admin.cred)
        /\ (Dead(db.cred))' = Dead(db.cred)
    BY <1>u, <1>r, <1>c DEF Dead
  <2> QED
    BY <1>u, <1>r, <1>c, <2>1 DEF ErrorInv, Strict
<1>5. CacheInv'
  BY <1>u, <1>r, <1>c DEF CacheInv, IsRequest
<1> QED
  BY <1>1, <1>2, <1>3, <1>4, <1>5

-----------------------------------------------------------------------------
(***************************************************************************)
(* The theorems.                                                           *)
(***************************************************************************)

\* Nobody has begun, and the first credentials are in the row.
LEMMA InvInit ==
    ASSUME Init
    PROVE  Inv
<1>1. /\ Issued = {1} /\ tokens \in Seq(Number) /\ Len(tokens) = 1
      /\ MaxCredentials \in Nat /\ 1 <= MaxCredentials /\ MaxEdits \in Nat
      /\ MaxFaults \in Nat /\ LockTTL \in Nat /\ 0 \in Number /\ 1 \in Number
  <2>1. MaxCredentials \in Nat \ {0} /\ MaxEdits \in Nat /\ MaxFaults \in Nat
        /\ LockTTL \in Nat
    BY RefreshAssumption
  <2>2. 0 \in Number /\ 1 \in Number /\ tokens = <<0>>
    BY <2>1 DEF Number, Init
  <2>3. tokens \in Seq(Number) /\ Len(tokens) = 1 /\ DOMAIN tokens = {1}
    BY <2>2
  <2> QED
    BY <2>1, <2>2, <2>3 DEF Issued
<1>2. /\ Idle.pc = "idle" /\ Idle.acct = 0 /\ Idle.from = 0 /\ Idle.new = 0
      /\ Idle.rev = 0 /\ Idle.result = "none" /\ ~Idle.locked
      /\ "idle" \notin Inside \cup {"lock"} /\ Idle \in Refresher
  BY <1>1 DEF Idle, Inside, Refresher, Steps, Results, Number
<1>3. /\ \A r \in Refreshers : ref[r] = Idle
      /\ ref \in [Refreshers -> Refresher]
  BY <1>2 DEF Init
<1>4. /\ NoOperation.pc = "idle" /\ NoOperation.op = "none"
      /\ NoOperation.cred = 0 /\ NoOperation.rev = 0 /\ NoOperation \in Admin
      /\ NoToken \in [cred : Number, fresh : BOOLEAN]
  BY <1>1 DEF NoOperation, NoToken, Admin
<1>5. TypeOK
  <2>1. \A r \in Refreshers : r[1] \in Processes /\ r # None
    BY RefreshAssumption
  <2>2. \A r \in Refreshers : /\ (ref[r].pc \in Inside) = (local[r[1]] = r)
                              /\ ref[r].locked => ref[r].pc \in Inside
    BY <1>2, <1>3, <2>1 DEF Init
  <2>3. /\ grok \in BOOLEAN
        /\ db \in [cred : Issued, rev : 0 .. MaxEdits,
                   status : {"active", "error"}]
        /\ due \cup usable \cup lost \subseteq Issued
        /\ lock \in 0 .. LockTTL
        /\ local \in [Processes -> Refreshers \cup {None}]
        /\ edits \in 0 .. MaxEdits /\ faults \in 0 .. MaxFaults
        /\ {missed, unlocked} \subseteq BOOLEAN
    <3>1. grok \in BOOLEAN /\ {missed, unlocked} \subseteq BOOLEAN
      BY DEF Init
    <3>2. db \in [cred : Issued, rev : 0 .. MaxEdits,
                  status : {"active", "error"}]
      BY <1>1 DEF Init
    <3>3. due \subseteq {1} /\ usable \subseteq {1} /\ lost \subseteq {1}
      BY DEF Init
    <3>4. local \in [Processes -> Refreshers \cup {None}]
      BY DEF Init
    <3>5. /\ lock \in 0 .. LockTTL /\ edits \in 0 .. MaxEdits
          /\ faults \in 0 .. MaxFaults
      BY <1>1 DEF Init
    <3> QED
      BY <1>1, <3>1, <3>2, <3>3, <3>4, <3>5
  <2>4. cache \in [cred : Number, fresh : BOOLEAN] /\ admin \in Admin
    BY <1>4 DEF Init
  <2> QED
    BY <1>1, <1>3, <2>2, <2>3, <2>4 DEF TypeOK
<1>6. AdminInv /\ \A r \in Refreshers : CallerInv(r)
  BY <1>1, <1>2, <1>3, <1>4 DEF Init, AdminInv, CallerInv, Early
<1>7. LeaseInv
  BY <1>2, <1>3 DEF LeaseInv, Counting, RefreshesAreExclusive
<1>8. SecretInv /\ SuccessorIsStored
  BY <1>2, <1>3, <1>4 DEF Init, SecretInv, SuccessorIsStored, Unsaved, At
<1>9. ErrorInv /\ CacheInv
  BY <1>2, <1>3, <1>4 DEF Init, ErrorInv, CacheInv, NoToken, Refused, At
<1> QED
  BY <1>5, <1>6, <1>7, <1>8, <1>9 DEF Inv, BaseInv

\* Every step keeps the invariant.
LEMMA InvStep ==
    ASSUME Inv, [Next]_vars
    PROVE  Inv'
<1>1. ASSUME NEW r \in Refreshers,
             \/ Take(r) \/ Lookup(r) \/ Lock(r) \/ Read(r) \/ Call(r)
             \/ Persist(r) \/ Reload(r) \/ Recover(r) \/ Release(r)
             \/ Wait(r) \/ Check(r) \/ Set(r) \/ Quarantine(r) \/ Sync(r)
      PROVE  Inv'
  BY <1>1, InvTake, InvLock, InvRead, InvCall, InvPersist, InvReload,
     InvRecover, InvRelease, InvWait, InvCheck, InvSet, InvQuarantine
<1>2. ASSUME NEW p \in Processes, Crash(p)
      PROVE  Inv'
  BY <1>2, InvCrash
<1>3. ASSUME NEW op \in {"edit", "apply", "manual"}, Open(op)
      PROVE  Inv'
  BY <1>3, InvOpen
<1>4. CASE \/ Manual \/ ReadRow \/ Save \/ ClearError \/ Drop
           \/ Age \/ CacheExpires \/ Tick
  BY <1>4, InvManual, InvReadRow, InvSave, InvDrop, InvAge, InvTick
<1>5. CASE UNCHANGED vars
  <2>1. /\ UNCHANGED <<grok, db, tokens, due, usable, lock, local, cache, ref,
                       admin, edits, faults, lost, missed, unlocked>>
    BY <1>5 DEF vars
  <2>2. BaseInv' /\ LeaseInv'
    BY <2>1
    DEF Inv, BaseInv, TypeOK, AdminInv, CallerInv, IsRequest, Issued, LeaseInv,
        Counting, Limited, RefreshesAreExclusive
  <2>3. SecretInv' /\ SuccessorIsStored'
    BY <2>1 DEF Inv, SecretInv, SuccessorIsStored, Known, Unsaved, At
  <2>4. ErrorInv' /\ CacheInv'
    BY <2>1
    DEF Inv, ErrorInv, Strict, Refused, Dead, At, CacheInv, Cleaning, IsRequest
  <2> QED
    BY <2>2, <2>3, <2>4 DEF Inv
<1> QED
  BY <1>1, <1>2, <1>3, <1>4, <1>5 DEF Next

\* The inductive invariant holds throughout.
LEMMA Invariance == Spec => []Inv
<1>1. Init => Inv
  BY InvInit
<1>2. Inv /\ [Next]_vars => Inv'
  BY InvStep
<1> QED
  BY <1>1, <1>2, PTL DEF Spec

\* Type correctness, with the mutex of each process and the Redis lock at
\* callers inside RefreshIfNeeded only.
THEOREM TypeCorrect == Spec => []TypeOK
<1>1. Inv => TypeOK
  BY DEF Inv, BaseInv
<1> QED
  BY <1>1, Invariance, PTL

\* Of the callers that have the Redis lock of a Grok account, one at a time is
\* inside RefreshIfNeeded, whatever the limits that are configured.
THEOREM Exclusive == Spec => []RefreshesAreExclusive
<1>1. Inv => RefreshesAreExclusive
  BY DEF Inv, LeaseInv
<1> QED
  BY <1>1, Invariance, PTL

\* RefreshIfNeeded and refreshSingleAccount: a stored refresh token that the
\* provider does not accept any more is about to be replaced, or its successor
\* was lost in one of the ways the model lists.
THEOREM Stored == Spec => []SuccessorIsStored
<1>1. Inv => SuccessorIsStored
  BY DEF Inv
<1> QED
  BY <1>1, Invariance, PTL

\* refreshWithRetry, applyGrokCredentialAccountFailure: a Grok account is not
\* put into error with a refresh token the provider accepts.
THEOREM Deserved == Spec => []QuarantineIsDeserved
<1>1. Inv => QuarantineIsDeserved
  BY DEF Inv, ErrorInv, Strict, QuarantineIsDeserved, Dead
<1> QED
  BY <1>1, Invariance, PTL

\* postRefreshStateSync, loadGrokDurableAccountAfterPersist: who replaces the
\* credentials in the row cleans the cache of the token that was current.
THEOREM Clean == Spec => []RefreshCleansTheCache
<1>1. Inv => RefreshCleansTheCache
  BY DEF Inv, CacheInv, RefreshCleansTheCache
<1> QED
  BY <1>1, Invariance, PTL

=============================================================================
