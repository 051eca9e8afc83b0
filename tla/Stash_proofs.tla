---------------------------- MODULE Stash_proofs ----------------------------
(***************************************************************************)
(* Stash for any numbers of processes, members, requests and user steps:   *)
(* types, the exclusion its mutations rely on, and what bundle files say   *)
(* of the payloads in the native lists.  Every copy of a bundle is told    *)
(* of, the file and those that processes remember, since a process writes  *)
(* back a copy it read before it had the lock.                             *)
(*                                                                         *)
(* The invariants, each inductive together with those before it:           *)
(*   IInv        types, work in memory, the guard in the section           *)
(*   Payloads    an object is given once, and copies name only their own   *)
(*   Fresh       a push has its id alone (where every push has a fresh id) *)
(*   Decides     members a push is done with are decided, in memory and    *)
(*               on disk                                                   *)
(*   Recorded    with one process, every copy has every payload on record  *)
(*   AllSettled  no copy calls a member finished that its push has due     *)
(*   AllUpToDate with one process, a restore has the records it leaves     *)
(*               alone as the file has them                                *)
(***************************************************************************)
EXTENDS Stash, TLAPS

\* A member still to be handled has a record in the operation's memory,
\* between the intent and the record of a member that member is known, and a
\* restore runs one of the restore operations.
WorkInMemory ==
  \A p \in Proc :
    /\ todo[p] \subseteq Selected(mem[p])
    /\ pc[p] \in {"saving", "record"} => cur[p] \in Member
    /\ pc[p] \in {"plan", "restore"} => req[p].op \in RestoreOp

\* The guard is alive exactly in the section between Acquire and End; this is
\* what makes exclusion inductive: a second Acquire finds holder taken.
GuardInSection == \A p \in Proc : InSection(p) <=> holder = p

IInv == TypeOK /\ WorkInMemory /\ GuardInSection

-----------------------------------------------------------------------------
(* Types of the data. *)

LEMMA BundleType ==
  ASSUME NEW b \in Bundle, NEW m, NEW r \in Rec
  PROVE  [b EXCEPT ![m] = r] \in Bundle
BY DEF Bundle

LEMMA NoBundleType == NoBundle \in Bundle
BY DEF NoBundle, Bundle

LEMMA NoRequestType == NoRequest \in Req
BY DEF NoRequest, Req, NoOption, Option

LEMMA InitialRecType ==
  ASSUME NEW kinds PROVE InitialBundleMember(kinds) \in Rec
BY DEF InitialBundleMember, MemberRec, Rec

LEMMA RestoredType ==
  ASSUME NEW r \in Rec, NEW op \in RestoreOp
  PROVE  [r EXCEPT !.restore = RestoredState(op)] \in Rec
BY DEF Rec, RestoreOp, RestoredState

LEMMA StashableType ==
  ASSUME NEW kinds \in SUBSET Kind, NEW opt
  PROVE  Stashable(kinds, opt) \in SUBSET Kind
BY DEF Stashable

\* Bundle files keep their type when one of them is written.
LEMMA WriteType ==
  ASSUME TypeOK, NEW i, NEW b \in Bundle, WriteBundle(i, b)
  PROVE  bundles' \in [StashId -> Bundle]
BY DEF TypeOK, WriteBundle

\* The end of an operation leaves a process idle, without a guard.
LEMMA EndIInv ==
  ASSUME IInv, NEW p \in Proc, End(p), bundles' \in [StashId -> Bundle],
         UNCHANGED <<native, clock, edits>>
  PROVE  IInv'
<1> USE DEF IInv, TypeOK, End, LockTypeOK, ReleaseIfHeld, native
<1>1. TypeOK'
  BY NoBundleType, NoRequestType
<1>2. WorkInMemory'
  BY DEF WorkInMemory, Selected
<1>3. GuardInSection'
  BY NoProcAssumption DEF GuardInSection, InSection
<1> QED
  BY <1>1, <1>2, <1>3

LEMMA InitIInv == Init => IInv
<1> SUFFICES ASSUME Init PROVE IInv
  OBVIOUS
<1> USE DEF Init
<1>1. TypeOK
  BY NoBundleType, NoRequestType, StashAssumption
     DEF TypeOK, LockTypeOK, LockInit
<1>2. WorkInMemory /\ GuardInSection
  BY NoProcAssumption DEF WorkInMemory, GuardInSection, InSection, LockInit
<1> QED
  BY <1>1, <1>2 DEF IInv

-----------------------------------------------------------------------------
(* Steps of push and of restore. *)

LEMMA MemberRecType ==
  ASSUME NEW push \in {"unattempted", "saving", "saved", "empty", "failed"},
         NEW restore \in {"pending", "missing", "noop"}, NEW oid \in Nat
  PROVE  MemberRec(push, restore, oid) \in Rec
BY DEF MemberRec, Rec

\* A new record of a member in memory keeps what is left to do on record.
LEMMA RecordIInv ==
  ASSUME IInv, NEW p \in Proc, NEW m, NEW r \in Rec, NEW b,
         b = [mem[p] EXCEPT ![m] = r]
  PROVE  b \in Bundle /\ Selected(mem[p]) \subseteq Selected(b)
BY BundleType, NoRecAssumption DEF IInv, TypeOK, Bundle, Selected

LEMMA PushPlanIInv ==
  ASSUME IInv, NEW p \in Proc, NEW sel \in (SUBSET Member) \ {{}},
         NEW i \in StashId, NEW opt \in PushOptions, PushPlan(p, sel, i, opt)
  PROVE  IInv'
<1> USE DEF IInv, PushPlan
<1>1. [op |-> "push", id |-> i, opt |-> opt, sel |-> sel, seen |-> Observed(sel)]
        \in Req
  BY StashAssumption DEF Req, Option, Observed, TypeOK
<1> DEFINE b == [m \in Member |-> IF m \in sel THEN InitialBundleMember(tree[m])
                                             ELSE NoRec]
<1>2. b \in Bundle /\ sel \subseteq Selected(b)
  BY InitialRecType, NoRecAssumption DEF Bundle, Selected
<1>3. mem' = [mem EXCEPT ![p] = b]
  OBVIOUS
<1> HIDE DEF b
<1>4. TypeOK'
  BY <1>1, <1>2, <1>3, StashAssumption DEF TypeOK, LockTypeOK, native
<1>5. WorkInMemory'
  BY <1>2, <1>3 DEF WorkInMemory, TypeOK
<1>6. GuardInSection'
  BY DEF GuardInSection, InSection, TypeOK
<1> QED
  BY <1>4, <1>5, <1>6

LEMMA RestorePlanIInv ==
  ASSUME IInv, NEW p \in Proc, NEW op \in RestoreOp, NEW i \in StashId,
         NEW sel \in SUBSET Member, RestorePlan(p, op, i, sel)
  PROVE  IInv'
<1> DEFINE chosen  == IF sel = {} THEN EligibleBundleMembers(bundles[i]) ELSE sel
           planned == Planned(bundles[i], chosen)
           r       == [op |-> op, id |-> i, opt |-> NoOption, sel |-> chosen,
                       seen |-> Observed({})]
<1>1. r \in Req
  BY DEF IInv, TypeOK, Req, Option, NoOption, Observed, EligibleBundleMembers,
         Selected, RestoreOp
<1>2. planned \subseteq Selected(bundles[i]) /\ bundles[i] \in Bundle
  BY DEF Planned, RestorePlan, IInv, TypeOK
<1>3. /\ req' = [req EXCEPT ![p] = r]
      /\ mem' = [mem EXCEPT ![p] = bundles[i]]
      /\ todo' = [todo EXCEPT ![p] = planned]
      /\ pc[p] = "idle" /\ pc' = [pc EXCEPT ![p] = "plan"]
      /\ clock <= MaxRequests /\ clock' = clock + 1
      /\ UNCHANGED <<holder, tree, stack, nextOid, bundles, edits, cur>>
  BY DEF RestorePlan, native
<1>4. planned \subseteq Member
  BY <1>2 DEF Selected
<1> HIDE DEF planned, r
<1>5. TypeOK'
  BY <1>1, <1>2, <1>3, <1>4, StashAssumption DEF IInv, TypeOK, LockTypeOK
<1>6. WorkInMemory'
  <2>1. req'[p].op \in RestoreOp
    BY <1>3 DEF r, IInv, TypeOK
  <2> QED
    BY <1>2, <1>3, <2>1 DEF WorkInMemory, IInv, TypeOK
<1>7. GuardInSection'
  BY <1>3 DEF GuardInSection, InSection, IInv, TypeOK
<1> QED
  BY <1>5, <1>6, <1>7 DEF IInv

\* try_acquire gives the guard to p: nobody is in the section.
LEMMA AcquireIInv ==
  ASSUME IInv, NEW p \in Proc, PushAcquire(p) \/ RestoreAcquire(p)
  PROVE  IInv'
<1> USE DEF IInv, PushAcquire, RestoreAcquire, Acquire
<1>1. TypeOK' /\ WorkInMemory'
  BY DEF TypeOK, LockTypeOK, WorkInMemory, native
<1>2. GuardInSection'
  BY NoProcAssumption DEF GuardInSection, InSection, TypeOK
<1> QED
  BY <1>1, <1>2

\* A step inside the section: p moves on, handles some of its members and
\* rewrites records in its memory; it keeps its guard, its request and every
\* record it has.
LEMMA ProgressIInv ==
  ASSUME IInv, NEW p \in Proc, InSection(p),
         NEW l \in {"push", "saving", "record", "restore"},
         NEW c \in Member \cup {NoMember}, NEW t \in SUBSET todo[p],
         NEW b \in Bundle, Selected(mem[p]) \subseteq Selected(b),
         l \in {"saving", "record"} => c \in Member,
         l = "restore" => req[p].op \in RestoreOp,
         pc' = [pc EXCEPT ![p] = l], cur' = [cur EXCEPT ![p] = c],
         todo' = [todo EXCEPT ![p] = t], mem' = [mem EXCEPT ![p] = b],
         tree' \in [Member -> SUBSET Kind], stack' \in [Member -> SUBSET Entry],
         nextOid' \in Nat \ {0}, bundles' \in [StashId -> Bundle],
         UNCHANGED <<holder, clock, edits, req>>
  PROVE  IInv'
<1> USE DEF IInv
<1>1. t \in SUBSET Member
  BY DEF TypeOK
<1>2. TypeOK'
  BY <1>1 DEF TypeOK, LockTypeOK
<1>3. WorkInMemory'
  BY DEF WorkInMemory, TypeOK
<1>4. GuardInSection'
  BY DEF GuardInSection, InSection, TypeOK
<1> QED
  BY <1>2, <1>3, <1>4

LEMMA PushSkipIInv ==
  ASSUME IInv, NEW p \in Proc, NEW m \in Member, PushSkip(p, m) PROVE IInv'
<1> DEFINE b == [mem[p] EXCEPT ![m] = MemberRec("empty", "noop", 0)]
<1>1. b \in Bundle /\ Selected(mem[p]) \subseteq Selected(b)
  BY MemberRecType, RecordIInv
<1>2. WriteBundle(req[p].id, b) /\ mem' = [mem EXCEPT ![p] = b]
  BY DEF PushSkip
<1> HIDE DEF b
<1>3. bundles' \in [StashId -> Bundle]
  BY <1>1, <1>2, WriteType DEF IInv
<1>4. /\ pc[p] = "push" /\ pc' = [pc EXCEPT ![p] = "push"]
      /\ cur' = [cur EXCEPT ![p] = cur[p]] /\ cur[p] \in Member \cup {NoMember}
      /\ todo' = [todo EXCEPT ![p] = todo[p] \ {m}]
      /\ UNCHANGED <<holder, tree, stack, nextOid, clock, edits, req>>
  BY DEF PushSkip, native, IInv, TypeOK
<1>5. todo[p] \ {m} \in SUBSET todo[p]
  OBVIOUS
<1> QED
  BY <1>1, <1>2, <1>3, <1>4, <1>5, ProgressIInv DEF IInv, TypeOK, InSection

LEMMA PushIntentIInv ==
  ASSUME IInv, NEW p \in Proc, NEW m \in Member, PushIntent(p, m) PROVE IInv'
<1> DEFINE b == [mem[p] EXCEPT ![m] = MemberRec("saving", "missing", 0)]
<1>1. b \in Bundle /\ Selected(mem[p]) \subseteq Selected(b)
  BY MemberRecType, RecordIInv
<1>2. WriteBundle(req[p].id, b) /\ mem' = [mem EXCEPT ![p] = b]
  BY DEF PushIntent
<1> HIDE DEF b
<1>3. bundles' \in [StashId -> Bundle]
  BY <1>1, <1>2, WriteType DEF IInv
<1>4. /\ pc[p] = "push" /\ pc' = [pc EXCEPT ![p] = "saving"]
      /\ cur' = [cur EXCEPT ![p] = m]
      /\ todo' = [todo EXCEPT ![p] = todo[p] \ {m}]
      /\ UNCHANGED <<holder, tree, stack, nextOid, clock, edits, req>>
  BY DEF PushIntent, native
<1>5. todo[p] \ {m} \in SUBSET todo[p]
  OBVIOUS
<1> QED
  BY <1>1, <1>2, <1>3, <1>4, <1>5, ProgressIInv DEF IInv, TypeOK, InSection

LEMMA PushNativeIInv ==
  ASSUME IInv, NEW p \in Proc, PushNative(p) PROVE IInv'
<1> DEFINE m == cur[p]
           b == [mem[p] EXCEPT ![m] = MemberRec("saved", "pending", nextOid)]
           taken == Stashable(tree[m], req[p].opt)
           entry == [id |-> req[p].id, oid |-> nextOid, kinds |-> taken]
<1>1. m \in Member /\ pc[p] = "saving" /\ nextOid \in Nat
  BY DEF PushNative, IInv, WorkInMemory, TypeOK
<1>2. b \in Bundle /\ Selected(mem[p]) \subseteq Selected(b)
  BY <1>1, MemberRecType, RecordIInv
<1>3. entry \in Entry
  BY <1>1, StashableType DEF Entry, IInv, TypeOK, Req, Foreign
<1>4. mem' = [mem EXCEPT ![p] = b]
  BY <1>1 DEF PushNative, IInv, TypeOK
<1>5. /\ tree' \in [Member -> SUBSET Kind]
      /\ stack' \in [Member -> SUBSET Entry]
      /\ nextOid' \in Nat \ {0}
      /\ bundles' \in [StashId -> Bundle]
  BY <1>1, <1>3 DEF PushNative, IInv, TypeOK
<1> HIDE DEF b
<1>6. /\ pc' = [pc EXCEPT ![p] = "record"]
      /\ cur' = [cur EXCEPT ![p] = m]
      /\ todo' = [todo EXCEPT ![p] = todo[p]]
      /\ UNCHANGED <<holder, clock, edits, req>>
  BY DEF PushNative, IInv, TypeOK
<1> QED
  BY <1>1, <1>2, <1>4, <1>5, <1>6, ProgressIInv DEF InSection

LEMMA PushNativeFailsIInv ==
  ASSUME IInv, NEW p \in Proc, PushNativeFails(p) PROVE IInv'
<1> DEFINE b == [mem[p] EXCEPT ![cur[p]] = MemberRec("failed", "missing", 0)]
<1>1. cur[p] \in Member /\ pc[p] = "saving"
  BY DEF PushNativeFails, IInv, WorkInMemory
<1>2. b \in Bundle /\ Selected(mem[p]) \subseteq Selected(b)
  BY MemberRecType, RecordIInv
<1>3. mem' = [mem EXCEPT ![p] = b]
  BY <1>1 DEF PushNativeFails, IInv, TypeOK
<1> HIDE DEF b
<1>4. /\ pc' = [pc EXCEPT ![p] = "record"]
      /\ cur' = [cur EXCEPT ![p] = cur[p]]
      /\ todo' = [todo EXCEPT ![p] = todo[p]]
      /\ UNCHANGED <<holder, tree, stack, nextOid, bundles, clock, edits, req>>
  BY DEF PushNativeFails, native, IInv, TypeOK
<1> QED
  BY <1>1, <1>2, <1>3, <1>4, ProgressIInv DEF InSection, IInv, TypeOK

LEMMA PushRecordIInv ==
  ASSUME IInv, NEW p \in Proc, PushRecord(p) PROVE IInv'
<1>1. mem[p] \in Bundle /\ bundles' \in [StashId -> Bundle]
  BY WriteType DEF PushRecord, IInv, TypeOK
<1>2. /\ pc[p] = "record" /\ pc' = [pc EXCEPT ![p] = "push"]
      /\ cur' = [cur EXCEPT ![p] = NoMember]
      /\ todo' = [todo EXCEPT ![p] = todo[p]]
      /\ mem' = [mem EXCEPT ![p] = mem[p]]
      /\ UNCHANGED <<holder, tree, stack, nextOid, clock, edits, req>>
  BY DEF PushRecord, native, IInv, TypeOK
<1> QED
  BY <1>1, <1>2, ProgressIInv DEF InSection, IInv, TypeOK

LEMMA RestoreMemberIInv ==
  ASSUME IInv, NEW p \in Proc, NEW m \in Member, RestoreMember(p, m)
  PROVE  IInv'
<1> DEFINE r == [mem[p][m] EXCEPT !.restore = RestoredState(req[p].op)]
           b == [mem[p] EXCEPT ![m] = r]
<1>1. mem[p] \in Bundle /\ mem[p][m] \in Rec /\ req[p].op \in RestoreOp
  BY DEF RestoreMember, IInv, WorkInMemory, Selected, TypeOK, Bundle
<1>2. r \in Rec
  BY <1>1, RestoredType
<1>3. b \in Bundle /\ Selected(mem[p]) \subseteq Selected(b)
  BY <1>2, RecordIInv
<1>4. mem' = [mem EXCEPT ![p] = b]
  BY <1>1 DEF RestoreMember, IInv, TypeOK
<1> HIDE DEF b
<1>5. tree' \in [Member -> SUBSET Kind] /\ stack' \in [Member -> SUBSET Entry]
  <2>1. PICK entry \in Resolved(m, req[p].id, mem[p][m].oid) :
          /\ tree'  = IF req[p].op = "drop" THEN tree
                      ELSE [tree EXCEPT ![m] = @ \cup entry.kinds]
          /\ stack' = IF req[p].op = "apply" THEN stack
                      ELSE [stack EXCEPT ![m] = @ \ {entry}]
    BY DEF RestoreMember
  <2>2. entry \in stack[m]
    BY DEF Resolved, Matching
  <2>3. entry.kinds \in SUBSET Kind
    BY <2>2 DEF IInv, TypeOK, Entry
  <2> QED
    BY <2>1, <2>3 DEF IInv, TypeOK
<1>6. /\ pc[p] = "restore" /\ pc' = [pc EXCEPT ![p] = "restore"]
      /\ cur' = [cur EXCEPT ![p] = cur[p]]
      /\ todo' = [todo EXCEPT ![p] = todo[p] \ {m}]
      /\ UNCHANGED <<holder, nextOid, bundles, clock, edits, req>>
  BY DEF RestoreMember, IInv, TypeOK
<1>7. todo[p] \ {m} \in SUBSET todo[p]
  OBVIOUS
<1> QED
  BY <1>1, <1>3, <1>4, <1>5, <1>6, <1>7, ProgressIInv DEF InSection, IInv, TypeOK

\* The endings of restore write memory, or nothing.
LEMMA RestoreEndsIInv ==
  ASSUME IInv, NEW p \in Proc,
         RestoreFinish(p) \/ \E m \in Member : RestoreFails(p, m)
  PROVE  IInv'
<1>1. mem[p] \in Bundle
  BY DEF IInv, TypeOK
<1>2. CASE RestoreFinish(p)
  <2>1. bundles' \in [StashId -> Bundle]
    BY <1>1, <1>2, NoBundleType, WriteType DEF RestoreFinish, IInv
  <2> QED
    BY <1>2, <2>1, EndIInv DEF RestoreFinish
<1>3. ASSUME NEW m \in Member, RestoreFails(p, m) PROVE IInv'
  <2> DEFINE r == [mem[p][m] EXCEPT !.restore = "missing"]
             lost == [mem[p] EXCEPT ![m] = r]
  <2>1. mem[p][m] \in Rec
    BY <1>1, <1>3 DEF RestoreFails, IInv, WorkInMemory, Selected, Bundle
  <2>2. lost \in Bundle
    BY <1>1, <2>1, BundleType DEF Rec
  <2>3. WriteBundle(req[p].id, lost) \/ WriteBundle(req[p].id, mem[p])
    BY <1>3 DEF RestoreFails
  <2> HIDE DEF lost
  <2>4. bundles' \in [StashId -> Bundle]
    BY <1>1, <2>2, <2>3, WriteType DEF IInv
  <2> QED
    BY <1>3, <2>4, EndIInv DEF RestoreFails
<1> QED
  BY <1>2, <1>3

-----------------------------------------------------------------------------
LEMMA RegisterIInv ==
  ASSUME IInv, NEW p \in Proc, PushRegister(p) PROVE IInv'
<1>1. bundles' \in [StashId -> Bundle]
  BY WriteType DEF PushRegister, IInv, TypeOK
<1>2. TypeOK' /\ WorkInMemory'
  BY <1>1 DEF PushRegister, IInv, TypeOK, LockTypeOK, WorkInMemory, native
<1>3. GuardInSection'
  BY DEF PushRegister, GuardInSection, InSection, IInv, TypeOK
<1> QED
  BY <1>2, <1>3 DEF IInv

\* The user touches worktrees, native entries and bundle files only.
LEMMA UserIInv ==
  ASSUME IInv, User PROVE IInv'
<1>1. /\ edits' \in 0 .. MaxEdits
      /\ UNCHANGED <<holder, clock, pc, req, mem, todo, cur>>
  BY StashAssumption DEF User, process, IInv, TypeOK
<1> DEFINE Typed == /\ tree' \in [Member -> SUBSET Kind]
                    /\ stack' \in [Member -> SUBSET Entry]
                    /\ nextOid' \in Nat \ {0}
                    /\ bundles' \in [StashId -> Bundle]
<1>2. ASSUME NEW m \in Member, NEW k \in Kind, UserEdits(m, k) PROVE Typed
  BY <1>2 DEF UserEdits, IInv, TypeOK
<1>3. ASSUME NEW m \in Member, UserSettles(m) PROVE Typed
  BY <1>3 DEF UserSettles, IInv, TypeOK
<1>4. ASSUME NEW m \in Member, UserStashes(m) PROVE Typed
  <2> DEFINE taken == Stashable(tree[m], NoOption)
             entry == [id |-> Foreign, oid |-> nextOid, kinds |-> taken]
  <2>1. taken \in SUBSET Kind
    BY StashableType DEF IInv, TypeOK
  <2> HIDE DEF taken
  <2>2. entry \in Entry
    BY <2>1 DEF Entry, IInv, TypeOK
  <2>3. /\ stack' = [stack EXCEPT ![m] = @ \cup {entry}]
        /\ tree' = [tree EXCEPT ![m] = @ \ taken]
        /\ nextOid' = nextOid + 1 /\ bundles' = bundles
    BY <1>4 DEF UserStashes, taken
  <2> HIDE DEF entry
  <2> QED
    BY <2>2, <2>3 DEF IInv, TypeOK
<1>5. ASSUME NEW m \in Member, UserDrops(m) PROVE Typed
  BY <1>5 DEF UserDrops, IInv, TypeOK
<1>6. ASSUME NEW i \in StashId, UserForgets(i) PROVE Typed
  BY <1>6, NoBundleType, WriteType DEF UserForgets, native, IInv, TypeOK
<1>7. Typed
  BY <1>2, <1>3, <1>4, <1>5, <1>6 DEF User
<1> QED
  BY <1>1, <1>7 DEF IInv, TypeOK, LockTypeOK, WorkInMemory, GuardInSection, InSection

-----------------------------------------------------------------------------
LEMMA StepIInv == IInv /\ [Next]_vars => IInv'
<1> SUFFICES ASSUME IInv, [Next]_vars PROVE IInv'
  OBVIOUS
<1>1. ASSUME NEW p \in Proc, Request(p) PROVE IInv'
  BY <1>1, PushPlanIInv, RestorePlanIInv DEF Request
<1>2. ASSUME NEW p \in Proc, Continue(p) PROVE IInv'
  <2>1. CASE PushRegister(p)
    BY <2>1, RegisterIInv
  <2>2. CASE PushAcquire(p) \/ RestoreAcquire(p)
    BY <2>2, AcquireIInv
  <2>3. CASE \E m \in Member : PushSkip(p, m) \/ PushIntent(p, m)
    BY <2>3, PushSkipIInv, PushIntentIInv
  <2>4. CASE PushNative(p) \/ PushNativeFails(p) \/ PushRecord(p)
    BY <2>4, PushNativeIInv, PushNativeFailsIInv, PushRecordIInv
  <2>5. CASE \E m \in Member : RestoreMember(p, m)
    BY <2>5, RestoreMemberIInv
  <2>6. CASE RestoreFinish(p) \/ \E m \in Member : RestoreFails(p, m)
    BY <2>6, RestoreEndsIInv
  <2>7. CASE PushDone(p) \/ LockBusy(p)
    BY <2>7, EndIInv DEF PushDone, LockBusy, IInv, TypeOK
  <2> QED
    BY <1>2, <2>1, <2>2, <2>3, <2>4, <2>5, <2>6, <2>7 DEF Continue
<1>3. ASSUME NEW p \in Proc, Die(p) PROVE IInv'
  BY <1>3, EndIInv DEF Die, IInv, TypeOK
<1>4. CASE User
  BY <1>4, UserIInv
<1>5. CASE UNCHANGED vars
  BY <1>5 DEF vars, native, process, IInv, TypeOK, LockTypeOK, WorkInMemory,
              GuardInSection, InSection
<1> QED
  BY <1>1, <1>2, <1>3, <1>4, <1>5 DEF Next

\* Every state a stash operation, a crash or a user can lead to is well typed:
\* in particular a restore never touches a record its bundle does not have.
THEOREM TypeCorrect == Spec => []TypeOK
<1>1. IInv => TypeOK
  BY DEF IInv
<1> QED
  BY InitIInv, StepIInv, <1>1, PTL DEF Spec

\* No two processes are ever between try_acquire and the end of their
\* operation together, for any number of processes and wherever they die.
THEOREM Exclusion == Spec => []MutatorExclusion
<1>1. IInv => MutatorExclusion
  BY DEF IInv, GuardInSection, MutatorExclusion
<1> QED
  BY InitIInv, StepIInv, <1>1, PTL DEF Spec
-----------------------------------------------------------------------------
(* Payloads, and what a bundle file or the copy in a process says of them.   *)
(* An object id is given once.                                               *)

PayloadsOnce ==
  \A m \in Member : \A e, f \in stack[m] :
    e.oid > 0 /\ e.oid < nextOid /\ (e.oid = f.oid => e = f)

\* What a copy b of bundle i says of the entries s: the object it names is one
\* of this bundle, and is gone once it is recorded as popped or dropped.
Truthful(b, i, s, n) ==
  \A m \in Selected(b) :
    /\ b[m].oid < n
    /\ \A e \in s[m] :
         e.oid = b[m].oid => e.id = i /\ b[m].restore \notin {"popped", "dropped"}

Payloads ==
  /\ PayloadsOnce
  /\ \A i \in StashId : Truthful(bundles[i], i, stack, nextOid)
  /\ \A p \in Proc : Truthful(mem[p], req[p].id, stack, nextOid)

LEMMA NoBundleTruthful ==
  ASSUME NEW i, NEW s, NEW n PROVE Truthful(NoBundle, i, s, n)
BY DEF Truthful, Selected, NoBundle

\* A record is replaced by one that is true.
LEMMA RecordTruthful ==
  ASSUME NEW b \in Bundle, NEW i, NEW s, NEW n, Truthful(b, i, s, n),
         NEW m \in Member, NEW r \in Rec, r.oid < n,
         \A e \in s[m] : e.oid = r.oid => e.id = i /\ r.restore \notin {"popped", "dropped"}
  PROVE  Truthful([b EXCEPT ![m] = r], i, s, n)
<1> DEFINE c == [b EXCEPT ![m] = r]
<1>1. \A k \in Selected(c) : (k = m /\ c[k] = r) \/ (k \in Selected(b) /\ c[k] = b[k])
  BY DEF Bundle, Selected
<1> HIDE DEF c
<1>2. Truthful(c, i, s, n)
  BY <1>1 DEF Truthful
<1> QED
  BY <1>2 DEF c

\* Entries that come later have objects no copy knows of yet.
LEMMA StaysTruthful ==
  ASSUME NEW b \in Bundle, NEW i, NEW s, NEW n \in Nat, Truthful(b, i, s, n),
         NEW t, NEW k \in Nat, n <= k,
         \A m \in Member : \A e \in t[m] : e \in s[m] \/ e.oid = n
  PROVE  Truthful(b, i, t, k)
<1> SUFFICES ASSUME NEW m \in Selected(b)
             PROVE  /\ b[m].oid < k
                    /\ \A e \in t[m] : e.oid = b[m].oid =>
                         e.id = i /\ b[m].restore \notin {"popped", "dropped"}
  BY DEF Truthful
<1>1. b[m].oid \in Nat /\ b[m].oid < n /\ m \in Member
  BY DEF Truthful, Selected, Bundle, Rec
<1> QED
  BY <1>1 DEF Truthful

\* The file of a bundle is written.
LEMMA WriteTruthful ==
  ASSUME Payloads, TypeOK, NEW p \in Proc, NEW b,
         Truthful(b, req[p].id, stack, nextOid), WriteBundle(req[p].id, b)
  PROVE  \A i \in StashId : Truthful(bundles'[i], i, stack, nextOid)
BY DEF Payloads, TypeOK, WriteBundle

LEMMA CopiesPayloads ==
  ASSUME Payloads, UNCHANGED <<stack, nextOid>>,
         \A i \in StashId : Truthful(bundles'[i], i, stack, nextOid),
         \A p \in Proc : Truthful(mem'[p], req'[p].id, stack, nextOid)
  PROVE  Payloads'
BY DEF Payloads, PayloadsOnce

\* The end of an operation forgets what it remembered.
LEMMA EndPayloads ==
  ASSUME IInv, Payloads, NEW p \in Proc, End(p), UNCHANGED <<stack, nextOid>>,
         \A i \in StashId : Truthful(bundles'[i], i, stack, nextOid)
  PROVE  Payloads'
<1>1. \A q \in Proc : Truthful(mem'[q], req'[q].id, stack, nextOid)
  BY NoBundleTruthful DEF End, IInv, TypeOK, Payloads
<1> QED
  BY <1>1, CopiesPayloads

\* What a push or a restore writes and remembers, with the entries as they are.
LEMMA RememberPayloads ==
  ASSUME IInv, Payloads, NEW p \in Proc, NEW b, NEW i,
         Truthful(b, i, stack, nextOid),
         mem' = [mem EXCEPT ![p] = b], req'[p].id = i,
         \A q \in Proc \ {p} : req'[q] = req[q],
         UNCHANGED <<stack, nextOid>>,
         UNCHANGED bundles \/ (i = req[p].id /\ WriteBundle(req[p].id, b))
  PROVE  Payloads'
<1>1. \A q \in Proc : Truthful(mem'[q], req'[q].id, stack, nextOid)
  BY DEF IInv, TypeOK, Payloads
<1>2. \A j \in StashId : Truthful(bundles'[j], j, stack, nextOid)
  BY WriteTruthful DEF IInv, Payloads
<1> QED
  BY <1>1, <1>2, CopiesPayloads

LEMMA PushPlanPayloads ==
  ASSUME IInv, Payloads, NEW p \in Proc, NEW sel \in (SUBSET Member) \ {{}},
         NEW i \in StashId, NEW opt \in PushOptions, PushPlan(p, sel, i, opt)
  PROVE  Payloads'
<1> DEFINE b == [m \in Member |-> IF m \in sel THEN InitialBundleMember(tree[m])
                                             ELSE NoRec]
<1>1. \A m \in Selected(b) : b[m].oid = 0
  BY DEF Selected, InitialBundleMember, MemberRec
<1>2. /\ mem' = [mem EXCEPT ![p] = b]
      /\ req' = [req EXCEPT ![p] = [op |-> "push", id |-> i, opt |-> opt,
                                    sel |-> sel, seen |-> Observed(sel)]]
      /\ UNCHANGED <<stack, nextOid, bundles>>
  BY DEF PushPlan, native
<1> HIDE DEF b
<1>3. Truthful(b, i, stack, nextOid)
  BY <1>1 DEF Truthful, Selected, Payloads, PayloadsOnce, IInv, TypeOK
<1>4. req'[p].id = i /\ \A q \in Proc \ {p} : req'[q] = req[q]
  BY <1>2 DEF IInv, TypeOK
<1> QED
  BY <1>2, <1>3, <1>4, RememberPayloads

LEMMA RestorePlanPayloads ==
  ASSUME IInv, Payloads, NEW p \in Proc, NEW op \in RestoreOp, NEW i \in StashId,
         NEW sel \in SUBSET Member, RestorePlan(p, op, i, sel)
  PROVE  Payloads'
<1> DEFINE chosen == IF sel = {} THEN EligibleBundleMembers(bundles[i]) ELSE sel
<1>1. /\ mem' = [mem EXCEPT ![p] = bundles[i]]
      /\ req' = [req EXCEPT ![p] = [op |-> op, id |-> i, opt |-> NoOption,
                                    sel |-> chosen, seen |-> Observed({})]]
      /\ UNCHANGED <<stack, nextOid, bundles>>
  BY DEF RestorePlan, native
<1>2. Truthful(bundles[i], i, stack, nextOid)
  BY DEF Payloads
<1>3. req'[p].id = i /\ \A q \in Proc \ {p} : req'[q] = req[q]
  BY <1>1 DEF IInv, TypeOK
<1> QED
  BY <1>1, <1>2, <1>3, RememberPayloads

\* A push writes down that it has nothing to save, is about to, or failed to.
LEMMA PushMarksPayloads ==
  ASSUME IInv, Payloads, NEW p \in Proc, NEW m \in Member,
         \/ PushSkip(p, m) \/ PushIntent(p, m)
         \/ PushNativeFails(p) /\ m = cur[p]
  PROVE  Payloads'
<1>1. PICK r \in Rec :
        /\ r.oid = 0 /\ mem' = [mem EXCEPT ![p] = [mem[p] EXCEPT ![m] = r]]
        /\ UNCHANGED bundles \/ WriteBundle(req[p].id, [mem[p] EXCEPT ![m] = r])
        /\ UNCHANGED <<stack, nextOid, req>>
  <2>1. /\ MemberRec("empty", "noop", 0) \in Rec /\ MemberRec("empty", "noop", 0).oid = 0
        /\ MemberRec("saving", "missing", 0) \in Rec /\ MemberRec("saving", "missing", 0).oid = 0
        /\ MemberRec("failed", "missing", 0) \in Rec /\ MemberRec("failed", "missing", 0).oid = 0
    BY MemberRecType DEF MemberRec
  <2>2. CASE PushSkip(p, m)
    BY <2>1, <2>2 DEF PushSkip, native
  <2>3. CASE PushIntent(p, m)
    BY <2>1, <2>3 DEF PushIntent, native
  <2>4. CASE PushNativeFails(p) /\ m = cur[p]
    BY <2>1, <2>4 DEF PushNativeFails, native, IInv, TypeOK
  <2> QED
    BY <2>2, <2>3, <2>4
<1> DEFINE b == [mem[p] EXCEPT ![m] = r]
<1>2. Truthful(b, req[p].id, stack, nextOid)
  <2>1. \A e \in stack[m] : e.oid # r.oid
    BY <1>1 DEF Payloads, PayloadsOnce
  <2>2. r.oid < nextOid
    BY <1>1 DEF IInv, TypeOK
  <2>3. mem[p] \in Bundle /\ Truthful(mem[p], req[p].id, stack, nextOid)
    BY DEF IInv, TypeOK, Payloads
  <2> QED
    BY <2>1, <2>2, <2>3, RecordTruthful
<1> HIDE DEF b
<1>3. /\ mem' = [mem EXCEPT ![p] = b] /\ req' = req /\ UNCHANGED <<stack, nextOid>>
      /\ UNCHANGED bundles \/ WriteBundle(req[p].id, b)
  BY <1>1 DEF b
<1> QED
  BY <1>2, <1>3, RememberPayloads

\* A push writes what it remembers.
LEMMA PushWritesPayloads ==
  ASSUME IInv, Payloads, NEW p \in Proc, PushRegister(p) \/ PushRecord(p)
  PROVE  Payloads'
<1>1. WriteBundle(req[p].id, mem[p]) /\ UNCHANGED <<stack, nextOid, mem, req>>
  BY DEF PushRegister, PushRecord, native
<1>2. \A i \in StashId : Truthful(bundles'[i], i, stack, nextOid)
  BY <1>1, WriteTruthful DEF IInv, Payloads
<1> QED
  BY <1>1, <1>2, CopiesPayloads DEF Payloads

\* What Git saves is named by the record of it in memory, and by no other.
LEMMA PushNativePayloads ==
  ASSUME IInv, Payloads, NEW p \in Proc, PushNative(p)
  PROVE  Payloads'
<1> DEFINE m     == cur[p]
           taken == Stashable(tree[m], req[p].opt)
           entry == [id |-> req[p].id, oid |-> nextOid, kinds |-> taken]
           r     == MemberRec("saved", "pending", nextOid)
           b     == [mem[p] EXCEPT ![m] = r]
<1>1. m \in Member /\ nextOid \in Nat \ {0} /\ mem[p] \in Bundle
  BY DEF PushNative, IInv, WorkInMemory, TypeOK
<1>2. /\ stack' = [stack EXCEPT ![m] = @ \cup {entry}]
      /\ nextOid' = nextOid + 1 /\ UNCHANGED <<bundles, req>>
      /\ mem' = [mem EXCEPT ![p] = b]
  BY <1>1 DEF PushNative, IInv, TypeOK
<1>3. r \in Rec /\ r.oid = nextOid /\ r.restore = "pending"
  BY <1>1, MemberRecType DEF MemberRec
<1>4. entry.oid = nextOid /\ entry.id = req[p].id
  OBVIOUS
<1> HIDE DEF entry, b, r
<1>5. /\ \A k \in Member : \A e \in stack'[k] : e \in stack[k] \/ (e = entry /\ k = m)
      /\ nextOid <= nextOid' /\ nextOid' \in Nat
  BY <1>1, <1>2 DEF IInv, TypeOK
<1>6. PayloadsOnce'
  <2> SUFFICES ASSUME NEW k \in Member, NEW e \in stack'[k], NEW f \in stack'[k]
               PROVE  e.oid > 0 /\ e.oid < nextOid' /\ (e.oid = f.oid => e = f)
    BY DEF PayloadsOnce
  <2>1. ASSUME NEW x \in stack[k] PROVE x.oid \in Nat /\ x.oid > 0 /\ x.oid < nextOid
    BY DEF IInv, TypeOK, Entry, Payloads, PayloadsOnce
  <2>2. e \in stack[k] /\ f \in stack[k] => (e.oid = f.oid => e = f)
    BY DEF Payloads, PayloadsOnce
  <2> QED
    BY <1>1, <1>2, <1>4, <1>5, <2>1, <2>2
<1>7. ASSUME NEW c \in Bundle, NEW i, Truthful(c, i, stack, nextOid)
      PROVE  Truthful(c, i, stack', nextOid')
  <2>1. \A k \in Member : \A e \in stack'[k] : e \in stack[k] \/ e.oid = nextOid
    BY <1>4, <1>5
  <2> QED
    BY <1>1, <1>5, <1>7, <2>1, StaysTruthful
<1>8. Truthful(b, req[p].id, stack', nextOid')
  <2>1. Truthful(mem[p], req[p].id, stack', nextOid')
    BY <1>1, <1>7 DEF Payloads
  <2>2. \A e \in stack'[m] : e.oid = r.oid => e.id = req[p].id
    BY <1>1, <1>3, <1>4, <1>5 DEF Payloads, PayloadsOnce, IInv, TypeOK, Entry
  <2>3. r.oid < nextOid'
    BY <1>1, <1>2, <1>3
  <2> QED
    BY <1>1, <1>3, <2>1, <2>2, <2>3, RecordTruthful DEF b
<1>9. \A q \in Proc : Truthful(mem'[q], req'[q].id, stack', nextOid')
  <2>1. ASSUME NEW q \in Proc \ {p} PROVE mem'[q] = mem[q] /\ mem[q] \in Bundle
    BY <1>2 DEF IInv, TypeOK
  <2>2. mem'[p] = b
    BY <1>2 DEF IInv, TypeOK
  <2> QED
    BY <1>2, <1>7, <1>8, <2>1, <2>2 DEF Payloads
<1>10. \A i \in StashId : Truthful(bundles'[i], i, stack', nextOid')
  BY <1>2, <1>7 DEF Payloads, IInv, TypeOK
<1> QED
  BY <1>6, <1>9, <1>10 DEF Payloads

\* The entry a restore acts on: its own, if it is there, or one of its bundle
\* in its place.
LEMMA ResolvedEntry ==
  ASSUME Payloads, NEW p \in Proc, NEW m \in Selected(mem[p]),
         NEW entry \in Resolved(m, req[p].id, mem[p][m].oid)
  PROVE  /\ entry \in stack[m] /\ entry.id = req[p].id
         /\ \/ entry.oid = mem[p][m].oid
            \/ \A f \in stack[m] : f.oid # mem[p][m].oid
<1>1. entry \in Matching(m, req[p].id, mem[p][m].oid)
  BY DEF Resolved
<1>2. Truthful(mem[p], req[p].id, stack, nextOid)
  BY DEF Payloads
<1> QED
  BY <1>1, <1>2 DEF Matching, Truthful

LEMMA RestoreMemberPayloads ==
  ASSUME IInv, Payloads, NEW p \in Proc, NEW m \in Member, RestoreMember(p, m)
  PROVE  Payloads'
<1> DEFINE r == [mem[p][m] EXCEPT !.restore = RestoredState(req[p].op)]
           b == [mem[p] EXCEPT ![m] = r]
<1>1. /\ mem[p] \in Bundle /\ mem[p][m] \in Rec /\ m \in Selected(mem[p])
      /\ req[p].op \in RestoreOp
  BY DEF RestoreMember, IInv, WorkInMemory, Selected, TypeOK, Bundle
<1>2. r \in Rec /\ r.oid = mem[p][m].oid /\ r.restore = RestoredState(req[p].op)
  BY <1>1, RestoredType DEF Rec
<1>3. /\ mem' = [mem EXCEPT ![p] = b] /\ UNCHANGED <<bundles, nextOid, req>>
  BY <1>1 DEF RestoreMember, IInv, TypeOK
<1>4. PICK entry \in Resolved(m, req[p].id, mem[p][m].oid) :
        stack' = IF req[p].op = "apply" THEN stack
                 ELSE [stack EXCEPT ![m] = @ \ {entry}]
  BY DEF RestoreMember
<1> HIDE DEF b, r
<1>5. \A k \in Member : stack'[k] \subseteq stack[k]
  BY <1>4 DEF IInv, TypeOK
<1>6. PayloadsOnce'
  BY <1>3, <1>5 DEF Payloads, PayloadsOnce
<1>7. ASSUME NEW c \in Bundle, NEW i, Truthful(c, i, stack, nextOid)
      PROVE  Truthful(c, i, stack', nextOid)
  BY <1>5, <1>7, StaysTruthful DEF IInv, TypeOK
<1>8. Truthful(b, req[p].id, stack', nextOid)
  <2>1. Truthful(mem[p], req[p].id, stack', nextOid)
    BY <1>1, <1>7 DEF Payloads
  <2>2. r.oid < nextOid /\ \A e \in stack'[m] : e.oid = r.oid => e.id = req[p].id
    BY <1>1, <1>2, <2>1 DEF Truthful
  <2>3. r.restore \in {"popped", "dropped"} => req[p].op # "apply"
    BY <1>1, <1>2 DEF RestoredState, RestoreOp
  <2>4. req[p].op # "apply" => \A e \in stack'[m] : e.oid # r.oid
    <3> SUFFICES ASSUME req[p].op # "apply", NEW e \in stack'[m], e.oid = r.oid
                 PROVE  FALSE
      OBVIOUS
    <3>1. e \in stack[m] /\ e # entry
      BY <1>4 DEF IInv, TypeOK
    <3>2. entry \in stack[m] /\ entry.oid = r.oid
      BY <1>1, <1>2, <3>1, ResolvedEntry
    <3> QED
      BY <3>1, <3>2 DEF Payloads, PayloadsOnce
  <2> QED
    BY <1>1, <1>2, <2>1, <2>2, <2>3, <2>4, RecordTruthful DEF b
<1>9. \A q \in Proc : Truthful(mem'[q], req'[q].id, stack', nextOid)
  <2>1. ASSUME NEW q \in Proc \ {p} PROVE mem'[q] = mem[q] /\ mem[q] \in Bundle
    BY <1>3 DEF IInv, TypeOK
  <2>2. mem'[p] = b
    BY <1>3 DEF IInv, TypeOK
  <2> QED
    BY <1>3, <1>7, <1>8, <2>1, <2>2 DEF Payloads
<1>10. \A i \in StashId : Truthful(bundles'[i], i, stack', nextOid)
  BY <1>3, <1>7 DEF Payloads, IInv, TypeOK
<1> QED
  BY <1>3, <1>6, <1>9, <1>10 DEF Payloads

LEMMA RestoreEndsPayloads ==
  ASSUME IInv, Payloads, NEW p \in Proc,
         RestoreFinish(p) \/ \E m \in Member : RestoreFails(p, m)
  PROVE  Payloads'
<1>1. mem[p] \in Bundle /\ Truthful(mem[p], req[p].id, stack, nextOid)
  BY DEF IInv, TypeOK, Payloads
<1>2. ASSUME NEW b, Truthful(b, req[p].id, stack, nextOid), WriteBundle(req[p].id, b),
             End(p), UNCHANGED <<stack, nextOid>>
      PROVE  Payloads'
  BY <1>2, WriteTruthful, EndPayloads DEF IInv
<1>3. CASE RestoreFinish(p)
  BY <1>1, <1>2, <1>3, NoBundleTruthful DEF RestoreFinish, native
<1>4. ASSUME NEW m \in Member, RestoreFails(p, m) PROVE Payloads'
  <2> DEFINE r == [mem[p][m] EXCEPT !.restore = "missing"]
             lost == [mem[p] EXCEPT ![m] = r]
  <2>1. mem[p][m] \in Rec /\ m \in Selected(mem[p])
    BY <1>1, <1>4 DEF RestoreFails, IInv, WorkInMemory, Selected, Bundle
  <2>2. r \in Rec /\ r.oid = mem[p][m].oid /\ r.restore = "missing"
    BY <2>1 DEF Rec
  <2>3. /\ WriteBundle(req[p].id, lost) \/ WriteBundle(req[p].id, mem[p])
        /\ End(p) /\ UNCHANGED <<stack, nextOid>>
    BY <1>4 DEF RestoreFails, native
  <2> HIDE DEF r
  <2>4. Truthful(lost, req[p].id, stack, nextOid)
    <3>1. /\ r.oid < nextOid
          /\ \A e \in stack[m] : e.oid = r.oid => e.id = req[p].id
      BY <1>1, <2>1, <2>2 DEF Truthful
    <3> QED
      BY <1>1, <2>1, <2>2, <3>1, RecordTruthful DEF Selected
  <2> HIDE DEF lost
  <2> QED
    BY <1>1, <1>2, <2>3, <2>4
<1> QED
  BY <1>3, <1>4

\* Other tools take entries away, add entries of their own, and delete files.
LEMMA UserPayloads ==
  ASSUME IInv, Payloads, User PROVE Payloads'
<1>1. UNCHANGED <<mem, req>>
  BY DEF User, process
<1>2. ASSUME NEW m \in Member, NEW k \in Kind, UserEdits(m, k) PROVE Payloads'
  BY <1>1, <1>2, CopiesPayloads DEF UserEdits, Payloads
<1>3. ASSUME NEW m \in Member, UserSettles(m) PROVE Payloads'
  BY <1>1, <1>3, CopiesPayloads DEF UserSettles, Payloads
<1>4. ASSUME NEW i \in StashId, UserForgets(i) PROVE Payloads'
  <2>1. \A j \in StashId : bundles'[j] \in {bundles[j], NoBundle}
    BY <1>4 DEF UserForgets, WriteBundle, IInv, TypeOK
  <2>2. \A j \in StashId : Truthful(bundles'[j], j, stack, nextOid)
    BY <2>1, NoBundleTruthful DEF Payloads
  <2> QED
    BY <1>1, <1>4, <2>2, CopiesPayloads DEF UserForgets, native, Payloads
<1>5. ASSUME NEW m \in Member, UserStashes(m) \/ UserDrops(m) PROVE Payloads'
  <2>1. PICK new :
          /\ new.oid = nextOid
          /\ \A k \in Member : \A e \in stack'[k] : e \in stack[k] \/ e = new
          /\ nextOid' = nextOid + 1 \/ (nextOid' = nextOid /\ \A k \in Member : stack'[k] \subseteq stack[k])
    <3> DEFINE new == [id |-> Foreign, oid |-> nextOid, kinds |-> Stashable(tree[m], NoOption)]
    <3>1. new.oid = nextOid
      OBVIOUS
    <3>2. CASE UserStashes(m)
      BY <3>1, <3>2 DEF UserStashes, IInv, TypeOK
    <3>3. CASE UserDrops(m)
      BY <3>1, <3>3 DEF UserDrops, IInv, TypeOK
    <3> QED
      BY <1>5, <3>2, <3>3
  <2>2. UNCHANGED bundles
    BY <1>5 DEF UserStashes, UserDrops
  <2>3. nextOid \in Nat /\ nextOid' \in Nat /\ nextOid <= nextOid'
    BY <2>1 DEF IInv, TypeOK
  <2>4. PayloadsOnce'
    <3> SUFFICES ASSUME NEW k \in Member, NEW e \in stack'[k], NEW f \in stack'[k]
                 PROVE  e.oid > 0 /\ e.oid < nextOid' /\ (e.oid = f.oid => e = f)
      BY DEF PayloadsOnce
    <3>1. ASSUME NEW x \in stack[k] PROVE x.oid \in Nat /\ x.oid > 0 /\ x.oid < nextOid
      BY DEF IInv, TypeOK, Entry, Payloads, PayloadsOnce
    <3>2. e \in stack[k] /\ f \in stack[k] => (e.oid = f.oid => e = f)
      BY DEF Payloads, PayloadsOnce
    <3>3. nextOid > 0
      BY DEF IInv, TypeOK
    <3> QED
      BY <2>1, <2>3, <3>1, <3>2, <3>3
  <2>5. ASSUME NEW c \in Bundle, NEW i, Truthful(c, i, stack, nextOid)
        PROVE  Truthful(c, i, stack', nextOid')
    BY <2>1, <2>3, <2>5, StaysTruthful
  <2>6. \A q \in Proc : Truthful(mem'[q], req'[q].id, stack', nextOid')
    BY <1>1, <2>5 DEF Payloads, IInv, TypeOK
  <2>7. \A i \in StashId : Truthful(bundles'[i], i, stack', nextOid')
    BY <2>2, <2>5 DEF Payloads, IInv, TypeOK
  <2> QED
    BY <2>4, <2>6, <2>7 DEF Payloads
<1> QED
  BY <1>2, <1>3, <1>4, <1>5 DEF User

LEMMA InitPayloads == Init => Payloads
<1> SUFFICES ASSUME Init PROVE Payloads
  OBVIOUS
<1> QED
  BY NoBundleTruthful DEF Init, Payloads, PayloadsOnce

LEMMA StepPayloads == IInv /\ Payloads /\ [Next]_vars => Payloads'
<1> SUFFICES ASSUME IInv, Payloads, [Next]_vars PROVE Payloads'
  OBVIOUS
<1>1. ASSUME NEW p \in Proc, Request(p) PROVE Payloads'
  BY <1>1, PushPlanPayloads, RestorePlanPayloads DEF Request
<1>2. ASSUME NEW p \in Proc, Continue(p) PROVE Payloads'
  <2>1. CASE PushRegister(p) \/ PushRecord(p)
    BY <2>1, PushWritesPayloads
  <2>2. CASE PushAcquire(p) \/ RestoreAcquire(p)
    BY <2>2, CopiesPayloads DEF PushAcquire, RestoreAcquire, native, Payloads
  <2>3. CASE \E m \in Member : PushSkip(p, m) \/ PushIntent(p, m)
    BY <2>3, PushMarksPayloads
  <2>4. CASE PushNative(p)
    BY <2>4, PushNativePayloads
  <2>5. CASE PushNativeFails(p)
    BY <2>5, PushMarksPayloads DEF PushNativeFails, IInv, WorkInMemory
  <2>6. CASE \E m \in Member : RestoreMember(p, m)
    BY <2>6, RestoreMemberPayloads
  <2>7. CASE RestoreFinish(p) \/ \E m \in Member : RestoreFails(p, m)
    BY <2>7, RestoreEndsPayloads
  <2>8. CASE PushDone(p) \/ LockBusy(p)
    BY <2>8, EndPayloads DEF PushDone, LockBusy, native, Payloads
  <2> QED
    BY <1>2, <2>1, <2>2, <2>3, <2>4, <2>5, <2>6, <2>7, <2>8 DEF Continue
<1>3. ASSUME NEW p \in Proc, Die(p) PROVE Payloads'
  BY <1>3, EndPayloads DEF Die, native, Payloads
<1>4. CASE User
  BY <1>4, UserPayloads
<1>5. CASE UNCHANGED vars
  BY <1>5 DEF vars, native, process, Payloads, PayloadsOnce
<1> QED
  BY <1>1, <1>2, <1>3, <1>4, <1>5 DEF Next

\* A bundle that says a payload was popped or dropped is right, for any number
\* of processes and whatever stale copies of the bundle they write back: the
\* object is gone, and objects do not come back.
THEOREM ConsumedAreGone == Spec => []ConsumedIsGone
<1>1. Payloads => ConsumedIsGone
  BY DEF Payloads, Truthful, ConsumedIsGone
<1> QED
  BY InitIInv, StepIInv, InitPayloads, StepPayloads, <1>1, PTL DEF Spec

\* A pop or a drop takes only an entry of its own bundle, and the very object
\* recorded as long as it is there, however the entries moved since the plan.
THEOREM RestoreTakesItsOwn == Spec => RestoreMatchesBundle
<1> DEFINE Own(p, m) ==
      pc[p] = "restore" /\ m \in todo[p] /\ m \notin todo'[p] /\ stack'[m] # stack[m]
        => \A e \in stack[m] \ stack'[m] :
             /\ e.id = req[p].id
             /\ e.oid = mem[p][m].oid \/ \A f \in stack[m] : f.oid # mem[p][m].oid
<1>1. IInv /\ Payloads /\ [Next]_vars => [\A p \in Proc, m \in Member : Own(p, m)]_vars
  <2> SUFFICES ASSUME IInv, Payloads, [Next]_vars, NEW p \in Proc, NEW m \in Member,
                      pc[p] = "restore", m \in todo[p], m \notin todo'[p],
                      stack'[m] # stack[m], NEW e \in stack[m] \ stack'[m]
               PROVE  /\ e.id = req[p].id
                      /\ e.oid = mem[p][m].oid \/ \A f \in stack[m] : f.oid # mem[p][m].oid
    OBVIOUS
  <2>1. RestoreMember(p, m)
    <3>1. ASSUME NEW q \in Proc, Request(q) PROVE FALSE
      BY <3>1 DEF Request, PushPlan, RestorePlan, native
    <3>2. ASSUME NEW q \in Proc, Continue(q)
          PROVE  PushNative(q) \/ \E k \in Member : RestoreMember(q, k)
      BY <3>2 DEF Continue, PushRegister, PushAcquire, PushSkip, PushIntent, PushNativeFails,
         PushRecord, PushDone, RestoreAcquire, RestoreFails, RestoreFinish, LockBusy, native
    <3>3. ASSUME NEW q \in Proc, Die(q) PROVE FALSE
      BY <3>3 DEF Die, native
    <3>4. ~User /\ todo' # todo
      BY DEF User, process
    <3>5. ASSUME NEW q \in Proc, PushNative(q) PROVE FALSE
      BY <3>4, <3>5 DEF PushNative
    <3>6. ASSUME NEW q \in Proc, NEW k \in Member, RestoreMember(q, k) PROVE q = p /\ k = m
      BY <3>6 DEF RestoreMember, IInv, TypeOK
    <3> QED
      BY <3>1, <3>2, <3>3, <3>4, <3>5, <3>6 DEF Next, vars, native, process
  <2>2. PICK entry \in Resolved(m, req[p].id, mem[p][m].oid) :
          stack' = IF req[p].op = "apply" THEN stack
                   ELSE [stack EXCEPT ![m] = @ \ {entry}]
    BY <2>1 DEF RestoreMember
  <2>3. e = entry
    BY <2>2 DEF IInv, TypeOK
  <2>4. m \in Selected(mem[p])
    BY DEF IInv, WorkInMemory
  <2> QED
    BY <2>2, <2>3, <2>4, ResolvedEntry
<1> QED
  BY InitIInv, StepIInv, InitPayloads, StepPayloads, <1>1, PTL
     DEF Spec, RestoreMatchesBundle, Own
-----------------------------------------------------------------------------
(* Every push has an id of its own. *)

Pushing(p) == pc[p] \in {"register", "acquire", "push", "saving", "record"}

\* The members a push may yet take a payload from.
Left(p) == todo[p] \cup (IF pc[p] = "saving" THEN {cur[p]} ELSE {})

InWork(p) ==
  /\ req[p].id < clock
  /\ pc[p] # "idle" => req[p].id \in StashId /\ mem[p] # NoBundle
  /\ Pushing(p) =>
       /\ req[p].sel = Selected(mem[p])
       /\ pc[p] \in {"saving", "record"} => cur[p] \notin todo[p] /\ cur[p] \in req[p].sel
       /\ \A m \in Left(p) : \A e \in stack[m] : e.id # req[p].id

Fresh ==
  /\ \A i \in StashId : i >= clock => bundles[i] = NoBundle
  /\ \A m \in Member : \A e \in stack[m] : e.id < clock
  /\ \A p, q \in Proc : Pushing(p) /\ Pushing(q) /\ req[p].id = req[q].id => p = q
  /\ \A p \in Proc : InWork(p)

-----------------------------------------------------------------------------
(* What a push leaves decided: the members it has no more to do with, in its *)
(* memory, which its file follows while no member is in work.                *)

Deciding(p) ==
  Pushing(p) =>
    /\ req[p].sel # {}
    /\ pc[p] \in {"register", "acquire"} => todo[p] = req[p].sel
    /\ \A m \in req[p].sel \ Left(p) : mem[p][m].push \in {"saved", "empty", "failed"}
    /\ pc[p] = "push" /\ todo[p] # req[p].sel
         => bundles[req[p].id] \in {NoBundle, mem[p]}

Decides == \A p \in Proc : Deciding(p)

-----------------------------------------------------------------------------
(* The copies of a bundle, and the payloads they have on record. *)

Copies(i) ==
  {bundles[i]} \cup {mem[p] : p \in {q \in Proc : pc[q] # "idle" /\ req[q].id = i}}

OnRecord(b, i, s) ==
  b # NoBundle => \A m \in Member : \A e \in s[m] : e.id = i =>
    /\ m \in Selected(b)
    /\ \/ b[m].push = "saving"
       \/ b[m].push = "saved" /\ b[m].restore \in {"pending", "applied"} /\ b[m].oid = e.oid

Recorded ==
  /\ \A i \in StashId : \A b \in Copies(i) : OnRecord(b, i, stack)
  /\ \A p \in Proc : pc[p] = "saving" =>
       \/ bundles[req[p].id] = NoBundle
       \/ /\ cur[p] \in Selected(bundles[req[p].id])
          /\ bundles[req[p].id][cur[p]].push = "saving"

-----------------------------------------------------------------------------
(* What a copy of a bundle says is finished, and what its push has due. *)

Ahead(p) ==
  {m \in Member : \/ m \in todo[p] /\ StashPushNeeded(req[p].seen[m], req[p].opt)
                  \/ pc[p] = "saving" /\ m = cur[p]}

Due(i) == UNION {Ahead(p) : p \in {q \in Proc : Pushing(q) /\ req[q].id = i}}

\* A member that its push has yet to save is not finished in any copy, and a
\* payload of a member that is finished is the one the copy names.
Settled(b, i, s, d) ==
  b # NoBundle =>
    /\ d \subseteq Selected(b)
    /\ \A m \in Member : \A e \in s[m] : e.id = i => m \in Selected(b)
    /\ \A m \in Selected(b) :
         /\ b[m].push \in {"saved", "empty"} => m \notin d
         /\ b[m].push = "saved" => b[m].restore # "noop"
         /\ \A e \in s[m] : e.id = i /\ b[m].push \in {"saved", "empty"}
              => b[m].push = "saved" /\ e.oid = b[m].oid

AllSettled ==
  \A i \in StashId : \A b \in Copies(i) : Settled(b, i, stack, Due(i))

-----------------------------------------------------------------------------
(* Operations step by step: what one does to its process and to the stores. *)

Frame(p) ==
  \A q \in Proc \ {p} :
    /\ pc'[q] = pc[q] /\ req'[q] = req[q] /\ mem'[q] = mem[q]
    /\ todo'[q] = todo[q] /\ cur'[q] = cur[q]

Writes(i, b) == \A j \in StashId : bundles'[j] = IF j = i THEN b ELSE bundles[j]

LEMMA PushPlanDoes ==
  ASSUME IInv, NEW p \in Proc, NEW sel \in (SUBSET Member) \ {{}},
         NEW i \in StashId, NEW opt \in PushOptions, PushPlan(p, sel, i, opt)
  PROVE  /\ pc[p] = "idle" /\ pc'[p] = "register" /\ bundles[i] = NoBundle
         /\ FreshIds => i = clock
         /\ req'[p] = [op |-> "push", id |-> i, opt |-> opt, sel |-> sel, seen |-> Observed(sel)]
         /\ mem'[p] = [m \in Member |-> IF m \in sel THEN InitialBundleMember(tree[m]) ELSE NoRec]
         /\ todo'[p] = sel /\ clock' = clock + 1
         /\ UNCHANGED <<stack, bundles>> /\ Frame(p)
BY DEF PushPlan, Frame, native, IInv, TypeOK

LEMMA RestorePlanDoes ==
  ASSUME IInv, NEW p \in Proc, NEW op \in RestoreOp, NEW i \in StashId,
         NEW sel \in SUBSET Member, RestorePlan(p, op, i, sel)
  PROVE  /\ pc[p] = "idle" /\ pc'[p] = "plan" /\ bundles[i] # NoBundle
         /\ req'[p].id = i /\ mem'[p] = bundles[i]
         /\ clock' = clock + 1 /\ UNCHANGED <<stack, bundles>> /\ Frame(p)
<1> DEFINE chosen == IF sel = {} THEN EligibleBundleMembers(bundles[i]) ELSE sel
           r      == [op |-> op, id |-> i, opt |-> NoOption, sel |-> chosen,
                      seen |-> Observed({})]
<1>1. /\ req' = [req EXCEPT ![p] = r] /\ mem' = [mem EXCEPT ![p] = bundles[i]]
      /\ todo' = [todo EXCEPT ![p] = Planned(bundles[i], chosen)]
      /\ pc[p] = "idle" /\ pc' = [pc EXCEPT ![p] = "plan"] /\ bundles[i] # NoBundle
      /\ clock' = clock + 1 /\ UNCHANGED <<stack, bundles, cur>>
  BY DEF RestorePlan, native
<1>2. r.id = i
  OBVIOUS
<1> HIDE DEF r
<1> QED
  BY <1>1, <1>2 DEF Frame, IInv, TypeOK

LEMMA AcquireDoes ==
  ASSUME IInv, NEW p \in Proc, PushAcquire(p) \/ RestoreAcquire(p)
  PROVE  /\ \/ pc[p] = "acquire" /\ pc'[p] = "push"
            \/ pc[p] = "plan" /\ pc'[p] = "restore"
         /\ UNCHANGED <<stack, bundles, clock, req, mem, todo, cur>> /\ Frame(p)
BY DEF PushAcquire, RestoreAcquire, Frame, native, IInv, TypeOK

LEMMA PushRegisterDoes ==
  ASSUME IInv, NEW p \in Proc, PushRegister(p)
  PROVE  /\ pc[p] = "register" /\ pc'[p] = "acquire" /\ Writes(req[p].id, mem[p])
         /\ UNCHANGED <<stack, clock, req, mem, todo, cur>> /\ Frame(p)
BY DEF PushRegister, WriteBundle, Writes, Frame, native, IInv, TypeOK

LEMMA PushSkipDoes ==
  ASSUME IInv, NEW p \in Proc, NEW m \in Member, PushSkip(p, m)
  PROVE  /\ pc[p] = "push" /\ pc'[p] = "push" /\ m \in todo[p]
         /\ ~StashPushNeeded(req[p].seen[m], req[p].opt)
         /\ mem'[p] = [mem[p] EXCEPT ![m] = MemberRec("empty", "noop", 0)]
         /\ Writes(req[p].id, mem'[p]) /\ todo'[p] = todo[p] \ {m}
         /\ UNCHANGED <<stack, clock, req, cur>> /\ Frame(p)
<1> DEFINE b == [mem[p] EXCEPT ![m] = MemberRec("empty", "noop", 0)]
<1>1. WriteBundle(req[p].id, b) /\ mem' = [mem EXCEPT ![p] = b]
  BY DEF PushSkip
<1> HIDE DEF b
<1>2. mem'[p] = b /\ Writes(req[p].id, mem'[p])
  BY <1>1 DEF WriteBundle, Writes, IInv, TypeOK
<1> QED
  BY <1>1, <1>2 DEF PushSkip, Frame, native, IInv, TypeOK, b

LEMMA PushIntentDoes ==
  ASSUME IInv, NEW p \in Proc, NEW m \in Member, PushIntent(p, m)
  PROVE  /\ pc[p] = "push" /\ pc'[p] = "saving" /\ m \in todo[p] /\ cur'[p] = m
         /\ StashPushNeeded(req[p].seen[m], req[p].opt)
         /\ mem'[p] = [mem[p] EXCEPT ![m] = MemberRec("saving", "missing", 0)]
         /\ Writes(req[p].id, mem'[p]) /\ todo'[p] = todo[p] \ {m}
         /\ UNCHANGED <<stack, clock, req>> /\ Frame(p)
<1> DEFINE b == [mem[p] EXCEPT ![m] = MemberRec("saving", "missing", 0)]
<1>1. WriteBundle(req[p].id, b) /\ mem' = [mem EXCEPT ![p] = b]
  BY DEF PushIntent
<1> HIDE DEF b
<1>2. mem'[p] = b /\ Writes(req[p].id, mem'[p])
  BY <1>1 DEF WriteBundle, Writes, IInv, TypeOK
<1> QED
  BY <1>1, <1>2 DEF PushIntent, Frame, native, IInv, TypeOK, b

LEMMA PushNativeDoes ==
  ASSUME IInv, NEW p \in Proc, PushNative(p)
  PROVE  /\ pc[p] = "saving" /\ pc'[p] = "record"
         /\ mem'[p] = [mem[p] EXCEPT ![cur[p]] = MemberRec("saved", "pending", nextOid)]
         /\ UNCHANGED <<bundles, clock, req, todo, cur>> /\ Frame(p)
<1> DEFINE b == [mem[p] EXCEPT ![cur[p]] = MemberRec("saved", "pending", nextOid)]
<1>1. mem' = [mem EXCEPT ![p] = b]
  BY DEF PushNative, IInv, TypeOK
<1> HIDE DEF b
<1>2. mem'[p] = b
  BY <1>1 DEF IInv, TypeOK
<1> QED
  BY <1>1, <1>2 DEF PushNative, Frame, IInv, TypeOK, b

\* The entry Git makes is of this bundle and has an object of its own.
LEMMA PushNativeSaves ==
  ASSUME IInv, NEW p \in Proc, PushNative(p)
  PROVE  \E entry :
           /\ entry.id = req[p].id /\ entry.oid = nextOid
           /\ \A m \in Member : \A e \in stack'[m] : e \in stack[m] \/ (e = entry /\ m = cur[p])
<1> DEFINE entry == [id |-> req[p].id, oid |-> nextOid,
                     kinds |-> Stashable(tree[cur[p]], req[p].opt)]
<1>1. stack' = [stack EXCEPT ![cur[p]] = @ \cup {entry}]
  BY DEF PushNative
<1>2. entry.id = req[p].id /\ entry.oid = nextOid
  OBVIOUS
<1> HIDE DEF entry
<1>3. \A m \in Member : \A e \in stack'[m] : e \in stack[m] \/ (e = entry /\ m = cur[p])
  BY <1>1 DEF IInv, TypeOK
<1> QED
  BY <1>2, <1>3

LEMMA PushNativeFailsDoes ==
  ASSUME IInv, NEW p \in Proc, PushNativeFails(p)
  PROVE  /\ pc[p] = "saving" /\ pc'[p] = "record"
         /\ mem'[p] = [mem[p] EXCEPT ![cur[p]] = MemberRec("failed", "missing", 0)]
         /\ UNCHANGED <<stack, bundles, clock, req, todo, cur>> /\ Frame(p)
<1> DEFINE b == [mem[p] EXCEPT ![cur[p]] = MemberRec("failed", "missing", 0)]
<1>1. mem' = [mem EXCEPT ![p] = b]
  BY DEF PushNativeFails, IInv, TypeOK
<1> HIDE DEF b
<1>2. mem'[p] = b
  BY <1>1 DEF IInv, TypeOK
<1> QED
  BY <1>1, <1>2 DEF PushNativeFails, Frame, native, IInv, TypeOK, b

LEMMA PushRecordDoes ==
  ASSUME IInv, NEW p \in Proc, PushRecord(p)
  PROVE  /\ pc[p] = "record" /\ pc'[p] = "push" /\ Writes(req[p].id, mem[p])
         /\ UNCHANGED <<stack, clock, req, mem, todo>> /\ Frame(p)
BY DEF PushRecord, WriteBundle, Writes, Frame, native, IInv, TypeOK

LEMMA RestoreMemberDoes ==
  ASSUME IInv, NEW p \in Proc, NEW m \in Member, RestoreMember(p, m)
  PROVE  /\ pc[p] = "restore" /\ pc'[p] = "restore" /\ m \in Selected(mem[p])
         /\ mem'[p] = [mem[p] EXCEPT ![m] =
                         [mem[p][m] EXCEPT !.restore = RestoredState(req[p].op)]]
         /\ req[p].op \in RestoreOp
         /\ UNCHANGED <<bundles, clock, req>> /\ Frame(p)
<1> DEFINE b == [mem[p] EXCEPT ![m] = [mem[p][m] EXCEPT !.restore = RestoredState(req[p].op)]]
<1>1. mem' = [mem EXCEPT ![p] = b]
  BY DEF RestoreMember, IInv, TypeOK
<1> HIDE DEF b
<1>2. mem'[p] = b
  BY <1>1 DEF IInv, TypeOK
<1>3. m \in Selected(mem[p]) /\ req[p].op \in RestoreOp
  BY DEF RestoreMember, IInv, WorkInMemory
<1> QED
  BY <1>1, <1>2, <1>3 DEF RestoreMember, Frame, IInv, TypeOK, b

\* It takes one entry that matches, or none.
LEMMA RestoreMemberTakes ==
  ASSUME IInv, NEW p \in Proc, NEW m \in Member, RestoreMember(p, m)
  PROVE  \E entry :
           /\ entry \in Resolved(m, req[p].id, mem[p][m].oid)
           /\ \A k \in Member : \A e \in stack'[k] : e \in stack[k]
           /\ req[p].op # "apply" => entry \notin stack'[m]
<1>1. PICK entry \in Resolved(m, req[p].id, mem[p][m].oid) :
        stack' = IF req[p].op = "apply" THEN stack ELSE [stack EXCEPT ![m] = @ \ {entry}]
  BY DEF RestoreMember
<1>2. /\ \A k \in Member : \A e \in stack'[k] : e \in stack[k]
      /\ req[p].op # "apply" => entry \notin stack'[m]
  BY <1>1 DEF IInv, TypeOK
<1> QED
  BY <1>1, <1>2

LEMMA EndDoes ==
  ASSUME IInv, NEW p \in Proc, End(p)
  PROVE  /\ pc'[p] = "idle" /\ req'[p] = NoRequest /\ mem'[p] = NoBundle
         /\ todo'[p] = {} /\ Frame(p)
BY DEF End, Frame, IInv, TypeOK

\* How operations end, and what they have written then.
Ended(p) ==
  /\ End(p) /\ UNCHANGED <<stack, clock>>
  /\ \/ UNCHANGED bundles
     \/ /\ pc[p] = "restore"
        /\ \/ Writes(req[p].id, mem[p])
           \/ \E m \in Selected(mem[p]) :
                /\ Resolved(m, req[p].id, mem[p][m].oid) = {}
                /\ Writes(req[p].id, [mem[p] EXCEPT ![m].restore = "missing"])
           \/ BundleIsComplete(mem[p]) /\ Writes(req[p].id, NoBundle)

LEMMA WriteWrites ==
  ASSUME TypeOK, NEW i, NEW b, WriteBundle(i, b) PROVE Writes(i, b)
BY DEF TypeOK, WriteBundle, Writes

LEMMA EndsEnded ==
  ASSUME IInv, NEW p \in Proc,
         \/ PushDone(p) \/ LockBusy(p) \/ Die(p) \/ RestoreFinish(p)
         \/ \E m \in Member : RestoreFails(p, m)
  PROVE  Ended(p)
<1>1. CASE PushDone(p) \/ LockBusy(p) \/ Die(p)
  BY <1>1 DEF PushDone, LockBusy, Die, Ended, native
<1>2. CASE RestoreFinish(p)
  BY <1>2, WriteWrites DEF RestoreFinish, Ended, native, IInv
<1>3. ASSUME NEW m \in Member, RestoreFails(p, m) PROVE Ended(p)
  <2> DEFINE lost == [mem[p] EXCEPT ![m].restore = "missing"]
  <2>1. /\ pc[p] = "restore" /\ End(p) /\ UNCHANGED <<stack, clock>>
        /\ IF Resolved(m, req[p].id, mem[p][m].oid) = {}
             THEN WriteBundle(req[p].id, lost) ELSE WriteBundle(req[p].id, mem[p])
        /\ m \in Selected(mem[p])
    BY <1>3 DEF RestoreFails, native, IInv, WorkInMemory
  <2> HIDE DEF lost
  <2>2. \/ Resolved(m, req[p].id, mem[p][m].oid) = {} /\ Writes(req[p].id, lost)
        \/ Writes(req[p].id, mem[p])
    BY <2>1, WriteWrites DEF IInv
  <2> QED
    BY <2>1, <2>2 DEF Ended, lost
<1> QED
  BY <1>1, <1>2, <1>3

LEMMA UserDoes ==
  ASSUME IInv, User
  PROVE  /\ UNCHANGED <<clock, pc, req, mem, todo, cur>>
         /\ \A i \in StashId : bundles'[i] \in {bundles[i], NoBundle}
         /\ \A m \in Member : \A e \in stack'[m] : e \in stack[m] \/ e.id = Foreign
<1>1. UNCHANGED <<clock, pc, req, mem, todo, cur>>
  BY DEF User, process
<1>2. \A i \in StashId : bundles'[i] \in {bundles[i], NoBundle}
  BY DEF User, UserEdits, UserSettles, UserStashes, UserDrops, UserForgets, WriteBundle, IInv, TypeOK
<1>3. \A m \in Member : \A e \in stack'[m] : e \in stack[m] \/ e.id = Foreign
  <2>1. ASSUME NEW m \in Member, UserStashes(m)
        PROVE  \A k \in Member : \A e \in stack'[k] : e \in stack[k] \/ e.id = Foreign
    <3> DEFINE new == [id |-> Foreign, oid |-> nextOid, kinds |-> Stashable(tree[m], NoOption)]
    <3>1. new.id = Foreign /\ stack' = [stack EXCEPT ![m] = @ \cup {new}]
      BY <2>1 DEF UserStashes
    <3> HIDE DEF new
    <3> QED
      BY <3>1 DEF IInv, TypeOK
  <2> QED
    BY <2>1 DEF User, UserEdits, UserSettles, UserDrops, UserForgets, native, IInv, TypeOK
<1> QED
  BY <1>1, <1>2, <1>3


-----------------------------------------------------------------------------
(* The ids of bundles. *)

LEMMA MarkedBundle ==
  ASSUME NEW b \in Bundle, NEW m \in Selected(b), NEW r \in Rec
  PROVE  /\ [b EXCEPT ![m] = r] \in Bundle
         /\ Selected([b EXCEPT ![m] = r]) = Selected(b)
         /\ [b EXCEPT ![m] = r] # NoBundle /\ [b EXCEPT ![m] = r][m] = r
         /\ \A k \in Member \ {m} : [b EXCEPT ![m] = r][k] = b[k]
<1> DEFINE c == [b EXCEPT ![m] = r]
<1>1. m \in Member /\ c[m] = r /\ r # NoRec /\ \A k \in Member \ {m} : c[k] = b[k]
  BY NoRecAssumption DEF Selected, Bundle
<1>2. c \in Bundle
  BY BundleType
<1> HIDE DEF c
<1>3. Selected(c) = Selected(b)
  BY <1>1 DEF Selected
<1>4. c # NoBundle
  BY <1>1 DEF NoBundle
<1> QED
  BY <1>1, <1>2, <1>3, <1>4 DEF c

\* A step of an operation that goes on keeps its id and the members it selects.
LEMMA StepFresh ==
  ASSUME IInv, Fresh, NEW p \in Proc, Frame(p), pc[p] # "idle", pc'[p] # "idle",
         UNCHANGED <<clock, req>>,
         Selected(mem'[p]) = Selected(mem[p]), mem'[p] # NoBundle,
         Pushing(p)' => Pushing(p) /\ Left(p)' \subseteq Left(p),
         pc'[p] \in {"saving", "record"} => cur'[p] \notin todo'[p] /\ cur'[p] \in req[p].sel,
         \A i \in StashId : bundles'[i] = bundles[i] \/ i = req[p].id,
         \A m \in Member : \A e \in stack'[m] :
           \/ e \in stack[m]
           \/ Pushing(p) /\ e.id = req[p].id /\ m \notin Left(p)',
         Left(p)' \subseteq Member
  PROVE  Fresh'
<1>1. \A i \in StashId : i >= clock' => bundles'[i] = NoBundle
  <2>1. req[p].id < clock /\ req[p].id \in Nat /\ clock \in Nat
    BY DEF Fresh, InWork, IInv, TypeOK, StashId, Req
  <2> SUFFICES ASSUME NEW i \in StashId, i >= clock PROVE bundles'[i] = NoBundle
    OBVIOUS
  <2>2. i # req[p].id
    BY <2>1 DEF StashId
  <2> QED
    BY <2>2 DEF Fresh
<1>2. \A m \in Member : \A e \in stack'[m] : e.id < clock'
  BY DEF Fresh, InWork
<1>3. ASSUME NEW q \in Proc, Pushing(q)' PROVE Pushing(q)
  BY <1>3 DEF Frame, Pushing
<1>4. \A q, r \in Proc : Pushing(q)' /\ Pushing(r)' /\ req'[q].id = req'[r].id => q = r
  BY <1>3 DEF Fresh
<1>5. InWork(p)'
  <2>1. ASSUME Pushing(p)', NEW m \in Left(p)', NEW e \in stack'[m] PROVE e.id # req[p].id
    <3>1. e \in stack[m] /\ m \in Left(p)
      BY <2>1
    <3> QED
      BY <2>1, <3>1 DEF Fresh, InWork
  <2> QED
    BY <2>1 DEF Fresh, InWork
<1>6. ASSUME NEW q \in Proc \ {p} PROVE InWork(q)'
  <2>1. /\ pc'[q] = pc[q] /\ req'[q] = req[q] /\ mem'[q] = mem[q]
        /\ todo'[q] = todo[q] /\ cur'[q] = cur[q] /\ InWork(q)
    BY DEF Frame, Fresh
  <2>2. ASSUME Pushing(q), NEW m \in Left(q), NEW e \in stack'[m] PROVE e.id # req[q].id
    <3>1. m \in Member
      BY <2>2 DEF Left, IInv, TypeOK, WorkInMemory
    <3>2. e \in stack[m] \/ (Pushing(p) /\ e.id = req[p].id)
      BY <2>2, <3>1
    <3> QED
      BY <2>1, <2>2, <3>2 DEF InWork, Fresh
  <2> QED
    BY <2>1, <2>2 DEF InWork, Pushing, Left
<1> QED
  BY <1>1, <1>2, <1>4, <1>5, <1>6 DEF Fresh

\* The first step of an operation, and its end.
LEMMA BoundsFresh ==
  ASSUME IInv, Fresh, NEW p \in Proc, Frame(p), UNCHANGED stack,
         clock' \in Nat, clock' >= clock, InWork(p)',
         Pushing(p)' => \A q \in Proc \ {p} : req'[p].id # req[q].id,
         \A i \in StashId : i >= clock' => bundles'[i] = NoBundle
  PROVE  Fresh'
<1>1. ASSUME NEW q \in Proc \ {p}
      PROVE  InWork(q)' /\ (Pushing(q)' <=> Pushing(q)) /\ req'[q] = req[q]
  <2>1. /\ pc'[q] = pc[q] /\ req'[q] = req[q] /\ mem'[q] = mem[q]
        /\ todo'[q] = todo[q] /\ cur'[q] = cur[q] /\ InWork(q)
    BY DEF Frame, Fresh
  <2>2. req[q].id < clock'
    BY <2>1 DEF InWork, IInv, TypeOK, Req, StashId
  <2> QED
    BY <2>1, <2>2 DEF InWork, Pushing, Left
<1>2. \A m \in Member : \A e \in stack'[m] : e.id < clock'
  BY DEF Fresh, IInv, TypeOK, Entry, StashId, Foreign
<1>3. \A q, r \in Proc : Pushing(q)' /\ Pushing(r)' /\ req'[q].id = req'[r].id => q = r
  BY <1>1 DEF Fresh
<1> QED
  BY <1>1, <1>2, <1>3 DEF Fresh

LEMMA NoneSelected == Selected(NoBundle) = {}
BY DEF Selected, NoBundle

LEMMA PushPlanFresh ==
  ASSUME FreshIds, IInv, Fresh, NEW p \in Proc, NEW sel \in (SUBSET Member) \ {{}},
         NEW i \in StashId, NEW opt \in PushOptions, PushPlan(p, sel, i, opt)
  PROVE  Fresh'
<1> DEFINE b == [m \in Member |-> IF m \in sel THEN InitialBundleMember(tree[m])
                                             ELSE NoRec]
<1>1. Selected(b) = sel
  <2>1. \A m \in Member : InitialBundleMember(tree[m]) # NoRec
    BY InitialRecType, NoRecAssumption
  <2> QED
    BY <2>1 DEF Selected
<1>2. b # NoBundle
  <2> HIDE DEF b
  <2> QED
    BY <1>1, NoneSelected
<1>3. /\ pc'[p] = "register" /\ i = clock
      /\ req'[p] = [op |-> "push", id |-> i, opt |-> opt, sel |-> sel, seen |-> Observed(sel)]
      /\ mem'[p] = b
      /\ todo'[p] = sel /\ clock' = clock + 1
      /\ UNCHANGED <<stack, bundles>> /\ Frame(p)
  BY PushPlanDoes
<1> HIDE DEF b
<1>4. clock \in Nat /\ clock' \in Nat /\ clock' >= clock /\ i < clock'
  BY <1>3 DEF IInv, TypeOK
<1>5. InWork(p)'
  <2>1. \A m \in Member : \A e \in stack'[m] : e.id # i
    BY <1>3, <1>4 DEF Fresh, IInv, TypeOK, Entry, StashId, Foreign
  <2>2. req'[p].id = i /\ req'[p].sel = sel
    BY <1>3
  <2> QED
    BY <1>1, <1>2, <1>3, <1>4, <2>1, <2>2 DEF InWork, Left
<1>6. \A q \in Proc \ {p} : req'[p].id # req[q].id
  BY <1>3, <1>4 DEF Fresh, InWork, IInv, TypeOK, Req, StashId
<1>7. \A j \in StashId : j >= clock' => bundles'[j] = NoBundle
  BY <1>3, <1>4 DEF Fresh, StashId
<1> QED
  BY <1>3, <1>4, <1>5, <1>6, <1>7, BoundsFresh

LEMMA RestorePlanFresh ==
  ASSUME IInv, Fresh, NEW p \in Proc, NEW op \in RestoreOp, NEW i \in StashId,
         NEW sel \in SUBSET Member, RestorePlan(p, op, i, sel)
  PROVE  Fresh'
<1>1. /\ pc'[p] = "plan" /\ bundles[i] # NoBundle /\ req'[p].id = i /\ mem'[p] = bundles[i]
      /\ clock' = clock + 1 /\ UNCHANGED <<stack, bundles>> /\ Frame(p)
  BY RestorePlanDoes
<1>2. clock \in Nat /\ clock' \in Nat /\ clock' >= clock /\ i < clock'
  BY <1>1 DEF IInv, TypeOK, Fresh, StashId
<1>3. InWork(p)' /\ ~(Pushing(p)')
  BY <1>1, <1>2 DEF InWork, Pushing
<1>4. \A j \in StashId : j >= clock' => bundles'[j] = NoBundle
  BY <1>1, <1>2 DEF Fresh, StashId
<1> QED
  BY <1>1, <1>2, <1>3, <1>4, BoundsFresh

LEMMA EndedFresh ==
  ASSUME IInv, Fresh, NEW p \in Proc, Ended(p)
  PROVE  Fresh'
<1>1. pc'[p] = "idle" /\ req'[p] = NoRequest /\ Frame(p) /\ UNCHANGED <<stack, clock>>
  BY EndDoes DEF Ended
<1>2. clock \in Nat /\ clock >= 1
  BY DEF IInv, TypeOK
<1>3. InWork(p)' /\ ~(Pushing(p)')
  BY <1>1, <1>2 DEF InWork, Pushing, NoRequest
<1>4. \A j \in StashId : bundles'[j] = bundles[j] \/ (j = req[p].id /\ pc[p] = "restore")
  BY DEF Ended, Writes
<1>5. \A j \in StashId : j >= clock' => bundles'[j] = NoBundle
  BY <1>1, <1>2, <1>4 DEF Fresh, InWork, StashId
<1> QED
  BY <1>1, <1>2, <1>3, <1>5, BoundsFresh

LEMMA PushFresh ==
  ASSUME IInv, Fresh, NEW p \in Proc,
         \/ PushRegister(p) \/ PushAcquire(p) \/ RestoreAcquire(p)
         \/ PushNative(p) \/ PushNativeFails(p) \/ PushRecord(p)
         \/ \E m \in Member : PushSkip(p, m) \/ PushIntent(p, m)
  PROVE  Fresh'
<1>1. InWork(p) /\ mem[p] \in Bundle /\ todo[p] \subseteq Selected(mem[p])
      /\ todo[p] \subseteq Member
  BY DEF Fresh, IInv, TypeOK, WorkInMemory
<1>2. CASE PushRegister(p)
  <2>1. /\ pc[p] = "register" /\ pc'[p] = "acquire" /\ Writes(req[p].id, mem[p])
        /\ UNCHANGED <<stack, clock, req, mem, todo, cur>> /\ Frame(p)
    BY <1>2, PushRegisterDoes
  <2>2. \A i \in StashId : bundles'[i] = bundles[i] \/ i = req[p].id
    BY <2>1 DEF Writes
  <2> QED
    BY <1>1, <2>1, <2>2, StepFresh DEF Pushing, Left, InWork
<1>3. CASE PushAcquire(p) \/ RestoreAcquire(p)
  <2>1. /\ \/ pc[p] = "acquire" /\ pc'[p] = "push"
           \/ pc[p] = "plan" /\ pc'[p] = "restore"
        /\ UNCHANGED <<stack, bundles, clock, req, mem, todo, cur>> /\ Frame(p)
    BY <1>3, AcquireDoes
  <2> QED
    BY <1>1, <2>1, StepFresh DEF Pushing, Left, InWork
<1>4. CASE PushNative(p)
  <2>1. /\ pc[p] = "saving" /\ pc'[p] = "record"
        /\ mem'[p] = [mem[p] EXCEPT ![cur[p]] = MemberRec("saved", "pending", nextOid)]
        /\ UNCHANGED <<bundles, clock, req, todo, cur>> /\ Frame(p)
    BY <1>4, PushNativeDoes
  <2>2. PICK entry :
          /\ entry.id = req[p].id
          /\ \A m \in Member : \A e \in stack'[m] : e \in stack[m] \/ (e = entry /\ m = cur[p])
    BY <1>4, PushNativeSaves
  <2>3. cur[p] \in Selected(mem[p]) /\ cur[p] \notin todo[p]
    BY <1>1, <2>1 DEF InWork, Pushing
  <2>4. Selected(mem'[p]) = Selected(mem[p]) /\ mem'[p] # NoBundle
    BY <1>1, <2>1, <2>3, MarkedBundle, MemberRecType DEF IInv, TypeOK
  <2>5. \A m \in Member : \A e \in stack'[m] : e \in stack[m] \/ (e.id = req[p].id /\ m = cur[p])
    BY <2>2
  <2> QED
    BY <1>1, <2>1, <2>3, <2>4, <2>5, StepFresh DEF Pushing, Left, InWork
<1>5. CASE PushNativeFails(p)
  <2>1. /\ pc[p] = "saving" /\ pc'[p] = "record"
        /\ mem'[p] = [mem[p] EXCEPT ![cur[p]] = MemberRec("failed", "missing", 0)]
        /\ UNCHANGED <<stack, bundles, clock, req, todo, cur>> /\ Frame(p)
    BY <1>5, PushNativeFailsDoes
  <2>2. cur[p] \in Selected(mem[p])
    BY <1>1, <2>1 DEF InWork, Pushing
  <2>3. Selected(mem'[p]) = Selected(mem[p]) /\ mem'[p] # NoBundle
    BY <1>1, <2>1, <2>2, MarkedBundle, MemberRecType
  <2> QED
    BY <1>1, <2>1, <2>3, StepFresh DEF Pushing, Left, InWork
<1>6. CASE PushRecord(p)
  <2>1. /\ pc[p] = "record" /\ pc'[p] = "push" /\ Writes(req[p].id, mem[p])
        /\ UNCHANGED <<stack, clock, req, mem, todo>> /\ Frame(p)
    BY <1>6, PushRecordDoes
  <2>2. \A i \in StashId : bundles'[i] = bundles[i] \/ i = req[p].id
    BY <2>1 DEF Writes
  <2> QED
    BY <1>1, <2>1, <2>2, StepFresh DEF Pushing, Left, InWork
<1>7. ASSUME NEW m \in Member, PushSkip(p, m) PROVE Fresh'
  <2>1. /\ pc[p] = "push" /\ pc'[p] = "push" /\ m \in todo[p]
        /\ mem'[p] = [mem[p] EXCEPT ![m] = MemberRec("empty", "noop", 0)]
        /\ Writes(req[p].id, mem'[p]) /\ todo'[p] = todo[p] \ {m}
        /\ UNCHANGED <<stack, clock, req, cur>> /\ Frame(p)
    BY <1>7, PushSkipDoes
  <2>2. Selected(mem'[p]) = Selected(mem[p]) /\ mem'[p] # NoBundle
    BY <1>1, <2>1, MarkedBundle, MemberRecType
  <2>3. \A i \in StashId : bundles'[i] = bundles[i] \/ i = req[p].id
    BY <2>1 DEF Writes
  <2> QED
    BY <1>1, <2>1, <2>2, <2>3, StepFresh DEF Pushing, Left, InWork
<1>8. ASSUME NEW m \in Member, PushIntent(p, m) PROVE Fresh'
  <2>1. /\ pc[p] = "push" /\ pc'[p] = "saving" /\ m \in todo[p] /\ cur'[p] = m
        /\ mem'[p] = [mem[p] EXCEPT ![m] = MemberRec("saving", "missing", 0)]
        /\ Writes(req[p].id, mem'[p]) /\ todo'[p] = todo[p] \ {m}
        /\ UNCHANGED <<stack, clock, req>> /\ Frame(p)
    BY <1>8, PushIntentDoes
  <2>2. Selected(mem'[p]) = Selected(mem[p]) /\ mem'[p] # NoBundle
    BY <1>1, <2>1, MarkedBundle, MemberRecType
  <2>3. \A i \in StashId : bundles'[i] = bundles[i] \/ i = req[p].id
    BY <2>1 DEF Writes
  <2> QED
    BY <1>1, <2>1, <2>2, <2>3, StepFresh DEF Pushing, Left, InWork
<1> QED
  BY <1>2, <1>3, <1>4, <1>5, <1>6, <1>7, <1>8

LEMMA RestoreShrinks ==
  ASSUME IInv, NEW p \in Proc, NEW m \in Member, RestoreMember(p, m)
  PROVE  \A k \in Member : stack'[k] \subseteq stack[k]
BY DEF RestoreMember, IInv, TypeOK

LEMMA RestoreMemberFresh ==
  ASSUME IInv, Fresh, NEW p \in Proc, NEW m \in Member, RestoreMember(p, m)
  PROVE  Fresh'
<1> DEFINE r == [mem[p][m] EXCEPT !.restore = RestoredState(req[p].op)]
<1>1. /\ pc[p] = "restore" /\ pc'[p] = "restore" /\ m \in Selected(mem[p])
      /\ req[p].op \in RestoreOp /\ mem'[p] = [mem[p] EXCEPT ![m] = r]
      /\ UNCHANGED <<bundles, clock, req>> /\ Frame(p)
  BY RestoreMemberDoes
<1>2. \A k \in Member : stack'[k] \subseteq stack[k]
  BY RestoreShrinks
<1>3. r \in Rec /\ mem[p] \in Bundle
  <2>1. mem[p] \in Bundle /\ mem[p][m] \in Rec
    BY <1>1 DEF IInv, TypeOK, Bundle, Selected
  <2> QED
    BY <1>1, <2>1, RestoredType
<1> HIDE DEF r
<1>4. Selected(mem'[p]) = Selected(mem[p]) /\ mem'[p] # NoBundle
  BY <1>1, <1>3, MarkedBundle
<1>5. ~Pushing(p) /\ ~(Pushing(p)') /\ Left(p)' \subseteq Member
  BY <1>1 DEF Pushing, Left, RestoreMember, IInv, TypeOK
<1> QED
  BY <1>1, <1>2, <1>4, <1>5, StepFresh

LEMMA UserFresh ==
  ASSUME IInv, Fresh, User PROVE Fresh'
<1>1. UNCHANGED <<clock, pc, req, mem, todo, cur>>
  BY UserDoes
<1>2. \A i \in StashId : bundles'[i] \in {bundles[i], NoBundle}
  BY UserDoes
<1>3. \A m \in Member : \A e \in stack'[m] : e \in stack[m] \/ e.id = Foreign
  BY UserDoes
<1>4. Foreign < clock /\ Foreign \notin StashId
  BY DEF Foreign, StashId, IInv, TypeOK
<1>5. ASSUME NEW p \in Proc PROVE InWork(p)'
  <2>1. InWork(p)
    BY DEF Fresh
  <2>2. ASSUME Pushing(p), NEW m \in Left(p), NEW e \in stack'[m] PROVE e.id # req[p].id
    <3>1. m \in Member
      BY <2>2 DEF Left, IInv, TypeOK, WorkInMemory
    <3> QED
      BY <1>3, <1>4, <2>1, <2>2, <3>1 DEF InWork, Pushing
  <2> QED
    BY <1>1, <2>1, <2>2 DEF InWork, Pushing, Left
<1> QED
  BY <1>1, <1>2, <1>3, <1>4, <1>5 DEF Fresh, Pushing

LEMMA InitFresh == Init => Fresh
<1> SUFFICES ASSUME Init PROVE Fresh
  OBVIOUS
<1>1. \A p \in Proc : pc[p] = "idle" /\ req[p].id = 0
  BY DEF Init, NoRequest
<1> QED
  BY <1>1 DEF Init, Fresh, InWork, Pushing

LEMMA StepFreshIds ==
  ASSUME FreshIds, IInv, Fresh, [Next]_vars
  PROVE  Fresh'
<1>1. ASSUME NEW p \in Proc, Request(p) PROVE Fresh'
  BY <1>1, PushPlanFresh, RestorePlanFresh DEF Request
<1>2. ASSUME NEW p \in Proc, Continue(p) PROVE Fresh'
  BY <1>2, PushFresh, RestoreMemberFresh, EndsEnded, EndedFresh DEF Continue
<1>3. ASSUME NEW p \in Proc, Die(p) PROVE Fresh'
  BY <1>3, EndsEnded, EndedFresh
<1>4. CASE User
  BY <1>4, UserFresh
<1>5. CASE UNCHANGED vars
  BY <1>5 DEF vars, native, process, Fresh, InWork, Pushing, Left
<1> QED
  BY <1>1, <1>2, <1>3, <1>4, <1>5 DEF Next
-----------------------------------------------------------------------------
(* A push that ends has decided every member it selected. *)

\* Others take the file of a bundle away; while a push is in its section they
\* do not write it.
LEMMA OthersDecide ==
  ASSUME IInv, Fresh, Decides, NEW p \in Proc, Frame(p), Deciding(p)',
         \A i \in StashId :
           \/ bundles'[i] \in {bundles[i], NoBundle}
           \/ i = req[p].id /\ (Pushing(p) \/ InSection(p))
  PROVE  Decides'
<1> SUFFICES ASSUME NEW q \in Proc \ {p} PROVE Deciding(q)'
  BY DEF Decides
<1>1. /\ pc'[q] = pc[q] /\ req'[q] = req[q] /\ mem'[q] = mem[q]
      /\ todo'[q] = todo[q] /\ cur'[q] = cur[q] /\ Deciding(q)
  BY DEF Frame, Decides
<1>2. ASSUME pc[q] = "push", bundles[req[q].id] \in {NoBundle, mem[q]}
      PROVE  bundles'[req[q].id] \in {NoBundle, mem[q]}
  <2>1. req[q].id \in StashId /\ Pushing(q) /\ InSection(q)
    BY <1>2 DEF Fresh, InWork, Pushing, InSection
  <2>2. Pushing(p) => req[p].id # req[q].id
    BY <2>1 DEF Fresh
  <2>3. ~InSection(p)
    BY <2>1 DEF IInv, GuardInSection
  <2> QED
    BY <1>2, <2>1, <2>2, <2>3
<1> QED
  BY <1>1, <1>2 DEF Deciding, Pushing, Left

LEMMA PlanDecides ==
  ASSUME IInv, Fresh, Decides, NEW p \in Proc, Request(p)
  PROVE  Decides'
<1>1. ASSUME NEW sel \in (SUBSET Member) \ {{}}, NEW i \in StashId, NEW opt \in PushOptions,
             PushPlan(p, sel, i, opt)
      PROVE  Decides'
  <2>1. pc'[p] = "register" /\ todo'[p] = sel /\ UNCHANGED bundles /\ Frame(p)
    BY <1>1 DEF PushPlan, Frame, native, IInv, TypeOK
  <2>2. req'[p].sel = sel /\ sel # {}
    BY <1>1 DEF PushPlan, IInv, TypeOK
  <2>3. Deciding(p)'
    BY <2>1, <2>2 DEF Deciding, Left
  <2> QED
    BY <2>1, <2>3, OthersDecide
<1>2. ASSUME NEW op \in RestoreOp, NEW i \in StashId, NEW sel \in SUBSET Member,
             RestorePlan(p, op, i, sel)
      PROVE  Decides'
  <2>1. pc'[p] = "plan" /\ UNCHANGED bundles /\ Frame(p)
    BY <1>2, RestorePlanDoes
  <2>2. Deciding(p)'
    BY <2>1 DEF Deciding, Pushing
  <2> QED
    BY <2>1, <2>2, OthersDecide
<1> QED
  BY <1>1, <1>2 DEF Request

\* The record of one member is replaced.
LEMMA Marked ==
  ASSUME IInv, Fresh, NEW p \in Proc, Pushing(p), NEW m \in Left(p), NEW r \in Rec
  PROVE  LET b == [mem[p] EXCEPT ![m] = r]
         IN  /\ m \in Member /\ b \in Bundle /\ b # NoBundle /\ b[m] = r
             /\ Selected(b) = Selected(mem[p])
             /\ \A k \in Member \ {m} : b[k] = mem[p][k]
<1>1. mem[p] \in Bundle /\ m \in Selected(mem[p]) /\ m \in Member
  BY DEF Fresh, InWork, Left, IInv, TypeOK, WorkInMemory, Selected
<1> QED
  BY <1>1, MarkedBundle

LEMMA ContinueDecides ==
  ASSUME IInv, Fresh, Decides, NEW p \in Proc,
         \/ PushRegister(p) \/ PushAcquire(p) \/ RestoreAcquire(p)
         \/ PushNative(p) \/ PushNativeFails(p) \/ PushRecord(p)
         \/ \E m \in Member : PushSkip(p, m) \/ PushIntent(p, m) \/ RestoreMember(p, m)
  PROVE  Decides'
<1> USE DEF Pushing, Left, Deciding
<1>1. InWork(p) /\ Deciding(p) /\ todo[p] \subseteq Member
  BY DEF Fresh, Decides, IInv, TypeOK
<1>2. CASE PushRegister(p)
  <2>1. /\ pc[p] = "register" /\ pc'[p] = "acquire" /\ Writes(req[p].id, mem[p])
        /\ UNCHANGED <<stack, clock, req, mem, todo, cur>> /\ Frame(p)
    BY <1>2, PushRegisterDoes
  <2> QED
    BY <1>1, <2>1, OthersDecide DEF Writes
<1>3. CASE PushAcquire(p) \/ RestoreAcquire(p)
  <2>1. /\ \/ pc[p] = "acquire" /\ pc'[p] = "push"
           \/ pc[p] = "plan" /\ pc'[p] = "restore"
        /\ UNCHANGED <<stack, bundles, clock, req, mem, todo, cur>> /\ Frame(p)
    BY <1>3, AcquireDoes
  <2> QED
    BY <1>1, <2>1, OthersDecide
<1>4. CASE PushNative(p)
  <2>1. /\ pc[p] = "saving" /\ pc'[p] = "record"
        /\ mem'[p] = [mem[p] EXCEPT ![cur[p]] = MemberRec("saved", "pending", nextOid)]
        /\ UNCHANGED <<bundles, clock, req, todo, cur>> /\ Frame(p)
    BY <1>4, PushNativeDoes
  <2>2. /\ mem'[p][cur[p]].push = "saved"
        /\ \A k \in Member \ {cur[p]} : mem'[p][k] = mem[p][k]
    <3>1. MemberRec("saved", "pending", nextOid) \in Rec /\ MemberRec("saved", "pending", nextOid).push = "saved"
      BY MemberRecType DEF MemberRec, IInv, TypeOK
    <3>2. cur[p] \in Left(p) /\ Pushing(p)
      BY <2>1
    <3> QED
      BY <2>1, <3>1, <3>2, Marked
  <2>3. req[p].sel \subseteq Member
    BY <1>1, <2>1 DEF InWork, Selected
  <2> QED
    BY <1>1, <2>1, <2>2, <2>3, OthersDecide
<1>5. CASE PushNativeFails(p)
  <2>1. /\ pc[p] = "saving" /\ pc'[p] = "record"
        /\ mem'[p] = [mem[p] EXCEPT ![cur[p]] = MemberRec("failed", "missing", 0)]
        /\ UNCHANGED <<stack, bundles, clock, req, todo, cur>> /\ Frame(p)
    BY <1>5, PushNativeFailsDoes
  <2>2. /\ mem'[p][cur[p]].push = "failed"
        /\ \A k \in Member \ {cur[p]} : mem'[p][k] = mem[p][k]
    BY <2>1, Marked, MemberRecType DEF MemberRec
  <2>3. req[p].sel \subseteq Member
    BY <1>1, <2>1 DEF InWork, Selected
  <2> QED
    BY <1>1, <2>1, <2>2, <2>3, OthersDecide
<1>6. CASE PushRecord(p)
  <2>1. /\ pc[p] = "record" /\ pc'[p] = "push" /\ Writes(req[p].id, mem[p])
        /\ UNCHANGED <<stack, clock, req, mem, todo>> /\ Frame(p)
    BY <1>6, PushRecordDoes
  <2>2. bundles'[req[p].id] = mem[p]
    BY <1>1, <2>1 DEF InWork, Writes
  <2> QED
    BY <1>1, <2>1, <2>2, OthersDecide DEF Writes
<1>7. ASSUME NEW m \in Member, PushSkip(p, m) PROVE Decides'
  <2>1. /\ pc[p] = "push" /\ pc'[p] = "push" /\ m \in todo[p]
        /\ mem'[p] = [mem[p] EXCEPT ![m] = MemberRec("empty", "noop", 0)]
        /\ Writes(req[p].id, mem'[p]) /\ todo'[p] = todo[p] \ {m}
        /\ UNCHANGED <<stack, clock, req, cur>> /\ Frame(p)
    BY <1>7, PushSkipDoes
  <2>2. /\ mem'[p][m].push = "empty"
        /\ \A k \in Member \ {m} : mem'[p][k] = mem[p][k]
    <3>1. MemberRec("empty", "noop", 0) \in Rec /\ MemberRec("empty", "noop", 0).push = "empty"
      BY MemberRecType DEF MemberRec
    <3>2. m \in Left(p) /\ Pushing(p)
      BY <2>1
    <3> QED
      BY <2>1, <3>1, <3>2, Marked
  <2>3. req[p].sel \subseteq Member
    BY <1>1, <2>1 DEF InWork, Selected
  <2>4. bundles'[req[p].id] = mem'[p]
    BY <1>1, <2>1 DEF InWork, Writes
  <2>5. Deciding(p)'
    BY <1>1, <2>1, <2>2, <2>3, <2>4
  <2>6. \A i \in StashId : bundles'[i] = bundles[i] \/ i = req[p].id
    BY <2>1 DEF Writes
  <2> QED
    BY <2>1, <2>5, <2>6, OthersDecide
<1>8. ASSUME NEW m \in Member, PushIntent(p, m) PROVE Decides'
  <2>1. /\ pc[p] = "push" /\ pc'[p] = "saving" /\ m \in todo[p] /\ cur'[p] = m
        /\ mem'[p] = [mem[p] EXCEPT ![m] = MemberRec("saving", "missing", 0)]
        /\ Writes(req[p].id, mem'[p]) /\ todo'[p] = todo[p] \ {m}
        /\ UNCHANGED <<stack, clock, req>> /\ Frame(p)
    BY <1>8, PushIntentDoes
  <2>2. \A k \in Member \ {m} : mem'[p][k] = mem[p][k]
    BY <2>1, Marked, MemberRecType
  <2>3. req[p].sel \subseteq Member
    BY <1>1, <2>1 DEF InWork, Selected
  <2>4. Deciding(p)'
    BY <1>1, <2>1, <2>2, <2>3
  <2>5. \A i \in StashId : bundles'[i] = bundles[i] \/ i = req[p].id
    BY <2>1 DEF Writes
  <2> QED
    BY <2>1, <2>4, <2>5, OthersDecide
<1>9. ASSUME NEW m \in Member, RestoreMember(p, m) PROVE Decides'
  <2>1. pc'[p] = "restore" /\ UNCHANGED bundles /\ Frame(p)
    BY <1>9, RestoreMemberDoes
  <2> QED
    BY <2>1, OthersDecide
<1> QED
  BY <1>2, <1>3, <1>4, <1>5, <1>6, <1>7, <1>8, <1>9

LEMMA EndedDecides ==
  ASSUME IInv, Fresh, Decides, NEW p \in Proc, Ended(p)
  PROVE  Decides'
<1>1. pc'[p] = "idle" /\ Frame(p)
  BY EndDoes DEF Ended
<1>2. Deciding(p)'
  BY <1>1 DEF Deciding, Pushing
<1>3. \A i \in StashId : bundles'[i] = bundles[i] \/ (i = req[p].id /\ InSection(p))
  BY DEF Ended, Writes, InSection
<1> QED
  BY <1>1, <1>2, <1>3, OthersDecide

LEMMA StepDecides ==
  ASSUME IInv, Fresh, Decides, [Next]_vars
  PROVE  Decides'
<1>1. ASSUME NEW p \in Proc, Continue(p) PROVE Decides'
  BY <1>1, ContinueDecides, EndsEnded, EndedDecides DEF Continue
<1>2. ASSUME NEW p \in Proc, Die(p) PROVE Decides'
  BY <1>2, EndsEnded, EndedDecides
<1>3. CASE User
  <2>1. /\ UNCHANGED <<clock, pc, req, mem, todo, cur>>
        /\ \A i \in StashId : bundles'[i] \in {bundles[i], NoBundle}
    BY <1>3, UserDoes
  <2>2. ASSUME NEW q \in Proc PROVE Deciding(q)'
    <3>1. Deciding(q) /\ InWork(q)
      BY DEF Decides, Fresh
    <3> QED
      BY <2>1, <3>1 DEF Deciding, InWork, Pushing, Left
  <2> QED
    BY <2>2 DEF Decides
<1>4. CASE UNCHANGED vars
  BY <1>4 DEF vars, native, process, Decides, Deciding, Pushing, Left
<1> QED
  BY <1>1, <1>2, <1>3, <1>4, PlanDecides DEF Next

LEMMA InitDecides == Init => Decides
BY DEF Init, Decides, Deciding, Pushing

\* When every push has an id of its own, a push that runs to its end leaves no
\* selected member undecided on disk, whatever other processes and users do.
THEOREM PushDecides ==
  ASSUME FreshIds PROVE Spec => PushEndsDecided
<1> DEFINE Done(p) ==
      pc[p] = "push" /\ todo[p] = {} /\ pc'[p] = "idle" /\ bundles[req[p].id] # NoBundle
        => \A m \in req[p].sel : bundles[req[p].id][m].push \in {"saved", "empty", "failed"}
<1>1. IInv /\ Decides => [\A p \in Proc : Done(p)]_vars
  BY DEF Decides, Deciding, Pushing, Left
<1>2. Init => IInv /\ Fresh /\ Decides
  BY InitIInv, InitFresh, InitDecides
<1>3. IInv /\ Fresh /\ Decides /\ [Next]_vars => (IInv /\ Fresh /\ Decides)'
  BY StepIInv, StepFreshIds, StepDecides
<1> QED
  BY <1>1, <1>2, <1>3, PTL DEF Spec, PushEndsDecided, Done
-----------------------------------------------------------------------------
(* The copies of a bundle that a step leaves. *)

LEMMA StepCopies ==
  ASSUME IInv, Fresh, NEW p \in Proc, Frame(p), UNCHANGED req, pc[p] # "idle",
         \A j \in StashId : bundles'[j] = bundles[j] \/ (j = req[p].id /\ bundles'[j] = mem'[p])
  PROVE  \A i \in StashId : \A b \in Copies(i)' : b \in Copies(i) \/ (i = req[p].id /\ b = mem'[p])
BY DEF Copies, Frame

LEMMA PushPlanCopies ==
  ASSUME IInv, NEW p \in Proc, NEW sel \in (SUBSET Member) \ {{}},
         NEW i \in StashId, NEW opt \in PushOptions, PushPlan(p, sel, i, opt)
  PROVE  \A j \in StashId : \A b \in Copies(j)' : b \in Copies(j) \/ (j = i /\ b = mem'[p])
<1>1. UNCHANGED bundles /\ Frame(p)
  BY DEF PushPlan, Frame, native, IInv, TypeOK
<1>2. req'[p].id = i
  BY DEF PushPlan, IInv, TypeOK
<1> QED
  BY <1>1, <1>2 DEF Copies, Frame

LEMMA RestorePlanCopies ==
  ASSUME IInv, NEW p \in Proc, NEW op \in RestoreOp, NEW i \in StashId,
         NEW sel \in SUBSET Member, RestorePlan(p, op, i, sel)
  PROVE  \A j \in StashId : \A b \in Copies(j)' : b \in Copies(j)
<1>1. req'[p].id = i /\ mem'[p] = bundles[i] /\ UNCHANGED bundles /\ Frame(p)
  BY RestorePlanDoes
<1> QED
  BY <1>1 DEF Copies, Frame

\* What a restore writes when the payload of a member is gone.
Lost(p, m) == [mem[p] EXCEPT ![m].restore = "missing"]

LEMMA EndedCopies ==
  ASSUME IInv, NEW p \in Proc, Ended(p)
  PROVE  \A i \in StashId : \A b \in Copies(i)' :
           \/ b \in Copies(i) \/ b = NoBundle
           \/ /\ i = req[p].id /\ pc[p] = "restore"
              /\ \E m \in Selected(mem[p]) :
                   Resolved(m, i, mem[p][m].oid) = {} /\ b = Lost(p, m)
<1>1. pc'[p] = "idle" /\ Frame(p)
  BY EndDoes DEF Ended
<1>2. \A i \in StashId :
        \/ bundles'[i] \in {bundles[i], NoBundle}
        \/ /\ i = req[p].id /\ pc[p] = "restore"
           /\ \/ bundles'[i] = mem[p]
              \/ \E m \in Selected(mem[p]) :
                   Resolved(m, i, mem[p][m].oid) = {} /\ bundles'[i] = Lost(p, m)
  BY DEF Ended, Writes, Lost
<1> QED
  BY <1>1, <1>2 DEF Copies, Frame

LEMMA UserCopies ==
  ASSUME IInv, User
  PROVE  \A i \in StashId : \A b \in Copies(i)' : b \in Copies(i) \/ b = NoBundle
<1>1. /\ UNCHANGED <<clock, pc, req, mem, todo, cur>>
      /\ \A i \in StashId : bundles'[i] \in {bundles[i], NoBundle}
  BY UserDoes
<1> QED
  BY <1>1 DEF Copies

LEMMA CopyType ==
  ASSUME IInv, NEW i \in StashId, NEW b \in Copies(i) PROVE b \in Bundle
BY DEF Copies, IInv, TypeOK

LEMMA MemCopy ==
  ASSUME Fresh, NEW p \in Proc, pc[p] # "idle"
  PROVE  req[p].id \in StashId /\ mem[p] \in Copies(req[p].id)
BY DEF Fresh, InWork, Copies

\* The record of a member whose payload is gone differs in one field.
LEMMA LostRecord ==
  ASSUME IInv, Fresh, NEW p \in Proc, pc[p] # "idle", NEW m \in Selected(mem[p])
  PROVE  /\ Lost(p, m) # NoBundle /\ Selected(Lost(p, m)) = Selected(mem[p])
         /\ Lost(p, m)[m].push = mem[p][m].push /\ Lost(p, m)[m].oid = mem[p][m].oid
         /\ Lost(p, m)[m].restore = "missing"
         /\ \A k \in Member \ {m} : Lost(p, m)[k] = mem[p][k]
<1> DEFINE r == [mem[p][m] EXCEPT !.restore = "missing"]
<1>1. mem[p] \in Bundle /\ mem[p][m] \in Rec
  BY DEF IInv, TypeOK, Bundle, Selected
<1>2. r \in Rec /\ r.push = mem[p][m].push /\ r.oid = mem[p][m].oid /\ r.restore = "missing"
  BY <1>1 DEF Rec
<1>3. Lost(p, m) = [mem[p] EXCEPT ![m] = r]
  BY <1>1 DEF Lost
<1> HIDE DEF r
<1> QED
  BY <1>1, <1>2, <1>3, MarkedBundle

\* A restored member: its record differs in one field too.
LEMMA RestoredRecord ==
  ASSUME IInv, NEW p \in Proc, NEW m \in Member, RestoreMember(p, m)
  PROVE  /\ m \in Selected(mem[p]) /\ Selected(mem'[p]) = Selected(mem[p])
         /\ mem'[p] # NoBundle
         /\ mem'[p][m].push = mem[p][m].push /\ mem'[p][m].oid = mem[p][m].oid
         /\ mem'[p][m].restore = RestoredState(req[p].op) /\ req[p].op \in RestoreOp
         /\ \A k \in Member \ {m} : mem'[p][k] = mem[p][k]
<1> DEFINE r == [mem[p][m] EXCEPT !.restore = RestoredState(req[p].op)]
<1>1. m \in Selected(mem[p]) /\ req[p].op \in RestoreOp /\ mem'[p] = [mem[p] EXCEPT ![m] = r]
  BY RestoreMemberDoes
<1>2. mem[p] \in Bundle /\ mem[p][m] \in Rec
  BY <1>1 DEF IInv, TypeOK, Bundle, Selected
<1>3. r \in Rec /\ r.push = mem[p][m].push /\ r.oid = mem[p][m].oid
      /\ r.restore = RestoredState(req[p].op)
  BY <1>1, <1>2, RestoredType DEF Rec
<1> HIDE DEF r
<1> QED
  BY <1>1, <1>2, <1>3, MarkedBundle

-----------------------------------------------------------------------------
(* One process: every payload is on record in every copy of its bundle. *)

LEMMA OnRecordLess ==
  ASSUME NEW b, NEW i, NEW s, NEW t, OnRecord(b, i, s),
         \A m \in Member : \A e \in t[m] : e \in s[m] \/ e.id # i
  PROVE  OnRecord(b, i, t)
BY DEF OnRecord

LEMMA NoBundleOnRecord ==
  ASSUME NEW i, NEW s PROVE OnRecord(NoBundle, i, s)
BY DEF OnRecord

\* What the saving mark of the member in work says, when p is the only process.
Marks(p) ==
  pc[p] = "saving" =>
    \/ bundles[req[p].id] = NoBundle
    \/ /\ cur[p] \in Selected(bundles[req[p].id])
       /\ bundles[req[p].id][cur[p]].push = "saving"

LEMMA KeepsRecorded ==
  ASSUME Recorded, NEW p \in Proc, \A q \in Proc : q = p, Marks(p)',
         \A m \in Member : \A e \in stack'[m] : e \in stack[m] \/ e.id = Foreign,
         \A i \in StashId : \A b \in Copies(i)' : b \in Copies(i) \/ OnRecord(b, i, stack')
  PROVE  Recorded'
<1>1. ASSUME NEW i \in StashId, NEW b \in Copies(i)' PROVE OnRecord(b, i, stack')
  <2>1. \A m \in Member : \A e \in stack'[m] : e \in stack[m] \/ e.id # i
    BY DEF StashId, Foreign
  <2>2. b \in Copies(i) => OnRecord(b, i, stack)
    BY DEF Recorded
  <2> QED
    BY <2>1, <2>2, OnRecordLess
<1>2. \A q \in Proc : Marks(q)'
  OBVIOUS
<1> QED
  BY <1>1, <1>2 DEF Recorded, Marks

LEMMA PlanRecorded ==
  ASSUME FreshIds, IInv, Fresh, Recorded, NEW p \in Proc, \A q \in Proc : q = p, Request(p)
  PROVE  Recorded'
<1>1. ASSUME NEW sel \in (SUBSET Member) \ {{}}, NEW i \in StashId, NEW opt \in PushOptions,
             PushPlan(p, sel, i, opt)
      PROVE  Recorded'
  <2>1. pc'[p] = "register" /\ UNCHANGED stack /\ i = clock
    BY <1>1 DEF PushPlan, native, IInv, TypeOK
  <2>2. \A m \in Member : \A e \in stack'[m] : e.id # i
    BY <2>1 DEF Fresh, IInv, TypeOK, Entry, StashId, Foreign
  <2>3. OnRecord(mem'[p], i, stack')
    BY <2>2 DEF OnRecord
  <2>4. \A j \in StashId : \A b \in Copies(j)' : b \in Copies(j) \/ OnRecord(b, j, stack')
    BY <1>1, <2>3, PushPlanCopies
  <2>5. Marks(p)'
    BY <2>1 DEF Marks
  <2> QED
    BY <2>1, <2>4, <2>5, KeepsRecorded
<1>2. ASSUME NEW op \in RestoreOp, NEW i \in StashId, NEW sel \in SUBSET Member,
             RestorePlan(p, op, i, sel)
      PROVE  Recorded'
  <2>1. pc'[p] = "plan" /\ UNCHANGED stack
    BY <1>2, RestorePlanDoes
  <2>2. Marks(p)'
    BY <2>1 DEF Marks
  <2>3. \A j \in StashId : \A b \in Copies(j)' : b \in Copies(j)
    BY <1>2, RestorePlanCopies
  <2> QED
    BY <2>1, <2>2, <2>3, KeepsRecorded
<1> QED
  BY <1>1, <1>2 DEF Request

\* A member without a payload of this push gets a record of any kind.
LEMMA MarkRecorded ==
  ASSUME IInv, Fresh, Recorded, NEW p \in Proc, Pushing(p), NEW m \in Left(p), NEW r \in Rec
  PROVE  OnRecord([mem[p] EXCEPT ![m] = r], req[p].id, stack)
<1> DEFINE b == [mem[p] EXCEPT ![m] = r]
<1>1. /\ m \in Member /\ Selected(b) = Selected(mem[p])
      /\ \A k \in Member \ {m} : b[k] = mem[p][k]
  BY Marked
<1>2. OnRecord(mem[p], req[p].id, stack) /\ mem[p] # NoBundle
  BY MemCopy DEF Pushing, Recorded, Fresh, InWork
<1>3. \A e \in stack[m] : e.id # req[p].id
  BY DEF Fresh, InWork
<1> HIDE DEF b
<1>4. OnRecord(b, req[p].id, stack)
  BY <1>1, <1>2, <1>3 DEF OnRecord
<1> QED
  BY <1>4 DEF b

LEMMA PushRecorded ==
  ASSUME IInv, Fresh, Recorded, NEW p \in Proc, \A q \in Proc : q = p,
         \/ PushRegister(p) \/ PushAcquire(p) \/ RestoreAcquire(p)
         \/ PushNativeFails(p) \/ PushRecord(p)
         \/ \E m \in Member : PushSkip(p, m) \/ PushIntent(p, m)
  PROVE  Recorded'
<1>1. ASSUME pc[p] # "idle" PROVE OnRecord(mem[p], req[p].id, stack) /\ req[p].id \in StashId
  BY <1>1, MemCopy DEF Recorded
<1>2. ASSUME pc[p] # "idle", UNCHANGED <<stack, req>>, Frame(p), OnRecord(mem'[p], req[p].id, stack),
             \A j \in StashId : bundles'[j] = bundles[j] \/ (j = req[p].id /\ bundles'[j] = mem'[p]),
             Marks(p)'
      PROVE  Recorded'
  <2>1. \A i \in StashId : \A b \in Copies(i)' : b \in Copies(i) \/ (i = req[p].id /\ b = mem'[p])
    BY <1>2, StepCopies
  <2> QED
    BY <1>2, <2>1, KeepsRecorded
<1>3. CASE PushRegister(p)
  <2>1. /\ pc[p] = "register" /\ pc'[p] = "acquire" /\ Writes(req[p].id, mem[p])
        /\ UNCHANGED <<stack, clock, req, mem, todo, cur>> /\ Frame(p)
    BY <1>3, PushRegisterDoes
  <2> QED
    BY <1>1, <1>2, <2>1 DEF Writes, Marks
<1>4. CASE PushAcquire(p) \/ RestoreAcquire(p)
  <2>1. /\ \/ pc[p] = "acquire" /\ pc'[p] = "push"
           \/ pc[p] = "plan" /\ pc'[p] = "restore"
        /\ UNCHANGED <<stack, bundles, clock, req, mem, todo, cur>> /\ Frame(p)
    BY <1>4, AcquireDoes
  <2> QED
    BY <1>1, <1>2, <2>1 DEF Marks
<1>5. CASE PushNativeFails(p)
  <2>1. /\ pc[p] = "saving" /\ pc'[p] = "record"
        /\ mem'[p] = [mem[p] EXCEPT ![cur[p]] = MemberRec("failed", "missing", 0)]
        /\ UNCHANGED <<stack, bundles, clock, req, todo, cur>> /\ Frame(p)
    BY <1>5, PushNativeFailsDoes
  <2>2. OnRecord(mem'[p], req[p].id, stack)
    BY <2>1, MarkRecorded, MemberRecType DEF Pushing, Left
  <2> QED
    BY <1>2, <2>1, <2>2 DEF Marks
<1>6. CASE PushRecord(p)
  <2>1. /\ pc[p] = "record" /\ pc'[p] = "push" /\ Writes(req[p].id, mem[p])
        /\ UNCHANGED <<stack, clock, req, mem, todo>> /\ Frame(p)
    BY <1>6, PushRecordDoes
  <2> QED
    BY <1>1, <1>2, <2>1 DEF Writes, Marks
<1>7. ASSUME NEW m \in Member, PushSkip(p, m) PROVE Recorded'
  <2>1. /\ pc[p] = "push" /\ pc'[p] = "push" /\ m \in todo[p]
        /\ mem'[p] = [mem[p] EXCEPT ![m] = MemberRec("empty", "noop", 0)]
        /\ Writes(req[p].id, mem'[p]) /\ todo'[p] = todo[p] \ {m}
        /\ UNCHANGED <<stack, clock, req, cur>> /\ Frame(p)
    BY <1>7, PushSkipDoes
  <2>2. OnRecord(mem'[p], req[p].id, stack)
    BY <2>1, MarkRecorded, MemberRecType DEF Pushing, Left
  <2> QED
    BY <1>2, <2>1, <2>2 DEF Marks, Writes
<1>8. ASSUME NEW m \in Member, PushIntent(p, m) PROVE Recorded'
  <2>1. /\ pc[p] = "push" /\ pc'[p] = "saving" /\ m \in todo[p] /\ cur'[p] = m
        /\ mem'[p] = [mem[p] EXCEPT ![m] = MemberRec("saving", "missing", 0)]
        /\ Writes(req[p].id, mem'[p]) /\ todo'[p] = todo[p] \ {m}
        /\ UNCHANGED <<stack, clock, req>> /\ Frame(p)
    BY <1>8, PushIntentDoes
  <2>2. OnRecord(mem'[p], req[p].id, stack)
    BY <2>1, MarkRecorded, MemberRecType DEF Pushing, Left
  <2>3. MemberRec("saving", "missing", 0) \in Rec /\ MemberRec("saving", "missing", 0).push = "saving"
    BY MemberRecType DEF MemberRec
  <2>4. m \in Left(p) /\ Pushing(p)
    BY <2>1 DEF Left, Pushing
  <2>5. m \in Selected(mem'[p]) /\ mem'[p][m].push = "saving"
    BY <2>1, <2>3, <2>4, Marked DEF Fresh, InWork, IInv, WorkInMemory
  <2>6. bundles'[req[p].id] = mem'[p]
    BY <1>1, <2>1 DEF Writes
  <2>7. Marks(p)'
    BY <2>1, <2>5, <2>6 DEF Marks
  <2> QED
    BY <1>2, <2>1, <2>2, <2>7 DEF Writes
<1> QED
  BY <1>3, <1>4, <1>5, <1>6, <1>7, <1>8

\* The mark on disk covers the payload until the record names it.
LEMMA PushNativeRecorded ==
  ASSUME IInv, Fresh, Recorded, NEW p \in Proc, \A q \in Proc : q = p, PushNative(p)
  PROVE  Recorded'
<1>1. /\ pc[p] = "saving" /\ pc'[p] = "record"
      /\ mem'[p] = [mem[p] EXCEPT ![cur[p]] = MemberRec("saved", "pending", nextOid)]
      /\ UNCHANGED <<bundles, clock, req, todo, cur>> /\ Frame(p)
  BY PushNativeDoes
<1>2. PICK entry :
        /\ entry.id = req[p].id /\ entry.oid = nextOid
        /\ \A m \in Member : \A e \in stack'[m] : e \in stack[m] \/ (e = entry /\ m = cur[p])
  BY PushNativeSaves
<1>3. Pushing(p) /\ cur[p] \in Left(p)
  BY <1>1 DEF Pushing, Left
<1>4. /\ MemberRec("saved", "pending", nextOid) \in Rec
      /\ MemberRec("saved", "pending", nextOid).push = "saved"
      /\ MemberRec("saved", "pending", nextOid).restore = "pending"
      /\ MemberRec("saved", "pending", nextOid).oid = nextOid
  BY MemberRecType DEF MemberRec, IInv, TypeOK
<1>5. /\ OnRecord(mem'[p], req[p].id, stack)
      /\ cur[p] \in Selected(mem'[p]) /\ mem'[p][cur[p]].push = "saved"
      /\ mem'[p][cur[p]].restore = "pending" /\ mem'[p][cur[p]].oid = nextOid
  <2>1. OnRecord(mem'[p], req[p].id, stack)
    BY <1>1, <1>3, <1>4, MarkRecorded
  <2>2. cur[p] \in Selected(mem[p])
    BY <1>1, <1>3 DEF Fresh, InWork
  <2> QED
    BY <1>1, <1>3, <1>4, <2>1, <2>2, Marked
<1>6. OnRecord(mem'[p], req[p].id, stack')
  BY <1>2, <1>5 DEF OnRecord
<1>7. ASSUME NEW i \in StashId, NEW b \in Copies(i)' PROVE OnRecord(b, i, stack')
  <2>1. b = bundles[i] \/ (i = req[p].id /\ b = mem'[p])
    BY <1>1 DEF Copies
  <2>2. ASSUME b = bundles[i] PROVE OnRecord(b, i, stack')
    <3>1. OnRecord(b, i, stack)
      BY <2>2 DEF Recorded, Copies
    <3>2. i = req[p].id => b = NoBundle \/ (cur[p] \in Selected(b) /\ b[cur[p]].push = "saving")
      BY <1>1, <2>2 DEF Recorded
    <3> QED
      BY <1>2, <3>1, <3>2 DEF OnRecord
  <2> QED
    BY <1>6, <2>1, <2>2
<1>8. \A q \in Proc : pc'[q] # "saving"
  BY <1>1
<1> QED
  BY <1>7, <1>8 DEF Recorded

\* What a pop or a drop takes is the only payload there was.
LEMMA RestoreMemberRecorded ==
  ASSUME IInv, Payloads, Fresh, Recorded, NEW p \in Proc, \A q \in Proc : q = p,
         NEW m \in Member, RestoreMember(p, m)
  PROVE  Recorded'
<1> DEFINE b == mem'[p]
           i == req[p].id
<1>1. /\ pc[p] = "restore" /\ pc'[p] = "restore"
      /\ UNCHANGED <<bundles, clock, req>> /\ Frame(p)
  BY RestoreMemberDoes
<1>2. /\ m \in Selected(mem[p]) /\ Selected(b) = Selected(mem[p]) /\ b # NoBundle
      /\ b[m].push = mem[p][m].push /\ b[m].oid = mem[p][m].oid
      /\ b[m].restore = RestoredState(req[p].op) /\ req[p].op \in RestoreOp
      /\ \A k \in Member \ {m} : b[k] = mem[p][k]
  BY RestoredRecord
<1>3. PICK entry :
        /\ entry \in Resolved(m, req[p].id, mem[p][m].oid)
        /\ \A k \in Member : \A e \in stack'[k] : e \in stack[k]
        /\ req[p].op # "apply" => entry \notin stack'[m]
  BY RestoreMemberTakes
<1>4. OnRecord(mem[p], i, stack) /\ mem[p] # NoBundle
  BY <1>1, MemCopy DEF Recorded, Fresh, InWork
<1>5. /\ entry \in stack[m] /\ entry.id = i
      /\ entry.oid = mem[p][m].oid \/ \A f \in stack[m] : f.oid # mem[p][m].oid
  BY <1>2, <1>3, ResolvedEntry
<1> HIDE DEF b
<1>6. OnRecord(b, i, stack')
  <2> SUFFICES ASSUME NEW k \in Member, NEW e \in stack'[k], e.id = i
               PROVE  /\ k \in Selected(b)
                      /\ \/ b[k].push = "saving"
                         \/ /\ b[k].push = "saved" /\ b[k].restore \in {"pending", "applied"}
                            /\ b[k].oid = e.oid
    BY DEF OnRecord
  <2>1. e \in stack[k]
    BY <1>3
  <2>2. CASE k # m
    BY <1>2, <1>4, <2>1, <2>2 DEF OnRecord
  <2>3. CASE k = m /\ req[p].op = "apply"
    BY <1>2, <1>4, <2>1, <2>3 DEF OnRecord, RestoredState
  <2>4. CASE k = m /\ req[p].op # "apply"
    <3>1. mem[p][m].push = "saving" \/ e.oid = mem[p][m].oid
      BY <1>4, <2>1, <2>4 DEF OnRecord
    <3>2. e # entry
      BY <1>3, <2>4
    <3>3. e.oid # mem[p][m].oid
      BY <1>5, <2>1, <2>4, <3>2 DEF Payloads, PayloadsOnce
    <3> QED
      BY <1>2, <2>4, <3>1, <3>3
  <2> QED
    BY <2>2, <2>3, <2>4
<1>7. \A j \in StashId : \A c \in Copies(j)' : c \in Copies(j) \/ (j = i /\ c = b)
  BY <1>1, StepCopies DEF b
<1>8. \A k \in Member : \A e \in stack'[k] : e \in stack[k]
  BY RestoreShrinks
<1>9. Marks(p)'
  BY <1>1 DEF Marks
<1> QED
  BY <1>6, <1>7, <1>8, <1>9, KeepsRecorded

\* A restore that finds no payload of a member leaves none unrecorded.
LEMMA LostRecorded ==
  ASSUME IInv, Payloads, Fresh, NEW p \in Proc, pc[p] # "idle", NEW m \in Selected(mem[p]),
         OnRecord(mem[p], req[p].id, stack), Resolved(m, req[p].id, mem[p][m].oid) = {}
  PROVE  OnRecord(Lost(p, m), req[p].id, stack)
<1>1. /\ Selected(Lost(p, m)) = Selected(mem[p]) /\ m \in Member
      /\ Lost(p, m)[m].push = mem[p][m].push
      /\ \A k \in Member \ {m} : Lost(p, m)[k] = mem[p][k]
  BY LostRecord DEF Selected
<1>2. mem[p] # NoBundle
  BY DEF Fresh, InWork
<1>3. ASSUME NEW e \in stack[m], e.id = req[p].id PROVE mem[p][m].push = "saving"
  <2> SUFFICES ASSUME e.oid = mem[p][m].oid PROVE FALSE
    BY <1>1, <1>2, <1>3 DEF OnRecord
  <2>1. e \in Matching(m, req[p].id, mem[p][m].oid)
    BY DEF Matching
  <2>2. \A f \in Matching(m, req[p].id, mem[p][m].oid) : f.oid = e.oid
    BY DEF Matching
  <2>3. e.oid \in Nat
    BY <1>1 DEF IInv, TypeOK, Entry
  <2>4. e \in Resolved(m, req[p].id, mem[p][m].oid)
    BY <2>1, <2>2, <2>3 DEF Resolved
  <2> QED
    BY <2>4
<1> QED
  BY <1>1, <1>2, <1>3 DEF OnRecord

LEMMA EndedRecorded ==
  ASSUME IInv, Payloads, Fresh, Recorded, NEW p \in Proc, \A q \in Proc : q = p, Ended(p)
  PROVE  Recorded'
<1>1. pc'[p] = "idle" /\ UNCHANGED stack
  BY EndDoes DEF Ended
<1>2. Marks(p)'
  BY <1>1 DEF Marks
<1>3. ASSUME NEW i \in StashId, NEW b \in Copies(i)'
      PROVE  b \in Copies(i) \/ OnRecord(b, i, stack')
  <2>1. CASE b \in Copies(i) \/ b = NoBundle
    BY <2>1, NoBundleOnRecord
  <2>2. CASE /\ i = req[p].id /\ pc[p] = "restore"
             /\ \E m \in Selected(mem[p]) :
                  Resolved(m, i, mem[p][m].oid) = {} /\ b = Lost(p, m)
    BY <1>1, <2>2, MemCopy, LostRecorded DEF Recorded
  <2> QED
    BY <1>3, <2>1, <2>2, EndedCopies
<1> QED
  BY <1>1, <1>2, <1>3, KeepsRecorded

LEMMA StepRecorded ==
  ASSUME FreshIds, \A p, q \in Proc : p = q, IInv, Payloads, Fresh, Recorded, [Next]_vars
  PROVE  Recorded'
<1>1. ASSUME NEW p \in Proc, Request(p) PROVE Recorded'
  BY <1>1, PlanRecorded
<1>2. ASSUME NEW p \in Proc, Continue(p) PROVE Recorded'
  BY <1>2, PushRecorded, PushNativeRecorded, RestoreMemberRecorded, EndsEnded, EndedRecorded
     DEF Continue
<1>3. ASSUME NEW p \in Proc, Die(p) PROVE Recorded'
  BY <1>3, EndsEnded, EndedRecorded
<1>4. CASE User
  <2>1. /\ UNCHANGED <<clock, pc, req, mem, todo, cur>>
        /\ \A i \in StashId : bundles'[i] \in {bundles[i], NoBundle}
        /\ \A m \in Member : \A e \in stack'[m] : e \in stack[m] \/ e.id = Foreign
    BY <1>4, UserDoes
  <2>2. \A i \in StashId : \A b \in Copies(i)' : b \in Copies(i) \/ b = NoBundle
    BY <1>4, UserCopies
  <2>3. ASSUME NEW i \in StashId, NEW b \in Copies(i)' PROVE OnRecord(b, i, stack')
    <3>1. OnRecord(b, i, stack)
      BY <2>2, NoBundleOnRecord DEF Recorded
    <3>2. \A m \in Member : \A e \in stack'[m] : e \in stack[m] \/ e.id # i
      BY <2>1 DEF StashId, Foreign
    <3> QED
      BY <3>1, <3>2, OnRecordLess
  <2>4. ASSUME NEW p \in Proc PROVE Marks(p)'
    <3>1. Marks(p) /\ InWork(p)
      BY DEF Recorded, Marks, Fresh
    <3> QED
      BY <2>1, <3>1 DEF Marks, InWork
  <2> QED
    BY <2>3, <2>4 DEF Recorded, Marks
<1>5. CASE UNCHANGED vars
  BY <1>5 DEF vars, native, process, Recorded, Copies
<1> QED
  BY <1>1, <1>2, <1>3, <1>4, <1>5 DEF Next

LEMMA InitRecorded == Init => Recorded
<1> SUFFICES ASSUME Init PROVE Recorded
  OBVIOUS
<1>1. \A i \in StashId : \A b \in Copies(i) : b = NoBundle
  BY DEF Init, Copies
<1>2. \A p \in Proc : pc[p] = "idle"
  BY DEF Init
<1> QED
  BY <1>1, <1>2, NoBundleOnRecord DEF Recorded

\* With one gwz process at a time, whatever dies and whatever users do, a
\* payload whose bundle file exists is on record there.
THEOREM PayloadsOnRecord ==
  ASSUME FreshIds, \A p, q \in Proc : p = q
  PROVE  Spec => []PayloadOnRecord
<1>1. IInv /\ Recorded => PayloadOnRecord
  <2> SUFFICES ASSUME IInv, Recorded, NEW m \in Member, NEW e \in stack[m],
                      e.id # Foreign, bundles[e.id] # NoBundle
               PROVE  /\ m \in Selected(bundles[e.id])
                      /\ \/ bundles[e.id][m].push = "saving"
                         \/ /\ bundles[e.id][m].push = "saved"
                            /\ bundles[e.id][m].restore \in {"pending", "applied"}
                            /\ bundles[e.id][m].oid = e.oid
    BY DEF PayloadOnRecord
  <2>1. e.id \in StashId
    BY DEF IInv, TypeOK, Entry
  <2>2. OnRecord(bundles[e.id], e.id, stack)
    BY <2>1 DEF Recorded, Copies
  <2> QED
    BY <2>2 DEF OnRecord
<1>2. Init => IInv /\ Payloads /\ Fresh /\ Recorded
  BY InitIInv, InitPayloads, InitFresh, InitRecorded
<1>3. IInv /\ Payloads /\ Fresh /\ Recorded /\ [Next]_vars
        => (IInv /\ Payloads /\ Fresh /\ Recorded)'
  BY StepIInv, StepPayloads, StepFreshIds, StepRecorded
<1> QED
  BY <1>1, <1>2, <1>3, PTL DEF Spec

-----------------------------------------------------------------------------
(* A bundle file that gwz removes leaves no payload behind. *)

LEMMA DueMembers ==
  ASSUME NEW i, NEW m
  PROVE  m \in Due(i) <=> \E p \in Proc : Pushing(p) /\ req[p].id = i /\ m \in Ahead(p)
BY DEF Due

LEMMA DueAre ==
  ASSUME NEW i \in StashId, NEW m
  PROVE  (m \in Due(i))' <=> \E p \in Proc : Pushing(p)' /\ req'[p].id = i /\ m \in Ahead(p)'
BY DEF Due

\* A push has no more due than before.
LEMMA DueShrinks ==
  ASSUME NEW p \in Proc, Frame(p),
         Pushing(p)' => Pushing(p) /\ req'[p] = req[p] /\ Ahead(p)' \subseteq Ahead(p)
  PROVE  \A i \in StashId : Due(i)' \subseteq Due(i)
<1> SUFFICES ASSUME NEW i \in StashId, NEW m, (m \in Due(i))' PROVE m \in Due(i)
  OBVIOUS
<1>1. PICK q \in Proc : Pushing(q)' /\ req'[q].id = i /\ m \in Ahead(q)'
  BY DueAre
<1>2. CASE q = p
  BY <1>1, <1>2, DueMembers
<1>3. CASE q # p
  BY <1>1, <1>3, DueMembers DEF Frame, Pushing, Ahead
<1> QED
  BY <1>2, <1>3

\* What the bundle of a push has due is what that push has ahead.
LEMMA DueOfPush ==
  ASSUME Fresh, NEW p \in Proc, Pushing(p), NEW i \in StashId, i = req[p].id
  PROVE  Due(i) = Ahead(p)
BY DEF Due, Fresh

LEMMA DueAfterPush ==
  ASSUME Fresh, NEW p \in Proc, Frame(p), UNCHANGED req, Pushing(p), Pushing(p)',
         NEW i \in StashId, i = req[p].id
  PROVE  Due(i)' \subseteq Ahead(p)'
<1> SUFFICES ASSUME NEW m, (m \in Due(i))' PROVE m \in Ahead(p)'
  OBVIOUS
<1>1. PICK q \in Proc : Pushing(q)' /\ req'[q].id = i /\ m \in Ahead(q)'
  BY DueAre
<1>2. q # p => Pushing(q)
  BY <1>1 DEF Frame, Pushing
<1>3. q = p
  BY <1>1, <1>2 DEF Fresh
<1> QED
  BY <1>1, <1>3

LEMMA SettledLess ==
  ASSUME NEW b, NEW i, NEW s, NEW d, Settled(b, i, s, d), NEW t, NEW c \in SUBSET d,
         \A m \in Member : \A e \in t[m] : e \in s[m] \/ e.id # i
  PROVE  Settled(b, i, t, c)
BY DEF Settled, Selected

LEMMA NoBundleSettled ==
  ASSUME NEW i, NEW s, NEW d PROVE Settled(NoBundle, i, s, d)
BY DEF Settled

LEMMA KeepsSettled ==
  ASSUME AllSettled,
         \A m \in Member : \A e \in stack'[m] : e \in stack[m] \/ e.id = Foreign,
         \A i \in StashId : \A b \in Copies(i)' :
           \/ b \in Copies(i) /\ Due(i)' \subseteq Due(i)
           \/ Settled(b, i, stack', Due(i)')
  PROVE  AllSettled'
<1> SUFFICES ASSUME NEW i \in StashId, NEW b \in Copies(i)' PROVE Settled(b, i, stack', Due(i)')
  BY DEF AllSettled
<1>1. CASE b \in Copies(i) /\ Due(i)' \subseteq Due(i)
  <2>1. Settled(b, i, stack, Due(i))
    BY <1>1 DEF AllSettled
  <2>2. \A m \in Member : \A e \in stack'[m] : e \in stack[m] \/ e.id # i
    BY DEF StashId, Foreign
  <2> QED
    BY <1>1, <2>1, <2>2, SettledLess
<1> QED
  BY <1>1

\* No push takes an ignored file: none is asked to, or there are none.
NoneIgnored == "ignored" \notin Kind \/ \A o \in PushOptions : ~o.ignored

\* Then a member that has something to save is dirty.
LEMMA NeededIsDirty ==
  ASSUME NoneIgnored, NEW kinds \in SUBSET Kind, NEW opt \in PushOptions,
         StashPushNeeded(kinds, opt)
  PROVE  IsDirty(kinds)
BY DEF NoneIgnored, StashPushNeeded, Stashable, IsDirty

LEMMA InitialRec ==
  ASSUME NEW kinds
  PROVE  /\ InitialBundleMember(kinds).push # "saved"
         /\ InitialBundleMember(kinds).push = "empty" => ~IsDirty(kinds)
BY DEF InitialBundleMember, MemberRec

LEMMA PushPlanSettled ==
  ASSUME FreshIds, NoneIgnored,
         IInv, Fresh, AllSettled, NEW p \in Proc, NEW sel \in (SUBSET Member) \ {{}},
         NEW i \in StashId, NEW opt \in PushOptions, PushPlan(p, sel, i, opt)
  PROVE  AllSettled'
<1>1. /\ pc'[p] = "register" /\ i = clock /\ todo'[p] = sel /\ bundles[i] = NoBundle
      /\ UNCHANGED <<stack, bundles>> /\ Frame(p)
  BY DEF PushPlan, Frame, native, IInv, TypeOK
<1>2. req'[p].id = i /\ req'[p].opt = opt /\ \A m \in sel : req'[p].seen[m] = tree[m]
  BY DEF PushPlan, Observed, IInv, TypeOK
<1>3. /\ \A m \in sel : mem'[p][m] = InitialBundleMember(tree[m])
      /\ \A m \in Member \ sel : mem'[p][m] = NoRec
  BY DEF PushPlan, IInv, TypeOK
<1>4. Selected(mem'[p]) = sel
  BY <1>3, InitialRecType, NoRecAssumption DEF Selected
<1>5. \A q \in Proc : req[q].id # i
  BY <1>1 DEF Fresh, InWork, IInv, TypeOK, Req, StashId
<1>6. \A m \in Member : \A e \in stack[m] : e.id # i
  BY <1>1 DEF Fresh, IInv, TypeOK, Entry, StashId, Foreign
<1>7. ASSUME NEW m, (m \in Due(i))' PROVE m \in sel /\ StashPushNeeded(tree[m], opt)
  <2>1. PICK q \in Proc : Pushing(q)' /\ req'[q].id = i /\ m \in Ahead(q)'
    BY <1>7, DueAre
  <2>2. q = p
    BY <1>1, <1>5, <2>1 DEF Frame
  <2> QED
    BY <1>1, <1>2, <2>1, <2>2 DEF Ahead
<1>8. ASSUME NEW b, b = mem'[p] PROVE Settled(b, i, stack', Due(i)')
  <2>1. Due(i)' \subseteq Selected(b)
    BY <1>4, <1>7, <1>8
  <2>2. \A m \in Member : tree[m] \in SUBSET Kind
    BY DEF IInv, TypeOK
  <2>3. ASSUME NEW m \in sel, StashPushNeeded(tree[m], opt) PROVE IsDirty(tree[m])
    <3>1. tree[m] \in SUBSET Kind
      BY <2>2
    <3> QED
      BY <2>3, <3>1, NeededIsDirty
  <2>4. \A m \in Selected(b) : b[m].push # "saved" /\ (b[m].push = "empty" => m \notin Due(i)')
    BY <1>3, <1>4, <1>7, <1>8, <2>3, InitialRec
  <2> QED
    BY <1>1, <1>6, <2>1, <2>4 DEF Settled, Selected
<1>9. ASSUME NEW j \in StashId, j # i PROVE Due(j)' \subseteq Due(j)
  <2> SUFFICES ASSUME NEW m, (m \in Due(j))' PROVE m \in Due(j)
    OBVIOUS
  <2>1. PICK q \in Proc : Pushing(q)' /\ req'[q].id = j /\ m \in Ahead(q)'
    BY DueAre
  <2>2. q # p
    BY <1>2, <1>9, <2>1
  <2> QED
    BY <1>1, <2>1, <2>2, DueMembers DEF Frame, Pushing, Ahead
<1>10. \A b \in Copies(i) : b = NoBundle
  BY <1>1, <1>5 DEF Copies
<1>11. ASSUME NEW j \in StashId, NEW b \in Copies(j)'
       PROVE  (b \in Copies(j) /\ Due(j)' \subseteq Due(j)) \/ Settled(b, j, stack', Due(j)')
  <2>1. b \in Copies(j) \/ (j = i /\ b = mem'[p])
    BY PushPlanCopies
  <2>2. CASE j # i
    BY <1>9, <2>1, <2>2
  <2>3. CASE j = i
    BY <1>8, <1>10, <2>1, <2>3, NoBundleSettled
  <2> QED
    BY <2>2, <2>3
<1> QED
  BY <1>1, <1>11, KeepsSettled

\* A member in work gets a record that says nothing of a payload.
LEMMA MarkSettled ==
  ASSUME IInv, Fresh, AllSettled, NEW p \in Proc, Pushing(p), NEW m \in Left(p), NEW r \in Rec,
         r.push # "saved", NEW i \in StashId, i = req[p].id, NEW d \in SUBSET Due(i),
         r.push = "empty" => m \notin d
  PROVE  Settled([mem[p] EXCEPT ![m] = r], i, stack, d)
<1> DEFINE b == [mem[p] EXCEPT ![m] = r]
<1>1. /\ m \in Member /\ Selected(b) = Selected(mem[p]) /\ b[m] = r
      /\ \A k \in Member \ {m} : b[k] = mem[p][k]
  BY Marked
<1>2. Settled(mem[p], i, stack, Due(i)) /\ mem[p] # NoBundle
  BY MemCopy DEF Pushing, AllSettled, Fresh, InWork
<1>3. \A e \in stack[m] : e.id # i
  BY DEF Fresh, InWork
<1> HIDE DEF b
<1>4. Settled(b, i, stack, d)
  <2> SUFFICES ASSUME NEW k \in Selected(b)
               PROVE  /\ b[k].push \in {"saved", "empty"} => k \notin d
                      /\ b[k].push = "saved" => b[k].restore # "noop"
                      /\ \A e \in stack[k] : e.id = i /\ b[k].push \in {"saved", "empty"}
                           => b[k].push = "saved" /\ e.oid = b[k].oid
    BY <1>1, <1>2 DEF Settled
  <2>1. CASE k = m
    BY <1>1, <1>3, <2>1
  <2>2. CASE k # m
    BY <1>1, <1>2, <2>2 DEF Settled, Selected
  <2> QED
    BY <2>1, <2>2
<1> QED
  BY <1>4 DEF b

LEMMA PushSettled ==
  ASSUME IInv, Fresh, AllSettled, NEW p \in Proc,
         \/ PushRegister(p) \/ PushAcquire(p) \/ RestoreAcquire(p)
         \/ PushNativeFails(p) \/ PushRecord(p)
         \/ \E m \in Member : PushSkip(p, m) \/ PushIntent(p, m)
  PROVE  AllSettled'
<1>1. ASSUME pc[p] # "idle" PROVE mem[p] \in Copies(req[p].id) /\ req[p].id \in StashId
  BY <1>1, MemCopy
<1>2. ASSUME pc[p] # "idle", UNCHANGED <<stack, req>>, Frame(p),
             Pushing(p)' => Pushing(p) /\ Ahead(p)' \subseteq Ahead(p),
             \A j \in StashId : bundles'[j] = bundles[j] \/ (j = req[p].id /\ bundles'[j] = mem'[p]),
             \A i \in StashId : i = req[p].id =>
               mem'[p] \in Copies(i) \/ Settled(mem'[p], i, stack', Due(i)')
      PROVE  AllSettled'
  <2>1. \A i \in StashId : \A b \in Copies(i)' : b \in Copies(i) \/ (i = req[p].id /\ b = mem'[p])
    BY <1>2, StepCopies
  <2>2. \A i \in StashId : Due(i)' \subseteq Due(i)
    BY <1>2, DueShrinks
  <2> QED
    BY <1>2, <2>1, <2>2, KeepsSettled
<1>3. CASE PushRegister(p)
  <2>1. /\ pc[p] = "register" /\ pc'[p] = "acquire" /\ Writes(req[p].id, mem[p])
        /\ UNCHANGED <<stack, clock, req, mem, todo, cur>> /\ Frame(p)
    BY <1>3, PushRegisterDoes
  <2>2. Pushing(p) /\ Ahead(p)' \subseteq Ahead(p)
    BY <2>1 DEF Pushing, Ahead
  <2> QED
    BY <1>1, <1>2, <2>1, <2>2 DEF Writes
<1>4. CASE PushAcquire(p) \/ RestoreAcquire(p)
  <2>1. /\ \/ pc[p] = "acquire" /\ pc'[p] = "push"
           \/ pc[p] = "plan" /\ pc'[p] = "restore"
        /\ UNCHANGED <<stack, bundles, clock, req, mem, todo, cur>> /\ Frame(p)
    BY <1>4, AcquireDoes
  <2>2. Pushing(p)' => Pushing(p) /\ Ahead(p)' \subseteq Ahead(p)
    BY <2>1 DEF Pushing, Ahead
  <2> QED
    BY <1>1, <1>2, <2>1, <2>2
<1>5. CASE PushRecord(p)
  <2>1. /\ pc[p] = "record" /\ pc'[p] = "push" /\ Writes(req[p].id, mem[p])
        /\ UNCHANGED <<stack, clock, req, mem, todo>> /\ Frame(p)
    BY <1>5, PushRecordDoes
  <2>2. Pushing(p) /\ Ahead(p)' \subseteq Ahead(p)
    BY <2>1 DEF Pushing, Ahead
  <2> QED
    BY <1>1, <1>2, <2>1, <2>2 DEF Writes
<1>6. ASSUME Pushing(p), Pushing(p)', Frame(p), UNCHANGED <<stack, req>>,
             Ahead(p)' \subseteq Ahead(p), NEW m \in Left(p), NEW r \in Rec, r.push # "saved",
             r.push = "empty" => m \notin Ahead(p), mem'[p] = [mem[p] EXCEPT ![m] = r],
             \A j \in StashId : bundles'[j] = bundles[j] \/ (j = req[p].id /\ bundles'[j] = mem'[p])
      PROVE  AllSettled'
  <2>1. ASSUME NEW i \in StashId, i = req[p].id PROVE Settled(mem'[p], i, stack', Due(i)')
    <3>1. PICK d : d = Due(i)'
      OBVIOUS
    <3>2. d \subseteq Due(i) /\ Due(i) = Ahead(p)
      BY <1>6, <2>1, <3>1, DueShrinks, DueOfPush
    <3>3. Settled(mem'[p], i, stack, d)
      BY <1>6, <2>1, <3>2, MarkSettled
    <3> QED
      BY <1>6, <3>1, <3>3
  <2> QED
    BY <1>2, <1>6, <2>1 DEF Pushing
<1>7. CASE PushNativeFails(p)
  <2>1. /\ pc[p] = "saving" /\ pc'[p] = "record"
        /\ mem'[p] = [mem[p] EXCEPT ![cur[p]] = MemberRec("failed", "missing", 0)]
        /\ UNCHANGED <<stack, bundles, clock, req, todo, cur>> /\ Frame(p)
    BY <1>7, PushNativeFailsDoes
  <2>2. MemberRec("failed", "missing", 0) \in Rec /\ MemberRec("failed", "missing", 0).push = "failed"
    BY MemberRecType DEF MemberRec
  <2>3. cur[p] \in Left(p) /\ Pushing(p) /\ Pushing(p)' /\ Ahead(p)' \subseteq Ahead(p)
    BY <2>1 DEF Left, Pushing, Ahead
  <2> QED
    BY <1>6, <2>1, <2>2, <2>3
<1>8. ASSUME NEW m \in Member, PushSkip(p, m) PROVE AllSettled'
  <2>1. /\ pc[p] = "push" /\ pc'[p] = "push" /\ m \in todo[p]
        /\ ~StashPushNeeded(req[p].seen[m], req[p].opt)
        /\ mem'[p] = [mem[p] EXCEPT ![m] = MemberRec("empty", "noop", 0)]
        /\ Writes(req[p].id, mem'[p]) /\ todo'[p] = todo[p] \ {m}
        /\ UNCHANGED <<stack, clock, req, cur>> /\ Frame(p)
    BY <1>8, PushSkipDoes
  <2>2. MemberRec("empty", "noop", 0) \in Rec /\ MemberRec("empty", "noop", 0).push = "empty"
    BY MemberRecType DEF MemberRec
  <2>3. /\ m \in Left(p) /\ Pushing(p) /\ Pushing(p)' /\ Ahead(p)' \subseteq Ahead(p)
        /\ m \notin Ahead(p)
    BY <2>1 DEF Left, Pushing, Ahead
  <2>4. \A j \in StashId : bundles'[j] = bundles[j] \/ (j = req[p].id /\ bundles'[j] = mem'[p])
    BY <2>1 DEF Writes
  <2> QED
    BY <1>6, <2>1, <2>2, <2>3, <2>4
<1>9. ASSUME NEW m \in Member, PushIntent(p, m) PROVE AllSettled'
  <2>1. /\ pc[p] = "push" /\ pc'[p] = "saving" /\ m \in todo[p] /\ cur'[p] = m
        /\ StashPushNeeded(req[p].seen[m], req[p].opt)
        /\ mem'[p] = [mem[p] EXCEPT ![m] = MemberRec("saving", "missing", 0)]
        /\ Writes(req[p].id, mem'[p]) /\ todo'[p] = todo[p] \ {m}
        /\ UNCHANGED <<stack, clock, req>> /\ Frame(p)
    BY <1>9, PushIntentDoes
  <2>2. MemberRec("saving", "missing", 0) \in Rec /\ MemberRec("saving", "missing", 0).push = "saving"
    BY MemberRecType DEF MemberRec
  <2>3. m \in Left(p) /\ Pushing(p) /\ Pushing(p)' /\ Ahead(p)' \subseteq Ahead(p)
    BY <2>1 DEF Left, Pushing, Ahead
  <2>4. \A j \in StashId : bundles'[j] = bundles[j] \/ (j = req[p].id /\ bundles'[j] = mem'[p])
    BY <2>1 DEF Writes
  <2> QED
    BY <1>6, <2>1, <2>2, <2>3, <2>4
<1> QED
  BY <1>3, <1>4, <1>5, <1>7, <1>8, <1>9

\* No copy calls the member finished when its payload comes into being.
LEMMA PushNativeSettled ==
  ASSUME IInv, Fresh, AllSettled, NEW p \in Proc, PushNative(p)
  PROVE  AllSettled'
<1>1. /\ pc[p] = "saving" /\ pc'[p] = "record"
      /\ mem'[p] = [mem[p] EXCEPT ![cur[p]] = MemberRec("saved", "pending", nextOid)]
      /\ UNCHANGED <<bundles, clock, req, todo, cur>> /\ Frame(p)
  BY PushNativeDoes
<1>2. PICK entry :
        /\ entry.id = req[p].id /\ entry.oid = nextOid
        /\ \A m \in Member : \A e \in stack'[m] : e \in stack[m] \/ (e = entry /\ m = cur[p])
  BY PushNativeSaves
<1>3. PICK i \in StashId : i = req[p].id
  BY <1>1, MemCopy
<1>4. PICK m : m = cur[p]
  OBVIOUS
<1>5. /\ Pushing(p) /\ Pushing(p)' /\ m \in Left(p) /\ m \in Ahead(p) /\ m \in Member
      /\ Ahead(p)' \subseteq Ahead(p) /\ m \notin Ahead(p)'
  BY <1>1, <1>4 DEF Pushing, Left, Ahead, Fresh, InWork, IInv, WorkInMemory
<1>6. \A j \in StashId : Due(j)' \subseteq Due(j)
  BY <1>1, <1>5, DueShrinks
<1>7. m \in Due(i) /\ m \notin Due(i)'
  BY <1>1, <1>3, <1>5, DueOfPush, DueAfterPush
<1>8. /\ MemberRec("saved", "pending", nextOid) \in Rec
      /\ MemberRec("saved", "pending", nextOid).push = "saved"
      /\ MemberRec("saved", "pending", nextOid).restore = "pending"
      /\ MemberRec("saved", "pending", nextOid).oid = nextOid
  BY MemberRecType DEF MemberRec, IInv, TypeOK
<1>9. /\ Selected(mem'[p]) = Selected(mem[p]) /\ mem'[p][m].push = "saved"
      /\ mem'[p][m].restore = "pending" /\ mem'[p][m].oid = nextOid
      /\ \A k \in Member \ {m} : mem'[p][k] = mem[p][k]
  BY <1>1, <1>4, <1>5, <1>8, Marked
<1>10. \A e \in stack[m] : e.id # i
  BY <1>3, <1>5 DEF Fresh, InWork
<1>11. Settled(mem[p], i, stack, Due(i)) /\ mem[p] # NoBundle
  BY <1>1, <1>3, MemCopy DEF AllSettled, Fresh, InWork
<1>12. Settled(mem'[p], i, stack', Due(i)')
  <2>1. PICK d : d = Due(i)' /\ d \subseteq Due(i) /\ m \notin d
    BY <1>6, <1>7
  <2>2. PICK b : b = mem'[p]
    OBVIOUS
  <2>3. /\ d \subseteq Selected(b)
        /\ \A k \in Member : \A e \in stack'[k] : e.id = i => k \in Selected(b)
    BY <1>2, <1>4, <1>7, <1>9, <1>11, <2>1, <2>2 DEF Settled
  <2>4. ASSUME NEW k \in Selected(b)
        PROVE  /\ b[k].push \in {"saved", "empty"} => k \notin d
               /\ b[k].push = "saved" => b[k].restore # "noop"
               /\ \A e \in stack'[k] : e.id = i /\ b[k].push \in {"saved", "empty"}
                    => b[k].push = "saved" /\ e.oid = b[k].oid
    <3>1. CASE k = m
      BY <1>2, <1>4, <1>5, <1>9, <1>10, <2>1, <2>2, <3>1
    <3>2. CASE k # m
      BY <1>2, <1>4, <1>9, <1>11, <2>1, <2>2, <3>2 DEF Settled, Selected
    <3> QED
      BY <3>1, <3>2
  <2>5. Settled(b, i, stack', d)
    BY <2>3, <2>4 DEF Settled
  <2> QED
    BY <2>1, <2>2, <2>5
<1>13. ASSUME NEW j \in StashId, NEW b \in Copies(j), b # NoBundle
       PROVE  Settled(b, j, stack', Due(j)')
  <2>1. Settled(b, j, stack, Due(j))
    BY DEF AllSettled
  <2>2. PICK d : d = Due(j)' /\ d \subseteq Due(j)
    BY <1>6
  <2>3. j = i => m \in Selected(b) /\ b[m].push \notin {"saved", "empty"}
    BY <1>7, <1>13, <2>1 DEF Settled
  <2>4. ASSUME NEW k \in Member, NEW e \in stack'[k], e.id = j
        PROVE  e \in stack[k] \/ (k = m /\ j = i)
    BY <1>2, <1>3, <1>4, <2>4
  <2>5. /\ d \subseteq Selected(b)
        /\ \A k \in Member : \A e \in stack'[k] : e.id = j => k \in Selected(b)
    BY <1>13, <2>1, <2>2, <2>3, <2>4 DEF Settled
  <2>6. ASSUME NEW k \in Selected(b)
        PROVE  /\ b[k].push \in {"saved", "empty"} => k \notin d
               /\ b[k].push = "saved" => b[k].restore # "noop"
               /\ \A e \in stack'[k] : e.id = j /\ b[k].push \in {"saved", "empty"}
                    => b[k].push = "saved" /\ e.oid = b[k].oid
    BY <1>13, <2>1, <2>2, <2>3, <2>4 DEF Settled, Selected
  <2>7. Settled(b, j, stack', d)
    BY <2>5, <2>6 DEF Settled
  <2> QED
    BY <2>2, <2>7
<1>14. \A j \in StashId : \A b \in Copies(j)' : b \in Copies(j) \/ (j = i /\ b = mem'[p])
  BY <1>1, <1>3, StepCopies
<1> QED
  BY <1>12, <1>13, <1>14, NoBundleSettled DEF AllSettled

\* A restore changes what it restores into something consumed, applied or missing.
LEMMA RestoreMemberSettled ==
  ASSUME IInv, Fresh, AllSettled, NEW p \in Proc, NEW m \in Member, RestoreMember(p, m)
  PROVE  AllSettled'
<1>1. /\ pc[p] = "restore" /\ pc'[p] = "restore"
      /\ UNCHANGED <<bundles, clock, req>> /\ Frame(p)
  BY RestoreMemberDoes
<1>2. /\ m \in Selected(mem[p]) /\ Selected(mem'[p]) = Selected(mem[p])
      /\ mem'[p][m].push = mem[p][m].push /\ mem'[p][m].oid = mem[p][m].oid
      /\ mem'[p][m].restore # "noop"
      /\ \A k \in Member \ {m} : mem'[p][k] = mem[p][k]
  BY RestoredRecord DEF RestoredState, RestoreOp
<1>3. \A k \in Member : \A e \in stack'[k] : e \in stack[k]
  BY RestoreShrinks
<1>4. \A i \in StashId : Due(i)' \subseteq Due(i)
  BY <1>1, DueShrinks DEF Pushing
<1>5. ASSUME NEW i \in StashId, i = req[p].id PROVE Settled(mem'[p], i, stack', Due(i)')
  <2>1. Settled(mem[p], i, stack, Due(i)) /\ mem[p] # NoBundle
    BY <1>1, <1>5, MemCopy DEF AllSettled, Fresh, InWork
  <2>2. PICK d : d = Due(i)' /\ d \subseteq Due(i)
    BY <1>4
  <2>3. Settled(mem'[p], i, stack', d)
    BY <1>2, <1>3, <2>1, <2>2 DEF Settled, Selected
  <2> QED
    BY <2>2, <2>3
<1>6. \A j \in StashId : \A b \in Copies(j)' : b \in Copies(j) \/ (j = req[p].id /\ b = mem'[p])
  BY <1>1, StepCopies
<1> QED
  BY <1>3, <1>4, <1>5, <1>6, KeepsSettled

LEMMA EndedSettled ==
  ASSUME IInv, Fresh, AllSettled, NEW p \in Proc, Ended(p)
  PROVE  AllSettled'
<1>1. pc'[p] = "idle" /\ UNCHANGED stack /\ Frame(p)
  BY EndDoes DEF Ended
<1>2. \A i \in StashId : Due(i)' \subseteq Due(i)
  BY <1>1, DueShrinks DEF Pushing
<1>3. ASSUME NEW i \in StashId, i = req[p].id, pc[p] = "restore", NEW m \in Selected(mem[p])
      PROVE  Settled(Lost(p, m), i, stack', Due(i)')
  <2>1. Settled(mem[p], i, stack, Due(i)) /\ mem[p] # NoBundle
    BY <1>3, MemCopy DEF AllSettled, Fresh, InWork
  <2>2. PICK d : d = Due(i)' /\ d \subseteq Due(i)
    BY <1>2
  <2>3. PICK b : b = Lost(p, m)
    OBVIOUS
  <2>4. /\ Selected(b) = Selected(mem[p]) /\ b[m].push = mem[p][m].push
        /\ b[m].oid = mem[p][m].oid /\ b[m].restore = "missing"
        /\ \A k \in Member \ {m} : b[k] = mem[p][k]
    BY <1>3, <2>3, LostRecord
  <2>5. Settled(b, i, stack, d)
    BY <2>1, <2>2, <2>4 DEF Settled, Selected
  <2> QED
    BY <1>1, <2>2, <2>3, <2>5
<1>4. ASSUME NEW i \in StashId, NEW b \in Copies(i)'
      PROVE  b \in Copies(i) \/ Settled(b, i, stack', Due(i)')
  <2>1. \/ b \in Copies(i) \/ b = NoBundle
        \/ /\ i = req[p].id /\ pc[p] = "restore"
           /\ \E m \in Selected(mem[p]) :
                Resolved(m, i, mem[p][m].oid) = {} /\ b = Lost(p, m)
    BY EndedCopies
  <2> QED
    BY <1>3, <2>1, NoBundleSettled
<1> QED
  BY <1>1, <1>2, <1>4, KeepsSettled

LEMMA StepSettled ==
  ASSUME FreshIds, NoneIgnored, IInv, Fresh, AllSettled, [Next]_vars
  PROVE  AllSettled'
<1>1. ASSUME NEW p \in Proc, Request(p) PROVE AllSettled'
  <2>1. ASSUME NEW op \in RestoreOp, NEW i \in StashId, NEW sel \in SUBSET Member,
               RestorePlan(p, op, i, sel)
        PROVE  AllSettled'
    <3>1. pc'[p] = "plan" /\ UNCHANGED stack /\ Frame(p)
      BY <2>1, RestorePlanDoes
    <3>2. \A j \in StashId : Due(j)' \subseteq Due(j)
      BY <3>1, DueShrinks DEF Pushing
    <3>3. \A j \in StashId : \A b \in Copies(j)' : b \in Copies(j)
      BY <2>1, RestorePlanCopies
    <3> QED
      BY <3>1, <3>2, <3>3, KeepsSettled
  <2> QED
    BY <1>1, <2>1, PushPlanSettled DEF Request
<1>2. ASSUME NEW p \in Proc, Continue(p) PROVE AllSettled'
  BY <1>2, PushSettled, PushNativeSettled, RestoreMemberSettled, EndsEnded, EndedSettled
     DEF Continue
<1>3. ASSUME NEW p \in Proc, Die(p) PROVE AllSettled'
  BY <1>3, EndsEnded, EndedSettled
<1>4. CASE User
  <2>1. /\ UNCHANGED <<clock, pc, req, mem, todo, cur>>
        /\ \A m \in Member : \A e \in stack'[m] : e \in stack[m] \/ e.id = Foreign
    BY <1>4, UserDoes
  <2>2. \A i \in StashId : \A b \in Copies(i)' : b \in Copies(i) \/ b = NoBundle
    BY <1>4, UserCopies
  <2>3. \A i \in StashId : Due(i)' = Due(i)
    BY <2>1 DEF Due, Pushing, Ahead
  <2> QED
    BY <2>1, <2>2, <2>3, KeepsSettled, NoBundleSettled
<1>5. CASE UNCHANGED vars
  BY <1>5 DEF vars, native, process, AllSettled, Copies, Due, Pushing, Ahead
<1> QED
  BY <1>1, <1>2, <1>3, <1>4, <1>5 DEF Next

LEMMA InitSettled == Init => AllSettled
<1> SUFFICES ASSUME Init PROVE AllSettled
  OBVIOUS
<1>1. \A i \in StashId : \A b \in Copies(i) : b = NoBundle
  BY DEF Init, Copies
<1> QED
  BY <1>1, NoBundleSettled DEF AllSettled

\* When every push has an id of its own and none takes an ignored file, because
\* it is not asked to or because there is none, a bundle file that gwz removes leaves no payload behind, for any number of processes
\* with stale copies of it.
THEOREM RemovalsLeaveNoOrphan ==
  ASSUME FreshIds, NoneIgnored
  PROVE  Spec => RemovalLeavesNoOrphan
<1> DEFINE Removal(p, i) ==
      pc[p] = "restore" /\ pc'[p] = "idle" /\ bundles[i] # NoBundle /\ bundles'[i] = NoBundle
        => \A m \in Member : \A e \in stack[m] : e.id # i
<1>1. IInv /\ Payloads /\ Fresh /\ AllSettled /\ [Next]_vars
        => [\A p \in Proc, i \in StashId : Removal(p, i)]_vars
  <2> SUFFICES ASSUME IInv, Payloads, Fresh, AllSettled, [Next]_vars,
                      NEW p \in Proc, NEW i \in StashId, pc[p] = "restore", pc'[p] = "idle",
                      bundles[i] # NoBundle, bundles'[i] = NoBundle
               PROVE  \A m \in Member : \A e \in stack[m] : e.id # i
    OBVIOUS
  <2>1. Ended(p)
    <3>1. ASSUME NEW q \in Proc, Request(q) PROVE FALSE
      BY <3>1 DEF Request, PushPlan, RestorePlan, IInv, TypeOK
    <3>2. ASSUME NEW q \in Proc, Continue(q)
          PROVE  RestoreFinish(p) \/ \E m \in Member : RestoreFails(p, m)
      BY <3>2 DEF Continue, PushRegister, PushAcquire, PushSkip, PushIntent, PushNative,
         PushNativeFails, PushRecord, PushDone, RestoreAcquire, RestoreMember, RestoreFails,
         RestoreFinish, LockBusy, End, IInv, TypeOK
    <3>3. ASSUME NEW q \in Proc, Die(q) PROVE q = p
      BY <3>3 DEF Die, End, IInv, TypeOK
    <3>4. ~User /\ pc' # pc
      BY DEF User, process
    <3> QED
      BY <3>1, <3>2, <3>3, <3>4, EndsEnded DEF Next, vars, process
  <2>2. mem[p] # NoBundle /\ \A m \in Selected(mem[p]) : Lost(p, m) # NoBundle
    BY LostRecord DEF Fresh, InWork
  <2>3. i = req[p].id /\ BundleIsComplete(mem[p])
    BY <2>1, <2>2 DEF Ended, Writes, Lost
  <2>4. Settled(mem[p], i, stack, Due(i)) /\ Truthful(mem[p], i, stack, nextOid)
    BY <2>3, MemCopy DEF AllSettled, Payloads
  <2> QED
    BY <2>2, <2>3, <2>4 DEF Settled, Truthful, BundleIsComplete
<1>2. Init => IInv /\ Payloads /\ Fresh /\ AllSettled
  BY InitIInv, InitPayloads, InitFresh, InitSettled
<1>3. IInv /\ Payloads /\ Fresh /\ AllSettled /\ [Next]_vars
        => (IInv /\ Payloads /\ Fresh /\ AllSettled)'
  BY StepIInv, StepPayloads, StepFreshIds, StepSettled
<1> QED
  BY <1>1, <1>2, <1>3, PTL DEF Spec, RemovalLeavesNoOrphan, Removal

-----------------------------------------------------------------------------
(* Where no other process can write a bundle between the plan of a restore *)
(* and its lock, a restore changes the records it selects and no others.   *)

\* The copy a restore has of the records it leaves alone is as they are.
UpToDate(p) ==
  pc[p] \in {"plan", "restore"} =>
    /\ req[p].id \in StashId /\ todo[p] \subseteq req[p].sel
    /\ \/ bundles[req[p].id] = NoBundle
       \/ \A m \in Member \ req[p].sel : mem[p][m] = bundles[req[p].id][m]

AllUpToDate == \A p \in Proc : UpToDate(p)

LEMMA PlanUpToDate ==
  ASSUME IInv, NEW p \in Proc, Request(p)
  PROVE  UpToDate(p)'
<1>1. ASSUME NEW sel \in (SUBSET Member) \ {{}}, NEW i \in StashId, NEW opt \in PushOptions,
             PushPlan(p, sel, i, opt)
      PROVE  UpToDate(p)'
  <2>1. pc'[p] = "register"
    BY <1>1, PushPlanDoes
  <2> QED
    BY <2>1 DEF UpToDate
<1>2. ASSUME NEW op \in RestoreOp, NEW i \in StashId, NEW sel \in SUBSET Member,
             RestorePlan(p, op, i, sel)
      PROVE  UpToDate(p)'
  <2> DEFINE chosen == IF sel = {} THEN EligibleBundleMembers(bundles[i]) ELSE sel
             r      == [op |-> op, id |-> i, opt |-> NoOption, sel |-> chosen,
                        seen |-> Observed({})]
  <2>1. req' = [req EXCEPT ![p] = r] /\ todo' = [todo EXCEPT ![p] = Planned(bundles[i], chosen)]
    BY <1>2 DEF RestorePlan
  <2>2. r.id = i /\ r.sel = chosen
    OBVIOUS
  <2>3. Planned(bundles[i], chosen) \subseteq chosen
    BY DEF Planned
  <2> HIDE DEF chosen, r
  <2>4. req'[p] = r /\ todo'[p] \subseteq chosen
    BY <2>1, <2>3 DEF IInv, TypeOK
  <2>5. mem'[p] = bundles[i] /\ UNCHANGED bundles
    BY <1>2, RestorePlanDoes
  <2> QED
    BY <2>2, <2>4, <2>5 DEF UpToDate
<1> QED
  BY <1>1, <1>2 DEF Request

LEMMA StepUpToDate ==
  ASSUME \A p, q \in Proc : p = q, IInv, AllUpToDate, [Next]_vars
  PROVE  AllUpToDate'
<1>1. ASSUME NEW p \in Proc, UpToDate(p)' PROVE AllUpToDate'
  BY <1>1 DEF AllUpToDate, UpToDate
<1>2. ASSUME NEW p \in Proc, Request(p) PROVE AllUpToDate'
  BY <1>1, <1>2, PlanUpToDate
<1>3. ASSUME NEW p \in Proc, Continue(p) PROVE AllUpToDate'
  <2>1. CASE PushAcquire(p) \/ RestoreAcquire(p)
    <3>1. /\ \/ pc'[p] = "push"
             \/ pc[p] = "plan"
          /\ UNCHANGED <<bundles, req, mem, todo>>
      BY <2>1, AcquireDoes
    <3>2. UpToDate(p)'
      BY <3>1 DEF AllUpToDate, UpToDate
    <3> QED
      BY <1>1, <3>2
  <2>2. ASSUME NEW m \in Member, RestoreMember(p, m) PROVE AllUpToDate'
    <3>1. /\ pc[p] = "restore" /\ UNCHANGED <<bundles, req>>
          /\ \A k \in Member \ {m} : mem'[p][k] = mem[p][k]
      BY <2>2, RestoreMemberDoes, RestoredRecord
    <3>2. m \in todo[p] /\ todo'[p] = todo[p] \ {m}
      BY <2>2 DEF RestoreMember, IInv, TypeOK
    <3>3. UpToDate(p)'
      BY <3>1, <3>2 DEF AllUpToDate, UpToDate
    <3> QED
      BY <1>1, <3>3
  <2>3. CASE \/ PushRegister(p) \/ PushNative(p) \/ PushNativeFails(p) \/ PushRecord(p)
             \/ \E m \in Member : PushSkip(p, m) \/ PushIntent(p, m)
    <3>1. pc'[p] \in {"acquire", "push", "saving", "record"}
      BY <2>3, PushRegisterDoes, PushNativeDoes, PushNativeFailsDoes, PushRecordDoes,
         PushSkipDoes, PushIntentDoes
    <3>2. UpToDate(p)'
      BY <3>1 DEF UpToDate
    <3> QED
      BY <1>1, <3>2
  <2>4. CASE \/ PushDone(p) \/ LockBusy(p) \/ RestoreFinish(p)
             \/ \E m \in Member : RestoreFails(p, m)
    <3>1. pc'[p] = "idle"
      BY <2>4, EndsEnded, EndDoes DEF Ended
    <3>2. UpToDate(p)'
      BY <3>1 DEF UpToDate
    <3> QED
      BY <1>1, <3>2
  <2> QED
    BY <1>3, <2>1, <2>2, <2>3, <2>4 DEF Continue
<1>4. ASSUME NEW p \in Proc, Die(p) PROVE AllUpToDate'
  <2>1. pc'[p] = "idle"
    BY <1>4, EndsEnded, EndDoes DEF Ended
  <2>2. UpToDate(p)'
    BY <2>1 DEF UpToDate
  <2> QED
    BY <1>1, <2>2
<1>5. CASE User
  <2>1. /\ UNCHANGED <<pc, req, mem, todo>>
        /\ \A i \in StashId : bundles'[i] \in {bundles[i], NoBundle}
    BY <1>5, UserDoes
  <2> QED
    BY <2>1 DEF AllUpToDate, UpToDate
<1>6. CASE UNCHANGED vars
  BY <1>6 DEF vars, native, process, AllUpToDate, UpToDate
<1> QED
  BY <1>2, <1>3, <1>4, <1>5, <1>6 DEF Next

\* What the requirements say of restores, "MUST update only the selected
\* bundle member records", holds where one gwz process at a time is at work,
\* whatever dies and whatever users do: the stale copy a restore writes back
\* takes a second process.
THEOREM LoneRestoresAreConfined ==
  ASSUME \A p, q \in Proc : p = q
  PROVE  Spec => OnlySelectedRecordsUpdated
<1> DEFINE Confined ==
      \A p \in Proc :
        LET i == req[p].id
        IN  pc[p] = "restore" /\ pc'[p] = "idle"
              /\ bundles[i] # NoBundle /\ bundles'[i] # NoBundle
            => \A m \in Selected(bundles[i]) \ req[p].sel : bundles'[i][m] = bundles[i][m]
<1>1. ASSUME IInv, AllUpToDate, [Next]_vars PROVE Confined
  <2> SUFFICES ASSUME NEW p \in Proc, pc[p] = "restore", pc'[p] = "idle",
                      bundles[req[p].id] # NoBundle, bundles'[req[p].id] # NoBundle,
                      NEW m \in Selected(bundles[req[p].id]) \ req[p].sel
               PROVE  bundles'[req[p].id][m] = bundles[req[p].id][m]
    OBVIOUS
  <2> DEFINE i == req[p].id
  <2>1. /\ i \in StashId /\ m \in Member /\ m \notin todo[p] /\ todo[p] \subseteq Member
        /\ mem[p][m] = bundles[i][m]
    BY <1>1 DEF AllUpToDate, UpToDate, Selected, IInv, WorkInMemory
  <2>2. ASSUME NEW k \in Member, RestoreFails(p, k) PROVE bundles'[i][m] = mem[p][m]
    <3> DEFINE lost == [mem[p] EXCEPT ![k].restore = "missing"]
    <3>1. k \in todo[p] /\ (WriteBundle(i, lost) \/ WriteBundle(i, mem[p]))
      BY <2>2 DEF RestoreFails
    <3>2. lost[m] = mem[p][m]
      BY <2>1, <3>1 DEF IInv, TypeOK, Bundle
    <3> HIDE DEF lost
    <3>3. bundles'[i] = lost \/ bundles'[i] = mem[p]
      BY <1>1, <2>1, <3>1, WriteWrites DEF IInv, Writes
    <3> QED
      BY <3>2, <3>3
  <2>3. ASSUME RestoreFinish(p) PROVE bundles'[i][m] = mem[p][m]
    <3>1. WriteBundle(i, NoBundle) \/ WriteBundle(i, mem[p])
      BY <2>3 DEF RestoreFinish
    <3>2. bundles'[i] = NoBundle \/ bundles'[i] = mem[p]
      BY <1>1, <2>1, <3>1, WriteWrites DEF IInv, Writes
    <3> QED
      BY <3>2
  <2>4. ASSUME Die(p) PROVE bundles'[i] = bundles[i]
    BY <2>4 DEF Die
  <2>5. \/ RestoreFinish(p) \/ Die(p) \/ \E k \in Member : RestoreFails(p, k)
    <3>1. ~Request(p)
      BY DEF Request, PushPlan, RestorePlan
    <3>2. \A q \in Proc : q = p
      OBVIOUS
    <3>3. ~User
      <4>1. User => pc' = pc
        BY DEF User, process
      <4> QED
        BY <4>1
    <3>4. pc' # pc
      OBVIOUS
    <3>5. Continue(p) => RestoreFinish(p) \/ \E k \in Member : RestoreFails(p, k)
      <4>1. \A k \in Member : ~PushSkip(p, k) /\ ~PushIntent(p, k)
        BY DEF PushSkip, PushIntent
      <4>2. ~PushRegister(p) /\ ~PushAcquire(p) /\ ~PushNative(p) /\ ~PushNativeFails(p)
            /\ ~PushRecord(p) /\ ~PushDone(p) /\ ~RestoreAcquire(p) /\ ~LockBusy(p)
        BY DEF PushRegister, PushAcquire, PushNative, PushNativeFails, PushRecord, PushDone,
               RestoreAcquire, LockBusy
      <4>3. \A k \in Member : ~RestoreMember(p, k)
        BY DEF RestoreMember
      <4> QED
        BY <4>1, <4>2, <4>3 DEF Continue
    <3> QED
      BY <1>1, <3>1, <3>2, <3>3, <3>4, <3>5 DEF Next, vars, process
  <2> QED
    BY <2>1, <2>2, <2>3, <2>4, <2>5
<1>2. Init => IInv /\ AllUpToDate
  <2>1. Init => AllUpToDate
    BY DEF Init, AllUpToDate, UpToDate
  <2> QED
    BY <2>1, InitIInv
<1>3. IInv /\ AllUpToDate /\ [Next]_vars => (IInv /\ AllUpToDate)'
  BY StepIInv, StepUpToDate
<1>4. OnlySelectedRecordsUpdated <=> [][Confined]_vars
  BY DEF OnlySelectedRecordsUpdated
<1> HIDE DEF Confined
<1> QED
  BY <1>1, <1>2, <1>3, <1>4, PTL DEF Spec
=============================================================================
