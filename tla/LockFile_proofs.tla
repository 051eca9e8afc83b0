-------------------------- MODULE LockFile_proofs --------------------------
(***************************************************************************)
(* LockFile gives mutual exclusion and implements MutatorLock, for any     *)
(* number of processes.                                                    *)
(***************************************************************************)
EXTENDS LockFile, TLAPS

\* A descriptor is open exactly while an attempt or a guard is alive.
OpenWhileActive == \A p \in Proc : pc[p] # "idle" => fd[p] # Absent

\* The inductive invariant: OneHolder follows from one inode per path, and
\* that from OpenOnPath, which says why a new inode is never made while a
\* descriptor is open.
IInv == TypeOK /\ OpenOnPath /\ OpenWhileActive /\ OneHolder

LEMMA InitIInv == Init => IInv
BY DEF Init, IInv, TypeOK, OpenOnPath, OpenWhileActive, OneHolder, Absent

LEMMA StepIInv == IInv /\ [Next]_lockVars => IInv'
<1> SUFFICES ASSUME IInv, [Next]_lockVars PROVE IInv'
  OBVIOUS
<1> USE DEF IInv, TypeOK, OpenOnPath, OpenWhileActive, OneHolder, Absent, Goto,
        CloseFile
<1>1. ASSUME NEW p \in Proc, OpenExisting(p) PROVE IInv'
  BY <1>1 DEF OpenExisting
<1>2. ASSUME NEW p \in Proc, OpenCreates(p) PROVE IInv'
  \* The path named nothing, so no descriptor was open.
  <2>1. \A q \in Proc : fd[q] = Absent
    BY <1>2 DEF OpenCreates
  <2>2. path' = inodes + 1 /\ path' \in Nat /\ path' # Absent
    BY <1>2 DEF OpenCreates
  <2> QED
    BY <1>2, <2>1, <2>2 DEF OpenCreates
<1>3. ASSUME NEW p \in Proc, TryLock(p) PROVE IInv'
  \* All open descriptors are on one inode: a second holder would be on it.
  <2>1. \A q \in Proc : pc[q] # "held"
    BY <1>3 DEF TryLock, Locked
  <2> QED
    BY <1>3, <2>1 DEF TryLock
<1>4. ASSUME NEW p \in Proc, Refused(p) PROVE IInv'
  BY <1>4 DEF Refused
<1>5. ASSUME NEW p \in Proc, Unlock(p) PROVE IInv'
  BY <1>5 DEF Unlock
<1>6. ASSUME NEW p \in Proc, Close(p) PROVE IInv'
  BY <1>6 DEF Close
<1>7. ASSUME NEW p \in Proc, Die(p) PROVE IInv'
  BY <1>7 DEF Die
<1>8. CASE UNCHANGED lockVars
  BY <1>8 DEF lockVars
<1> QED
  BY <1>1, <1>2, <1>3, <1>4, <1>5, <1>6, <1>7, <1>8 DEF Next, Step

\* The type invariant, the one-inode invariant and mutual exclusion hold in
\* every behaviour of the lock file, whoever dies and however many race.
THEOREM LockFileInvariants == Spec => [](TypeOK /\ OpenOnPath /\ OneHolder)
<1>1. IInv => TypeOK /\ OpenOnPath /\ OneHolder
  BY DEF IInv
<1> QED
  BY InitIInv, StepIInv, <1>1, PTL DEF Spec

-----------------------------------------------------------------------------
(* Refinement. *)

LEMMA HolderIsHeld ==
  ASSUME OneHolder, NEW p \in Proc, pc[p] = "held"
  PROVE  Holder = p
BY DEF Holder, OneHolder

LEMMA NoHolder ==
  ASSUME \A p \in Proc : pc[p] # "held"
  PROVE  Holder = NoProc
BY DEF Holder

\* A step that leaves who holds the flock alone leaves the abstract lock alone.
LEMMA HolderUnchanged ==
  ASSUME IInv, IInv',
         \A p \in Proc : pc'[p] = "held" <=> pc[p] = "held"
  PROVE  Holder' = Holder
<1>1. CASE \E p \in Proc : pc[p] = "held"
  <2> PICK p \in Proc : pc[p] = "held"
    BY <1>1
  <2> QED
    BY HolderIsHeld DEF Holder, IInv, OneHolder
<1>2. CASE \A p \in Proc : pc[p] # "held"
  BY <1>2 DEF Holder
<1> QED
  BY <1>1, <1>2

LEMMA RefinesInit == Init => Mutex!LockInit
BY DEF Init, Mutex!LockInit, Holder

LEMMA RefinesStep == IInv /\ IInv' /\ [Next]_lockVars => [Mutex!LockNext]_Holder
<1> SUFFICES ASSUME IInv, IInv', [Next]_lockVars PROVE [Mutex!LockNext]_Holder
  OBVIOUS
<1> USE DEF Goto
<1>1. ASSUME NEW p \in Proc, TryLock(p) PROVE Mutex!Acquire(p)
  <2>1. Holder = NoProc
    \* Every descriptor is on the path's inode, and that one is not locked.
    BY <1>1, NoHolder DEF TryLock, Locked, IInv, TypeOK, OpenOnPath, OpenWhileActive, Absent
  <2>2. pc'[p] = "held"
    BY <1>1 DEF TryLock, IInv, TypeOK
  <2>3. Holder' = p
    BY <2>2 DEF Holder, IInv, OneHolder
  <2> QED
    BY <2>1, <2>3 DEF Mutex!Acquire
<1>2. ASSUME NEW p \in Proc, pc[p] = "held", Unlock(p) \/ Close(p) \/ Die(p)
      PROVE  Mutex!Release(p)
  <2>1. Holder = p
    BY <1>2, HolderIsHeld DEF IInv
  <2>2. \A q \in Proc : pc'[q] # "held"
    BY <1>2 DEF Unlock, Close, Die, IInv, TypeOK, OneHolder
  <2>3. Holder' = NoProc
    BY <2>2 DEF Holder
  <2> QED
    BY <2>1, <2>3 DEF Mutex!Release
<1>3. ASSUME NEW p \in Proc,
             \/ OpenExisting(p) \/ OpenCreates(p) \/ Refused(p)
             \/ pc[p] # "held" /\ (Close(p) \/ Die(p))
      PROVE  Holder' = Holder
  <2>1. \A q \in Proc : pc'[q] = "held" <=> pc[q] = "held"
    BY <1>3 DEF OpenExisting, OpenCreates, Refused, Close, Die, IInv, TypeOK
  <2> QED
    BY <2>1, HolderUnchanged
<1>4. ASSUME UNCHANGED lockVars PROVE Holder' = Holder
  BY <1>4, HolderUnchanged DEF lockVars
<1> QED
  BY <1>1, <1>2, <1>3, <1>4 DEF Next, Step, Unlock, Mutex!LockNext

\* What a file, its inodes and flock do is what the mutators assume of their
\* lock: Stash and the other mutators are specified against MutatorLock, and
\* this discharges that assumption.
THEOREM LockFileRefines == Spec => ImplementsMutatorLock
<1>1. Spec => []IInv
  BY InitIInv, StepIInv, PTL DEF Spec
<1> QED
  BY <1>1, RefinesInit, RefinesStep, PTL DEF Spec, Mutex!LockSpec, ImplementsMutatorLock
=============================================================================
