---------------------------- MODULE MutatorLock ----------------------------
(***************************************************************************)
(* The workspace mutator lock as its callers see it: one advisory lock per *)
(* workspace, taken without waiting (WorkspaceMutatorLock::try_acquire),   *)
(* given back when the guard is dropped, and given back by the operating   *)
(* system when its owner dies.  LockFile describes the file and the inode  *)
(* behind it and implements this module.                                   *)
(***************************************************************************)
CONSTANTS
  Proc,      \* gwz processes that work on the same workspace
  NoProc     \* "nobody holds the lock"

ASSUME NoProcAssumption == NoProc \notin Proc

VARIABLE holder  \* the process whose guard is alive, or NoProc

LockTypeOK == holder \in Proc \cup {NoProc}

LockInit == holder = NoProc

\* Mutant: the lock is shared, or each caller locks a file of its own.
AcquireShared(p) == holder' = p

\* try_acquire returned Some(guard).
Acquire(p) ==
  /\ holder = NoProc
  /\ holder' = p

\* try_acquire returned None: another process holds the lock.
Busy(p) ==
  /\ holder \notin {NoProc, p}
  /\ UNCHANGED holder

\* Drop of the guard, or the death of the process that owns it.
Release(p) ==
  /\ holder = p
  /\ holder' = NoProc

\* Mutant: the guard is forgotten instead of dropped.
LeakGuard(p) == UNCHANGED holder

\* What ends an operation whether or not it got as far as the lock.
ReleaseIfHeld(p) == holder' = IF holder = p THEN NoProc ELSE holder

LockNext == \E p \in Proc : Acquire(p) \/ Busy(p) \/ Release(p)

LockSpec == LockInit /\ [][LockNext]_holder
=============================================================================
