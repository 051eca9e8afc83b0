------------------------------ MODULE LockFile ------------------------------
(***************************************************************************)
(* operation/workspace_mutator_lock.rs: the file behind MutatorLock.       *)
(* try_acquire opens .gwz/locks/workspace-mutator.lock, making it if it is *)
(* absent, and then asks for an exclusive flock without waiting.  A flock  *)
(* belongs to the inode the descriptor was opened on, not to the path, and *)
(* ends with the descriptor.  Nothing in gwz removes the file.             *)
(***************************************************************************)
EXTENDS Naturals

CONSTANTS
  Proc,      \* attempts to take the lock: gwz processes, or their threads
  NoProc     \* "nobody"

ASSUME NobodyAssumption == NoProc \notin Proc

Absent == 0  \* no inode: the path names no file, or no descriptor is open

VARIABLES
  path,    \* the inode the lock path names
  inodes,  \* how many inodes the path has named so far
  fd,      \* process -> the inode its descriptor is open on
  pc       \* process -> "held" while its descriptor holds the flock

lockVars == <<path, inodes, fd, pc>>

TypeOK ==
  /\ path \in Nat
  /\ inodes \in Nat
  /\ fd \in [Proc -> Nat]
  /\ pc \in [Proc -> {"idle", "opened", "held", "unlocked"}]

Init ==
  /\ path = Absent
  /\ inodes = 0
  /\ fd = [p \in Proc |-> Absent]
  /\ pc = [p \in Proc |-> "idle"]

-----------------------------------------------------------------------------
Locked(i) == \E q \in Proc : pc[q] = "held" /\ fd[q] = i

Goto(p, l) == pc' = [pc EXCEPT ![p] = l]

CloseFile(p) == fd' = [fd EXCEPT ![p] = Absent]

\* OpenOptions create(true).truncate(false).open(&path)
OpenExisting(p) ==
  /\ pc[p] = "idle"
  /\ path # Absent
  /\ fd' = [fd EXCEPT ![p] = path]
  /\ Goto(p, "opened")
  /\ UNCHANGED <<path, inodes>>

OpenCreates(p) ==
  /\ pc[p] = "idle"
  /\ path = Absent
  /\ inodes' = inodes + 1
  /\ path' = inodes'
  /\ fd' = [fd EXCEPT ![p] = inodes']
  /\ Goto(p, "opened")

\* flock(fd, LOCK_EX | LOCK_NB) = 0
TryLock(p) ==
  /\ pc[p] = "opened"
  /\ ~Locked(fd[p])
  /\ Goto(p, "held")
  /\ UNCHANGED <<path, inodes, fd>>

\* EWOULDBLOCK: Ok(None), and the file goes out of scope.
Refused(p) ==
  /\ pc[p] = "opened"
  /\ Locked(fd[p])
  /\ CloseFile(p)
  /\ Goto(p, "idle")
  /\ UNCHANGED <<path, inodes>>

\* Mutant: the guard tidies up, as lock files often do.
UnlockRemovesFile(p) ==
  /\ pc[p] = "held"
  /\ path' = Absent
  /\ Goto(p, "unlocked")
  /\ UNCHANGED <<inodes, fd>>

\* Drop: LOCK_UN, whose failure is ignored, and then the file is closed.
Unlock(p) ==
  /\ pc[p] = "held"
  /\ Goto(p, "unlocked")
  /\ UNCHANGED <<path, inodes, fd>>

Close(p) ==
  /\ pc[p] \in {"held", "unlocked"}
  /\ CloseFile(p)
  /\ Goto(p, "idle")
  /\ UNCHANGED <<path, inodes>>

\* The process dies, or flock fails with another error.
Die(p) ==
  /\ pc[p] # "idle"
  /\ CloseFile(p)
  /\ Goto(p, "idle")
  /\ UNCHANGED <<path, inodes>>

Step(p) ==
  \/ OpenExisting(p) \/ OpenCreates(p)
  \/ TryLock(p) \/ Refused(p)
  \/ Unlock(p) \/ Close(p) \/ Die(p)

Next == \E p \in Proc : Step(p)

Spec == Init /\ [][Next]_lockVars

-----------------------------------------------------------------------------
(* Properties. *)

\* The process whose guard is alive.
Holder == IF \E p \in Proc : pc[p] = "held"
          THEN CHOOSE p \in Proc : pc[p] = "held"
          ELSE NoProc

Mutex == INSTANCE MutatorLock WITH holder <- Holder

\* Two guards of one workspace are never alive together, across processes,
\* threads, deaths and the file's creation by a race of first users.
OneHolder ==
  \A p, q \in Proc : pc[p] = "held" /\ pc[q] = "held" => p = q

\* The file and its flocks behave as the lock the mutators rely on: taken
\* only when free, given back by its owner and by nobody else.
ImplementsMutatorLock == Mutex!LockSpec

\* All open descriptors are on the inode the path names, because the path
\* never gets another inode; so a flock on a descriptor is a lock on the path.
OpenOnPath == \A p \in Proc : fd[p] # Absent => fd[p] = path
=============================================================================
