-------------------------------- MODULE Sync --------------------------------
(***************************************************************************)
(* Pull, materialize, snapshot and capture in one workspace, one after the *)
(* other, with people at work in its members and on its remotes.           *)
(***************************************************************************)
EXTENDS PullHead, Materialize

vars == <<workspace, pull, snapshot, materialize>>

TypeOK == /\ op \in {"idle", "validate", "fetch", "apply", "capture", "materialize"}
          /\ WorkspaceTypeOK /\ PullTypeOK /\ MaterializeTypeOK

Init == WorkspaceInit /\ PullInit /\ MaterializeInit

\* The process is killed, or leaves at an error of a file it reads or writes.
Die ==
  /\ op # "idle"
  /\ Return /\ PullReset /\ MaterializeReset
  /\ UNCHANGED <<place, lock, snapshot>>

Next ==
  \/ PullStep /\ UNCHANGED <<snapshot, materialize>>
  \/ MaterializeStep /\ UNCHANGED pull
  \/ Die
  \/ People /\ UNCHANGED <<pull, snapshot, materialize>>

Spec == Init /\ [][Next]_vars

-----------------------------------------------------------------------------
\* A pull that is turned away by its preflight, with nobody else at work, has
\* changed no branch, HEAD or worktree; and when a member would not have been
\* valid to begin with, nothing has been fetched in any other member either.
RejectedPullChangesNothing ==
  [][PullRejected /\ start # Disturbed =>
       \A m \in Member :
         \/ place[m] = start[m]
         \/ /\ \A n \in targets : Valid(n)
            /\ IsRepo(m)
            /\ place[m] = [start[m] EXCEPT !.origin = place[m].origin]]_vars

\* What a repository still has: everything a branch or a detached HEAD holds.
Kept(r) == r.tip \cup UNION {r.refs[b] : b \in {x \in Branch : r.refs[x] # NoRef}}

\* Whatever people do meanwhile: a pull that is not a reset never drops a change
\* from a member whose HEAD is on the branch that is pulled, not by a
\* fast-forward, a merge or a rebase, and not when one of them stops at a
\* conflict or an error; and materialize moves no branch of a member that it
\* did not clone.
WorkIsKept ==
  [][\A m \in Member :
       IsRepo(m) =>
         /\ PullApply(m) /\ sync # "reset" /\ place[m].head = PullBranch(m)
            => Kept(place[m]) \subseteq Kept(place'[m])
         /\ (Attaches(m) \/ Detaches(m)) /\ m \notin clones
            => \A b \in Branch : place[m].refs[b] # NoRef =>
                                 place'[m].refs[b] = place[m].refs[b]]_vars

\* An operation that writes the lock leaves it, if nobody else was at work,
\* with a true record of every member it selected, and the old one of the rest.
LockRecordsOutcome ==
  [][/\ PullWriteLock \/ CaptureWriteLock \/ (MaterializeEnds /\ source = "snapshot")
     /\ start # Disturbed
     => \A m \in Member :
          lock'[m] = IF m \in targets /\ IsRepo(m) THEN Resolved(place[m]) ELSE lock[m]]_vars

\* A materialize that succeeds with nobody else at work leaves every member at
\* the commit it was to be brought to: a snapshot is reproduced exactly, and a
\* branch of the lock is followed to where its remote branch was fetched.
MaterializeLandsOnTarget ==
  [][MaterializeEnds /\ start # Disturbed =>
       \A m \in targets :
         /\ HeadCommit(place[m]) =
              IF /\ source = "lock" /\ mem[m].branch # Detached
                 /\ place[m].origin[mem[m].branch] # NoRef
              THEN place[m].origin[mem[m].branch] ELSE mem[m].commit
         /\ place[m].head \in {mem[m].branch, Detached}]_vars

\* A materialize that fails leaves none of the repositories it cloned, however
\* far each of them got.
FailedMaterializeLeavesNoClone ==
  [][MaterializeFails /\ start # Disturbed =>
       \A m \in targets : start[m] = Absent => place'[m] = Absent]_vars

-----------------------------------------------------------------------------
\* Work that materialize left on a branch when it detached HEAD is not
\* orphaned: no pull that is not a reset drops it.
DetachedWorkStays ==
  [][\A m \in Member :
       PullApply(m) /\ IsRepo(m) /\ sync # "reset" =>
         Kept(place[m]) \subseteq Kept(place'[m])]_vars

\* The rollback of a failed materialize removes what this operation cloned,
\* and nothing that was there before.
RollbackRemovesOnlyClones ==
  [][MaterializeFails /\ start # Disturbed =>
       \A m \in Member : start[m] # Absent => place'[m] # Absent]_vars
=============================================================================
