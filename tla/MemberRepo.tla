----------------------------- MODULE MemberRepo -----------------------------
(***************************************************************************)
(* The repository of one workspace member, and what the calls of           *)
(* GitBackend (git/gitbackend.rs) do to it.  A commit is the set of        *)
(* changes it holds together with its history: an ancestor is a subset, a  *)
(* merge or a rebase gives a union.  Calls are operators that return the   *)
(* set of outcomes they may have.                                          *)
(***************************************************************************)
CONSTANTS
  Branch,    \* branch names
  Change,    \* changes people make
  Detached,  \* HEAD is on no branch
  NoRef      \* the value of a ref that does not exist

ASSUME RepoAssumption ==
  /\ Detached \notin Branch
  /\ \A c \in SUBSET Change : c # NoRef

Commit == SUBSET Change
Ref    == {NoRef} \cup Commit

\* refs: refs/heads; origin: refs/remotes/<fetch remote>; tip: the commit of
\* a detached HEAD; dirty: tracked files differ from HEAD; midway: a merge or
\* a rebase waits for its conflicts to be resolved.
Repo == [refs : [Branch -> Ref], origin : [Branch -> Ref],
         head : Branch \cup {Detached}, tip : Commit,
         dirty : BOOLEAN, midway : BOOLEAN]

HeadCommit(r) == IF r.head = Detached THEN r.tip ELSE r.refs[r.head]

\* is_ancestor, or the same commit.
Within(a, b) == a \subseteq b

Attach(r, b) == [r EXCEPT !.head = b, !.tip = {}]
Detach(r, c) == [r EXCEPT !.head = Detached, !.tip = c]

\* What a commit to HEAD, or a reset of HEAD, moves.
MoveHead(r, c) == IF r.head = Detached THEN [r EXCEPT !.tip = c]
                  ELSE [r EXCEPT !.refs[r.head] = c]

Ok(r)       == [res |-> "ok", repo |-> r]
Conflict(r) == [res |-> "conflict", repo |-> r]
Diverged(r) == [res |-> "diverged", repo |-> r]
Error(r)    == [res |-> "error", repo |-> r]

Outcome == [res : {"ok", "conflict", "diverged", "error"}, repo : Repo]

\* A call that moves the worktree from r to moved.  Local changes are in its
\* way (a safe checkout refuses), or survive it, and verify_checkout_state
\* then reports the drift with everything moved.  A call may fail at once.
CheckedOut(r, moved) ==
  {Error(r)} \cup (IF r.dirty THEN {Error(moved)} ELSE {Ok(moved)})

-----------------------------------------------------------------------------
\* Mutant: an existing branch is moved to the commit.
ForceBranchAtCommit(r, b, c) == {[r EXCEPT !.refs[b] = c]}

\* ensure_branch_at_commit: the repository with b at c, if b may be there.
EnsureBranchAtCommit(r, b, c) ==
  IF r.refs[b] \in {NoRef, c} THEN {[r EXCEPT !.refs[b] = c]} ELSE {}

BranchCreate(r, b, c) ==
  {Error(r)} \cup {Ok(s) : s \in EnsureBranchAtCommit(r, b, c)}

\* Mutant: the branch HEAD is on goes too.
BranchDeleteUnchecked(r, b) ==
  {Error(r)} \cup
    (IF r.refs[b] = NoRef THEN {} ELSE {Ok([r EXCEPT !.refs[b] = NoRef])})

BranchDelete(r, b) ==
  {Error(r)} \cup
    (IF r.head = b \/ r.refs[b] = NoRef THEN {}
     ELSE {Ok([r EXCEPT !.refs[b] = NoRef])})

SwitchBranch(r, b) ==
  IF r.refs[b] = NoRef THEN {Error(r)} ELSE CheckedOut(r, Attach(r, b))

CheckoutCommit(r, c) == CheckedOut(r, Detach(r, c))

CheckoutBranch(r, b, c) ==
  IF EnsureBranchAtCommit(r, b, c) = {} THEN {Error(r), Diverged(r)}
  ELSE UNION {CheckedOut(s, Attach(s, b)) \cup {Error(r)} :
                s \in EnsureBranchAtCommit(r, b, c)}

\* fast_forward looks at HEAD, and moves b.
FastForward(r, b, target) ==
  IF Within(target, HeadCommit(r)) THEN {Error(r), Ok(r)}
  ELSE IF ~Within(HeadCommit(r), target) \/ r.refs[b] = NoRef
       THEN {Error(r), Diverged(r)}
  ELSE CheckedOut(r, Attach([r EXCEPT !.refs[b] = target], b))

\* A conflict stays in the worktree, with MERGE_HEAD beside it.
Conflicted(r) == Conflict([r EXCEPT !.dirty = TRUE, !.midway = TRUE])

\* Mutant: the branch is taken to the target, whatever it holds itself.
TakeUpstream(r, b, target) ==
  CheckedOut(r, Attach([r EXCEPT !.refs[b] = target], b))

MergeUpstream(r, b, target) ==
  IF Within(target, HeadCommit(r)) \/ Within(HeadCommit(r), target)
  THEN FastForward(r, b, target)
  ELSE {Error(r), Conflicted(r)} \cup
         (IF r.midway THEN {}
          ELSE {Ok(MoveHead(r, HeadCommit(r) \cup target))})

\* The branch HEAD is on is replayed onto target.  A conflict leaves HEAD
\* detached on what has been replayed; b is what the caller expects to find.
RebaseOnto(r, b, target) ==
  IF Within(target, HeadCommit(r)) \/ Within(HeadCommit(r), target)
  THEN FastForward(r, b, target)
  ELSE LET replayed == MoveHead(r, HeadCommit(r) \cup target)
       IN  {Error(r)} \cup
             (IF r.dirty \/ r.midway THEN {}
              ELSE {Conflicted(Detach(r, target)),
                    IF r.head = b THEN Ok(replayed) ELSE Error(replayed)})

\* HEAD, and the branch it is on, go to target with the worktree; only then
\* is that branch compared with b.
ResetHard(r, b, target) ==
  LET reset == [MoveHead(r, target) EXCEPT !.dirty = FALSE, !.midway = FALSE]
  IN  {Error(r), IF r.head = b THEN Ok(reset) ELSE Error(reset)}

\* git clone of a remote with these branches: HEAD on the default branch.
Cloned(remote, b) ==
  [refs |-> [x \in Branch |-> IF x = b THEN remote[b] ELSE NoRef],
   origin |-> remote, head |-> b, tip |-> {}, dirty |-> FALSE,
   midway |-> FALSE]

Fetched(r, remote) == [r EXCEPT !.origin = remote]

\* What a person may do to a repository with git, between two calls of gwz.
Edited(r) ==
  {[MoveHead(r, HeadCommit(r) \cup {c}) EXCEPT !.dirty = FALSE,
                                               !.midway = FALSE] : c \in Change}
  \cup {[r EXCEPT !.dirty = d] : d \in IF r.midway THEN {} ELSE BOOLEAN}
  \cup {Attach(r, b) : b \in {x \in Branch : r.refs[x] # NoRef}}
  \cup {Detach(r, HeadCommit(r))}
  \cup {[r EXCEPT !.refs[b] = HeadCommit(r)] :
           b \in {x \in Branch : r.refs[x] = NoRef}}
  \cup {[r EXCEPT !.refs[b] = NoRef] : b \in Branch \ {r.head}}

\* resolved_member: what the lock records of a member.
Resolved(r) == [branch |-> r.head, commit |-> HeadCommit(r)]
State == [branch : Branch \cup {Detached}, commit : Commit]
=============================================================================
