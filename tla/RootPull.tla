------------------------------ MODULE RootPull ------------------------------
(***************************************************************************)
(* What gwz pull does to the repository of the workspace itself before it  *)
(* turns to the members (workspace_ops/pull_head_member_preflight.rs,      *)
(* pull_workspace_root): it integrates the remote branch by the sync       *)
(* policy, and writes the lock file anew from the members as they are,     *)
(* which also settles a conflict in the lock file.  What the pull of the   *)
(* members does is PullHead; here it is one step.                          *)
(***************************************************************************)
EXTENDS Targets, FiniteSetsExt, Sequences

CONSTANTS
  UserEdit,   \* what people change in files of the root, by hand
  FileOf,     \* such an edit -> "ignore", "manifest", or "other"
  Joins,      \* the member an edit of the manifest adds
  Version,    \* what the lock records of a member
  Gone,       \* a member that is not materialized
  NoRecord,   \* no record in the lock
  Markers,    \* a lock file with conflict markers in it
  NoMerge,    \* no merge or rebase is under way
  RootStarts, \* the branch here and on the remote at first, and what the
              \* lock in each records
  Policies,   \* the policies people pull with
  MaxWrites,  \* bound on the committed versions of the lock file
  MaxMoves    \* bound on the pulls and on what people do, together

RootFile == {"lock", "ignore", "manifest", "other"}

\* A commit is the set of edits in its history; the n-th version of the lock
\* file that somebody committed is n.
RootEdit   == UserEdit \cup (1 .. MaxWrites)
RootCommit == SUBSET RootEdit
Policy == [sync : {"fetch_only", "ff_only", "merge", "rebase", "reset"}, force : BOOLEAN]

ASSUME RootPullAssumption ==
  /\ FileOf \in [UserEdit -> RootFile \ {"lock"}] /\ Joins \in Member
  /\ MaxWrites \in Nat /\ MaxWrites >= 3 /\ MaxMoves \in Nat /\ UserEdit \cap Nat = {}
  /\ RootStarts \subseteq [here : RootCommit, there : RootCommit,
                           old : Version, new : Version]
  /\ \A s \in RootStarts : /\ 1 \in s.here /\ s.here \cap Nat \subseteq {1, 2}
                          /\ 1 \in s.there /\ s.there \cap Nat \subseteq {1, 3}
  /\ Policies \subseteq Policy
  /\ Gone \notin Version /\ NoRecord \notin Version
  /\ NoMerge \notin [onto : RootCommit, conflicts : SUBSET RootFile]

VARIABLES
  head,      \* the branch of the root that is pulled
  attached,  \* HEAD is on it
  away,      \* where HEAD is, detached or on another branch, if it is not
  dirty,     \* the worktree or the index differs from HEAD
  merging,   \* the merge or rebase under way, or NoMerge
  origin,    \* the remote branch as fetched
  theirs,    \* the branch on the remote
  lock,      \* gwz.lock.yml in the worktree
  written,   \* the versions of it that were committed
  live,      \* what each member is at
  puller,    \* how far gwz pull is
  how,       \* its policy
  looked,    \* the commit and the lock it found
  moved,     \* it has changed the root
  calm,      \* history: people did nothing since it began
  moves      \* pulls and things people did

tree    == <<head, attached, away, dirty, merging, lock, written>>
pulling == <<puller, how, looked, moved, calm, moves>>
rootVars == <<tree, origin, theirs, live, pulling>>

Edits(f) == IF f = "lock" THEN 1 .. MaxWrites ELSE {e \in UserEdit : FileOf[e] = f}

\* changed_paths_between a commit and one that descends from it.
Touched(old, new) == {f \in RootFile : (new \ old) \cap Edits(f) # {}}

MergeBase(a, b) == a \cap b

\* The commit HEAD is at.
Current == IF attached THEN head ELSE away

\* The lock file of a commit.
LockAt(c) == written[Max(c \cap Edits("lock"))]

InManifest(c) == {m \in Member : m # Joins \/ c \cap Edits("manifest") # {}}

\* The manifest in the worktree.
Manifest == InManifest(IF merging = NoMerge THEN Current ELSE Current \cup merging.onto)

Lock == [Member -> Version \cup {NoRecord}]

NoPolicy == [sync |-> "none", force |-> FALSE]
Nothing  == <<>>

RootTypeOK ==
  /\ head \in RootCommit /\ origin \in RootCommit /\ theirs \in RootCommit
  /\ attached \in BOOLEAN /\ away \in RootCommit /\ dirty \in BOOLEAN
  /\ merging \in {NoMerge} \cup [onto : RootCommit, conflicts : SUBSET RootFile]
  /\ lock \in Lock \cup {Markers}
  /\ written \in Seq(Lock) /\ Len(written) <= MaxWrites
  /\ live \in [Member -> Version \cup {Gone}]
  /\ puller \in {"idle", "looked", "fetched", "rewrite", "resolve", "commit", "members"}
  /\ how \in Policies \cup {NoPolicy}
  /\ looked \in {Nothing} \cup [commit : RootCommit, lock : Lock]
  /\ moved \in BOOLEAN /\ calm \in BOOLEAN /\ moves \in 0 .. MaxMoves

\* The first version of the lock is in both histories, the second was
\* committed here and the third there.
RootInit ==
  /\ \E s \in RootStarts :
       /\ head = s.here /\ theirs = s.there
       /\ written = <<[m \in Member |-> IF m = Joins THEN NoRecord ELSE s.old],
                      [m \in Member |-> IF m \in InManifest(head) THEN s.old ELSE NoRecord],
                      [m \in Member |-> IF m \in InManifest(theirs) THEN s.new ELSE NoRecord]>>
  /\ attached = TRUE /\ away = {} /\ dirty = FALSE /\ merging = NoMerge
  /\ origin = MergeBase(head, theirs)
  /\ live \in {l \in [Member -> Version \cup {Gone}] :
                 Joins \notin InManifest(head) => l[Joins] = Gone}
  /\ lock = LockAt(head)
  /\ puller = "idle" /\ how = NoPolicy /\ looked = Nothing
  /\ moved = FALSE /\ calm = FALSE /\ moves = 0

Goto(phase) == puller' = phase /\ UNCHANGED <<how, looked, moved, calm, moves>>

Leave ==
  /\ puller' = "idle" /\ how' = NoPolicy /\ looked' = Nothing
  /\ moved' = FALSE /\ calm' = FALSE
  /\ UNCHANGED moves

-----------------------------------------------------------------------------
(* What comes before the remote is asked; refused, it changes nothing. *)

\* pull_dirty_guard
RootTolerated(policy) ==
  \/ ~dirty /\ merging = NoMerge
  \/ policy.sync = "fetch_only"
  \/ policy.sync = "reset" /\ policy.force

PullBegins(policy, phase) ==
  /\ puller = "idle" /\ moves < MaxMoves
  /\ puller' = phase
  /\ how' = policy
  /\ looked' = IF phase = "looked" THEN [commit |-> head, lock |-> lock] ELSE Nothing
  /\ moved' = FALSE /\ calm' = TRUE /\ moves' = moves + 1
  /\ UNCHANGED <<tree, origin, theirs, live>>

RootLooks ==
  \E policy \in Policies :
    /\ attached /\ lock # Markers /\ RootTolerated(policy)
    /\ PullBegins(policy, "looked")

\* The root is not selected, or has no remote.
RootPassedOver == \E policy \in Policies : PullBegins(policy, "members")

RootFetches ==
  /\ puller = "looked"
  /\ origin' = theirs
  /\ Goto(IF looked.commit = theirs \/ how.sync = "fetch_only" THEN "members"
          ELSE "fetched")
  /\ UNCHANGED <<tree, theirs, live>>

-----------------------------------------------------------------------------
(* Integration.  What it decides by was read before the fetch. *)

Behind == looked.commit \subseteq origin

\* Mutant: one path of gwz's own among the changes is enough.
RepairableInPart ==
  LET paths == Touched(MergeBase(looked.commit, origin), origin)
  IN  "lock" \in paths

\* root_remote_changes_are_auto_repairable
Repairable ==
  LET paths == Touched(MergeBase(looked.commit, origin), origin)
  IN  paths # {} /\ paths \subseteq {"lock"}

\* A commit to HEAD, or a reset of it, moves what HEAD is on.
RootMoves(c) ==
  /\ IF attached THEN head' = c /\ UNCHANGED away ELSE away' = c /\ UNCHANGED head
  /\ UNCHANGED attached

\* A safe checkout: a lock that was changed here stays, or is in the way.
CheckOut(c) ==
  IF lock = LockAt(Current) THEN lock' = LockAt(c)
  ELSE LockAt(c) = LockAt(Current) /\ UNCHANGED lock

\* fast_forward looks at HEAD, and moves the branch.  Local changes are in the
\* way, or verify_checkout_state reports those of tracked files at the end.
RootFastForwards ==
  \/ origin \subseteq Current /\ UNCHANGED tree /\ Goto("rewrite")
  \/ /\ Current \subseteq origin /\ Current # origin /\ merging = NoMerge
     /\ CheckOut(origin)
     /\ head' = origin /\ attached' = TRUE /\ away' = {}
     /\ \/ lock = LockAt(Current) /\ Goto("rewrite")
        \/ dirty /\ Leave
     /\ UNCHANGED <<dirty, merging, written>>

\* Mutant: the tree of the remote, whatever HEAD has itself.
RootMergesTheirs ==
  /\ RootMoves(origin) /\ CheckOut(origin)
  /\ UNCHANGED <<dirty, merging, written>>
  /\ Goto("rewrite")

\* What both sides have changed.
Disputed ==
  LET base == MergeBase(Current, origin)
  IN  Touched(base, Current) \cap Touched(base, origin)

\* Both sides' changes are in the worktree, with markers where they conflict.
StopsAt(conflicts, onto) ==
  /\ merging' = [onto |-> origin, conflicts |-> conflicts]
  /\ IF "lock" \in conflicts THEN lock = LockAt(Current) /\ lock' = Markers
     ELSE CheckOut(onto)

\* merge_upstream where both sides have commits of their own.  Two versions of
\* the lock file differ in a line at least, the time of writing.
RootMerges ==
  /\ merging = NoMerge
  /\ \/ /\ "lock" \notin Disputed
        /\ RootMoves(Current \cup origin) /\ CheckOut(Current \cup origin)
        /\ UNCHANGED merging
        /\ Goto("rewrite")
     \/ \E conflicts \in (SUBSET Disputed) \ {{}} :
          /\ "lock" \in Disputed => "lock" \in conflicts
          /\ StopsAt(conflicts, Current \cup origin)
          /\ UNCHANGED <<head, attached, away>>
          /\ Goto("resolve")
  /\ UNCHANGED <<dirty, written>>

Parted == ~(Current \subseteq origin) /\ ~(origin \subseteq Current)

\* HEAD is expected on the branch, now that it has been moved.
IfOnBranch(phase) == IF attached THEN Goto(phase) ELSE Leave

\* rebase_onto: a conflict ends the pull with HEAD detached on what has been
\* replayed.
RootRebases ==
  /\ ~dirty /\ merging = NoMerge
  /\ \/ /\ "lock" \notin Disputed
        /\ RootMoves(Current \cup origin) /\ CheckOut(Current \cup origin)
        /\ UNCHANGED merging
        /\ IfOnBranch("rewrite")
     \/ \E conflicts \in (SUBSET Disputed) \ {{}} :
          /\ StopsAt(conflicts, origin)
          /\ attached' = FALSE /\ away' = origin /\ UNCHANGED head
          /\ Leave
  /\ UNCHANGED <<dirty, written>>

\* reset_hard, of whatever HEAD is on.
RootResets ==
  /\ RootMoves(origin)
  /\ lock' = LockAt(origin) /\ dirty' = FALSE /\ merging' = NoMerge
  /\ UNCHANGED written
  /\ IfOnBranch("rewrite")

RootIntegrates ==
  /\ puller = "fetched"
  /\ \/ how.sync = "reset" /\ RootResets
     \/ how.sync # "reset" /\ Behind /\ RootFastForwards
     \/ /\ ~Behind
        /\ \/ how.sync = "merge"
           \/ how.sync = "ff_only" /\ Repairable
        /\ IF Parted THEN RootMerges ELSE RootFastForwards
     \/ /\ ~Behind /\ how.sync = "rebase"
        /\ IF Parted THEN RootRebases ELSE RootFastForwards
  /\ UNCHANGED <<origin, theirs, live>>

-----------------------------------------------------------------------------
(* The lock file, from the members. *)

Fallback == IF lock = Markers THEN looked.lock ELSE lock

\* A member that is neither here nor recorded is an error, with the rest left
\* as it is.
Observable == \A m \in Manifest : live[m] # Gone \/ Fallback[m] # NoRecord

\* Mutant: the lock is put back as it was before the merge.
ObservedBefore == looked.lock

\* observed_member_map
ObservedLock ==
  [m \in Member |-> IF m \notin Manifest THEN NoRecord
                    ELSE IF live[m] # Gone THEN live[m] ELSE Fallback[m]]

\* The root has changed, and the members are next.
ToMembers ==
  puller' = "members" /\ moved' = TRUE /\ UNCHANGED <<how, looked, calm, moves>>

\* rewrite_root_lock_from_live_members; to stage it may fail.
RewriteLock ==
  /\ puller = "rewrite" /\ Observable
  /\ lock' = ObservedLock
  /\ dirty' = TRUE
  /\ ToMembers \/ Leave
  /\ UNCHANGED <<head, attached, away, merging, written, origin, theirs, live>>

\* resolve_repairable_root_conflicts: of a conflict in the lock and in the
\* ignore file it settles the first, and leaves.
ResolveLock ==
  /\ puller = "resolve" /\ merging # NoMerge
  /\ merging.conflicts \subseteq {"lock", "ignore"}
  /\ IF "lock" \in merging.conflicts
     THEN Observable /\ lock' = ObservedLock
     ELSE UNCHANGED lock
  /\ \/ /\ merging' = [merging EXCEPT !.conflicts = @ \ {"lock"}]
        /\ IF "ignore" \in merging.conflicts THEN Leave ELSE Goto("commit")
     \/ UNCHANGED merging /\ Leave
  /\ UNCHANGED <<head, attached, away, dirty, written, origin, theirs, live>>

\* commit_merge_resolution
CommitMerge ==
  /\ puller = "commit" /\ Len(written) < MaxWrites
  /\ merging # NoMerge /\ merging.conflicts = {}
  /\ written' = Append(written, lock)
  /\ RootMoves(Current \cup merging.onto \cup {Len(written')})
  /\ merging' = NoMerge
  /\ ToMembers
  /\ UNCHANGED <<dirty, lock, origin, theirs, live>>

-----------------------------------------------------------------------------
\* The pull of the members (PullHead), some of them or none, and the lock it
\* writes and stages.
MembersPull ==
  /\ puller = "members" /\ lock # Markers
  /\ \E pulled \in SUBSET Manifest :
       /\ \A m \in pulled : lock[m] # NoRecord
       /\ live' \in {l \in [Member -> Version \cup {Gone}] :
                       \A m \in Member : (l[m] # live[m]) => m \in pulled /\ live[m] # Gone
                                                             /\ l[m] # Gone}
       /\ lock' = [m \in Member |-> IF m \in pulled /\ live[m] # Gone THEN live'[m]
                                    ELSE lock[m]]
  /\ dirty' = TRUE
  /\ Leave
  /\ UNCHANGED <<head, attached, away, merging, written, origin, theirs>>

\* An error in any of these steps, the members' rejection, or death.
PullStops ==
  /\ puller # "idle" /\ Leave
  /\ UNCHANGED <<tree, origin, theirs, live>>

-----------------------------------------------------------------------------
(* People. *)

\* A commit of what there is: files by hand, the lock with gwz commit, a merge
\* whose conflicts they settled.
SomebodyCommits ==
  /\ lock # Markers /\ Len(written) < MaxWrites
  /\ written' = Append(written, lock)
  /\ \E more \in {{}} \cup {{e} : e \in UserEdit} :
       RootMoves(Current \cup more \cup {Len(written')}
                  \cup (IF merging = NoMerge THEN {} ELSE merging.onto))
  /\ dirty' = FALSE /\ merging' = NoMerge
  /\ UNCHANGED <<lock, origin, theirs, live>>

SomebodyWorks ==
  /\ dirty' = TRUE
  /\ UNCHANGED <<head, attached, away, merging, lock, written, origin, theirs, live>>

\* git checkout of a commit, at any time: the one the branch is at, an older
\* one that the remote has too, or the remote's.  What a merge has staged
\* stays, and the merge is no more.
SomebodySwitches ==
  /\ merging # NoMerge => merging.conflicts = {}
  /\ \E c \in {head, MergeBase(head, origin), origin} : CheckOut(c) /\ away' = c
  /\ attached' = FALSE
  /\ dirty' = (dirty \/ merging # NoMerge) /\ merging' = NoMerge
  /\ UNCHANGED <<head, written, origin, theirs, live>>

\* git reset --hard, git merge --abort, git checkout of the branch
SomebodyGivesUp ==
  /\ lock' = LockAt(head)
  /\ attached' = TRUE /\ away' = {} /\ dirty' = FALSE /\ merging' = NoMerge
  /\ UNCHANGED <<head, written, origin, theirs, live>>

SomebodyPushes ==
  /\ \/ \E e \in UserEdit : theirs' = theirs \cup {e} /\ UNCHANGED written
     \/ /\ Len(written) < MaxWrites
        /\ \E v \in Version :
             written' = Append(written, [m \in Member |->
                                           IF m \in InManifest(theirs) THEN v ELSE NoRecord])
        /\ theirs' = theirs \cup {Len(written')}
  /\ UNCHANGED <<head, attached, away, dirty, merging, lock, origin, live>>

SomebodyMovesMember ==
  /\ \E m \in Manifest, v \in Version \cup {Gone} : live' = [live EXCEPT ![m] = v]
  /\ UNCHANGED <<tree, origin, theirs>>

RootPeople ==
  /\ moves < MaxMoves
  /\ SomebodyCommits \/ SomebodyWorks \/ SomebodySwitches \/ SomebodyGivesUp
       \/ SomebodyPushes \/ SomebodyMovesMember
  /\ calm' = FALSE /\ moves' = moves + 1
  /\ UNCHANGED <<puller, how, looked, moved>>

RootPullStep ==
  \/ RootLooks \/ RootPassedOver \/ RootFetches \/ RootIntegrates \/ RewriteLock
  \/ ResolveLock \/ CommitMerge \/ MembersPull \/ PullStops \/ RootPeople

RootSpec == RootInit /\ [][RootPullStep]_rootVars

-----------------------------------------------------------------------------
(* Properties. *)

\* People commit, push and switch HEAD at any time, and a pull that is not a
\* reset takes nothing from the root's branch, and nothing that HEAD is at,
\* with two exceptions.  If HEAD was switched, since the pull began, to a
\* commit that is behind the remote's, fast_forward goes by HEAD and sets the
\* branch to the remote's commit, whatever the branch has of its own
\* (gitbackend.rs:598).  And a rebase that stops at a conflict leaves HEAD,
\* not the branch, on what has been replayed.
RootKeepsWork ==
  [][(RootIntegrates \/ CommitMerge) /\ how.sync # "reset" =>
       /\ \/ head \subseteq head'
          \/ ~attached /\ Current \subseteq origin /\ head' = origin
       /\ \/ Current \subseteq Current'
          \/ how.sync = "rebase" /\ ~attached' /\ UNCHANGED head]_rootVars

\* Without a policy for it, gwz makes a commit of its own only where it takes
\* nothing from the remote but versions of the lock: user files stay as they
\* are here.
RepairTakesOnlyLock ==
  [][/\ RootIntegrates \/ CommitMerge
     /\ how.sync = "ff_only" /\ head' \notin {head, origin}
     => Touched(head, head') \subseteq {"lock"}]_rootVars

\* A pull that says it changed the root, with nobody else at work, goes on to
\* the members with everything of the remote in the branch, no merge left
\* open, and a lock with what every member is at, or was recorded at if it is
\* not there.
RootSettled ==
  [][MembersPull /\ moved /\ calm =>
       /\ attached /\ merging = NoMerge
       /\ origin \subseteq head
       /\ \A m \in InManifest(head) :
            lock[m] \in IF live[m] # Gone THEN {live[m]} ELSE Version]_rootVars
=============================================================================
