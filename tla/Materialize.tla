----------------------------- MODULE Materialize -----------------------------
(***************************************************************************)
(* handle_materialize for a lock or a snapshot, and the two operations     *)
(* that record what is there: snapshot and capture.  Members are worked on *)
(* in parallel; an error in any of them removes, once all have finished,   *)
(* whatever is at the paths that were to be cloned.                        *)
(***************************************************************************)
EXTENDS Workspace

CONSTANT NoSnapshot  \* no snapshot was taken yet

ASSUME NoSnapshotAssumption == NoSnapshot \notin [Member -> {NoState} \cup State]

VARIABLES
  snapshot,  \* gwz.conf/snapshots: the one snapshot, of the members selected
  source,    \* the target: the lock or the snapshot
  clones,    \* fresh_clone_paths: the members that were to be cloned
  at         \* where each member's worker is

materialize == <<source, clones, at>>

Waiting == [m \in Member |-> "waiting"]

MaterializeTypeOK ==
  /\ snapshot \in {NoSnapshot} \cup [Member -> {NoState} \cup State]
  /\ source \in {"none", "lock", "snapshot"}
  /\ clones \subseteq targets
  /\ at \in [Member -> {"waiting", "attach", "detach"}]

MaterializeInit ==
  snapshot = NoSnapshot /\ source = "none" /\ clones = {} /\ at = Waiting

MaterializeReset == source' = "none" /\ clones' = {} /\ at' = Waiting

-----------------------------------------------------------------------------
\* observed_member_map: what is there, or what the lock says of a member that
\* is not.
Observed(m) == IF IsRepo(m) THEN Resolved(place[m]) ELSE lock[m]

\* A snapshot id is written once.
TakeSnapshot(selected) ==
  /\ op = "idle" /\ requests < MaxRequests /\ selected # {}
  /\ snapshot = NoSnapshot
  /\ snapshot' = [m \in Member |-> IF m \in selected THEN Observed(m) ELSE NoState]
  /\ requests' = requests + 1
  /\ UNCHANGED <<hosted, place, upstream, lock, op, targets, todo, failed, mem,
                 seen, edits, start, materialize>>

Capture(selected) ==
  /\ Begin(selected, "capture", Unseen)
  /\ UNCHANGED <<place, snapshot, materialize>>

CaptureMember(m) ==
  /\ op = "capture" /\ m \in todo
  /\ seen' = [seen EXCEPT ![m] = Observed(m)]
  /\ todo' = todo \ {m}
  /\ Stay
  /\ UNCHANGED <<place, lock, failed, snapshot, materialize>>

\* The lock file is read again to be changed: other members keep their record.
Recorded == [m \in Member |-> IF seen[m] # NoState THEN seen[m] ELSE lock[m]]

CaptureWriteLock ==
  /\ op = "capture" /\ todo = {}
  /\ lock' = Recorded
  /\ Return
  /\ UNCHANGED <<place, snapshot, materialize>>

-----------------------------------------------------------------------------
\* prepare_materialize_execution and materialize_preflight: what is dirty is
\* refused, unless the policy is destructive; what is no repository is to be
\* cloned.  mem is the state every member is to be brought to.
MaterializeStart(selected, kind, wanted, destructive) ==
  /\ \A m \in selected : wanted[m] # NoState
  /\ \A m \in selected : IF IsRepo(m) THEN destructive \/ ~place[m].dirty
                         ELSE m \in hosted
  /\ Begin(selected, "materialize", wanted)
  /\ source' = kind
  /\ clones' = {m \in selected : ~IsRepo(m)}
  /\ at' = [m \in Member |-> IF m \in selected /\ ~IsRepo(m) THEN "waiting" ELSE "attach"]
  /\ UNCHANGED <<place, snapshot>>

MaterializeRequest ==
  \E selected \in SUBSET Member, destructive \in BOOLEAN :
    \/ MaterializeStart(selected, "lock", lock, destructive)
    \/ /\ snapshot # NoSnapshot
       /\ MaterializeStart(selected, "snapshot", snapshot, destructive)

\* The worker of a member is done.
MemberFails(m) ==
  /\ failed' = failed \cup {m}
  /\ todo' = todo \ {m}
  /\ UNCHANGED <<seen, at>>

MemberDone(m, r) ==
  /\ seen' = [seen EXCEPT ![m] = Resolved(r)]
  /\ todo' = todo \ {m}
  /\ UNCHANGED <<failed, at>>

MemberGoes(m, label) ==
  /\ at' = [at EXCEPT ![m] = label]
  /\ UNCHANGED <<failed, todo, seen>>

\* clone_repo refuses a directory with anything in it.
Clone(m) ==
  /\ op = "materialize" /\ m \in todo /\ at[m] = "waiting"
  /\ \/ MemberFails(m) /\ UNCHANGED place
     \/ /\ place[m] = Absent
        /\ place' = [place EXCEPT ![m] = Cloned(upstream[m], Trunk)]
        /\ MemberGoes(m, "attach")
  /\ Stay
  /\ UNCHANGED <<lock, snapshot, source, clones>>

\* Mutant: a snapshot's branch follows its remote like a lock's.
FollowAlways(m) ==
  LET state == mem[m]
  IN  IF state.branch # Detached /\ place[m].origin[state.branch] # NoRef
      THEN place[m].origin[state.branch] ELSE state.commit

\* Where the member is to go: a branch of the lock follows its remote branch,
\* as far as it was fetched; everything else is pinned.
Target(m) ==
  LET state == mem[m]
  IN  IF source = "lock" /\ state.branch # Detached
         /\ place[m].origin[state.branch] # NoRef
      THEN place[m].origin[state.branch] ELSE state.commit

\* A fresh clone has the commits its remote has; an older repository may have
\* others.
Has(m, c) ==
  m \in clones => \E b \in Branch : /\ place[m].origin[b] # NoRef
                                    /\ Within(c, place[m].origin[b])

\* checkout_branch, when the member is to be on a branch: to a branch that is
\* elsewhere it answers DivergedMember, and the worker detaches instead.
Attaches(m) ==
  /\ op = "materialize" /\ m \in todo /\ at[m] = "attach"
  /\ IsRepo(m) /\ mem[m].branch # Detached
  /\ \E out \in IF Has(m, Target(m))
                THEN CheckoutBranch(place[m], mem[m].branch, Target(m))
                ELSE {Error(place[m])} \cup
                       (IF place[m].refs[mem[m].branch] = NoRef THEN {}
                        ELSE {Diverged(place[m])}) :
       /\ place' = [place EXCEPT ![m] = out.repo]
       /\ CASE out.res = "ok"       -> MemberDone(m, out.repo)
            [] out.res = "diverged" -> MemberGoes(m, "detach")
            [] out.res = "error"    -> MemberFails(m)
  /\ Stay
  /\ UNCHANGED <<lock, snapshot, source, clones>>

\* checkout_commit: the member is pinned, or its branch has diverged.
Detaches(m) ==
  /\ op = "materialize" /\ m \in todo
  /\ IsRepo(m)
  /\ at[m] = "detach" \/ (at[m] = "attach" /\ mem[m].branch = Detached)
  /\ \E out \in IF Has(m, Target(m)) THEN CheckoutCommit(place[m], Target(m))
                ELSE {Error(place[m])} :
       /\ place' = [place EXCEPT ![m] = out.repo]
       /\ IF out.res = "ok" THEN MemberDone(m, out.repo) ELSE MemberFails(m)
  /\ Stay
  /\ UNCHANGED <<lock, snapshot, source, clones>>

\* The repository went away under the worker.
Vanished(m) ==
  /\ op = "materialize" /\ m \in todo /\ at[m] # "waiting"
  /\ ~IsRepo(m)
  /\ MemberFails(m)
  /\ Stay
  /\ UNCHANGED <<place, lock, snapshot, source, clones>>

-----------------------------------------------------------------------------
\* Mutant: only the members that were worked on to the end are removed.
RemoveFinished ==
  place' = [m \in Member |-> IF m \in clones \ failed THEN Absent ELSE place[m]]

\* remove_dir_all on every path that was to be cloned.
RemoveClones ==
  place' = [m \in Member |-> IF m \in clones THEN Absent ELSE place[m]]

MaterializeFails ==
  /\ op = "materialize" /\ todo = {} /\ failed # {}
  /\ RemoveClones
  /\ Return
  /\ MaterializeReset
  /\ UNCHANGED <<lock, snapshot>>

\* Mutant: what was planned is recorded, not what was observed.
EndsAsPlanned ==
  /\ op = "materialize" /\ todo = {} /\ failed = {}
  /\ lock' = IF source = "lock" THEN lock
             ELSE [m \in Member |-> IF seen[m] # NoState THEN mem[m] ELSE lock[m]]
  /\ Return
  /\ MaterializeReset
  /\ UNCHANGED <<place, snapshot>>

\* A snapshot target rewrites the lock from what was observed; a lock target
\* leaves it.
MaterializeEnds ==
  /\ op = "materialize" /\ todo = {} /\ failed = {}
  /\ lock' = IF source = "snapshot" THEN Recorded ELSE lock
  /\ Return
  /\ MaterializeReset
  /\ UNCHANGED <<place, snapshot>>

MaterializeStep ==
  \/ \E selected \in SUBSET Member : TakeSnapshot(selected) \/ Capture(selected)
  \/ MaterializeRequest
  \/ \E m \in Member : \/ CaptureMember(m) \/ Clone(m) \/ Attaches(m)
                       \/ Detaches(m) \/ Vanished(m)
  \/ CaptureWriteLock \/ MaterializeFails \/ MaterializeEnds
=============================================================================
