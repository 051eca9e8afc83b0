------------------------------ MODULE PullHead ------------------------------
(***************************************************************************)
(* handle_pull_head: every selected member is validated against its remote *)
(* before any is fetched, every member is fetched and planned before any   *)
(* is changed, and the changes are applied one member after the other.     *)
(* The lock that is written at the end was read at the start.              *)
(***************************************************************************)
EXTENDS Workspace

CONSTANT SyncModes  \* the sync policies people ask for

ASSUME SyncModesAssumption ==
  SyncModes \subseteq {"fetch_only", "ff_only", "merge", "rebase", "reset"}

VARIABLES
  sync,     \* the sync policy of this pull
  force,    \* its destructive policy allows
  actions   \* the action planned for each member

pull == <<sync, force, actions>>

NoActions == [m \in Member |-> "none"]

PullTypeOK ==
  /\ sync \in SyncModes \cup {"none"} /\ force \in BOOLEAN
  /\ actions \in [Member -> {"none", "noop", "skip", "fetch_only",
                             "fast_forward", "merge", "rebase", "reset"}]

PullInit == sync = "none" /\ force = FALSE /\ actions = NoActions

PullReset == sync' = "none" /\ force' = FALSE /\ actions' = NoActions

\* pull_branch: the locked branch, or the default one.
PullBranch(m) == IF mem[m].branch = Detached THEN Trunk ELSE mem[m].branch

\* pull_dirty_guard.
Tolerates(r) ==
  ~r.dirty \/ sync = "fetch_only" \/ (sync = "reset" /\ force)

PullStart(selected) ==
  /\ Begin(selected, "validate", lock)
  /\ sync' \in SyncModes /\ force' \in BOOLEAN
  /\ UNCHANGED <<place, actions>>

-----------------------------------------------------------------------------
\* pull_validate_member; ls_remote may fail, or not list the branch.
Valid(m) ==
  /\ IsRepo(m)
  /\ Tolerates(place[m])
  /\ m \in hosted => upstream[m][PullBranch(m)] # NoRef

PullValidate(m) ==
  /\ op = "validate" /\ m \in todo
  /\ todo' = todo \ {m}
  /\ failed' \in {failed \cup {m}} \cup (IF Valid(m) THEN {failed} ELSE {})
  /\ Stay
  /\ UNCHANGED <<place, lock, seen, pull>>

\* Mutant: nothing waits for the validation of the other members.
NoBarrier(next) ==
  /\ op = (IF next = "fetch" THEN "validate" ELSE "fetch")
  /\ next = "apply" => todo = {} /\ failed = {}
  /\ op' = next /\ todo' = targets
  /\ UNCHANGED <<hosted, place, upstream, lock, targets, failed, mem, seen,
                 requests, edits, start, pull>>

\* The barrier between two phases of the preflight.
Barrier(next) ==
  /\ op = (IF next = "fetch" THEN "validate" ELSE "fetch")
  /\ todo = {} /\ failed = {}
  /\ op' = next /\ todo' = targets
  /\ UNCHANGED <<hosted, place, upstream, lock, targets, failed, mem, seen, requests,
                 edits, start, pull>>

PullRejected ==
  /\ op \in {"validate", "fetch"}
  /\ todo = {} /\ failed # {}
  /\ Return
  /\ PullReset
  /\ UNCHANGED <<place, lock>>

\* What is planned for a repository whose remote branch is at remote; none
\* when ff_only finds that they diverged.
Planned(r, remote) ==
  LET behind == Within(HeadCommit(r), remote)
  IN  IF HeadCommit(r) = remote THEN {"noop"}
      ELSE CASE sync = "fetch_only" -> {"fetch_only"}
             [] sync = "ff_only" -> IF behind THEN {"fast_forward"} ELSE {}
             [] sync \in {"merge", "rebase"} ->
                  IF behind THEN {"fast_forward"} ELSE {sync}
             [] sync = "reset" -> {"reset"}

\* pull_head_member_preflight.
PullFetch(m) ==
  /\ op = "fetch" /\ m \in todo
  /\ todo' = todo \ {m}
  /\ \/ /\ failed' = failed \cup {m}
        /\ UNCHANGED <<place, actions>>
     \/ /\ IsRepo(m) /\ Tolerates(place[m])
        /\ m \notin hosted
        /\ actions' = [actions EXCEPT ![m] = "skip"]
        /\ UNCHANGED <<place, failed>>
     \/ /\ IsRepo(m) /\ Tolerates(place[m])
        /\ m \in hosted
        /\ LET fetched == Fetched(place[m], upstream[m])
               remote  == fetched.origin[PullBranch(m)]
               plans   == IF remote = NoRef THEN {} ELSE Planned(fetched, remote)
           IN  /\ place' = [place EXCEPT ![m] = fetched]
               /\ IF plans = {}
                  THEN failed' = failed \cup {m} /\ UNCHANGED actions
                  ELSE /\ \E a \in plans : actions' = [actions EXCEPT ![m] = a]
                       /\ UNCHANGED failed
  /\ Stay
  /\ UNCHANGED <<lock, seen, sync, force>>

-----------------------------------------------------------------------------
\* apply_pull_action: the remote ref is read again, and so is HEAD.
Apply(r, action, b) ==
  CASE action = "fast_forward" -> FastForward(r, b, r.origin[b])
    [] action = "merge"        -> MergeUpstream(r, b, r.origin[b])
    [] action = "rebase"       -> RebaseOnto(r, b, r.origin[b])
    [] action = "reset"        -> ResetHard(r, b, r.origin[b])

\* An error ends the pull, and the lock is not written.  A member that is
\* gone, with nothing to apply, keeps its record.
PullApply(m) ==
  /\ op = "apply" /\ m \in todo
  /\ \E out \in IF actions[m] \in {"noop", "skip", "fetch_only"} THEN {Ok(place[m])}
                ELSE IF IsRepo(m) THEN Apply(place[m], actions[m], PullBranch(m))
                ELSE {Error(place[m])} :
       /\ place' = [place EXCEPT ![m] = out.repo]
       /\ IF out.res \in {"ok", "conflict"}
          THEN /\ seen' = [seen EXCEPT ![m] = IF IsRepo(m) THEN Resolved(out.repo)
                                              ELSE mem[m]]
               /\ todo' = todo \ {m}
               /\ Stay
               /\ UNCHANGED <<failed, pull>>
          ELSE Return /\ PullReset
  /\ UNCHANGED lock

\* The whole lock goes back as it was read at the start, with the members
\* this pull observed.
PullWriteLock ==
  /\ op = "apply" /\ todo = {}
  /\ lock' = [m \in Member |-> IF seen[m] # NoState THEN seen[m] ELSE mem[m]]
  /\ Return
  /\ PullReset
  /\ UNCHANGED place

PullStep ==
  \/ \E selected \in SUBSET Member : PullStart(selected)
  \/ \E m \in Member : PullValidate(m) \/ PullFetch(m) \/ PullApply(m)
  \/ Barrier("fetch") \/ Barrier("apply") \/ PullRejected \/ PullWriteLock
=============================================================================
