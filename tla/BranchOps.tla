----------------------------- MODULE BranchOps -----------------------------
(***************************************************************************)
(* Branch operations over the members of a workspace: create (with an      *)
(* optional switch), delete and merge of handle_branch.rs, and materialize *)
(* --switch of handle_materialize.rs.  Each is planned from one look at    *)
(* every selected member, then takes the mutator lock, then goes from      *)
(* member to member; people keep working in the members all the while.    *)
(***************************************************************************)
EXTENDS MemberRepo, MutatorLock, Sequences, Naturals

CONSTANTS
  Member,      \* the members of the workspace
  Requests,    \* the requests people make
  StartRefs,   \* the branches a member may have at first
  Trunk,       \* the branch members are on at first
  NoState,     \* a member this operation has not observed
  NoMember,    \* no member is between branch_create and switch_branch
  MaxRequests, \* bound on the requests of all processes
  MaxEdits     \* bound on what people do in the members

DefaultStart == "HEAD"   \* the start ref of a request that names none

\* start is the start ref of a create; nothing else looks at it.
Request ==
  [kind : {"create", "create_switch", "delete", "merge", "switch"},
   branch : Branch, start : Branch \cup {DefaultStart},
   targets : (SUBSET Member) \ {{}}]

ASSUME BranchAssumption ==
  /\ Trunk \in Branch /\ DefaultStart \notin Branch
  /\ StartRefs \subseteq {refs \in [Branch -> Ref] : refs[Trunk] # NoRef}
  /\ Requests \subseteq Request
  /\ NoState \notin State /\ NoMember \notin Member
  /\ MaxRequests \in Nat /\ MaxEdits \in Nat

VARIABLES
  repos,     \* each member's repository
  lock,      \* gwz.lock.yml: what it records of each member
  pc,        \* where each process is
  req,       \* its request
  todo,      \* the members it has yet to visit
  current,   \* the member between branch_create and switch_branch
  made,      \* created_by_this_op
  seen,      \* observed_states
  mem,       \* its copy of the lock file
  plan,      \* the branch HEAD was on, and where the named branch was
  requests, edits,
  \* History: nobody else touched a member since the plan; members whose
  \* rollback failed; so far every operation succeeded and people touched no
  \* member.
  alone, kept, smooth

job  == <<req, plan, todo, current, made, seen, mem>>
vars == <<repos, lock, holder, pc, req, plan, todo, current, made, seen, mem,
          requests, edits, alone, kept, smooth>>

Planned == [head : Branch \cup {Detached}, ref : Ref]
Unseen == [m \in Member |-> NoState]
NoRequest == [kind |-> "none", branch |-> Trunk, start |-> DefaultStart, targets |-> {}]
NoPlan == [m \in Member |-> [head |-> Trunk, ref |-> NoRef]]

TypeOK ==
  /\ LockTypeOK
  /\ repos \in [Member -> Repo]
  /\ lock \in [Member -> State]
  /\ pc \in [Proc -> {"idle", "planned", "working", "switching", "rollback",
                      "writing"}]
  /\ req \in [Proc -> Requests \cup {NoRequest}]
  /\ todo \in [Proc -> SUBSET Member]
  /\ current \in [Proc -> Member \cup {NoMember}]
  /\ made \in [Proc -> Seq(Member)]
  /\ seen \in [Proc -> [Member -> State \cup {NoState}]]
  /\ mem \in [Proc -> [Member -> State \cup {NoState}]]
  /\ plan \in [Proc -> [Member -> Planned]]
  /\ kept \in [Proc -> SUBSET Member]
  /\ alone \in [Proc -> BOOLEAN]
  /\ smooth \in BOOLEAN
  /\ requests \in 0..MaxRequests /\ edits \in 0..MaxEdits

-----------------------------------------------------------------------------
StartRepo(refs) ==
  [refs |-> refs, origin |-> [b \in Branch |-> NoRef], head |-> Trunk,
   tip |-> {}, dirty |-> FALSE, midway |-> FALSE]

Init ==
  /\ LockInit
  /\ \E refs \in [Member -> StartRefs] :
       /\ repos = [m \in Member |-> StartRepo(refs[m])]
       /\ lock = [m \in Member |-> Resolved(StartRepo(refs[m]))]
  /\ pc = [p \in Proc |-> "idle"]
  /\ req = [p \in Proc |-> NoRequest]
  /\ todo = [p \in Proc |-> {}]
  /\ current = [p \in Proc |-> NoMember]
  /\ made = [p \in Proc |-> <<>>]
  /\ seen = [p \in Proc |-> Unseen]
  /\ mem = [p \in Proc |-> Unseen]
  /\ plan = [p \in Proc |-> NoPlan]
  /\ kept = [p \in Proc |-> {}]
  /\ alone = [p \in Proc |-> FALSE]
  /\ smooth = TRUE
  /\ requests = 0 /\ edits = 0

\* What a ref of the request stands for in a member: read_ref, revparse.
Denotes(r, ref) == IF ref = DefaultStart THEN HeadCommit(r) ELSE r.refs[ref]

CreatePreflight(r, q) ==
  /\ q.kind = "create_switch" => ~r.dirty
  /\ Denotes(r, q.start) # NoRef
  /\ r.refs[q.branch] \in {NoRef, Denotes(r, q.start)}

DeletePreflight(r, q) == r.refs[q.branch] # NoRef /\ r.head # q.branch

MergePreflight(r, q) ==
  ~r.dirty /\ ~r.midway /\ r.head # Detached /\ r.refs[q.branch] # NoRef

SwitchPreflight(r, q) == ~r.dirty /\ r.refs[q.branch] # NoRef

Preflight(r, q) ==
  CASE q.kind \in {"create", "create_switch"} -> CreatePreflight(r, q)
    [] q.kind = "delete" -> DeletePreflight(r, q)
    [] q.kind = "merge"  -> MergePreflight(r, q)
    [] q.kind = "switch" -> SwitchPreflight(r, q)

Plan(p, q) ==
  /\ pc[p] = "idle" /\ requests < MaxRequests
  /\ \A m \in q.targets : Preflight(repos[m], q)
  /\ pc' = [pc EXCEPT ![p] = "planned"]
  /\ req' = [req EXCEPT ![p] = q]
  /\ todo' = [todo EXCEPT ![p] = q.targets]
  /\ plan' = [plan EXCEPT ![p] = [m \in Member |->
               [head |-> repos[m].head, ref |-> repos[m].refs[q.branch]]]]
  /\ alone' = [alone EXCEPT ![p] = TRUE]
  /\ requests' = requests + 1
  /\ UNCHANGED <<repos, lock, holder, current, made, seen, mem, edits, kept, smooth>>

\* Every other operation under way is no longer alone with the members.
Touched(others, m, r) ==
  IF r = repos[m] THEN alone ELSE [q \in Proc |-> alone[q] /\ q \notin others]

Goto(p, label) ==
  /\ pc' = [pc EXCEPT ![p] = label]
  /\ UNCHANGED holder

\* The operation returns: its guard is dropped and its locals are gone.
Return(p) ==
  /\ pc' = [pc EXCEPT ![p] = "idle"]
  /\ ReleaseIfHeld(p)
  /\ req' = [req EXCEPT ![p] = NoRequest]
  /\ plan' = [plan EXCEPT ![p] = NoPlan]
  /\ todo' = [todo EXCEPT ![p] = {}]
  /\ current' = [current EXCEPT ![p] = NoMember]
  /\ made' = [made EXCEPT ![p] = <<>>]
  /\ seen' = [seen EXCEPT ![p] = Unseen]
  /\ mem' = [mem EXCEPT ![p] = Unseen]
  /\ kept' = [kept EXCEPT ![p] = {}]

TakeLock(p) ==
  /\ pc[p] = "planned"
  /\ Acquire(p)
  /\ pc' = [pc EXCEPT ![p] = "working"]
  /\ UNCHANGED <<repos, lock, job, requests, edits, alone, kept, smooth>>

LockHeld(p) ==
  /\ pc[p] = "planned"
  /\ holder \notin {NoProc, p}
  /\ Return(p)
  /\ alone' = [alone EXCEPT ![p] = FALSE]
  /\ UNCHANGED <<repos, lock, requests, edits, smooth>>

-----------------------------------------------------------------------------
Create(p, m) ==
  /\ pc[p] = "working" /\ req[p].kind \in {"create", "create_switch"}
  /\ m \in todo[p]
  /\ LET b       == req[p].branch
         start   == Denotes(repos[m], req[p].start)
         created == repos[m].refs[b] = NoRef
     IN  \E out \in IF start = NoRef THEN {Error(repos[m])}
                    ELSE BranchCreate(repos[m], b, start) :
           /\ repos' = [repos EXCEPT ![m] = out.repo]
           /\ alone' = Touched(Proc \ {p}, m, out.repo)
           /\ IF out.res # "ok"
              THEN Goto(p, "rollback") /\ smooth' = FALSE /\ UNCHANGED <<made, current>>
              ELSE /\ made' = [made EXCEPT ![p] = IF created THEN Append(@, m) ELSE @]
                   /\ IF req[p].kind = "create_switch"
                      THEN /\ Goto(p, "switching")
                           /\ current' = [current EXCEPT ![p] = m]
                      ELSE Goto(p, "working") /\ UNCHANGED current
                   /\ UNCHANGED smooth
  /\ todo' = [todo EXCEPT ![p] = @ \ {m}]
  /\ UNCHANGED <<lock, req, plan, seen, mem, requests, edits, kept>>

\* switch_branch after branch_create; what is observed then is for the lock.
SwitchCreated(p) ==
  /\ pc[p] = "switching"
  /\ LET m == current[p]
     IN  \E out \in SwitchBranch(repos[m], req[p].branch) :
           /\ repos' = [repos EXCEPT ![m] = out.repo]
           /\ alone' = Touched(Proc \ {p}, m, out.repo)
           /\ IF out.res # "ok"
              THEN Goto(p, "rollback") /\ smooth' = FALSE /\ UNCHANGED seen
              ELSE /\ Goto(p, "working")
                   /\ seen' = [seen EXCEPT ![p][m] = Resolved(out.repo)]
                   /\ UNCHANGED smooth
  /\ current' = [current EXCEPT ![p] = NoMember]
  /\ UNCHANGED <<lock, req, plan, todo, made, mem, requests, edits, kept>>

\* Mutant: only the branch made last is taken back.
RollbackLast(p) ==
  /\ pc[p] = "rollback" /\ made[p] # <<>>
  /\ LET m == made[p][Len(made[p])]
     IN  \E out \in BranchDelete(repos[m], req[p].branch) :
           /\ repos' = [repos EXCEPT ![m] = out.repo]
           /\ alone' = Touched(Proc \ {p}, m, out.repo)
           /\ kept' = [kept EXCEPT ![p] = IF out.res = "ok" THEN @ ELSE @ \cup {m}]
  /\ made' = [made EXCEPT ![p] = <<>>]
  /\ UNCHANGED <<lock, holder, pc, req, plan, todo, current, seen, mem,
                 requests, edits, smooth>>

\* rollback_created_branches: last created first, and never mind the result.
Rollback(p) ==
  /\ pc[p] = "rollback" /\ made[p] # <<>>
  /\ LET m == made[p][Len(made[p])]
     IN  \E out \in BranchDelete(repos[m], req[p].branch) :
           /\ repos' = [repos EXCEPT ![m] = out.repo]
           /\ alone' = Touched(Proc \ {p}, m, out.repo)
           /\ kept' = [kept EXCEPT ![p] = IF out.res = "ok" THEN @ ELSE @ \cup {m}]
  /\ made' = [made EXCEPT ![p] = SubSeq(@, 1, Len(@) - 1)]
  /\ UNCHANGED <<lock, holder, pc, req, plan, todo, current, seen, mem,
                 requests, edits, smooth>>

RolledBack(p) ==
  /\ pc[p] = "rollback" /\ made[p] = <<>>
  /\ Return(p)
  /\ alone' = [alone EXCEPT ![p] = FALSE]
  /\ UNCHANGED <<repos, lock, requests, edits, smooth>>

-----------------------------------------------------------------------------
\* One member of a loop that leaves at the first error: what was done stays
\* done, and the lock is not written.
Visit(p, m, outcomes) ==
  /\ pc[p] = "working"
  /\ m \in todo[p]
  /\ \E out \in outcomes :
       /\ repos' = [repos EXCEPT ![m] = out.repo]
       /\ IF out.res \in {"ok", "conflict"}
          THEN /\ Goto(p, "working")
               /\ alone' = Touched(Proc \ {p}, m, out.repo)
               /\ todo' = [todo EXCEPT ![p] = @ \ {m}]
               /\ seen' = [seen EXCEPT ![p][m] =
                             IF out.res = "ok" /\ req[p].kind # "delete"
                             THEN Resolved(out.repo) ELSE @]
               /\ UNCHANGED <<req, plan, current, made, mem, kept, smooth>>
          ELSE /\ Return(p)
               /\ alone' = [Touched(Proc, m, out.repo) EXCEPT ![p] = FALSE]
               /\ smooth' = FALSE
  /\ UNCHANGED <<lock, requests, edits>>

Delete(p, m) ==
  /\ req[p].kind = "delete"
  /\ Visit(p, m, BranchDelete(repos[m], req[p].branch))

Merge(p, m) ==
  /\ req[p].kind = "merge"
  /\ LET source == repos[m].refs[req[p].branch]
     IN  Visit(p, m, IF source = NoRef THEN {Error(repos[m])}
                     ELSE MergeUpstream(repos[m], plan[p][m].head, source))

Switch(p, m) ==
  /\ req[p].kind = "switch"
  /\ Visit(p, m, SwitchBranch(repos[m], req[p].branch))

-----------------------------------------------------------------------------
\* Every member is visited; the lock file is read, changed and written back.
ReadLock(p) ==
  /\ pc[p] = "working" /\ todo[p] = {} /\ seen[p] # Unseen
  /\ mem' = [mem EXCEPT ![p] = lock]
  /\ Goto(p, "writing")
  /\ UNCHANGED <<repos, lock, req, plan, todo, current, made, seen, requests,
                 edits, alone, kept, smooth>>

WriteLock(p) ==
  /\ pc[p] = "writing"
  /\ lock' = [m \in Member |-> IF seen[p][m] # NoState THEN seen[p][m] ELSE mem[p][m]]
  /\ Return(p)
  /\ alone' = [alone EXCEPT ![p] = FALSE]
  /\ UNCHANGED <<repos, requests, edits, smooth>>

\* Nothing was observed: the lock stays as it is.
Done(p) ==
  /\ pc[p] = "working" /\ todo[p] = {} /\ seen[p] = Unseen
  /\ Return(p)
  /\ alone' = [alone EXCEPT ![p] = FALSE]
  /\ UNCHANGED <<repos, lock, requests, edits, smooth>>

\* The process dies, or leaves at an error of the lock file.
Die(p) ==
  /\ pc[p] # "idle"
  /\ Return(p)
  /\ alone' = [alone EXCEPT ![p] = FALSE]
  /\ smooth' = FALSE
  /\ UNCHANGED <<repos, lock, requests, edits>>

Work(m) ==
  /\ edits < MaxEdits
  /\ \E r \in Edited(repos[m]) \ {repos[m]} :
       /\ repos' = [repos EXCEPT ![m] = r]
       /\ alone' = Touched(Proc, m, r)
  /\ edits' = edits + 1
  /\ smooth' = FALSE
  /\ UNCHANGED <<lock, holder, pc, job, requests, kept>>

Step(p) ==
  \/ \E q \in Requests : Plan(p, q)
  \/ TakeLock(p) \/ LockHeld(p)
  \/ \E m \in Member : Create(p, m) \/ Delete(p, m) \/ Merge(p, m) \/ Switch(p, m)
  \/ SwitchCreated(p) \/ Rollback(p) \/ RolledBack(p)
  \/ ReadLock(p) \/ WriteLock(p) \/ Done(p) \/ Die(p)

Next == (\E p \in Proc : Step(p)) \/ (\E m \in Member : Work(m))

Spec == Init /\ [][Next]_vars

-----------------------------------------------------------------------------
\* Whatever people do between the preflight and the delete, no branch
\* operation takes away the branch a member's HEAD is on.
HeadResolves ==
  \A m \in Member : repos[m].head # Detached => repos[m].refs[repos[m].head] # NoRef

\* While operations succeed and people leave the members alone, the lock
\* records every member as it is whenever no process holds the mutator lock:
\* concurrent operations do not lose each other's records.
LockFollowsMembers ==
  smooth /\ holder = NoProc => \A m \in Member : lock[m] = Resolved(repos[m])

\* A create that failed while it was alone with the members leaves the named
\* branch as the plan found it, except where git refused to delete it.
RollbackIsComplete ==
  [][\A p \in Proc :
       RolledBack(p) /\ alone[p] =>
         \A m \in req[p].targets \ kept[p] :
           repos[m].refs[req[p].branch] = plan[p][m].ref]_vars

\* Whatever people do meanwhile, gwz takes nothing from a branch it finds: one
\* that moves was deleted by a request for it, or was made by the create that
\* now rolls back, or is merged into, and as long as HEAD is on the branch the
\* merge was planned for it keeps all it had.
NoBranchLosesWork ==
  [][\A m \in Member, b \in Branch :
       /\ edits' = edits
       /\ repos[m].refs[b] # NoRef /\ repos'[m].refs[b] # repos[m].refs[b]
       => \E p \in Proc :
            \/ /\ \/ Delete(p, m)
                  \/ Rollback(p) /\ \E i \in DOMAIN made[p] : made[p][i] = m
               /\ b = req[p].branch /\ repos'[m].refs[b] = NoRef
            \/ /\ Merge(p, m)
               /\ \/ repos[m].head # plan[p][m].head
                  \/ /\ repos'[m].refs[b] # NoRef
                     /\ Within(repos[m].refs[b], repos'[m].refs[b])]_vars
=============================================================================
