------------------------------- MODULE Stash -------------------------------
(***************************************************************************)
(* Coordinated stash (workspace_ops/handle_stash.rs, stash/mod.rs and the  *)
(* stash half of git/gitbackend.rs): gwz processes push, apply, pop and    *)
(* drop bundles over the members of one workspace.  Three stores change in *)
(* separate steps: the worktree and the native stash list of each member,  *)
(* and the bundle file that groups the payloads.  A process may die        *)
(* between any two steps, and the user edits, stashes and deletes with     *)
(* plain tools at any time.                                                *)
(***************************************************************************)
EXTENDS Naturals, FiniteSets, MutatorLock

CONSTANTS
  Member,       \* the members of the workspace
  NoMember,     \* "no member is being saved"
  NoRec,        \* a member that a bundle has no record of
  Kind,         \* the kinds of local change users make in these members
  PushOptions,  \* the flag combinations pushes are called with
  FreshIds,     \* TRUE: every push names its bundle after its own clock tick
  MaxRequests,  \* bound: stash requests started in a behaviour
  MaxEdits      \* bound: steps users take with other tools

ASSUME StashAssumption ==
  /\ NoMember \notin Member
  /\ Kind \subseteq {"staged", "unstaged", "untracked", "ignored"}
  /\ PushOptions \subseteq [untracked : BOOLEAN, ignored : BOOLEAN,
                            keepIndex : BOOLEAN]
  /\ FreshIds \in BOOLEAN
  /\ MaxRequests \in Nat
  /\ MaxEdits \in Nat

VARIABLES
  tree,      \* member -> kinds of change in its worktree
  stack,     \* member -> its native stash entries, newest = highest oid
  bundles,   \* stash id -> the bundle file in .gwz/stash/bundles
  clock,     \* the tick the next push reads from now_marker
  nextOid,   \* the object id the next native stash commit gets
  edits,     \* number of user steps so far
  pc, req, mem, todo, cur  \* per process: where it is, its request, its
                           \* in-memory bundle, members left, member in work

native  == <<tree, stack, nextOid>>
process == <<pc, req, mem, todo, cur>>
vars    == <<holder, native, bundles, clock, edits, process>>

-----------------------------------------------------------------------------
(* Data. *)

StashId == 1 .. MaxRequests
Foreign == 0  \* the "id" of a native entry without a gwz: message

Entry == [id : StashId \cup {Foreign}, oid : Nat, kinds : SUBSET Kind]

\* StashBundleMember: push_lifecycle, restore_state, native_stash_object_id
\* (0 = None).  participation is "empty" exactly when push is "empty".
Rec == [push    : {"unattempted", "saving", "saved", "empty", "failed"},
        restore : {"pending", "applied", "popped", "dropped", "noop",
                   "missing"},
        oid     : Nat]

ASSUME NoRecAssumption == NoRec \notin Rec

\* The member records of a bundle; a bundle selects at least one member, so
\* no records at all stands for a file that does not exist.
Bundle   == [Member -> Rec \cup {NoRec}]
NoBundle == [m \in Member |-> NoRec]

\* StashBundle.selected_members, which validate() ties to the records.
Selected(b) == {m \in Member : b[m] # NoRec}

MemberRec(push, restore, oid) ==
  [push |-> push, restore |-> restore, oid |-> oid]

RestoreOp == {"apply", "pop", "drop"}
Option    == [untracked : BOOLEAN, ignored : BOOLEAN, keepIndex : BOOLEAN]
Req       == [op : RestoreOp \cup {"push", "none"}, id : StashId \cup {0}, opt : Option,
              sel : SUBSET Member, seen : [Member -> SUBSET Kind]]
NoOption  == [untracked |-> FALSE, ignored |-> FALSE, keepIndex |-> FALSE]
NoRequest == [op |-> "none", id |-> 0, opt |-> NoOption,
              sel |-> {}, seen |-> [m \in Member |-> {}]]

\* GitStatus::is_dirty; ignored files never make a member dirty.
IsDirty(kinds) == kinds \cap {"staged", "unstaged", "untracked"} # {}

\* The changes a native stash with these flags takes; --include-ignored
\* implies --include-untracked.
Stashable(kinds, opt) ==
  kinds \cap ({"staged", "unstaged"}
                \cup (IF opt.untracked \/ opt.ignored THEN {"untracked"} ELSE {})
                \cup (IF opt.ignored THEN {"ignored"} ELSE {}))

StashPushNeeded(kinds, opt) == Stashable(kinds, opt) # {}

InitialBundleMember(kinds) ==
  IF IsDirty(kinds)
  THEN MemberRec("unattempted", "missing", 0)
  ELSE MemberRec("empty", "noop", 0)

EligibleBundleMembers(b) ==
  {m \in Selected(b) : b[m].push = "saved" /\ b[m].restore = "pending"}

\* Mutant: an applied payload counts as consumed.
CompleteWhenApplied(b) ==
  \A m \in Selected(b) :
    /\ b[m].restore \in {"noop", "applied", "popped", "dropped"}
    /\ b[m].push \in {"saved", "empty"}

BundleIsComplete(b) ==
  \A m \in Selected(b) :
    /\ b[m].restore \in {"noop", "popped", "dropped"}
    /\ b[m].push \in {"saved", "empty"}

\* Mutant: an apply is recorded like a pop.
AppliedIsPopped(op) == IF op = "drop" THEN "dropped" ELSE "popped"

\* The restore_state of a member whose payload was applied, popped, dropped.
RestoredState(op) == CASE op = "apply" -> "applied"
                       [] op = "pop"   -> "popped"
                       [] op = "drop"  -> "dropped"

\* resolve_stash_index: the entry with the object id, else the newest
\* gwz:<id>: entry; {} when there is neither.
Matching(m, i, oid) ==
  LET exact == {e \in stack[m] : e.oid = oid}
  IN  IF exact # {} THEN exact ELSE {e \in stack[m] : e.id = i}

\* Mutant: stash@{0}, whatever it is.
TopOfStack(m, i, oid) ==
  {e \in stack[m] : \A f \in stack[m] : f.oid <= e.oid}

Resolved(m, i, oid) ==
  LET found == Matching(m, i, oid)
  IN  {e \in found : \A f \in found : f.oid <= e.oid}

\* The statuses a plan keeps, one per selected member.
Observed(sel) == [m \in Member |-> IF m \in sel THEN tree[m] ELSE {}]

WriteBundle(i, b) == bundles' = [bundles EXCEPT ![i] = b]

\* The operation of p is over, with a response or with an error: its memory
\* is gone and its guard, if it has one, is dropped.
End(p) ==
  /\ pc'   = [pc   EXCEPT ![p] = "idle"]
  /\ req'  = [req  EXCEPT ![p] = NoRequest]
  /\ mem'  = [mem  EXCEPT ![p] = NoBundle]
  /\ todo' = [todo EXCEPT ![p] = {}]
  /\ cur'  = [cur  EXCEPT ![p] = NoMember]
  /\ ReleaseIfHeld(p)

-----------------------------------------------------------------------------
(* stash push *)

\* The part of handle_stash_push that runs before anything is written:
\* statuses of the selected members, the id, the check that its bundle file
\* does not exist, and the initial bundle.
PushPlan(p, sel, i, opt) ==
  /\ pc[p] = "idle"
  /\ clock <= MaxRequests
  /\ IF FreshIds THEN i = clock ELSE i <= clock
  /\ bundles[i] = NoBundle
  /\ pc'  = [pc EXCEPT ![p] = "register"]
  /\ req' = [req EXCEPT ![p] = [op |-> "push", id |-> i, opt |-> opt,
                                sel |-> sel, seen |-> Observed(sel)]]
  /\ mem' = [mem EXCEPT ![p] = [m \in Member |-> IF m \in sel
                                                THEN InitialBundleMember(tree[m])
                                                ELSE NoRec]]
  /\ todo' = [todo EXCEPT ![p] = sel]
  /\ clock' = clock + 1
  /\ UNCHANGED <<holder, native, bundles, edits, cur>>

\* The bundle is written before the lock is asked for.
PushRegister(p) ==
  /\ pc[p] = "register"
  /\ WriteBundle(req[p].id, mem[p])
  /\ pc' = [pc EXCEPT ![p] = "acquire"]
  /\ UNCHANGED <<holder, native, clock, edits, req, mem, todo, cur>>

PushAcquire(p) ==
  /\ pc[p] = "acquire"
  /\ Acquire(p)
  /\ pc' = [pc EXCEPT ![p] = "push"]
  /\ UNCHANGED <<native, bundles, clock, edits, req, mem, todo, cur>>

\* A member with nothing to save under these options is recorded as empty,
\* going by the status read when the push was planned.
PushSkip(p, m) ==
  LET b == [mem[p] EXCEPT ![m] = MemberRec("empty", "noop", 0)]
  IN  /\ pc[p] = "push"
      /\ m \in todo[p]
      /\ ~StashPushNeeded(req[p].seen[m], req[p].opt)
      /\ WriteBundle(req[p].id, b)
      /\ mem'  = [mem EXCEPT ![p] = b]
      /\ todo' = [todo EXCEPT ![p] = @ \ {m}]
      /\ UNCHANGED <<holder, native, clock, edits, pc, req, cur>>

\* Mutant: Git saves before the intent is on disk.
PushWithoutIntent(p, m) ==
  /\ pc[p] = "push"
  /\ m \in todo[p]
  /\ StashPushNeeded(req[p].seen[m], req[p].opt)
  /\ mem'  = [mem EXCEPT ![p][m] = MemberRec("saving", "missing", 0)]
  /\ todo' = [todo EXCEPT ![p] = @ \ {m}]
  /\ cur'  = [cur EXCEPT ![p] = m]
  /\ pc'   = [pc EXCEPT ![p] = "saving"]
  /\ UNCHANGED <<holder, native, bundles, clock, edits, req>>

\* Saving is on disk before Git is asked to save anything.
PushIntent(p, m) ==
  LET b == [mem[p] EXCEPT ![m] = MemberRec("saving", "missing", 0)]
  IN  /\ pc[p] = "push"
      /\ m \in todo[p]
      /\ StashPushNeeded(req[p].seen[m], req[p].opt)
      /\ WriteBundle(req[p].id, b)
      /\ mem'  = [mem EXCEPT ![p] = b]
      /\ todo' = [todo EXCEPT ![p] = @ \ {m}]
      /\ cur'  = [cur EXCEPT ![p] = m]
      /\ pc'   = [pc EXCEPT ![p] = "saving"]
      /\ UNCHANGED <<holder, native, clock, edits, req>>

\* backend.stash_push succeeded: the entry exists, the worktree lost what
\* was stashed (staged changes stay with preserve_index), and the record in
\* memory names the object id.
PushNative(p) ==
  LET m     == cur[p]
      taken == Stashable(tree[m], req[p].opt)
      kept  == IF req[p].opt.keepIndex THEN {"staged"} ELSE {}
  IN  /\ pc[p] = "saving"
      /\ taken # {}
      /\ stack' = [stack EXCEPT ![m] = @ \cup
                     {[id |-> req[p].id, oid |-> nextOid, kinds |-> taken]}]
      /\ tree'  = [tree EXCEPT ![m] = @ \ (taken \ kept)]
      /\ nextOid' = nextOid + 1
      /\ mem' = [mem EXCEPT ![p][m] = MemberRec("saved", "pending", nextOid)]
      /\ pc'  = [pc EXCEPT ![p] = "record"]
      /\ UNCHANGED <<holder, bundles, clock, edits, req, todo, cur>>

\* backend.stash_push failed and saved nothing (there was nothing left to
\* stash, or Git refused).
PushNativeFails(p) ==
  /\ pc[p] = "saving"
  /\ mem' = [mem EXCEPT ![p][cur[p]] = MemberRec("failed", "missing", 0)]
  /\ pc'  = [pc EXCEPT ![p] = "record"]
  /\ UNCHANGED <<holder, native, bundles, clock, edits, req, todo, cur>>

\* Mutant: the outcome of a member is not written.
PushUnrecorded(p) ==
  /\ pc[p] = "record"
  /\ cur' = [cur EXCEPT ![p] = NoMember]
  /\ pc'  = [pc EXCEPT ![p] = "push"]
  /\ UNCHANGED <<holder, native, bundles, clock, edits, req, mem, todo>>

\* The write that closes the turn of a member.
PushRecord(p) ==
  /\ pc[p] = "record"
  /\ WriteBundle(req[p].id, mem[p])
  /\ cur' = [cur EXCEPT ![p] = NoMember]
  /\ pc'  = [pc EXCEPT ![p] = "push"]
  /\ UNCHANGED <<holder, native, clock, edits, req, mem, todo>>

PushDone(p) ==
  /\ pc[p] = "push"
  /\ todo[p] = {}
  /\ End(p)
  /\ UNCHANGED <<native, bundles, clock, edits>>

-----------------------------------------------------------------------------
(* stash apply, pop, drop *)

\* The members of b a restore of these members plans to work on.
Planned(b, members) == {m \in members : b[m].restore = "pending"}

\* The part of handle_stash_restore before the lock: the bundle is read, the
\* selection checked against it, and restore_plans refuses a dirty member
\* and a missing payload.  sel is {} when the request selects nothing.  A
\* request without an id names one of the bundles an id can name.
RestorePlan(p, op, i, sel) ==
  LET b        == bundles[i]
      selected == IF sel = {} THEN EligibleBundleMembers(b) ELSE sel
      planned  == Planned(b, selected)
  IN  /\ pc[p] = "idle"
      /\ clock <= MaxRequests
      /\ b # NoBundle
      /\ selected # {} /\ selected \subseteq Selected(b)
      /\ sel = {} => \A m \in Selected(b) \ selected : b[m].restore # "pending"
      /\ \A m \in planned : ~IsDirty(tree[m]) /\ Resolved(m, i, b[m].oid) # {}
      /\ pc'   = [pc EXCEPT ![p] = "plan"]
      /\ req'  = [req EXCEPT ![p] = [op |-> op, id |-> i, opt |-> NoOption,
                                     sel |-> selected, seen |-> Observed({})]]
      /\ mem'  = [mem EXCEPT ![p] = b]
      /\ todo' = [todo EXCEPT ![p] = planned]
      /\ clock' = clock + 1
      /\ UNCHANGED <<holder, native, bundles, edits, cur>>

RestoreAcquire(p) ==
  /\ pc[p] = "plan"
  /\ Acquire(p)
  /\ pc' = [pc EXCEPT ![p] = "restore"]
  /\ UNCHANGED <<native, bundles, clock, edits, req, mem, todo, cur>>

\* The backend call succeeded; only the memory of p learns of it.
RestoreMember(p, m) ==
  /\ pc[p] = "restore"
  /\ m \in todo[p]
  /\ \E entry \in Resolved(m, req[p].id, mem[p][m].oid) :
       /\ tree'  = IF req[p].op = "drop" THEN tree
                   ELSE [tree EXCEPT ![m] = @ \cup entry.kinds]
       /\ stack' = IF req[p].op = "apply" THEN stack
                   ELSE [stack EXCEPT ![m] = @ \ {entry}]
  /\ mem'  = [mem EXCEPT ![p][m].restore = RestoredState(req[p].op)]
  /\ todo' = [todo EXCEPT ![p] = @ \ {m}]
  /\ UNCHANGED <<holder, nextOid, bundles, clock, edits, pc, req, cur>>

\* The backend call failed: what happened so far is written and the
\* operation ends.  A payload that is gone turns the record to missing; a
\* conflict leaves the record, the payload and the worktree as they were.
RestoreFails(p, m) ==
  /\ pc[p] = "restore"
  /\ m \in todo[p]
  /\ WriteBundle(req[p].id,
       IF Resolved(m, req[p].id, mem[p][m].oid) = {}
       THEN [mem[p] EXCEPT ![m].restore = "missing"]
       ELSE mem[p])
  /\ End(p)
  /\ UNCHANGED <<native, clock, edits>>

\* Every planned member is restored: a complete bundle is removed, any other
\* is written back.
RestoreFinish(p) ==
  /\ pc[p] = "restore"
  /\ todo[p] = {}
  /\ WriteBundle(req[p].id, IF BundleIsComplete(mem[p]) THEN NoBundle ELSE mem[p])
  /\ End(p)
  /\ UNCHANGED <<native, clock, edits>>

-----------------------------------------------------------------------------
(* Endings that can come at any step, and the user. *)

\* try_acquire returned None: the request is refused.
LockBusy(p) ==
  /\ pc[p] \in {"acquire", "plan"}
  /\ Busy(p)
  /\ End(p)
  /\ UNCHANGED <<native, bundles, clock, edits>>

\* The process is killed, or an error leaves the handler between two steps
\* (a failed write_bundle, find_native_stash).
Die(p) ==
  /\ pc[p] # "idle"
  /\ End(p)
  /\ UNCHANGED <<native, bundles, clock, edits>>

UserEdits(m, k) ==
  /\ k \notin tree[m]
  /\ tree' = [tree EXCEPT ![m] = @ \cup {k}]
  /\ UNCHANGED <<stack, nextOid, bundles>>

\* A commit or a clean.
UserSettles(m) ==
  /\ tree[m] # {}
  /\ tree' = [tree EXCEPT ![m] = {}]
  /\ UNCHANGED <<stack, nextOid, bundles>>

\* git stash without gwz.
UserStashes(m) ==
  /\ Stashable(tree[m], NoOption) # {}
  /\ stack' = [stack EXCEPT ![m] = @ \cup
                 {[id |-> Foreign, oid |-> nextOid,
                   kinds |-> Stashable(tree[m], NoOption)]}]
  /\ tree' = [tree EXCEPT ![m] = @ \ Stashable(tree[m], NoOption)]
  /\ nextOid' = nextOid + 1
  /\ UNCHANGED bundles

\* git stash drop without gwz.
UserDrops(m) ==
  /\ \E e \in stack[m] : stack' = [stack EXCEPT ![m] = @ \ {e}]
  /\ UNCHANGED <<tree, nextOid, bundles>>

\* The bundle file is deleted by hand.
UserForgets(i) ==
  /\ bundles[i] # NoBundle
  /\ WriteBundle(i, NoBundle)
  /\ UNCHANGED native

User ==
  /\ edits < MaxEdits
  /\ edits' = edits + 1
  /\ \/ \E m \in Member, k \in Kind : UserEdits(m, k)
     \/ \E m \in Member : UserSettles(m) \/ UserStashes(m) \/ UserDrops(m)
     \/ \E i \in StashId : UserForgets(i)
  /\ UNCHANGED <<holder, clock, process>>

-----------------------------------------------------------------------------
(* A step of a process that is neither a new request nor its death. *)
Continue(p) ==
  \/ PushRegister(p) \/ PushAcquire(p)
  \/ \E m \in Member : PushSkip(p, m) \/ PushIntent(p, m)
  \/ PushNative(p) \/ PushNativeFails(p) \/ PushRecord(p) \/ PushDone(p)
  \/ RestoreAcquire(p)
  \/ \E m \in Member : RestoreMember(p, m) \/ RestoreFails(p, m)
  \/ RestoreFinish(p)
  \/ LockBusy(p)

Request(p) ==
  \/ \E sel \in (SUBSET Member) \ {{}}, i \in StashId, opt \in PushOptions :
       PushPlan(p, sel, i, opt)
  \/ \E op \in RestoreOp, i \in StashId, sel \in SUBSET Member :
       RestorePlan(p, op, i, sel)

Init ==
  /\ LockInit
  /\ tree \in [Member -> SUBSET Kind]
  /\ stack = [m \in Member |-> {}]
  /\ bundles = [i \in StashId |-> NoBundle]
  /\ clock = 1
  /\ nextOid = 1
  /\ edits = 0
  /\ pc   = [p \in Proc |-> "idle"]
  /\ req  = [p \in Proc |-> NoRequest]
  /\ mem  = [p \in Proc |-> NoBundle]
  /\ todo = [p \in Proc |-> {}]
  /\ cur  = [p \in Proc |-> NoMember]

Next ==
  \/ \E p \in Proc : Request(p) \/ Continue(p) \/ Die(p)
  \/ User

Spec == Init /\ [][Next]_vars

\* A process that has started an operation keeps running unless it dies.
FairSpec == Spec /\ \A p \in Proc : WF_vars(Continue(p))
-----------------------------------------------------------------------------
(* Properties. *)

InSection(p) == pc[p] \in {"push", "saving", "record", "restore"}

TypeOK ==
  /\ LockTypeOK
  /\ tree \in [Member -> SUBSET Kind]
  /\ stack \in [Member -> SUBSET Entry]
  /\ bundles \in [StashId -> Bundle]
  /\ clock \in 1 .. MaxRequests + 1
  /\ nextOid \in Nat \ {0}
  /\ edits \in 0 .. MaxEdits
  /\ pc \in [Proc -> {"idle", "register", "acquire", "push", "saving", "record",
                      "plan", "restore"}]
  /\ req \in [Proc -> Req]
  /\ mem \in [Proc -> Bundle]
  /\ todo \in [Proc -> SUBSET Member]
  /\ cur \in [Proc -> Member \cup {NoMember}]

\* Two gwz processes are never both between try_acquire and the end of their
\* operation, whatever dies or fails in between.
MutatorExclusion ==
  \A p, q \in Proc : InSection(p) /\ InSection(q) => p = q

\* A bundle that says a payload was popped or dropped is right: even a bundle
\* written back from a copy read before the lock never declares consumed a
\* payload that is still in the native list.
ConsumedIsGone ==
  \A i \in StashId : bundles[i] # NoBundle =>
    \A m \in Selected(bundles[i]) :
      bundles[i][m].restore \in {"popped", "dropped"} =>
        \A e \in stack[m] : e.oid # bundles[i][m].oid

\* Removing a finished bundle never orphans a payload: when gwz deletes the
\* file of a bundle, no native entry of that bundle is left in any member.
\* It holds where no push takes an ignored file.  A member with ignored
\* changes only is registered as empty before the lock (is_dirty does not see
\* them) and saved later: a restore that read the bundle in between takes it
\* for complete and removes the file of a payload that has just been saved.
RemovalLeavesNoOrphan ==
  [][\A p \in Proc, i \in StashId :
       pc[p] = "restore" /\ pc'[p] = "idle" /\ bundles[i] # NoBundle
         /\ bundles'[i] = NoBundle
       => \A m \in Member : \A e \in stack[m] : e.id # i]_vars

\* A pop or drop removes only entries of its own bundle, and the recorded
\* object as long as it exists, although other processes and users push and
\* drop between the plan and the restore and move every stash@{n}.
RestoreMatchesBundle ==
  [][\A p \in Proc, m \in Member :
       pc[p] = "restore" /\ m \in todo[p] /\ m \notin todo'[p]
         /\ stack'[m] # stack[m]
       => \A e \in stack[m] \ stack'[m] :
            /\ e.id = req[p].id
            /\ e.oid = mem[p][m].oid
                 \/ \A f \in stack[m] : f.oid # mem[p][m].oid]_vars

\* With one gwz process at a time, crashes included: a payload whose bundle
\* file exists is on record there, ready to restore, kept after an apply, or
\* under the saving mark its push left.
PayloadOnRecord ==
  \A m \in Member : \A e \in stack[m] :
    e.id # Foreign /\ bundles[e.id] # NoBundle =>
      /\ m \in Selected(bundles[e.id])
      /\ LET rec == bundles[e.id][m]
         IN  \/ rec.push = "saving"
             \/ /\ rec.push = "saved"
                /\ rec.restore \in {"pending", "applied"}
                /\ rec.oid = e.oid

\* A push that runs to its end leaves no selected member undecided on disk.
PushEndsDecided ==
  [][\A p \in Proc :
       pc[p] = "push" /\ todo[p] = {} /\ pc'[p] = "idle"
         /\ bundles[req[p].id] # NoBundle
       => \A m \in req[p].sel :
            bundles[req[p].id][m].push \in {"saved", "empty", "failed"}]_vars

\* However operations end, the lock becomes free again.
LockComesFree == \A p \in Proc : holder = p ~> holder # p

-----------------------------------------------------------------------------
(* What the requirements say of stash and the code does not do. *)

\* "Stash apply, pop, and drop MUST update only the selected bundle member
\* records."
OnlySelectedRecordsUpdated ==
  [][\A p \in Proc :
       LET i == req[p].id
       IN  pc[p] = "restore" /\ pc'[p] = "idle"
             /\ bundles[i] # NoBundle /\ bundles'[i] # NoBundle
           => \A m \in Selected(bundles[i]) \ req[p].sel :
                bundles'[i][m] = bundles[i][m]]_vars
=============================================================================
