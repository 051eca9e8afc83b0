# A TLA+ model of gws-core

`gws-core` (crate `gwz`) runs Git operations over a workspace: a directory with a
manifest (`gwz.yml`), a lock file that records the observed state of every member
(`gwz.lock.yml`), and one Git repository per member. This directory models the parts of it
that change state, checks them with TLC, and proves some of their properties with TLAPS.

Source paths below are relative to `src/src/`.

## Components

| component | state | operations | who it meets | modules |
|---|---|---|---|---|
| workspace mutator lock, `operation/workspace_mutator_lock.rs` | a file, its inode, the flocks on it | try_acquire, drop, release by death | stash and branch mutators of all processes | `MutatorLock`, `LockFile` |
| stash coordination, `workspace_ops/handle_stash.rs`, `stash/mod.rs` | bundle files, native stash entries, worktrees | push, apply, pop, drop (list reads) | mutator lock, git, people | `Stash` |
| operation runtime, `operation/push_event.rs` and its neighbours | registry, records (event buffer, result), subscriptions | submit, emit, complete, subscribe, drain, wait | handler threads, callers | `OperationRuntime` |
| event emitter, `operation/push_event.rs`, `operation/eventemitter.rs` | a counter, the time of each member's last update | operation and member events, numbered and delivered | workers of a parallel map, a sink | `EventEmitter` |
| parallel map, `operation/par_map_per_host.rs` | cursors, slots, permits, results | claim, take, acquire, run, release, store, join | materialize, push, pull preflight | `ParMapPerHost` |
| git backend, `git/gitbackend.rs` | refs, HEAD, index, worktree of a repository | branches, checkouts, integration, clone, fetch, push, tags, stage | every handler | `MemberRepo`, and the calls only one handler makes with that handler |
| branch operations, `workspace_ops/handle_branch.rs` | members, lock file | create, create + switch, delete, merge, materialize --switch | mutator lock, git backend, people | `BranchOps` |
| pull to head, `workspace_ops/pull_head_member_preflight.rs` | the root's repository, members, lock file | root: look, fetch, integrate, rewrite or settle the lock; members: validate, fetch and plan, apply, record | git backend, remotes, people | `RootPull`; `PullHead`, `Workspace`, `Sync` |
| materialize, snapshot, capture, `workspace_ops/handle_materialize.rs` | members, lock file, snapshots | clone, check out, roll back, record | git backend, parallel map, people | `Materialize`, `Workspace`, `Sync` |
| registry of members, `workspace_ops/handle_create_repo.rs`, `handle_init_from_sources.rs`, `handle_commit.rs`, `artifact/mod.rs`, `sync_workspace_boundary.rs` | manifest, lock file, their temporary files, the root's index and exclude block, members | create workspace, init, create, add and sync of repositories, capture, commit | other processes without any lock, people | `Registry` |
| push and tag, `workspace_ops/push_member.rs`, `handle_tag.rs` | members and root, their remotes | push: look at all, push each, root last; tags: create, delete, push, fetch | git backend, remotes, people | `Publish` |
| stage, `workspace_ops/handle_stage.rs`, `stage_routing.rs` | the index of each repository | route, stage | git backend, people | `Staging` |
| target selection, `workspace_ops/target_selection.rs` | none | the members and the root a selection means | every handler | `Targets` |

What is left out is listed under "Not modelled".

What makes each of them correct, in a line: the mutator lock has one holder and comes free; a stash
payload is announced before it exists and found again by what it is; the event history is bounded
and says when it skipped; each item of a parallel map is run once within both limits;
branch and sync operations lose no work and record what they did; the manifest and the lock
name the same members and the lock the commits they are at; the events of a member
reach the sink in order and their numbers have no gap; what a push or a tag reports is so on the
remotes, and takes nothing from them; a file is staged by the repository that owns it; a pull of the root
settles the lock it may settle and nothing else.

What is hard in this code: several processes in one workspace of which some take
the mutator lock and some do not; people who use Git in the members while an operation is
under way; plans made before the lock is taken and carried out after; operations that fail
in one member after they changed others; processes that die between a Git call and the
write that records it; threads that share a buffer, a semaphore and a condition
variable. `PROJECT.json` lists these hazards line by line.

## Modules

**`MutatorLock`** is the abstract lock: `holder` is a process or nobody. `Stash` and
`BranchOps` extend it. **`LockFile`** is what the code does: open or create the file, try
`flock` on its inode, unlock, close, die. `ImplementsMutatorLock` states that the second
implements the first, under the mapping "the holder is the process whose guard is alive".
The invariant that makes it true, proved and not run, is `OpenOnPath`: nothing removes the file, so all
descriptors are on one inode. Nothing in the code takes the file away.

**`Stash`** follows `handle_stash_push` and `handle_stash_restore` write by write: `PushPlan`
(statuses, id, existence check), `PushRegister` (the bundle is written *before* the lock is
asked for), `PushAcquire`, then per member `PushSkip`, or `PushIntent`, `PushNative` or
`PushNativeFails`, `PushRecord`. A restore reads its bundle in `RestorePlan`, takes the lock,
works on members in memory and writes once at the end. `Die` is a killed process or an
error that leaves by `?`. Worktrees are sets of kinds of change; a native entry is an
object id with the stash id of its message. `resolve_stash_index` (object id first, then
the newest entry with the prefix) is `Resolved`.

**`OperationRuntime`** has one record per submission, as an id may be submitted again; the
registry maps ids to records. `Emit` is `push_event` and the append, under the record's mutex.
A drain that finds nothing changes nothing and is left out. What it returns (`From`) are the kept
indices of the buffer in ascending order. Handlers are taken to return or to panic, and not to emit after
they returned.

**`EventEmitter`** puts the calls `f` of a handler inside `ParMapPerHost`: a worker that runs takes a
number from the atomic counter (`TakeNumber`) and hands the event to the sink in a second step
(`Deliver`), for `started`, any number of updates and `finished`; `f` may leave with an error after
its start, or panic anywhere. `NumberLast` and `DeliverLast` are `operation_finished` after the join; a pull with
an error leaves without it. Every step of it is a step of `ParMapPerHost` or a stutter
(`EmitImplementsCall`). The rate limit is a choice: an update may be dropped, the first of a member
never is, which `Updates` counts. The two events of the root's own push are left out.

**`ParMapPerHost`** has the worker threads that `par_map_per_host` spawns, one action per
shared access: claim (one `fetch_add`), take, acquire (or sleep on the condition variable),
run (which may panic and lose its permit), release, notify, store. `hostOf` is chosen at the start. `Indices`
is the queue of a group: its items in ascending order, chosen as a sequence and not filtered out of one by
a recursive operator, so that the proofs can look into it; `From` of the runtime is written the same way.

**`MemberRepo`** holds no state: each call of `GitBackend` is an operator that gives the set
of its outcomes. A commit is the set of changes it has with its history, so an ancestor is a
subset and a merge a union; two commits with the same changes are one. `dirty` covers
tracked files only; unborn HEADs are left out. Every call may also fail having done nothing.

**`BranchOps`** runs operations of several processes over the members, with `Plan` (the
preflight of every selected member in one look), the mutator lock, one member per step in
any order, and the read and the write of the lock file as two steps.

**`Workspace`** is the ground pull and materialize share: places, remotes, the lock file, and
`People`, who commit, switch, delete, detach, remove directories, put files in them and push
to remotes between any two steps. **`PullHead`** and **`Materialize`** add the two
families of operations, **`Sync`** composes them, one operation at a time. These operations do
not take the mutator lock, so nothing orders them against a second gwz process: that
interference on the lock file is a hazard listed without a property.

**`Registry`** is who belongs to the workspace. Its operations take no mutator lock: each reads
the manifest, acts on the members, reads the lock (`MergeLock`; init and create workspace write
a new one), stages its files under temporary names (`Stage`), renames the manifest
(`PublishManifest`) and then the lock (`PublishLock`), and brings the root's exclude block and index
up to date (`SyncBoundary`; a sync of repositories writes the manifest alone). Init clones in
parallel and removes every planned path when one clone failed; create makes the repository before
it compares its path with those of other members. Commit goes through the members, writes the lock
from what it then observes, and commits the root last. A repository is its number of commits, whether
something is staged and whether it has a remote. `Stop` is a death or a failed call, `Edit` is
people. `overlapped` and `alone` are history variables: the code orders nothing here, so two
properties speak of operations one after the other and two of an operation nobody came
between. Without the first, `LockWithinManifest` fails at once: a create workspace that overlaps an init writes an
empty manifest under the init's lock, and two creates leave the manifest of the later one.

**`Targets`** is `resolve_targets`: selectors, members by id or path, exclusion, the default of the
command. It keeps no state; `Publish` and `Staging` use it. `TargetsAssumption` keeps members and the root apart
from selectors: an id begins with `mem_` (`artifact/mod.rs:70`) and a token with `@` is a selector
(`target_selection.rs:128`).

**`Publish`** is push and tag. `PushLooks` is the preflight of all targets, `PushEndsEarly` and
`PushGoesOn` what follows from it; for each target the code looks again (`PushReads`) and pushes
(`PushSends`), the root after the members (`RootLast`), and `Aggregate` is the one status that is
reported. A push may fail without effect, fail with effect (the reply is lost), and be reported as done
when the remote refused the ref (`refused`). `TagMember` is one member of a tag operation, which leaves at the
first error; tags are created where they are missing. A reply tells what happened, and `start` what was
there before; people commit, detach, tag and push between any two steps.

**`Staging`** is `gwz add`: `Routes` sends every pathspec to the repository that owns the path and to every
member below it, as `resolve_stage_targets` does after the lexical normalisation of `..`; `StageTurn` takes
the repositories one by one; a member that is not there is an error only when a pathspec led into it. The
root's own index counts as a repository that ignores its members' paths (the exclude block of `Registry`). A path
is the sequence of its names; `StagingAssumption` has members' paths not contain one another, which
`validate_member_path_set` refuses.

**`RootPull`** is what pull does to the root before the members: `RootLooks` (HEAD, the dirty guard, the
lock it may fall back on), `RootFetches`, `RootIntegrates` by policy, then `RewriteLock` from the members
as they are, or `ResolveLock` and `CommitMerge` when the merge stopped at a conflict. A commit is the set of
edits in its history; the versions of the lock file that were committed are numbered in the order people and gwz committed
them, and two versions always conflict, since each has its time in it. Without a policy, gwz merges by
itself if the remote changed the lock file only (`Repairable`). `MembersPull` stands for `PullHead`.
HEAD may be on the branch that is pulled or not (`attached`, `away`, `Current`): the pull reads the branch's name before
the fetch and goes by HEAD after it, and people commit, push and switch HEAD at any time in between (`SomebodySwitches`),
to an older commit, to the remote's, or detached where they are. `RootMoves` is what a commit or a reset of HEAD
moves, `RootFastForwards` what goes by the branch's name, and a rebase that stops leaves HEAD off the branch.

`MC*` modules give values to constants. Every definition headed "Mutant:" is a
plausible bug used to show that a property can fail; no specification uses it. `*_proofs` modules hold the
theorems: `LockFile_proofs`, `Stash_proofs`, `OperationRuntime_proofs`, `EventEmitter_proofs` (the parallel map and
the emitter), `BranchOps_proofs`, `Sync_proofs`, `Registry_proofs` and `Commands_proofs` (`Publish`, `Staging`, `RootPull`).

## Runs

| run | question | bounds |
|---|---|---|
| `lockfile` | Is the file lock a lock, and does it implement the abstract one? | 4 processes, unbounded attempts |
| `stash_concurrent` | Do records and payloads stay matched when two processes push and restore? | 2 processes, 2 members, 3 requests, 1 edit |
| `stash_recovery` | What is on disk when a process dies, and does the lock come free? | 1 process at a time, 2 members, untracked changes, push options that take them and that skip them, 3 requests, 1 edit |
| `stash_selected` | Does a restore leave other records alone? *violated* | 2 processes, 2 members, 3 requests, no edit |
| `runtime` | Reset on overflow, result after the last event, waits return | an id submitted twice, the least capacity, 2 events per handler, 1 subscriber, 2 waiters, panics |
| `parmap` | Both limits, each item once, the call ends; events in order, numbers complete, everybody heard | 3 items, each on one host or none, global limit 2, per-host limit 1, 1 update, errors and panics |
| `branch` | Branch operations among processes and people | 2 processes, 2 members, 2 branches, 2 requests, 1 edit |
| `sync` | Pull, materialize, snapshot, capture | 2 members (one may have no remote), 2 branches, 2 changes, 2 operations, 1 edit |
| `sync_detached` | Is work left on a branch by a detaching materialize safe from a later pull? *violated* | as `sync`, no edit |
| `sync_rollback` | Does a rollback remove only its own clones? *violated* | as `sync`, 1 operation |
| `registry` | Do manifest, lock, index and exclude block agree, are live commits recorded, does a failed init leave nothing? | 2 processes, 3 paths (one inside another), no workspace or one member at first, 2 commits, 2 operations, 2 edits, 1 stop |
| `commands` | Push, tag, add and the root's pull: is the report true, is nothing published or committed lost, does each repository get its own | push and tag: 2 members, of two kinds of ahead, diverged, detached, without commits, without a remote and gone, or both ahead or gone, and the root ahead or (with a member that is) without a remote, 2 operations or interferences; add: 5 files in 3 nested repositories, up to 2 of 7 pathspecs from 3 directories; pull: 5 histories here, 6 there, every policy, 2 pulls or interferences, HEAD switched among them, 5 versions of the lock |

Two processes are enough for every race over the
mutator lock or a file, since each hazard is a pair of steps; two members give "one
failed, one did not"; two operations give "what one left, the next finds" (a stash needs a third, to
race two restores of what a push saved). An event buffer of two, the least the code allows,
overflows with every second event. Three items over one host and no host, with limits
2 and 1, make workers wait for the permit, for the host's only worker, and for neither. One edit by people lands
between any two steps. In `registry` the third path lies in the first
member's directory, which is where paths collide, and two edits can both stage a change and commit it. `CHECK_DEADLOCK FALSE` is set where a bounded
system stops once its requests are used up.

The three parts of `commands` share the members and no state; each behaviour has one of them. Two turns let a
second operation find what the first, or people, left; two members and the root give the partial outcomes, and the six shapes
of a target all the branches of `push_member`. One turn is a switch of HEAD, so the pull whose HEAD is taken behind the
remote's between its look and its integration is among the behaviours.

The type invariants are proved, each for any values of the constants, so no run spends a property on
one; each holds in its runs and can be added to a configuration. `OneHolder`, `BufferBounded` and
`NoLostWakeup` are proved and not run either: the runs check `ImplementsMutatorLock` and `WaitComesBack`,
which they are part of, and `NoSilentGap`.

`CallEnds` of `parmap` says what the code can promise: the call returns or panics,
unless as many calls of `f` panicked as there were permits. Then no permit is ever
released, and the workers that are left, and the caller, wait for ever.

### What the violations show

* **`stash_selected`** (`handle_stash.rs:229`). A restore reads the bundle before
  it has the lock and writes the whole copy back. `dev-docs/GWZRequirements.md:621`: "Stash
  apply, pop, and drop MUST update only the selected bundle member records."
* **`sync_detached`** (`gitbackend.rs:598`). `fast_forward` compares HEAD with the target and
  moves the named branch. After materialize has detached HEAD because the branch diverged, HEAD
  is behind, the branch is not, and the pull drops the branch's own commits.
  `dev-docs/GWZDesign.md:338`: "so that local work is never orphaned".
* **`sync_rollback`** (`handle_materialize.rs:343`). The rollback removes every path that was
  to be cloned, one that the clone refused because files were there included. The comment
  above it: "failed = nothing changed for the clones this op created".

Divergences no run is spent on:

* `branch_delete` (`gitbackend.rs:905`) only refuses the branch HEAD is on and deletes one that is merged
  nowhere, where `dev-docs/GWZRequirements.md:578` asks to "reject delete requests that require force".
* After a panic of a handler (`push_event.rs:245`) nobody stores a result or wakes a waiter, and `wait` sleeps
  for ever; `dev-docs/GWZDesign.md:1304`: "`wait(operation_id)` waits for the final `OperationResult`."
  `WaitComesBack` therefore excepts the operation that panicked.
* `push` (`gitbackend.rs:1081`) asks git2 for no report on the refs, so a ref the remote refuses counts as pushed.
  `ReportTellsPush` therefore excepts `refused`.
* `docs/TagManagement.md:45` has tags created "in root and selected member repos"; `handle_tag` goes through the members only.
* Pull changes the root, and writes its lock, before the members' preflight may reject the operation
  (`PullStops` between the two), where `dev-docs/GWZRequirements.md:510` has pull "reject the whole operation before mutation".
* The root has its own `sync_detached`. If HEAD is switched to a commit behind the remote's after the pull read the
  branch (`pull_head_member_preflight.rs:193`), `merge_upstream` finds a fast-forward (`gitbackend.rs:649`), `fast_forward`
  sets the branch that was read to the remote's commit (`:622`), and the branch's own commits are dropped, under a merge
  policy as under the repair of the lock, which runs without one (`dev-docs/GWZRequirements.md:509`: "By default, pull-to-head
  MUST use fast-forward-only behavior"). `RootKeepsWork` names this case and allows it nothing beyond: the branch is then
  exactly the remote's, which has all HEAD had.
* `create workspace` writes an empty lock file (`handle_create_repo.rs:50`; `src/workspace_ops/tests/g02.rs:25` asserts it),
  where `dev-docs/GWZDesign.md:350` says it "does not write workspace/gwz.lock.yml unless explicitly requested" and
  `:1460` has it "optionally" created. `Registry` writes the lock as the code does; `RecordsAgree` is about the members a lock
  records and takes an empty lock and no lock alike.
* A tag operation passes over a selected member without a repository, or without a commit (`handle_tag.rs:58` and `:133`), where
  `dev-docs/GWZRequirements.md:549` has it "fail preflight when selected members are not tag-capable unless caller policy
  explicitly permits skipping unsupported members". `TagReachesEveryMember` speaks of the members that have a repository.
* A pull that changed the root leaves it dirty, since the lock has a new time in it, and the next pull is refused until that
  is committed. When the remote brings a member with its manifest and the lock is in conflict, the lock that is
  fallen back on lacks that member; if it is not there yet (`Observable`) the merge is left half settled.

### Fairness

`Stash!FairSpec`: a process that began keeps running unless it dies. `OperationRuntime!FairSpec`:
the scheduler runs threads that can run, and a handler returns in the end (`HandlerReturns`
is weakly fair; a panic disables it). `ParMapPerHost!FairSpec` and `EmitSpec`: workers and the joining
caller run (a worker of `EmitSpec` that changes neither its place nor its event does nothing, so fairness is stated of these two). All are weak fairness of a thread's own next step: nothing assumes
that a contended lock or permit is ever won, because `try_acquire` does not wait and a permit that stays
free enables its waiter continuously. `BranchOps`, `Sync`, `Registry`, `LockFile`, `Publish`, `Staging` and `RootPull` are checked for safety only.

## Proofs

Every property of a passing run is also a theorem, except the three liveness properties. A theorem of the
table names its property in brackets where the two have different names.

| module | theorem | along which argument |
|---|---|---|
| `LockFile_proofs` | `LockFileInvariants` | one inductive invariant: types, all descriptors on the path's inode, one holder. A second holder would need a descriptor on another inode or on one that is not locked. |
| | `LockFileRefines` [`ImplementsMutatorLock`] | under the invariant every step is `Acquire`, `Release` or a stutter of `MutatorLock`. |
| `Stash_proofs` | `TypeCorrect` | inductive with `WorkInMemory`, one lemma per action. |
| | `Exclusion` [`MutatorExclusion`] | strengthened: the guard is alive exactly in the section. |
| | `ConsumedAreGone`, `RestoreTakesItsOwn` [`ConsumedIsGone`, `RestoreMatchesBundle`] | `Payloads`: an object is given once, and every copy of a bundle, in the file or in the memory of any process, is `Truthful`: the object it names is one of its own bundle and gone once recorded as consumed. Objects do not come back, so a stale copy that is written late stays true. |
| | `PushDecides` [`PushEndsDecided`], with fresh ids | `Fresh`: ids from the clock on are unused, no two pushes share one, and no member a push has yet to save has an entry of its id; `Decides`: members the push is done with are decided in its memory, and its file is that memory, or gone, while no member is in work. |
| | `PayloadsOnRecord` [`PayloadOnRecord`], with fresh ids and one process | `Recorded`: every copy has every payload of its bundle on record, or has its member marked as saving. |
| | `RemovalsLeaveNoOrphan` [`RemovalLeavesNoOrphan`], with fresh ids and no ignored file taken | `AllSettled`: no copy calls a member finished whose payload its push has yet to make (`Due`), and what a copy calls saved is the payload it names; so who finds its copy complete, however stale, removes the file of a bundle without payloads. |
| | `LoneRestoresAreConfined` [`OnlySelectedRecordsUpdated`], with one process | `AllUpToDate`: what a restore remembers of the records it leaves alone is what the file has, unless the file is gone. |
| `OperationRuntime_proofs` | `BoundedHistory` | a full buffer is emptied before an append; `Capacity >= 2` follows from its definition. |
| | `WakeupsAreKept` | a sleeper's record has no result; `Complete` wakes all that sleep on its record. |
| | `TypeCorrect` | the typing part of the same invariant. |
| | `ResultComesLast` [`ResultAfterFinished`] | after `finished` nothing emits to the record, so its last event stays the last. |
| | `GapsAreTold` [`NoSilentGap`] | every buffer is an interval of numbers up to its counter, which begins with the first event of all or with a reset (`Whole`). What is kept from a cursor on is a suffix of the buffer. |
| `EventEmitter_proofs` | `GlobalCeiling` [`GlobalCap`] | permits and running workers add up to at most the limit, with the library's facts on cardinalities. |
| | `TypeCorrect` | the cursors, slots and the caller by themselves; that permits stay within the limit follows from the count above. |
| | `HostCeiling` [`HostCap`] | the workers of a host are numbered from 1 to at most its limit: an injection, and no semaphore. |
| | `ItemsOnce` [`EachItemOnce`] | `Items`: a queue has each item of its group once; a cursor passes an item when one worker has it, and from then on the item is in that worker's hands or has its result; a worker is done when its queue is passed. |
| | `EmitImplementsCall` | every action is one of `ParMapPerHost` or leaves its variables alone. |
| | `CeilingWhileEmitting` [`GlobalCap`] | from the refinement and `GlobalCeiling`. |
| | `NumbersAreComplete` [`NumbersComplete`] | the numbers below the counter are what was delivered, what is on its way (no two alike) and the last; a panic, the only way to lose one, keeps the call from returning, and after the join nobody is inside `f`. |
| | `MembersInOrder`, `AllMembersHeard` [`MemberOrder`, `EveryMemberHeard`] | from `Items`, through the refinement: an item is one worker's, so what was heard of it follows that worker's place in `f` (`Told`), and the numbers it delivers rise (`Rising`). |
| `BranchOps_proofs` | `TypeCorrect`, `HeadHasBranch` [`HeadResolves`] | inductive with the processes' locals (`Locals`); delete spares HEAD's branch, and a create is taken back only after HEAD has left it. |
| | `WorkOnBranchesIsKept` [`NoBranchLosesWork`] | call by call of `MemberRepo`: what each may do to the refs of a repository. |
| | `LockIsRight` [`LockFollowsMembers`] | while nobody else was at work, the lock with the holder's observations in it is right (`Followed`). |
| | `RollbackRestores` [`RollbackIsComplete`] | for a create that was alone since its plan, a branch it made was not there before, and one it did not make, or took back, is as planned (`Undoing`). |
| `Sync_proofs` | `TypeCorrect` | `Repos` and `Locals`: types, every repository sound (HEAD's branch is there), every remote with its trunk. |
| | `NoWorkIsLost` [`WorkIsKept`] | from the phases: a reset is planned only when asked for, a move only onto what was fetched; every other call adds to the branch HEAD is on. |
| | `RejectionIsHarmless` [`RejectedPullChangesNothing`] | while nobody else is at work, validation changes nothing, and the preflight after it only what was fetched (`Validated`, `Prepared`). |
| | `LockTellsTheTruth` [`LockRecordsOutcome`] | every member that is done was observed as it is (`Applied`, `Captured`, `Landed`). |
| | `TargetsAreReached`, `NoCloneStays` [`MaterializeLandsOnTarget`, `FailedMaterializeLeavesNoClone`] | `Landed`: who is done is on its target, and what is to be cloned is what was no repository. |
| | `RepositoriesStay` | the same: a rollback takes clones, and files that were in the way, and no repository. |
| `Registry_proofs` | `LockStaysWithin` [`LockWithinManifest`] | while operations do not overlap, one is under way; by its phase, what it carries and has staged fits: its copy of the manifest has every member of the lock that is there and of the lock it will publish. The manifest goes first, so either way the lock stays within. |
| | `TypeCorrect`, `OwnArtifacts` [`PublishesOwnArtifact`] | `Typed`, and that what lies under a process's temporary names from its `Stage` to its renames is its own copy. |
| | `FilesAgree` [`RecordsAgree`] | while nothing was cut short, manifest and lock record the same members between operations, and by its phase an operation knows what is missing (`Agreed`). |
| | `LiveCommits`, `FailedInit` [`RecordsLiveCommits`, `FailedInitLeavesNothing`] | for an operation nobody came between, what it observed is still so, and what it made is on the paths it will remove (`Solo`). |
| `Commands_proofs` | `PublishTypeCorrect` | the typing part of the invariant below. |
| | `NothingPublishedIsLost` [`PublishedOnlyGrows`] | from the types alone: a push that is accepted and not forced contains what was there. |
| | `ReadyBefore`, `ReportIsTrue` [`ReadyBeforeAnyMoves`, `ReportTellsPush`] | while nobody else is at work, targets and remotes that were not pushed are as they were found, what was found ready still is, and a remote differs from its start only where a push was sent on the branch that was found. |
| | `TagsReachAll` [`TagReachesEveryMember`] | every member a tag operation has passed meets the request, and the later ones are as they were. |
| | `StagesWhatIsCovered` [`StagedWhereOwned`] | paths: what is under a path is the path and a rest, and of two paths above a third one is above the other. So every file has one owner (`SomeOwner`, `OneOwner`), and the routes of a request reach, in the repository of a file, what the words of the request cover (`RoutesReachCovered`). The invariant: a repository has all its routes before it or none, and has staged what is covered exactly when it had its turn. |
| | `RootTypeCorrect` | every history has a version of the lock, and only versions that exist; so the lock of a commit is a lock. Versions are found by a maximum, which well-founded induction gives. |
| | `PullKeepsRootWork` [`RootKeepsWork`] | each way to integrate adds to what HEAD is on; `fast_forward` sets the branch, which adds to it if HEAD was on it, and else is the one exception. |
| | `RepairIsConfined` [`RepairTakesOnlyLock`] | the commit that was looked at stays in the branch, so what a merge into it takes is within what was looked at: decided before, still so. |
| | `PullSettlesRoot` [`RootSettled`] | while nobody else is at work the pull goes from "fetched" by way of an integrated branch to a lock that was just observed. |

They rest on the named assumptions of the modules (`NobodyAssumption` and its like), which TLC evaluates in the
runs, and hold for any number of processes, members, items, paths and operations, and any capacity or limit.
Four of `Stash_proofs` have hypotheses of their own, each of them needed:

* Fresh ids (`PushDecides`, `PayloadsOnRecord`, `RemovalsLeaveNoOrphan`). Two pushes that take the same id, which is made of
  the clock, write one file, and each overwrites what the other recorded.
* One process at a time (`PayloadsOnRecord`, `LoneRestoresAreConfined`). A second process may write back a copy of a bundle that it read before the
  first one restored from it; that is what `stash_selected` shows. The one process may die at any step and another follow it.
* No push that takes an ignored file (`RemovalsLeaveNoOrphan`, `NoneIgnored`): none is asked to, or there are none. The attempt to prove it without found the reason: a member that has ignored changes
  only is not dirty, so the push registers it as empty before it has the lock (`handle_stash.rs:107`, `:424`). A
  restore of this bundle that reads the file now (`:229`) has a copy in which that member needs nothing. The push gets
  the lock and saves the ignored files (`:467`), the restore gets it next, finds its copy complete and removes the
  bundle file (`:318`): the payload stays in the member without a bundle. The members of the runs have no ignored files, so the runs meet the hypothesis; with them TLC finds these eleven states.

Invariants were checked by TLC before they were proved. Recursion is kept from the proofs in two ways: an
order is chosen and not computed (`Indices`, `From`), and of the one recursive function that is left, `Normalized`, only
its type is needed; that is shown by induction on the index as a statement about the least element of a set (`UpTo`).

Only model-checked: `LockComesFree`, `WaitComesBack` and `CallEnds`, since fairness and ENABLED are beyond the prover, and
the violations, which are counterexamples. What stands for the first two in the proofs is their safety half: `Exclusion` and `WakeupsAreKept`.

## What the models abstract

* All reads of one planning pass are one step; members are visited in any order.
* A Git call is atomic, with the look at HEAD and status that follows it. A stash push that
  fails saved nothing; a restore that conflicts leaves the worktree and the entry as they were.
* A file is replaced atomically (`artifact::write_atomic`). A write that fails ends the
  operation like `Die`.
* `Registry`: a member's id is its path; the exclude block and the index change in one step; the
  planning reads of an operation are one step; the bootstrap files, the tests for a workspace in a
  parent directory and dry runs are left out. A temporary file that a dead process left stays, as nothing reads it.
* Dry runs change nothing and are left out, as are messages, timestamps and progress.
* Restores take no `preserve_index`; staged changes come back as staged.
* Generated stash ids are distinct when `FreshIds` holds.
* A request without a stash id names one of the bundles an id can name.
* A fresh clone has the commits its remote's branches have.
* `Sync`: remotes differ by their branches only; snapshots are one, taken once; tags and local-only members
  are left out.
* `Publish`: a remote is a map of branches and tags; commits are sets of changes as in `MemberRepo`; the order of the
  members of a tag operation is any.
* `Staging`: a file is changed or staged; the members of the manifest do not contain one another; the clock, file
  modes and ignored files are left out; the root is a repository (a member need not be, and staging in it then fails).
* `RootPull`: the members' observation is one step, their pull another; versions of the lock record one value
  per member. A Git call is one step, so HEAD is switched between two calls and not within one; where HEAD is off the
  branch, detached and on another branch are one case. People add commits and give up merges; a branch they reset
  to something older is left out, as is what they do with a rebase that stopped but to give it up or commit. A lock file changed
  in the worktree is in the way of a fast-forward only if the commits differ in it, and other files may be or not (`dirty`).

## Not modelled

* `commit --all`; clone of a workspace, which is a clone and then the
  lock-target materialize of `Sync`; the filters of lists.
* Status, `ls` and the listings: they read what the other modules model and change nothing.
* `MemberLockManager` (`operation/membermutationguard.rs`): no handler uses it.
* `protocol/generated.rs`, `protocol/convert.rs`, `cbor.rs`, `model/mod.rs`: generated types and conversions without
  control.
* The bootstrap files of a new workspace, submodules, remotes other than the one that is used, and credentials.
* A second gwz process in `Sync` and in `RootPull`: pull, materialize and capture take no lock, each reads the lock
  file, changes and writes it, and of two that overlap the later one wins. This is plain from the code
  (`pull_head_member_preflight.rs:58` and `:138`) and listed among the hazards without a property.

## How it grew

The mutator lock and its file; stash; the runtime; the parallel map; the repository of a member; branch operations; pull,
materialize and their composition; the registry of members with the artifact store; then the event emitter over the
parallel map, selection, staging, push and tag, and the pull of the root; then the proofs, one component after the
other. What would come next: a branch operation specified as "all selected members or none", which `BranchOps`
implements while nothing fails, with the refinement proved; and the theorems of `Sync`, `Publish` and `RootPull` that
speak of an operation while nobody else is at work, for two processes whose members are disjoint.
