------------------------------ MODULE Registry ------------------------------
(***************************************************************************)
(* Who belongs to a workspace: gwz.yml names the members, gwz.lock.yml     *)
(* records the commit of each.  The operations that write the two files    *)
(* take no mutator lock.  Each reads what it needs, acts on the members,   *)
(* stages its files under temporary names and renames them into place.     *)
(* Between any two steps other processes and people act, a call fails or   *)
(* the process dies.  A member's id stands for its path.                   *)
(***************************************************************************)
EXTENDS Naturals

CONSTANTS
  Process,
  Path,         \* where members may be
  Inside,       \* pairs of paths, the first in the directory of the second
  Starts,       \* the members at first, or NoFile where there is no workspace
  MaxCommits,   \* bound on the commits of a repository
  MaxRequests,  \* bound on the operations
  MaxEdits,     \* bound on what people do
  MaxStops,     \* bound on the deaths and failed calls
  NoFile,       \* a file that is not there
  Absent,       \* no path, or an empty directory
  Files         \* a directory with files in it that is no repository

Repo == [commit : 0..MaxCommits, staged : BOOLEAN, remote : BOOLEAN]
Maps(S) == UNION {[D -> S] : D \in SUBSET Path}

\* A map with one entry, and the entries of f put into g.
Entry(m, v) == [n \in {m} |-> v]
Inserted(f, g) == [m \in DOMAIN f \cup DOMAIN g |-> IF m \in DOMAIN f THEN f[m] ELSE g[m]]

ASSUME RegistryAssumption ==
  /\ Inside \subseteq Path \X Path
  /\ Starts \subseteq {NoFile} \cup SUBSET Path
  /\ NoFile \notin Maps(BOOLEAN) /\ NoFile \notin Maps(0..MaxCommits)
  /\ \A S \in SUBSET Path : NoFile # S
  /\ Absent # Files /\ Absent \notin Repo /\ Files \notin Repo
  /\ MaxCommits \in Nat \ {0}
  /\ MaxRequests \in Nat /\ MaxEdits \in Nat /\ MaxStops \in Nat

VARIABLES
  manifest,  \* gwz.yml: for each member, whether its remotes are recorded
  lock,      \* gwz.lock.yml: for each member, the commit recorded
  temp,      \* the staged files, by their names
  place,     \* what is at each path
  root,      \* the root repository: the files in its index and its HEAD, and
             \* the paths it ignores
  op,        \* the operation of each process
  requests, edits, stops,
  overlapped,  \* history: two operations have been under way at once
  alone        \* history: neither an operation nor people came in between

vars == <<manifest, lock, temp, place, root, op, requests, edits, stops,
          overlapped, alone>>

Kinds == {"create", "init", "create_repo", "add", "repo_sync", "capture", "commit"}
AtRest == {"ok", "rejected", "stopped"}
Phases == AtRest \cup {"clone", "rollback", "make", "commit", "merge", "stage",
                       "manifest", "lock", "boundary", "root"}

WritesManifest(k) == k \in {"create", "init", "create_repo", "add", "repo_sync"}
WritesLock(k) == k # "repo_sync"

\* Mutant: every process stages under one name.
TempNameFixed(p) == CHOOSE q \in Process : TRUE

\* A temporary name is the target's with the process and a counter in it.
TempName(p) == p

Operation ==
  [phase : Phases, kind : Kinds, paths : SUBSET Path,
   root : BOOLEAN,            \* commit: whether the root is selected
   todo : SUBSET Path,        \* paths to clone, to commit or to remove
   failed : BOOLEAN,          \* init: whether a clone failed
   committed : BOOLEAN,       \* commit: whether a member was
   mf : Maps(BOOLEAN),        \* its copy of the manifest
   lk : Maps(0..MaxCommits),  \* its copy of the lock
   seen : Maps(0..MaxCommits)]  \* the commits it observed

TypeOK ==
  /\ manifest \in {NoFile} \cup Maps(BOOLEAN)
  /\ lock \in {NoFile} \cup Maps(0..MaxCommits)
  /\ temp \in [manifest : [Process -> {NoFile} \cup Maps(BOOLEAN)],
               lock : [Process -> {NoFile} \cup Maps(0..MaxCommits)]]
  /\ place \in [Path -> {Absent, Files} \cup Repo]
  /\ root.ignored \subseteq Path
  /\ op \in [Process -> Operation]
  /\ requests \in 0..MaxRequests /\ edits \in 0..MaxEdits /\ stops \in 0..MaxStops
  /\ overlapped \in BOOLEAN /\ alone \in [Process -> BOOLEAN]

Nothing == [phase |-> "ok", kind |-> "create", paths |-> {}, root |-> FALSE, todo |-> {},
            failed |-> FALSE, committed |-> FALSE, mf |-> <<>>, lk |-> <<>>, seen |-> <<>>]

-----------------------------------------------------------------------------
(* Paths and maps. *)

IsRepo(m) == place[m] \notin {Absent, Files}
Under(m) == {m} \cup {n \in Path : <<n, m>> \in Inside}
Free(m) == \A n \in Under(m) : place[n] = Absent
Removed(m) == [n \in Path |-> IF n \in Under(m) THEN Absent ELSE place[n]]
Collide(m, n) == m \in Under(n) \/ n \in Under(m)
NoneCollide(S) == \A m, n \in S : m # n => ~Collide(m, n)

LockOrEmpty == IF lock = NoFile THEN <<>> ELSE lock
Members == DOMAIN manifest

Fresh == [commit |-> 0, staged |-> FALSE, remote |-> FALSE]
Cloned == [commit |-> 1, staged |-> FALSE, remote |-> TRUE]

\* What is recorded of the members S: the live commit, or the record of one
\* that is not there.
Observed(S, copy) == [m \in S |-> IF IsRepo(m) THEN place[m].commit ELSE copy[m]]

Init ==
  /\ \E s \in Starts :
       IF s = NoFile
         THEN /\ manifest = NoFile /\ lock = NoFile
              /\ place = [m \in Path |-> Absent]
              /\ root = [index |-> <<NoFile, NoFile>>, head |-> <<NoFile, NoFile>>,
                         ignored |-> {}]
         ELSE /\ manifest = [m \in s |-> TRUE] /\ lock = [m \in s |-> 1]
              /\ place = [m \in Path |-> IF m \in s THEN Cloned ELSE Absent]
              /\ root = [index |-> <<manifest, lock>>, head |-> <<manifest, lock>>,
                         ignored |-> s]
  /\ temp = [manifest |-> [p \in Process |-> NoFile], lock |-> [p \in Process |-> NoFile]]
  /\ op = [p \in Process |-> Nothing]
  /\ requests = 0 /\ edits = 0 /\ stops = 0
  /\ overlapped = FALSE /\ alone = [p \in Process |-> FALSE]

Running(p) == op[p].phase \notin AtRest

\* The process begins an operation; it is alone if no other is running, and
\* those that are no longer are.
Begin(p, o) ==
  /\ ~Running(p) /\ requests < MaxRequests
  /\ requests' = requests + 1
  /\ op' = [op EXCEPT ![p] = o]
  /\ overlapped' = (overlapped \/ \E q \in Process : Running(q))
  /\ alone' = [q \in Process |-> q = p /\ ~\E r \in Process : Running(r)]
  /\ UNCHANGED <<manifest, lock, temp, place, root, edits, stops>>

Goes(p, o) ==
  /\ op' = [op EXCEPT ![p] = o]
  /\ UNCHANGED <<requests, edits, stops, overlapped, alone>>

Ends(p, result) == Goes(p, [Nothing EXCEPT !.phase = result])

-----------------------------------------------------------------------------
(* What the operations read and check before they act. *)

CreateWorkspace(p) ==
  /\ manifest = NoFile
  /\ Begin(p, [Nothing EXCEPT !.phase = "stage"])

InitFromSources(p, S) ==
  /\ manifest = NoFile
  /\ S # {} /\ NoneCollide(S) /\ \A m \in S : Free(m)
  /\ Begin(p, [Nothing EXCEPT !.phase = "clone", !.kind = "init", !.paths = S, !.todo = S])

CreateRepo(p, m) ==
  /\ manifest # NoFile
  /\ m \notin Members /\ Free(m)
  /\ Begin(p, [Nothing EXCEPT !.phase = "make", !.kind = "create_repo", !.paths = {m},
                              !.mf = manifest])

AddExistingRepo(p, m) ==
  /\ manifest # NoFile
  /\ m \notin Members /\ IsRepo(m)
  /\ NoneCollide(Members \cup {m})
  /\ Begin(p, [Nothing EXCEPT !.phase = "merge", !.kind = "add", !.paths = {m},
                              !.mf = Inserted(Entry(m, place[m].remote), manifest),
                              !.seen = Entry(m, place[m].commit)])

\* Every member selected has to be a repository, and one of them to have a
\* remote that is not recorded.
RepoSync(p, S) ==
  /\ manifest # NoFile
  /\ S \subseteq Members /\ \A m \in S : IsRepo(m)
  /\ \E m \in S : place[m].remote /\ ~manifest[m]
  /\ Begin(p, [Nothing EXCEPT !.phase = "stage", !.kind = "repo_sync", !.paths = S,
                 !.mf = Inserted([m \in S |-> manifest[m] \/ place[m].remote], manifest)])

Capture(p, S) ==
  /\ manifest # NoFile /\ lock # NoFile
  /\ S \subseteq Members \cap DOMAIN lock /\ (S = {} => Members = {})
  /\ Begin(p, [Nothing EXCEPT !.phase = "merge", !.kind = "capture", !.paths = S,
                              !.seen = Observed(S, lock)])

\* Not one member is committed unless all that are selected are there.
Commit(p, S, withRoot) ==
  /\ manifest # NoFile /\ lock # NoFile
  /\ S \subseteq Members \cap DOMAIN lock /\ (S = {} => withRoot)
  /\ \A m \in S : IsRepo(m)
  /\ Begin(p, [Nothing EXCEPT !.phase = "commit", !.kind = "commit", !.paths = S,
                              !.todo = S, !.root = withRoot, !.lk = lock])

-----------------------------------------------------------------------------
(* What they do to the members. *)

\* The clones run in parallel; one fails when its path is taken, the source is
\* out of reach, or what it cloned cannot be read.
Clone(p, m) ==
  /\ op[p].phase = "clone" /\ m \in op[p].todo
  /\ \/ Free(m) /\ place' = [place EXCEPT ![m] = Cloned]
     \/ UNCHANGED place
  /\ LET rest == [op[p] EXCEPT !.todo = @ \ {m}] IN
     \/ /\ place' # place
        /\ Goes(p, [rest EXCEPT !.mf = Inserted(Entry(m, TRUE), @),
                                !.lk = Inserted(Entry(m, Cloned.commit), @)])
     \/ Goes(p, [rest EXCEPT !.failed = TRUE])
  /\ UNCHANGED <<manifest, lock, temp, root>>

\* Mutant: only the clones that succeeded are rolled back.
AfterClonesSucceeded(p) ==
  /\ op[p].phase = "clone" /\ op[p].todo = {}
  /\ Goes(p, IF op[p].failed
               THEN [op[p] EXCEPT !.phase = "rollback", !.todo = DOMAIN op[p].mf]
               ELSE [op[p] EXCEPT !.phase = "stage"])
  /\ UNCHANGED <<manifest, lock, temp, place, root>>

AfterClones(p) ==
  /\ op[p].phase = "clone" /\ op[p].todo = {}
  /\ Goes(p, IF op[p].failed
               THEN [op[p] EXCEPT !.phase = "rollback", !.todo = op[p].paths]
               ELSE [op[p] EXCEPT !.phase = "stage"])
  /\ UNCHANGED <<manifest, lock, temp, place, root>>

\* A failed init removes every path it was to clone to.
RemoveClone(p, m) ==
  /\ op[p].phase = "rollback" /\ m \in op[p].todo
  /\ place' = Removed(m)
  /\ IF op[p].todo = {m} THEN Ends(p, "rejected")
                         ELSE Goes(p, [op[p] EXCEPT !.todo = @ \ {m}])
  /\ UNCHANGED <<manifest, lock, temp, root>>

\* The paths are compared with each other once the repository is there.
MakeRepo(p, m) ==
  /\ op[p].phase = "make" /\ m \in op[p].paths
  /\ IF IsRepo(m)
       THEN Ends(p, "rejected") /\ UNCHANGED place
       ELSE /\ place' = [place EXCEPT ![m] = Fresh]
            /\ IF NoneCollide(DOMAIN op[p].mf \cup {m})
                 THEN Goes(p, [op[p] EXCEPT !.phase = "merge",
                                            !.mf = Inserted(Entry(m, Fresh.remote), @),
                                            !.seen = Entry(m, Fresh.commit)])
                 ELSE Ends(p, "rejected")
  /\ UNCHANGED <<manifest, lock, temp, root>>

\* A member with nothing staged is passed over; one that is gone ends the commit.
CommitMember(p, m) ==
  /\ op[p].phase = "commit" /\ m \in op[p].todo
  /\ \/ ~IsRepo(m) /\ Ends(p, "rejected") /\ UNCHANGED place
     \/ /\ IsRepo(m) /\ (place[m].staged => place[m].commit < MaxCommits)
        /\ place' = IF place[m].staged
                      THEN [place EXCEPT ![m].commit = @ + 1, ![m].staged = FALSE]
                      ELSE place
        /\ Goes(p, [op[p] EXCEPT !.todo = @ \ {m}, !.committed = @ \/ place[m].staged])
  /\ UNCHANGED <<manifest, lock, temp, root>>

\* Mutant: the lock is written from what it held before the commits.
AfterCommitsUnobserved(p) ==
  /\ op[p].phase = "commit" /\ op[p].todo = {}
  /\ Goes(p, IF op[p].committed
               THEN [op[p] EXCEPT !.phase = "merge", !.seen = op[p].lk]
               ELSE [op[p] EXCEPT !.phase = "root"])
  /\ UNCHANGED <<manifest, lock, temp, place, root>>

AfterCommits(p) ==
  /\ op[p].phase = "commit" /\ op[p].todo = {}
  /\ Goes(p, IF op[p].committed
               THEN [op[p] EXCEPT !.phase = "merge",
                                  !.seen = Observed(op[p].paths, op[p].lk)]
               ELSE [op[p] EXCEPT !.phase = "root"])
  /\ UNCHANGED <<manifest, lock, temp, place, root>>

\* The root goes last, with what its index holds.
CommitRoot(p) ==
  /\ op[p].phase = "root"
  /\ root' = IF op[p].root THEN [root EXCEPT !.head = root.index] ELSE root
  /\ Ends(p, "ok")
  /\ UNCHANGED <<manifest, lock, temp, place>>

-----------------------------------------------------------------------------
(* How they write the two files. *)

\* What was observed goes into the lock as it is by now.
MergeLock(p) ==
  /\ op[p].phase = "merge"
  /\ Goes(p, [op[p] EXCEPT !.phase = "stage", !.lk = Inserted(op[p].seen, LockOrEmpty)])
  /\ UNCHANGED <<manifest, lock, temp, place, root>>

\* Every file is staged before any is published, the manifest before the lock.
Stage(p) ==
  /\ op[p].phase = "stage"
  /\ LET k == op[p].kind IN
     /\ temp' = [manifest |-> IF WritesManifest(k)
                                THEN [temp.manifest EXCEPT ![TempName(p)] = op[p].mf]
                                ELSE temp.manifest,
                 lock |-> IF WritesLock(k)
                            THEN [temp.lock EXCEPT ![TempName(p)] = op[p].lk]
                            ELSE temp.lock]
     /\ Goes(p, [op[p] EXCEPT !.phase = IF WritesManifest(k) THEN "manifest" ELSE "lock"])
  /\ UNCHANGED <<manifest, lock, place, root>>

\* Mutant: the lock is published before the manifest.
PublishLockFirst(p) ==
  /\ op[p].phase = "manifest" /\ temp.manifest[TempName(p)] # NoFile
  /\ IF WritesLock(op[p].kind) /\ lock # temp.lock[TempName(p)]
       THEN /\ lock' = temp.lock[TempName(p)]
            /\ Goes(p, op[p])
            /\ UNCHANGED <<manifest, temp>>
       ELSE /\ manifest' = temp.manifest[TempName(p)]
            /\ temp' = [temp EXCEPT !.manifest[TempName(p)] = NoFile]
            /\ IF WritesLock(op[p].kind) THEN Goes(p, [op[p] EXCEPT !.phase = "lock"])
                                         ELSE Ends(p, "ok")
            /\ UNCHANGED lock
  /\ UNCHANGED <<place, root>>

PublishManifest(p) ==
  /\ op[p].phase = "manifest" /\ temp.manifest[TempName(p)] # NoFile
  /\ manifest' = temp.manifest[TempName(p)]
  /\ temp' = [temp EXCEPT !.manifest[TempName(p)] = NoFile]
  /\ IF WritesLock(op[p].kind) THEN Goes(p, [op[p] EXCEPT !.phase = "lock"]) ELSE Ends(p, "ok")
  /\ UNCHANGED <<lock, place, root>>

PublishLock(p) ==
  /\ op[p].phase = "lock" /\ temp.lock[TempName(p)] # NoFile
  /\ lock' = temp.lock[TempName(p)]
  /\ temp' = [temp EXCEPT !.lock[TempName(p)] = NoFile]
  /\ Goes(p, [op[p] EXCEPT !.phase = "boundary"])
  /\ UNCHANGED <<manifest, place, root>>

\* Mutant: the root ignores only what the operation observed.
SyncBoundaryObserved(p) ==
  /\ op[p].phase = "boundary"
  /\ root' = [root EXCEPT !.ignored = DOMAIN op[p].seen, !.index = <<manifest, lock>>]
  /\ IF op[p].kind = "commit" THEN Goes(p, [op[p] EXCEPT !.phase = "root"]) ELSE Ends(p, "ok")
  /\ UNCHANGED <<manifest, lock, temp, place>>

\* The root ignores the members of the lock that was written, and the two
\* files are added to its index.
SyncBoundary(p) ==
  /\ op[p].phase = "boundary"
  /\ root' = [root EXCEPT !.ignored = DOMAIN op[p].lk, !.index = <<manifest, lock>>]
  /\ IF op[p].kind = "commit" THEN Goes(p, [op[p] EXCEPT !.phase = "root"]) ELSE Ends(p, "ok")
  /\ UNCHANGED <<manifest, lock, temp, place>>

-----------------------------------------------------------------------------
(* Failures and people. *)

\* The process dies, or a call fails and the operation returns its error:
\* either leaves everything as it is.
Stop(p) ==
  /\ Running(p) /\ stops < MaxStops
  /\ stops' = stops + 1
  /\ op' = [op EXCEPT ![p] = [Nothing EXCEPT !.phase = "stopped"]]
  /\ UNCHANGED <<manifest, lock, temp, place, root, requests, edits, overlapped, alone>>

\* People stage a change, commit, configure a remote, remove a directory, or
\* put files or a repository where nothing was.
Edit(m) ==
  /\ edits < MaxEdits
  /\ edits' = edits + 1
  /\ \/ /\ IsRepo(m)
        /\ \/ place' = [place EXCEPT ![m].staged = TRUE]
           \/ place' = [place EXCEPT ![m].remote = TRUE]
           \/ /\ place[m].commit < MaxCommits
              /\ place' = [place EXCEPT ![m].commit = @ + 1]
           \/ place' = Removed(m)
     \/ /\ Free(m)
        /\ \E new \in {Files, Fresh, Cloned} : place' = [place EXCEPT ![m] = new]
  /\ alone' = [p \in Process |-> FALSE]
  /\ UNCHANGED <<manifest, lock, temp, root, op, requests, stops, overlapped>>

Request(p) ==
  \/ CreateWorkspace(p)
  \/ \E S \in SUBSET Path : InitFromSources(p, S) \/ RepoSync(p, S) \/ Capture(p, S)
                            \/ \E withRoot \in BOOLEAN : Commit(p, S, withRoot)
  \/ \E m \in Path : CreateRepo(p, m) \/ AddExistingRepo(p, m)

Work(p) ==
  \/ \E m \in Path : Clone(p, m) \/ RemoveClone(p, m) \/ MakeRepo(p, m) \/ CommitMember(p, m)
  \/ AfterClones(p) \/ AfterCommits(p) \/ CommitRoot(p)
  \/ MergeLock(p) \/ Stage(p) \/ PublishManifest(p) \/ PublishLock(p) \/ SyncBoundary(p)

Next ==
  \/ \E p \in Process : Request(p) \/ Work(p) \/ Stop(p)
  \/ \E m \in Path : Edit(m)

Spec == Init /\ [][Next]_vars

-----------------------------------------------------------------------------
(* Properties. *)

\* A crash between the two renames "can then leave at worst a stale lock,
\* never a lock referencing a member the manifest doesn't have"
\* (write_manifest_and_lock).  It takes operations one after the other: two
\* that overlap each write the manifest they read.
LockWithinManifest ==
  ~overlapped => \/ lock = NoFile
                 \/ manifest # NoFile /\ DOMAIN lock \subseteq Members

\* The members the lock records.  Of no members it may be an empty file, which
\* is what create workspace writes (handle_create_repo.rs:50), or no file, as
\* dev-docs/GWZDesign.md:347-350 has it: the properties take both alike.
OnRecord == IF lock = NoFile THEN {} ELSE DOMAIN lock

\* Unless an operation was cut short or overlapped another, the manifest, the
\* lock, the root's index and what the root ignores agree on the members
\* whenever none is under way.  Whether a workspace without members has a lock
\* file at all it does not say.
RecordsAgree ==
  (~overlapped /\ stops = 0 /\ manifest # NoFile /\ \A p \in Process : ~Running(p))
    => /\ OnRecord = Members
       /\ root.ignored = Members
       /\ root.index[2] = lock

\* Whatever other processes stage at the same time, a rename publishes the
\* artifact its own process staged (stage_durably, temp_path).
PublishesOwnArtifact ==
  [][\A p \in Process :
       /\ (op[p].phase = "manifest" /\ op'[p].phase \in {"lock", "ok"}) => manifest' = op[p].mf
       /\ (op[p].phase = "lock" /\ op'[p].phase = "boundary") => lock' = op[p].lk]_vars

\* An operation that nothing came between and that records live state leaves
\* in the lock the commit each of its members is at when it ends; a commit of
\* the root holds the lock that does so (handle_capture, handle_commit).
RecordsLiveCommits ==
  [][\A p \in Process :
       (Running(p) /\ alone[p] /\ op'[p].phase = "ok"
          /\ (op[p].committed \/ op[p].kind \in {"capture", "create_repo", "add", "init"}))
         => /\ \A m \in op[p].paths : IsRepo(m) => lock'[m] = place'[m].commit
            /\ op[p].root => root'.head = <<manifest', lock'>>]_vars

\* "failed = nothing changed": an init that fails leaves neither a clone nor a
\* workspace behind, if nobody came in between (handle_init_from_sources).
FailedInitLeavesNothing ==
  [][\A p \in Process :
       (op[p].kind = "init" /\ Running(p) /\ alone[p] /\ op'[p].phase = "rejected")
         => /\ manifest' = NoFile /\ lock' = NoFile
            /\ \A m \in op[p].paths : place'[m] = Absent]_vars
=============================================================================
