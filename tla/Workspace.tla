------------------------------ MODULE Workspace ------------------------------
(***************************************************************************)
(* A workspace and the people who use it: what is at each member's path,   *)
(* the remote repository behind it, and the lock file that records it.     *)
(* One gwz process works in it; pull and materialize take no mutator lock, *)
(* and people change the members between any two of its steps.             *)
(***************************************************************************)
EXTENDS MemberRepo, Naturals

CONSTANTS
  Member,       \* the members of the manifest
  Manifests,    \* which members may have a fetch remote
  Trunk,        \* the default branch: of a remote, and of pull_branch
  Starts,       \* the trunk of a member and of its remote at first
  Absent,       \* no path, or an empty directory
  Files,        \* a directory with files in it that is no repository
  NoState,      \* a member that was not observed
  Disturbed,    \* people changed a member since the operation began
  MaxRequests,  \* bound on the operations
  MaxEdits      \* bound on what people do

ASSUME WorkspaceAssumption ==
  /\ Manifests \subseteq SUBSET Member /\ Trunk \in Branch
  /\ Absent # Files /\ Absent \notin Repo /\ Files \notin Repo
  /\ Starts \subseteq [local : Commit, remote : Commit]
  /\ NoState \notin State
  /\ MaxRequests \in Nat /\ MaxEdits \in Nat

VARIABLES
  hosted,    \* gwz.yml: the members that have a fetch remote
  place,     \* what is at each member's path
  upstream,  \* the branches of each member's remote
  lock,      \* gwz.lock.yml
  op,        \* where the process is
  targets,   \* the members the operation selected
  todo,      \* those it has yet to finish in this phase
  failed,    \* those that failed in this phase
  mem,       \* its copy of the lock file, or what it is to write to it
  seen,      \* what it observed of each member
  requests, edits,
  start      \* history: the places when it began, unless Disturbed

workspace == <<hosted, place, upstream, lock, op, targets, todo, failed, mem, seen,
               requests, edits, start>>

Place == {Absent, Files} \cup Repo
IsRepo(m) == place[m] \notin {Absent, Files}
Unseen == [m \in Member |-> NoState]

WorkspaceTypeOK ==
  /\ hosted \in Manifests
  /\ place \in [Member -> Place]
  /\ upstream \in [Member -> [Branch -> Ref]]
  /\ lock \in [Member -> State]
  /\ targets \subseteq Member /\ todo \subseteq targets /\ failed \subseteq targets
  /\ mem \in [Member -> {NoState} \cup State]
  /\ seen \in [Member -> {NoState} \cup State]
  /\ start \in {Disturbed} \cup [Member -> Place]
  /\ requests \in 0..MaxRequests /\ edits \in 0..MaxEdits

OnlyTrunk(c) == [b \in Branch |-> IF b = Trunk THEN c ELSE NoRef]

\* Every member is on its trunk, the lock is up to date, and nothing has been
\* fetched since both sides were at {}.
WorkspaceInit ==
  /\ hosted \in Manifests
  /\ \E s \in [Member -> Starts] :
       /\ upstream = [m \in Member |-> OnlyTrunk(s[m].remote)]
       /\ place = [m \in Member |->
                     MoveHead(Cloned(OnlyTrunk({}), Trunk), s[m].local)]
  /\ lock = [m \in Member |-> Resolved(place[m])]
  /\ op = "idle"
  /\ targets = {} /\ todo = {} /\ failed = {}
  /\ mem = Unseen /\ seen = Unseen
  /\ requests = 0 /\ edits = 0
  /\ start = Disturbed

Begin(selected, phase, copy) ==
  /\ op = "idle" /\ requests < MaxRequests
  /\ selected # {}
  /\ op' = phase
  /\ targets' = selected /\ todo' = selected /\ failed' = {}
  /\ mem' = copy
  /\ requests' = requests + 1
  /\ start' = place
  /\ UNCHANGED <<hosted, upstream, lock, seen, edits>>

\* The operation returns; its locals are gone.
Return ==
  /\ op' = "idle"
  /\ targets' = {} /\ todo' = {} /\ failed' = {}
  /\ mem' = Unseen /\ seen' = Unseen
  /\ start' = Disturbed
  /\ UNCHANGED <<hosted, upstream, requests, edits>>

Stay == UNCHANGED <<hosted, upstream, op, targets, mem, requests, edits, start>>

-----------------------------------------------------------------------------
\* Somebody works in a member, deletes it, or puts files in its place.
Edit(m) ==
  /\ edits < MaxEdits
  /\ \E there \in {Absent, Files} \cup (IF IsRepo(m) THEN Edited(place[m]) ELSE {}) :
       /\ there # place[m]
       /\ place' = [place EXCEPT ![m] = there]
  /\ edits' = edits + 1
  /\ start' = Disturbed
  /\ UNCHANGED <<hosted, upstream, lock, op, targets, todo, failed, mem, seen, requests>>

\* Somebody else pushes a change to a branch of a member's remote, new or not.
Publish(m) ==
  /\ edits < MaxEdits
  /\ \E b \in Branch, c \in Change :
       LET base == IF upstream[m][b] = NoRef THEN upstream[m][Trunk] ELSE upstream[m][b]
       IN  upstream' = [upstream EXCEPT ![m][b] = base \cup {c}]
  /\ edits' = edits + 1
  /\ UNCHANGED <<hosted, place, lock, op, targets, todo, failed, mem, seen, requests, start>>

People == \E m \in Member : Edit(m) \/ Publish(m)
=============================================================================
