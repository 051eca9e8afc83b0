------------------------------- MODULE Staging -------------------------------
(***************************************************************************)
(* gwz add (workspace_ops/handle_stage.rs, stage_routing.rs): a workspace  *)
(* is a repository with the repositories of its members inside.  A         *)
(* pathspec goes to the repository that owns the path it names, and to     *)
(* every repository of a member below that path; each of them then stages  *)
(* its part.                                                               *)
(***************************************************************************)
EXTENDS Targets, Naturals, Sequences

CONSTANTS
  WorkspaceRoot,  \* the absolute path of the workspace
  PathOf,         \* member -> its path in the workspace
  File,           \* paths in the workspace of files people may change
  Asks            \* the requests people make

Path == Seq(STRING)

Under(p, q) == Len(p) <= Len(q) /\ SubSeq(q, 1, Len(p)) = p

\* cwd: where gwz is called; specs: relative or absolute paths, with "..";
\* all: -A; narrow: the selection of an -A that is narrowed.
StageRequest(q) ==
  /\ DOMAIN q = {"cwd", "specs", "all", "narrow", "selection"}
  /\ q.cwd \in Path
  /\ q.specs \subseteq [absolute : BOOLEAN, names : Path]
  /\ q.all \in BOOLEAN /\ q.narrow \in BOOLEAN
  /\ q.selection \in Selection

\* validate_member_path_set: no member lies inside another.
ASSUME StagingAssumption ==
  /\ WorkspaceRoot \in Path /\ File \subseteq Path /\ PathOf \in [Member -> Path]
  /\ \A m, n \in Member : m # n => ~Under(PathOf[m], PathOf[n])
  /\ \A m \in Member : PathOf[m] # <<>>
  /\ \A q \in Asks : StageRequest(q)

VARIABLES
  stager,   \* "idle", or "stages"
  ask,      \* its request
  routes,   \* what it has yet to stage
  cloned,   \* the members whose repository is there
  changed,  \* files that differ from the index of their repository
  before    \* history: the changed files when it began, unless Meddled

stage == <<stager, ask, routes, cloned, changed, before>>

Meddled == {<<>>}
NoAsk   == <<>>

-----------------------------------------------------------------------------
(* Routing. *)

\* lexical_normalize: ".." takes the name before it away, if there is one.
Normalized(path) ==
  LET upTo[i \in 0 .. Len(path)] ==
        IF i = 0 THEN <<>>
        ELSE IF path[i] # ".." THEN Append(upTo[i - 1], path[i])
        ELSE SubSeq(upTo[i - 1], 1, Len(upTo[i - 1]) - 1)
  IN  upTo[Len(path)]

\* join_cwd
Absolute(q, spec) ==
  Normalized(IF spec.absolute THEN spec.names ELSE q.cwd \o spec.names)

InWorkspace(q, spec) == Under(WorkspaceRoot, Absolute(q, spec))

\* strip_prefix
Relative(prefix, path) == SubSeq(path, Len(prefix) + 1, Len(path))

Route(t, path, explicit) == [repo |-> t, path |-> path, explicit |-> explicit]

\* Mutant: a directory goes to the repository it is in, and no further.
RoutedWithoutFanOut(path) ==
  LET owners == {m \in Member : Under(PathOf[m], path)}
  IN  IF owners # {}
      THEN {Route(m, Relative(PathOf[m], path), TRUE) : m \in owners}
      ELSE {Route(Root, path, TRUE)}

\* A path inside a member is that member's; any other is the root's, and
\* everything of the members below it goes with it.
Routed(path) ==
  LET owners == {m \in Member : Under(PathOf[m], path)}
  IN  IF owners # {}
      THEN {Route(m, Relative(PathOf[m], path), TRUE) : m \in owners}
      ELSE {Route(Root, path, TRUE)} \cup
           {Route(m, <<>>, FALSE) : m \in {n \in Member : Under(path, PathOf[n])}}

\* resolve_stage_targets, or the selection of a narrowed -A.
Routes(q) ==
  IF q.all
  THEN IF q.narrow
       THEN {Route(t, <<>>, TRUE) : t \in Selected(Member, Target, q.selection)}
       ELSE {Route(t, <<>>, FALSE) : t \in Target}
  ELSE UNION {Routed(Relative(WorkspaceRoot, Absolute(q, spec))) : spec \in q.specs}

Routable(q) ==
  IF q.all THEN q.narrow => Resolves(Member, Target, TRUE, q.selection)
  ELSE q.specs # {} /\ \A spec \in q.specs : InWorkspace(q, spec)

-----------------------------------------------------------------------------
(* Staging. *)

RepoPath(t) == IF t = Root THEN <<>> ELSE PathOf[t]

\* The files of a repository: the root's exclude block keeps it out of the
\* members.
FilesOf(t) ==
  {f \in File : /\ Under(RepoPath(t), f)
                /\ t = Root => \A m \in Member : ~Under(PathOf[m], f)}

StageInit ==
  /\ stager = "idle" /\ routes = {} /\ before = Meddled
  /\ ask = NoAsk
  /\ cloned \in SUBSET Member
  /\ changed = {f \in File : \A m \in Member \ cloned : ~Under(PathOf[m], f)}

StageBegins ==
  /\ stager = "idle" /\ routes = {}
  /\ \E q \in Asks :
       /\ Routable(q)
       /\ ask' = q
       /\ routes' = Routes(q)
  /\ stager' = "stages"
  /\ before' = changed
  /\ UNCHANGED <<cloned, changed>>

StageEnds ==
  stager' = "idle" /\ ask' = NoAsk /\ before' = Meddled /\ UNCHANGED cloned

\* What add_all stages in a repository: the files under one of its pathspecs.
Part(t) ==
  {f \in FilesOf(t) :
     \E r \in routes : r.repo = t /\ Under(RepoPath(t) \o r.path, f)}

\* The root comes first, unless a selection gives the order.
StageTurn(t) ==
  /\ \E r \in routes : r.repo = t
  /\ (\E r \in routes : r.repo = Root) /\ ~(ask.all /\ ask.narrow) => t = Root

StageRepo(t) ==
  /\ stager = "stages" /\ StageTurn(t)
  /\ t = Root \/ t \in cloned
  /\ changed' = changed \ Part(t)
  /\ routes' = {r \in routes : r.repo # t}
  /\ UNCHANGED <<stager, ask, cloned, before>>

\* A member that is not there and was only reached from above.
StagePasses(t) ==
  /\ stager = "stages" /\ StageTurn(t)
  /\ t \in Member \ cloned
  /\ \A r \in routes : r.repo = t => ~r.explicit
  /\ routes' = {r \in routes : r.repo # t}
  /\ UNCHANGED <<stager, ask, cloned, changed, before>>

\* A member that is not there and was named; a call that fails, before or
\* after the index is written.  What was staged stays so.
StageFails(t) ==
  /\ stager = "stages" /\ StageTurn(t)
  /\ \/ /\ t \in Member \ cloned
        /\ \E r \in routes : r.repo = t /\ r.explicit
        /\ UNCHANGED changed
     \/ /\ t = Root \/ t \in cloned
        /\ changed' \in {changed, changed \ Part(t)}
  /\ routes' = {}
  /\ StageEnds

StageSucceeds ==
  /\ stager = "stages" /\ routes = {}
  /\ UNCHANGED <<routes, changed>>
  /\ StageEnds

\* A person edits a file, or clones or deletes a member.
Meddle ==
  /\ stager = "stages" /\ before # Meddled
  /\ \/ /\ \E t \in cloned \cup {Root} : \E f \in FilesOf(t) : changed' = changed \cup {f}
        /\ UNCHANGED cloned
     \/ \E m \in Member :
          /\ cloned' = IF m \in cloned THEN cloned \ {m} ELSE cloned \cup {m}
          /\ changed' = changed \ FilesOf(m)
  /\ before' = Meddled
  /\ UNCHANGED <<stager, ask, routes>>

StageStep ==
  \/ StageBegins \/ StageSucceeds \/ Meddle
  \/ \E t \in Target : StageRepo(t) \/ StagePasses(t) \/ StageFails(t)

StageSpec == StageInit /\ [][StageStep]_stage

-----------------------------------------------------------------------------
(* Properties. *)

\* What a token names, of the targets of gwz add.
Names(token, t) ==
  token \in {t, "@all", "@default"} \/ (token = "@root" /\ t = Root)

\* What a request covers, read off the worktree and the words of the request:
\* no routing and no lists.
Covered(f) ==
  IF ask.all
  THEN ask.narrow =>
         \E t \in Target :
           /\ f \in FilesOf(t)
           /\ ask.selection.include # {} =>
                \E token \in ask.selection.include : Names(token, t)
           /\ \A token \in ask.selection.exclude : ~Names(token, t)
  ELSE \E spec \in ask.specs : Under(Absolute(ask, spec), WorkspaceRoot \o f)

\* A gwz add that succeeds has staged every changed file its pathspecs cover
\* in the repository that owns it, and no other; if people were at work, at
\* least none that it does not cover.
StagedWhereOwned ==
  [][/\ StageSucceeds /\ before # Meddled =>
          changed = {f \in before : ~Covered(f)}
     /\ \A t \in Target : StageRepo(t) \/ StageFails(t) =>
          \A f \in changed \ changed' : Covered(f)]_stage
=============================================================================
