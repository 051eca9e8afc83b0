------------------------------- MODULE Targets -------------------------------
(***************************************************************************)
(* What a request selects (workspace_ops/target_selection.rs): members of  *)
(* the manifest and the workspace root, named one by one or by a selector, *)
(* less what is excluded.                                                  *)
(***************************************************************************)
EXTENDS FiniteSets

CONSTANTS
  Member,  \* the members of the manifest, each with its id and its path
  Root     \* the repository of the workspace itself

Target == Member \cup {Root}

\* "@none" stands for any other selector, "missing" for a name of nobody.
Selector == {"@root", "@all", "@default"}
Token    == Selector \cup {"@none", "missing"} \cup Member

\* An id begins with "mem_", and a token that begins with "@" is a selector.
ASSUME TargetsAssumption ==
  /\ Root \notin Member
  /\ Target \cap (Selector \cup {"@none", "missing"}) = {}

Selection == [include : SUBSET Token, exclude : SUBSET Token]

\* NormalizedSelection: no token at all is the command's default.
Includes(sel) == IF sel.include = {} THEN {"@default"} ELSE sel.include

\* expand_token.  active: the active members; default: what "@default" means
\* to the command.
Expand(active, default, t) ==
  CASE t = "@root"    -> {Root}
    [] t = "@all"     -> active \cup {Root}
    [] t = "@default" -> default
    [] OTHER          -> {t}

\* resolve_targets, when it does not fail.
Selected(active, default, sel) ==
  (UNION {Expand(active, default, t) : t \in Includes(sel)})
    \ (UNION {Expand(active, default, t) : t \in sel.exclude})

\* It fails for a token that means nothing or an inactive member, in either
\* list, and for a root the command does not support.
Resolves(active, default, rootAllowed, sel) ==
  /\ Includes(sel) \cup sel.exclude \subseteq Selector \cup active
  /\ rootAllowed \/ Root \notin Selected(active, default, sel)
=============================================================================
