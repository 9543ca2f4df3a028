---------------------------- MODULE RelevantWalk ----------------------------
(***************************************************************************)
(* What a walk of the body (interp/walk.rs) may learn of the parameters,   *)
(* after relevant_params has returned.                                     *)
(*                                                                         *)
(* The walk's environment holds, for each name, the parameters its value   *)
(* may be.  Statements run in any order and number of times, which covers  *)
(* every branch, loop, handler and early exit; a join holds no more than   *)
(* the paths it joins.  A closure reads the environment its `def` ran in   *)
(* whenever it is called, or written into a key: at any later moment.      *)
(***************************************************************************)
EXTENDS RelevantParams

VARIABLES
    env,    \* the parameters whose value a name has
    free,   \* the names read by closures made so far
    seen    \* the parameters whose value the walk has used
walkVars == <<env, free, seen>>
allVars == <<passVars, walkVars>>

(* eval: the value of an expression, and what its evaluation looks at.     *)
ValueOf(e) ==
    IF e.kind \in {"name", "either", "await"} THEN ParamsOf(env, e.names) ELSE {}
LooksAt(e) ==
    IF e.kind \in {"call", "attribute", "nested"} THEN ParamsOf(env, e.names) ELSE {}

(* The names given the value itself, and those given what ty knows, which  *)
(* is no parameter's value.                                                *)
BoundTo(s) ==
    IF s.kind = "assign"
    THEN TargetNames({t \in s.to : t.kind = "name"})
    ELSE {}
BoundFromTy(s) ==
    IF s.kind = "assign"
    THEN TargetNames({t \in s.to : t.kind = "unpacked"})
    ELSE IF s.kind \in {"for", "with", "match", "def", "import"}
    THEN TargetNames({t \in s.to : ~Stores(t)})
    ELSE {}

(* walk_stmt, on a statement of the function itself.                       *)
WalkStmt ==
    \E i \in DOMAIN body :
      LET s == body[i]
          v == ValueOf(s.value)
          after == [n \in Name |-> IF n \in BoundFromTy(s) THEN {}
                                   ELSE IF n \in BoundTo(s) \cup s.value.named THEN v
                                   ELSE env[n]]
          closed == free \cup (IF s.kind = "def" THEN s.value.names ELSE {})
          receivers == TargetNames({t \in s.to : t.kind = "attribute"}) IN
      /\ done /\ ~s.nested
      /\ env' = after
      /\ free' = closed
      /\ seen' = seen \cup LooksAt(s.value)
                      \cup (IF s.kind = "return" THEN v ELSE {})
                      \cup (IF s.kind = "def" THEN ParamsOf(env, s.value.names) ELSE {})
                      \cup (IF s.kind = "assign" /\ receivers # {} THEN v ELSE {})
                      \cup (IF Flows(s) THEN ParamsOf(env, receivers) ELSE {})
                      \cup ParamsOf(after, closed)
      /\ UNCHANGED passVars

WalkInit ==
    /\ Init
    /\ env = [n \in Name |-> {n} \cap Params]
    /\ free = {}
    /\ seen = {}

Walked == done /\ UNCHANGED allVars   \* the walk may end anywhere

WalkNext == (Pass /\ UNCHANGED walkVars) \/ WalkStmt \/ Walked

WalkSpec == WalkInit /\ [][WalkNext]_allVars
FairWalkSpec == WalkSpec /\ WF_allVars(Pass /\ UNCHANGED walkVars)

-----------------------------------------------------------------------------
TypeOK ==
    /\ body \in Bodies
    /\ holds \in [Name -> SUBSET Params]
    /\ relevant \in SUBSET Params
    /\ escapes \in SUBSET Name
    /\ changed \in BOOLEAN
    /\ at \in 1..(Len(body) + 1)
    /\ done \in BOOLEAN
    /\ env \in [Name -> SUBSET Params]
    /\ free \in SUBSET Name
    /\ seen \in SUBSET Params

(* Rule 3 of the design, for keys: a parameter that is not flagged, and so *)
(* is Unknown in every key, is one whose value no path of the walk uses.   *)
NothingMissed == seen \subseteq relevant

(* A visit of statement j would find nothing.                              *)
Quiet(j) ==
    /\ Grown(holds, body[j], DeclaredBefore(j)) = holds
    /\ Marked(holds, relevant, body[j], DeclaredBefore(j)) = relevant

(* The inductive invariant: a pass that found nothing so far leaves quiet  *)
(* statements behind; when all are quiet, or every parameter is flagged,   *)
(* no name has a value that its `holds` and the flags do not cover.        *)
RelevantInv ==
    /\ TypeOK
    /\ \A p \in Params : p \in holds[p]
    /\ ~done => /\ escapes = DeclaredBefore(at)
                /\ ~changed => \A j \in 1..(at - 1) : Quiet(j)
                /\ env = [n \in Name |-> {n} \cap Params] /\ free = {} /\ seen = {}
    /\ done => \/ relevant = Params
               \/ \A j \in DOMAIN body : Quiet(j)
    /\ \A n \in Name : env[n] \subseteq holds[n] \cup relevant
    /\ \A n \in free : holds[n] \subseteq relevant
    /\ NothingMissed

=============================================================================
