----------------------------- MODULE CallBodies -----------------------------
(***************************************************************************)
(* The programs the analyser walks, its contexts and its values, as far as *)
(* interp/walk.rs, interp/value.rs and interp/key.rs tell them apart.      *)
(*                                                                         *)
(* An abstract value is a project function or Unknown: ty's answers,       *)
(* classes and modules, which summary mode never enters, are all Unknown.  *)
(* A body is its call sites in evaluation order and what its returns hold, *)
(* each expression reduced, after the joins of the branches (env.rs), to   *)
(* the constants, the parameter and the earlier calls it may come from.    *)
(* Every function has one parameter; a call without an argument passes     *)
(* Unknown, which is what binding gives a parameter nothing reaches.       *)
(***************************************************************************)
EXTENDS Integers, Sequences

CONSTANTS Func,      \* project functions, named by their definition order
          Relevant,  \* those whose parameter relevant_params flags
          Unknown    \* AbstractValue::Unknown

ASSUME FuncAssumption ==
    /\ Func \subseteq Nat
    /\ Unknown \notin Nat
    /\ Relevant \subseteq Func

V == Func \cup {Unknown}

Expr == [consts: SUBSET V, param: BOOLEAN, sites: SUBSET Nat]
CallSite == [callee: Expr, arg: Expr]
Body == [sites: Seq(CallSite), rets: Expr]

(* A context: a function, and the fingerprint of its argument.             *)
Ctx == {c \in [func: Func, arg: (SUBSET V) \ {{}}] :
            c.func \in Relevant \/ c.arg = {Unknown}}

(* An irrelevant parameter, and one with no value, are keyed as Unknown.   *)
Key(f, vals) ==
    [func |-> f, arg |-> IF f \in Relevant /\ vals # {} THEN vals ELSE {Unknown}]

(* A walk's values: what is known, and the deferred operations they wait on. *)
Value == [known: SUBSET V, pending: SUBSET Nat]
NoValue == [known |-> {}, pending |-> {}]
Join(v, w) == [known |-> v.known \cup w.known, pending |-> v.pending \cup w.pending]

(* The values of an expression, in a walk of c with these call values.     *)
Eval(e, c, vals) ==
    LET from == e.sites \cap DOMAIN vals IN
    [known   |-> e.consts \cup (IF e.param THEN c.arg ELSE {})
                          \cup UNION {vals[i].known : i \in from},
     pending |-> UNION {vals[i].pending : i \in from}]

=============================================================================
