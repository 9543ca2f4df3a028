--------------------------- MODULE RelevantParams ---------------------------
(***************************************************************************)
(* relevant_params (interp/relevant.rs): the parameters that can affect a  *)
(* function's walk, found by passes over its body until nothing changes.   *)
(* What it leaves out is Unknown in every key of the function.             *)
(*                                                                         *)
(* A pass visits the statements in source order, whatever blocks they are  *)
(* in, those of nested functions included: a body is the sequence of its   *)
(* simple statements and headers.  A statement has what it binds or stores *)
(* to, and one expression, of which the pass reads its kind and the names  *)
(* in it.  An `if` or `while` header is an "expr" statement.               *)
(*                                                                         *)
(* A definition called Mutant_X is X with one plausible slip in it.  No    *)
(* other definition uses it.                                               *)
(***************************************************************************)
EXTENDS Integers, Sequences

CONSTANTS Name,    \* the names in the body
          Params,  \* those that are parameters
          Bodies   \* the bodies checked

(* What a statement binds (name; tuple, list or starred) or stores to.     *)
Target == [kind: {"name", "unpacked", "attribute", "subscript"}, names: SUBSET Name]

(* An expression: "either" is `a or b` and `a if c else b`, "nested" a     *)
(* lambda, a comprehension or a yield, "opaque" everything else ty types.  *)
(* `named` are the names a `:=` around it binds.                           *)
Expr == [kind: {"name", "either", "await", "call", "attribute", "nested", "opaque"},
         names: SUBSET Name, named: SUBSET Name]

Stmt == [kind: {"assign", "augassign", "for", "with", "return", "match", "global",
                "def", "import", "expr"},
         to: SUBSET Target, value: Expr,
         nested: BOOLEAN]   \* inside a nested function

ASSUME BodyAssumption == Params \subseteq Name /\ Bodies \subseteq Seq(Stmt)

VARIABLES
    body,      \* the function's body: it never changes
    holds,     \* the parameters a name may hold
    relevant,  \* the parameters flagged
    escapes,   \* names declared global or nonlocal, as far as this pass went
    changed,   \* this pass found something
    at,        \* the statement to visit
    done       \* relevant_params has returned
passVars == <<body, holds, relevant, escapes, changed, at, done>>

-----------------------------------------------------------------------------
(* params_of: every parameter a name of ns may hold.                       *)
ParamsOf(h, ns) == UNION {h[n] : n \in ns}

Flows(s) == s.kind \in {"assign", "augassign", "for", "with"}
Stores(t) == t.kind \in {"attribute", "subscript"}
TargetNames(ts) == UNION {t.names : t \in ts}
Declares(s) == IF s.kind = "global" THEN TargetNames(s.to) ELSE {}

(* The names `flow` is called on: targets of the statement, and of `:=`.   *)
FlowNames(s) ==
    s.value.named \cup
    (IF Flows(s) THEN TargetNames({t \in s.to : ~Stores(t)}) ELSE {})

(* The statement or its expression is a sink for what the expression reads. *)
SinksValue(s, esc) ==
    \/ s.kind \in {"return", "with", "match", "def"}
    \/ s.value.kind \in {"await", "call", "attribute", "nested"}
    \/ FlowNames(s) \cap esc # {}
    \/ Flows(s) /\ \E t \in s.to : Stores(t)

(* The names whose parameters a visit of s flags.                          *)
SinkNames(s, esc) ==
    (IF SinksValue(s, esc) THEN s.value.names ELSE {}) \cup
    (IF Flows(s) THEN TargetNames({t \in s.to : Stores(t)}) ELSE {})

(* holds and relevant after a visit of s.                                  *)
Grown(h, s, esc) ==
    [n \in Name |-> IF n \in FlowNames(s) \ esc
                    THEN h[n] \cup ParamsOf(h, s.value.names) ELSE h[n]]
Marked(h, r, s, esc) == r \cup ParamsOf(h, SinkNames(s, esc))

-----------------------------------------------------------------------------
Init ==
    /\ body \in Bodies
    /\ holds = [n \in Name |-> {n} \cap Params]
    /\ relevant = {}
    /\ escapes = {}
    /\ changed = FALSE
    /\ at = 1
    /\ done = FALSE

Mutant_Changes(h, r) == r # relevant    \* a name that holds more is not counted
Changes(h, r) == h # holds \/ r # relevant

(* visit_stmt, and visit_expr on the expressions of the statement.         *)
Visit ==
    LET s == body[at]
        h == Grown(holds, s, escapes)
        r == Marked(holds, relevant, s, escapes) IN
    /\ ~done /\ at <= Len(body)
    /\ holds' = h
    /\ relevant' = r
    /\ escapes' = escapes \cup Declares(s)
    /\ changed' = (changed \/ Changes(h, r))
    /\ at' = at + 1
    /\ UNCHANGED <<body, done>>

(* Nothing left to find.                                                   *)
Mutant_Enough == ~changed \/ relevant # {}   \* any flag for all of them
Mutant_EnoughAll == relevant = Params        \* no end when nothing changes
Enough == ~changed \/ relevant = Params

Mutant_EscapesAgain == escapes               \* kept from pass to pass
EscapesAgain == {}

EndPass ==
    /\ ~done /\ at > Len(body)
    /\ IF Enough
       THEN done' = TRUE /\ UNCHANGED <<escapes, changed, at>>
       ELSE done' = FALSE /\ escapes' = EscapesAgain /\ changed' = FALSE /\ at' = 1
    /\ UNCHANGED <<body, holds, relevant>>

Pass == Visit \/ EndPass

-----------------------------------------------------------------------------
(* The names parameter p reaches through any number of flows, and the      *)
(* names sunk anywhere: what the passes compute, without passes.           *)
DeclaredBefore(k) == UNION {Declares(body[j]) : j \in 1..(k - 1)}
FlowsTo(S) ==
    S \cup UNION {FlowNames(body[j]) \ DeclaredBefore(j) :
                     j \in {j \in DOMAIN body : body[j].value.names \cap S # {}}}
Reached(p) ==
    LET more[k \in 0..Len(body)] == IF k = 0 THEN {p} ELSE FlowsTo(more[k - 1])
    IN more[Len(body)]
SunkAnywhere == UNION {SinkNames(body[j], DeclaredBefore(j)) : j \in DOMAIN body}

(* The flags are those of the parameters that reach a sink through flows,  *)
(* in whatever order the statements stand: no pass stops too early, and    *)
(* what only a condition reads splits no key.                              *)
ExactlyWhatFlows ==
    /\ \A p \in relevant : Reached(p) \cap SunkAnywhere # {}
    /\ done => \A p \in Params : Reached(p) \cap SunkAnywhere # {} => p \in relevant

(* The passes end.                                                         *)
Finishes == <>done

=============================================================================
