------------------------------- MODULE PyText -------------------------------
(***************************************************************************)
(* Python programs as the interpreter reads them, and the questions it     *)
(* asks of their scopes (interp/../sem.rs).                                *)
(*                                                                         *)
(* A program p is a record: p.fun[f] is the def of function f, p.cls[c]    *)
(* the class c, p.entry the entry function.  A def has the function it is  *)
(* nested in (NoScope for one of the module), its parameters in slot       *)
(* order, its body, its line, and whether its decorators keep its          *)
(* signature.  Function and class names are unique and are bound by their  *)
(* def alone.  A parameter is [n, kind, d]: its name, "pos", "kw" (keyword *)
(* only) or "rest" (starred), and its default, a sequence of at most one   *)
(* expression.                                                             *)
(*                                                                         *)
(* An expression is [k, id, es, kw, site]: its kind, a name, the           *)
(* expressions in it in evaluation order, the keyword arguments of a call  *)
(* ([n, e] each, n = "**" for `**e`), and the site of a call or an         *)
(* attribute.                                                              *)
(*   name  id              data  any other, of es lambda                   *)
(*   named id := es[1]     or    es               cond  es = test,yes,no   *)
(*   call  es = callee and arguments, kw          star  *es[1], an argument*)
(*   attr  es[1].id        await es[1]            yield es                 *)
(*                                                                         *)
(* A statement is [k, ids, es, bs]: its kind, the names bound in it (a set *)
(* for each place that binds some), its expressions and its blocks.        *)
(*   pass                  expr es[1]             raise es                 *)
(*   return es             break  continue        import ids[1] from es[1]  *)
(*   assign es = value, targets                   def ids[1] = {f}, es its *)
(*                                                decorators               *)
(*   while es[1]: bs[1]  else: bs[2]                                       *)
(*   for es[2] in es[1]: bs[1]  else: bs[2]                                *)
(*   with es[1] as es[2]: bs[1]                                            *)
(*   if es[1]: bs[1]  elif es[2]: bs[2] ...  else: the block without test  *)
(*   match es[1]: case pattern with names ids[i] if es[i + 1]: bs[i]       *)
(*   try: bs[1]  else: bs[2]  finally: bs[3]  handlers bs[4], bs[5] ...    *)
(* A target is a name, an attribute, "unpack" (a tuple, a list or starred) *)
(* of the targets es, or another expression, such as d[k].                 *)
(***************************************************************************)
EXTENDS Naturals, Sequences, FiniteSets, SequencesExt

CONSTANT NoScope    \* a module is no function scope

Block(body) == [k |-> "block", of |-> body]
Expressions ==
    {"name", "data", "lambda", "named", "or", "cond", "call", "star", "attr", "await", "yield"}

(* What is evaluated for an expression's value, in order.                  *)
Children(e) == e.es \o [i \in DOMAIN e.kw |-> e.kw[i].e]

RECURSIVE Within(_)
Within(e) == {e} \cup UNION {Within(c) : c \in Range(Children(e))}

(* The targets of a statement, an unpacking's one by one.                  *)
RECURSIVE Unpacked(_)
Unpacked(t) == IF t.k = "unpack" THEN UNION {Unpacked(x) : x \in Range(t.es)} ELSE {t}
Binding == {"assign", "for", "with"}
Targets(s) == IF s.k \in Binding THEN UNION {Unpacked(t) : t \in Range(Tail(s.es))} ELSE {}

(* The expressions of a statement that are read, and its statements.       *)
Evaluated(p, s) ==
    CASE s.k \in Binding -> {s.es[1]} \cup UNION {Range(t.es) : t \in Targets(s)}
      [] s.k = "def" ->
            Range(s.es) \cup
            UNION {Range(q.d) : q \in UNION {Range(p.fun[f].params) : f \in s.ids[1]}}
      [] OTHER -> Range(s.es)

RECURSIVE Statements(_)
Statements(body) ==
    Range(body) \cup UNION {Statements(b) : b \in UNION {Range(s.bs) : s \in Range(body)}}

ExprsOf(p, f) == UNION {Within(e) : e \in UNION {Evaluated(p, s) : s \in Statements(p.fun[f].body)}}

(* place_table(scope): is_bound and is_used.                               *)
Bound(p, f) ==
    {q.n : q \in Range(p.fun[f].params)}
    \cup UNION {UNION Range(s.ids) : s \in Statements(p.fun[f].body)}
    \cup {t.id : t \in {t \in UNION {Targets(s) : s \in Statements(p.fun[f].body)} : t.k = "name"}}
    \cup {e.id : e \in {e \in ExprsOf(p, f) : e.k = "named"}}
Used(p, f) == {e.id : e \in {e \in ExprsOf(p, f) : e.k = "name"}}

RECURSIVE Ancestors(_, _)
Ancestors(p, f) ==      \* the function scopes around f, innermost first, f included
    IF f = NoScope THEN <<>> ELSE <<f>> \o Ancestors(p, p.fun[f].up)

RECURSIVE FreeScope(_, _, _)
FreeScope(p, f, x) ==   \* {the function scope outside f that binds f's free name x}, or {}
    IF x \in p.scope[f].bound \/ p.fun[f].up = NoScope THEN {}
    ELSE IF x \in p.scope[p.fun[f].up].bound THEN {p.fun[f].up}
    ELSE FreeScope(p, p.fun[f].up, x)

FreeVariables(p, f) ==
    LET inside == {g \in DOMAIN p.fun : f \in Range(Ancestors(p, g))}
    IN UNION {{x \in p.scope[g].used :
                 \E b \in FreeScope(p, g, x) : b \notin inside} : g \in inside}

ContainsYield(p, f) ==    \* a nested def is passed over, with its defaults
    \E s \in {s \in Statements(p.fun[f].body) : s.k # "def"} :
        \E e \in UNION {Within(x) : x \in Evaluated(p, s)} : e.k = "yield"

(* relevant_params, as coarsely as keys need it: a parameter that neither   *)
(* the body nor a function nested in it reads cannot matter.               *)
MayMatter(p, f, x) ==
    \/ x \in p.scope[f].used
    \/ \E g \in DOMAIN p.fun : x \in p.scope[g].used /\ f \in FreeScope(p, g, x)

(* The semantic index of a program: what the queries above read.           *)
Scoped(p) == [fun |-> p.fun, cls |-> p.cls, entry |-> p.entry,
              scope |-> [f \in DOMAIN p.fun |-> [bound |-> Bound(p, f), used |-> Used(p, f)]]]
Queried(p) ==
    [fun |-> p.fun, cls |-> p.cls, entry |-> p.entry, scope |-> p.scope,
     free |-> [f \in DOMAIN p.fun |-> FreeVariables(p, f)],
     gen |-> [f \in DOMAIN p.fun |-> ContainsYield(p, f)],
     relevant |-> [f \in DOMAIN p.fun |->
        [i \in DOMAIN p.fun[f].params |-> MayMatter(p, f, p.fun[f].params[i].n)]]]
Indexed(raw) == Queried(Scoped(raw))

-----------------------------------------------------------------------------
(* Members.  A class is [init, methods, classmethods, props, line]: a      *)
(* method name maps to the function, a property to its getter and setter   *)
(* ({} or one each).                                                       *)
InitOf(p, c) == p.cls[c].init
PropertyParts(p, c, x) == IF x \in DOMAIN p.cls[c].props THEN {p.cls[c].props[x]} ELSE {}
(* Where a definition starts; a class has no function node.                *)
DefPosition(p, d) == IF d \in DOMAIN p.fun THEN p.fun[d].line ELSE 0

=============================================================================
