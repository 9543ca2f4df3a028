------------------------------ MODULE WalkEnvs ------------------------------
(***************************************************************************)
(* Values and environments of a walk: interp/value.rs, interp/env.rs, and  *)
(* the lookup of names in interp/walk.rs.                                  *)
(*                                                                         *)
(* A walk is a record w.  The parts read here: w.p, the program; w.acts,   *)
(* the activations (runs of function bodies) in the order they began, each *)
(* an Env; w.defs[<<f, a>>], the defaults of the closure of f made in run  *)
(* a; w.origins and w.recvs, the interned objects and receivers.           *)
(***************************************************************************)
EXTENDS PyText

NoRun == 0      \* `enclosing: None`
Opaque == 1     \* OriginId::OPAQUE: an object of ty's, which holds no state

Value(k, f, n) == [k |-> k, f |-> f, n |-> n]
Fn(f) == Value("function", f, 0)
Closure(f, a) == Value("closure", f, a)
Class(c) == Value("class", c, 0)
Object(c, o) == Value("instance", c, o)
Method(f, r) == Value("bound", f, r)      \* r: index of its receiver in w.recvs
Data == Value("ty", "", 0)
Unknown == Value("unknown", "", 0)

EmptyEnv == [loc |-> <<>>, attrs |-> <<>>, scope |-> NoScope, up |-> NoRun, flat |-> FALSE]
FlatEnv == [EmptyEnv EXCEPT !.flat = TRUE]

Put(f, x, v) == [y \in DOMAIN f \cup {x} |-> IF y = x THEN v ELSE f[y]]
Held(f, x) == IF x \in DOMAIN f THEN {f[x]} ELSE {}

Bind(env, x, vals) == [env EXCEPT !.loc = Put(@, x, vals)]

(* The receiver is exactly one object: the write replaces.                 *)
BindAttr(env, o, x, vals, strong) ==
    [env EXCEPT !.attrs =
        Put(@, <<o, x>>, IF strong THEN vals ELSE vals \cup UNION Held(@, <<o, x>>))]

UnionInto(fs) == [x \in UNION {DOMAIN f : f \in fs} |-> UNION {UNION Held(f, x) : f \in fs}]

(* Union per name: a name missing from an arm was not assigned there.      *)
Join(envs) ==
    [(CHOOSE e \in envs : TRUE) EXCEPT !.loc = UnionInto({e.loc : e \in envs}),
                                       !.attrs = UnionInto({e.attrs : e \in envs})]

-----------------------------------------------------------------------------
(* A name's values, as a set of at most one set: {} when ty must answer.   *)

(* From run a outwards: the run of scope b, or a closure's own values.     *)
RECURSIVE FromRun(_, _, _, _)
FromRun(w, a, b, x) ==
    IF a = NoRun THEN {}
    ELSE IF w.acts[a].flat \/ w.acts[a].scope = b THEN Held(w.acts[a].loc, x)
    ELSE FromRun(w, w.acts[a].up, b, x)

Lookup(w, env, x) ==
    IF x \in DOMAIN env.loc THEN {env.loc[x]}
    ELSE IF env.scope = NoScope THEN {}
    ELSE UNION {FromRun(w, env.up, b, x) : b \in FreeScope(w.p, env.scope, x)}

(* What the closure of f made in run a reads as x, {} if no run bound it.  *)
LookupIn(w, f, a, x) == UNION Lookup(w, [EmptyEnv EXCEPT !.scope = f, !.up = a], x)

(* ty's answer for an expression, lifted: functions and classes by their    *)
(* names, an object for a class's call, nothing known of anything          *)
(* unannotated.                                                            *)
TyOf(p, e) ==
    CASE e.k = "name" /\ e.id \in DOMAIN p.fun -> {Fn(e.id)}
      [] e.k = "name" /\ e.id \in DOMAIN p.cls -> {Class(e.id)}
      [] e.k = "data" -> {Data}
      [] e.k = "call" /\ e.es[1].id \in DOMAIN p.cls -> {Object(e.es[1].id, Opaque)}
      [] OTHER -> {Unknown}

(* Interned: an index that stands for the item from now on.                *)
Interned(items, x) == IF x \in Range(items) THEN items ELSE Append(items, x)
IndexOf(items, x) == CHOOSE i \in DOMAIN items : items[i] = x

=============================================================================
