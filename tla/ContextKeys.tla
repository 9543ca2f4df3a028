---------------------------- MODULE ContextKeys ----------------------------
(***************************************************************************)
(* What leaves a walk: keys (interp/key.rs) and summary values             *)
(* (interp/summary.rs), and the values and activations made from them.     *)
(*                                                                         *)
(* Both replace a closure of this walk, a function and an activation, by   *)
(* what it stands for: its function with the values of its free names and  *)
(* of its defaults, each flattened in turn, [k, f, free, defs].  A closure *)
(* met inside itself is [k, back], the closure so many levels up.  Other   *)
(* values are kept or become Unknown.  An interned fingerprint is the set  *)
(* of the alternatives in it, Fp::Union's members.                         *)
(***************************************************************************)
EXTENDS WalkEnvs

CONSTANT FpDepth    \* limits.fp_depth
ASSUME FpDepthAssumption == FpDepth \in Nat

Back(i) == [k |-> "back", back |-> i]

(* ClosureStack::position: how far up, counted from the innermost.         *)
Levels(cl, c) == {i \in 0 .. Len(cl) - 1 : cl[Len(cl) - i] = c}
Nearest(is) == CHOOSE i \in is : \A j \in is : i <= j

DefaultsOf(w, f, a) == IF <<f, a>> \in DOMAIN w.defs THEN w.defs[<<f, a>>] ELSE <<>>

Plain(v) == IF v.k \in {"function", "class", "ty"} THEN v ELSE Unknown

AtLimit(w, f, a) ==
    [k |-> "closure", f |-> f,
     free |-> [x \in w.p.free[f] |-> {Unknown}],
     defs |-> [x \in DOMAIN DefaultsOf(w, f, a) |-> {Unknown}]]

(* `depth`: how many closures the values sit inside; `none` stands for a   *)
(* name that no value reaches.                                             *)
RECURSIVE Flatten(_, _, _, _, _)
RECURSIVE FlatValue(_, _, _, _, _)

Free(w, f, a, depth, cl, none) ==
    [x \in w.p.free[f] |-> Flatten(w, LookupIn(w, f, a, x), depth, cl, none)]
Defaults(w, f, a, depth, cl, none) ==
    [x \in DOMAIN DefaultsOf(w, f, a) |-> Flatten(w, DefaultsOf(w, f, a)[x], depth, cl, none)]

FlatClosure(w, f, a, depth, cl, none) ==
    [k |-> "closure", f |-> f,
     free |-> Free(w, f, a, depth + 1, Append(cl, <<f, a>>), none),
     defs |-> Defaults(w, f, a, depth + 1, Append(cl, <<f, a>>), none)]

Mutant_NoLimit(w, v, depth, cl, none) ==
    IF v.k # "closure" THEN Plain(v)
    ELSE IF Levels(cl, <<v.f, v.n>>) # {} THEN Back(Nearest(Levels(cl, <<v.f, v.n>>)))
    ELSE IF depth = FpDepth + 1 THEN AtLimit(w, v.f, v.n)
    ELSE FlatClosure(w, v.f, v.n, depth, cl, none)
Mutant_BackFromOutside(w, v, depth, cl, none) ==
    IF v.k # "closure" THEN Plain(v)
    ELSE IF Levels(cl, <<v.f, v.n>>) # {}
         THEN Back(Len(cl) - 1 - Nearest(Levels(cl, <<v.f, v.n>>)))
    ELSE IF depth = FpDepth THEN AtLimit(w, v.f, v.n)
    ELSE FlatClosure(w, v.f, v.n, depth, cl, none)
FlatValue(w, v, depth, cl, none) ==
    IF v.k # "closure" THEN Plain(v)
    ELSE IF Levels(cl, <<v.f, v.n>>) # {} THEN Back(Nearest(Levels(cl, <<v.f, v.n>>)))
    ELSE IF depth = FpDepth THEN AtLimit(w, v.f, v.n)
    ELSE FlatClosure(w, v.f, v.n, depth, cl, none)

Flatten(w, vals, depth, cl, none) ==
    IF vals = {} THEN none ELSE {FlatValue(w, v, depth, cl, none) : v \in vals}

-----------------------------------------------------------------------------
(* Keys: no value is keyed as Unknown.                                     *)
Fingerprint(w, vals) == Flatten(w, vals, 0, <<>>, {Unknown})

(* A parameter that the walk cannot be affected by is Unknown.  `run` is   *)
(* where the called closure was made; it counts as a closure.              *)
Mutant_KeyWithoutClosure(w, f, slots, run) ==
    [func |-> f,
     args |-> [i \in DOMAIN slots |->
                 IF w.p.relevant[f][i] THEN Fingerprint(w, slots[i]) ELSE {Unknown}],
     free |-> <<>>, defs |-> <<>>]
Key(w, f, slots, run) ==
    [func |-> f,
     args |-> [i \in DOMAIN slots |->
                 IF w.p.relevant[f][i] THEN Fingerprint(w, slots[i]) ELSE {Unknown}],
     free |-> IF run = NoRun THEN <<>> ELSE Free(w, f, run, 1, <<<<f, run>>>>, {Unknown}),
     defs |-> IF run = NoRun THEN <<>> ELSE Defaults(w, f, run, 1, <<<<f, run>>>>, {Unknown})]

(* Summaries: no value stays no value.                                     *)
ToSvals(w, vals) == Flatten(w, vals, 0, <<>>, {})

-----------------------------------------------------------------------------
(* From flattened values to values of this walk: w with the values in w.v, *)
(* and a flat activation for every closure rebuilt.                        *)
RECURSIVE Rebuild(_, _, _, _)
RECURSIVE RebuildNames(_, _, _, _, _)

NamesAfter(w, m, x, todo, done, cl) == RebuildNames(w, m, todo, Put(done, x, w.v), cl)
RebuildNames(w, m, todo, done, cl) ==   \* the values of each name of m in w.named
    IF todo = {} THEN [w EXCEPT !.named = done]
    ELSE LET x == CHOOSE x \in todo : TRUE
         IN NamesAfter(Rebuild(w, m[x], {}, cl), m, x, todo \ {x}, done, cl)

(* The activation of a closure: its free values, then its defaults.        *)
WithFree(w, a) == [w EXCEPT !.acts[a].loc = w.named]
WithDefaults(w, f, a) == [w EXCEPT !.defs = Put(@, <<f, a>>, w.named), !.v = {Closure(f, a)}]
RebuildIn(w, c, a, cl) ==
    WithDefaults(RebuildNames(WithFree(RebuildNames(w, c.free, DOMAIN c.free, <<>>, cl), a),
                              c.defs, DOMAIN c.defs, <<>>, cl), c.f, a)
RebuildRun(w, c, cl) ==
    RebuildIn([w EXCEPT !.acts = Append(@, FlatEnv)], c, Len(w.acts) + 1,
              Append(cl, <<c.f, Len(w.acts) + 1>>))

RebuildOne(w, x, cl) ==
    CASE x.k = "back" -> [w EXCEPT !.v = {Closure(cl[Len(cl) - x.back][1], cl[Len(cl) - x.back][2])}]
      [] x.k = "closure" -> RebuildRun(w, x, cl)
      [] OTHER -> [w EXCEPT !.v = {x}]

OthersAfter(w, others, vals, cl) == Rebuild(w, others, vals \cup w.v, cl)
Rebuild(w, flat, vals, cl) ==
    IF flat = {} THEN [w EXCEPT !.v = vals]
    ELSE LET x == CHOOSE x \in flat : TRUE
         IN OthersAfter(RebuildOne(w, x, cl), flat \ {x}, vals, cl)

Resolve(w, svals) == Rebuild(w, svals, {}, <<>>)

(* The slots of a context's parameters, one after the other.               *)
RECURSIVE BindSlots(_, _, _)
SlotAfter(w, x, params, args) ==
    BindSlots([w EXCEPT !.env = Bind(@, x, w.v)], params, args)
BindSlots(w, params, args) ==
    IF params = <<>> THEN w
    ELSE SlotAfter(Rebuild(w, Head(args), {}, <<>>), Head(params).n, Tail(params), Tail(args))

(* The starting env of a context's walk, in w.env.                         *)
Captured(w, ctx) ==
    IF DOMAIN ctx.free = {} /\ DOMAIN ctx.defs = {}
    THEN [w EXCEPT !.env = [EmptyEnv EXCEPT !.scope = ctx.func]]
    ELSE [RebuildRun(w, [f |-> ctx.func, free |-> ctx.free, defs |-> ctx.defs], <<>>)
            EXCEPT !.env = [EmptyEnv EXCEPT !.scope = ctx.func, !.up = Len(w.acts) + 1]]
Materialize(w, ctx) ==
    BindSlots(Captured(w, ctx), w.p.fun[ctx.func].params, ctx.args)

=============================================================================
