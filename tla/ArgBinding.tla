----------------------------- MODULE ArgBinding -----------------------------
(***************************************************************************)
(* What the parameters of a call hold: interp/bind.rs.                     *)
(*                                                                         *)
(* Evaluated arguments are [pos, kw, splat]: the values of the positional  *)
(* ones in order, those of the keyword ones by name, and whether an        *)
(* argument was starred.                                                   *)
(***************************************************************************)
EXTENDS WalkEnvs

NoArgs == [pos |-> <<>>, kw |-> <<>>, splat |-> FALSE]

(* Python never makes a call with an argument that has no value ...        *)
HasEmpty(args) == {} \in Range(args.pos) \cup Range(args.kw)
(* ... but its parameters are bound all the same.                          *)
OrUnknown(vals) == IF vals = {} THEN {Unknown} ELSE vals

DefaultValue(w, f, run, q) ==   \* {} or the set of its values
    IF q.d = <<>> THEN {}
    ELSE IF run = NoRun THEN {TyOf(w.p, q.d[1])}
    ELSE IF <<f, run>> \in DOMAIN w.defs THEN Held(w.defs[<<f, run>>], q.n) ELSE {}

(* The positional argument a parameter takes: keywords take none.          *)
Turn(params, i, skip, args) ==
    Cardinality({j \in skip + 1 .. i : params[j].kind = "pos" /\ params[j].n \notin DOMAIN args.kw})

(* `recv` is {} or {the receiver}: it is the first parameter, even when    *)
(* the rest cannot be matched.                                             *)
Skipped(w, f, recv) ==
    IF recv # {} /\ \E q \in Range(w.p.fun[f].params) : q.kind = "pos" THEN 1 ELSE 0

Mutant_ReceiverTakesATurn(w, f, recv, args, run) ==
    LET params == w.p.fun[f].params
        skip == Skipped(w, f, recv)
        turn(i) == Turn(params, i, 0, args)
        Slot(i) ==
            IF i <= skip THEN recv
            ELSE IF args.splat \/ ~w.p.fun[f].trusted \/ params[i].kind = "rest" THEN {Unknown}
            ELSE IF params[i].n \in DOMAIN args.kw THEN OrUnknown(args.kw[params[i].n])
            ELSE IF params[i].kind = "pos" /\ turn(i) <= Len(args.pos)
                 THEN OrUnknown(args.pos[turn(i)])
            ELSE IF DefaultValue(w, f, run, params[i]) # {}
                 THEN UNION DefaultValue(w, f, run, params[i])
            ELSE {Unknown}
    IN [i \in DOMAIN params |-> Slot(i)]
BindParameters(w, f, recv, args, run) ==
    LET params == w.p.fun[f].params
        skip == Skipped(w, f, recv)
        turn(i) == Turn(params, i, skip, args)
        Slot(i) ==
            IF i <= skip THEN recv
            ELSE IF args.splat \/ ~w.p.fun[f].trusted \/ params[i].kind = "rest" THEN {Unknown}
            ELSE IF params[i].n \in DOMAIN args.kw THEN OrUnknown(args.kw[params[i].n])
            ELSE IF params[i].kind = "pos" /\ turn(i) <= Len(args.pos)
                 THEN OrUnknown(args.pos[turn(i)])
            ELSE IF DefaultValue(w, f, run, params[i]) # {}
                 THEN UNION DefaultValue(w, f, run, params[i])
            ELSE {Unknown}
    IN [i \in DOMAIN params |-> Slot(i)]

EnvFromBound(w, f, slots) ==
    [EmptyEnv EXCEPT !.loc =
        [x \in {q.n : q \in Range(w.p.fun[f].params)} |->
            slots[CHOOSE i \in DOMAIN slots : w.p.fun[f].params[i].n = x]]]

=============================================================================
