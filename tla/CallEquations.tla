--------------------------- MODULE CallEquations ----------------------------
(***************************************************************************)
(* What the summaries of a program should be: one equation for each        *)
(* context, read off its body with every call already answered.  No walk,  *)
(* no order, no recursion guard: the reference the solver is compared with. *)
(***************************************************************************)
EXTENDS CallBodies

(* The contexts call site i of c reaches, given the values of earlier sites. *)
SiteCtxs(p, c, vals, i) ==
    LET s == p[c.func].sites[i] IN
    {Key(f, Eval(s.arg, c, vals).known) : f \in Eval(s.callee, c, vals).known \cap Func}

(* A call that has an argument with no value is never made.                *)
SiteValue(p, R, c, vals, i) ==
    LET s == p[c.func].sites[i] IN
    (Eval(s.callee, c, vals).known \cap {Unknown}) \cup
    (IF Eval(s.arg, c, vals).known = {} THEN {}
     ELSE UNION {R[d] : d \in SiteCtxs(p, c, vals, i)})

SiteValues(p, R, c) ==
    LET vals[i \in 0..Len(p[c.func].sites)] ==
            IF i = 0 THEN <<>>
            ELSE Append(vals[i - 1], [known |-> SiteValue(p, R, c, vals[i - 1], i),
                                      pending |-> {}])
    IN vals[Len(p[c.func].sites)]

Returns(p, R, c) == Eval(p[c.func].rets, c, SiteValues(p, R, c)).known

(* One edge for each call site: the contexts it reaches.                   *)
Edges(p, R, c) ==
    [i \in DOMAIN p[c.func].sites |-> SiteCtxs(p, c, SiteValues(p, R, c), i)]

(* Those of the calls that are made: the argument has a value.             *)
MadeCalls(p, R, c) ==
    LET vals == SiteValues(p, R, c) IN
    UNION {SiteCtxs(p, c, vals, i) :
              i \in {i \in DOMAIN p[c.func].sites :
                        Eval(p[c.func].sites[i].arg, c, vals).known # {}}}

=============================================================================
