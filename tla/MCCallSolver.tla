---------------------------- MODULE MCCallSolver ----------------------------
(* Programs and constants for the runs of CallSolver.                      *)
EXTENDS CallSolverResults, CallSolverReaders, TLC

Fn(fs) == [consts |-> fs, param |-> FALSE, sites |-> {}]
Of(is) == [consts |-> {}, param |-> FALSE, sites |-> is]
Param == [consts |-> {}, param |-> TRUE, sites |-> {}]
e | g == [consts |-> e.consts \cup g.consts, param |-> e.param \/ g.param,
          sites |-> e.sites \cup g.sites]
Nil == Fn({})
Call(callee, arg) == [callee |-> callee, arg |-> arg]
Direct(f) == Call(Fn({f}), Fn({Unknown}))
Def(sites, rets) == [sites |-> sites, rets |-> rets]

F3 == {1, 2, 3}
First == {1}

(* Every graph of direct calls on three functions, two of them making at   *)
(* most two calls and one at most one, each returning what they return and *)
(* perhaps a value of its own.                                             *)
DirectBodies ==
    {Def(cs, Fn(b) | Of(DOMAIN cs)) :
        cs \in {<<>>} \cup {<<Direct(f)>> : f \in F3}
                      \cup {<<Direct(f), Direct(g)>> : f \in F3, g \in F3},
        b \in {{}, {1}}}
DirectPrograms == {p \in [F3 -> DirectBodies] : Len(p[3].sites) < 2 /\ p[3].rets.consts = {}}

(* Programs whose cycles need deferred calls: the value of a call is       *)
(* called, or passed to function 3, whose parameter is relevant.           *)
Opaque == Fn({Unknown})
Bases == {{2}}
ValueBodies ==
    {Def(<<>>, Fn({f})) : f \in F3} \cup
    {Def(<<Direct(f)>>, Of({1}) | Fn(b)) : f \in F3, b \in Bases} \cup
    {Def(<<Direct(f), Call(Of({1}), Opaque)>>, Of({2}) | Fn(b)) : f \in F3, b \in Bases} \cup
    {Def(<<Direct(f), Call(Fn({3}), Of({1}))>>, Of({2}) | Fn(b)) : f \in F3, b \in Bases} \cup
    {Def(<<Call(Fn({3}), Fn({f}))>>, Of({1}) | Fn(b)) : f \in F3, b \in Bases} \cup
    {Def(<<Call(Fn({2, 3}), Fn({1}))>>, Of({1}) | Fn(b)) : b \in Bases}
ParamBodies ==
    {Def(<<>>, Param)} \cup
    {Def(<<Direct(f)>>, Of({1}) | Param) : f \in F3} \cup
    {Def(<<Call(Param, Opaque)>>, Of({1}) | e) : e \in {Nil, Param}} \cup
    {Def(<<Call(Param, Param)>>, Of({1}))} \cup
    {Def(<<Direct(f), Call(Fn({3}), Of({1}))>>, Of({2}) | Param) : f \in F3} \cup
    {Def(<<Direct(f), Call(Param, Of({1}))>>, Of({1, 2})) : f \in {1, 2}}
ValuePrograms ==
    {p \in [F3 -> ValueBodies \cup ParamBodies] :
        p[1] \in ValueBodies /\ p[2] \in ValueBodies /\ p[3] \in ParamBodies}
CyclePrograms == DirectPrograms \cup ValuePrograms
Third == {3}

-----------------------------------------------------------------------------
(* The groups of the repository's own fixture (02-function-summaries,      *)
(* groups.py).  1 and 2 are leaves; 7 is the one with a relevant parameter. *)
F7 == 1..7
Seventh == {7}
Leaf == Def(<<>>, Opaque)
Program(body) == [f \in F7 |-> IF f \in DOMAIN body THEN body[f] ELSE Leaf]

(* a, b and c are 3, 4 and 5.                                              *)
ThreeHops == Program(
    (3 :> Def(<<Direct(4)>>, Of({1}) | Fn({1}))) @@
    (4 :> Def(<<Direct(5)>>, Of({1}))) @@
    (5 :> Def(<<Direct(3)>>, Of({1}))))
(* ping 3, pong 4.                                                         *)
PingPong == Program(
    (3 :> Def(<<Direct(4), Call(Of({1}), Opaque)>>, Fn({1}))) @@
    (4 :> Def(<<Direct(3)>>, Of({1}))))
(* outer 3, x 4, y 5.                                                      *)
Merge == Program(
    (3 :> Def(<<Direct(4)>>, Of({1}))) @@
    (4 :> Def(<<Direct(5)>>, Of({1}) | Fn({3}))) @@
    (5 :> Def(<<Direct(4), Call(Of({1}), Opaque)>>, Of({2}))))
(* parse_expr 3, parse_atom 4, combine 7.                                  *)
ParseExpr == Def(<<Direct(4), Call(Fn({7}), Of({1}))>>, Of({2}))
ParseAtom == Def(<<Direct(3)>>, Of({1}) | Fn({1}))
Parser == Program(
    (3 :> ParseExpr) @@ (4 :> ParseAtom) @@
    (7 :> Def(<<Direct(3)>>, Param | Fn({2}))))
(* walk_list 5, walk_back 6, nested_combine 7.                             *)
Nested == Program(
    (3 :> ParseExpr) @@ (4 :> ParseAtom) @@
    (5 :> Def(<<Direct(5)>>, Of({1}) | Fn({1}))) @@
    (6 :> Def(<<Direct(6), Call(Of({1}), Opaque), Call(Of({2}), Opaque)>>, Of({1}) | Fn({3}))) @@
    (7 :> Def(<<Direct(5), Direct(6), Direct(3)>>, Param | Fn({2}))))
(* helper 5, helper2 6, up_combine 7.                                      *)
Up == Program(
    (3 :> ParseExpr) @@ (4 :> ParseAtom) @@
    (5 :> Def(<<Direct(6)>>, Of({1}) | Fn({1}))) @@
    (6 :> Def(<<Direct(3), Call(Of({1}), Opaque), Direct(5)>>, Of({3}))) @@
    (7 :> Def(<<Direct(5)>>, Param | Fn({2}))))
GroupPrograms == {ThreeHops, PingPong, Merge, Parser, Nested, Up}

-----------------------------------------------------------------------------
(* A call that has no value for its argument, in a group nested in the     *)
(* fixpoint of another: 5 passes 7 what 6 returns, and 6 only raises.      *)
NoArgument == Program(
    (3 :> Def(<<Direct(3), Call(Of({1}), Opaque)>>, Of({1}) | Fn({4}))) @@
    (4 :> Def(<<Direct(4), Call(Of({1}), Opaque)>>, Of({1}) | Fn({5}))) @@
    (5 :> Def(<<Direct(4), Direct(6), Call(Fn({7}), Of({2}))>>, Nil)) @@
    (6 :> Def(<<>>, Nil)) @@
    (7 :> Def(<<Direct(3), Direct(4)>>, Nil)))
NoArgumentPrograms == {NoArgument}
=============================================================================
