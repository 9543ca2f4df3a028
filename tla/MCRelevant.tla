----------------------------- MODULE MCRelevant -----------------------------
(* Bodies for the runs of RelevantWalk: two parameters, two locals.        *)
EXTENDS RelevantWalk

CONSTANTS p, q, x, y
Names == {p, q, x, y}
PQ == {p, q}

To(k, ns) == {[kind |-> k, names |-> ns]}
E(k, ns) == [kind |-> k, names |-> ns, named |-> {}]
S(k, to, e) == [kind |-> k, to |-> to, value |-> e, nested |-> FALSE]
None == E("opaque", {})

(* The flows: a chain of them may stand in any order.                      *)
Assigns == {S("assign", To("name", {b}), E("name", {a})) :
               <<a, b>> \in {<<p, x>>, <<q, x>>, <<x, y>>, <<y, x>>, <<y, p>>}}
OtherFlows ==
    {S("assign", To("unpacked", {x, y}), E("opaque", {p, q})),
     S("assign", To("name", {x}), E("either", {p, y})),
     S("assign", To("name", {q}), E("call", {})),
     S("augassign", To("name", {y}), E("name", {q})),
     S("for", To("name", {p}), E("name", {x})),
     S("expr", {}, [kind |-> "name", names |-> {p}, named |-> {y}])}
Stored ==
    {S("assign", To("attribute", {x}), E("name", {y})),
     S("assign", To("subscript", {y}), E("await", {p})),
     S("for", To("attribute", {x}), E("opaque", {q}))}
Sinks ==
    {S("return", {}, E("name", {x})),
     S("expr", {}, E("call", {x, y})),
     S("with", To("name", {x}), E("name", {y})),
     S("match", To("name", {y}), E("name", {x})),
     S("expr", {}, E("nested", {q}))}
Others ==
    {S("expr", {}, E("name", {p})),
     S("import", To("name", {x}), None),
     S("global", To("name", {x}), None),
     S("def", To("name", {y}), E("nested", {x})),
     [S("global", To("name", {y}), None) EXCEPT !.nested = TRUE],
     [S("assign", To("name", {x}), E("name", {q})) EXCEPT !.nested = TRUE]}
Stmts == Assigns \cup OtherFlows \cup Stored \cup Sinks \cup Others

ShortBodies == UNION {[1..n -> Stmts] : n \in 0..3}
=============================================================================
