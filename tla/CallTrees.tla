----------------------------- MODULE CallTrees -----------------------------
(***************************************************************************)
(* A request for a call tree (interp/mod.rs, call_tree): the same program  *)
(* in inline mode and in summary mode, beside what Python does.            *)
(***************************************************************************)
EXTENDS BodyWalk, PyRuns

CONSTANTS Programs,     \* the programs checked
          NotYet        \* of a step that was not taken

VARIABLES prog,         \* the program, indexed
          tree,         \* inline mode's tree, as [kids, open]
          graph,        \* summary mode's graph of contexts
          shown,        \* the tree rendered from it, as [kids, open]
          calls         \* the calls Python makes
vars == <<prog, tree, graph, shown, calls>>

Init ==
    /\ prog \in {Indexed(p) : p \in Programs}
    /\ tree = NotYet
    /\ graph = NotYet
    /\ shown = NotYet
    /\ calls = NotYet

WalkInline ==
    /\ tree = NotYet
    /\ \E w \in {InlineTree(prog)} :
          tree' = [kids |-> w.kids, open |-> w.open, ctxs |-> w.ctxs]
    /\ UNCHANGED <<prog, graph, shown, calls>>

SolveEntry ==
    /\ tree # NotYet
    /\ graph = NotYet
    /\ graph' = SolvedGraph(prog)
    /\ UNCHANGED <<prog, tree, shown, calls>>

RenderGraph ==
    /\ graph # NotYet
    /\ shown = NotYet
    /\ shown' = [kids |-> Render(graph, {RootContext(prog)}, <<prog.entry>>),
                 open |-> graph[RootContext(prog)].open]
    /\ UNCHANGED <<prog, tree, graph, calls>>

RunPython ==
    /\ shown # NotYet
    /\ calls = NotYet
    /\ calls' = CallsMade(prog)
    /\ UNCHANGED <<prog, tree, graph, shown>>

Answered == calls # NotYet
Finished == Answered /\ UNCHANGED vars

Next == WalkInline \/ SolveEntry \/ RenderGraph \/ RunPython \/ Finished
Spec == Init /\ [][Next]_vars

-----------------------------------------------------------------------------
(* The calls of a tree, and the sites at which it calls unknown values,    *)
(* each with the calls above.                                              *)
RECURSIVE PathsOf(_, _)
PathsOf(kids, above) ==
    UNION {LET here == Append(above, <<n.site, n.name>>)
           IN {here} \cup PathsOf(n.kids, here) : n \in kids}
RECURSIVE OpensOf(_, _)
OpensOf(t, above) ==
    (IF t.open = {} THEN {} ELSE {<<above, t.open>>})
    \cup UNION {OpensOf(n, Append(above, <<n.site, n.name>>)) : n \in t.kids}

HasClasses(p) == DOMAIN p.cls # {}
Certain(p) ==       \* what is evaluated has a value
    \A f \in DOMAIN p.fun : \A s \in Statements(p.fun[f].body) : s.k \notin {"try", "raise"}
Straight(p) ==      \* one path through each function
    \A f \in DOMAIN p.fun :
        /\ \A s \in Statements(p.fun[f].body) : s.k \notin {"if", "for", "while", "match"}
        /\ \A e \in ExprsOf(p, f) : e.k \notin {"or", "cond"}

(* Type invariant.  A name that is already above is marked as recursive,   *)
(* and only such a name is; it has no children (inline_node's path guard,  *)
(* render's).  Every edge of the graph leads to a context with a summary.  *)
RECURSIVE TreeOK(_, _)
TreeOK(kids, above) ==
    \A n \in kids :
        /\ n.name \in DOMAIN prog.fun \cup DOMAIN prog.cls
        /\ n.recursive <=> n.name \in above
        /\ n.recursive => n.kids = {}
        /\ TreeOK(n.kids, above \cup {n.name})
TypeOK ==
    /\ tree # NotYet => TreeOK(tree.kids, {prog.entry})
    /\ graph # NotYet =>
        /\ RootContext(prog) \in DOMAIN graph
        /\ \A ctx \in DOMAIN graph : \A e \in graph[ctx].calls : e.target \in DOMAIN graph
    /\ shown # NotYet => TreeOK(shown.kids, {prog.entry})

(* The calls above and at a call are nodes of the tree, down to it, to a   *)
(* [recursive] leaf, or to a site at which the walk called a value it did  *)
(* not know.                                                               *)
RECURSIVE Shows(_, _)
Shows(t, path) ==
    \/ path = <<>>
    \/ Head(path)[1] \in t.open
    \/ \E n \in t.kids : /\ <<n.site, n.name>> = Head(path)
                         /\ n.recursive \/ Shows(n, Tail(path))

(* Nothing is missed: every call that some run of the program makes, by    *)
(* any branch, with any exception and whatever a closure, a default, an    *)
(* argument or an attribute then holds, is shown by inline mode's tree.    *)
CallsShown == Answered => \A path \in calls : Shows(tree, path)

(* The same of the tree rendered from the summaries, whose contexts were   *)
(* each walked once, from a key, and merged again at their sites (render). *)
(* Summary mode does not follow objects: it asks ty of them.               *)
CallsShownInSummary ==
    Answered /\ ~HasClasses(prog) => \A path \in calls : Shows(shown, path)

(* Nothing is made up: where every value is known, each path of the inline *)
(* tree is one that some run takes.  Tests may come out either way, but    *)
(* the same way for two variables joined; so, with objects, whose state    *)
(* goes from call to call, only for straight-line code, and no exception   *)
(* ends an expression halfway.                                             *)
OnlyRealCalls ==
    Answered /\ Certain(prog) /\ (HasClasses(prog) => Straight(prog)) /\ OpensOf(tree, <<>>) = {}
    => PathsOf(tree.kids, <<>>) \subseteq calls

(* How deep closures nest in a flattened value.                            *)
RECURSIVE Nesting(_)
Deepest(vals) == Max({0} \cup {Nesting(x) : x \in vals})
Nesting(x) ==
    IF x.k # "closure" THEN 0 ELSE 1 + Deepest(UNION (Range(x.free) \cup Range(x.defs)))

(* A context's closure counts as one.                                      *)
NestingOf(ctx) ==
    Max({Deepest(UNION Range(ctx.args)),
         IF ctx.free = <<>> /\ ctx.defs = <<>> THEN 0
         ELSE 1 + Deepest(UNION (Range(ctx.free) \cup Range(ctx.defs)))})
Uncut == \A ctx \in DOMAIN graph : NestingOf(ctx) <= FpDepth /\ Deepest(graph[ctx].returns) <= FpDepth

(* The two modes agree ("The same expected trees must come out of each",   *)
(* fixture.rs): each shows what the other shows, and while no closure is   *)
(* nested so deep that a key or a summary cuts it, the trees are the same, *)
(* and call unknown values at the same places.                             *)
ModesAgree ==
    Answered /\ ~HasClasses(prog) =>
        /\ \A path \in PathsOf(tree.kids, <<>>) : Shows(shown, path)
        /\ \A path \in PathsOf(shown.kids, <<>>) : Shows(tree, path)
        /\ Uncut => /\ PathsOf(tree.kids, <<>>) = PathsOf(shown.kids, <<>>)
                    /\ {o[1] : o \in OpensOf(tree, <<>>)} = {o[1] : o \in OpensOf(shown, <<>>)}

(* A key, made into values and keyed again.                                *)
Rekeyed(p, ctx) ==
    LET w == Materialize(NewWalk(p, "summary", ctx.func, <<>>), ctx)
        params == p.fun[ctx.func].params
    IN Key(w, ctx.func, [i \in DOMAIN params |-> w.env.loc[params[i].n]], w.env.up)

(* A key says all that its walk reads: the walk started from a key has the *)
(* values whose key it is (materialize undoes key, with closures that hold *)
(* themselves or each other).  Else one context would be solved twice, or  *)
(* a recursive one under ever new keys.                                    *)
KeysAreCanonical ==
    Answered => \A ctx \in DOMAIN graph \cup tree.ctxs : Rekeyed(prog, ctx) = ctx

(* The set of contexts is finite: closures in a key nest no deeper than    *)
(* fp_depth, and one more of which only the function is left.              *)
KeysBounded == Answered => \A ctx \in DOMAIN graph \cup tree.ctxs : NestingOf(ctx) <= FpDepth + 1

=============================================================================
