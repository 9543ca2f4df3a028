------------------------------ MODULE BodyWalk ------------------------------
(***************************************************************************)
(* The abstract interpreter: statements and expressions (interp/walk.rs),  *)
(* calls (interp/call.rs), members (interp/member.rs), in both modes.      *)
(*                                                                         *)
(* In "inline" mode every call is walked where it is made and the tree     *)
(* grows with the walk.  In "summary" mode a call is a context, walked     *)
(* once on its own; the tree is rendered from the graph afterwards         *)
(* (interp/render.rs).  Each operator takes the state w of the walk and    *)
(* gives the state after it.  Besides what WalkEnvs and ContextKeys read,  *)
(* w has                                                                   *)
(*   p, mode     the program, the mode                                     *)
(*   func, act   the frame: the function walked and its activation         *)
(*   env, live   the environment, and whether this path goes on            *)
(*   arms        the environments at the end of the arms walked so far     *)
(*   v, vs       the value of the last expression, of the last list        *)
(*   rets, exits what the body returned, and its environments there        *)
(*   kids, path  the nodes below this one (inline), the names above it     *)
(*   calls       the edges of this body (summary)                          *)
(*   graph, ctxs the summaries, by context, and every context keyed        *)
(*   open        for the properties only: the sites of this body at which  *)
(*               an unknown value was called                               *)
(*                                                                         *)
(* A context that is called again while it is walked is not modelled here  *)
(* but in CallSolver: the programs have none.                              *)
(***************************************************************************)
EXTENDS ContextKeys, ArgBinding

NewWalk(p, mode, f, graph) ==
    [p |-> p, mode |-> mode, func |-> f, act |-> 1, env |-> EmptyEnv, live |-> TRUE,
     arms |-> {}, v |-> {}, vs |-> <<>>, named |-> <<>>, rets |-> {}, exits |-> {},
     kids |-> {}, path |-> <<>>, calls |-> {}, open |-> {}, graph |-> graph, ctxs |-> {},
     acts |-> <<EmptyEnv>>, defs |-> <<>>, origins |-> <<<<0, NoRun>>>>, recvs |-> <<>>]

Node(name, site, recursive, kids, open) ==
    [name |-> name, site |-> site, recursive |-> recursive, kids |-> kids, open |-> open]

(* All recursion goes through Walk: w after an expression, a statement or  *)
(* a block, whichever x is.                                                *)
RECURSIVE Walk(_, _)

RECURSIVE EvalEach(_, _, _)
EvalEach(w, es, vs) ==      \* left to right, the values in vs
    IF es = <<>> THEN [w EXCEPT !.vs = vs]
    ELSE LET r == Walk(w, Head(es)) IN EvalEach(r, Tail(es), Append(vs, r.v))

Yields(w, vals) == [w EXCEPT !.v = vals]

Return(w) == [w EXCEPT !.rets = @ \cup w.v, !.exits = @ \cup {w.env}, !.live = FALSE]

-----------------------------------------------------------------------------
(* Calls.                                                                  *)

(* A frame for f's body, with f's values in its slots.                     *)
Entered(w, f, run, slots) ==
    [w EXCEPT !.acts = Append(@, EmptyEnv), !.func = f, !.act = Len(w.acts) + 1,
              !.env = [EnvFromBound(w, f, slots)
                         EXCEPT !.scope = f, !.up = run, !.attrs = w.env.attrs],
              !.live = TRUE, !.arms = {}, !.rets = {}, !.exits = {}, !.kids = {}, !.open = {},
              !.ctxs = @ \cup {Key(w, f, slots, run)}]
Enter(w, f, recv, args, run) == Entered(w, f, run, BindParameters(w, f, recv, args, run))

(* Falling off the end returns None.                                       *)
Ended(w) == IF w.live THEN Return(Yields(w, {Data})) ELSE w

(* Back to the caller, which goes on with the objects as the callee left   *)
(* them, under a new node.                                                 *)
Mutant_LeaveOnPath(w, r, name, site) ==
    [r EXCEPT !.func = w.func, !.act = w.act, !.live = TRUE, !.arms = w.arms, !.rets = w.rets,
              !.exits = w.exits, !.open = w.open,
              !.env = IF r.exits = {} THEN w.env
                      ELSE [w.env EXCEPT !.attrs = Join(r.exits).attrs],
              !.v = IF w.p.gen[r.func] THEN {Unknown} ELSE r.rets,
              !.kids = w.kids \cup {Node(name, site, FALSE, r.kids, r.open)}]
Leave(w, r, name, site) ==
    [r EXCEPT !.func = w.func, !.act = w.act, !.live = TRUE, !.arms = w.arms, !.rets = w.rets,
              !.exits = w.exits, !.path = w.path, !.open = w.open,
              !.env = IF r.exits = {} THEN w.env
                      ELSE [w.env EXCEPT !.attrs = Join(r.exits).attrs],
              !.v = IF w.p.gen[r.func] THEN {Unknown} ELSE r.rets,
              !.kids = w.kids \cup {Node(name, site, FALSE, r.kids, r.open)}]

(* A name already on the path is a leaf: nothing is walked.                *)
InlineNode(w, name, site, f, run, recv, args) ==
    IF name \in Range(w.path)
    THEN [w EXCEPT !.v = {Unknown}, !.kids = @ \cup {Node(name, site, TRUE, {}, {})}]
    ELSE Leave(w, Ended(Walk(Enter([w EXCEPT !.path = Append(@, name)], f, recv, args, run),
                             Block(w.p.fun[f].body))), name, site)

Unreached(w, never) == IF never THEN Yields(w, {}) ELSE w
CallFunction(w, f, run, recv, site, args) ==
    Unreached(InlineNode(w, f, site, f, run, recv, args),
              HasEmpty(args) /\ f \notin Range(w.path))

(* A new object, named by its site and the run that builds it.             *)
Init__(w, c, site, object, args) ==
    IF InitOf(w.p, c) = {}
    THEN [w EXCEPT !.kids = @ \cup {Node(c, site, FALSE, {}, {})}]
    ELSE InlineNode(w, c, site, CHOOSE f \in InitOf(w.p, c) : TRUE, NoRun, {object}, args)
Initialised(w, c, site, object, args) ==
    Yields(Init__(w, c, site, object, args), IF HasEmpty(args) THEN {} ELSE {object})
Construct(w, c, site, args) ==
    LET origins == Interned(w.origins, <<site, w.act>>)
    IN Initialised([w EXCEPT !.origins = origins], c, site,
                   Object(c, IndexOf(origins, <<site, w.act>>)), args)

(* What a site can enter; ty is asked for everything else.                 *)
Callable(w, v) ==
    v.k \in {"function", "closure"} \/ (w.mode = "inline" /\ v.k \in {"bound", "class"})

(* Targets, then methods, then classes, each in definition order.          *)
Rank(v) == CASE v.k \in {"function", "closure"} -> 1 [] v.k = "bound" -> 2 [] OTHER -> 3
Before(p, u, v) ==
    \/ Rank(u) < Rank(v)
    \/ Rank(u) = Rank(v) /\ DefPosition(p, u.f) < DefPosition(p, v.f)
    \/ Rank(u) = Rank(v) /\ DefPosition(p, u.f) = DefPosition(p, v.f) /\ u.n <= v.n
NextTarget(p, todo) == CHOOSE v \in todo : \A u \in todo : Before(p, v, u)

EnterTarget(w, v, site, args) ==
    IF v.k = "class" THEN Construct(w, v.f, site, args)
    ELSE CallFunction(w, v.f, IF v.k = "closure" THEN v.n ELSE NoRun,
                      IF v.k = "bound" THEN {w.recvs[v.n]} ELSE {}, site, args)

(* Callees at one site are alternatives: each starts from `before`.        *)
RECURSIVE EnterEach(_, _, _, _, _, _)
OthersEntered(w, before, todo, out, site, args) ==
    EnterEach([w EXCEPT !.arms = @ \cup {w.env}], before, todo, out \cup w.v, site, args)
EnterEach(w, before, todo, out, site, args) ==
    IF todo = {} THEN Yields(w, out)
    ELSE LET v == NextTarget(w.p, todo)
         IN OthersEntered(EnterTarget([w EXCEPT !.env = before], v, site, args), before,
                          todo \ {v}, out, site, args)

-----------------------------------------------------------------------------
(* Summary mode.                                                           *)
FinishRound(w) ==
    [calls |-> w.calls, open |-> w.open,
     returns |-> IF w.p.gen[w.func] THEN {Unknown} ELSE ToSvals(w, w.rets)]

(* A walk of its own, that reads the key and the code.                     *)
Summarised(w, ctx, r) == [w EXCEPT !.graph = Put(r.graph, ctx, FinishRound(r))]
Solve(w, ctx) ==    \* w with the summary of ctx in its graph
    IF ctx \in DOMAIN w.graph THEN w
    ELSE Summarised(w, ctx,
            Ended(Walk(Materialize(NewWalk(w.p, "summary", ctx.func, w.graph), ctx),
                       Block(w.p.fun[ctx.func].body))))

(* Solved, recorded and read; the value in v.                              *)
Read_(w, ctx, args) ==
    IF HasEmpty(args) THEN Yields(w, {}) ELSE Resolve(w, w.graph[ctx].returns)
CallProject(w, ctx, site, args) ==
    Read_([Solve(w, ctx) EXCEPT !.calls = @ \cup {[site |-> site, target |-> ctx]}], ctx, args)

ContextOf(w, f, run, args) == Key(w, f, BindParameters(w, f, {}, args, run), run)

RECURSIVE AskEach(_, _, _, _, _)
OthersAsked(w, todo, out, site, args) == AskEach(w, todo, out \cup w.v, site, args)
AskEach(w, todo, out, site, args) ==
    IF todo = {} THEN Yields(w, out)
    ELSE LET v == NextTarget(w.p, todo)
         IN OthersAsked(CallProject(w, ContextOf(w, v.f, IF v.k = "closure" THEN v.n ELSE NoRun, args),
                                    site, args), todo \ {v}, out, site, args)

-----------------------------------------------------------------------------
(* A call with its callees and arguments known.                            *)
AskTy(w, e, callees) ==
    LET asked == {v \in callees : ~Callable(w, v)}
    IN IF asked = {} THEN w
       ELSE [w EXCEPT !.v = @ \cup TyOf(w.p, e),
                      !.open = @ \cup IF asked \ {Data} = {} THEN {} ELSE {e.site}]

(* The paths of the callees meet again; ty's callee changes nothing.       *)
Met(w, r, ends) ==
    [r EXCEPT !.arms = w.arms, !.env = IF ends = {} THEN w.env ELSE Join(ends)]
AfterEach(w, r, asked) == Met(w, r, r.arms \cup IF asked THEN {w.env} ELSE {})

Enterable(w, e, args, todo, asked) ==
    IF w.mode = "summary" THEN AskEach(w, todo, {}, e.site, args)
    ELSE AfterEach(w, EnterEach([w EXCEPT !.arms = {}], w.env, todo, {}, e.site, args), asked)
CallValues(w, e, callees, args) ==
    LET todo == {v \in callees : Callable(w, v)}
    IN AskTy(Enterable(w, e, args, todo, todo # callees), e, callees)

(* What a `**` argument holds is dropped; a starred one leaves a mark.     *)
Arguments(e, vs) ==
    [pos |-> SelectSeq([i \in 1 .. Len(e.es) - 1 |->
                          [star |-> e.es[i + 1].k = "star", v |-> vs[i + 1]]],
                       LAMBDA a : ~a.star),
     kw |-> [x \in {q.n : q \in Range(e.kw)} \ {"**"} |->
               vs[Len(e.es) + CHOOSE i \in DOMAIN e.kw : e.kw[i].n = x]],
     splat |-> \E a \in Range(Tail(e.es)) : a.k = "star"]
Plainly(args) == [args EXCEPT !.pos = [i \in DOMAIN @ |-> @[i].v]]

(* The callee, the arguments left to right, the call.                      *)
CallWith(w, e) == CallValues(w, e, w.vs[1], Plainly(Arguments(e, w.vs)))
Call(w, e) == CallWith(EvalEach(w, Children(e), <<>>), e)

-----------------------------------------------------------------------------
(* Members.                                                                *)
ThroughTy(w, c, recv, x) ==     \* a member of class c, bound to our receiver
    IF x \in DOMAIN w.p.cls[c].methods
    THEN LET of == IF x \in w.p.cls[c].classmethods THEN Class(c) ELSE recv
             r == [w EXCEPT !.recvs = Interned(@, of)]
         IN Yields(r, {Method(w.p.cls[c].methods[x], IndexOf(r.recvs, of))})
    ELSE Yields(w, {Unknown})

OfClass(w, recv, x) ==      \* a method of the class itself stays unbound
    IF x \in DOMAIN w.p.cls[recv.f].methods /\ x \notin w.p.cls[recv.f].classmethods
    THEN Yields(w, {Fn(w.p.cls[recv.f].methods[x])})
    ELSE ThroughTy(w, recv.f, recv, x)

OwnState(w, recv, x) ==
    IF recv.n = Opaque THEN {} ELSE Held(w.env.attrs, <<recv.n, x>>)
Getters(w, c, x) ==
    IF w.mode = "inline" THEN UNION {parts.get : parts \in PropertyParts(w.p, c, x)} ELSE {}

Member(w, recv, x, site) ==
    IF recv.k = "class" THEN OfClass(w, recv, x)
    ELSE IF OwnState(w, recv, x) # {} THEN Yields(w, UNION OwnState(w, recv, x))
    ELSE IF Getters(w, recv.f, x) # {}
         THEN CallFunction(w, CHOOSE g \in Getters(w, recv.f, x) : TRUE, NoRun, {recv}, site, NoArgs)
    ELSE ThroughTy(w, recv.f, recv, x)

RECURSIVE MemberEach(_, _, _, _)
OthersRead(w, todo, e, out) == MemberEach(w, todo, e, out \cup w.v)
MemberEach(w, todo, e, out) ==
    IF todo = {} THEN Yields(w, out)
    ELSE LET v == CHOOSE v \in todo : TRUE
         IN OthersRead(Member(w, v, e.id, e.site), todo \ {v}, e, out)

MembersOf(w, e, ours) ==
    MemberEach(w, ours, e, IF ours = w.v THEN {} ELSE TyOf(w.p, e))
EvalMember(w, e) == MembersOf(w, e, {v \in w.v : v.k \in {"instance", "class"}})
EvalAttribute(w, e) == EvalMember(Walk(w, e.es[1]), e)

(* a.b = v, on every object a may be.                                      *)
SetMember(w, v, t, vals, strong, parts, setters) ==
    IF setters # {}
    THEN CallFunction(w, CHOOSE g \in setters : TRUE, NoRun, {v}, t.site,
                      [NoArgs EXCEPT !.pos = <<vals>>])
    ELSE IF parts = {} /\ v.n # Opaque
    THEN [w EXCEPT !.env = BindAttr(@, v.n, t.id, vals, strong)]
    ELSE w
SettersOf(w, parts) == IF w.mode = "inline" THEN UNION {q.set : q \in parts} ELSE {}

RECURSIVE BindEach(_, _, _, _, _)
BindEach(w, todo, t, vals, strong) ==
    IF todo = {} THEN w
    ELSE LET v == CHOOSE v \in todo : TRUE
             parts == PropertyParts(w.p, v.f, t.id)
         IN BindEach(SetMember(w, v, t, vals, strong, parts, SettersOf(w, parts)),
                     todo \ {v}, t, vals, strong)

Receivers(vals) == {v \in vals : v.k = "instance"}
Mutant_AlwaysStrong(w, t, vals) == BindEach(w, Receivers(w.v), t, vals, TRUE)
BindOn(w, t, vals) == BindEach(w, Receivers(w.v), t, vals, Cardinality(w.v) = 1)
BindAttribute(w, t, vals) == BindOn(Walk(w, t.es[1]), t, vals)

-----------------------------------------------------------------------------
(* Expressions: the value in v.                                            *)
(* A target that ty types: its element's type is not known.  What is no    *)
(* name, and holds none, is evaluated, for its calls.                      *)
RECURSIVE BindFromTy(_, _)
BindFromTy(w, t) ==
    CASE t.k = "name" -> [w EXCEPT !.env = Bind(@, t.id, {Unknown})]
      [] t.k = "unpack" -> FoldLeft(BindFromTy, w, t.es)
      [] OTHER -> Walk(w, t)

BindTarget(w, t, vals) ==
    CASE t.k = "name" -> [w EXCEPT !.env = Bind(@, t.id, vals)]
      [] t.k = "attr" -> BindAttribute(w, t, vals)
      [] OTHER -> BindFromTy(w, t)

Named(w, e) == BindTarget(w, [k |-> "name", id |-> e.id], w.v)

Eval(w, e) ==
    CASE e.k = "name" -> Yields(w, IF Lookup(w, w.env, e.id) = {} THEN TyOf(w.p, e)
                                   ELSE UNION Lookup(w, w.env, e.id))
      [] e.k = "named" -> Named(Walk(w, e.es[1]), e)
      [] e.k = "call" -> Call(w, e)
      [] e.k = "await" -> Walk(w, e.es[1])
      [] e.k = "lambda" -> Yields(w, {Unknown})
      [] e.k = "attr" -> EvalAttribute(w, e)
      [] e.k = "cond" ->        \* the test's value is ignored, both arms count
            LET r == EvalEach(w, e.es, <<>>) IN Yields(r, r.vs[2] \cup r.vs[3])
      [] e.k = "or" ->
            LET r == EvalEach(w, e.es, <<>>) IN Yields(r, UNION Range(r.vs))
      [] OTHER -> Yields(EvalEach(w, e.es, <<>>), TyOf(w.p, e))

-----------------------------------------------------------------------------
(* Statements.                                                             *)

(* An arm from env: its end joins the others, if it has one.               *)
Arm(w, env, body) ==
    LET r == Walk([w EXCEPT !.env = env, !.live = TRUE, !.arms = {}], Block(body))
    IN [r EXCEPT !.arms = w.arms \cup IF r.live THEN {r.env} ELSE {}]

(* The arms meet; `outer` are those of the statement around.               *)
Meet(w, outer) ==
    IF w.arms = {} THEN [w EXCEPT !.live = FALSE, !.arms = outer]
    ELSE [w EXCEPT !.live = TRUE, !.env = Join(w.arms), !.arms = outer]

RECURSIVE EvalDefaults(_, _, _)
EvalDefaults(w, params, done) ==    \* run by the def statement, and kept
    IF params = <<>> THEN [w EXCEPT !.named = done]
    ELSE IF Head(params).d = <<>> THEN EvalDefaults(w, Tail(params), done)
    ELSE LET r == Walk(w, Head(params).d[1])
         IN EvalDefaults(r, Tail(params), Put(done, Head(params).n, r.v))

FunctionDef(w, f) ==
    LET r == EvalDefaults(w, w.p.fun[f].params, <<>>)
    IN [r EXCEPT !.defs = Put(@, <<f, w.act>>, r.named),
                 !.env = Bind(@, f, {Closure(f, w.act)})]

RECURSIVE BindTargets(_, _, _)
BindTargets(w, ts, vals) ==
    IF ts = <<>> THEN w ELSE BindTargets(BindTarget(w, Head(ts), vals), Tail(ts), vals)

(* Ran zero times, or ran: the body is walked once.                        *)
Loop(w, inside, s) ==
    LET b == Arm([w EXCEPT !.arms = {w.env}], inside, s.bs[1])
    IN Walk(Meet(b, w.arms), Block(s.bs[2]))
For(w, before, s) ==
    LET b == BindFromTy(w, s.es[2]) IN Loop([b EXCEPT !.env = before], b.env, s)

(* A test runs if those before it failed; without an else, skipping is an  *)
(* arm.                                                                    *)
RECURSIVE IfArms(_, _, _)
IfArms(w, s, i) ==
    IF i > Len(s.bs)
    THEN IF Len(s.es) = Len(s.bs) THEN [w EXCEPT !.arms = @ \cup {w.env}] ELSE w
    ELSE IF i > Len(s.es) THEN Arm(w, w.env, s.bs[i])
    ELSE LET t == Walk(w, s.es[i])
         IN IfArms([Arm(t, t.env, s.bs[i]) EXCEPT !.env = t.env], s, i + 1)

(* A handler may start before the body or after it.                        *)
RECURSIVE Handlers(_, _, _)
Handlers(w, start, hs) ==
    IF hs = <<>> THEN w ELSE Handlers(Arm(w, start, Head(hs)), start, Tail(hs))

Finally(w, s) == IF w.live THEN Walk(w, Block(s.bs[3])) ELSE w

Try(w, s) ==
    LET b == Walk([w EXCEPT !.arms = {}], Block(s.bs[1]))
        start == IF b.live THEN Join({w.env, b.env}) ELSE w.env
        e == IF b.live THEN Arm([b EXCEPT !.arms = {}], b.env, s.bs[2]) ELSE [b EXCEPT !.arms = {}]
    IN Finally(Meet(Handlers(e, start, SubSeq(s.bs, 4, Len(s.bs))), w.arms), s)

(* Each case starts from the subject's env; or no case matches.            *)
Matched(env, names) ==
    [env EXCEPT !.loc = [x \in DOMAIN @ \cup names |-> IF x \in names THEN {Unknown} ELSE @[x]]]
RECURSIVE Cases(_, _, _, _)
Cases(w, before, s, i) ==
    IF i > Len(s.bs) THEN [w EXCEPT !.arms = @ \cup {before}]
    ELSE LET g == Walk([w EXCEPT !.env = Matched(before, s.ids[i])], s.es[i + 1])
         IN Cases(Arm(g, g.env, s.bs[i]), before, s, i + 1)

Match(w, s) == Meet(Cases([w EXCEPT !.arms = {}], w.env, s, 1), w.arms)

WalkStmt(w, s) ==
    CASE s.k = "return" ->
            Return(IF s.es = <<>> THEN Yields(w, {Data}) ELSE Walk(w, s.es[1]))
      [] s.k = "raise" -> [EvalEach(w, s.es, <<>>) EXCEPT !.live = FALSE]
      [] s.k = "def" -> FunctionDef(EvalEach(w, s.es, <<>>), CHOOSE f \in s.ids[1] : TRUE)
      [] s.k = "assign" -> LET r == Walk(w, s.es[1]) IN BindTargets(r, Tail(s.es), r.v)
      [] s.k = "while" -> LET r == Walk(w, s.es[1]) IN Loop(r, r.env, s)
      [] s.k = "for" ->
            LET r == Walk(w, s.es[1]) IN For(r, r.env, s)
      [] s.k = "if" -> Meet(IfArms([w EXCEPT !.arms = {}], s, 1), w.arms)
      [] s.k = "try" -> Try(w, s)
      [] s.k = "match" -> Match(Walk(w, s.es[1]), s)
      [] s.k = "with" ->
            Walk(FoldLeft(BindFromTy, Walk(w, s.es[1]), Tail(s.es)), Block(s.bs[1]))
      [] s.k = "import" ->
            [w EXCEPT !.env = Bind(@, CHOOSE x \in s.ids[1] : TRUE, TyOf(w.p, s.es[1]))]
      [] OTHER -> EvalEach(w, s.es, <<>>)       \* break and continue with the others

(* What closures read is written before each statement.                    *)
WalkStmts(w, body) ==
    IF body = <<>> \/ ~w.live THEN w
    ELSE Walk(Walk([w EXCEPT !.acts[w.act] = w.env], Head(body)), Block(Tail(body)))

Walk(w, x) ==
    CASE x.k = "block" -> WalkStmts(w, x.of)
      [] x.k \in Expressions -> Eval(w, x)
      [] OTHER -> WalkStmt(w, x)

-----------------------------------------------------------------------------
(* The two modes, from the entry called with no arguments: its body is the *)
(* first run.                                                              *)
Entry(w, f, slots) ==
    [w EXCEPT !.path = <<f>>, !.ctxs = {Key(w, f, slots, NoRun)},
              !.env = [EnvFromBound(w, f, slots) EXCEPT !.scope = f]]
InlineTree(p) ==
    LET w == NewWalk(p, "inline", p.entry, <<>>)
    IN Walk(Entry(w, p.entry, BindParameters(w, p.entry, {}, NoArgs, NoRun)),
            Block(p.fun[p.entry].body))

RootContext(p) ==
    LET w == NewWalk(p, "summary", p.entry, <<>>)
    IN Key(w, p.entry, BindParameters(w, p.entry, {}, NoArgs, NoRun), NoRun)
SolvedGraph(p) == Solve(NewWalk(p, "summary", p.entry, <<>>), RootContext(p)).graph

(* The nodes below one that stands for ctxs: every context of one function *)
(* reached at one site on this path; one child per site and function.      *)
RECURSIVE Render(_, _, _)
Mutant_RenderOne(graph, ctxs, path) ==
    LET edges == UNION {graph[c].calls : c \in ctxs}
        at(e) == CHOOSE t \in {t.target : t \in {t \in edges :
                    t.site = e.site /\ t.target.func = e.target.func}} : TRUE
        child(e) == LET f == e.target.func IN
            Node(f, e.site, f \in Range(path),
                 IF f \in Range(path) THEN {} ELSE Render(graph, {at(e)}, Append(path, f)),
                 IF f \in Range(path) THEN {} ELSE graph[at(e)].open)
    IN {child(e) : e \in edges}
Render(graph, ctxs, path) ==
    LET edges == UNION {graph[c].calls : c \in ctxs}
        at(e) == {t.target : t \in {t \in edges :
                    t.site = e.site /\ t.target.func = e.target.func}}
        child(e) == LET f == e.target.func IN
            Node(f, e.site, f \in Range(path),
                 IF f \in Range(path) THEN {} ELSE Render(graph, at(e), Append(path, f)),
                 IF f \in Range(path) THEN {} ELSE UNION {graph[c].open : c \in at(e)})
    IN {child(e) : e \in edges}

=============================================================================
