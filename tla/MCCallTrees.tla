---------------------------- MODULE MCCallTrees ----------------------------
(* Programs for the runs of CallTrees.                                     *)
EXTENDS CallTrees, TLC

CONSTANT Family

-----------------------------------------------------------------------------
(* Syntax.                                                                 *)
E(k, id, es, kw, site) == [k |-> k, id |-> id, es |-> es, kw |-> kw, site |-> site]
Name(x) == E("name", x, <<>>, <<>>, 0)
Lit == E("data", "", <<>>, <<>>, 0)
CallOf(site, f, es, kw) == E("call", "", <<f>> \o es, kw, site)
CallN(site, f) == CallOf(site, Name(f), <<>>, <<>>)
Pass1(site, f, x) == CallOf(site, Name(f), <<Name(x)>>, <<>>)
Or(e, g) == E("or", "", <<e, g>>, <<>>, 0)
Cond(e, g) == E("cond", "", <<Lit, e, g>>, <<>>, 0)
Walrus(x, e) == E("named", x, <<e>>, <<>>, 0)
Await(e) == E("await", "", <<e>>, <<>>, 0)
Lambda == E("lambda", "", <<>>, <<>>, 0)
Yield(e) == E("yield", "", <<e>>, <<>>, 0)
Star(e) == E("star", "", <<e>>, <<>>, 0)
Unpack(ts) == E("unpack", "", ts, <<>>, 0)
Sub(e) == E("data", "", <<e>>, <<>>, 0)
Attr(site, e, x) == E("attr", x, <<e>>, <<>>, site)

S(k, ids, es, bs) == [k |-> k, ids |-> ids, es |-> es, bs |-> bs]
Let(x, e) == S("assign", <<>>, <<e, Name(x)>>, <<>>)
SetTo(x, y) == Let(x, Name(y))
Do(e) == S("expr", <<>>, <<e>>, <<>>)
Ret(e) == S("return", <<>>, <<e>>, <<>>)
RetNone == S("return", <<>>, <<>>, <<>>)
Raises == S("raise", <<>>, <<>>, <<>>)
Brk == S("break", <<>>, <<>>, <<>>)
Cnt == S("continue", <<>>, <<>>, <<>>)
If(es, bs) == S("if", <<>>, es, bs)
While(e, b, o) == S("while", <<>>, <<e>>, <<b, o>>)
Each(t, b, o) == S("for", <<>>, <<Lit, t>>, <<b, o>>)
TryS(b, o, fin, hs) == S("try", <<>>, <<>>, <<b, o, fin>> \o hs)
With(ts, b) == S("with", <<>>, <<Lit>> \o ts, <<b>>)
MatchS(xs, gs, bs) == S("match", xs, <<Lit>> \o gs, bs)
DefS(f) == S("def", <<{f}>>, <<>>, <<>>)
Import(x, f) == S("import", <<{x}>>, <<Name(f)>>, <<>>)

Param(n, kind, d) == [n |-> n, kind |-> kind, d |-> d]
Def(up, line, params, body) ==
    [up |-> up, line |-> line, params |-> params, body |-> body, trusted |-> TRUE]
Leaves == [f \in {"a", "b", "c"} |->
    CASE f = "a" -> Def(NoScope, 1, <<>>, <<>>)
      [] f = "b" -> Def(NoScope, 2, <<>>, <<>>)
      [] f = "c" -> Def(NoScope, 3, <<>>, <<>>)]
Boom == [f \in {"boom"} |-> Def(NoScope, 4, <<>>, <<Raises>>)]
Program(fun, cls) == [fun |-> fun @@ Leaves, cls |-> cls, entry |-> "run"]

-----------------------------------------------------------------------------
(* Control: f = a, a statement that may change f or leave, f().            *)
CallF(i) == <<Do(CallN(i, "f"))>>
Blocks(i) ==
    {<<>>, <<SetTo("f", "b")>>, CallF(i), <<Do(CallN(i, "f")), SetTo("f", "c")>>,
     <<RetNone>>, <<Raises>>}
Short(i) == {<<>>, <<SetTo("f", "b")>>, CallF(i), <<RetNone>>}

(* What the walk is known not to follow is left out: a call in a finally   *)
(* that an exception reaches and no handler lets through.                  *)
Tries ==
    {TryS(x, y, z, <<u>>) : x \in Short(11), y \in Short(12), z \in {<<>>, <<SetTo("f", "c")>>},
                            u \in Short(14)}
    \cup {TryS(x, y, CallF(13), <<u>>) : x \in Short(11), y \in Short(12), u \in {<<>>, CallF(14)}}
    \cup {TryS(<<>>, <<>>, CallF(13), <<>>)}
Unpackings ==
    {Unpack(<<Name("f"), Sub(CallN(10, "f"))>>), Unpack(<<Sub(CallN(10, "f")), Name("f")>>)}
Forms ==
    {If(<<Lit>>, <<x, y>>) : x \in Blocks(11), y \in Blocks(12)} \cup
    {If(<<Lit, CallN(10, "f")>>, <<x, y>>) : x \in Blocks(11), y \in Blocks(12)} \cup
    {If(<<Lit, Walrus("f", Name("c")), CallN(10, "f")>>, <<x, <<>>, y>>) :
        x \in Short(11), y \in Short(12)} \cup
    {While(CallN(10, "c"), x, y) : x \in Blocks(11), y \in Blocks(12)} \cup
    {Each(Name("i"), x, y) : x \in Blocks(11), y \in Short(12)} \cup
    {Each(Name("f"), x, y) : x \in Short(11), y \in Short(12)} \cup
    {MatchS(<<{}, {"f"}>>, <<CallN(10, "f"), Lit>>, <<x, y>>) : x \in Blocks(11), y \in Blocks(12)} \cup
    {With(z, x) : x \in Blocks(11), z \in {<<>>, <<Name("f")>>}} \cup
    {Each(t, x, y) : t \in Unpackings, x \in Short(11), y \in {<<>>, CallF(12)}} \cup
    {With(<<t>>, x) : t \in Unpackings, x \in Short(11)} \cup
    {S("assign", <<>>, <<Name("b")>> \o ts, <<>>) :
        ts \in {<<t>> : t \in Unpackings} \cup {<<Name("f"), Sub(CallN(10, "f"))>>}} \cup
    {If(<<Lit>>, <<<<Each(Name("i"), x, <<>>)>>, <<TryS(y, <<>>, <<>>, <<z>>)>>>>) :
        x \in Short(11), y \in Short(12), z \in Short(13)} \cup
    {Let("f", e) : e \in {Or(Name("f"), Name("b")), Cond(Name("b"), Name("c")), Lit,
                          Or(CallN(11, "f"), Walrus("f", Name("c"))), Lambda, Await(CallN(11, "f"))}} \cup
    {Import("f", "b"), S("assign", <<>>, <<Name("b"), Name("h"), Name("f")>>, <<>>),
     S("raise", <<>>, <<CallN(11, "f"), Walrus("f", Name("b"))>>, <<>>), Do(Or(Walrus("f", Name("b")), Lit))} \cup
    Tries
Controlled(s) == [f \in {"run"} |-> Def(NoScope, 9, <<>>, <<SetTo("f", "a"), s, Do(CallN(1, "f"))>>)]
ControlPrograms(which) ==
    {Program(Controlled(s), <<>>) : s \in Forms}
    \cup {Program(Boom @@ Controlled(Let("f", e)), <<>>) :
            e \in {Or(Name("b"), CallN(11, "boom")), CallN(11, "boom")}}

-----------------------------------------------------------------------------
(* Closures: g of run reads run's f as run last left it, makers return     *)
(* closures over their parameters, and what is passed to use is called.    *)
Pos(n) == Param(n, "pos", <<>>)
Of(n, y) == Param(n, "pos", <<Name(y)>>)
Uses == [f \in {"use"} |-> Def(NoScope, 4, <<Pos("p")>>, <<Do(CallN(41, "p"))>>)]
CallG == Do(CallN(21, "g"))
Steps(i) ==
    {<<>>, <<SetTo("f", "b")>>, <<If(<<Lit>>, <<<<SetTo("f", "c")>>>>)>>,
     <<Do(CallN(20 + i, "g"))>>, <<Do(Pass1(20 + i, "use", "g"))>>}
Ends ==
    {<<Do(CallN(1, "g"))>>, <<Do(Pass1(1, "use", "g"))>>,
     <<Let("x", CallN(1, "g")), Do(CallN(2, "x"))>>,
     <<Let("x", CallN(1, "g")), Do(Pass1(2, "use", "x"))>>}
GBodies ==
    {<<Do(CallN(31, "f"))>>, <<Ret(Name("f"))>>, <<Do(CallN(31, "f")), Ret(Name("f"))>>,
     <<Ret(Name("g"))>>, <<Do(CallN(31, "f")), Do(Yield(CallN(32, "f"))), Ret(Name("f"))>>}
CapturePrograms(which) ==
    {Program(Uses @@
             [f \in {"run", "g"} |->
                IF f = "run"
                THEN Def(NoScope, 9, <<>>, <<SetTo("f", "a"), DefS("g")>> \o m \o n \o e)
                ELSE Def("run", 11, ps, body)], <<>>) :
        m \in Steps(1), n \in Steps(2), e \in Ends, body \in GBodies,
        ps \in {<<>>, <<Of("d", "f")>>}}
    \cup
    {Program(Uses @@
             [f \in {"run", "g"} |->
                IF f = "run"
                THEN Def(NoScope, 9, <<>>, <<SetTo("f", "a"), DefS("g")>> \o m \o n \o e)
                ELSE Def("run", 11, <<Of("d", "f")>>, <<Do(CallN(31, "d")), Ret(Name("d"))>>)], <<>>) :
        m \in Steps(1), n \in Steps(2), e \in Ends}

(* make1(v): a function of v.  inner1 calls v, with0 by its default, knot  *)
(* gives itself, and left and right give each other.                       *)
Maker(i, inner, after) ==
    Def(NoScope, 4 + i, <<Pos("v")>>, <<DefS(inner)>> \o after \o <<Ret(Name(inner))>>)
Makers(after) ==
    Uses @@ [f \in {"make1", "inner1", "make2", "inner2", "make3", "inner3", "with0", "make0",
                    "knot", "tie", "left", "right", "pair", "plain"} |->
        CASE f = "make1" -> Maker(1, "inner1", after)
          [] f = "inner1" -> Def("make1", 20, <<>>, <<Do(CallN(51, "v"))>>)
          [] f = "make2" -> Maker(2, "inner2", after)
          [] f = "inner2" -> Def("make2", 21, <<>>, <<Do(CallN(52, "v"))>>)
          [] f = "make3" -> Maker(3, "inner3", after)
          [] f = "inner3" -> Def("make3", 22, <<>>, <<Do(CallN(53, "v")), Ret(Name("v"))>>)
          [] f = "make0" -> Maker(0, "with0", after)
          [] f = "with0" -> Def("make0", 23, <<Of("d", "v")>>, <<Do(CallN(54, "d"))>>)
          [] f = "tie" -> Maker(5, "knot", after)
          [] f = "knot" -> Def("tie", 24, <<>>, <<Do(CallN(55, "v")), Ret(Name("knot"))>>)
          [] f = "pair" -> Def(NoScope, 10, <<Pos("v")>>,
                               <<DefS("left"), DefS("right")>> \o after \o <<Ret(Name("left"))>>)
          [] f = "left" -> Def("pair", 25, <<>>, <<Ret(Name("right"))>>)
          [] f = "right" -> Def("pair", 26, <<Of("d", "left")>>, <<Do(CallN(56, "v")), Ret(Name("d"))>>)
          [] f = "plain" -> Def(NoScope, 15, <<Pos("v")>>, <<Ret(Name("v"))>>)]
Making(f, i, e) == CallOf(i, Name(f), <<e>>, <<>>)
Made1 == {Making(f, 61, Name(x)) : f \in {"make1", "make0", "make3", "tie", "pair", "plain"}, x \in {"a", "b"}}
         \cup {Cond(Making("make3", 61, Name("a")), Making("make3", 63, Name("b")))}
Nested2 == {Making(f, 62, e) : f \in {"make1", "make2", "make0", "tie", "pair"},
                               e \in {Making("make1", 61, Name("a")), Cond(Making("make1", 61, Name("a")),
                                                                       Making("make3", 63, Name("b"))),
                                     Cond(Making("make1", 61, Name("a")), Making("make1", 63, Name("b")))}}
Nested3 == {Making("make3", 64, e) : e \in Nested2}
Called(i, x) ==
    {<<Do(CallN(i, x))>>, <<Let("z", CallN(i, x)), Do(CallN(i + 1, "z"))>>,
     <<Let("z", CallN(i, x)), Let("z", CallN(i + 1, "z")), Do(CallN(i + 2, "z"))>>,
     <<Do(Pass1(i, "use", x))>>}
MakerPrograms(which) ==
    {Program(Boom @@ Makers(<<>>) @@ [f \in {"run"} |-> Def(NoScope, 9, <<>>,
                <<Let("x", Making(g, 61, Or(CallN(62, "boom"), e)))>> \o c)], <<>>) :
        g \in {"make1", "make3", "tie"}, e \in {Name("a"), CallN(63, "boom")}, c \in Called(1, "x")}
    \cup
    {Program(Makers(after) @@ [f \in {"run"} |-> Def(NoScope, 9, <<>>, body)], <<>>) :
        after \in {<<>>, <<SetTo("v", "c")>>, <<If(<<Lit>>, <<<<SetTo("v", "c")>>>>)>>},
        body \in {<<Let("x", e)>> \o c : e \in Made1 \cup Nested2 \cup Nested3, c \in Called(1, "x")}
                 \cup {<<Let("x", Name("use")), Do(CallOf(1, Name("x"), <<e>>, <<>>))>> : e \in Nested2}
                 \cup {<<Let("x", e), Let("y", g), Do(Pass1(1, "use", "x")), Do(Pass1(2, "use", "y"))>> :
                         e \in Made1 \cup Nested2, g \in Made1}}

-----------------------------------------------------------------------------
(* Binding: callee calls what its parameters hold.                         *)
Only(n, d) == Param(n, "kw", d)
Rest(n) == Param(n, "rest", <<>>)
Kw(n, x) == [n |-> n, e |-> Name(x)]
Spreads == [n |-> "**", e |-> CallN(42, "b")]
Callees ==      \* parameters, and the names given by keyword that fit them
    {<<<<Of("p", "a"), Of("q", "b")>>, {"p", "q"}>>,
     <<<<Of("p", "a"), Of("q", "b"), Only("k", <<Name("c")>>)>>, {"q", "k"}>>,
     <<<<Of("p", "c"), Rest("r"), Only("k", <<Name("b")>>)>>, {"p", "k"}>>,
     <<<<Only("k", <<Name("c")>>), Only("p", <<Name("a")>>)>>, {"k", "p"}>>,
     <<<<Pos("p"), Of("q", "c")>>, {"p", "q"}>>}
Keywords(names) ==
    {<<>>} \cup {<<Kw(n, x)>> : n \in names, x \in {"b", "g"}}
           \cup {<<Kw(n, "g"), Kw(m, "b")>> : n \in names, m \in names}
           \cup {<<Spreads>>} \cup {<<Kw(n, x), Spreads>> : n \in names, x \in {"b", "g"}}
           \cup {<<Spreads, Kw(n, "g"), Kw(m, "b")>> : n \in names, m \in names}
Positional == {<<>>, <<Name("b")>>, <<Name("g"), Name("c")>>, <<Or(Name("a"), Name("c"))>>,
               <<Star(Lit)>>, <<Name("c"), Star(Lit)>>}
CallEach(ps) == [i \in DOMAIN ps |-> If(<<Lit>>, <<<<Do(CallN(30 + i, ps[i].n))>>>>)]
Calling(ps, es, kw, up, trusted) ==
    Program([f \in {"run", "g", "callee"} |->
                CASE f = "run" ->
                        Def(NoScope, 9, <<>>,
                            <<SetTo("f", "a"), DefS("g")>>
                            \o (IF up = NoScope THEN <<>> ELSE <<DefS("callee"), SetTo("f", "b")>>)
                            \o <<Do(CallOf(1, Name("callee"), es, kw))>>)
                  [] f = "g" -> Def("run", 10, <<>>, <<Do(CallN(41, "f"))>>)
                  [] f = "callee" -> [Def(up, 5, ps, CallEach(ps)) EXCEPT !.trusted = trusted]], <<>>)
(* The call is no TypeError, at least if a starred argument is empty.  A   *)
(* `**` argument finds no default to take the place of: those the walk     *)
(* would keep.                                                             *)
Fit(ps, es, kw) ==
    LET given == Len(SelectSeq(es, LAMBDA e : e.k # "star"))
        positional == SelectSeq(ps, LAMBDA q : q.kind = "pos")
        named == {k.n : k \in Range(kw)}
    IN /\ Cardinality(named) = Len(kw)
       /\ given <= Len(positional) \/ \E q \in Range(ps) : q.kind = "rest"
       /\ \A i \in DOMAIN positional : i <= given => positional[i].n \notin named
       /\ \A i \in DOMAIN positional : i > given /\ positional[i].d = <<>>
                                        => {positional[i].n, "**"} \cap named # {}
       /\ "**" \in named => \A q \in Range(ps) :
              \/ q.d = <<>> \/ q.n \in named
              \/ \E i \in DOMAIN positional : i <= given /\ positional[i] = q
BindingPrograms(which) ==
    UNION {{Calling(c[1], a[1], a[2], up, trusted) :
                a \in {a \in Positional \X Keywords(c[2]) : Fit(c[1], a[1], a[2])},
                up \in {NoScope, "run"}, trusted \in {TRUE, FALSE}} : c \in Callees}

-----------------------------------------------------------------------------
(* Objects: what run's object x calls by its attribute f.                  *)
Self == Pos("self")
Me == Name("self")
Cls == [init |-> {"init"}, line |-> 0,
        methods |-> [m \in {"m", "set", "get", "cm"} |-> m], classmethods |-> {"cm"},
        props |-> [m \in {"p"} |-> [get |-> {"pget"}, set |-> {"pset"}]]]
New1(i, v) == CallOf(i, Name("C"), <<Name(v)>>, <<>>)
ClassFuns(init) ==
    [f \in {"init", "m", "set", "get", "cm", "pget", "pset", "use", "build"} |->
        CASE f = "init" -> Def(NoScope, 21, <<Self, Pos("v")>>, init)
          [] f = "m" -> Def(NoScope, 23, <<Self>>, <<Do(CallOf(51, Attr(52, Me, "f"), <<>>, <<>>))>>)
          [] f = "set" -> Def(NoScope, 22, <<Self, Of("v", "c")>>,
                              <<S("assign", <<>>, <<Name("v"), Attr(53, Me, "f")>>, <<>>)>>)
          [] f = "get" -> Def(NoScope, 24, <<Self>>, <<Ret(Attr(54, Me, "f"))>>)
          [] f = "cm" -> Def(NoScope, 25, <<Pos("k")>>, <<Do(CallN(55, "b")), Ret(CallOf(56, Name("k"), <<Name("b")>>, <<>>))>>)
          [] f = "pget" -> Def(NoScope, 26, <<Self>>, <<Ret(Attr(57, Me, "f"))>>)
          [] f = "pset" -> Def(NoScope, 27, <<Self, Pos("v")>>,
                              <<S("assign", <<>>, <<Name("v"), Attr(58, Me, "f")>>, <<>>)>>)
          [] f = "build" -> Def(NoScope, 29, <<Pos("v")>>,
                              <<Let("o", New1(61, "v")), Ret(Name("o"))>>)
          [] f = "use" -> Def(NoScope, 28, <<Pos("o")>>,
                              <<Do(CallOf(59, Attr(60, Name("o"), "m"), <<>>, <<>>))>>)]
SetF(i, x, e) == S("assign", <<>>, <<e, Attr(i, Name(x), "f")>>, <<>>)
SetP(i, x, e) == S("assign", <<>>, <<e, Attr(i, Name(x), "p")>>, <<>>)
Meth(i, e, m, es) == CallOf(i, Attr(i + 100, e, m), es, <<>>)
Inits == {<<S("assign", <<>>, <<Name("v"), Attr(50, Me, "f")>>, <<>>)>>, <<>>,
          <<If(<<Lit>>, <<<<S("assign", <<>>, <<Name("v"), Attr(50, Me, "f")>>, <<>>)>>>>)>>}
SetM(i, x, e) == S("assign", <<>>, <<e, Attr(i, Name(x), "m")>>, <<>>)
Writes(i) ==
    {<<>>, <<SetM(i, "x", Name("b"))>>, <<SetF(i, "x", Name("b"))>>, <<SetF(i, "y", Name("c"))>>, <<SetTo("y", "x")>>,
     <<SetP(i, "x", Name("c"))>>, <<Do(Meth(i, Name("x"), "set", <<Name("b")>>))>>,
     <<If(<<Lit>>, <<<<SetTo("y", "x"), SetF(i, "x", Name("c"))>>>>)>>,
     <<Each(Name("i"), <<Let("x", New1(i, "c"))>>, <<>>)>>,
     <<Let("x", Meth(i, Name("C"), "cm", <<>>))>>}
Reads ==
    {<<Do(Meth(1, Name(x), "m", <<>>))>> : x \in {"x", "y"}} \cup
    {<<Let("z", Cond(Attr(101, Name("x"), "set"), Attr(102, Name("x"), "m"))), Do(CallN(1, "z"))>>,
     <<Do(Meth(1, Name("x"), "f", <<>>))>>, <<Do(CallOf(1, Attr(101, Name("x"), "p"), <<>>, <<>>))>>,
     <<Do(Pass1(1, "use", "x"))>>, <<Let("z", Attr(101, Name("x"), "m")), SetF(70, "x", Name("c")), Do(CallN(1, "z"))>>,
     <<Do(CallOf(1, Meth(2, Name("y"), "get", <<>>), <<>>, <<>>))>>,
     <<Let("y", Or(Name("x"), Name("y"))), SetF(71, "y", Name("b")), Do(Meth(1, Name("x"), "m", <<>>))>>}
Objects(init, body) ==
    Program(ClassFuns(init) @@ [f \in {"run"} |-> Def(NoScope, 9, <<>>, body)],
            [c \in {"C"} |-> Cls])
Built2(f) == <<Let("x", Pass1(11, f, "a")), Let("y", Pass1(12, f, "b"))>>
ObjectPrograms(which) ==
    {Objects(init, Built2("C") \o m \o e) : init \in Inits, m \in Writes(13), e \in Reads}
    \cup {Objects(CHOOSE init \in Inits : Len(init) = 1 /\ init[1].k = "assign",
                  Built2(f) \o m \o n \o e) :
            f \in {"C", "build"}, m \in Writes(13), n \in Writes(14), e \in Reads}

-----------------------------------------------------------------------------
(* What the walk misses.                                                   *)
FunOf(body) == [f \in {"run"} |-> Def(NoScope, 9, <<>>, body)]
BreakPrograms(which) ==
    {Program(FunOf(<<SetTo("f", "a"), Each(Name("i"), <<If(<<Lit>>, <<<<SetTo("f", "b"), s>>>>), SetTo("f", "c")>>, <<>>),
                     Do(CallN(1, "f"))>>), <<>>) : s \in {Brk, Cnt, Do(Lit)}}
ExitPrograms(which) ==
    {Program([f \in {"run", "g", "make"} |->
        CASE f = "run" -> Def(NoScope, 9, <<>>, <<Let("x", CallN(1, "make")), Do(CallN(2, "x"))>>)
          [] f = "make" -> Def(NoScope, 10, <<>>,
                               <<SetTo("f", "a"), DefS("g"), s, SetTo("f", "b"), Ret(e)>>)
          [] f = "g" -> Def("make", 11, <<>>, <<Do(CallN(3, "f"))>>)], <<>>) :
        s \in {If(<<Lit>>, <<<<Ret(Name("g"))>>>>), Do(Lit)}, e \in {Name("c"), Name("g")}}

ProgramsFor(which) ==
    CASE which = "control" -> ControlPrograms(which)
      [] which = "captures" -> CapturePrograms(which)
      [] which = "makers" -> MakerPrograms(which)
      [] which = "binding" -> BindingPrograms(which)
      [] which = "objects" -> ObjectPrograms(which)
      [] which = "bodies" ->
            ControlPrograms(which) \cup CapturePrograms(which) \cup MakerPrograms(which)
            \cup BindingPrograms(which) \cup ObjectPrograms(which)
      [] which = "breaks" -> BreakPrograms(which)
      [] which = "exits" -> ExitPrograms(which)
FamilyPrograms == ProgramsFor(Family)
=============================================================================
