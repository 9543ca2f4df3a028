------------------------------- MODULE PyRuns -------------------------------
(***************************************************************************)
(* What Python does: the reference for BodyWalk.  Nothing here is the      *)
(* repository's code, and nothing here knows how it finds its answers.     *)
(*                                                                         *)
(* Names are looked up by Python's scoping rules in frames that closures   *)
(* share, arguments are bound by its rules, objects have one identity.     *)
(* Conditions may go either way, a loop's body runs at most once, any      *)
(* statement at the top of a try body may raise before it has an effect,   *)
(* and a handler may catch what is raised or not.  A run is a              *)
(* configuration c: st ("next", "return", "raise", "break", "continue"),   *)
(* the last value v (vs of a list), the current frame fr, all frames,      *)
(* closures and objects, the path of the calls in progress and the paths   *)
(* seen.  A path is a sequence of <<site, name>>.                          *)
(***************************************************************************)
EXTENDS WalkEnvs

CONSTANT Deep       \* a call this deep raises RecursionError

Step(S, Op(_)) == UNION {IF c.st = "next" THEN Op(c) ELSE {c} : c \in S}
Raise(c) == {[c EXCEPT !.st = "raise"]}
Gives(c, v) == [c EXCEPT !.v = v]

(* The frame whose variable x is, seen from frame n.                       *)
RECURSIVE FrameOf(_, _, _)
FrameOf(c, n, x) ==
    IF n = 0 THEN 0
    ELSE IF x \in c.p.scope[c.frames[n].f].bound THEN n
    ELSE FrameOf(c, c.frames[n].up, x)

ModuleValue(p, x) ==
    IF x \in DOMAIN p.fun THEN {Fn(x)} ELSE IF x \in DOMAIN p.cls THEN {Class(x)} ELSE {}
Read(c, x) ==
    LET n == FrameOf(c, c.fr, x)
    IN IF n = 0 THEN ModuleValue(c.p, x) ELSE Held(c.frames[n].loc, x)
Store(c, x, v) == [c EXCEPT !.frames[c.fr].loc = Put(@, x, v)]

RECURSIVE StoreAll(_, _)
StoreAll(c, names) ==   \* to something that is nobody's function
    IF names = {} THEN c
    ELSE LET x == CHOOSE x \in names : TRUE IN StoreAll(Store(c, x, Data), names \ {x})

-----------------------------------------------------------------------------
(* Parameters: {} if the call is a TypeError.  A starred argument has some *)
(* number of elements, a `**` one gives some of the parameters left, each  *)
(* time one and the same value: a function of the module, or nobody's.     *)
Elements(p) ==
    {Data} \cup {Fn(f) : f \in {f \in DOMAIN p.fun \ {p.entry} : p.fun[f].up = NoScope}}
Given(pos, n, v) == pos \o [i \in 1 .. n |-> v]
Spread(ps, kw) ==
    LET named == [x \in DOMAIN kw \ {"**"} |-> kw[x]]
    IN IF "**" \notin DOMAIN kw THEN {kw}
       ELSE {[x \in DOMAIN named \cup more |-> IF x \in more THEN kw["**"] ELSE named[x]] :
                more \in SUBSET ({q.n : q \in ps} \ DOMAIN named)}
Fits(ps, positional, rest, pos, kw, defs) ==
    /\ rest \/ Len(pos) <= Len(positional)
    /\ rest \/ DOMAIN kw \subseteq {q.n : q \in ps}
    /\ \A i \in DOMAIN positional : i <= Len(pos) => positional[i].n \notin DOMAIN kw
    /\ \A q \in ps : \/ q.n \in DOMAIN kw \cup DOMAIN defs
                     \/ \E i \in DOMAIN positional : i <= Len(pos) /\ positional[i].n = q.n
Locals(all, positional, pos, kw, defs) ==
    [x \in {q.n : q \in Range(all)} |->
        IF \E i \in DOMAIN positional : i <= Len(pos) /\ positional[i].n = x
        THEN pos[CHOOSE i \in DOMAIN positional : positional[i].n = x]
        ELSE IF x \in DOMAIN kw THEN kw[x]
        ELSE IF x \in DOMAIN defs THEN defs[x] ELSE Data]
PyBindings(p, f, pos, kw, splat, defs) ==
    LET all == p.fun[f].params
        positional == SelectSeq(all, LAMBDA q : q.kind = "pos")
        ps == {q \in Range(all) : q.kind # "rest"}
        rest == \E q \in Range(all) : q.kind = "rest"
        positions == {Given(pos, n, v) : n \in IF splat THEN 0 .. Len(all) ELSE {0},
                                         v \in IF splat THEN Elements(p) ELSE {Data}}
        named == UNION {Spread(ps, IF "**" \in DOMAIN kw THEN [kw EXCEPT !["**"] = v] ELSE kw) :
                           v \in IF "**" \in DOMAIN kw THEN Elements(p) ELSE {Data}}
    IN IF ~p.fun[f].trusted     \* a decorator calls it as it likes
       THEN {[x \in {q.n : q \in Range(all)} |-> Data]}
       ELSE {Locals(all, positional, a[1], a[2], defs) :
                a \in {a \in positions \X named : Fits(ps, positional, rest, a[1], a[2], defs)}}

ModuleDefaults(p, f) ==
    LET ps == {q \in Range(p.fun[f].params) : q.d # <<>>}
        value(e) == IF e.k = "name" THEN CHOOSE v \in ModuleValue(p, e.id) : TRUE ELSE Data
    IN [x \in {q.n : q \in ps} |-> value((CHOOSE q \in ps : q.n = x).d[1])]

-----------------------------------------------------------------------------
(* All recursion goes through Run: the configurations after an expression, *)
(* a statement or a block, whichever x is.                                 *)
RECURSIVE Run(_, _)
RECURSIVE Values_(_, _, _)
Values_(c, es, vs) ==
    IF es = <<>> THEN {[c EXCEPT !.vs = vs]}
    ELSE Step(Run(c, Head(es)), LAMBDA d : Values_(d, Tail(es), Append(vs, d.v)))

(* A body runs in a frame of its own; then the caller goes on.             *)
Returned(c, d, generator) ==
    [d EXCEPT !.fr = c.fr, !.path = c.path,
              !.st = IF d.st = "raise" THEN "raise" ELSE "next",
              !.v = IF d.st # "return" \/ generator THEN Data ELSE d.v]
Begin(c, f, up, loc, name, site) ==
    [c EXCEPT !.frames = Append(@, [f |-> f, up |-> up, loc |-> loc]),
              !.fr = Len(c.frames) + 1,
              !.path = Append(@, <<site, name>>), !.seen = @ \cup {Append(c.path, <<site, name>>)}]
Body(c, f, up, pos, kw, splat, defs, name, site) ==
    IF Len(c.path) >= Deep THEN Raise(c)
    ELSE LET locs == PyBindings(c.p, f, pos, kw, splat, defs)
             ran == UNION {Run(Begin(c, f, up, loc, name, site), Block(c.p.fun[f].body)) : loc \in locs}
             made == {Begin(c, f, up, loc, name, site) : loc \in locs}
         IN IF locs = {} THEN Raise(c)
            ELSE {Returned(c, d, c.p.gen[f]) :
                    d \in ran \cup IF c.p.gen[f] THEN made ELSE {}}

Method_(c, f, o, site, pos, kw, splat) ==
    Body(c, f, 0, <<o>> \o pos, kw, splat, ModuleDefaults(c.p, f), f, site)
New(c, cls) == [c EXCEPT !.objs = Append(@, [cls |-> cls, attrs |-> <<>>])]
Built(c, o) == {IF d.st = "next" THEN Gives(d, o) ELSE d : d \in c}

(* No __init__ of the project: only the path is seen.                      *)
Construct_(c, cls, site, pos, kw, splat) ==
    LET n == New(c, cls)
        o == Object(cls, Len(n.objs))
    IN IF InitOf(c.p, cls) = {}
       THEN {[Gives(n, o) EXCEPT !.seen = @ \cup {Append(c.path, <<site, cls>>)}]}
       ELSE LET f == CHOOSE f \in InitOf(c.p, cls) : TRUE
            IN Built(Body(n, f, 0, <<o>> \o pos, kw, splat, ModuleDefaults(c.p, f), cls, site), o)

OwnerOf(p, f) == CHOOSE c \in DOMAIN p.cls : f \in Range(p.cls[c].methods)
Invoke(c, v, site, pos, kw, splat) ==
    CASE v.k = "function" ->
            Body(c, v.f, 0, pos, kw, splat, ModuleDefaults(c.p, v.f), v.f, site)
      [] v.k = "closure" ->
            Body(c, v.f, c.clos[v.n].up, pos, kw, splat, c.clos[v.n].defs, v.f, site)
      [] v.k = "bound" ->
            Method_(c, v.f, IF v.n = 0 THEN Class(OwnerOf(c.p, v.f)) ELSE Object(c.objs[v.n].cls, v.n),
                    site, pos, kw, splat)
      [] v.k = "class" -> Construct_(c, v.f, site, pos, kw, splat)
      [] OTHER -> Raise(c)

Call_(c, e) ==      \* the callee and the arguments are in vs
    LET n == Len(e.es)
        plain == {i \in 2 .. n : e.es[i].k # "star"}
        pos == [i \in 1 .. Cardinality(plain) |-> c.vs[CHOOSE j \in plain :
                    Cardinality({h \in plain : h <= j}) = i]]
        kw == [x \in {q.n : q \in Range(e.kw)} |->
                 c.vs[n + CHOOSE i \in DOMAIN e.kw : e.kw[i].n = x]]
    IN Invoke(c, c.vs[1], e.site, pos, kw, Cardinality(plain) < n - 1)

-----------------------------------------------------------------------------
(* Members.                                                                *)
MethodOf(c, cls, x, o) ==
    IF x \notin DOMAIN c.p.cls[cls].methods THEN Raise(c)
    ELSE {Gives(c, Method(c.p.cls[cls].methods[x],
                          IF x \in c.p.cls[cls].classmethods THEN 0 ELSE o))}
Get(c, v, x, site) ==
    CASE v.k = "instance" ->
            IF PropertyParts(c.p, v.f, x) # {}
            THEN UNION {IF q.get = {} THEN Raise(c)
                        ELSE Method_(c, CHOOSE g \in q.get : TRUE, v, site, <<>>, <<>>, FALSE)
                        : q \in PropertyParts(c.p, v.f, x)}
            ELSE IF x \in DOMAIN c.objs[v.n].attrs THEN {Gives(c, c.objs[v.n].attrs[x])}
            ELSE MethodOf(c, v.f, x, v.n)
      [] v.k = "class" ->
            IF x \in c.p.cls[v.f].classmethods THEN MethodOf(c, v.f, x, 0)
            ELSE IF x \in DOMAIN c.p.cls[v.f].methods
            THEN {Gives(c, Fn(c.p.cls[v.f].methods[x]))} ELSE Raise(c)
      [] OTHER -> Raise(c)
Set(c, o, x, v, site) ==
    IF o.k # "instance" THEN Raise(c)
    ELSE IF PropertyParts(c.p, o.f, x) # {}
    THEN UNION {IF q.set = {} THEN Raise(c)
                ELSE Method_(c, CHOOSE g \in q.set : TRUE, o, site, <<v>>, <<>>, FALSE)
                : q \in PropertyParts(c.p, o.f, x)}
    ELSE {[c EXCEPT !.objs[o.n].attrs = Put(@, x, v)]}

-----------------------------------------------------------------------------
ValueOf(c, e) ==
    CASE e.k = "name" -> IF Read(c, e.id) = {} THEN Raise(c)
                         ELSE {Gives(c, CHOOSE v \in Read(c, e.id) : TRUE)}
      [] e.k = "named" -> Step(Run(c, e.es[1]), LAMBDA d : {Store(d, e.id, d.v)})
      [] e.k = "call" -> Step(Values_(c, Children(e), <<>>), LAMBDA d : Call_(d, e))
      [] e.k = "attr" -> Step(Run(c, e.es[1]), LAMBDA d : Get(d, d.v, e.id, e.site))
      [] e.k = "or" ->
            UNION {Run(c, e.es[1]), Step(Run(c, e.es[1]), LAMBDA d : Run(d, e.es[2]))}
      [] e.k = "cond" ->
            Step(Run(c, e.es[1]), LAMBDA d : Run(d, e.es[2]) \cup Run(d, e.es[3]))
      [] e.k \in {"await", "star"} -> Run(c, e.es[1])
      [] OTHER -> Step(Values_(c, e.es, <<>>), LAMBDA d : {Gives(d, Data)})

RECURSIVE Targets_(_, _, _)
Targets_(c, ts, v) ==
    IF ts = <<>> THEN {c}
    ELSE LET t == Head(ts)
             put == CASE t.k = "name" -> {Store(c, t.id, v)}
                      [] t.k = "attr" ->
                            Step(Run(c, t.es[1]), LAMBDA d : Set(d, d.v, t.id, v, t.site))
                      [] t.k = "unpack" -> Targets_(c, t.es, Data)
                      [] OTHER -> Run(c, t)
         IN Step(put, LAMBDA d : Targets_(d, Tail(ts), v))

RECURSIVE Defaults_(_, _, _)
Defaults_(c, params, done) ==
    IF params = <<>> THEN {[c EXCEPT !.named = done]}
    ELSE IF Head(params).d = <<>> THEN Defaults_(c, Tail(params), done)
    ELSE Step(Run(c, Head(params).d[1]),
              LAMBDA d : Defaults_(d, Tail(params), Put(done, Head(params).n, d.v)))
Define(c, f) ==
    Store([c EXCEPT !.clos = Append(@, [up |-> c.fr, defs |-> c.named])],
          f, Closure(f, Len(c.clos) + 1))

-----------------------------------------------------------------------------
(* Loops: not at all, or once.  A break leaves without the else.           *)
Resumed(c) == [c EXCEPT !.st = IF @ = "continue" THEN "next" ELSE @]
Loop_(c, s, again(_)) ==
    LET once == {Resumed(d) : d \in Step(Targets_(c, Tail(s.es), Data),
                                         LAMBDA g : Run(g, Block(s.bs[1])))}
        over == Step({c}, LAMBDA d : Run(d, Block(s.bs[2])))
        after == Step(once, LAMBDA d : Step(again(d), LAMBDA g : Run(g, Block(s.bs[2]))))
    IN over \cup {[d EXCEPT !.st = IF @ = "break" THEN "next" ELSE @] : d \in after}

RECURSIVE If_(_, _, _)
If_(c, s, i) ==
    IF i > Len(s.bs) THEN {c}
    ELSE IF i > Len(s.es) THEN Run(c, Block(s.bs[i]))
    ELSE Step(Run(c, s.es[i]), LAMBDA d : Run(d, Block(s.bs[i])) \cup If_(d, s, i + 1))

RECURSIVE Match_(_, _, _)
Match_(c, s, i) ==
    IF i > Len(s.bs) THEN {c}
    ELSE Match_(c, s, i + 1) \cup
         Step(Run(StoreAll(c, s.ids[i]), s.es[i + 1]),
              LAMBDA d : Run(d, Block(s.bs[i])) \cup Match_(d, s, i + 1))

(* The states in which a statement of the body raises.                     *)
Interrupted(c, body) ==
    {[d EXCEPT !.st = "raise"] :
        d \in {d \in UNION {Run(c, Block(SubSeq(body, 1, i))) : i \in 0 .. Len(body) - 1} : d.st = "next"}}
Caught(c, hs) == {c} \cup UNION {Run([c EXCEPT !.st = "next"], Block(h)) : h \in hs}
Finally_(c, body) ==
    {IF d.st = "next" THEN [d EXCEPT !.st = c.st, !.v = c.v] ELSE d :
        d \in Run([c EXCEPT !.st = "next"], Block(body))}
Try_(c, s) ==
    LET hs == Range(SubSeq(s.bs, 4, Len(s.bs)))
        tried == Run(c, Block(s.bs[1])) \cup Interrupted(c, s.bs[1])
        done == UNION {CASE d.st = "next" -> Run(d, Block(s.bs[2]))
                         [] d.st = "raise" -> Caught(d, hs)
                         [] OTHER -> {d} : d \in tried}
    IN UNION {Finally_(d, s.bs[3]) : d \in done}

RunStmt(c, s) ==
    CASE s.k = "return" ->
            {IF d.st = "next" THEN [d EXCEPT !.st = "return"] ELSE d :
                d \in IF s.es = <<>> THEN {Gives(c, Data)} ELSE Run(c, s.es[1])}
      [] s.k = "raise" -> Step(Values_(c, s.es, <<>>), LAMBDA d : Raise(d))
      [] s.k \in {"break", "continue"} -> {[c EXCEPT !.st = s.k]}
      [] s.k = "def" ->
            LET f == CHOOSE f \in s.ids[1] : TRUE
            IN Step(Values_(c, s.es, <<>>),
                    LAMBDA b : Step(Defaults_(b, c.p.fun[f].params, <<>>), LAMBDA d : {Define(d, f)}))
      [] s.k = "assign" -> Step(Run(c, s.es[1]), LAMBDA d : Targets_(d, Tail(s.es), d.v))
      [] s.k = "while" ->
            Step(Run(c, s.es[1]), LAMBDA d : Loop_(d, s, LAMBDA g : Run(g, s.es[1])))
      [] s.k = "for" -> Step(Run(c, s.es[1]), LAMBDA d : Loop_(d, s, LAMBDA g : {g}))
      [] s.k = "if" -> If_(c, s, 1)
      [] s.k = "try" -> Try_(c, s)
      [] s.k = "match" -> Step(Run(c, s.es[1]), LAMBDA d : Match_(d, s, 1))
      [] s.k = "with" ->
            Step(Run(c, s.es[1]),
                 LAMBDA d : Step(Targets_(d, Tail(s.es), Data), LAMBDA g : Run(g, Block(s.bs[1]))))
      [] s.k = "import" ->
            {Store(c, CHOOSE x \in s.ids[1] : TRUE, CHOOSE v \in ModuleValue(c.p, s.es[1].id) : TRUE)}
      [] OTHER -> Values_(c, s.es, <<>>)

RunBlock(c, body) ==
    IF body = <<>> THEN {c} ELSE Step(RunStmt(c, Head(body)), LAMBDA d : Run(d, Block(Tail(body))))

Run(c, x) ==
    CASE x.k = "block" -> RunBlock(c, x.of)
      [] x.k \in Expressions -> ValueOf(c, x)
      [] OTHER -> RunStmt(c, x)

-----------------------------------------------------------------------------
(* The calls that some run of the entry makes.                             *)
Started(p) ==
    [p |-> p, st |-> "next", v |-> Data, vs |-> <<>>, named |-> <<>>, fr |-> 1,
     frames |-> <<[f |-> p.entry, up |-> 0, loc |-> <<>>]>>,
     clos |-> <<>>, objs |-> <<>>, path |-> <<>>, seen |-> {}]
CallsMade(p) == UNION {c.seen : c \in Run(Started(p), Block(p.fun[p.entry].body))}

=============================================================================
