-------------------------- MODULE CallSolverClosed --------------------------
(***************************************************************************)
(* Why CallSolver leaves nothing out: a finished summary holds what the    *)
(* equation of its context gives for finished summaries, and has an edge   *)
(* for each call.                                                          *)
(***************************************************************************)
EXTENDS CallSolverBounds

-----------------------------------------------------------------------------
(* Calls that are accounted for.                                           *)

(* The callees and the argument of call site i, given the values vals.     *)
CalleeOf(p, c, vals, i) == Eval(p[c.func].sites[i].callee, c, Before(vals, i))
ArgOf(p, c, vals, i) == Eval(p[c.func].sites[i].arg, c, Before(vals, i))

(* The contexts that are called, whether or not the argument has a value.  *)
Keys(callees, arg) == {Key(f, arg) : f \in callees \cap Func}

(* X holds Unknown if it is called, and D the contexts that answer.        *)
Accounted(callees, arg, X, D) ==
    /\ callees \cap {Unknown} \subseteq X
    /\ arg # {} => Keys(callees, arg) \subseteq D

(* The contexts whose finished summary is within X; those whose summary so *)
(* far is, in the group of h; those a value is pending on.                 *)
Finals(st, res, X) == {d \in Ctx : st[d] = "Ready" /\ res[d].returns \subseteq X}
SoFar(st, hs, cur, h, X) ==
    {d \in Ctx : st[d] \in Waiting /\ hs[d] = h /\ cur[d].returns \subseteq X}
Applied(ops, v) ==
    {ops[j].ctx : j \in {j \in v.pending \cap DOMAIN ops : ops[j].op = "Apply"}}

(* A summary is closed: there are values for the call sites, no more than  *)
(* any bound allows, that account for every call and give the summary.     *)
SitesBelow(p, c, vals) ==
    \A S \in [Ctx -> SUBSET V], W \in [Ctx -> Seq(Value)] :
        Bounds(p, S, W) => \A i \in DOMAIN vals : vals[i].known \subseteq W[c][i].known
Closed(p, st, res, c, vals) ==
    /\ DOMAIN vals = DOMAIN p[c.func].sites /\ DOMAIN res[c].calls = DOMAIN vals
    /\ \A i \in DOMAIN vals :
          LET callees == CalleeOf(p, c, vals, i).known
              arg == ArgOf(p, c, vals, i).known IN
          /\ Accounted(callees, arg, vals[i].known, Finals(st, res, vals[i].known))
          /\ res[c].calls[i] = Keys(callees, arg)
    /\ Eval(p[c.func].rets, c, vals).known \subseteq res[c].returns
    /\ SitesBelow(p, c, vals)
ReadyIsClosed ==
    \A c \in Ctx : state[c] = "Ready" =>
        \E vals \in Seq(Value) : Closed(prog, state, result, c, vals)

-----------------------------------------------------------------------------
(* Walks.                                                                  *)

(* An operation waits on earlier ones only, and has a call site of its own *)
(* among the first n.                                                      *)
OpsOrdered(ops, n) ==
    \A j \in DOMAIN ops : ops[j].op = "Call" =>
        /\ ops[j].callee.pending \cup ops[j].arg.pending \subseteq 1..(j - 1)
        /\ ops[j].site \in 1..n
        /\ \A i \in DOMAIN ops : ops[i].op = "Call" /\ ops[i].site = ops[j].site => i = j

(* Call site i of a walk w of c has its value: the call was deferred, or   *)
(* its callees have answered, each at once or by an operation.             *)
Deferred(p, c, ops, vals, i) ==
    \E j \in vals[i].pending \cap DOMAIN ops :
        /\ ops[j].op = "Call" /\ ops[j].site = i
        /\ ops[j].callee = CalleeOf(p, c, vals, i)
        /\ ops[j].arg = ArgOf(p, c, vals, i)
Called(p, st, res, c, w, vals, i) ==
    LET callee == CalleeOf(p, c, vals, i)
        arg == ArgOf(p, c, vals, i)
        v == vals[i] IN
    /\ ~NeedsDefer(callee, arg)
    /\ \A j \in DOMAIN w.deferred : w.deferred[j].op = "Call" => w.deferred[j].site # i
    /\ Accounted(callee.known, arg.known, v.known,
                 Finals(st, res, v.known) \cup Applied(w.deferred, v))
    /\ w.calls[i] = Keys(callee.known, arg.known)
SiteTaken(p, st, res, c, w, vals, i) ==
    /\ vals[i].pending \subseteq DOMAIN w.deferred
    /\ Deferred(p, c, w.deferred, vals, i) \/ Called(p, st, res, c, w, vals, i)

(* A walk that is over and waits.                                          *)
ValuesFit(p, c, ops, vals) ==
    \A S \in [Ctx -> SUBSET V], W \in [Ctx -> Seq(Value)] :
        Bounds(p, S, W) => \A i \in DOMAIN vals :
            Fits(Ceiling(S, W, c, ops), vals[i], W[c][i].known)
SitesTaken(p, st, res, c, w, vals) ==
    /\ OpsOrdered(w.deferred, Len(vals))
    /\ DOMAIN w.calls = DOMAIN vals
    /\ \A i \in DOMAIN vals : SiteTaken(p, st, res, c, w, vals, i)
WaiterClosed(p, st, res, c, w) ==
    \E vals \in Seq(Value) :
        /\ DOMAIN vals = DOMAIN p[c.func].sites
        /\ SitesTaken(p, st, res, c, w, vals)
        /\ w.rets = Eval(p[c.func].rets, c, vals)
        /\ ValuesFit(p, c, w.deferred, vals)

(* A walk in progress, its call site too.                                  *)
SiteOpen(callees, s, D) ==
    /\ s.todo \subseteq callees \cap Func
    /\ Accounted(callees \ s.todo, s.arg, s.out.known, D)
    /\ s.targets = Keys(callees \ s.todo, s.arg)
WalkClosed(p, st, res, fr) ==
    LET i == Len(fr.vals) + 1
        callee == CalleeOf(p, fr.ctx, fr.vals, i)
        arg == ArgOf(p, fr.ctx, fr.vals, i)
        ops == fr.w.deferred IN
    /\ SitesTaken(p, st, res, fr.ctx, fr.w, fr.vals)
    /\ fr.site # None =>
          /\ ~NeedsDefer(callee, arg)
          /\ fr.site.arg = arg.known
          /\ fr.site.out.pending \subseteq DOMAIN ops
          /\ SiteOpen(callee.known, fr.site,
                      Finals(st, res, fr.site.out.known) \cup Applied(ops, fr.site.out))

-----------------------------------------------------------------------------
(* Fixpoints.                                                              *)

(* The contexts that answer within X in the group of h.                    *)
Answering(st, res, hs, cur, h, X) == Finals(st, res, X) \cup SoFar(st, hs, cur, h, X)

(* Operation j of w has its value in `now`, and its edge.                  *)
OpSettled(st, res, hs, cur, h, w, now, j) ==
    LET op == w.deferred[j] IN
    IF op.op = "Apply" THEN op.ctx \in Answering(st, res, hs, cur, h, now[j])
    ELSE LET callees == Substitute(op.callee, now)
             arg == Substitute(op.arg, now) IN
         /\ Accounted(callees, arg, now[j], Answering(st, res, hs, cur, h, now[j]))
         /\ w.calls[op.site] = Keys(callees, arg)

(* The summary of member c is that of this round.                          *)
MemberClosed(st, res, hs, cur, h, w, c) ==
    /\ \A j \in DOMAIN w.deferred : OpSettled(st, res, hs, cur, h, w, w.resolved, j)
    /\ cur[c] = FinishRound(w, w.resolved)

(* The replay of w has come to operation fr.pc.                            *)
ReplayClosed(st, res, hs, cur, w, fr) ==
    LET op == w.deferred[fr.pc] IN
    /\ \A j \in DOMAIN w.deferred :
          j < fr.pc => OpSettled(st, res, hs, cur, fr.head, w, fr.now, j)
    /\ fr.site # None =>
          /\ fr.pc \in DOMAIN w.deferred /\ op.op = "Call"
          /\ fr.site.arg = Substitute(op.arg, fr.now)
          /\ SiteOpen(Substitute(op.callee, fr.now), fr.site,
                      Answering(st, res, hs, cur, fr.head, fr.site.out.known))

(* The fixpoint over h was told of something that is not final, outside    *)
(* its group, or of a cut.                                                 *)
Loud(fx, h) ==
    /\ fx # None /\ fx.head = h
    /\ fx.read.lowest < NoDepth \/ fx.read.joins # None \/ fx.read.cut # None
Disturbed(fx, cs, h) ==
    Loud(fx, h) \/ \E i \in DOMAIN cs : cs[i].kind = "resolve" /\ Loud(cs[i].outer, h)

(* As long as it was not, and this round has changed nothing, the members  *)
(* it has replayed, and the one it replays, are settled so far.            *)
RoundClosed(st, res, hs, cur, rd, wk, fr) ==
    \A k \in DOMAIN fr.members :
        LET c == fr.members[k] IN
        rd[c].cut = None =>
            /\ k < fr.at => MemberClosed(st, res, hs, cur, fr.head, wk[c], c)
            /\ k = fr.at => ReplayClosed(st, res, hs, cur, wk[c], fr)

-----------------------------------------------------------------------------
(* The invariant.                                                          *)

(* Each operation has a place for its value; a call site is that of a      *)
(* deferred call.                                                          *)
Placed(wk, fr) ==
    LET ops == OpsOf(wk, fr) IN
    /\ DOMAIN fr.now = DOMAIN ops
    /\ fr.site # None => fr.pc \in DOMAIN ops /\ ops[fr.pc].op = "Call"
PlacesFit(st, wk, cs) ==
    /\ \A c \in Ctx : st[c] = "Resolving" => DOMAIN wk[c].resolved = DOMAIN wk[c].deferred
    /\ \A i \in DOMAIN cs : Replays(cs[i]) => Placed(wk, cs[i])

WaitersClosed(p, st, res, rd, wk) ==
    \A c \in Ctx : st[c] \in Waiting /\ rd[c].cut = None => WaiterClosed(p, st, res, c, wk[c])
FrameClosed(p, st, res, hs, cur, rd, wk, fx, cs, fr) ==
    /\ fr.kind = "walk" /\ rd[fr.ctx].cut = None => WalkClosed(p, st, res, fr)
    /\ fr.kind = "resolve" /\ ~fr.changed /\ ~Disturbed(fx, cs, fr.head)
          => RoundClosed(st, res, hs, cur, rd, wk, fr)
FramesClosed(p, st, res, hs, cur, rd, wk, fx, cs) ==
    \A i \in DOMAIN cs : FrameClosed(p, st, res, hs, cur, rd, wk, fx, cs, cs[i])

(* Inductive together with Inv, WaitersInv, ReadersInv, LinksInv and       *)
(* BoundsInv while RoundsSuffice, with reuse.                              *)
ClosedInv ==
    /\ ReadyIsClosed
    /\ PlacesFit(state, walk, ctl)
    /\ WaitersClosed(prog, state, result, read, walk)
    /\ FramesClosed(prog, state, result, heads, current, read, walk, fixpoint, ctl)

-----------------------------------------------------------------------------
(* What the summaries are.                                                 *)

(* The summaries S solve the equations of the program, the call sites      *)
(* having the values W; and they are the least that do.                    *)
Solves(p, S, W) ==
    \A c \in Ctx :
        /\ DOMAIN W[c] = DOMAIN p[c.func].sites
        /\ \A i \in DOMAIN W[c] : W[c][i].known = SiteValue(p, S, c, Before(W[c], i), i)
        /\ S[c] = Eval(p[c.func].rets, c, W[c]).known
AtMost(S, W, T, X) ==
    \A c \in Ctx :
        S[c] \subseteq T[c] /\ \A i \in DOMAIN W[c] : W[c][i].known \subseteq X[c][i].known
IsLeastSolution(p, S, W) ==
    /\ Solves(p, S, W)
    /\ \A T \in [Ctx -> SUBSET V], X \in [Ctx -> Seq(Value)] :
          Solves(p, T, X) => AtMost(S, W, T, X)

(* A finished summary is the least solution of the equations, and its      *)
(* edges are the calls its body makes there.                               *)
ReadyIsLeast ==
    \A S \in [Ctx -> SUBSET V], W \in [Ctx -> Seq(Value)] :
        IsLeastSolution(prog, S, W) =>
            \A c \in Ctx : state[c] = "Ready" =>
                /\ result[c].returns = S[c]
                /\ result[c].calls = [i \in DOMAIN W[c] |-> SiteCtxs(prog, c, Before(W[c], i), i)]

(* The least solution of each program: what each context returns, the      *)
(* calls it makes, and those of them that have an argument with a value.   *)
Least(p) ==
    CHOOSE l \in [S: [Ctx -> SUBSET V], W: [Ctx -> Seq(Value)]] : IsLeastSolution(p, l.S, l.W)
CallsAt(p, c, i) == SiteCtxs(p, c, Before(Least(p).W[c], i), i)
MadeAt(p, c, i) == ArgAt(p, Least(p).W, c, i) # {}
Sites(p, c) == DOMAIN Least(p).W[c]
Answers ==
    [p \in Programs |-> [c \in Ctx |->
        [returns |-> Least(p).S[c], calls |-> [i \in Sites(p, c) |-> CallsAt(p, c, i)]]]]
Made ==
    [p \in Programs |-> [c \in Ctx |->
        UNION {CallsAt(p, c, i) : i \in {i \in Sites(p, c) : MadeAt(p, c, i)}}]]

(* A finished summary is that, and the calls it makes have theirs.         *)
ReadyIsRight == \A c \in Ctx : state[c] = "Ready" => Summaries[c] = Answers[prog][c]
CallsAreFinal ==
    \A c \in Ctx : state[c] = "Ready" =>
        Made[prog][c] \subseteq {d \in Ctx : state[d] = "Ready"}

(* Every call of p has an argument with a value.                           *)
EveryCallIsMade(p) == \A c \in Ctx : \A i \in Sites(p, c) : MadeAt(p, c, i)

(* Groups are stored whole, each with the least solution of its equations  *)
(* and the calls it makes there, once all it calls is there.               *)
Store == INSTANCE SummaryStore WITH
    Contexts <- Ctx, Correct <- Answers, Needs <- Made,
    program <- prog, summary <- Summaries

=============================================================================
