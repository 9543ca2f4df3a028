-------------------------- MODULE CallSolverBounds --------------------------
(***************************************************************************)
(* Why CallSolver makes nothing up: what it has found so far, anywhere,    *)
(* stays below every bound of the program's equations.                     *)
(***************************************************************************)
EXTENDS CallSolverReaders, CallEquations

-----------------------------------------------------------------------------
(* Bounds.                                                                 *)

(* S holds at least what the equations give each context when the calls of *)
(* its body answer at most S, its call sites having the values W; it holds *)
(* no less for a context whose parameter may hold more.                    *)
Before(vals, i) == SubSeq(vals, 1, i - 1)
Bounds(p, S, W) ==
    /\ \A c, d \in Ctx : c.func = d.func /\ c.arg \subseteq d.arg => S[c] \subseteq S[d]
    /\ \A c \in Ctx :
          /\ DOMAIN W[c] = DOMAIN p[c.func].sites
          /\ \A i \in DOMAIN W[c] : SiteValue(p, S, c, Before(W[c], i), i) \subseteq W[c][i].known
          /\ Eval(p[c.func].rets, c, W[c]).known \subseteq S[c]

(* What the callee and the argument of call site i of c may be.            *)
CalleesAt(p, W, c, i) == Eval(p[c.func].sites[i].callee, c, Before(W[c], i)).known
ArgAt(p, W, c, i) == Eval(p[c.func].sites[i].arg, c, Before(W[c], i)).known

(* What each deferred operation of a walk of c may resolve to.             *)
Ceiling(S, W, c, ops) ==
    [d \in DOMAIN ops |-> IF ops[d].op = "Apply" THEN S[ops[d].ctx]
                          ELSE W[c][ops[d].site].known]

(* A value is within T, whatever its operations resolve to.                *)
Fits(b, v, T) ==
    /\ v.known \subseteq T
    /\ \A d \in v.pending : d \in DOMAIN b /\ b[d] \subseteq T
NowFits(b, now) == \A d \in DOMAIN now \cap DOMAIN b : now[d] \subseteq b[d]

SiteFits(p, W, c, i, s) ==
    /\ i \in DOMAIN W[c]
    /\ s.todo \subseteq CalleesAt(p, W, c, i)
    /\ s.arg \subseteq ArgAt(p, W, c, i)
    /\ s.out.known \subseteq W[c][i].known
OpFits(p, W, c, b, op) ==
    op.op = "Call" =>
        /\ op.site \in DOMAIN W[c]
        /\ Fits(b, op.callee, CalleesAt(p, W, c, op.site))
        /\ Fits(b, op.arg, ArgAt(p, W, c, op.site))
WalkFits(p, S, W, c, w) ==
    LET b == Ceiling(S, W, c, w.deferred) IN
    /\ \A d \in DOMAIN w.deferred : OpFits(p, W, c, b, w.deferred[d])
    /\ Fits(b, w.rets, S[c])

(* A walk in progress, and the operation a fixpoint replays.               *)
WalkBelow(p, S, W, fr) ==
    LET b == Ceiling(S, W, fr.ctx, fr.w.deferred)
        i == Len(fr.vals) + 1 IN
    /\ WalkFits(p, S, W, fr.ctx, fr.w)
    /\ fr.w.resolved = <<>>
    /\ DOMAIN fr.vals \subseteq DOMAIN W[fr.ctx]
    /\ \A k \in DOMAIN fr.vals : Fits(b, fr.vals[k], W[fr.ctx][k].known)
    /\ fr.site # None =>
          /\ SiteFits(p, W, fr.ctx, i, fr.site)
          /\ Fits(b, fr.site.out, W[fr.ctx][i].known)
ReplayBelow(p, S, W, wk, fr) ==
    LET m == fr.members[fr.at]
        ops == wk[m].deferred IN
    fr.at <= Len(fr.members) =>
      /\ NowFits(Ceiling(S, W, m, ops), fr.now)
      /\ fr.site # None =>
            /\ fr.pc \in DOMAIN ops /\ ops[fr.pc].op = "Call"
            /\ SiteFits(p, W, m, ops[fr.pc].site, fr.site)

-----------------------------------------------------------------------------
(* The invariant.                                                          *)

(* A member of the group of h, or the fixpoint over it, read a cut: what   *)
(* the group finds may be too much, and all of it will be marked.          *)
Spoiled(st, hs, rd, fx, cs, h) ==
    \/ \E c \in Ctx : st[c] \in Waiting /\ hs[c] = h /\ rd[c].cut # None
    \/ FixpointCut(fx) /\ fx.head = h
    \/ \E i \in DOMAIN cs :
          cs[i].kind = "resolve" /\ FixpointCut(cs[i].outer) /\ cs[i].outer.head = h

(* What waits is below the bound, unless its group is spoiled.             *)
WaiterBelow(p, S, W, wk, cur, c) ==
    /\ cur[c].returns \subseteq S[c]
    /\ WalkFits(p, S, W, c, wk[c])
    /\ NowFits(Ceiling(S, W, c, wk[c].deferred), wk[c].resolved)
SlotsBelow(p, S, W, st, hs, rd, wk, cur, res, fx, cs) ==
    \A c \in Ctx :
      /\ st[c] = "Ready" => res[c].returns \subseteq S[c]
      /\ st[c] \in Waiting /\ ~Spoiled(st, hs, rd, fx, cs, hs[c])
            => WaiterBelow(p, S, W, wk, cur, c)

(* So is a walk that read no cut, and a replay of a group not spoiled.     *)
FramesBelow(p, S, W, st, hs, rd, wk, fx, cs) ==
    \A i \in DOMAIN cs :
      /\ cs[i].kind = "walk" /\ rd[cs[i].ctx].cut = None => WalkBelow(p, S, W, cs[i])
      /\ cs[i].kind = "resolve" /\ ~Spoiled(st, hs, rd, fx, cs, cs[i].head)
            => ReplayBelow(p, S, W, wk, cs[i])
StaysBelow(S, W) ==
    /\ SlotsBelow(prog, S, W, state, heads, read, walk, current, result, fixpoint, ctl)
    /\ FramesBelow(prog, S, W, state, heads, read, walk, fixpoint, ctl)

(* Asks and Wanted of CallSolver, with the walks wk.                       *)
OpsOf(wk, fr) == wk[Member(fr)].deferred
AsksIn(wk, fr) ==
    \/ fr.kind = "solve" /\ ~fr.answered
    \/ InSite(fr) /\ fr.site.todo # {}
    \/ /\ Replays(fr) /\ fr.site = None
       /\ fr.pc <= Len(OpsOf(wk, fr)) /\ OpsOf(wk, fr)[fr.pc].op = "Apply"
WantedIn(wk, fr) ==
    IF fr.kind = "solve" THEN fr.ctx
    ELSE IF InSite(fr) THEN Key(NextCallee(fr.site), fr.site.arg)
    ELSE OpsOf(wk, fr)[fr.pc].ctx

(* A frame that is not on top asked for what the frame above it works on.  *)
Owner(fr) == IF fr.kind = "walk" THEN fr.ctx ELSE fr.head
Linked(wk, cs) ==
    \A i \in DOMAIN cs : i < Len(cs) =>
        AsksIn(wk, cs[i]) /\ WantedIn(wk, cs[i]) = Owner(cs[i + 1])

(* Only what waits has an approximation.                                   *)
CurrentFits == \A c \in Ctx : state[c] \notin Waiting => current[c] = None

LinksInv == Linked(walk, ctl) /\ CurrentFits

(* Inductive together with Inv, WaitersInv and LinksInv while RoundsSuffice. *)
BoundsInv ==
    \A S \in [Ctx -> SUBSET V], W \in [Ctx -> Seq(Value)] :
        Bounds(prog, S, W) => StaysBelow(S, W)

(* No finished summary holds more than any bound.                          *)
ReadyBelowBounds ==
    \A S \in [Ctx -> SUBSET V], W \in [Ctx -> Seq(Value)] :
        Bounds(prog, S, W) => \A c \in Ctx : state[c] = "Ready" => result[c].returns \subseteq S[c]

=============================================================================
