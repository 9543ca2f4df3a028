----------------------- MODULE CallSolverBounds_proofs ------------------------
(***************************************************************************)
(* The proof that CallSolver makes nothing up: for every program, whatever *)
(* bounds its equations bounds each summary that can be reused.            *)
(***************************************************************************)
EXTENDS CallSolverBounds, CallSolverReaders_proofs

-----------------------------------------------------------------------------
(* Values within a bound.                                                  *)

(* A value within T is within more, for these operations and later ones.   *)
LEMMA FitsMore ==
  ASSUME NEW b, NEW e, DOMAIN b \subseteq DOMAIN e, \A d \in DOMAIN b : e[d] = b[d],
         NEW v, NEW T, NEW U, T \subseteq U, Fits(b, v, T)
  PROVE  Fits(e, v, U)
  BY DEF Fits

(* So are two values together.                                             *)
LEMMA FitsJoin ==
  ASSUME NEW b, NEW v, NEW w, NEW T, Fits(b, v, T), Fits(b, w, T)
  PROVE  Fits(b, Join(v, w), T)
  BY DEF Fits, Join

(* An expression is within what it is when its calls have all they may.    *)
LEMMA EvalFits ==
  ASSUME NEW b, NEW vals, NEW ws, DOMAIN vals \subseteq DOMAIN ws,
         \A k \in DOMAIN vals : Fits(b, vals[k], ws[k].known),
         NEW e, NEW c
  PROVE  Fits(b, Eval(e, c, vals), Eval(e, c, ws).known)
<1> DEFINE T == Eval(e, c, ws).known
<1>1. \A k \in e.sites \cap DOMAIN vals : ws[k].known \subseteq T
  BY DEF Eval
<1>2. e.consts \cup (IF e.param THEN c.arg ELSE {}) \subseteq T
  BY DEF Eval
<1> HIDE DEF T
<1>3. \A k \in e.sites \cap DOMAIN vals : vals[k].known \subseteq T
  BY <1>1 DEF Fits
<1>4. Eval(e, c, vals).known \subseteq T
  BY <1>2, <1>3 DEF Eval
<1>5. ASSUME NEW d \in Eval(e, c, vals).pending PROVE d \in DOMAIN b /\ b[d] \subseteq T
  <2>1. PICK k \in e.sites \cap DOMAIN vals : d \in vals[k].pending
    BY <1>5 DEF Eval
  <2> QED BY <1>1, <2>1 DEF Fits
<1> QED BY <1>4, <1>5 DEF Fits, T

(* What is before site i, as far as it goes.                               *)
LEMMA BeforeType ==
  ASSUME NEW T, NEW s \in Seq(T), NEW i \in DOMAIN s
  PROVE  DOMAIN Before(s, i) = 1..(i - 1) /\ \A k \in 1..(i - 1) : Before(s, i)[k] = s[k]
  BY DEF Before

(* Operations within their bounds put a value within its own.              *)
LEMMA SubstituteFits ==
  ASSUME NEW b, NEW v, NEW T, Fits(b, v, T), NEW now, NowFits(b, now)
  PROVE  Substitute(v, now) \subseteq T
<1>1. ASSUME NEW d \in v.pending \cap DOMAIN now PROVE now[d] \subseteq T
  BY DEF Fits, NowFits
<1> QED BY <1>1 DEF Substitute, Fits

(* Before the first round there is nothing.                                *)
LEMMA NoValuesFit == \A b, w : NowFits(b, NoValues(w))
  BY DEF NowFits, NoValues

(* An operation more leaves the bounds of the others.                      *)
LEMMA CeilingMore ==
  ASSUME NEW S, NEW W, NEW c, NEW ops \in Seq(DeferredOp), NEW op \in DeferredOp,
         NEW b, b = Ceiling(S, W, c, ops),
         NEW e, e = Ceiling(S, W, c, Append(ops, op))
  PROVE  /\ DOMAIN b \subseteq DOMAIN e /\ \A d \in DOMAIN b : e[d] = b[d]
         /\ Len(ops) + 1 \in DOMAIN e
         /\ e[Len(ops) + 1] = IF op.op = "Apply" THEN S[op.ctx] ELSE W[c][op.site].known
<1> PICK os : os = Append(ops, op)
  OBVIOUS
<1>1. /\ DOMAIN os = 1..(Len(ops) + 1) /\ os[Len(ops) + 1] = op
      /\ DOMAIN ops = 1..Len(ops) /\ Len(ops) \in Nat
      /\ \A d \in 1..Len(ops) : os[d] = ops[d]
  BY AppendType, SeqType
<1>2. \A d \in DOMAIN ops : d \in DOMAIN os /\ os[d] = ops[d]
  BY <1>1
<1>3. Len(ops) + 1 \in DOMAIN os
  BY <1>1
<1>5. /\ DOMAIN b = DOMAIN ops /\ DOMAIN e = DOMAIN os
      /\ \A d \in DOMAIN b : b[d] = IF ops[d].op = "Apply" THEN S[ops[d].ctx]
                                    ELSE W[c][ops[d].site].known
      /\ \A d \in DOMAIN e : e[d] = IF os[d].op = "Apply" THEN S[os[d].ctx]
                                    ELSE W[c][os[d].site].known
  BY Zenon DEF Ceiling
<1> QED BY <1>1, <1>2, <1>3, <1>5

-----------------------------------------------------------------------------
(* Call sites within a bound.                                              *)

(* What a callee of the site returns for what the argument may be so far   *)
(* is within what the site may have: more argument gives no less.          *)
LEMMA CalleeBelow ==
  ASSUME NEW p, NEW S, NEW W, Bounds(p, S, W), NEW c \in Ctx, NEW i \in DOMAIN W[c],
         NEW f \in CalleesAt(p, W, c, i) \cap Func,
         NEW arg \in SUBSET V, arg # {}, arg \subseteq ArgAt(p, W, c, i),
         ArgAt(p, W, c, i) \in SUBSET V
  PROVE  S[Key(f, arg)] \subseteq W[c][i].known
<1> DEFINE all == ArgAt(p, W, c, i)
<1>1. Key(f, arg) \in Ctx /\ Key(f, all) \in Ctx
  BY KeyType
<1>2. Key(f, arg).func = Key(f, all).func /\ Key(f, arg).arg \subseteq Key(f, all).arg
  BY DEF Key
<1>3. S[Key(f, arg)] \subseteq S[Key(f, all)]
  BY <1>1, <1>2 DEF Bounds
<1>4. Key(f, all) \in SiteCtxs(p, c, Before(W[c], i), i)
  BY DEF SiteCtxs, CalleesAt, ArgAt
<1>5. S[Key(f, all)] \subseteq SiteValue(p, S, c, Before(W[c], i), i)
  <2>1. Eval(p[c.func].sites[i].arg, c, Before(W[c], i)).known # {}
    BY DEF ArgAt
  <2> HIDE DEF all
  <2> QED BY <1>4, <2>1 DEF SiteValue
<1>6. SiteValue(p, S, c, Before(W[c], i), i) \subseteq W[c][i].known
  BY DEF Bounds
<1> QED BY <1>3, <1>5, <1>6

(* A site that starts with callees and an argument it may have.            *)
LEMMA StartSiteFits ==
  ASSUME NEW p, NEW S, NEW W, Bounds(p, S, W), NEW c \in Ctx, NEW i \in DOMAIN W[c],
         NEW callees, callees \subseteq CalleesAt(p, W, c, i),
         NEW arg, arg \subseteq ArgAt(p, W, c, i)
  PROVE  SiteFits(p, W, c, i, StartSite(callees, arg)) /\ StartSite(callees, arg).out.pending = {}
<1>1. callees \cap {Unknown} \subseteq SiteValue(p, S, c, Before(W[c], i), i)
  BY DEF SiteValue, CalleesAt
<1>2. SiteValue(p, S, c, Before(W[c], i), i) \subseteq W[c][i].known
  BY DEF Bounds
<1> QED BY <1>1, <1>2 DEF SiteFits, StartSite

(* A site that gets an answer it may have.                                 *)
LEMMA SiteAnsweredFits ==
  ASSUME NEW p, NEW W, NEW c, NEW i, NEW s \in SiteCall, SiteFits(p, W, c, i, s),
         NEW v, v.known \subseteq W[c][i].known
  PROVE  SiteFits(p, W, c, i, SiteAnswered(s, v))
<1>1. PICK t : t = SiteAnswered(s, v)
  OBVIOUS
<1>2. t.todo \subseteq s.todo /\ t.arg = s.arg /\ t.out = Join(s.out, v)
  BY <1>1 DEF SiteAnswered, SiteCall
<1>3. t.out.known = s.out.known \cup v.known
  BY <1>2 DEF Join
<1> QED BY <1>1, <1>2, <1>3 DEF SiteFits

-----------------------------------------------------------------------------
(* Walks and replays within a bound.                                       *)

(* S and W are a bound of the program p.                                   *)
BoundOf(p, S, W) ==
    /\ p \in [Func -> Body] /\ S \in [Ctx -> SUBSET V] /\ W \in [Ctx -> Seq(Value)]
    /\ Bounds(p, S, W)

(* What the argument and the callees of a site may be are sets of values.  *)
LEMMA SiteTypes ==
  ASSUME NEW p, NEW S, NEW W, BoundOf(p, S, W), NEW c \in Ctx, NEW i \in DOMAIN W[c]
  PROVE  /\ i \in DOMAIN p[c.func].sites /\ p[c.func].sites[i] \in CallSite
         /\ Before(W[c], i) \in Seq(Value)
         /\ CalleesAt(p, W, c, i) \in SUBSET V /\ ArgAt(p, W, c, i) \in SUBSET V
<1>1. p[c.func] \in Body /\ W[c] \in Seq(Value) /\ DOMAIN W[c] = DOMAIN p[c.func].sites
  BY CtxType DEF BoundOf, Bounds
<1>2. p[c.func].sites \in Seq(CallSite)
  BY <1>1 DEF Body
<1>3. i \in DOMAIN p[c.func].sites /\ p[c.func].sites[i] \in CallSite
  BY <1>1, <1>2
<1>4. p[c.func].sites[i].callee \in Expr /\ p[c.func].sites[i].arg \in Expr
  BY <1>3 DEF CallSite
<1>5. Before(W[c], i) \in Seq(Value)
  <2>1. i \in 1..Len(W[c]) /\ Len(W[c]) \in Nat
    BY <1>1
  <2> QED BY <1>1, <2>1 DEF Before
<1>6. ASSUME NEW e \in Expr PROVE Eval(e, c, Before(W[c], i)).known \in SUBSET V
  BY <1>5, EvalType DEF Value
<1> QED BY <1>3, <1>4, <1>5, <1>6 DEF CalleesAt, ArgAt

(* The answer of the first callee is within what the site may have.        *)
LEMMA AnswerBelow ==
  ASSUME NEW p, NEW S, NEW W, BoundOf(p, S, W), NEW c \in Ctx, NEW i,
         NEW s \in SiteCall, s.todo # {}, s.arg # {}, SiteFits(p, W, c, i, s)
  PROVE  S[Key(NextCallee(s), s.arg)] \subseteq W[c][i].known
<1>1. NextCallee(s) \in s.todo /\ NextCallee(s) \in Func
  BY NextCalleeIn
<1>2. /\ i \in DOMAIN W[c] /\ s.arg \in SUBSET V
      /\ s.todo \subseteq CalleesAt(p, W, c, i) /\ s.arg \subseteq ArgAt(p, W, c, i)
  BY DEF SiteFits, SiteCall
<1>3. ArgAt(p, W, c, i) \in SUBSET V
  BY <1>2, SiteTypes
<1>4. NextCallee(s) \in CalleesAt(p, W, c, i) \cap Func
  BY <1>1, <1>2
<1>5. Bounds(p, S, W)
  BY DEF BoundOf
<1> QED BY <1>2, <1>3, <1>4, <1>5, CalleeBelow

(* The walk v is w with one more deferred operation.                       *)
WalkDefers(w, v, op) ==
    v.deferred = Append(w.deferred, op) /\ v.rets = w.rets /\ v.resolved = w.resolved

(* An operation is deferred: what fitted before fits.                      *)
LEMMA DeferredFits ==
  ASSUME NEW p, NEW S, NEW W, NEW c, NEW w, w.deferred \in Seq(DeferredOp),
         WalkFits(p, S, W, c, w), NEW op \in DeferredOp, NEW v, WalkDefers(w, v, op),
         OpFits(p, W, c, Ceiling(S, W, c, v.deferred), op)
  PROVE  /\ WalkFits(p, S, W, c, v)
         /\ \A u, T : Fits(Ceiling(S, W, c, w.deferred), u, T)
                     => Fits(Ceiling(S, W, c, v.deferred), u, T)
<1>1. PICK ops \in Seq(DeferredOp) : ops = w.deferred
  OBVIOUS
<1>2. PICK os : os = Append(ops, op)
  OBVIOUS
<1>3. PICK b, e : b = Ceiling(S, W, c, ops) /\ e = Ceiling(S, W, c, os)
  OBVIOUS
<1>4. v.deferred = os /\ v.rets = w.rets
  BY <1>1, <1>2 DEF WalkDefers
<1>5. DOMAIN b \subseteq DOMAIN e /\ \A d \in DOMAIN b : e[d] = b[d]
  BY <1>1, <1>2, <1>3, CeilingMore
<1>6. ASSUME NEW u, NEW T, Fits(b, u, T) PROVE Fits(e, u, T)
  BY <1>5, <1>6, FitsMore
<1>7. /\ \A d \in DOMAIN ops : OpFits(p, W, c, b, ops[d])
      /\ Fits(b, w.rets, S[c])
  BY <1>1, <1>3 DEF WalkFits
<1>8. /\ DOMAIN os = 1..(Len(ops) + 1) /\ os[Len(ops) + 1] = op
      /\ DOMAIN ops = 1..Len(ops) /\ Len(ops) \in Nat
      /\ \A k \in 1..Len(ops) : os[k] = ops[k]
  BY <1>1, <1>2, AppendType, SeqType
<1>9. ASSUME NEW d \in DOMAIN os PROVE OpFits(p, W, c, e, os[d])
  <2>1. CASE d = Len(ops) + 1
    BY <1>3, <1>4, <1>8, <2>1
  <2>2. CASE d # Len(ops) + 1
    <3>1. d \in DOMAIN ops /\ os[d] = ops[d]
      BY <1>8, <1>9, <2>2
    <3>2. OpFits(p, W, c, b, ops[d])
      BY <1>7, <3>1
    <3> QED BY <1>6, <3>1, <3>2 DEF OpFits
  <2> QED BY <2>1, <2>2
<1>10. Fits(e, v.rets, S[c])
  BY <1>4, <1>6, <1>7
<1>11. WalkFits(p, S, W, c, v)
  BY <1>3, <1>4, <1>9, <1>10 DEF WalkFits
<1> QED BY <1>1, <1>3, <1>4, <1>6, <1>11

(* A walk gets an answer that is within the bound, or none yet.            *)
LEMMA WalkAnsweredBelow ==
  ASSUME NEW p, NEW S, NEW W, BoundOf(p, S, W), NEW fr \in WalkFrame,
         InSite(fr), fr.site.todo # {}, WalkBelow(p, S, W, fr),
         NEW got \in (SUBSET V) \cup {None},
         got # None => got \subseteq S[Key(NextCallee(fr.site), fr.site.arg)]
  PROVE  WalkBelow(p, S, W, Answered(fr, got))
<1> DEFINE c == fr.ctx
           i == Len(fr.vals) + 1
           s == fr.site
           b == Ceiling(S, W, c, fr.w.deferred)
<1>1. /\ fr.kind = "walk" /\ fr.w \in Walk /\ s \in SiteCall /\ s # None /\ c \in Ctx
      /\ fr.w.deferred \in Seq(DeferredOp)
  BY WalkFrameType, WalkFields DEF InSite
<1>2. /\ SiteFits(p, W, c, i, s) /\ Fits(b, s.out, W[c][i].known)
      /\ WalkFits(p, S, W, c, fr.w) /\ fr.w.resolved = <<>>
      /\ DOMAIN fr.vals \subseteq DOMAIN W[c]
      /\ \A k \in DOMAIN fr.vals : Fits(b, fr.vals[k], W[c][k].known)
  BY <1>1 DEF WalkBelow
<1>3. s.arg # {} => S[Key(NextCallee(s), s.arg)] \subseteq W[c][i].known
  BY <1>1, <1>2, AnswerBelow
<1>4. Answered(fr, got) = CallAnswered(fr, got)
  BY <1>1 DEF Answered
<1> HIDE DEF b
<1>5. CASE s.arg = {} \/ got # None
  <2>1. PICK K : /\ K \subseteq W[c][i].known
                 /\ CallAnswered(fr, got) =
                       [fr EXCEPT !.site = SiteAnswered(fr.site, [known |-> K, pending |-> {}])]
    <3>1. CASE s.arg = {}
      <4>1. CallAnswered(fr, got) =
              [fr EXCEPT !.site = SiteAnswered(fr.site, [known |-> {}, pending |-> {}])]
        BY <1>1, <3>1 DEF CallAnswered, WalkFrame
      <4> QED BY <4>1
    <3>2. CASE s.arg # {}
      <4>1. CallAnswered(fr, got) =
              [fr EXCEPT !.site = SiteAnswered(fr.site, [known |-> got, pending |-> {}])]
        BY <1>1, <1>5, <3>2 DEF CallAnswered, WalkFrame
      <4> QED BY <1>3, <1>5, <3>2, <4>1
    <3> QED BY <3>1, <3>2
  <2>2. PICK v : v = [known |-> K, pending |-> {}]
    OBVIOUS
  <2>3. PICK t : t = SiteAnswered(s, v)
    OBVIOUS
  <2>4. SiteFits(p, W, c, i, t)
    BY <1>1, <1>2, <2>1, <2>2, <2>3, SiteAnsweredFits
  <2>5. t.out = Join(s.out, v)
    BY <1>1, <2>3 DEF SiteAnswered, SiteCall
  <2>6. Fits(b, v, W[c][i].known)
    BY <2>1, <2>2 DEF Fits
  <2>7. Fits(b, t.out, W[c][i].known)
    BY <1>2, <2>5, <2>6, FitsJoin
  <2>8. PICK gr : gr = [fr EXCEPT !.site = t] /\ gr = Answered(fr, got)
    BY <1>4, <2>1, <2>2, <2>3
  <2>9. gr.w = fr.w /\ gr.vals = fr.vals /\ gr.ctx = c /\ gr.site = t
    BY <2>8 DEF WalkFrame
  <2> QED BY <1>2, <2>4, <2>7, <2>8, <2>9 DEF WalkBelow, b
<1>6. CASE s.arg # {} /\ got = None
  <2>1. PICK op : op = [op |-> "Apply", ctx |-> Key(NextCallee(s), s.arg)]
    OBVIOUS
  <2>2. NextCallee(s) \in Func /\ s.arg \in SUBSET V
    BY <1>1, NextCalleeIn DEF SiteCall
  <2>3. op \in DeferredOp /\ op.op = "Apply" /\ op.ctx = Key(NextCallee(s), s.arg)
    BY <2>1, <2>2, KeyType DEF DeferredOp
  <2>4. PICK e : e = Ceiling(S, W, c, Append(fr.w.deferred, op))
    OBVIOUS
  <2>5. OpFits(p, W, c, e, op)
    BY <2>3 DEF OpFits
  <2>6. PICK w : w = [fr.w EXCEPT !.deferred = Append(@, op)]
    OBVIOUS
  <2>7. /\ WalkFits(p, S, W, c, w) /\ w.resolved = <<>>
        /\ w.deferred = Append(fr.w.deferred, op)
        /\ \A v, T : Fits(b, v, T) => Fits(e, v, T)
    <3>1. WalkDefers(fr.w, w, op)
      BY <1>1, <2>6 DEF Walk, WalkDefers
    <3>2. w.deferred = Append(fr.w.deferred, op) /\ w.resolved = <<>>
      BY <1>2, <3>1 DEF WalkDefers
    <3>3. WalkFits(p, S, W, c, w) /\ \A u, T :
             Fits(Ceiling(S, W, c, fr.w.deferred), u, T) => Fits(Ceiling(S, W, c, w.deferred), u, T)
      BY <1>1, <1>2, <2>3, <2>4, <2>5, <3>1, <3>2, DeferredFits
    <3> QED BY <2>4, <3>2, <3>3 DEF b
  <2>8. PICK n : n = Len(fr.w.deferred) + 1
    OBVIOUS
  <2>9. n \in DOMAIN e /\ e[n] = S[Key(NextCallee(s), s.arg)]
    <3> HIDE DEF c, s
    <3>1. PICK a, os : os = fr.w.deferred /\ a = Ceiling(S, W, c, os)
      OBVIOUS
    <3>2. os \in Seq(DeferredOp) /\ op \in DeferredOp /\ e = Ceiling(S, W, c, Append(os, op))
      BY <1>1, <2>3, <2>4, <3>1
    <3>3. /\ Len(os) + 1 \in DOMAIN e
          /\ e[Len(os) + 1] = IF op.op = "Apply" THEN S[op.ctx] ELSE W[c][op.site].known
      BY <3>1, <3>2, CeilingMore
    <3> QED BY <2>3, <2>8, <3>1, <3>3
  <2>10. PICK v : v = [known |-> {}, pending |-> {n}]
    OBVIOUS
  <2>11. PICK t : t = SiteAnswered(s, v)
    OBVIOUS
  <2>12. SiteFits(p, W, c, i, t)
    BY <1>1, <1>2, <2>10, <2>11, SiteAnsweredFits
  <2>13. t.out = Join(s.out, v)
    BY <1>1, <2>11 DEF SiteAnswered, SiteCall
  <2>14. Fits(e, v, W[c][i].known)
    BY <1>3, <1>6, <2>9, <2>10 DEF Fits
  <2>15. Fits(e, s.out, W[c][i].known)
    BY <1>2, <2>7
  <2>16. Fits(e, t.out, W[c][i].known)
    BY <2>13, <2>14, <2>15, FitsJoin
  <2>17. Wanted(fr) = Key(NextCallee(s), s.arg)
    BY <1>1 DEF Wanted
  <2>18. PICK gr : gr = [fr EXCEPT !.w = w, !.site = t] /\ gr = Answered(fr, got)
    <3>1. CallAnswered(fr, got) = [fr EXCEPT
              !.w.deferred = Append(@, op), !.site = SiteAnswered(@, v)]
      BY <1>1, <1>6, <2>1, <2>8, <2>10, <2>17 DEF CallAnswered
    <3>2. [fr EXCEPT !.w.deferred = Append(@, op), !.site = SiteAnswered(@, v)]
              = [fr EXCEPT !.w = w, !.site = t]
      BY <2>6, <2>11 DEF WalkFrame
    <3> QED BY <1>4, <3>1, <3>2
  <2>19. gr.w = w /\ gr.vals = fr.vals /\ gr.ctx = c /\ gr.site = t
    BY <2>18 DEF WalkFrame
  <2>20. Ceiling(S, W, gr.ctx, gr.w.deferred) = e
    BY <2>4, <2>7, <2>19
  <2>21. \A k \in DOMAIN fr.vals : Fits(e, fr.vals[k], W[c][k].known)
    BY <1>2, <2>7
  <2> QED BY <1>2, <2>7, <2>12, <2>16, <2>18, <2>19, <2>20, <2>21 DEF WalkBelow
<1> QED BY <1>5, <1>6

(* An operation of a replay has its value.                                 *)
LEMMA OpDoneBelow ==
  ASSUME NEW p, NEW S, NEW W, NEW wk, NEW fr \in ResolveFrame, ~Capped(fr),
         ReplayBelow(p, S, W, wk, fr), NEW v,
         NEW b, b = Ceiling(S, W, Member(fr), OpsOf(wk, fr)),
         fr.pc \in DOMAIN b => v \subseteq b[fr.pc]
  PROVE  ReplayBelow(p, S, W, wk, OpDone(fr, v))
<1>1. PICK gr : gr = OpDone(fr, v)
  OBVIOUS
<1>2. /\ gr.now = [fr.now EXCEPT ![fr.pc] = v] /\ gr.site = None /\ gr.at = fr.at
      /\ gr.members = fr.members
  BY <1>1 DEF OpDone, ResolveFrame
<1>3. SUFFICES ASSUME fr.at <= Len(fr.members) PROVE ReplayBelow(p, S, W, wk, gr)
  BY <1>1, <1>2 DEF ReplayBelow
<1>4. NowFits(b, fr.now)
  BY <1>3 DEF ReplayBelow, Member, OpsOf
<1>5. NowFits(b, gr.now)
  BY <1>2, <1>4 DEF NowFits
<1> QED BY <1>2, <1>5 DEF ReplayBelow, Member, OpsOf

(* A replay gets an answer that is within the bound, or none yet.          *)
LEMMA ReplayAnsweredBelow ==
  ASSUME NEW p, NEW S, NEW W, BoundOf(p, S, W), NEW wk, NEW fr \in ResolveFrame,
         ~Capped(fr), AsksIn(wk, fr), ReplayBelow(p, S, W, wk, fr),
         NEW got \in (SUBSET V) \cup {None},
         got # None => got \subseteq S[WantedIn(wk, fr)]
  PROVE  ReplayBelow(p, S, W, wk, Answered(fr, got))
<1>1. fr.kind = "resolve" /\ fr.pc \in Nat \ {0} /\ fr.members \in Seq(Ctx)
      /\ fr.at \in Nat \ {0} /\ fr.site \in SiteCall \cup {None}
  BY ResolveFrameType
<1>2. CASE InSite(fr)
  <2>1. fr.site.todo # {} /\ fr.site \in SiteCall /\ fr.site # None
    BY <1>1, <1>2 DEF AsksIn, InSite
  <2>2. WantedIn(wk, fr) = Key(NextCallee(fr.site), fr.site.arg)
    BY <1>1, <1>2 DEF WantedIn
  <2>3. Answered(fr, got) = CallAnswered(fr, got)
    BY <1>1, <1>2 DEF Answered
  <2>4. PICK K : /\ K = IF fr.site.arg = {} \/ got = None THEN {} ELSE got
                 /\ CallAnswered(fr, got) =
                       [fr EXCEPT !.site = SiteAnswered(fr.site, [known |-> K, pending |-> {}])]
    BY <1>1 DEF CallAnswered, ResolveFrame
  <2>5. PICK t : t = SiteAnswered(fr.site, [known |-> K, pending |-> {}])
    OBVIOUS
  <2>6. PICK gr : gr = [fr EXCEPT !.site = t] /\ gr = Answered(fr, got)
    BY <2>3, <2>4, <2>5
  <2>7. /\ gr.now = fr.now /\ gr.site = t /\ gr.at = fr.at /\ gr.pc = fr.pc
        /\ gr.members = fr.members
    BY <2>6 DEF ResolveFrame
  <2>8. SUFFICES ASSUME fr.at <= Len(fr.members) PROVE ReplayBelow(p, S, W, wk, gr)
    BY <2>6, <2>7 DEF ReplayBelow
  <2>9. PICK m, i : m = Member(fr) /\ i = OpsOf(wk, fr)[fr.pc].site
    OBVIOUS
  <2>10. /\ NowFits(Ceiling(S, W, m, OpsOf(wk, fr)), fr.now) /\ SiteFits(p, W, m, i, fr.site)
         /\ fr.pc \in DOMAIN OpsOf(wk, fr) /\ OpsOf(wk, fr)[fr.pc].op = "Call"
    BY <2>1, <2>8, <2>9 DEF ReplayBelow, Member, OpsOf
  <2>11. m \in Ctx
    BY <1>1, <2>8, <2>9 DEF Member
  <2>12. K \subseteq W[m][i].known
    BY <2>1, <2>2, <2>4, <2>10, <2>11, AnswerBelow
  <2>13. SiteFits(p, W, m, i, t)
    <3>1. PICK v : v = [known |-> K, pending |-> {}]
      OBVIOUS
    <3>2. v.known \subseteq W[m][i].known /\ t = SiteAnswered(fr.site, v)
      BY <2>5, <2>12, <3>1
    <3> QED BY <2>1, <2>10, <3>2, SiteAnsweredFits
  <2> QED BY <2>7, <2>9, <2>10, <2>13 DEF ReplayBelow, Member, OpsOf
<1>3. CASE ~InSite(fr)
  <2>1. /\ Replays(fr) /\ fr.site = None /\ fr.pc <= Len(OpsOf(wk, fr))
        /\ OpsOf(wk, fr)[fr.pc].op = "Apply" /\ WantedIn(wk, fr) = OpsOf(wk, fr)[fr.pc].ctx
    BY <1>1, <1>3 DEF AsksIn, WantedIn
  <2>2. PICK v : v = (IF got = None THEN {} ELSE got) /\ Answered(fr, got) = OpDone(fr, v)
    BY <1>1, <1>3 DEF Answered
  <2>3. PICK b : b = Ceiling(S, W, Member(fr), OpsOf(wk, fr))
    OBVIOUS
  <2>4. fr.pc \in DOMAIN b => b[fr.pc] = S[WantedIn(wk, fr)]
    BY <2>1, <2>3 DEF Ceiling
  <2>5. fr.pc \in DOMAIN b => v \subseteq b[fr.pc]
    BY <2>2, <2>4
  <2> QED BY <2>2, <2>3, <2>5, OpDoneBelow
<1> QED BY <1>2, <1>3

-----------------------------------------------------------------------------
(* What a step leaves as it is.                                            *)

(* A spoiled group stays so: its members still wait, in one group, and     *)
(* what its fixpoint met is not forgotten.                                 *)
LEMMA SpoiledStays ==
  ASSUME NEW st, NEW hs, NEW rd, NEW fx, NEW cs, NEW h, Spoiled(st, hs, rd, fx, cs, h),
         NEW tt, NEW gs, NEW rt, NEW ft, NEW ds, NEW k,
         \A c \in Ctx : st[c] \in Waiting /\ hs[c] = h =>
             /\ tt[c] \in Waiting /\ gs[c] = k
             /\ rd[c].cut # None => rt[c].cut # None,
         FixpointCut(fx) /\ fx.head = h => Spoiled(tt, gs, rt, ft, ds, k),
         \A i \in DOMAIN cs :
             cs[i].kind = "resolve" /\ FixpointCut(cs[i].outer) /\ cs[i].outer.head = h
               => Spoiled(tt, gs, rt, ft, ds, k)
  PROVE  Spoiled(tt, gs, rt, ft, ds, k)
<1>1. CASE \E c \in Ctx : st[c] \in Waiting /\ hs[c] = h /\ rd[c].cut # None
  BY <1>1 DEF Spoiled
<1>2. CASE ~\E c \in Ctx : st[c] \in Waiting /\ hs[c] = h /\ rd[c].cut # None
  <2>1. \/ FixpointCut(fx) /\ fx.head = h
        \/ \E i \in DOMAIN cs :
              cs[i].kind = "resolve" /\ FixpointCut(cs[i].outer) /\ cs[i].outer.head = h
    BY <1>2 DEF Spoiled
  <2> QED BY <2>1
<1> QED BY <1>1, <1>2

(* The frames of cs, with what links them.                                 *)
SameFrames(cs, ds) == DOMAIN ds = DOMAIN cs /\ \A i \in DOMAIN cs : SameLinks(cs[i], ds[i])

(* A fixpoint that is told of a cut spoils its group,                      *)
LEMMA SpoiledByCut ==
  ASSUME NEW fx \in Fixpoint \cup {None}, NEW stk \in Seq(Ctx), NEW n \in Note,
         ReaderIsFixpoint(fx, stk), n.cut # None
  PROVE  \A st, hs, rt, ds : Spoiled(st, hs, rt, FixpointTold(fx, stk, n), ds, fx.head)
<1>1. FixpointCut(FixpointTold(fx, stk, n))
  BY FixpointToldCut
<1>2. FixpointTold(fx, stk, n).head = fx.head
  BY FixpointToldKeeps
<1> QED BY <1>1, <1>2 DEF Spoiled

(* and a reader that is told more spoils no less.                          *)
LEMMA SpoiledTold ==
  ASSUME NEW st, NEW hs, NEW rd \in [Ctx -> Note], NEW fx \in Fixpoint \cup {None},
         NEW cs, NEW ds, SameFrames(cs, ds), NEW stk \in Seq(Ctx), NEW n \in Note,
         NEW rt, rt = ReadsTold(rd, fx, stk, n), NEW ft, ft = FixpointTold(fx, stk, n), NEW h,
         Spoiled(st, hs, rd, fx, cs, h)
  PROVE  Spoiled(st, hs, rt, ft, ds, h)
<1>1. Grown(rd, rt) /\ (FixpointCut(fx) => FixpointCut(ft))
  BY ReadsToldGrow, FixpointToldCut
<1>2. fx # None => ft.head = fx.head
  <2>1. ReaderIsFixpoint(fx, stk) => ft.head = fx.head
    BY FixpointToldKeeps
  <2>2. ~ReaderIsFixpoint(fx, stk) => ft = fx
    BY FixpointToldKeeps
  <2> QED BY <2>1, <2>2
<1>3. ASSUME FixpointCut(fx), fx.head = h
      PROVE  Spoiled(st, hs, rt, ft, ds, h)
  BY <1>1, <1>2, <1>3 DEF Spoiled, FixpointCut
<1>4. ASSUME NEW i \in DOMAIN cs, cs[i].kind = "resolve", FixpointCut(cs[i].outer),
             cs[i].outer.head = h
      PROVE  Spoiled(st, hs, rt, ft, ds, h)
  <2>1. ds[i].kind = "resolve" /\ ds[i].outer = cs[i].outer /\ i \in DOMAIN ds
    BY <1>4 DEF SameFrames, SameLinks
  <2> QED BY <1>4, <2>1 DEF Spoiled
<1>5. \A c \in Ctx : rd[c].cut # None => rt[c].cut # None
  BY <1>1 DEF Grown
<1> QED BY <1>3, <1>4, <1>5, SpoiledStays

(* The operations that the fixpoints replay stay what they are.            *)
OpsKept(wk, vk, cs) ==
    \A i \in DOMAIN cs : Replays(cs[i]) => OpsOf(vk, cs[i]) = OpsOf(wk, cs[i])

(* and the replays stay below the bound.                                   *)
LEMMA ReplayKept ==
  ASSUME NEW p, NEW S, NEW W, NEW wk, NEW vk, NEW fr \in ResolveFrame,
         Replays(fr) => OpsOf(vk, fr) = OpsOf(wk, fr), ReplayBelow(p, S, W, wk, fr)
  PROVE  ReplayBelow(p, S, W, vk, fr)
<1>1. SUFFICES ASSUME fr.at <= Len(fr.members) PROVE ReplayBelow(p, S, W, vk, fr)
  BY DEF ReplayBelow
<1>2. vk[fr.members[fr.at]].deferred = wk[fr.members[fr.at]].deferred
  BY <1>1, ResolveFrameType DEF Replays, OpsOf, Member
<1> QED BY <1>1, <1>2 DEF ReplayBelow

(* A walk whose operations, returns and values are the same is too.        *)
LEMMA WaiterKept ==
  ASSUME NEW p, NEW S, NEW W, NEW c, NEW wk, NEW vk, NEW cur,
         WaiterBelow(p, S, W, wk, cur, c),
         vk[c].deferred = wk[c].deferred, vk[c].rets = wk[c].rets
  PROVE  /\ WalkFits(p, S, W, c, vk[c])
         /\ \A ju : ju[c] = cur[c] /\ vk[c].resolved = wk[c].resolved
               => WaiterBelow(p, S, W, vk, ju, c)
<1>1. WalkFits(p, S, W, c, vk[c])
  BY DEF WaiterBelow, WalkFits
<1> QED BY <1>1 DEF WaiterBelow

(* An answer changes the frame on top, and nothing that links it.          *)
LEMMA AnswerLinks ==
  ASSUME NEW cs \in Seq(Frame), NEW stk, NEW fx, FramesFit(cs, stk, fx), Waits(cs[Len(cs)]),
         NEW got \in (SUBSET V) \cup {None}, NEW ds, ds = Answer(cs, got)
  PROVE  /\ ds \in Seq(Frame) /\ Len(ds) = Len(cs) /\ DOMAIN ds = DOMAIN cs
         /\ \A i \in DOMAIN cs : SameShape(cs[i], ds[i]) /\ SameLinks(cs[i], ds[i])
         /\ \A i \in DOMAIN cs : i < Len(cs) => ds[i] = cs[i]
         /\ ds[Len(cs)] = Answered(cs[Len(cs)], got)
         /\ \A wk : Linked(wk, cs) => Linked(wk, ds)
<1>1. PICK n \in Nat : n = Len(cs) /\ n \in 1..n /\ DOMAIN cs = 1..n
  BY SeqType DEF FramesFit
<1>2. PICK gr \in Frame : gr = Answered(cs[n], got) /\ SameShape(cs[n], gr)
  BY <1>1, SeqType, AnsweredType
<1>3. ds = [cs EXCEPT ![n] = gr]
  BY <1>1, <1>2 DEF Answer
<1>4. ds \in Seq(Frame) /\ Len(ds) = n /\ \A i \in 1..n : SameShape(cs[i], ds[i])
  BY <1>1, <1>2, <1>3, SetTopFrames
<1>5. DOMAIN ds = 1..n /\ ds[n] = gr /\ \A i \in 1..n : i # n => ds[i] = cs[i]
  BY <1>1, <1>3
<1>6. \A i \in 1..n : SameLinks(cs[i], ds[i])
  BY <1>4, ShapeLinks
<1>7. \A i \in 1..n : cs[i].kind # "solve" => Owner(ds[i]) = Owner(cs[i])
  BY <1>4, SeqType, FrameType, <1>1 DEF SameShape, Owner
<1>8. ASSUME NEW wk, Linked(wk, cs) PROVE Linked(wk, ds)
  <2> SUFFICES ASSUME NEW i \in 1..n, i < n
               PROVE  AsksIn(wk, ds[i]) /\ WantedIn(wk, ds[i]) = Owner(ds[i + 1])
    BY <1>4, <1>5 DEF Linked
  <2>1. AsksIn(wk, cs[i]) /\ WantedIn(wk, cs[i]) = Owner(cs[i + 1])
    BY <1>1, <1>8 DEF Linked
  <2>2. i + 1 \in 1..n /\ cs[i + 1].kind # "solve"
    BY <1>1 DEF FramesFit
  <2> QED BY <1>5, <1>7, <2>1, <2>2
<1> QED BY <1>1, <1>2, <1>4, <1>5, <1>6, <1>8

(* Where a fixpoint is on top, it is the reader.                           *)
LEMMA FixpointReads ==
  ASSUME NEW cs \in Seq(Frame), NEW stk \in Seq(Ctx), NEW fx, FramesFit(cs, stk, fx),
         cs[Len(cs)].kind = "resolve"
  PROVE  ReaderIsFixpoint(fx, stk) /\ fx.head = cs[Len(cs)].head
<1>1. PICK n \in Nat : n = Len(cs) /\ DOMAIN cs = 1..n /\ n \in 1..n
  BY SeqType DEF FramesFit
<1>2. FixpointAt(cs, n, fx) /\ Len(stk) = Height(cs[n])
  BY <1>1 DEF FramesFit
<1>3. PICK i \in 1..n : /\ cs[i].kind = "resolve" /\ \A j \in (i + 1)..n : cs[j].kind # "resolve"
                        /\ fx # None /\ fx.base = cs[i].base /\ fx.head = cs[i].head
  BY <1>1, <1>2 DEF FixpointAt
<1>4. i = n
  BY <1>1, <1>3
<1> QED BY <1>1, <1>2, <1>3, <1>4 DEF ReaderIsFixpoint, Height

(* An asking frame gets an answer within the bound, unless its reader is   *)
(* told of a cut; or none yet.                                             *)
LEMMA BelowAfterReturn ==
  ASSUME NEW p, NEW S, NEW W, BoundOf(p, S, W),
         NEW cs \in Seq(Frame), NEW stk \in Seq(Ctx), NEW fx \in Fixpoint \cup {None},
         FramesFit(cs, stk, fx), Waits(cs[Len(cs)]),
         NEW wk, AsksIn(wk, cs[Len(cs)]),
         cs[Len(cs)].kind = "resolve" => ~Capped(cs[Len(cs)]),
         NEW rd \in [Ctx -> Note], NEW n \in Note, NEW got \in (SUBSET V) \cup {None},
         NEW rt, rt = ReadsTold(rd, fx, stk, n), NEW ft, ft = FixpointTold(fx, stk, n),
         NEW ds, ds = Answer(cs, got),
         NEW st, NEW hs, NEW cur, NEW res,
         SlotsBelow(p, S, W, st, hs, rd, wk, cur, res, fx, cs),
         FramesBelow(p, S, W, st, hs, rd, wk, fx, cs),
         got # None /\ n.cut = None
           /\ (cs[Len(cs)].kind = "resolve"
                  => ~Spoiled(st, hs, rd, fx, cs, cs[Len(cs)].head))
           => got \subseteq S[WantedIn(wk, cs[Len(cs)])]
  PROVE  /\ SlotsBelow(p, S, W, st, hs, rt, wk, cur, res, ft, ds)
         /\ FramesBelow(p, S, W, st, hs, rt, wk, ft, ds)
<1>1. PICK k \in Nat : k = Len(cs) /\ DOMAIN cs = 1..k /\ k \in 1..k
  BY SeqType DEF FramesFit
<1>2. /\ DOMAIN ds = DOMAIN cs /\ \A i \in DOMAIN cs : i # k => ds[i] = cs[i]
      /\ \A i \in DOMAIN cs : SameShape(cs[i], ds[i]) /\ SameLinks(cs[i], ds[i])
      /\ ds[k] = Answered(cs[k], got)
  BY <1>1, AnswerLinks
<1>3. \A h : Spoiled(st, hs, rd, fx, cs, h) => Spoiled(st, hs, rt, ft, ds, h)
  <2>1. SameFrames(cs, ds)
    BY <1>2 DEF SameFrames
  <2> QED BY <2>1, SpoiledTold
<1>4. \A c \in Ctx : rt[c].cut = None => rd[c].cut = None
  BY ReadsToldGrow DEF Grown
<1>5. SlotsBelow(p, S, W, st, hs, rt, wk, cur, res, ft, ds)
  BY <1>3 DEF SlotsBelow
<1>6. ASSUME NEW i \in DOMAIN ds, ds[i].kind = "walk", rt[ds[i].ctx].cut = None
      PROVE  WalkBelow(p, S, W, ds[i])
  <2>1. cs[i].kind = "walk" /\ ds[i].ctx = cs[i].ctx /\ cs[i] \in WalkFrame
    BY <1>1, <1>2, <1>6, SeqType, FrameType DEF SameShape
  <2>2. cs[i].ctx \in Ctx
    BY <2>1, WalkFrameType
  <2>3. WalkBelow(p, S, W, cs[i])
    BY <1>2, <1>4, <1>6, <2>1, <2>2 DEF FramesBelow
  <2>4. CASE i # k
    BY <1>2, <1>6, <2>3, <2>4
  <2>5. CASE i = k
    <3>1. InSite(cs[k]) /\ cs[k].site.todo # {}
      BY <1>1, <2>1, <2>5 DEF AsksIn, Replays
    <3>2. WantedIn(wk, cs[k]) = Key(NextCallee(cs[k].site), cs[k].site.arg)
      BY <2>1, <2>5, <3>1 DEF WantedIn
    <3>3. n.cut = None
      <4>1. ~ReaderIsFixpoint(fx, stk)
        BY <1>1, <2>1, <2>5, WalkReads
      <4>2. stk # <<>> /\ stk[Len(stk)] = cs[k].ctx
        BY <1>1, <2>1, <2>5, PopWalk
      <4>3. rt[cs[k].ctx] = Noted(rd[cs[k].ctx], n)
        BY <2>2, <2>5, <4>1, <4>2, ReadsToldKeeps
      <4>4. rd[cs[k].ctx] \in Note
        BY <2>2, <2>5
      <4>5. n.cut # None => Noted(rd[cs[k].ctx], n).cut # None
        BY <4>4, NotedGrows
      <4> QED BY <1>6, <2>1, <2>5, <4>3, <4>5
    <3>4. got # None => got \subseteq S[Key(NextCallee(cs[k].site), cs[k].site.arg)]
      BY <1>1, <2>1, <2>5, <3>2, <3>3
    <3>5. WalkBelow(p, S, W, Answered(cs[k], got))
      BY <2>1, <2>3, <2>5, <3>1, <3>4, WalkAnsweredBelow
    <3> QED BY <1>2, <2>5, <3>5
  <2> QED BY <2>4, <2>5
<1>7. ASSUME NEW i \in DOMAIN ds, ds[i].kind = "resolve", ~Spoiled(st, hs, rt, ft, ds, ds[i].head)
      PROVE  ReplayBelow(p, S, W, wk, ds[i])
  <2>1. cs[i].kind = "resolve" /\ ds[i].head = cs[i].head /\ cs[i] \in ResolveFrame
    BY <1>1, <1>2, <1>7, SeqType, FrameType DEF SameShape
  <2>2. ~Spoiled(st, hs, rd, fx, cs, cs[i].head)
    BY <1>3, <1>7, <2>1
  <2>3. ReplayBelow(p, S, W, wk, cs[i])
    BY <1>2, <2>1, <2>2 DEF FramesBelow
  <2>4. CASE i # k
    BY <1>2, <1>7, <2>3, <2>4
  <2>5. CASE i = k
    <3>1. ReaderIsFixpoint(fx, stk) /\ fx.head = cs[k].head
      BY <1>1, <2>1, <2>5, FixpointReads
    <3>2. n.cut = None
      BY <1>7, <2>1, <2>5, <3>1, SpoiledByCut
    <3>3. got # None => got \subseteq S[WantedIn(wk, cs[k])]
      BY <1>1, <2>2, <2>5, <3>2
    <3>4. AsksIn(wk, cs[k]) /\ ~Capped(cs[k])
      BY <1>1, <2>1, <2>5
    <3>5. ReplayBelow(p, S, W, wk, Answered(cs[k], got))
      BY <2>1, <2>3, <2>5, <3>3, <3>4, ReplayAnsweredBelow
    <3> QED BY <1>2, <2>5, <3>5
  <2> QED BY <2>4, <2>5
<1>8. FramesBelow(p, S, W, st, hs, rt, wk, ft, ds)
  BY <1>6, <1>7 DEF FramesBelow
<1> QED BY <1>5, <1>8

-----------------------------------------------------------------------------
(* The frame on top changes.                                               *)

(* Spoiled, in the state the solver is in.                                 *)
SpoiledNow(h) == Spoiled(state, heads, read, fixpoint, ctl, h)

(* The frames below the one on top.                                        *)
LEMMA BelowFacts ==
  ASSUME Inv, Top.kind # "solve"
  PROVE  /\ Below \in Seq(Frame) /\ Below # <<>> /\ Len(Below) \in Nat
         /\ DOMAIN Below = 1..Len(Below) /\ Len(Below) \in DOMAIN Below
         /\ Len(ctl) = Len(Below) + 1 /\ DOMAIN ctl = 1..(Len(Below) + 1)
         /\ \A i \in 1..Len(Below) : Below[i] = ctl[i] /\ i # Len(ctl)
         /\ ctl[Len(Below) + 1] = Top
<1>1. /\ ctl \in Seq(Frame) /\ FramesFit(ctl, stack, fixpoint) /\ CallersWait(ctl)
      /\ Top = ctl[Len(ctl)]
  BY TopFrame
<1>2. /\ Below \in Seq(Frame) /\ Below # <<>> /\ Len(Below) = Len(ctl) - 1
      /\ \A i \in 1..Len(Below) : Below[i] = ctl[i]
  BY <1>1, BelowWaits DEF Below
<1> QED BY <1>1, <1>2, SeqType

(* The operations of the groups below are those of other contexts.         *)
LEMMA OpsKeptBelow ==
  ASSUME Inv, Top.kind # "solve", NEW vk,
         \A c \in Ctx : state[c] = "Resolving" /\ (Top.kind = "resolve" => heads[c] # Top.head)
            => vk[c].deferred = walk[c].deferred
  PROVE  OpsKept(walk, vk, Below)
<1> SUFFICES ASSUME NEW i \in DOMAIN Below, Replays(Below[i])
             PROVE  OpsOf(vk, Below[i]) = OpsOf(walk, Below[i])
  BY DEF OpsKept
<1>1. /\ i \in DOMAIN ctl /\ Below[i] = ctl[i] /\ i # Len(ctl) /\ ctl[Len(ctl)] = Top
      /\ Len(ctl) \in DOMAIN ctl
  BY BelowFacts
<1>2. ctl[i].kind = "resolve" /\ ctl[i] \in ResolveFrame /\ ctl[i].at <= Len(ctl[i].members)
  BY <1>1, TopFrame, SeqType, FrameType DEF Replays
<1>3. Member(ctl[i]) \in Range(ctl[i].members) /\ Member(ctl[i]) \in Ctx
  <2>1. ctl[i].members \in Seq(Ctx) /\ ctl[i].at \in 1..Len(ctl[i].members)
    BY <1>2, ResolveFrameType
  <2> QED BY <2>1, SeqType DEF Member, Range
<1>4. state[Member(ctl[i])] = "Resolving" /\ heads[Member(ctl[i])] = ctl[i].head
  BY <1>1, <1>2, <1>3 DEF Inv, GroupsFit
<1>5. Top.kind = "resolve" => ctl[i].head # Top.head
  BY <1>1, <1>2 DEF Inv, GroupsFit
<1> QED BY <1>1, <1>3, <1>4, <1>5 DEF OpsOf

(* The links of what is below.                                             *)
LEMMA BelowLinks ==
  ASSUME Inv, Top.kind # "solve", Linked(walk, ctl), NEW vk, OpsKept(walk, vk, Below)
  PROVE  /\ Linked(vk, Below)
         /\ AsksIn(vk, Below[Len(Below)]) /\ WantedIn(vk, Below[Len(Below)]) = Owner(Top)
         /\ \A fr : Owner(fr) = Owner(Top) =>
               Linked(vk, [ctl EXCEPT ![Len(ctl)] = fr]) /\ Linked(vk, Append(Below, fr))
<1>1. ASSUME NEW i \in DOMAIN Below
      PROVE  AsksIn(vk, Below[i]) /\ WantedIn(vk, Below[i]) = Owner(ctl[i + 1])
  <2>1. i \in DOMAIN ctl /\ i < Len(ctl) /\ Below[i] = ctl[i]
    BY BelowFacts
  <2>2. AsksIn(walk, ctl[i]) /\ WantedIn(walk, ctl[i]) = Owner(ctl[i + 1])
    BY <2>1 DEF Linked
  <2>3. Replays(ctl[i]) => OpsOf(vk, ctl[i]) = OpsOf(walk, ctl[i])
    BY <2>1 DEF OpsKept
  <2>4. CASE ctl[i].kind = "solve" \/ InSite(ctl[i])
    BY <2>1, <2>2, <2>3, <2>4 DEF AsksIn, WantedIn
  <2>5. CASE ~(ctl[i].kind = "solve" \/ InSite(ctl[i]))
    BY <2>1, <2>2, <2>3, <2>5 DEF AsksIn, WantedIn
  <2> QED BY <2>4, <2>5
<1>2. Linked(vk, Below)
  <2> SUFFICES ASSUME NEW i \in DOMAIN Below, i < Len(Below)
               PROVE  WantedIn(vk, Below[i]) = Owner(Below[i + 1])
    BY <1>1 DEF Linked
  <2>1. i + 1 \in 1..Len(Below) /\ i \in Nat
    BY BelowFacts
  <2> QED BY <1>1, <2>1, BelowFacts
<1>3. AsksIn(vk, Below[Len(Below)]) /\ WantedIn(vk, Below[Len(Below)]) = Owner(Top)
  BY <1>1, BelowFacts
<1>4. ASSUME NEW fr, Owner(fr) = Owner(Top),
             NEW ds, ds = [ctl EXCEPT ![Len(ctl)] = fr] \/ ds = Append(Below, fr)
      PROVE  Linked(vk, ds)
  <2>1. /\ DOMAIN ds = 1..(Len(Below) + 1) /\ Len(ds) = Len(Below) + 1
        /\ ds[Len(Below) + 1] = fr /\ \A i \in 1..Len(Below) : ds[i] = Below[i]
    <3>1. CASE ds = [ctl EXCEPT ![Len(ctl)] = fr]
      BY <3>1, BelowFacts, TopFrame
    <3>2. CASE ds = Append(Below, fr)
      BY <3>2, BelowFacts
    <3> QED BY <1>4, <3>1, <3>2
  <2> SUFFICES ASSUME NEW i \in 1..Len(Below)
               PROVE  AsksIn(vk, ds[i]) /\ WantedIn(vk, ds[i]) = Owner(ds[i + 1])
    BY <2>1, BelowFacts DEF Linked
  <2>2. AsksIn(vk, Below[i]) /\ WantedIn(vk, Below[i]) = Owner(ctl[i + 1])
    BY <1>1, BelowFacts
  <2>3. CASE i = Len(Below)
    BY <1>4, <2>1, <2>2, <2>3, BelowFacts
  <2>4. CASE i # Len(Below)
    <3>1. Len(Below) \in Nat
      BY BelowFacts
    <3>2. i + 1 \in 1..Len(Below)
      BY <2>4, <3>1
    <3> QED BY <2>1, <2>2, <3>1, <3>2, BelowFacts
  <2> QED BY <2>3, <2>4
<1>5. ASSUME NEW fr, Owner(fr) = Owner(Top)
      PROVE  Linked(vk, [ctl EXCEPT ![Len(ctl)] = fr]) /\ Linked(vk, Append(Below, fr))
  BY <1>4, <1>5
<1> QED BY <1>2, <1>3, <1>5

(* The frame on top goes on, with what is below the bound.                 *)
LEMMA BoundsAfterTop ==
  ASSUME Inv, NEW S, NEW W, StaysBelow(S, W), Top.kind # "solve",
         NEW fr, SameLinks(Top, fr), fr.kind = "walk" => fr.ctx = Top.ctx,
         ctl' = [ctl EXCEPT ![Len(ctl)] = fr],
         UNCHANGED <<prog, heads, read, fixpoint, result>>,
         \A c \in Ctx : /\ state'[c] \in Waiting <=> state[c] \in Waiting
                        /\ state'[c] = "Ready" => state[c] = "Ready",
         OpsKept(walk, walk', Below),
         \A c \in Ctx : state[c] \in Waiting /\ ~SpoiledNow(heads[c])
            => WaiterBelow(prog, S, W, walk', current', c),
         Top.kind = "walk" /\ read[Top.ctx].cut = None => WalkBelow(prog, S, W, fr),
         Top.kind = "resolve" /\ ~SpoiledNow(Top.head) => ReplayBelow(prog, S, W, walk', fr)
  PROVE  StaysBelow(S, W)'
<1>1. PICK k \in Nat : /\ k = Len(ctl) /\ DOMAIN ctl = 1..k /\ k \in 1..k /\ ctl[k] = Top
                       /\ \A i \in 1..k : i # k => i \in DOMAIN Below /\ Below[i] = ctl[i]
  BY BelowFacts, TopFrame, SeqType
<1>2. DOMAIN ctl' = 1..k /\ ctl'[k] = fr /\ \A i \in 1..k : i # k => ctl'[i] = ctl[i]
  BY <1>1
<1>3. ASSUME NEW h, SpoiledNow(h) PROVE Spoiled(state', heads', read', fixpoint', ctl', h)
  <2>1. FixpointCut(fixpoint) /\ fixpoint.head = h
            => Spoiled(state', heads', read', fixpoint', ctl', h)
    BY DEF Spoiled
  <2>2. ASSUME NEW i \in DOMAIN ctl, ctl[i].kind = "resolve", FixpointCut(ctl[i].outer),
               ctl[i].outer.head = h
        PROVE  Spoiled(state', heads', read', fixpoint', ctl', h)
    <3>1. ctl'[i].kind = "resolve" /\ ctl'[i].outer = ctl[i].outer /\ i \in DOMAIN ctl'
      BY <1>1, <1>2, <2>2 DEF SameLinks
    <3> QED BY <2>2, <3>1 DEF Spoiled
  <2>3. PICK st, hs, rd, fx, cs : /\ st = state /\ hs = heads /\ rd = read /\ fx = fixpoint
                                  /\ cs = ctl
    OBVIOUS
  <2>4. PICK tt, gs, rt, ft, ds : /\ tt = state' /\ gs = heads' /\ rt = read' /\ ft = fixpoint'
                                  /\ ds = ctl'
    OBVIOUS
  <2>5. /\ Spoiled(st, hs, rd, fx, cs, h)
        /\ \A c \in Ctx : st[c] \in Waiting /\ hs[c] = h =>
               tt[c] \in Waiting /\ gs[c] = h /\ (rd[c].cut # None => rt[c].cut # None)
        /\ FixpointCut(fx) /\ fx.head = h => Spoiled(tt, gs, rt, ft, ds, h)
        /\ \A i \in DOMAIN cs :
               cs[i].kind = "resolve" /\ FixpointCut(cs[i].outer) /\ cs[i].outer.head = h
                 => Spoiled(tt, gs, rt, ft, ds, h)
    BY <1>3, <2>1, <2>2, <2>3, <2>4 DEF SpoiledNow
  <2>6. Spoiled(tt, gs, rt, ft, ds, h)
    BY <2>5, SpoiledStays
  <2> QED BY <2>4, <2>6
<1>4. SlotsBelow(prog, S, W, state', heads', read', walk', current', result', fixpoint', ctl')
  BY <1>3 DEF StaysBelow, SlotsBelow
<1>5. ASSUME NEW i \in 1..k, ctl'[i].kind = "walk", read'[ctl'[i].ctx].cut = None
      PROVE  WalkBelow(prog, S, W, ctl'[i])
  <2>1. CASE i = k
    BY <1>1, <1>2, <1>5, <2>1 DEF SameLinks
  <2>2. CASE i # k
    BY <1>1, <1>2, <1>5, <2>2 DEF StaysBelow, FramesBelow
  <2> QED BY <2>1, <2>2
<1>6. ASSUME NEW i \in 1..k, ctl'[i].kind = "resolve",
             ~Spoiled(state', heads', read', fixpoint', ctl', ctl'[i].head)
      PROVE  ReplayBelow(prog, S, W, walk', ctl'[i])
  <2>1. CASE i = k
    BY <1>1, <1>2, <1>3, <1>6, <2>1 DEF SameLinks
  <2>2. CASE i # k
    <3>1. ctl'[i] = ctl[i] /\ i \in DOMAIN Below /\ Below[i] = ctl[i] /\ ctl[i] \in ResolveFrame
      BY <1>1, <1>2, <1>6, <2>2, TopFrame, SeqType, FrameType
    <3>2. ReplayBelow(prog, S, W, walk, ctl[i])
      BY <1>1, <1>3, <1>6, <3>1 DEF StaysBelow, FramesBelow, SpoiledNow
    <3>3. Replays(ctl[i]) => OpsOf(walk', ctl[i]) = OpsOf(walk, ctl[i])
      BY <3>1 DEF OpsKept
    <3> QED BY <3>1, <3>2, <3>3, ReplayKept
  <2> QED BY <2>1, <2>2
<1>7. FramesBelow(prog, S, W, state', heads', read', walk', fixpoint', ctl')
  BY <1>2, <1>5, <1>6 DEF FramesBelow
<1> QED BY <1>4, <1>7 DEF StaysBelow

(* No fixpoint is in its last round.                                       *)
LEMMA NotCapped ==
  ASSUME RoundsSuffice, NEW i \in DOMAIN ctl, ctl[i].kind = "resolve"
  PROVE  ~Capped(ctl[i])
  BY DEF RoundsSuffice, Fixpoints

(* The frame on top gets an answer from what is there.                     *)
LEMMA BoundsAfterRead ==
  ASSUME Inv, RoundsSuffice, NEW S, NEW W, BoundOf(prog, S, W), StaysBelow(S, W),
         Asks(Top), NEW n \in Note, NEW got \in (SUBSET V) \cup {None},
         Return(ctl, read, fixpoint, stack, n, got),
         UNCHANGED <<prog, state, heads, walk, current, result>>,
         got # None /\ n.cut = None /\ (Top.kind = "resolve" => ~SpoiledNow(Top.head))
           => got \subseteq S[Wanted(Top)]
  PROVE  StaysBelow(S, W)'
<1>1. /\ ctl \in Seq(Frame) /\ stack \in Seq(Ctx) /\ fixpoint \in Fixpoint \cup {None}
      /\ read \in [Ctx -> Note] /\ FramesFit(ctl, stack, fixpoint)
      /\ Waits(ctl[Len(ctl)]) /\ Top = ctl[Len(ctl)] /\ Len(ctl) \in DOMAIN ctl
  BY TopFrame, WantedType
<1>2. PICK cs \in Seq(Frame) : cs = ctl
  BY <1>1
<1>3. PICK stk \in Seq(Ctx) : stk = stack
  BY <1>1
<1>4. PICK fx \in Fixpoint \cup {None} : fx = fixpoint
  BY <1>1
<1>5. PICK rd \in [Ctx -> Note] : rd = read
  BY <1>1
<1>6. PICK p, st, hs, wk, cur, res :
        /\ p = prog /\ st = state /\ hs = heads /\ wk = walk /\ cur = current /\ res = result
  OBVIOUS
<1>7. PICK rt, ft, ds : rt = read' /\ ft = fixpoint' /\ ds = ctl'
  OBVIOUS
<1>8. /\ rt = ReadsTold(rd, fx, stk, n) /\ ft = FixpointTold(fx, stk, n)
      /\ ds = Answer(cs, got)
  BY <1>2, <1>3, <1>4, <1>5, <1>7 DEF Return
<1>9. AsksIn(wk, cs[Len(cs)]) /\ WantedIn(wk, cs[Len(cs)]) = Wanted(Top)
  BY <1>1, <1>2, <1>6 DEF Asks, AsksIn, Wanted, WantedIn, HasOp, Op, OpsOf
<1>10. cs[Len(cs)].kind = "resolve" => ~Capped(cs[Len(cs)])
  BY <1>1, <1>2, NotCapped
<1>11. /\ SlotsBelow(p, S, W, st, hs, rd, wk, cur, res, fx, cs)
       /\ FramesBelow(p, S, W, st, hs, rd, wk, fx, cs)
  BY <1>2, <1>4, <1>5, <1>6 DEF StaysBelow
<1>12. got # None /\ n.cut = None
         /\ (cs[Len(cs)].kind = "resolve"
               => ~Spoiled(st, hs, rd, fx, cs, cs[Len(cs)].head))
         => got \subseteq S[WantedIn(wk, cs[Len(cs)])]
  BY <1>1, <1>2, <1>4, <1>5, <1>6, <1>9 DEF SpoiledNow
<1>13. FramesFit(cs, stk, fx) /\ Waits(cs[Len(cs)]) /\ BoundOf(p, S, W)
  BY <1>1, <1>2, <1>3, <1>4, <1>6
<1>14. /\ SlotsBelow(p, S, W, st, hs, rt, wk, cur, res, ft, ds)
       /\ FramesBelow(p, S, W, st, hs, rt, wk, ft, ds)
  BY <1>2, <1>3, <1>4, <1>5, <1>8, <1>9, <1>10, <1>11, <1>12, <1>13, BelowAfterReturn
<1>15. UNCHANGED <<prog, state, heads, walk, current, result>>
  OBVIOUS
<1> QED BY <1>6, <1>7, <1>14, <1>15 DEF StaysBelow

(* The frame on top is done: the one below it gets its answer.             *)
LEMMA BoundsAfterPop ==
  ASSUME Inv, RoundsSuffice, Linked(walk, ctl),
         NEW S, NEW W, BoundOf(prog, S, W), StaysBelow(S, W), Top.kind # "solve",
         NEW stk \in Seq(Ctx), NEW fx \in Fixpoint \cup {None}, FramesFit(Below, stk, fx),
         NEW rd \in [Ctx -> Note], Grown(read, rd),
         NEW n \in Note, NEW got \in (SUBSET V) \cup {None},
         Return(Below, rd, fx, stk, n, got), prog' = prog,
         OpsKept(walk, walk', Below),
         SlotsBelow(prog, S, W, state', heads', rd, walk', current', result', fx, Below),
         \A i \in DOMAIN Below : Below[i].kind = "resolve" /\ SpoiledNow(Below[i].head)
            => Spoiled(state', heads', rd, fx, Below, Below[i].head),
         got # None /\ n.cut = None
           /\ (Below[Len(Below)].kind = "resolve"
                 => ~Spoiled(state', heads', rd, fx, Below, Below[Len(Below)].head))
           => got \subseteq S[Owner(Top)]
  PROVE  StaysBelow(S, W)'
<1>1. PICK p, st, hs, wk, cur, res, cs :
        /\ p = prog /\ st = state' /\ hs = heads' /\ wk = walk' /\ cur = current'
        /\ res = result' /\ cs = Below
  OBVIOUS
<1>2. PICK rt, ft, ds : rt = read' /\ ft = fixpoint' /\ ds = ctl'
  OBVIOUS
<1>3. /\ rt = ReadsTold(rd, fx, stk, n) /\ ft = FixpointTold(fx, stk, n)
      /\ ds = Answer(cs, got)
  BY <1>1, <1>2 DEF Return
<1>4. /\ cs \in Seq(Frame) /\ Len(cs) \in DOMAIN cs
      /\ \A i \in DOMAIN cs : i \in DOMAIN ctl /\ cs[i] = ctl[i]
  BY <1>1, BelowFacts
<1>5. Waits(cs[Len(cs)])
  BY <1>1, TopFrame, BelowWaits DEF Below
<1>6. AsksIn(wk, cs[Len(cs)]) /\ WantedIn(wk, cs[Len(cs)]) = Owner(Top)
  BY <1>1, BelowLinks
<1>7. cs[Len(cs)].kind = "resolve" => ~Capped(cs[Len(cs)])
  BY <1>4, NotCapped
<1>8. ASSUME NEW i \in DOMAIN cs, cs[i].kind = "walk", rd[cs[i].ctx].cut = None
      PROVE  WalkBelow(p, S, W, cs[i])
  <2>1. cs[i].ctx \in Ctx
    BY <1>4, <1>8, SeqType, FrameType, WalkFrameType
  <2>2. read[cs[i].ctx].cut = None
    BY <1>8, <2>1 DEF Grown
  <2> QED BY <1>1, <1>4, <1>8, <2>2 DEF StaysBelow, FramesBelow
<1>9. ASSUME NEW i \in DOMAIN cs, cs[i].kind = "resolve",
             ~Spoiled(st, hs, rd, fx, cs, cs[i].head)
      PROVE  ReplayBelow(p, S, W, wk, cs[i])
  <2>1. ~SpoiledNow(ctl[i].head)
    BY <1>1, <1>4, <1>9
  <2>2. ReplayBelow(p, S, W, walk, cs[i])
    BY <1>1, <1>4, <1>9, <2>1 DEF StaysBelow, FramesBelow, SpoiledNow
  <2>3. cs[i] \in ResolveFrame
    BY <1>4, <1>9, SeqType, FrameType
  <2>4. Replays(cs[i]) => OpsOf(wk, cs[i]) = OpsOf(walk, cs[i])
    BY <1>1 DEF OpsKept
  <2> QED BY <2>2, <2>3, <2>4, ReplayKept
<1>10. FramesBelow(p, S, W, st, hs, rd, wk, fx, cs)
  BY <1>8, <1>9 DEF FramesBelow
<1>11. /\ SlotsBelow(p, S, W, st, hs, rd, wk, cur, res, fx, cs) /\ FramesFit(cs, stk, fx)
       /\ BoundOf(p, S, W)
  BY <1>1
<1>12. got # None /\ n.cut = None
         /\ (cs[Len(cs)].kind = "resolve"
               => ~Spoiled(st, hs, rd, fx, cs, cs[Len(cs)].head))
         => got \subseteq S[WantedIn(wk, cs[Len(cs)])]
  BY <1>1, <1>6
<1>13. /\ SlotsBelow(p, S, W, st, hs, rt, wk, cur, res, ft, ds)
       /\ FramesBelow(p, S, W, st, hs, rt, wk, ft, ds)
  BY <1>3, <1>4, <1>5, <1>6, <1>7, <1>10, <1>11, <1>12, BelowAfterReturn
<1> QED BY <1>1, <1>2, <1>13 DEF StaysBelow

-----------------------------------------------------------------------------
(* A call is answered from what is there.                                  *)

(* The reader is a group's fixpoint, or a walk.                            *)
LEMMA GetBelow ==
  ASSUME Inv, NEW S, NEW W, StaysBelow(S, W), Asks(Top), NEW c \in Ctx,
         state[c] \in Waiting, Top.kind = "resolve" => ~SpoiledNow(Top.head),
         ReadGroupMember(c, state, heads, current, fixpoint, stack).got # None
  PROVE  ReadGroupMember(c, state, heads, current, fixpoint, stack).got \subseteq S[c]
<1>1. /\ ReaderIsFixpoint(fixpoint, stack) /\ heads[fixpoint.head] = heads[c]
      /\ ReadGroupMember(c, state, heads, current, fixpoint, stack).got = current[c].returns
  BY DEF ReadGroupMember
<1>2. Top.kind = "resolve" /\ fixpoint.head = Top.head
  BY <1>1, InvReader DEF ReaderIsTheAsker
<1>3. heads[Top.head] = Top.head
  BY <1>2, ResolveOnTop
<1>4. ~SpoiledNow(heads[c])
  BY <1>1, <1>2, <1>3
<1> QED BY <1>1, <1>4 DEF StaysBelow, SlotsBelow, WaiterBelow, SpoiledNow

(* There is a note that tells the reader nothing.                          *)
LEMMA ToldNothing ==
  ASSUME NEW rd \in [Ctx -> Note], NEW fx \in Fixpoint \cup {None}, NEW stk \in Seq(Ctx)
  PROVE  \E n \in Note : /\ n.cut = None /\ ReadsTold(rd, fx, stk, n) = rd
                         /\ FixpointTold(fx, stk, n) = fx
<1>1. ASSUME NEW m \in Note
      PROVE  \E n \in Note : n.cut = None /\ Noted(m, n) = m
  <2>1. PICK n : n = [lowest |-> m.lowest, joins |-> None, cut |-> None]
    OBVIOUS
  <2>2. n \in Note /\ n.cut = None
    BY <2>1 DEF Note
  <2>3. Noted(m, n) = m
    BY <2>1 DEF Noted, Note
  <2> QED BY <2>2, <2>3
<1>2. CASE ReaderIsFixpoint(fx, stk)
  <2>1. fx \in Fixpoint /\ fx.read \in Note
    BY <1>2 DEF ReaderIsFixpoint, Fixpoint
  <2>2. PICK n \in Note : n.cut = None /\ Noted(fx.read, n) = fx.read
    BY <1>1, <2>1
  <2> QED BY <1>2, <2>1, <2>2 DEF ReadsTold, FixpointTold, Fixpoint
<1>3. CASE ~ReaderIsFixpoint(fx, stk) /\ stk # <<>>
  <2>1. stk[Len(stk)] \in Ctx /\ rd[stk[Len(stk)]] \in Note
    BY <1>3, SeqType
  <2>2. PICK n \in Note : n.cut = None /\ Noted(rd[stk[Len(stk)]], n) = rd[stk[Len(stk)]]
    BY <1>1, <2>1
  <2> QED BY <1>3, <2>1, <2>2 DEF ReadsTold, FixpointTold
<1>4. CASE ~ReaderIsFixpoint(fx, stk) /\ stk = <<>>
  BY <1>4, NothingType DEF ReadsTold, FixpointTold, Nothing
<1> QED BY <1>2, <1>3, <1>4

(* GetReady: the summary is within the bound.                              *)
LEMMA BoundsGetReady ==
  ASSUME Inv, RoundsSuffice, NEW S, NEW W, BoundOf(prog, S, W), StaysBelow(S, W), GetReady
  PROVE  StaysBelow(S, W)'
<1>1. Asks(Top) /\ Wanted(Top) \in Ctx /\ state[Wanted(Top)] = "Ready"
      /\ ctl' = Answer(ctl, result[Wanted(Top)].returns)
  BY WantedType DEF GetReady
<1>2. PICK got : got = result[Wanted(Top)].returns /\ got \in SUBSET V
  BY <1>1, ReturnsType DEF Inv, SlotsFit
<1>3. got \subseteq S[Wanted(Top)]
  BY <1>1, <1>2 DEF StaysBelow, SlotsBelow
<1>4. PICK n \in Note : n.cut = None /\ Return(ctl, read, fixpoint, stack, n, got)
  <2>1. read' = read /\ fixpoint' = fixpoint
    BY DEF GetReady, slots
  <2>2. PICK n \in Note : /\ n.cut = None /\ ReadsTold(read, fixpoint, stack, n) = read
                          /\ FixpointTold(fixpoint, stack, n) = fixpoint
    BY TopFrame, ToldNothing
  <2> QED BY <1>1, <1>2, <2>1, <2>2 DEF Return
<1>5. UNCHANGED <<prog, state, heads, walk, current, result>>
  BY DEF GetReady, slots
<1> QED BY <1>1, <1>2, <1>3, <1>4, <1>5, BoundsAfterRead

(* GetRunning, GetCut: nothing yet, or a cut that the reader is told of.   *)
LEMMA BoundsGetRunning ==
  ASSUME Inv, RoundsSuffice, NEW S, NEW W, BoundOf(prog, S, W), StaysBelow(S, W), GetRunning
  PROVE  StaysBelow(S, W)'
<1>1. Asks(Top) /\ Wanted(Top) \in Ctx /\ state[Wanted(Top)] = "Running"
      /\ UNCHANGED <<prog, state, heads, walk, current, result>>
  BY WantedType DEF GetRunning
<1>2. DependsOn(depth[Wanted(Top)]) \in Note
  BY <1>1, RunningDepth, DependsOnType
<1>3. PICK n : n = DependsOn(depth[Wanted(Top)]) /\ Return(ctl, read, fixpoint, stack, n, None)
  BY DEF GetRunning
<1> QED BY <1>1, <1>2, <1>3, BoundsAfterRead

(* get: a limit cuts the ask, and the answer is Unknown alone.             *)
LEMMA BoundsGetCut ==
  ASSUME Inv, RoundsSuffice, NEW S, NEW W, BoundOf(prog, S, W), StaysBelow(S, W), GetCut
  PROVE  StaysBelow(S, W)'
<1>1. Asks(Top) /\ UNCHANGED <<prog, state, heads, walk, current, result>>
  BY DEF GetCut
<1>2. PICK k : k = CostLimit(Wanted(Top)) /\ k \in Cut
  BY DEF GetCut, CostLimit, Cut
<1>3. PICK n \in Note : n = IsCut(k)
  BY <1>2, IsCutType
<1>4. Return(ctl, read, fixpoint, stack, n, CutReturns) /\ CutReturns \in SUBSET V
  BY <1>2, <1>3, UnknownInV DEF GetCut, CutReturns
<1>5. n.cut # None
  <2>1. n.cut = k
    BY <1>3 DEF IsCut, Nothing
  <2> QED BY <1>2, <2>1, CutAssumption
<1> QED BY <1>1, <1>3, <1>4, <1>5, BoundsAfterRead

(* GetGroupMember: the last approximation of the reader's own group.       *)
LEMMA BoundsGetGroupMember ==
  ASSUME Inv, RoundsSuffice, NEW S, NEW W, BoundOf(prog, S, W), StaysBelow(S, W), GetGroupMember
  PROVE  StaysBelow(S, W)'
<1>1. /\ Asks(Top) /\ Wanted(Top) \in Ctx /\ state[Wanted(Top)] \in Waiting
      /\ UNCHANGED <<prog, state, heads, walk, current, result>>
  BY WantedType DEF GetGroupMember, Waiting
<1>2. PICK m : /\ m = ReadGroupMember(Wanted(Top), state, heads, current, fixpoint, stack)
               /\ Return(ctl, read, fixpoint, stack, m.note, m.got)
  BY DEF GetGroupMember
<1>3. m.note \in Note /\ m.got \in (SUBSET V) \cup {None}
  <2>1. heads \in [Ctx -> Ctx] /\ heads[Wanted(Top)] \in Ctx
    BY <1>1 DEF Inv, TypeOK
  <2>2. current[Wanted(Top)] \in FunctionResult
    BY <1>1 DEF Inv, SlotsFit, Waiting
  <2>3. state[heads[Wanted(Top)]] = "Running" =>
          depth[heads[Wanted(Top)]] \in Nat /\ depth[heads[Wanted(Top)]] < Len(stack)
    BY <2>1, RunningDepth
  <2>4. Len(stack) \in Nat
    BY TopFrame
  <2> QED BY <1>1, <1>2, <2>1, <2>2, <2>3, <2>4, GroupReadType DEF NoteAt
<1>4. m.got # None /\ (Top.kind = "resolve" => ~SpoiledNow(Top.head))
        => m.got \subseteq S[Wanted(Top)]
  BY <1>1, <1>2, GetBelow
<1> QED BY <1>1, <1>2, <1>3, <1>4, BoundsAfterRead

-----------------------------------------------------------------------------
(* A walk goes on.                                                         *)

(* The callee and the argument of a walk's next call site.                 *)
LEMMA NextSiteFits ==
  ASSUME NEW p, NEW S, NEW W, BoundOf(p, S, W), NEW fr \in WalkFrame, WalkBelow(p, S, W, fr),
         NEW i, i = Len(fr.vals) + 1, i \in DOMAIN p[fr.ctx.func].sites,
         NEW b, b = Ceiling(S, W, fr.ctx, fr.w.deferred), NEW c, c = fr.ctx
  PROVE  /\ i \in DOMAIN W[c]
         /\ Fits(b, Eval(p[c.func].sites[i].callee, c, fr.vals), CalleesAt(p, W, c, i))
         /\ Fits(b, Eval(p[c.func].sites[i].arg, c, fr.vals), ArgAt(p, W, c, i))
<1>1. fr.ctx \in Ctx /\ fr.vals \in Seq(Value) /\ DOMAIN fr.vals = 1..Len(fr.vals)
      /\ Len(fr.vals) \in Nat
  BY WalkFrameType, SeqType
<1>2. i \in DOMAIN W[c] /\ W[c] \in Seq(Value)
  BY <1>1 DEF BoundOf, Bounds
<1>3. DOMAIN Before(W[c], i) = 1..(i - 1) /\ \A k \in 1..(i - 1) : Before(W[c], i)[k] = W[c][k]
  BY <1>2, BeforeType
<1>4. PICK ws : ws = Before(W[c], i)
  OBVIOUS
<1>5. DOMAIN fr.vals = DOMAIN ws /\ \A k \in DOMAIN fr.vals : Fits(b, fr.vals[k], ws[k].known)
  BY <1>1, <1>3, <1>4 DEF WalkBelow
<1>6. \A e : Fits(b, Eval(e, c, fr.vals), Eval(e, c, ws).known)
  BY <1>5, EvalFits
<1> QED BY <1>2, <1>4, <1>6 DEF CalleesAt, ArgAt

(* The step of a walk on top that stays below the bound.                   *)
LEMMA BoundsWalkOn ==
  ASSUME Inv, NEW S, NEW W, BoundOf(prog, S, W), StaysBelow(S, W), Top.kind = "walk",
         NEW fr, fr.kind = "walk", fr.base = Top.base, fr.ctx = Top.ctx, SetTop(fr),
         WalkBelow(prog, S, W, Top) => WalkBelow(prog, S, W, fr),
         UNCHANGED <<prog, slots, heads, parked, stack, fixpoint>>
  PROVE  StaysBelow(S, W)'
<1>1. UNCHANGED <<prog, state, heads, read, walk, current, fixpoint, result>>
  BY DEF slots
<1>2. SameLinks(Top, fr) /\ ctl' = [ctl EXCEPT ![Len(ctl)] = fr]
  BY DEF SameLinks, SetTop
<1>3. read[Top.ctx].cut = None => WalkBelow(prog, S, W, fr)
  BY TopFrame DEF StaysBelow, FramesBelow
<1>4. OpsKept(walk, walk', Below)
  BY <1>1 DEF OpsKept
<1>5. \A c \in Ctx : state[c] \in Waiting /\ ~SpoiledNow(heads[c])
        => WaiterBelow(prog, S, W, walk', current', c)
  BY <1>1 DEF StaysBelow, SlotsBelow, SpoiledNow
<1> QED BY <1>1, <1>2, <1>3, <1>4, <1>5, BoundsAfterTop

(* eval_call: the call is deferred, and its value pending on it.           *)
NextSite(p, fr) == p[fr.ctx.func].sites[Len(fr.vals) + 1]
(* op is the operation the next call site of fr defers.                    *)
CallOp(p, fr, op) ==
    /\ op.op = "Call" /\ op.site = Len(fr.vals) + 1
    /\ op.callee = Eval(NextSite(p, fr).callee, fr.ctx, fr.vals)
    /\ op.arg = Eval(NextSite(p, fr).arg, fr.ctx, fr.vals)
(* gr is fr after op was deferred, its value v pending on it.              *)
Defers(fr, gr, op, v) ==
    /\ v.known = {} /\ v.pending = {Len(fr.w.deferred) + 1}
    /\ gr.vals = Append(fr.vals, v) /\ gr.site = None /\ gr.ctx = fr.ctx
    /\ gr.w.deferred = Append(fr.w.deferred, op)
    /\ gr.w.rets = fr.w.rets /\ gr.w.resolved = fr.w.resolved
(* A walk within the bound stays within it when it defers a call.          *)
LEMMA DeferBelow ==
  ASSUME NEW p, NEW S, NEW W, BoundOf(p, S, W), NEW fr \in WalkFrame, WalkBelow(p, S, W, fr),
         Len(fr.vals) + 1 \in DOMAIN p[fr.ctx.func].sites,
         NEW op \in DeferredOp, CallOp(p, fr, op),
         NEW v \in Value, NEW gr, Defers(fr, gr, op, v)
  PROVE  WalkBelow(p, S, W, gr)
<1> DEFINE c == fr.ctx
<1>1. /\ fr.ctx \in Ctx /\ fr.w \in Walk /\ fr.w.deferred \in Seq(DeferredOp)
      /\ fr.vals \in Seq(Value) /\ Len(fr.vals) \in Nat /\ DOMAIN fr.vals = 1..Len(fr.vals)
  BY WalkFrameType, WalkFields, SeqType
<1>2. PICK i : i = Len(fr.vals) + 1
  OBVIOUS
<1>3. PICK b, e : /\ b = Ceiling(S, W, c, fr.w.deferred)
                  /\ e = Ceiling(S, W, c, Append(fr.w.deferred, op))
  OBVIOUS
<1>4. /\ i \in DOMAIN W[c]
      /\ Fits(b, op.callee, CalleesAt(p, W, c, i)) /\ Fits(b, op.arg, ArgAt(p, W, c, i))
  BY <1>2, <1>3, NextSiteFits DEF CallOp, NextSite
<1>5. /\ DOMAIN b \subseteq DOMAIN e /\ \A d \in DOMAIN b : e[d] = b[d]
      /\ Len(fr.w.deferred) + 1 \in DOMAIN e
      /\ e[Len(fr.w.deferred) + 1] = W[c][i].known
  <2>1. op.op = "Call" /\ op.site = i
    BY <1>2 DEF CallOp
  <2> HIDE DEF c
  <2>2. PICK os : os = fr.w.deferred
    OBVIOUS
  <2>3. /\ os \in Seq(DeferredOp) /\ b = Ceiling(S, W, c, os)
        /\ e = Ceiling(S, W, c, Append(os, op))
    BY <1>1, <1>3, <2>2
  <2>4. /\ DOMAIN b \subseteq DOMAIN e /\ \A d \in DOMAIN b : e[d] = b[d]
        /\ Len(os) + 1 \in DOMAIN e
        /\ e[Len(os) + 1] = IF op.op = "Apply" THEN S[op.ctx] ELSE W[c][op.site].known
    BY <2>3, CeilingMore
  <2> QED BY <2>1, <2>2, <2>4
<1>6. \A u, T : Fits(b, u, T) => Fits(e, u, T)
  BY <1>5, FitsMore
<1>7. OpFits(p, W, c, e, op)
  BY <1>2, <1>4, <1>6 DEF OpFits, CallOp
<1>8. WalkDefers(fr.w, gr.w, op)
  BY DEF Defers, WalkDefers
<1>9. gr.w.deferred = Append(fr.w.deferred, op) /\ gr.w.resolved = <<>>
  BY DEF Defers, WalkBelow
<1>10. WalkFits(p, S, W, c, gr.w)
  <2>1. OpFits(p, W, c, Ceiling(S, W, c, gr.w.deferred), op)
    BY <1>3, <1>7, <1>9
  <2> QED BY <1>1, <1>8, <2>1, DeferredFits DEF WalkBelow
<1>11. Fits(e, v, W[c][i].known)
  BY <1>5 DEF Fits, Defers
<1>12. PICK vs : vs = Append(fr.vals, v)
  OBVIOUS
<1>13. /\ DOMAIN vs = 1..(Len(fr.vals) + 1) /\ vs[Len(fr.vals) + 1] = v
       /\ \A k \in 1..Len(fr.vals) : vs[k] = fr.vals[k]
  BY <1>1, <1>12, AppendType
<1>14. DOMAIN vs \subseteq DOMAIN W[c] /\ \A k \in DOMAIN vs : Fits(e, vs[k], W[c][k].known)
  <2>1. /\ DOMAIN fr.vals \subseteq DOMAIN W[c]
        /\ \A k \in DOMAIN fr.vals : Fits(b, fr.vals[k], W[c][k].known)
    BY <1>3 DEF WalkBelow
  <2>2. DOMAIN vs = 1..i /\ vs[i] = v /\ \A k \in 1..(i - 1) : vs[k] = fr.vals[k]
    BY <1>1, <1>2, <1>13
  <2>3. DOMAIN fr.vals = 1..(i - 1) /\ i \in Nat
    BY <1>1, <1>2
  <2> SUFFICES ASSUME NEW k \in 1..i PROVE k \in DOMAIN W[c] /\ Fits(e, vs[k], W[c][k].known)
    BY <2>2
  <2>4. CASE k = i
    BY <1>4, <1>11, <2>2, <2>4
  <2>5. CASE k # i
    <3>1. k \in 1..(i - 1)
      BY <2>3, <2>5
    <3>2. Fits(b, fr.vals[k], W[c][k].known) /\ k \in DOMAIN W[c]
      BY <2>1, <2>3, <3>1
    <3> QED BY <1>6, <2>2, <3>1, <3>2
  <2> QED BY <2>4, <2>5
<1>15. e = Ceiling(S, W, gr.ctx, gr.w.deferred) /\ gr.ctx = c /\ gr.vals = vs /\ gr.site = None
  BY <1>3, <1>12 DEF Defers
<1> QED BY <1>9, <1>10, <1>14, <1>15 DEF WalkBelow

(* A walk that is at a call site is at one its body has.                   *)
LEMMA NextSiteThere ==
  ASSUME Inv, AtSite
  PROVE  Len(Top.vals) + 1 \in DOMAIN prog[Top.ctx.func].sites
<1>1. Len(Top.vals) \in Nat /\ Top.ctx.func \in Func
  BY AtSiteType, WalkFrameType, SeqType, CtxType
<1>2. prog[Top.ctx.func].sites \in Seq(CallSite)
  BY <1>1, ProgramAssumption DEF Inv, TypeOK, Body
<1>3. Len(Top.vals) < Len(prog[Top.ctx.func].sites)
  BY DEF AtSite, BodyOf
<1> QED BY <1>1, <1>2, <1>3

(* eval_call: the call is deferred.                                        *)
LEMMA BoundsDeferCall ==
  ASSUME Inv, NEW S, NEW W, BoundOf(prog, S, W), StaysBelow(S, W), DeferCall
  PROVE  StaysBelow(S, W)'
<1>1. AtSite /\ Top.kind = "walk" /\ Top.site = None /\ Callee \in Value /\ Arg \in Value
      /\ Top \in WalkFrame /\ Len(Top.vals) \in Nat /\ Top.w \in Walk
      /\ Len(Top.w.deferred) \in Nat
  BY AtSiteType, WalkFrameType, WalkFields, SeqType DEF DeferCall, AtSite
<1> DEFINE op == [op |-> "Call", site |-> Len(Top.vals) + 1, callee |-> Callee, arg |-> Arg]
           w == [Top.w EXCEPT !.deferred = Append(@, op), !.calls = Append(@, {})]
           v == [known |-> {}, pending |-> {Len(Top.w.deferred) + 1}]
           fr == [Top EXCEPT !.w = w, !.vals = Append(@, v)]
<1>2. SetTop(fr)
  BY <1>1, WalkFrameType DEF DeferCall, WalkFrame, Walk
<1>3. Len(Top.vals) + 1 \in DOMAIN prog[Top.ctx.func].sites
  BY <1>1, NextSiteThere
<1>4. op \in DeferredOp /\ v \in Value
  BY <1>1 DEF DeferredOp, Value
<1>5. CallOp(prog, Top, op)
  BY DEF CallOp, NextSite, Callee, Arg, SiteNow, BodyOf
<1>6. v.known = {} /\ v.pending = {Len(Top.w.deferred) + 1}
  OBVIOUS
<1>7. w.deferred = Append(Top.w.deferred, op) /\ w.rets = Top.w.rets /\ w.resolved = Top.w.resolved
  BY <1>1 DEF Walk
<1> HIDE DEF op, v, w
<1>8. /\ fr.kind = "walk" /\ fr.base = Top.base /\ fr.ctx = Top.ctx /\ fr.site = None
      /\ fr.w = w /\ fr.vals = Append(Top.vals, v)
  BY <1>1 DEF WalkFrame
<1> HIDE DEF fr
<1>9. Defers(Top, fr, op, v)
  BY <1>6, <1>7, <1>8 DEF Defers
<1>10. WalkBelow(prog, S, W, Top) => WalkBelow(prog, S, W, fr)
  BY <1>1, <1>3, <1>4, <1>5, <1>9, DeferBelow
<1>11. UNCHANGED <<prog, slots, heads, parked, stack, fixpoint>>
  BY DEF DeferCall
<1> QED BY <1>1, <1>2, <1>8, <1>10, <1>11, BoundsWalkOn

(* eval_call: call_values starts.                                          *)
LEMMA BoundsStartCall ==
  ASSUME Inv, NEW S, NEW W, BoundOf(prog, S, W), StaysBelow(S, W), StartCall
  PROVE  StaysBelow(S, W)'
<1>1. AtSite /\ Top.kind = "walk" /\ Top \in WalkFrame /\ Callee \in Value /\ Arg \in Value
  BY AtSiteType DEF StartCall, AtSite
<1>2. PICK s : s = StartSite(Callee.known, Arg.known)
  OBVIOUS
<1>3. PICK fr : fr = [Top EXCEPT !.site = s]
  OBVIOUS
<1>4. SetTop(fr)
  BY <1>2, <1>3 DEF StartCall
<1>5. /\ fr.kind = "walk" /\ fr.base = Top.base /\ fr.ctx = Top.ctx /\ fr.site = s
      /\ fr.w = Top.w /\ fr.vals = Top.vals
  BY <1>1, <1>3 DEF WalkFrame
<1>6. Len(Top.vals) + 1 \in DOMAIN prog[Top.ctx.func].sites
  BY <1>1, NextSiteThere
<1>7. ASSUME WalkBelow(prog, S, W, Top) PROVE WalkBelow(prog, S, W, fr)
  <2>1. PICK t, c, i, b : /\ t = Top /\ c = Top.ctx /\ i = Len(Top.vals) + 1
                          /\ b = Ceiling(S, W, t.ctx, t.w.deferred)
    OBVIOUS
  <2>2. /\ i \in DOMAIN W[c]
        /\ Fits(b, Callee, CalleesAt(prog, W, c, i)) /\ Fits(b, Arg, ArgAt(prog, W, c, i))
    BY <1>1, <1>6, <1>7, <2>1, NextSiteFits DEF Callee, Arg, SiteNow, BodyOf
  <2>3. Callee.known \subseteq CalleesAt(prog, W, c, i) /\ Arg.known \subseteq ArgAt(prog, W, c, i)
    BY <2>2 DEF Fits
  <2>4. c \in Ctx /\ Bounds(prog, S, W)
    BY <1>1, <2>1, WalkFrameType DEF BoundOf
  <2>5. SiteFits(prog, W, c, i, s) /\ s.out.pending = {}
    BY <1>2, <2>2, <2>3, <2>4, StartSiteFits
  <2>6. Fits(b, s.out, W[c][i].known)
    BY <2>5 DEF SiteFits, Fits
  <2> QED BY <1>5, <1>7, <2>1, <2>5, <2>6 DEF WalkBelow
<1>8. UNCHANGED <<prog, slots, heads, parked, stack, fixpoint>>
  BY DEF StartCall
<1> QED BY <1>1, <1>4, <1>5, <1>7, <1>8, BoundsWalkOn

(* call_values: every callee has answered.                                 *)
LEMMA FinishBelow ==
  ASSUME NEW p, NEW S, NEW W, NEW fr \in WalkFrame, fr.site # None, WalkBelow(p, S, W, fr),
         NEW gr, gr.vals = Append(fr.vals, fr.site.out), gr.site = None, gr.ctx = fr.ctx,
         NEW w, w = fr.w, gr.w.deferred = w.deferred, gr.w.rets = w.rets,
         gr.w.resolved = w.resolved
  PROVE  WalkBelow(p, S, W, gr)
<1>1. /\ fr.vals \in Seq(Value) /\ Len(fr.vals) \in Nat /\ DOMAIN fr.vals = 1..Len(fr.vals)
      /\ fr.site.out \in Value
  BY WalkFrameType, SeqType DEF SiteCall
<1>2. PICK c, b, i, v : /\ c = fr.ctx /\ b = Ceiling(S, W, c, w.deferred)
                        /\ i = Len(fr.vals) + 1 /\ v = fr.site.out
  OBVIOUS
<1>3. /\ WalkFits(p, S, W, c, w) /\ w.resolved = <<>>
      /\ \A k \in DOMAIN fr.vals : k \in DOMAIN W[c] /\ Fits(b, fr.vals[k], W[c][k].known)
      /\ i \in DOMAIN W[c] /\ Fits(b, v, W[c][i].known)
  BY <1>2 DEF WalkBelow, SiteFits
<1>4. WalkFits(p, S, W, c, gr.w)
  BY <1>3 DEF WalkFits
<1>5. PICK vs : vs = gr.vals
  OBVIOUS
<1>6. DOMAIN vs = 1..i /\ vs[i] = v /\ \A k \in 1..(i - 1) : vs[k] = fr.vals[k]
  <2>1. PICK us, u : us = fr.vals /\ u = v
    OBVIOUS
  <2>2. u \in Value /\ us \in Seq(Value) /\ vs = Append(us, u) /\ i = Len(us) + 1 /\ Len(us) \in Nat
    BY <1>1, <1>2, <1>5, <2>1
  <2>3. DOMAIN vs = 1..(Len(us) + 1) /\ vs[Len(us) + 1] = u /\ \A k \in 1..Len(us) : vs[k] = us[k]
    BY <2>2, AppendType
  <2> QED BY <2>1, <2>2, <2>3
<1>7. \A k \in DOMAIN vs : k \in DOMAIN W[c] /\ Fits(b, vs[k], W[c][k].known)
  <2> SUFFICES ASSUME NEW k \in 1..i PROVE k \in DOMAIN W[c] /\ Fits(b, vs[k], W[c][k].known)
    BY <1>6
  <2>1. i \in Nat /\ DOMAIN fr.vals = 1..(i - 1)
    BY <1>1, <1>2
  <2>2. CASE k = i
    BY <2>2, <1>3, <1>6
  <2>3. CASE k # i
    <3>1. k \in 1..(i - 1)
      BY <2>1, <2>3
    <3>2. vs[k] = fr.vals[k] /\ k \in DOMAIN fr.vals
      BY <1>6, <2>1, <3>1
    <3> QED BY <1>3, <3>2
  <2> QED BY <2>2, <2>3
<1>8. b = Ceiling(S, W, gr.ctx, gr.w.deferred) /\ gr.ctx = c
  BY <1>2
<1> QED BY <1>3, <1>4, <1>5, <1>7, <1>8 DEF WalkBelow

(* call_values: the walk takes what its callees answered and goes on.      *)
LEMMA BoundsFinishCall ==
  ASSUME Inv, NEW S, NEW W, BoundOf(prog, S, W), StaysBelow(S, W), FinishCall
  PROVE  StaysBelow(S, W)'
<1>1. Top.kind = "walk" /\ Top \in WalkFrame /\ Top.site # None /\ Top.w \in Walk
  BY TopFrame, FrameType, WalkFrameType DEF FinishCall, InSite
<1> DEFINE w == [Top.w EXCEPT !.calls = Append(@, Top.site.targets)]
           fr == [Top EXCEPT !.w = w, !.vals = Append(@, Top.site.out), !.site = None]
<1>2. SetTop(fr)
  BY <1>1 DEF FinishCall, WalkFrame, Walk
<1>3. w.deferred = Top.w.deferred /\ w.rets = Top.w.rets /\ w.resolved = Top.w.resolved
  BY <1>1 DEF Walk
<1> HIDE DEF w
<1>4. /\ fr.kind = "walk" /\ fr.base = Top.base /\ fr.ctx = Top.ctx /\ fr.site = None
      /\ fr.w = w /\ fr.vals = Append(Top.vals, Top.site.out)
  BY <1>1 DEF WalkFrame
<1> HIDE DEF fr
<1>5. WalkBelow(prog, S, W, Top) => WalkBelow(prog, S, W, fr)
  BY <1>1, <1>3, <1>4, FinishBelow
<1>6. UNCHANGED <<prog, slots, heads, parked, stack, fixpoint>>
  BY DEF FinishCall
<1> QED BY <1>1, <1>2, <1>4, <1>5, <1>6, BoundsWalkOn

-----------------------------------------------------------------------------
(* A replay goes on.                                                       *)

(* The walk v is w, but for its edges.                                     *)
SameWork(w, v) == v.deferred = w.deferred /\ v.rets = w.rets /\ v.resolved = w.resolved

(* The step of a replay on top that stays below the bound.                 *)
LEMMA BoundsReplayOn ==
  ASSUME Inv, NEW S, NEW W, StaysBelow(S, W), Top.kind = "resolve",
         NEW fr \in ResolveFrame, SameLinks(Top, fr), SetTop(fr),
         \A c \in Ctx : SameWork(walk[c], walk'[c]),
         ~SpoiledNow(Top.head) => ReplayBelow(prog, S, W, walk, fr),
         UNCHANGED <<prog, state, heads, read, current, fixpoint, result>>
  PROVE  StaysBelow(S, W)'
<1>1. ASSUME NEW c \in Ctx, state[c] \in Waiting, ~SpoiledNow(heads[c])
      PROVE  WaiterBelow(prog, S, W, walk', current', c)
  <2>1. WaiterBelow(prog, S, W, walk, current, c)
    BY <1>1 DEF StaysBelow, SlotsBelow, SpoiledNow
  <2>2. walk'[c].deferred = walk[c].deferred /\ walk'[c].rets = walk[c].rets
        /\ walk'[c].resolved = walk[c].resolved
    BY DEF SameWork
  <2> QED BY <2>1, <2>2, WaiterKept
<1>2. OpsKept(walk, walk', Below)
  BY OpsKeptBelow DEF SameWork
<1>3. ASSUME ~SpoiledNow(Top.head) PROVE ReplayBelow(prog, S, W, walk', fr)
  <2>1. Replays(fr) => OpsOf(walk', fr) = OpsOf(walk, fr)
    <3>1. fr.members \in Seq(Ctx) /\ fr.at \in Nat \ {0}
      BY ResolveFrameType
    <3>2. Replays(fr) => Member(fr) \in Ctx
      BY <3>1, SeqType DEF Replays, Member
    <3> QED BY <3>2 DEF OpsOf, SameWork
  <2> QED BY <1>3, <2>1, ReplayKept
<1>4. ctl' = [ctl EXCEPT ![Len(ctl)] = fr] /\ fr.kind = "resolve"
  BY ResolveFrameType DEF SetTop
<1> QED BY <1>1, <1>2, <1>3, <1>4, BoundsAfterTop

(* What a member of a group that is not spoiled has found.                 *)
LEMMA MemberBelow ==
  ASSUME Inv, NEW S, NEW W, StaysBelow(S, W), Replays(Top), ~SpoiledNow(Top.head)
  PROVE  /\ WaiterBelow(prog, S, W, walk, current, Member(Top))
         /\ ReplayBelow(prog, S, W, walk, Top)
<1>1. /\ Member(Top) \in Ctx /\ state[Member(Top)] \in Waiting
      /\ heads[Member(Top)] = Top.head /\ Top.kind = "resolve"
  BY Replaying DEF Waiting, Replays
<1>2. Top = ctl[Len(ctl)] /\ Len(ctl) \in DOMAIN ctl
  BY TopFrame
<1> QED BY <1>1, <1>2 DEF StaysBelow, SlotsBelow, FramesBelow, SpoiledNow

(* What it takes for a replay to be below the bound.                       *)
LEMMA ReplayIs ==
  ASSUME NEW p, NEW S, NEW W, NEW wk, NEW fr, NEW m, m = Member(fr),
         NEW ops, ops = wk[m].deferred, NowFits(Ceiling(S, W, m, ops), fr.now),
         NEW o, fr.site # None =>
             /\ fr.pc \in DOMAIN ops /\ ops[fr.pc].op = "Call" /\ ops[fr.pc].site = o
             /\ SiteFits(p, W, m, o, fr.site)
  PROVE  ReplayBelow(p, S, W, wk, fr)
  BY DEF ReplayBelow, Member

(* A replay calls what its operation's callee and argument resolve to.     *)
CallMade(ops, fr, s) ==
    LET op == ops[fr.pc] IN
    /\ fr.pc \in DOMAIN ops /\ op.op = "Call"
    /\ s = StartSite(Substitute(op.callee, fr.now), Substitute(op.arg, fr.now))

(* A replay stays within the bound when it makes a deferred call.          *)
LEMMA ReplayCallsBelow ==
  ASSUME NEW p, NEW S, NEW W, BoundOf(p, S, W), NEW wk, NEW fr \in ResolveFrame,
         Replays(fr), ReplayBelow(p, S, W, wk, fr), Member(fr) \in Ctx,
         WalkFits(p, S, W, Member(fr), wk[Member(fr)]),
         NEW s, CallMade(OpsOf(wk, fr), fr, s)
  PROVE  ReplayBelow(p, S, W, wk, [fr EXCEPT !.site = s])
<1>1. PICK m, ops, b, gr :
        /\ m = Member(fr) /\ ops = OpsOf(wk, fr) /\ b = Ceiling(S, W, m, ops)
        /\ gr = [fr EXCEPT !.site = s]
  OBVIOUS
<1>2. PICK op, cv, arg :
        /\ op = ops[fr.pc] /\ cv = Substitute(op.callee, fr.now)
        /\ arg = Substitute(op.arg, fr.now)
  OBVIOUS
<1>3. fr.pc \in DOMAIN ops /\ op.op = "Call" /\ s = StartSite(cv, arg)
  BY <1>1, <1>2 DEF CallMade
<1>4. /\ gr.now = fr.now /\ gr.site = s /\ gr.at = fr.at /\ gr.pc = fr.pc
      /\ gr.members = fr.members
  BY <1>1 DEF ResolveFrame
<1>5. NowFits(b, fr.now)
  BY <1>1 DEF ReplayBelow, Member, OpsOf, Replays
<1>6. OpFits(p, W, m, b, op)
  <2>1. ops = wk[m].deferred /\ fr.pc \in DOMAIN ops /\ op = ops[fr.pc]
    BY <1>1, <1>2, <1>3 DEF OpsOf
  <2>2. \A d \in DOMAIN ops : OpFits(p, W, m, b, ops[d])
    BY <1>1, <2>1 DEF WalkFits
  <2> QED BY <2>1, <2>2
<1>7. /\ op.site \in DOMAIN W[m] /\ Fits(b, op.callee, CalleesAt(p, W, m, op.site))
      /\ Fits(b, op.arg, ArgAt(p, W, m, op.site))
  BY <1>6, <1>3 DEF OpFits
<1>8. cv \subseteq CalleesAt(p, W, m, op.site) /\ arg \subseteq ArgAt(p, W, m, op.site)
  BY <1>5, <1>7, <1>2, SubstituteFits
<1>9. SiteFits(p, W, m, op.site, s)
  <2>1. Bounds(p, S, W)
    BY DEF BoundOf
  <2>2. m \in Ctx
    BY <1>1
  <2> QED BY <1>7, <1>8, <1>3, <2>1, <2>2, StartSiteFits
<1>10. ReplayBelow(p, S, W, wk, gr)
  <2>1. PICK o : o = op.site
    OBVIOUS
  <2>2. m = Member(gr) /\ ops = wk[m].deferred
    BY <1>1, <1>4 DEF Member, OpsOf
  <2>3. /\ NowFits(Ceiling(S, W, m, ops), gr.now) /\ gr.pc \in DOMAIN ops
        /\ ops[gr.pc].op = "Call" /\ SiteFits(p, W, m, o, gr.site)
        /\ ops[gr.pc].site = o
    BY <1>1, <1>2, <1>3, <1>4, <1>5, <1>9, <2>1
  <2> QED BY <2>2, <2>3, ReplayIs
<1> QED BY <1>1, <1>10

(* What the call of a replay has answered so far.                          *)
LEMMA ReplaySiteFits ==
  ASSUME NEW p, NEW S, NEW W, NEW wk, NEW fr, Replays(fr), ReplayBelow(p, S, W, wk, fr),
         fr.site # None,
         NEW b, b = Ceiling(S, W, Member(fr), OpsOf(wk, fr))
  PROVE  fr.site.out.known \subseteq b[fr.pc]
<1>1. PICK m, ops : m = Member(fr) /\ ops = OpsOf(wk, fr)
  OBVIOUS
<1>2. fr.pc \in DOMAIN ops /\ ops[fr.pc].op = "Call"
      /\ SiteFits(p, W, m, ops[fr.pc].site, fr.site)
  BY <1>1 DEF ReplayBelow, OpsOf, Member, Replays
<1>3. b[fr.pc] = W[m][ops[fr.pc].site].known
  BY <1>1, <1>2 DEF Ceiling
<1> QED BY <1>2, <1>3 DEF SiteFits

(* replay: a deferred call is made.                                        *)
LEMMA BoundsReplayCall ==
  ASSUME Inv, NEW S, NEW W, BoundOf(prog, S, W), StaysBelow(S, W), ReplayCall
  PROVE  StaysBelow(S, W)'
<1>1. /\ HasOp(Top) /\ Replays(Top) /\ Op(Top).op = "Call" /\ Top.kind = "resolve"
      /\ Top \in ResolveFrame /\ Op(Top) \in DeferredOp /\ walk[Member(Top)] \in Walk
      /\ Member(Top) \in Ctx
  BY Replaying DEF ReplayCall, HasOp, Replays
<1>2. PICK m, ops, op : m = Member(Top) /\ ops = walk[m].deferred /\ op = Op(Top)
  OBVIOUS
<1>3. ops \in Seq(DeferredOp) /\ Top.pc \in DOMAIN ops /\ op = ops[Top.pc]
      /\ OpsOf(walk, Top) = ops /\ m = Top.members[Top.at]
  <2>1. ops \in Seq(DeferredOp) /\ Top.pc \in Nat \ {0}
    BY <1>1, <1>2, WalkFields, ResolveFrameType
  <2>2. Top.pc <= Len(ops) /\ op = ops[Top.pc]
    BY <1>1, <1>2 DEF HasOp, Op
  <2>3. DOMAIN ops = 1..Len(ops) /\ Len(ops) \in Nat
    BY <2>1, SeqType
  <2> QED BY <1>2, <2>1, <2>2, <2>3 DEF OpsOf, Member
<1>4. PICK cv, arg, s : /\ cv = Substitute(op.callee, Top.now) /\ arg = Substitute(op.arg, Top.now)
                        /\ s = StartSite(cv, arg)
  OBVIOUS
<1>5. PICK fr : fr = [Top EXCEPT !.site = s]
  OBVIOUS
<1>6. SetTop(fr) /\ UNCHANGED <<prog, slots, heads, fixpoint>>
  BY <1>2, <1>4, <1>5 DEF ReplayCall
<1>7. s \in SiteCall
  <2>1. op.callee \in Value /\ op.arg \in Value /\ Top.now \in Seq(SUBSET V)
    BY <1>1, <1>2, OpType, ResolveFrameType
  <2> QED BY <1>4, <2>1, SubstituteType, StartSiteType
<1>8. /\ fr \in ResolveFrame /\ SameLinks(Top, fr) /\ fr.members = Top.members
      /\ fr.at = Top.at /\ fr.pc = Top.pc /\ fr.now = Top.now /\ fr.site = s
  BY <1>1, <1>5, <1>7 DEF ResolveFrame, SameLinks
<1>9. ASSUME ~SpoiledNow(Top.head) PROVE ReplayBelow(prog, S, W, walk, fr)
  <2>1. WaiterBelow(prog, S, W, walk, current, m) /\ ReplayBelow(prog, S, W, walk, Top)
    BY <1>1, <1>2, <1>9, MemberBelow
  <2>2. WalkFits(prog, S, W, m, walk[m])
    BY <2>1 DEF WaiterBelow
  <2>3. CallMade(OpsOf(walk, Top), Top, s)
    <3>1. OpsOf(walk, Top) = ops /\ op.op = "Call"
      BY <1>1, <1>2, <1>3
    <3> QED BY <1>3, <1>4, <3>1 DEF CallMade
  <2> QED BY <1>1, <1>2, <1>5, <2>1, <2>2, <2>3, ReplayCallsBelow
<1>10. UNCHANGED <<prog, state, heads, read, current, fixpoint, result, walk>>
  BY <1>6 DEF slots
<1>11. \A c \in Ctx : SameWork(walk[c], walk'[c])
  BY <1>10 DEF SameWork
<1> QED BY <1>1, <1>6, <1>8, <1>9, <1>10, <1>11, BoundsReplayOn

(* replay: the deferred call has its value.                                *)
LEMMA BoundsReplayDone ==
  ASSUME Inv, RoundsSuffice, NEW S, NEW W, StaysBelow(S, W), ReplayDone
  PROVE  StaysBelow(S, W)'
<1>1. /\ HasOp(Top) /\ Replays(Top) /\ Top.kind = "resolve" /\ Top.site # None
      /\ Top \in ResolveFrame /\ Member(Top) \in Ctx /\ walk[Member(Top)] \in Walk
      /\ Top.at <= Len(Top.members)
  BY Replaying DEF ReplayDone, HasOp, Replays, InSite
<1>2. PICK v : v = Top.site.out.known /\ v \in SUBSET V
  BY <1>1, ResolveFrameType DEF SiteCall, Value
<1>3. PICK fr : fr = OpDone(Top, v)
  OBVIOUS
<1>4. SetTop(fr) /\ UNCHANGED <<prog, state, heads, read, current, fixpoint, result>>
  BY <1>2, <1>3 DEF ReplayDone
<1>5. fr \in ResolveFrame /\ SameLinks(Top, fr)
  BY <1>1, <1>2, <1>3, OpDoneType, ShapeLinks
<1>6. \A c \in Ctx : SameWork(walk[c], walk'[c])
  <2>1. walk \in [Ctx -> Walk \cup {None}]
    BY DEF Inv, TypeOK
  <2>2. walk' = [walk EXCEPT ![Member(Top)].calls[Op(Top).site] = Top.site.targets]
    BY DEF ReplayDone
  <2>3. \A c \in Ctx : c # Member(Top) => walk'[c] = walk[c]
    BY <2>1, <2>2
  <2>4. walk'[Member(Top)] = [walk[Member(Top)] EXCEPT !.calls[Op(Top).site] = Top.site.targets]
    BY <1>1, <2>1, <2>2
  <2>5. SameWork(walk[Member(Top)], walk'[Member(Top)])
    BY <1>1, <2>4 DEF SameWork, Walk
  <2> QED BY <2>3, <2>5 DEF SameWork
<1>7. ASSUME ~SpoiledNow(Top.head) PROVE ReplayBelow(prog, S, W, walk, fr)
  <2>1. PICK b : b = Ceiling(S, W, Member(Top), OpsOf(walk, Top))
    OBVIOUS
  <2>2. ReplayBelow(prog, S, W, walk, Top)
    BY <1>1, <1>7, MemberBelow
  <2>3. v \subseteq b[Top.pc]
    BY <1>1, <1>2, <2>1, <2>2, ReplaySiteFits
  <2>4. ~Capped(Top)
    BY <1>1, TopFrame, NotCapped
  <2> QED BY <1>1, <1>3, <2>1, <2>2, <2>3, <2>4, OpDoneBelow
<1> QED BY <1>1, <1>4, <1>5, <1>6, <1>7, BoundsReplayOn

(* A member's summary of this round is within the bound.                   *)
LEMMA RoundBelow ==
  ASSUME NEW p, NEW S, NEW W, NEW c, NEW w, WalkFits(p, S, W, c, w), NEW wk, NEW cur,
         wk[c].deferred = w.deferred, wk[c].rets = w.rets,
         NEW now, NowFits(Ceiling(S, W, c, w.deferred), now),
         NowFits(Ceiling(S, W, c, w.deferred), wk[c].resolved),
         cur[c] = FinishRound(w, now)
  PROVE  WaiterBelow(p, S, W, wk, cur, c)
<1>1. cur[c].returns \subseteq S[c]
  <2>1. Fits(Ceiling(S, W, c, w.deferred), w.rets, S[c])
    BY DEF WalkFits
  <2>2. Substitute(w.rets, now) \subseteq S[c]
    BY <2>1, SubstituteFits
  <2> QED BY <2>2 DEF FinishRound
<1>2. WalkFits(p, S, W, c, wk[c])
  BY DEF WalkFits
<1> QED BY <1>1, <1>2 DEF WaiterBelow

(* replay: the member is done, and the next one starts.                    *)
LEMMA BoundsNextMember ==
  ASSUME Inv, NEW S, NEW W, StaysBelow(S, W), NextMember
  PROVE  StaysBelow(S, W)'
<1>1. /\ MemberOver /\ Replays(Top) /\ Top.kind = "resolve" /\ Top \in ResolveFrame
      /\ Top.at \in Nat \ {0} /\ Top.members \in Seq(Ctx)
  BY KeptWalk, ResolveFrameType DEF NextMember, MemberOver, Replays
<1>2. PICK m : /\ m = Member(Top) /\ m \in Ctx /\ state[m] \in Waiting /\ heads[m] = Top.head
               /\ walk[m] \in Walk
  BY <1>1, Replaying DEF Waiting
<1>3. /\ walk' = [walk EXCEPT ![m].resolved = Top.now]
      /\ current' = [current EXCEPT ![m] = FinishRound(walk[m], Top.now)]
  BY <1>2 DEF NextMember, KeepsResolved
<1>4. /\ \A c \in Ctx : c # m => walk'[c] = walk[c] /\ current'[c] = current[c]
      /\ walk'[m] = [walk[m] EXCEPT !.resolved = Top.now]
      /\ current'[m] = FinishRound(walk[m], Top.now)
  BY <1>2, <1>3 DEF Inv, TypeOK
<1>5. /\ walk'[m].deferred = walk[m].deferred /\ walk'[m].rets = walk[m].rets
      /\ walk'[m].resolved = Top.now
  BY <1>2, <1>4 DEF Walk
<1>6. PICK fr : /\ SetTop(fr) /\ fr.kind = "resolve" /\ SameLinks(Top, fr) /\ fr.site = None
                /\ fr.members = Top.members /\ fr.at = Top.at + 1
                /\ fr.now = IF Top.at < Len(Top.members)
                            THEN walk[Top.members[Top.at + 1]].resolved ELSE <<>>
  <2>1. PICK fr : fr = [Top EXCEPT
           !.changed = @ \/ FinishRound(walk[m], Top.now).returns # current[m].returns,
           !.at = @ + 1, !.pc = 1,
           !.now = IF Top.at < Len(Top.members)
                   THEN walk[Top.members[Top.at + 1]].resolved ELSE <<>>]
    OBVIOUS
  <2>2. SetTop(fr)
    BY <1>2, <2>1 DEF NextMember
  <2>3. /\ fr.kind = "resolve" /\ SameLinks(Top, fr) /\ fr.site = None
        /\ fr.members = Top.members /\ fr.at = Top.at + 1
        /\ fr.now = IF Top.at < Len(Top.members)
                    THEN walk[Top.members[Top.at + 1]].resolved ELSE <<>>
    BY <1>1, <2>1 DEF ResolveFrame, SameLinks, MemberOver
  <2> QED BY <2>2, <2>3
<1>7. ASSUME NEW c \in Ctx, state[c] \in Waiting, ~SpoiledNow(heads[c])
      PROVE  WaiterBelow(prog, S, W, walk', current', c)
  <2>1. WaiterBelow(prog, S, W, walk, current, c)
    BY <1>7 DEF StaysBelow, SlotsBelow, SpoiledNow
  <2>2. CASE c # m
    BY <1>4, <2>1, <2>2, WaiterKept
  <2>3. CASE c = m
    <3>1. PICK w, now : w = walk[m] /\ now = Top.now
      OBVIOUS
    <3>2. WalkFits(prog, S, W, c, w)
      BY <2>1, <2>3, <3>1 DEF WaiterBelow
    <3>3. ReplayBelow(prog, S, W, walk, Top)
      BY <1>1, <1>2, <1>7, <2>3, MemberBelow
    <3>4. NowFits(Ceiling(S, W, c, w.deferred), now)
      BY <1>1, <1>2, <2>3, <3>1, <3>3 DEF ReplayBelow, Replays, Member
    <3> QED BY <1>4, <1>5, <2>3, <3>1, <3>2, <3>4, RoundBelow
  <2> QED BY <2>2, <2>3
<1>8. \A c \in Ctx : walk'[c].deferred = walk[c].deferred
  BY <1>4, <1>5
<1>9. OpsKept(walk, walk', Below)
  BY <1>1, <1>8, OpsKeptBelow
<1>10. ASSUME ~SpoiledNow(Top.head) PROVE ReplayBelow(prog, S, W, walk', fr)
  <2>1. SUFFICES ASSUME fr.at <= Len(fr.members) PROVE ReplayBelow(prog, S, W, walk', fr)
    BY DEF ReplayBelow
  <2>2. PICK c, ops, now : c = Member(fr) /\ ops = walk'[c].deferred /\ now = walk[c].resolved
    OBVIOUS
  <2>3. fr.at \in 1..Len(Top.members) /\ Top.at < Len(Top.members) /\ fr.now = now
    BY <1>1, <1>6, <2>1, <2>2 DEF Member
  <2>4. c \in Ctx /\ c \in Range(Top.members)
    BY <1>1, <1>6, <2>2, <2>3, SeqType DEF Member, Range
  <2>5. state[c] \in Waiting /\ heads[c] = Top.head
    BY <1>1, <2>4, ResolveOnTop DEF Waiting
  <2>6. WaiterBelow(prog, S, W, walk, current, c)
    BY <1>10, <2>4, <2>5 DEF StaysBelow, SlotsBelow, SpoiledNow
  <2>7. NowFits(Ceiling(S, W, c, ops), now)
    BY <1>8, <2>2, <2>4, <2>6 DEF WaiterBelow
  <2> QED BY <1>6, <2>2, <2>3, <2>7, ReplayIs
<1>11. ctl' = [ctl EXCEPT ![Len(ctl)] = fr]
       /\ UNCHANGED <<prog, state, heads, read, fixpoint, result>>
  BY <1>6 DEF NextMember, SetTop
<1> QED BY <1>1, <1>6, <1>7, <1>9, <1>10, <1>11, BoundsAfterTop

(* resolve_group: another round, from round 0 for what joined.             *)
LEMMA BoundsNextRound ==
  ASSUME Inv, WaitersInv, NEW S, NEW W, StaysBelow(S, W), NextRound
  PROVE  StaysBelow(S, W)'
<1>1. /\ Top.kind = "resolve" /\ Top \in ResolveFrame /\ Top.members \in Seq(Ctx)
      /\ Top.head \in Range(Top.members) /\ Joiners \in Seq(Ctx)
  BY ResolveOnTop, JoinersType DEF NextRound, RoundOver
<1>2. PICK ms : /\ ms = Range(Joiners) /\ \A c \in ms : c \in Ctx
                /\ \A c \in ms : state[c] = "Parked"
                /\ \A c \in ms : walk[c] \in Walk
  BY <1>1, JoinersType
<1>3. /\ \A c \in Ctx \ ms : walk'[c] = walk[c] /\ current'[c] = current[c] /\ state'[c] = state[c]
      /\ \A c \in ms : /\ walk'[c] = [walk[c] EXCEPT !.resolved = NoValues(walk[c])]
                       /\ current'[c] = RoundZero(walk[c]) /\ state'[c] = "Resolving"
  BY <1>2 DEF NextRound, FromRoundZero
<1>4. \A c \in ms : /\ walk'[c].deferred = walk[c].deferred /\ walk'[c].rets = walk[c].rets
                    /\ walk'[c].resolved = NoValues(walk[c])
  <2> SUFFICES ASSUME NEW c \in ms
               PROVE  /\ walk'[c].deferred = walk[c].deferred /\ walk'[c].rets = walk[c].rets
                      /\ walk'[c].resolved = NoValues(walk[c])
    OBVIOUS
  <2>1. PICK w, v, r : w = walk[c] /\ v = walk'[c] /\ r = NoValues(w)
    OBVIOUS
  <2>2. w \in Walk /\ v = [w EXCEPT !.resolved = r]
    BY <1>2, <1>3, <2>1
  <2>3. v.deferred = w.deferred /\ v.rets = w.rets /\ v.resolved = r
    BY <2>2 DEF Walk
  <2> QED BY <2>1, <2>3
<1>5. PICK fr : /\ SetTop(fr) /\ fr.kind = "resolve" /\ SameLinks(Top, fr) /\ fr.site = None
                /\ fr.members = Top.members \o Joiners /\ fr.at = 1
                /\ fr.now = walk[fr.members[1]].resolved
  <2>1. PICK fr : fr = [Top EXCEPT
           !.members = Top.members \o Joiners, !.round = @ + 1, !.changed = FALSE,
           !.at = 1, !.pc = 1, !.now = walk[(Top.members \o Joiners)[1]].resolved]
    OBVIOUS
  <2>2. SetTop(fr)
    BY <2>1 DEF NextRound
  <2>3. Top.site = None
    BY RoundOverFacts DEF NextRound
  <2>4. /\ fr.kind = Top.kind /\ fr.base = Top.base /\ fr.head = Top.head
        /\ fr.outer = Top.outer /\ fr.site = Top.site
        /\ fr.members = Top.members \o Joiners /\ fr.at = 1
        /\ fr.now = walk[(Top.members \o Joiners)[1]].resolved
    BY <1>1, <2>1 DEF ResolveFrame
  <2> QED BY <1>1, <2>2, <2>3, <2>4 DEF SameLinks
<1>6. ASSUME NEW c \in Ctx, state[c] \in Waiting, ~SpoiledNow(heads[c])
      PROVE  WaiterBelow(prog, S, W, walk', current', c)
  <2>1. WaiterBelow(prog, S, W, walk, current, c)
    BY <1>6 DEF StaysBelow, SlotsBelow, SpoiledNow
  <2>2. CASE c \notin ms
    BY <1>3, <2>1, <2>2, WaiterKept
  <2>3. CASE c \in ms
    <3>1. PICK w, now : w = walk[c] /\ now = NoValues(w)
      OBVIOUS
    <3>2. WalkFits(prog, S, W, c, w) /\ NowFits(Ceiling(S, W, c, w.deferred), now)
      BY <2>1, <3>1, NoValuesFit DEF WaiterBelow
    <3>3. current'[c] = FinishRound(w, now)
      BY <1>3, <2>3, <3>1 DEF RoundZero
    <3> QED BY <1>4, <2>3, <3>1, <3>2, <3>3, RoundBelow
  <2> QED BY <2>2, <2>3
<1>7. \A c \in Ctx : /\ walk'[c].deferred = walk[c].deferred
                     /\ state'[c] \in Waiting <=> state[c] \in Waiting
                     /\ state'[c] = "Ready" => state[c] = "Ready"
  BY <1>2, <1>3, <1>4 DEF Waiting
<1>8. OpsKept(walk, walk', Below)
  BY <1>1, <1>7, OpsKeptBelow
<1>9. ASSUME ~SpoiledNow(Top.head) PROVE ReplayBelow(prog, S, W, walk', fr)
  <2>1. PICK c, ops, now : c = Member(fr) /\ ops = walk'[c].deferred /\ now = walk[c].resolved
    OBVIOUS
  <2>2. c = Top.members[1] /\ c \in Ctx /\ c \in Range(Top.members) /\ fr.now = now
    <3>1. 1 \in 1..Len(Top.members) /\ DOMAIN Top.members = 1..Len(Top.members)
      BY <1>1, SeqType DEF Range
    <3>2. (Top.members \o Joiners)[1] = Top.members[1]
      BY <1>1, <3>1
    <3>3. fr.members[fr.at] = Top.members[1]
      BY <1>5, <3>2
    <3>4. c = Top.members[1]
      BY <2>1, <3>3 DEF Member
    <3>5. c \in Ctx /\ c \in Range(Top.members)
      BY <1>1, <3>1, <3>4 DEF Range
    <3> QED BY <1>5, <2>1, <3>2, <3>4, <3>5
  <2>3. state[c] \in Waiting /\ heads[c] = Top.head
    BY <1>1, <2>2, ResolveOnTop DEF Waiting
  <2>4. WaiterBelow(prog, S, W, walk, current, c)
    BY <1>9, <2>2, <2>3 DEF StaysBelow, SlotsBelow, SpoiledNow
  <2>5. NowFits(Ceiling(S, W, c, ops), now)
    BY <1>7, <2>1, <2>2, <2>4 DEF WaiterBelow
  <2> QED BY <1>5, <2>1, <2>2, <2>5, ReplayIs
<1>10. ctl' = [ctl EXCEPT ![Len(ctl)] = fr]
       /\ UNCHANGED <<prog, heads, read, fixpoint, result>>
  BY <1>5 DEF NextRound, SetTop
<1> QED BY <1>1, <1>5, <1>6, <1>7, <1>8, <1>9, <1>10, BoundsAfterTop

-----------------------------------------------------------------------------
(* A walk is over.                                                         *)

(* What a walk returns is within the bound.                                *)
LEMMA DoneBelow ==
  ASSUME NEW p, NEW S, NEW W, BoundOf(p, S, W), NEW fr \in WalkFrame, WalkBelow(p, S, W, fr),
         NEW w, w = [fr.w EXCEPT !.rets = Eval(p[fr.ctx.func].rets, fr.ctx, fr.vals)]
  PROVE  WalkFits(p, S, W, fr.ctx, w) /\ w.resolved = <<>>
<1>1. fr.ctx \in Ctx /\ fr.w \in Walk
  BY WalkFrameType
<1>2. PICK c, u, vs : c = fr.ctx /\ u = fr.w /\ vs = fr.vals
  OBVIOUS
<1>3. PICK b, e, v : b = Ceiling(S, W, c, u.deferred) /\ e = p[c.func].rets /\ v = Eval(e, c, vs)
  OBVIOUS
<1>4. w.deferred = u.deferred /\ w.rets = v /\ w.resolved = u.resolved
  BY <1>1, <1>2, <1>3 DEF Walk
<1>5. /\ WalkFits(p, S, W, c, u) /\ u.resolved = <<>> /\ DOMAIN vs \subseteq DOMAIN W[c]
      /\ \A k \in DOMAIN vs : Fits(b, vs[k], W[c][k].known)
  BY <1>2, <1>3 DEF WalkBelow
<1>6. PICK ws : ws = W[c]
  OBVIOUS
<1>7. Fits(b, v, Eval(e, c, ws).known)
  BY <1>3, <1>5, <1>6, EvalFits
<1>8. Eval(e, c, ws).known \subseteq S[c]
  BY <1>1, <1>2, <1>3, <1>6 DEF BoundOf, Bounds
<1>9. Fits(b, v, S[c])
  BY <1>7, <1>8 DEF Fits
<1> QED BY <1>2, <1>3, <1>4, <1>5, <1>9 DEF WalkFits

(* A walk that is over and read no cut fits what its context may be.       *)
LEMMA WalkDoneFits ==
  ASSUME Inv, NEW S, NEW W, BoundOf(prog, S, W), StaysBelow(S, W), WalkOver,
         read[Top.ctx].cut = None
  PROVE  WalkFits(prog, S, W, Top.ctx, WalkDone) /\ WalkDone.resolved = <<>>
<1>1. Top \in WalkFrame /\ Top.kind = "walk"
  BY WalkOverType DEF WalkOver
<1>2. WalkBelow(prog, S, W, Top)
  BY <1>1, TopFrame DEF StaysBelow, FramesBelow
<1> QED BY <1>1, <1>2, DoneBelow DEF WalkDone, BodyOf

(* The walks of a group, that of its head being over.                      *)
Ended(d) == IF d = Top.ctx THEN WalkDone ELSE walk[d]

(* resolve_group: who is in the group, and where it starts from.           *)
LEMMA GroupStarts ==
  ASSUME Inv, ResolveGroup
  PROVE  \E ms \in SUBSET Ctx :
            /\ Top.ctx \in ms
            /\ \A d \in ms : d # Top.ctx => state[d] = "Parked" /\ heads[d] = Top.ctx
            /\ \A d \in ms : Ended(d) \in Walk
            /\ \A d \in Ctx : d \notin ms =>
                  /\ state'[d] = state[d] /\ current'[d] = current[d] /\ walk'[d] = walk[d]
            /\ \A d \in ms : /\ state'[d] = "Resolving" /\ current'[d] = RoundZero(Ended(d))
                             /\ walk'[d] = [Ended(d) EXCEPT !.resolved = NoValues(Ended(d))]
<1> DEFINE c == Top.ctx
           ps == Append(parked, c)
           ms == Taken(ps, heads, c)
           ws == [walk EXCEPT ![c] = WalkDone]
<1>1. WalkOver /\ FromRoundZero(Range(ms), ws)
  BY DEF ResolveGroup
<1>2. c \in Ctx /\ heads[c] = c /\ WalkDone \in Walk
  BY <1>1, WalkOverType
<1>3. parked \in Seq(Ctx) /\ heads \in [Ctx -> Ctx] /\ walk \in [Ctx -> Walk \cup {None}]
  BY DEF Inv, TypeOK
<1>4. ps \in Seq(Ctx) /\ Range(ps) = Range(parked) \cup {c}
  BY <1>2, <1>3, AppendType, RangeOfAppend
<1> HIDE DEF ps
<1>5. Range(ms) = {d \in Range(parked) \cup {c} : heads[d] = c}
  <2> HIDE DEF c
  <2>1. Range(ms) = {d \in Range(ps) : heads[d] = c}
    BY ZenonT(30), <1>2, <1>3, <1>4, TakenLeft
  <2> HIDE DEF ms
  <2> QED BY <1>4, <2>1
<1> HIDE DEF ms
<1>6. \A d \in Range(parked) : state[d] = "Parked" /\ d \in Ctx
  BY <1>3, SeqType DEF Inv, GroupsFit, Range
<1>7. \A d \in Ctx : ws[d] = Ended(d)
  BY <1>3 DEF Ended
<1> HIDE DEF ws
<1>8. PICK G : G = Range(ms)
  OBVIOUS
<1>9. /\ G \in SUBSET Ctx /\ c \in G
      /\ \A d \in G : d # c => state[d] = "Parked" /\ heads[d] = c
  BY <1>2, <1>5, <1>6, <1>8
<1>10. \A d \in G : Ended(d) \in Walk
  BY <1>2, <1>9 DEF Ended, Inv, SlotsFit
<1>11. /\ \A d \in Ctx : d \notin G =>
             state'[d] = state[d] /\ current'[d] = current[d] /\ walk'[d] = walk[d]
       /\ \A d \in G : /\ state'[d] = "Resolving" /\ current'[d] = RoundZero(ws[d])
                       /\ walk'[d] = [ws[d] EXCEPT !.resolved = NoValues(ws[d])]
  BY <1>1, <1>8, <1>9 DEF FromRoundZero
<1>12. \A d \in G : /\ state'[d] = "Resolving" /\ current'[d] = RoundZero(Ended(d))
                    /\ walk'[d] = [Ended(d) EXCEPT !.resolved = NoValues(Ended(d))]
  BY <1>7, <1>9, <1>11
<1> QED BY <1>9, <1>10, <1>11, <1>12

(* What was spoiled stays so, under the fixpoint that starts.              *)
LEMMA SpoiledUnder ==
  ASSUME NEW st, NEW hs, NEW rd, NEW fx, NEW cs, NEW h, Spoiled(st, hs, rd, fx, cs, h),
         NEW tt, NEW ft, NEW ds, NEW n,
         \A c \in Ctx : st[c] \in Waiting => tt[c] \in Waiting,
         \A i \in DOMAIN cs : cs[i].kind = "resolve" =>
             i \in DOMAIN ds /\ ds[i].kind = "resolve" /\ ds[i].outer = cs[i].outer,
         n \in DOMAIN ds, ds[n].kind = "resolve", ds[n].outer = fx
  PROVE  Spoiled(tt, hs, rd, ft, ds, h)
  BY DEF Spoiled

(* resolve_group: the fixpoint over the group begins.                      *)
LEMMA BoundsResolveGroup ==
  ASSUME Inv, NEW S, NEW W, BoundOf(prog, S, W), StaysBelow(S, W), ResolveGroup
  PROVE  StaysBelow(S, W)'
<1>1. WalkOver /\ Top.kind = "walk" /\ UNCHANGED <<prog, heads, read, result>>
  BY DEF ResolveGroup, WalkOver
<1>2. PICK fr : /\ ctl' = Append(Below, fr) /\ fr.kind = "resolve" /\ fr.head = Top.ctx
                /\ fr.outer = fixpoint /\ fr.site = None /\ \E w : fr.now = NoValues(w)
  BY DEF ResolveGroup
<1>3. PICK ms \in SUBSET Ctx :
            /\ Top.ctx \in ms
            /\ \A d \in ms : d # Top.ctx => state[d] = "Parked" /\ heads[d] = Top.ctx
            /\ \A d \in ms : Ended(d) \in Walk
            /\ \A d \in Ctx : d \notin ms =>
                  /\ state'[d] = state[d] /\ current'[d] = current[d] /\ walk'[d] = walk[d]
            /\ \A d \in ms : /\ state'[d] = "Resolving" /\ current'[d] = RoundZero(Ended(d))
                             /\ walk'[d] = [Ended(d) EXCEPT !.resolved = NoValues(Ended(d))]
  BY GroupStarts
<1>4. PICK n \in Nat : /\ n = Len(Below) /\ DOMAIN Below = 1..n /\ DOMAIN ctl = 1..(n + 1)
                       /\ DOMAIN ctl' = 1..(n + 1) /\ ctl'[n + 1] = fr /\ ctl[n + 1] = Top
                       /\ \A i \in 1..n : ctl'[i] = Below[i] /\ ctl[i] = Below[i]
  <2>1. /\ Below \in Seq(Frame) /\ Len(Below) \in Nat /\ DOMAIN Below = 1..Len(Below)
        /\ DOMAIN ctl = 1..(Len(Below) + 1) /\ ctl[Len(Below) + 1] = Top
        /\ \A i \in 1..Len(Below) : Below[i] = ctl[i]
    BY <1>1, BelowFacts
  <2>2. /\ DOMAIN ctl' = 1..(Len(Below) + 1) /\ ctl'[Len(Below) + 1] = fr
        /\ \A i \in 1..Len(Below) : ctl'[i] = Below[i]
    BY <1>2, <2>1
  <2> QED BY <2>1, <2>2
<1>5. Top.ctx \in Ctx /\ heads[Top.ctx] = Top.ctx
  BY <1>1, WalkOverType
<1>6. \A d \in Ctx : state[d] \in Waiting => state'[d] \in Waiting
  BY <1>3 DEF Waiting
<1>7. ASSUME NEW h, SpoiledNow(h) PROVE Spoiled(state', heads', read', fixpoint', ctl', h)
  <2>1. \A i \in DOMAIN ctl : ctl[i].kind = "resolve" =>
          i \in DOMAIN ctl' /\ ctl'[i].kind = "resolve" /\ ctl'[i].outer = ctl[i].outer
    <3> SUFFICES ASSUME NEW i \in 1..(n + 1), ctl[i].kind = "resolve"
                 PROVE  i \in DOMAIN ctl' /\ ctl'[i] = ctl[i]
      BY <1>4
    <3>1. i # n + 1
      BY <1>1, <1>4
    <3> QED BY <1>4, <3>1
  <2>2. n + 1 \in DOMAIN ctl' /\ ctl'[n + 1].kind = "resolve" /\ ctl'[n + 1].outer = fixpoint
    BY <1>2, <1>4
  <2>3. PICK ft, ds, tt : ft = fixpoint' /\ ds = ctl' /\ tt = state'
    OBVIOUS
  <2>4. Spoiled(tt, heads, read, ft, ds, h)
    BY <1>6, <1>7, <2>1, <2>2, <2>3, SpoiledUnder DEF SpoiledNow
  <2> QED BY <1>1, <2>3, <2>4
<1>8. ASSUME NEW d \in ms, ~Spoiled(state', heads', read', fixpoint', ctl', heads[d])
      PROVE  WaiterBelow(prog, S, W, walk', current', d)
  <2>1. PICK w, r : w = Ended(d) /\ w \in Walk /\ r = NoValues(w)
    BY <1>3
  <2>2. WalkFits(prog, S, W, d, w)
    <3>1. CASE d = Top.ctx
      <4>1. state'[d] \in Waiting /\ heads'[d] = heads[d]
        BY <1>1, <1>3 DEF Waiting
      <4>2. read[Top.ctx].cut = None
        BY <1>1, <1>3, <1>8, <3>1, <4>1 DEF Spoiled
      <4> QED BY <1>1, <2>1, <3>1, <4>2, WalkDoneFits DEF Ended
    <3>2. CASE d # Top.ctx
      <4>1. state[d] \in Waiting /\ ~SpoiledNow(heads[d]) /\ w = walk[d] /\ d \in Ctx
        BY <1>3, <1>7, <1>8, <2>1, <3>2 DEF Waiting, Ended
      <4>2. WaiterBelow(prog, S, W, walk, current, d)
        BY <4>1 DEF StaysBelow, SlotsBelow, SpoiledNow
      <4> QED BY <4>1, <4>2 DEF WaiterBelow
    <3> QED BY <3>1, <3>2
  <2>3. PICK v : v = walk'[d]
    OBVIOUS
  <2>4. v.deferred = w.deferred /\ v.rets = w.rets /\ v.resolved = r
    BY <1>3, <2>1, <2>3 DEF Walk
  <2>5. current'[d] = FinishRound(w, r)
    BY <1>3, <2>1 DEF RoundZero
  <2>6. NowFits(Ceiling(S, W, d, w.deferred), r)
    BY <2>1, NoValuesFit
  <2> QED BY <2>2, <2>3, <2>4, <2>5, <2>6, RoundBelow
<1>9. SlotsBelow(prog, S, W, state', heads', read', walk', current', result', fixpoint', ctl')
  <2> SUFFICES ASSUME NEW d \in Ctx
               PROVE  /\ state'[d] = "Ready" => result'[d].returns \subseteq S[d]
                      /\ state'[d] \in Waiting
                         /\ ~Spoiled(state', heads', read', fixpoint', ctl', heads'[d])
                           => WaiterBelow(prog, S, W, walk', current', d)
    BY DEF SlotsBelow
  <2>1. CASE d \in ms
    BY <1>1, <1>3, <1>8, <2>1
  <2>2. CASE d \notin ms
    <3>1. state'[d] = state[d] /\ current'[d] = current[d] /\ walk'[d] = walk[d]
          /\ result'[d] = result[d] /\ heads'[d] = heads[d]
      BY <1>1, <1>3, <2>2
    <3>2. state[d] = "Ready" => result[d].returns \subseteq S[d]
      BY DEF StaysBelow, SlotsBelow
    <3>3. ASSUME state[d] \in Waiting, ~SpoiledNow(heads[d])
          PROVE  WaiterBelow(prog, S, W, walk', current', d)
      <4>1. WaiterBelow(prog, S, W, walk, current, d)
        BY <3>3 DEF StaysBelow, SlotsBelow, SpoiledNow
      <4> QED BY <3>1, <4>1, WaiterKept
    <3> QED BY <1>7, <3>1, <3>2, <3>3
  <2> QED BY <2>1, <2>2
<1>10. OpsKept(walk, walk', Below)
  <2>1. ASSUME NEW d \in Ctx, state[d] = "Resolving" PROVE walk'[d].deferred = walk[d].deferred
    <3>1. d \notin ms
      BY <1>1, <1>3, <2>1, WalkOverType
    <3> QED BY <1>3, <3>1
  <2> QED BY <1>1, <2>1, OpsKeptBelow
<1>11. ASSUME NEW i \in 1..(n + 1), ctl'[i].kind = "walk", read'[ctl'[i].ctx].cut = None
       PROVE  WalkBelow(prog, S, W, ctl'[i])
  <2>1. i \in 1..n /\ ctl'[i] = ctl[i] /\ i \in DOMAIN ctl
    BY <1>2, <1>4, <1>11
  <2> QED BY <1>1, <1>11, <2>1 DEF StaysBelow, FramesBelow
<1>12. ASSUME NEW i \in 1..(n + 1), ctl'[i].kind = "resolve",
              ~Spoiled(state', heads', read', fixpoint', ctl', ctl'[i].head)
       PROVE  ReplayBelow(prog, S, W, walk', ctl'[i])
  <2>1. CASE i = n + 1
    <3>1. PICK w, c, ops : fr.now = NoValues(w) /\ c = Member(fr) /\ ops = walk'[c].deferred
      BY <1>2
    <3>2. NowFits(Ceiling(S, W, c, ops), fr.now)
      BY <3>1, NoValuesFit
    <3> QED BY <1>2, <1>4, <2>1, <3>1, <3>2, ReplayIs
  <2>2. CASE i # n + 1
    <3>1. /\ i \in 1..n /\ ctl'[i] = ctl[i] /\ Below[i] = ctl[i]
          /\ i \in DOMAIN ctl /\ i \in DOMAIN Below
      BY <1>4, <2>2
    <3>2. ctl[i] \in ResolveFrame
      BY <1>12, <3>1, TopFrame, SeqType, FrameType
    <3>3. ReplayBelow(prog, S, W, walk, ctl[i])
      BY <1>7, <1>12, <3>1 DEF StaysBelow, FramesBelow, SpoiledNow
    <3>4. Replays(ctl[i]) => OpsOf(walk', ctl[i]) = OpsOf(walk, ctl[i])
      BY <1>10, <3>1 DEF OpsKept
    <3> QED BY <3>1, <3>2, <3>3, <3>4, ReplayKept
  <2> QED BY <2>1, <2>2
<1>13. FramesBelow(prog, S, W, state', heads', read', walk', fixpoint', ctl')
  BY <1>4, <1>11, <1>12 DEF FramesBelow
<1> QED BY <1>1, <1>9, <1>13 DEF StaysBelow

-----------------------------------------------------------------------------
(* A walk starts.                                                          *)

(* It has found nothing yet.                                               *)
LEMMA FreshBelow ==
  ASSUME NEW p, NEW S, NEW W, NEW fr, fr.vals = <<>>, fr.site = None,
         fr.w.deferred = <<>>, fr.w.resolved = <<>>, fr.w.rets = NoValue
  PROVE  WalkBelow(p, S, W, fr)
<1>1. WalkFits(p, S, W, fr.ctx, fr.w)
  BY DEF WalkFits, Fits, NoValue
<1> QED BY <1>1 DEF WalkBelow

(* get: the walk starts.                                                   *)
LEMMA BoundsGetWalk ==
  ASSUME Inv, NEW S, NEW W, StaysBelow(S, W), GetWalk
  PROVE  StaysBelow(S, W)'
<1>1. PICK c : c = Wanted(Top) /\ c \in Ctx /\ MustWalk(c)
  BY WantedType DEF GetWalk
<1>2. state[c] \notin Waiting /\ state[c] # "Running"
  BY <1>1 DEF MustWalk, Waiting
<1>3. /\ \A d \in Ctx : d # c => /\ state'[d] = state[d] /\ heads'[d] = heads[d]
                                 /\ read'[d] = read[d]
      /\ state'[c] = "Running" /\ UNCHANGED <<prog, result, current, walk, fixpoint>>
  BY <1>1 DEF GetWalk, Inv, TypeOK
<1>4. PICK fr : /\ ctl' = Append(ctl, fr) /\ fr.kind = "walk"
                /\ fr.vals = <<>> /\ fr.site = None
                /\ fr.w.deferred = <<>> /\ fr.w.resolved = <<>> /\ fr.w.rets = NoValue
  BY DEF GetWalk
<1>5. PICK n : n = Len(ctl)
  OBVIOUS
<1>6. /\ n \in Nat /\ DOMAIN ctl = 1..n /\ DOMAIN ctl' = 1..(n + 1) /\ ctl'[n + 1] = fr
      /\ \A i \in 1..n : ctl'[i] = ctl[i]
  <2>1. ctl \in Seq(Frame) /\ Len(ctl) \in Nat /\ DOMAIN ctl = 1..Len(ctl)
    BY TopFrame, SeqType
  <2>2. PICK cs, ds : cs \in Seq(Frame) /\ cs = ctl /\ ds = ctl' /\ ds = Append(cs, fr)
    BY <1>4, <2>1
  <2>3. /\ Len(cs) \in Nat /\ DOMAIN cs = 1..Len(cs) /\ DOMAIN ds = 1..(Len(cs) + 1)
        /\ ds[Len(cs) + 1] = fr /\ \A i \in 1..Len(cs) : ds[i] = cs[i]
    BY <2>2
  <2> QED BY <1>5, <2>2, <2>3
<1>7. ASSUME NEW h, SpoiledNow(h) PROVE Spoiled(state', heads', read', fixpoint', ctl', h)
  <2>1. PICK st, hs, rd, fx, cs : /\ st = state /\ hs = heads /\ rd = read /\ fx = fixpoint
                                  /\ cs = ctl
    OBVIOUS
  <2>2. PICK tt, gs, rt, ft, ds : /\ tt = state' /\ gs = heads' /\ rt = read' /\ ft = fixpoint'
                                  /\ ds = ctl'
    OBVIOUS
  <2>3. FixpointCut(fx) /\ fx.head = h => Spoiled(tt, gs, rt, ft, ds, h)
    BY <1>3, <2>1, <2>2 DEF Spoiled
  <2>4. ASSUME NEW i \in DOMAIN cs, cs[i].kind = "resolve", FixpointCut(cs[i].outer),
               cs[i].outer.head = h
        PROVE  Spoiled(tt, gs, rt, ft, ds, h)
    <3>1. i \in DOMAIN ds /\ ds[i] = cs[i]
      BY <1>6, <2>1, <2>2
    <3> QED BY <2>4, <3>1 DEF Spoiled
  <2>5. \A d \in Ctx : st[d] \in Waiting /\ hs[d] = h =>
          tt[d] \in Waiting /\ gs[d] = h /\ (rd[d].cut # None => rt[d].cut # None)
    BY <1>2, <1>3, <2>1, <2>2
  <2>6. Spoiled(st, hs, rd, fx, cs, h)
    BY <1>7, <2>1 DEF SpoiledNow
  <2>7. Spoiled(tt, gs, rt, ft, ds, h)
    BY <2>3, <2>4, <2>5, <2>6, SpoiledStays
  <2> QED BY <2>2, <2>7
<1>8. SlotsBelow(prog, S, W, state', heads', read', walk', current', result', fixpoint', ctl')
  <2> SUFFICES ASSUME NEW d \in Ctx
               PROVE  /\ state'[d] = "Ready" => result'[d].returns \subseteq S[d]
                      /\ state'[d] \in Waiting
                         /\ ~Spoiled(state', heads', read', fixpoint', ctl', heads'[d])
                           => WaiterBelow(prog, S, W, walk', current', d)
    BY DEF SlotsBelow
  <2>1. CASE d = c
    BY <1>3, <2>1 DEF Waiting
  <2>2. CASE d # c
    <3>1. state[d] = "Ready" => result[d].returns \subseteq S[d]
      BY DEF StaysBelow, SlotsBelow
    <3>2. state[d] \in Waiting /\ ~SpoiledNow(heads[d]) => WaiterBelow(prog, S, W, walk, current, d)
      BY DEF StaysBelow, SlotsBelow, SpoiledNow
    <3> QED BY <1>3, <1>7, <2>2, <3>1, <3>2
  <2> QED BY <2>1, <2>2
<1>9. ASSUME NEW i \in 1..(n + 1), ctl'[i].kind = "walk", read'[ctl'[i].ctx].cut = None
      PROVE  WalkBelow(prog, S, W, ctl'[i])
  <2>1. CASE i = n + 1
    BY <1>4, <1>6, <2>1, FreshBelow
  <2>2. CASE i # n + 1
    <3>1. i \in 1..n /\ ctl'[i] = ctl[i] /\ i \in DOMAIN ctl
      BY <1>6, <2>2
    <3>2. ctl[i].ctx # c /\ ctl[i].ctx \in Ctx
      <4>1. ctl[i] \in WalkFrame
        BY <1>9, <3>1, TopFrame, SeqType, FrameType
      <4>2. ctl[i].ctx \in Ctx /\ ctl[i].base \in Nat
        BY <4>1, WalkFrameType
      <4>3. ctl[i].base < Len(stack) /\ stack[ctl[i].base + 1] = ctl[i].ctx
        BY <1>9, <3>1, TopFrame DEF FramesFit
      <4>4. stack \in Seq(Ctx) /\ Len(stack) \in Nat /\ DOMAIN stack = 1..Len(stack)
        BY TopFrame, SeqType
      <4>5. ctl[i].ctx \in Range(stack)
        BY <4>2, <4>3, <4>4 DEF Range
      <4>6. state[ctl[i].ctx] = "Running"
        BY <4>2, <4>5 DEF Inv, StackMatches
      <4> QED BY <1>2, <4>2, <4>6
    <3> QED BY <1>3, <1>9, <3>1, <3>2 DEF StaysBelow, FramesBelow
  <2> QED BY <2>1, <2>2
<1>10. ASSUME NEW i \in 1..(n + 1), ctl'[i].kind = "resolve",
             ~Spoiled(state', heads', read', fixpoint', ctl', ctl'[i].head)
      PROVE  ReplayBelow(prog, S, W, walk', ctl'[i])
  <2>1. i \in 1..n /\ ctl'[i] = ctl[i] /\ i \in DOMAIN ctl
    BY <1>4, <1>6, <1>10
  <2>2. ReplayBelow(prog, S, W, walk, ctl[i])
    BY <1>7, <1>10, <2>1 DEF StaysBelow, FramesBelow, SpoiledNow
  <2> QED BY <1>3, <2>1, <2>2
<1>11. FramesBelow(prog, S, W, state', heads', read', walk', fixpoint', ctl')
  BY <1>6, <1>9, <1>10 DEF FramesBelow
<1> QED BY <1>3, <1>8, <1>11 DEF StaysBelow

-----------------------------------------------------------------------------
(* A walk is parked.                                                       *)

(* The fixpoints that others run under are in progress, further down.      *)
LEMMA OuterHeads ==
  ASSUME Inv, NEW i \in DOMAIN ctl, ctl[i].kind = "resolve", ctl[i].outer # None
  PROVE  /\ state[ctl[i].outer.head] = "Resolving"
         /\ heads[ctl[i].outer.head] = ctl[i].outer.head
         /\ \E j \in 1..(i - 1) : j \in DOMAIN ctl /\ ctl[j].kind = "resolve"
                                  /\ ctl[j].head = ctl[i].outer.head
<1>1. FixpointAt(ctl, i - 1, ctl[i].outer)
  BY TopFrame DEF FramesFit
<1>2. PICK j \in 1..(i - 1) : ctl[j].kind = "resolve" /\ ctl[j].head = ctl[i].outer.head
  BY <1>1, FixpointFrame
<1>3. j \in DOMAIN ctl
  BY TopFrame, SeqType
<1> QED BY <1>2, <1>3, HeadResolves

(* What spoils a group spoils the one it goes to.                          *)
LEMMA SpoiledMoves ==
  ASSUME NEW st, NEW hs, NEW rd, NEW fx, NEW cs, NEW h, Spoiled(st, hs, rd, fx, cs, h),
         NEW tt, NEW gs, NEW rt, NEW ds, NEW k,
         \A c \in Ctx : st[c] \in Waiting /\ hs[c] = h =>
             tt[c] \in Waiting /\ gs[c] = k /\ (rd[c].cut # None => rt[c].cut # None),
         FixpointCut(fx) /\ fx.head = h => k = h,
         \A i \in DOMAIN cs : cs[i].kind = "resolve" /\ FixpointCut(cs[i].outer)
              /\ cs[i].outer.head = h
                => k = h /\ i \in DOMAIN ds /\ ds[i].kind = "resolve" /\ ds[i].outer = cs[i].outer
  PROVE  Spoiled(tt, gs, rt, fx, ds, k)
<1>1. FixpointCut(fx) /\ fx.head = h => Spoiled(tt, gs, rt, fx, ds, k)
  BY DEF Spoiled
<1>2. ASSUME NEW i \in DOMAIN cs, cs[i].kind = "resolve", FixpointCut(cs[i].outer),
             cs[i].outer.head = h
      PROVE  Spoiled(tt, gs, rt, fx, ds, k)
  BY <1>2 DEF Spoiled
<1> QED BY <1>1, <1>2, SpoiledStays
(* What is left when the frame on top has gone: rd and fx are what the     *)
(* reader below it is about to be told from.                               *)
PoppedBelow(S, W, rd, fx) ==
    /\ OpsKept(walk, walk', Below)
    /\ SlotsBelow(prog, S, W, state', heads', rd, walk', current', result', fx, Below)
    /\ \A i \in DOMAIN Below : Below[i].kind = "resolve" /\ SpoiledNow(Below[i].head)
          => Spoiled(state', heads', rd, fx, Below, Below[i].head)

(* park: the walk that is over waits, below the bound unless it or the     *)
(* group it goes to read a cut.                                            *)
LEMMA ParkBelow ==
  ASSUME Inv, CurrentFits, NEW S, NEW W, BoundOf(prog, S, W), StaysBelow(S, W), WalkOver,
         NEW head \in Ctx, Park(Top.ctx, WalkDone, head), result' = result
  PROVE  PoppedBelow(S, W, read, fixpoint)
<1>1. PICK m : /\ m = Top.ctx /\ m \in Ctx /\ state[m] = "Running" /\ heads[m] = m
               /\ Top.kind = "walk" /\ WalkDone \in Walk
  BY WalkOverType DEF WalkOver
<1>2. /\ \A d \in Ctx : d # m => /\ state'[d] = state[d] /\ walk'[d] = walk[d]
                                 /\ current'[d] = current[d]
      /\ state'[m] = "Parked" /\ walk'[m] = WalkDone
      /\ current[m] = None => current'[m] = RoundZero(WalkDone)
  BY <1>1 DEF Park, Inv, TypeOK
<1>3. /\ \A d \in Ctx : heads[d] = m => heads'[d] = heads[head]
      /\ \A d \in Ctx : heads[d] # m => heads'[d] = heads[d]
  BY <1>1, ParkHeads
<1> DEFINE to(h) == IF h = m THEN heads[head] ELSE h
<1>4. ASSUME NEW i \in DOMAIN ctl, ctl[i].kind = "resolve"
      PROVE  /\ i \in DOMAIN Below /\ Below[i] = ctl[i] /\ ctl[i].head # m
             /\ FixpointCut(ctl[i].outer) => ctl[i].outer.head # m
  <2>1. i \in DOMAIN Below /\ Below[i] = ctl[i]
    <3>1. Top.kind # "solve" /\ ctl[Len(ctl)] = Top
      BY <1>1, TopFrame
    <3>2. i # Len(ctl)
      BY <1>1, <1>4, <3>1
    <3> QED BY <3>1, <3>2, BelowFacts
  <2>2. ctl[i].head # m
    BY <1>1, <1>4, HeadResolves
  <2>3. FixpointCut(ctl[i].outer) => ctl[i].outer.head # m
    BY <1>1, <1>4, OuterHeads DEF FixpointCut
  <2> QED BY <2>1, <2>2, <2>3
<1>5. FixpointCut(fixpoint) => fixpoint.head # m
  BY <1>1, FixpointHeads DEF FixpointCut
<1>6. ASSUME NEW h, SpoiledNow(h)
      PROVE  Spoiled(state', heads', read, fixpoint, Below, to(h))
  <2>1. PICK st, hs, rd, fx, cs, ds, tt, gs, k :
           /\ st = state /\ hs = heads /\ rd = read /\ fx = fixpoint /\ cs = ctl
           /\ ds = Below /\ tt = state' /\ gs = heads' /\ k = to(h)
    OBVIOUS
  <2>2. \A d \in Ctx : st[d] \in Waiting /\ hs[d] = h =>
            tt[d] \in Waiting /\ gs[d] = k /\ (rd[d].cut # None => rd[d].cut # None)
    BY <1>1, <1>2, <1>3, <2>1 DEF Waiting
  <2>3. FixpointCut(fx) /\ fx.head = h => k = h
    BY <1>5, <2>1
  <2>4. \A i \in DOMAIN cs : cs[i].kind = "resolve" /\ FixpointCut(cs[i].outer)
              /\ cs[i].outer.head = h
            => k = h /\ i \in DOMAIN ds /\ ds[i].kind = "resolve" /\ ds[i].outer = cs[i].outer
    BY <1>4, <2>1
  <2>5. Spoiled(st, hs, rd, fx, cs, h)
    BY <1>6, <2>1 DEF SpoiledNow
  <2>6. Spoiled(tt, gs, rd, fx, ds, k)
    BY <2>2, <2>3, <2>4, <2>5, SpoiledMoves
  <2> QED BY <2>1, <2>6
<1>7. ASSUME NEW d \in Ctx, d # m,
             state'[d] \in Waiting, ~Spoiled(state', heads', read, fixpoint, Below, heads'[d])
      PROVE  WaiterBelow(prog, S, W, walk', current', d)
  <2>1. state[d] \in Waiting /\ heads'[d] = to(heads[d])
    BY <1>2, <1>3, <1>7
  <2>2. ~SpoiledNow(heads[d])
    BY <1>6, <1>7, <2>1
  <2>3. WaiterBelow(prog, S, W, walk, current, d)
    BY <2>1, <2>2 DEF StaysBelow, SlotsBelow, SpoiledNow
  <2> QED BY <1>2, <1>7, <2>3 DEF WaiterBelow
<1>8. ASSUME ~Spoiled(state', heads', read, fixpoint, Below, heads'[m])
      PROVE  WaiterBelow(prog, S, W, walk', current', m)
  <2>1. read[m].cut = None
    BY <1>1, <1>2, <1>8 DEF Spoiled, Waiting
  <2>2. WalkFits(prog, S, W, m, WalkDone) /\ WalkDone.resolved = <<>>
    BY <1>1, <2>1, WalkDoneFits
  <2>3. current'[m] = RoundZero(WalkDone)
    BY <1>1, <1>2 DEF CurrentFits, Waiting
  <2>4. PICK w, now, wk, cur : /\ w = WalkDone /\ now = NoValues(w)
                               /\ wk = walk' /\ cur = current'
    OBVIOUS
  <2>5. NowFits(Ceiling(S, W, m, w.deferred), now)
    BY <2>4, NoValuesFit
  <2>6. NowFits(Ceiling(S, W, m, w.deferred), wk[m].resolved)
    <3>1. wk[m].resolved = <<>>
      BY <1>2, <2>2, <2>4
    <3> QED BY <3>1 DEF NowFits
  <2>7. cur[m] = FinishRound(w, now) /\ wk[m].deferred = w.deferred /\ wk[m].rets = w.rets
    BY <1>2, <2>3, <2>4 DEF RoundZero
  <2> QED BY <2>2, <2>4, <2>5, <2>6, <2>7, RoundBelow
<1>9. SlotsBelow(prog, S, W, state', heads', read, walk', current', result', fixpoint, Below)
  <2> SUFFICES ASSUME NEW d \in Ctx
               PROVE  /\ state'[d] = "Ready" => result'[d].returns \subseteq S[d]
                      /\ state'[d] \in Waiting
                         /\ ~Spoiled(state', heads', read, fixpoint, Below, heads'[d])
                           => WaiterBelow(prog, S, W, walk', current', d)
    BY DEF SlotsBelow
  <2>1. state'[d] = "Ready" => state[d] = "Ready"
    BY <1>2
  <2>2. state[d] = "Ready" => result[d].returns \subseteq S[d]
    BY DEF StaysBelow, SlotsBelow
  <2> QED BY <1>7, <1>8, <2>1, <2>2
<1>10. ASSUME NEW i \in DOMAIN Below, Below[i].kind = "resolve", SpoiledNow(Below[i].head)
       PROVE  Spoiled(state', heads', read, fixpoint, Below, Below[i].head)
  <2>1. i \in DOMAIN ctl /\ Below[i] = ctl[i]
    BY <1>1, BelowFacts
  <2>2. Below[i].head # m
    BY <1>4, <1>10, <2>1
  <2> QED BY <1>6, <1>10, <2>2
<1>11. OpsKept(walk, walk', Below)
  <2>1. \A d \in Ctx : state[d] = "Resolving" => walk'[d].deferred = walk[d].deferred
    BY <1>1, <1>2
  <2> QED BY <1>1, <2>1, OpsKeptBelow
<1> QED BY <1>9, <1>10, <1>11 DEF PoppedBelow

(* What a reader of a group gets of it is below the bound, unless the      *)
(* group is spoiled.                                                       *)
LEMMA GroupAnswerBelow ==
  ASSUME NEW cs \in Seq(Frame), NEW stk \in Seq(Ctx), NEW fx, FramesFit(cs, stk, fx),
         NEW p, NEW S, NEW W, NEW st, NEW hs, NEW rd, NEW wk, NEW cur, NEW res,
         SlotsBelow(p, S, W, st, hs, rd, wk, cur, res, fx, cs),
         NEW c \in Ctx, st[c] \in Waiting, fx # None => hs[fx.head] = fx.head,
         NEW m, m = ReadGroupMember(c, st, hs, cur, fx, stk), m.got # None,
         cs[Len(cs)].kind = "resolve" => ~Spoiled(st, hs, rd, fx, cs, cs[Len(cs)].head)
  PROVE  m.got \subseteq S[c]
<1>1. ReaderIsFixpoint(fx, stk) /\ hs[fx.head] = hs[c] /\ m.got = cur[c].returns
  BY DEF ReadGroupMember
<1>2. fx # None
  BY <1>1 DEF ReaderIsFixpoint
<1>3. Len(cs) \in DOMAIN cs /\ cs[Len(cs)] \in Frame /\ Len(cs) \in Nat
  BY SeqType DEF FramesFit
<1>4. cs[Len(cs)].kind = "resolve"
  <2>1. cs[Len(cs)].kind # "walk"
    BY <1>1, WalkReads
  <2>2. cs[Len(cs)].kind # "solve"
    <3>1. SUFFICES ASSUME cs[Len(cs)].kind = "solve" PROVE FALSE
      OBVIOUS
    <3>2. Len(cs) = 1
      BY <1>3, <3>1 DEF FramesFit
    <3>3. PICK i \in 1..Len(cs) : cs[i].kind = "resolve"
      BY <1>2, FixpointFrame DEF FramesFit
    <3> QED BY <3>1, <3>2, <3>3
  <2> QED BY <1>3, <2>1, <2>2, FrameType
<1>5. fx.head = cs[Len(cs)].head
  BY <1>4, FixpointReads
<1>6. ~Spoiled(st, hs, rd, fx, cs, hs[c])
  BY <1>1, <1>2, <1>4, <1>5
<1> QED BY <1>1, <1>6 DEF SlotsBelow, WaiterBelow
(* ParkInCycle: the reader gets nothing.                                   *)
LEMMA BoundsParkInCycle ==
  ASSUME Inv, RoundsSuffice, LinksInv, NEW S, NEW W, BoundOf(prog, S, W), StaysBelow(S, W),
         ParkInCycle
  PROVE  StaysBelow(S, W)'
<1>1. PICK r, head : /\ r = read[Top.ctx] /\ head = heads[stack[r.lowest + 1]]
                     /\ WalkOver /\ r.lowest < Len(Under)
                     /\ Park(Top.ctx, WalkDone, head)
                     /\ result' = result /\ prog' = prog
  BY DEF ParkInCycle
<1>2. PICK n : n = [r EXCEPT !.cut = None] /\ Return(Below, read, fixpoint, Under, n, None)
  BY <1>1 DEF ParkInCycle
<1>3. Top.ctx \in Ctx /\ r \in Note /\ Top.kind # "solve"
  BY <1>1, WalkOverType, TopFrame DEF WalkOver
<1>4. n \in Note /\ r.lowest \in Nat
  BY <1>2, <1>3 DEF Note
<1>5. head \in Ctx
  <2>1. r.lowest + 1 \in 1..Len(stack)
    BY <1>1, <1>4, WalkOverType, TopFrame
  <2>2. stack[r.lowest + 1] \in Ctx
    BY <2>1, TopFrame, SeqType
  <2> QED BY <1>1, <2>2 DEF Inv, TypeOK
<1>6. PoppedBelow(S, W, read, fixpoint)
  BY <1>1, <1>5, ParkBelow DEF LinksInv
<1>7. /\ Under \in Seq(Ctx) /\ FramesFit(Below, Under, fixpoint)
      /\ fixpoint \in Fixpoint \cup {None} /\ read \in [Ctx -> Note] /\ Grown(read, read)
  <2>1. Grown(read, read)
    BY TopFrame DEF Grown, Note
  <2> QED BY <1>1, <2>1, WalkOverType, WalkOverBelow, TopFrame
<1>8. /\ OpsKept(walk, walk', Below)
      /\ SlotsBelow(prog, S, W, state', heads', read, walk', current', result', fixpoint, Below)
      /\ \A i \in DOMAIN Below : Below[i].kind = "resolve" /\ SpoiledNow(Below[i].head)
            => Spoiled(state', heads', read, fixpoint, Below, Below[i].head)
  BY <1>6 DEF PoppedBelow
<1> QED BY <1>1, <1>2, <1>3, <1>4, <1>7, <1>8, BoundsAfterPop DEF LinksInv

(* ParkInGroup: a fixpoint gets what a replay of the walk has so far.      *)
LEMMA BoundsParkInGroup ==
  ASSUME Inv, RoundsSuffice, LinksInv, NEW S, NEW W, BoundOf(prog, S, W), StaysBelow(S, W),
         ParkInGroup
  PROVE  StaysBelow(S, W)'
<1>1. PICK c, r, m : /\ c = Top.ctx /\ r = read[c]
                     /\ m = ReadGroupMember(c, state', heads', current', fixpoint, Under)
                     /\ WalkOver /\ r.joins # None /\ Park(c, WalkDone, r.joins)
                     /\ Return(Below, read, fixpoint, Under, m.note, m.got)
                     /\ result' = result /\ prog' = prog
  BY DEF ParkInGroup
<1>2. /\ c \in Ctx /\ r \in Note /\ Top.kind = "walk" /\ Len(Under) \in Nat
      /\ state[c] = "Running" /\ heads[c] = c
  BY <1>1, WalkOverType, TopFrame DEF WalkOver
<1>3. r.joins \in Ctx
  BY <1>1, <1>2 DEF Note
<1>4. PoppedBelow(S, W, read, fixpoint)
  BY <1>1, <1>3, ParkBelow DEF LinksInv
<1>5. /\ Under \in Seq(Ctx) /\ FramesFit(Below, Under, fixpoint) /\ Below \in Seq(Frame)
      /\ fixpoint \in Fixpoint \cup {None} /\ read \in [Ctx -> Note] /\ Grown(read, read)
  <2>1. Grown(read, read)
    BY TopFrame DEF Grown, Note
  <2> QED BY <1>1, <2>1, WalkOverType, WalkOverBelow, TopFrame
<1>6. /\ OpsKept(walk, walk', Below)
      /\ SlotsBelow(prog, S, W, state', heads', read, walk', current', result', fixpoint, Below)
      /\ \A i \in DOMAIN Below : Below[i].kind = "resolve" /\ SpoiledNow(Below[i].head)
            => Spoiled(state', heads', read, fixpoint, Below, Below[i].head)
  BY <1>4 DEF PoppedBelow
<1>7. m.note \in Note /\ m.got \in (SUBSET V) \cup {None}
  <2>1. /\ heads' \in [Ctx -> Ctx] /\ current'[c] \in FunctionResult
        /\ \A d \in Ctx : state'[d] = "Running" <=> state[d] = "Running" /\ d # c
    BY <1>1, <1>3, ParkType
  <2>2. heads'[c] \in Ctx
    BY <1>2, <2>1
  <2>3. state'[heads'[c]] = "Running" =>
           depth[heads'[c]] \in Nat /\ depth[heads'[c]] < Len(Under)
    BY <1>1, <2>1, <2>2, WalkOverType
  <2>4. PICK st, hs, cur : st = state' /\ hs = heads' /\ cur = current'
    OBVIOUS
  <2>5. /\ NoteAt(ReadGroupMember(c, st, hs, cur, fixpoint, Under).note, Len(Under))
        /\ ReadGroupMember(c, st, hs, cur, fixpoint, Under).got \in (SUBSET V) \cup {None}
    BY <1>2, <2>1, <2>3, <2>4, GroupReadType
  <2> QED BY <1>1, <2>4, <2>5 DEF NoteAt
<1>8. fixpoint # None => heads'[fixpoint.head] = fixpoint.head
  BY <1>1, <1>2, <1>3, FixpointHeads, ParkHeads
<1>9. ASSUME m.got # None, Below[Len(Below)].kind = "resolve" =>
               ~Spoiled(state', heads', read, fixpoint, Below, Below[Len(Below)].head)
      PROVE  m.got \subseteq S[Owner(Top)]
  <2>1. PICK p, st, hs, wk, cur, res, cs :
          /\ p = prog /\ st = state' /\ hs = heads' /\ wk = walk' /\ cur = current'
          /\ res = result' /\ cs = Below
    OBVIOUS
  <2>2. /\ SlotsBelow(p, S, W, st, hs, read, wk, cur, res, fixpoint, cs)
        /\ cs \in Seq(Frame) /\ FramesFit(cs, Under, fixpoint)
    BY <1>5, <1>6, <2>1
  <2>3. st[c] \in Waiting
    BY <1>1, <1>2, <1>3, <2>1, ParkHeads DEF Waiting
  <2>4. fixpoint # None => hs[fixpoint.head] = fixpoint.head
    BY <1>8, <2>1
  <2>5. m = ReadGroupMember(c, st, hs, cur, fixpoint, Under)
    BY <1>1, <2>1
  <2>6. cs[Len(cs)].kind = "resolve" => ~Spoiled(st, hs, read, fixpoint, cs, cs[Len(cs)].head)
    BY <1>9, <2>1
  <2>7. m.got \subseteq S[c]
    BY <1>2, <1>5, <1>9, <2>2, <2>3, <2>4, <2>5, <2>6, GroupAnswerBelow
  <2> QED BY <1>1, <1>2, <2>7 DEF Owner
<1>10. Top.kind # "solve" /\ LinksInv
  BY <1>2
<1> QED BY <1>1, <1>5, <1>6, <1>7, <1>9, <1>10, BoundsAfterPop DEF LinksInv

(* FinishAlone: the summary is below the bound, or it is marked cut.       *)
LEMMA BoundsFinishAlone ==
  ASSUME Inv, RoundsSuffice, LinksInv, NEW S, NEW W, BoundOf(prog, S, W), StaysBelow(S, W),
         FinishAlone
  PROVE  StaysBelow(S, W)'
<1>1. PICK m, r, res : /\ m = Top.ctx /\ r = read[m] /\ WalkOver
                       /\ res = [RoundZero(WalkDone) EXCEPT !.cut = r.cut]
                       /\ state' = [state EXCEPT ![m] = IF r.cut = None THEN "Ready" ELSE "Cut"]
                       /\ result' = [result EXCEPT ![m] = res]
                       /\ Return(Below, read, fixpoint, Under, IsCut(r.cut), res.returns)
                       /\ UNCHANGED <<prog, current, walk, heads>>
  BY DEF FinishAlone
<1>2. /\ m \in Ctx /\ r \in Note /\ Top.kind = "walk" /\ WalkDone \in Walk
      /\ state[m] = "Running"
  BY <1>1, WalkOverType, TopFrame DEF WalkOver
<1>3. r.cut \in Cut \cup {None} /\ IsCut(r.cut) \in Note /\ IsCut(r.cut).cut = r.cut
  BY <1>2, IsCutType DEF Note, IsCut, Nothing
<1>4. /\ state'[m] = IF r.cut = None THEN "Ready" ELSE "Cut"
      /\ result'[m] = res
      /\ \A d \in Ctx : d # m => state'[d] = state[d] /\ result'[d] = result[d]
  BY <1>1, <1>2 DEF Inv, TypeOK
<1>5. res.returns = Substitute(WalkDone.rets, NoValues(WalkDone))
  BY <1>1 DEF RoundZero, FinishRound
<1>6. res.returns \in (SUBSET V) \cup {None}
  BY <1>2, <1>5, WalkFields, NoValuesType, SubstituteType
<1>7. ASSUME r.cut = None PROVE res.returns \subseteq S[m]
  <2>1. PICK w, now : w = WalkDone /\ now = NoValues(w)
    OBVIOUS
  <2>2. Fits(Ceiling(S, W, m, w.deferred), w.rets, S[m])
    BY <1>1, <1>7, <2>1, WalkDoneFits DEF WalkFits
  <2>3. NowFits(Ceiling(S, W, m, w.deferred), now)
    BY <2>1, NoValuesFit
  <2>4. Substitute(w.rets, now) \subseteq S[m]
    BY <2>2, <2>3, SubstituteFits
  <2> QED BY <1>5, <2>1, <2>4
<1>8. ASSUME NEW h, SpoiledNow(h)
      PROVE  Spoiled(state', heads', read, fixpoint, Below, h)
  <2>1. PICK st, hs, rd, fx, cs, ds, tt, gs :
           /\ st = state /\ hs = heads /\ rd = read /\ fx = fixpoint /\ cs = ctl
           /\ ds = Below /\ tt = state' /\ gs = heads'
    OBVIOUS
  <2>2. \A d \in Ctx : st[d] \in Waiting /\ hs[d] = h =>
            tt[d] \in Waiting /\ gs[d] = h /\ (rd[d].cut # None => rd[d].cut # None)
    BY <1>1, <1>2, <1>4, <2>1 DEF Waiting
  <2>3. \A i \in DOMAIN cs : cs[i].kind = "resolve" /\ FixpointCut(cs[i].outer)
              /\ cs[i].outer.head = h
            => h = h /\ i \in DOMAIN ds /\ ds[i].kind = "resolve" /\ ds[i].outer = cs[i].outer
    <3> SUFFICES ASSUME NEW i \in DOMAIN cs, cs[i].kind = "resolve"
                 PROVE  i \in DOMAIN ds /\ ds[i] = cs[i]
      OBVIOUS
    <3>1. i # Len(ctl) /\ i \in DOMAIN ctl
      BY <1>2, <2>1, TopFrame
    <3> QED BY <1>2, <2>1, <3>1, BelowFacts
  <2>4. Spoiled(st, hs, rd, fx, cs, h)
    BY <1>8, <2>1 DEF SpoiledNow
  <2>5. Spoiled(tt, gs, rd, fx, ds, h)
    BY <2>2, <2>3, <2>4, SpoiledMoves
  <2> QED BY <2>1, <2>5
<1>9. SlotsBelow(prog, S, W, state', heads', read, walk', current', result', fixpoint, Below)
  <2> SUFFICES ASSUME NEW d \in Ctx
               PROVE  /\ state'[d] = "Ready" => result'[d].returns \subseteq S[d]
                      /\ state'[d] \in Waiting
                         /\ ~Spoiled(state', heads', read, fixpoint, Below, heads'[d])
                           => WaiterBelow(prog, S, W, walk', current', d)
    BY DEF SlotsBelow
  <2>1. state[d] = "Ready" => result[d].returns \subseteq S[d]
    BY DEF StaysBelow, SlotsBelow
  <2>2. state[d] \in Waiting /\ ~SpoiledNow(heads[d]) => WaiterBelow(prog, S, W, walk, current, d)
    BY DEF StaysBelow, SlotsBelow, SpoiledNow
  <2>3. CASE d = m
    BY <1>4, <1>7, <2>3 DEF Waiting
  <2>4. CASE d # m
    BY <1>1, <1>4, <1>8, <2>1, <2>2, <2>4
  <2> QED BY <2>3, <2>4
<1>10. /\ Under \in Seq(Ctx) /\ FramesFit(Below, Under, fixpoint)
       /\ fixpoint \in Fixpoint \cup {None} /\ read \in [Ctx -> Note] /\ Grown(read, read)
  <2>1. Grown(read, read)
    BY TopFrame DEF Grown, Note
  <2> QED BY <1>1, <2>1, WalkOverType, WalkOverBelow, TopFrame
<1>11. OpsKept(walk, walk', Below)
  BY <1>1 DEF OpsKept, OpsOf
<1>12. IsCut(r.cut).cut = None => res.returns \subseteq S[Owner(Top)]
  BY <1>1, <1>2, <1>3, <1>7 DEF Owner
<1>13. \A i \in DOMAIN Below : Below[i].kind = "resolve" /\ SpoiledNow(Below[i].head)
            => Spoiled(state', heads', read, fixpoint, Below, Below[i].head)
  BY <1>8
<1> QED BY <1>1, <1>2, <1>3, <1>6, <1>9, <1>10, <1>11, <1>12, <1>13, BoundsAfterPop DEF LinksInv
-----------------------------------------------------------------------------
(* A fixpoint stops.                                                       *)

(* No fixpoint further down is over the same group.                        *)
LEMMA HeadsApart ==
  ASSUME Inv, Top.kind = "resolve", NEW i \in DOMAIN ctl, ctl[i].kind = "resolve"
  PROVE  /\ i # Len(ctl) => ctl[i].head # Top.head
         /\ FixpointCut(ctl[i].outer) => ctl[i].outer.head # Top.head
<1>1. Len(ctl) \in DOMAIN ctl /\ ctl[Len(ctl)] = Top /\ DOMAIN ctl = 1..Len(ctl) /\ Len(ctl) \in Nat
  BY TopFrame, SeqType
<1>2. \A j \in DOMAIN ctl : ctl[j].kind = "resolve" /\ j # Len(ctl) => ctl[j].head # Top.head
  BY <1>1 DEF Inv, GroupsFit
<1>3. ASSUME FixpointCut(ctl[i].outer) PROVE ctl[i].outer.head # Top.head
  <2>1. PICK j \in 1..(i - 1) : j \in DOMAIN ctl /\ ctl[j].kind = "resolve"
                                /\ ctl[j].head = ctl[i].outer.head
    BY <1>3, OuterHeads DEF FixpointCut
  <2>2. j # Len(ctl)
    BY <1>1, <2>1
  <2> QED BY <1>2, <2>1, <2>2
<1> QED BY <1>2, <1>3

(* What spoils a group still does when the fixpoint on top has gone, if    *)
(* what that fixpoint itself read is handed on.                            *)
LEMMA SpoiledUnderneath ==
  ASSUME Inv, Top.kind = "resolve", NEW h, SpoiledNow(h),
         NEW tt, NEW gs, NEW rt, NEW k, h # Top.head => k = h,
         \A c \in Ctx : state[c] \in Waiting /\ heads[c] = h =>
             tt[c] \in Waiting /\ gs[c] = k /\ (read[c].cut # None => rt[c].cut # None),
         h = Top.head /\ FixpointCut(fixpoint) => Spoiled(tt, gs, rt, Top.outer, Below, k)
  PROVE  Spoiled(tt, gs, rt, Top.outer, Below, k)
<1>1. PICK st, hs, rd, fx, cs, ft, ds :
         /\ st = state /\ hs = heads /\ rd = read /\ fx = fixpoint /\ cs = ctl
         /\ ft = Top.outer /\ ds = Below
  OBVIOUS
<1>2. \A c \in Ctx : st[c] \in Waiting /\ hs[c] = h =>
        /\ tt[c] \in Waiting /\ gs[c] = k
        /\ rd[c].cut # None => rt[c].cut # None
  BY <1>1
<1>3. FixpointCut(fx) /\ fx.head = h => Spoiled(tt, gs, rt, ft, ds, k)
  BY <1>1, ResolveOnTop
<1>4. ASSUME NEW i \in DOMAIN cs, cs[i].kind = "resolve", FixpointCut(cs[i].outer),
             cs[i].outer.head = h
      PROVE  Spoiled(tt, gs, rt, ft, ds, k)
  <2>1. k = h
    BY <1>1, <1>4, HeadsApart
  <2>2. CASE i = Len(ctl)
    <3>1. cs[i].outer = ft
      BY <1>1, <2>2, TopFrame
    <3> QED BY <1>4, <2>1, <3>1 DEF Spoiled
  <2>3. CASE i # Len(ctl)
    <3>1. i \in DOMAIN ds /\ ds[i] = cs[i]
      BY <1>1, <2>3, BelowFacts
    <3> QED BY <1>4, <2>1, <3>1 DEF Spoiled
  <2> QED BY <2>2, <2>3
<1>5. Spoiled(st, hs, rd, fx, cs, h)
  BY <1>1 DEF SpoiledNow
<1>6. Spoiled(tt, gs, rt, ft, ds, k)
  BY <1>2, <1>3, <1>4, <1>5, SpoiledStays
<1> QED BY <1>1, <1>6

(* park_all: the members wait again, below the bound unless the fixpoint,  *)
(* a member or the group they go to read a cut.                            *)
LEMMA ParkAllBelow ==
  ASSUME Inv, NEW S, NEW W, StaysBelow(S, W), MemberOver,
         NEW head \in Ctx, ParkAll(head), KeepsResolved, current' = current, result' = result,
         NEW rd, rd = KeepCut(read, Range(Top.members), fixpoint.read.cut)
  PROVE  PoppedBelow(S, W, rd, Top.outer)
<1>1. /\ Replays(Top) /\ Top.kind = "resolve" /\ Top \in ResolveFrame
      /\ Top.at \in Nat \ {0} /\ Top.members \in Seq(Ctx)
  BY KeptWalk, ResolveFrameType DEF MemberOver, Replays
<1>2. PICK m : /\ m = Member(Top) /\ m \in Ctx /\ state[m] = "Resolving" /\ heads[m] = Top.head
               /\ walk[m] \in Walk
  BY <1>1, Replaying
<1>3. /\ \A c \in Ctx : c # m => walk'[c] = walk[c]
      /\ walk'[m] = [walk[m] EXCEPT !.resolved = Top.now]
  BY <1>2 DEF KeepsResolved, Inv, TypeOK
<1>4. /\ walk'[m].deferred = walk[m].deferred /\ walk'[m].rets = walk[m].rets
      /\ walk'[m].resolved = Top.now
  BY <1>2, <1>3 DEF Walk
<1>5. /\ \A c \in Ctx : heads[c] = Top.head => heads'[c] = heads[head]
      /\ \A c \in Ctx : heads[c] # Top.head => heads'[c] = heads[c]
      /\ \A c \in Ctx : state'[c] \in Waiting => state[c] \in Waiting
  BY <1>1, ParkAllHeads
<1>6. /\ rd \in [Ctx -> Note] /\ Grown(read, rd)
      /\ \A c \in Ctx : state[c] \in Waiting => state'[c] \in Waiting
      /\ FixpointCut(fixpoint) => rd[Top.head].cut # None /\ state'[Top.head] \in Waiting
  BY <1>1, StoppedReads
<1>7. Top.head \in Ctx /\ heads[Top.head] = Top.head
  BY <1>1, ResolveOnTop
<1> DEFINE to(h) == IF h = Top.head THEN heads[head] ELSE h
<1>8. ASSUME NEW h, SpoiledNow(h)
      PROVE  Spoiled(state', heads', rd, Top.outer, Below, to(h))
  <2>1. PICK tt, gs, k : tt = state' /\ gs = heads' /\ k = to(h)
    OBVIOUS
  <2>2. \A c \in Ctx : state[c] \in Waiting /\ heads[c] = h =>
            tt[c] \in Waiting /\ gs[c] = k /\ (read[c].cut # None => rd[c].cut # None)
    BY <1>5, <1>6, <2>1 DEF Grown
  <2>3. ASSUME h = Top.head, FixpointCut(fixpoint)
        PROVE  Spoiled(tt, gs, rd, Top.outer, Below, k)
    <3>1. /\ Top.head \in Ctx /\ tt[Top.head] \in Waiting /\ gs[Top.head] = k
          /\ rd[Top.head].cut # None
      BY <1>5, <1>6, <1>7, <2>1, <2>3
    <3> QED BY <3>1 DEF Spoiled
  <2>4. h # Top.head => k = h
    BY <2>1
  <2>5. Spoiled(tt, gs, rd, Top.outer, Below, k)
    BY <1>1, <1>8, <2>2, <2>3, <2>4, SpoiledUnderneath
  <2> QED BY <2>1, <2>5
<1>9. ASSUME NEW d \in Ctx, state'[d] \in Waiting,
             ~Spoiled(state', heads', rd, Top.outer, Below, heads'[d])
      PROVE  WaiterBelow(prog, S, W, walk', current', d)
  <2>1. state[d] \in Waiting /\ heads'[d] = to(heads[d])
    BY <1>5, <1>9
  <2>2. ~SpoiledNow(heads[d])
    BY <1>8, <1>9, <2>1
  <2>3. WaiterBelow(prog, S, W, walk, current, d)
    BY <2>1, <2>2 DEF StaysBelow, SlotsBelow, SpoiledNow
  <2>4. CASE d # m
    BY <1>3, <2>3, <2>4 DEF WaiterBelow
  <2>5. CASE d = m
    <3>1. ReplayBelow(prog, S, W, walk, Top)
      BY <1>1, <1>2, <2>2, <2>5, MemberBelow
    <3>2. NowFits(Ceiling(S, W, d, walk[d].deferred), Top.now)
      BY <1>1, <1>2, <2>5, <3>1 DEF ReplayBelow, Replays, Member
    <3>3. NowFits(Ceiling(S, W, d, walk'[d].deferred), walk'[d].resolved)
      BY <1>4, <2>5, <3>2
    <3>4. WalkFits(prog, S, W, d, walk'[d])
      BY <1>4, <2>3, <2>5, WaiterKept
    <3> QED BY <2>3, <3>3, <3>4 DEF WaiterBelow
  <2> QED BY <2>4, <2>5
<1>10. SlotsBelow(prog, S, W, state', heads', rd, walk', current', result', Top.outer, Below)
  <2> SUFFICES ASSUME NEW d \in Ctx
               PROVE  /\ state'[d] = "Ready" => result'[d].returns \subseteq S[d]
                      /\ state'[d] \in Waiting
                         /\ ~Spoiled(state', heads', rd, Top.outer, Below, heads'[d])
                           => WaiterBelow(prog, S, W, walk', current', d)
    BY DEF SlotsBelow
  <2>1. state'[d] = "Ready" => state[d] = "Ready"
    BY DEF ParkAll
  <2>2. state[d] = "Ready" => result[d].returns \subseteq S[d]
    BY DEF StaysBelow, SlotsBelow
  <2> QED BY <1>9, <2>1, <2>2
<1>11. ASSUME NEW i \in DOMAIN Below, Below[i].kind = "resolve", SpoiledNow(Below[i].head)
       PROVE  Spoiled(state', heads', rd, Top.outer, Below, Below[i].head)
  <2>1. Below[i].head # Top.head
    BY <1>1, <1>11, ResolveBelow
  <2> QED BY <1>8, <1>11, <2>1
<1>12. OpsKept(walk, walk', Below)
  <2>1. \A c \in Ctx : walk'[c].deferred = walk[c].deferred
    BY <1>3, <1>4
  <2> QED BY <1>1, <2>1, OpsKeptBelow
<1> QED BY <1>10, <1>11, <1>12 DEF PoppedBelow

(* Merged: the reader gets nothing.                                        *)
LEMMA BoundsMerged ==
  ASSUME Inv, RoundsSuffice, LinksInv, NEW S, NEW W, BoundOf(prog, S, W), StaysBelow(S, W),
         Merged
  PROVE  StaysBelow(S, W)'
<1>1. PICK r, head, rd, n :
         /\ r = fixpoint.read /\ head = stack[r.lowest + 1] /\ n = DependsOn(r.lowest)
         /\ rd = KeepCut(read, Range(Top.members), r.cut)
         /\ MemberOver /\ r.lowest # NoDepth /\ KeepsResolved /\ ParkAll(head)
         /\ Return(Below, rd, Top.outer, stack, n, None)
         /\ UNCHANGED <<prog, result, current>>
  BY DEF Merged
<1>2. Top.kind = "resolve"
  BY <1>1 DEF MemberOver, Replays
<1>3. r.lowest \in Nat /\ r.lowest < Len(stack)
  BY <1>1, <1>2, ResolveOnTop DEF NoteAt, Note
<1>4. n \in Note
  BY <1>1, <1>3, DependsOnType
<1>5. head \in Ctx
  <2>1. r.lowest + 1 \in 1..Len(stack)
    BY <1>3, TopFrame
  <2> QED BY <1>1, <2>1, TopFrame, SeqType
<1>6. PoppedBelow(S, W, rd, Top.outer)
  BY <1>1, <1>5, ParkAllBelow
<1>7. /\ OpsKept(walk, walk', Below)
      /\ SlotsBelow(prog, S, W, state', heads', rd, walk', current', result', Top.outer, Below)
      /\ \A i \in DOMAIN Below : Below[i].kind = "resolve" /\ SpoiledNow(Below[i].head)
            => Spoiled(state', heads', rd, Top.outer, Below, Below[i].head)
  BY <1>6 DEF PoppedBelow
<1>8. /\ stack \in Seq(Ctx) /\ FramesFit(Below, stack, Top.outer)
      /\ Top.outer \in Fixpoint \cup {None}
  BY <1>2, ResolveBelow, TopFrame
<1>9. rd \in [Ctx -> Note] /\ Grown(read, rd)
  BY <1>1, <1>2, StoppedReads
<1> QED BY <1>1, <1>2, <1>4, <1>7, <1>8, <1>9, BoundsAfterPop DEF LinksInv

(* Joined: an outer fixpoint gets what the head of the group has so far.   *)
LEMMA BoundsJoined ==
  ASSUME Inv, RoundsSuffice, LinksInv, NEW S, NEW W, BoundOf(prog, S, W), StaysBelow(S, W),
         Joined
  PROVE  StaysBelow(S, W)'
<1>1. PICK c, r, rd, m, fx :
         /\ c = Top.head /\ r = fixpoint.read /\ fx = Top.outer
         /\ m = ReadGroupMember(c, state', heads', current', fx, stack)
         /\ rd = KeepCut(read, Range(Top.members), r.cut)
         /\ MemberOver /\ r.joins # None /\ KeepsResolved /\ ParkAll(r.joins)
         /\ Return(Below, rd, fx, stack, m.note, m.got)
         /\ UNCHANGED <<prog, result, current>>
  BY DEF Joined
<1>2. Top.kind = "resolve"
  BY <1>1 DEF MemberOver, Replays
<1>3. r.joins \in Ctx /\ c \in Ctx /\ heads[c] = c /\ c \in Range(Top.members)
      /\ current[c] \in FunctionResult /\ Len(stack) \in Nat
  BY <1>1, <1>2, ResolveOnTop, TopFrame DEF NoteAt, Note
<1>4. PoppedBelow(S, W, rd, fx)
  BY <1>1, <1>3, ParkAllBelow
<1>5. /\ OpsKept(walk, walk', Below)
      /\ SlotsBelow(prog, S, W, state', heads', rd, walk', current', result', fx, Below)
      /\ \A i \in DOMAIN Below : Below[i].kind = "resolve" /\ SpoiledNow(Below[i].head)
            => Spoiled(state', heads', rd, fx, Below, Below[i].head)
  BY <1>4 DEF PoppedBelow
<1>6. /\ stack \in Seq(Ctx) /\ FramesFit(Below, stack, fx) /\ Below \in Seq(Frame)
      /\ fx \in Fixpoint \cup {None}
  BY <1>1, <1>2, ResolveBelow, TopFrame
<1>7. rd \in [Ctx -> Note] /\ Grown(read, rd)
  BY <1>1, <1>2, StoppedReads
<1>8. m.note \in Note /\ m.got \in (SUBSET V) \cup {None}
  <2>1. /\ heads' \in [Ctx -> Ctx]
        /\ \A d \in Ctx : state'[d] = "Running" <=> state[d] = "Running"
    BY <1>1, <1>3, ParkAllType
  <2>2. heads'[c] \in Ctx
    BY <1>3, <2>1
  <2>3. state'[heads'[c]] = "Running" =>
           depth[heads'[c]] \in Nat /\ depth[heads'[c]] < Len(stack)
    BY <2>1, <2>2, RunningDepth
  <2>4. PICK st, hs, cur : st = state' /\ hs = heads' /\ cur = current'
    OBVIOUS
  <2>5. /\ NoteAt(ReadGroupMember(c, st, hs, cur, fx, stack).note, Len(stack))
        /\ ReadGroupMember(c, st, hs, cur, fx, stack).got \in (SUBSET V) \cup {None}
    BY <1>1, <1>3, <2>1, <2>3, <2>4, GroupReadType
  <2> QED BY <1>1, <2>4, <2>5 DEF NoteAt
<1>9. fx # None => heads'[fx.head] = fx.head
  <2> SUFFICES ASSUME fx # None PROVE heads'[fx.head] = fx.head
    OBVIOUS
  <2>1. PICK i : i = Len(ctl) /\ i \in DOMAIN ctl /\ ctl[i] = Top
    BY TopFrame
  <2>2. /\ heads[fx.head] = fx.head
        /\ \E j \in 1..(i - 1) : j \in DOMAIN ctl /\ ctl[j].kind = "resolve"
                                 /\ ctl[j].head = fx.head
    BY <1>1, <1>2, <2>1, OuterHeads
  <2>3. PICK j \in 1..(i - 1) : j \in DOMAIN ctl /\ ctl[j].kind = "resolve"
                                /\ ctl[j].head = fx.head
    BY <2>2
  <2>4. fx.head # Top.head
    <3>1. j # Len(ctl)
      BY <2>1, <2>3, TopFrame
    <3> QED BY <1>2, <2>3, <3>1, HeadsApart
  <2>5. fx.head \in Ctx
    BY <1>6 DEF Fixpoint
  <2> QED BY <1>1, <1>2, <1>3, <2>2, <2>4, <2>5, ParkAllHeads
<1>10. ASSUME m.got # None, Below[Len(Below)].kind = "resolve" =>
                ~Spoiled(state', heads', rd, fx, Below, Below[Len(Below)].head)
       PROVE  m.got \subseteq S[Owner(Top)]
  <2>1. PICK p, st, hs, wk, cur, res, cs :
          /\ p = prog /\ st = state' /\ hs = heads' /\ wk = walk' /\ cur = current'
          /\ res = result' /\ cs = Below
    OBVIOUS
  <2>2. /\ SlotsBelow(p, S, W, st, hs, rd, wk, cur, res, fx, cs)
        /\ cs \in Seq(Frame) /\ FramesFit(cs, stack, fx) /\ stack \in Seq(Ctx)
    BY <1>5, <1>6, <2>1
  <2>3. st[c] \in Waiting
    BY <1>1, <1>3, <2>1 DEF Waiting, ParkAll
  <2>4. fx # None => hs[fx.head] = fx.head
    BY <1>9, <2>1
  <2>5. m = ReadGroupMember(c, st, hs, cur, fx, stack)
    BY <1>1, <2>1
  <2>6. cs[Len(cs)].kind = "resolve" => ~Spoiled(st, hs, rd, fx, cs, cs[Len(cs)].head)
    BY <1>10, <2>1
  <2>7. m.got \subseteq S[c]
    BY <1>3, <1>10, <2>2, <2>3, <2>4, <2>5, <2>6, GroupAnswerBelow
  <2> QED BY <1>1, <1>2, <2>7 DEF Owner
<1> QED BY <1>1, <1>2, <1>5, <1>6, <1>7, <1>8, <1>10, BoundsAfterPop DEF LinksInv
-----------------------------------------------------------------------------
(* A group settles.                                                        *)

(* Everything that waits under the head is final; nothing else changes.    *)
LEMMA SettleLeaves ==
  ASSUME Inv, WaitersInv, Settle,
         NEW ms, ms = Range(Top.members) \cup Range(Joiners)
  PROVE  /\ \A c \in Ctx : c \in ms <=> state[c] \in Waiting /\ heads[c] = Top.head
         /\ \A c \in Ctx : c \notin ms => /\ walk'[c] = walk[c] /\ current'[c] = current[c]
                                          /\ result'[c] = result[c]
         /\ \A c \in Ctx : c \in ms => current'[c] = None
         /\ \A c \in Ctx : c \in ms =>
               result'[c].returns \in {current[c].returns, RoundZero(walk[c]).returns}
<1> DEFINE seq == Top.members \o Joiners
           cut == IF fixpoint.read.cut # None THEN fixpoint.read.cut ELSE FirstCut(seq)
           last(c) == IF c \in Range(Joiners) THEN RoundZero(walk[c]) ELSE current[c]
           res(c) == [last(c) EXCEPT !.capped = Capped(Top), !.cut = cut]
<1>1. /\ RoundOver /\ Top.kind = "resolve"
      /\ result' = [c \in Ctx |-> IF c \in Range(seq) THEN res(c) ELSE result[c]]
      /\ current' = [c \in Ctx |-> IF c \in Range(seq) THEN None ELSE current[c]]
      /\ walk' = [c \in Ctx |-> IF c \in Range(seq) THEN None ELSE walk[c]]
  BY DEF Settle, RoundOver
<1>2. /\ Top.members \in Seq(Ctx) /\ Joiners \in Seq(Ctx)
      /\ \A c \in Range(Top.members) : /\ state[c] = "Resolving" /\ heads[c] = Top.head
                                       /\ current[c] \in FunctionResult
      /\ \A c \in Range(Joiners) : /\ state[c] = "Parked" /\ heads[c] = Top.head
                                   /\ walk[c] \in Walk
  BY <1>1, ResolveOnTop, JoinersType
<1>3. Range(seq) = ms
  BY <1>2, RangeOfConcat
<1> HIDE DEF seq
<1>4. \A c \in Ctx : c \in ms <=> state[c] \in Waiting /\ heads[c] = Top.head
  BY <1>1, <1>2, RoundOverFacts DEF Waiting
<1>5. ASSUME NEW c \in Ctx, c \in ms
      PROVE  result'[c].returns \in {current[c].returns, RoundZero(walk[c]).returns}
  <2>1. last(c) \in FunctionResult
    BY <1>2, <1>5, RoundZeroType
  <2>2. last(c) \in {current[c], RoundZero(walk[c])}
    OBVIOUS
  <2> HIDE DEF last, cut
  <2>3. res(c).returns = last(c).returns
    BY <2>1 DEF FunctionResult
  <2> HIDE DEF res
  <2>4. result'[c] = res(c)
    BY <1>1, <1>3, <1>5
  <2> QED BY <2>2, <2>3, <2>4
<1> HIDE DEF res, cut
<1>6. \A c \in Ctx : c \notin ms => /\ walk'[c] = walk[c] /\ current'[c] = current[c]
                                    /\ result'[c] = result[c]
  BY <1>1, <1>3
<1>7. \A c \in Ctx : c \in ms => current'[c] = None
  BY <1>1, <1>3
<1> QED BY <1>4, <1>5, <1>6, <1>7

(* A group that is not marked cut is not spoiled.                          *)
LEMMA SettlesClean ==
  ASSUME Inv, Top.kind = "resolve", ~FixpointCut(fixpoint),
         \A c \in Ctx : state[c] \in Waiting /\ heads[c] = Top.head => read[c].cut = None
  PROVE  ~SpoiledNow(Top.head)
<1> SUFFICES ASSUME SpoiledNow(Top.head) PROVE FALSE
  OBVIOUS
<1>1. PICK i \in DOMAIN ctl : /\ ctl[i].kind = "resolve" /\ FixpointCut(ctl[i].outer)
                              /\ ctl[i].outer.head = Top.head
  BY DEF SpoiledNow, Spoiled
<1> QED BY <1>1, HeadsApart

(* What the members of a clean group return is below the bound.            *)
LEMMA SettledBelow ==
  ASSUME NEW p, NEW S, NEW W, NEW wk, NEW cur, NEW c, WaiterBelow(p, S, W, wk, cur, c),
         NEW vs, vs \in {cur[c].returns, RoundZero(wk[c]).returns}
  PROVE  vs \subseteq S[c]
<1>1. PICK w, now : w = wk[c] /\ now = NoValues(w)
  OBVIOUS
<1>2. Fits(Ceiling(S, W, c, w.deferred), w.rets, S[c]) /\ cur[c].returns \subseteq S[c]
  BY <1>1 DEF WaiterBelow, WalkFits
<1>3. NowFits(Ceiling(S, W, c, w.deferred), now)
  BY <1>1, NoValuesFit
<1>4. Substitute(w.rets, now) \subseteq S[c]
  BY <1>2, <1>3, SubstituteFits
<1>5. RoundZero(wk[c]).returns = Substitute(w.rets, now)
  BY <1>1 DEF RoundZero, FinishRound
<1> QED BY <1>2, <1>4, <1>5

(* settle: the members are below the bound, or marked cut.                 *)
LEMMA BoundsSettle ==
  ASSUME Inv, RoundsSuffice, WaitersInv, LinksInv,
         NEW S, NEW W, BoundOf(prog, S, W), StaysBelow(S, W), Settle
  PROVE  StaysBelow(S, W)'
<1>1. PICK rd \in [Ctx -> Note], cut \in Cut \cup {None}, got \in SUBSET V, ms \in SUBSET Ctx :
            /\ Return(Below, rd, Top.outer, stack, IsCut(cut), got)
            /\ Grown(read, rd) /\ Top.head \in ms
            /\ ms = Range(Top.members) \cup Range(Joiners)
            /\ got = result'[Top.head].returns
            /\ cut = None => ~FixpointCut(fixpoint) /\ \A c \in ms : read[c].cut = None
            /\ \A c \in Ctx : c \notin ms => rd[c] = read[c]
            /\ \A c \in Ctx : c \in ms => rd[c].cut = cut
            /\ \A c \in Ctx : state'[c] = IF c \notin ms THEN state[c]
                                          ELSE IF cut = None THEN "Ready" ELSE "Cut"
  BY SettleTells
<1>2. Top.kind = "resolve" /\ prog' = prog /\ heads' = heads
  BY DEF Settle, RoundOver
<1>3. /\ \A c \in Ctx : c \in ms <=> state[c] \in Waiting /\ heads[c] = Top.head
      /\ \A c \in Ctx : c \notin ms => /\ walk'[c] = walk[c] /\ current'[c] = current[c]
                                       /\ result'[c] = result[c]
      /\ \A c \in Ctx : c \in ms =>
            result'[c].returns \in {current[c].returns, RoundZero(walk[c]).returns}
  BY <1>1, SettleLeaves
<1>4. Top.head \in Ctx
  BY <1>2, ResolveOnTop
<1>5. ASSUME cut = None, NEW c \in ms PROVE result'[c].returns \subseteq S[c]
  <2>1. ~SpoiledNow(Top.head)
    BY <1>1, <1>2, <1>3, <1>5, SettlesClean
  <2>2. WaiterBelow(prog, S, W, walk, current, c)
    BY <1>3, <1>5, <2>1 DEF StaysBelow, SlotsBelow, SpoiledNow
  <2>3. result'[c].returns \in {current[c].returns, RoundZero(walk[c]).returns}
    BY <1>3, <1>5
  <2> QED BY <2>2, <2>3, SettledBelow
<1>6. ASSUME NEW h, SpoiledNow(h), h # Top.head
      PROVE  Spoiled(state', heads', rd, Top.outer, Below, h)
  <2>1. PICK tt, gs : tt = state' /\ gs = heads'
    OBVIOUS
  <2>2. \A c \in Ctx : state[c] \in Waiting /\ heads[c] = h =>
            tt[c] \in Waiting /\ gs[c] = h /\ (read[c].cut # None => rd[c].cut # None)
    BY <1>1, <1>2, <1>3, <1>6, <2>1
  <2>3. Spoiled(tt, gs, rd, Top.outer, Below, h)
    BY <1>2, <1>6, <2>2, SpoiledUnderneath
  <2> QED BY <2>1, <2>3
<1>7. SlotsBelow(prog, S, W, state', heads', rd, walk', current', result', Top.outer, Below)
  <2> SUFFICES ASSUME NEW d \in Ctx
               PROVE  /\ state'[d] = "Ready" => result'[d].returns \subseteq S[d]
                      /\ state'[d] \in Waiting
                         /\ ~Spoiled(state', heads', rd, Top.outer, Below, heads'[d])
                           => WaiterBelow(prog, S, W, walk', current', d)
    BY DEF SlotsBelow
  <2>1. CASE d \in ms
    BY <1>1, <1>5, <2>1 DEF Waiting
  <2>2. CASE d \notin ms
    <3>1. state[d] = "Ready" => result[d].returns \subseteq S[d]
      BY DEF StaysBelow, SlotsBelow
    <3>2. state[d] \in Waiting /\ ~SpoiledNow(heads[d]) => WaiterBelow(prog, S, W, walk, current, d)
      BY DEF StaysBelow, SlotsBelow, SpoiledNow
    <3>3. state'[d] = state[d] /\ heads'[d] = heads[d]
      BY <1>1, <1>2, <2>2
    <3>4. WaiterBelow(prog, S, W, walk, current, d) => WaiterBelow(prog, S, W, walk', current', d)
      BY <1>3, <2>2 DEF WaiterBelow
    <3>5. state[d] \in Waiting => heads[d] # Top.head
      BY <1>3, <2>2
    <3> QED BY <1>3, <1>6, <2>2, <3>1, <3>2, <3>3, <3>4, <3>5
  <2> QED BY <2>1, <2>2
<1>8. \A i \in DOMAIN Below : Below[i].kind = "resolve" /\ SpoiledNow(Below[i].head)
            => Spoiled(state', heads', rd, Top.outer, Below, Below[i].head)
  BY <1>2, <1>6, ResolveBelow
<1>9. OpsKept(walk, walk', Below)
  <2>1. \A c \in Ctx : state[c] = "Resolving" /\ heads[c] # Top.head
            => walk'[c].deferred = walk[c].deferred
    BY <1>3
  <2> QED BY <1>2, <2>1, OpsKeptBelow
<1>10. IsCut(cut) \in Note /\ IsCut(cut).cut = cut /\ got \in (SUBSET V) \cup {None}
  BY IsCutType DEF IsCut, Nothing
<1>11. IsCut(cut).cut = None => got \subseteq S[Owner(Top)]
  BY <1>1, <1>2, <1>5, <1>10 DEF Owner
<1>12. /\ stack \in Seq(Ctx) /\ FramesFit(Below, stack, Top.outer)
       /\ Top.outer \in Fixpoint \cup {None}
  BY <1>2, ResolveBelow, TopFrame
<1> QED BY <1>1, <1>2, <1>7, <1>8, <1>9, <1>10, <1>11, <1>12, BoundsAfterPop DEF LinksInv
-----------------------------------------------------------------------------
(* The links of the call stack, and the approximations of what waits.      *)

(* A call is answered.                                                     *)
LEMMA LinksAfterRead ==
  ASSUME Inv, LinksInv, Asks(Top), NEW got \in (SUBSET V) \cup {None},
         ctl' = Answer(ctl, got), UNCHANGED <<state, current, walk>>
  PROVE  LinksInv'
<1>1. /\ ctl \in Seq(Frame) /\ FramesFit(ctl, stack, fixpoint) /\ Waits(ctl[Len(ctl)])
  BY TopFrame, WantedType
<1>2. PICK cs, ds : cs = ctl /\ ds = Answer(cs, got) /\ ds = ctl'
  OBVIOUS
<1>3. Linked(walk, ds)
  BY <1>1, <1>2, AnswerLinks DEF LinksInv
<1> QED BY <1>2, <1>3 DEF LinksInv, CurrentFits

(* The frame on top goes on, for the same context, or another replaces it. *)
LEMMA LinksAfterTop ==
  ASSUME Inv, LinksInv, Top.kind # "solve", NEW fr, Owner(fr) = Owner(Top),
         ctl' = [ctl EXCEPT ![Len(ctl)] = fr] \/ ctl' = Append(Below, fr),
         OpsKept(walk, walk', Below), CurrentFits'
  PROVE  LinksInv'
<1>1. PICK vk : vk = walk'
  OBVIOUS
<1>2. Linked(vk, [ctl EXCEPT ![Len(ctl)] = fr]) /\ Linked(vk, Append(Below, fr))
  BY <1>1, BelowLinks DEF LinksInv
<1> QED BY <1>1, <1>2 DEF LinksInv

(* The frame on top has gone, and the one below it is answered.            *)
LEMMA LinksAfterPop ==
  ASSUME Inv, LinksInv, Top.kind # "solve", NEW stk, NEW fx, FramesFit(Below, stk, fx),
         NEW got \in (SUBSET V) \cup {None}, ctl' = Answer(Below, got),
         OpsKept(walk, walk', Below), CurrentFits'
  PROVE  LinksInv'
<1>1. PICK vk, cs, ds : vk = walk' /\ cs = Below /\ ds = Answer(cs, got) /\ ds = ctl'
  OBVIOUS
<1>2. cs \in Seq(Frame) /\ Waits(cs[Len(cs)])
  BY <1>1, TopFrame, BelowWaits DEF Below
<1>3. Linked(vk, cs)
  BY <1>1, BelowLinks DEF LinksInv
<1>4. Linked(vk, ds)
  BY <1>1, <1>2, <1>3, AnswerLinks
<1> QED BY <1>1, <1>4 DEF LinksInv

(* get answers.                                                            *)
LEMMA LinksGet ==
  ASSUME Inv, LinksInv, GetReady \/ GetRunning \/ GetGroupMember \/ GetCut
  PROVE  LinksInv'
<1>1. Asks(Top) /\ UNCHANGED <<state, current, walk>>
  BY DEF GetReady, GetRunning, GetGroupMember, GetCut, slots
<1>2. \E got \in (SUBSET V) \cup {None} : ctl' = Answer(ctl, got)
  <2>1. PICK c : c = Wanted(Top) /\ c \in Ctx
    BY <1>1, WantedType
  <2>2. CASE GetReady
    <3>1. state[c] = "Ready" /\ ctl' = Answer(ctl, result[c].returns)
      BY <2>1, <2>2 DEF GetReady
    <3>2. result[c].returns \in SUBSET V
      BY <2>1, <3>1, ReturnsType DEF Inv, SlotsFit
    <3> QED BY <3>1, <3>2
  <2>3. CASE GetRunning
    BY <2>3 DEF GetRunning, Return
  <2>4. CASE GetGroupMember
    <3>1. PICK got : got = ReadGroupMember(c, state, heads, current, fixpoint, stack).got
      OBVIOUS
    <3>2. state[c] \in Waiting /\ ctl' = Answer(ctl, got)
      BY <2>1, <2>4, <3>1 DEF GetGroupMember, Return, Waiting
    <3>3. current[c] \in FunctionResult
      BY <2>1, <3>2 DEF Inv, SlotsFit, Waiting
    <3>4. got \in (SUBSET V) \cup {None}
      BY <3>1, <3>3, ReturnsType DEF ReadGroupMember
    <3> QED BY <3>2, <3>4
  <2>5. CASE GetCut
    <3>1. ctl' = Answer(ctl, CutReturns)
      BY <2>5 DEF GetCut, Return
    <3>2. CutReturns \in SUBSET V
      BY UnknownInV DEF CutReturns
    <3> QED BY <3>1, <3>2
  <2> QED BY <2>2, <2>3, <2>4, <2>5
<1> QED BY <1>1, <1>2, LinksAfterRead

(* get: the walk that starts is of what the frame below it asked for.      *)
LEMMA LinksGetWalk ==
  ASSUME Inv, LinksInv, GetWalk
  PROVE  LinksInv'
<1>1. PICK c : c = Wanted(Top) /\ c \in Ctx /\ MustWalk(c) /\ Asks(Top)
  BY WantedType DEF GetWalk
<1>2. PICK fr : ctl' = Append(ctl, fr) /\ fr.kind = "walk" /\ fr.ctx = c
  BY <1>1 DEF GetWalk
<1>3. CurrentFits'
  <2>1. \A d \in Ctx : state'[d] \notin Waiting => state[d] \notin Waiting
    <3>1. state[c] \notin Waiting
      BY <1>1 DEF MustWalk, Waiting
    <3>2. \A d \in Ctx : d # c => state'[d] = state[d]
      BY <1>1 DEF GetWalk, Inv, TypeOK
    <3> QED BY <3>1, <3>2
  <2>2. current' = current
    BY DEF GetWalk
  <2> QED BY <2>1, <2>2 DEF LinksInv, CurrentFits
<1>4. AsksIn(walk, Top) /\ WantedIn(walk, Top) = c
  BY <1>1 DEF Asks, AsksIn, Wanted, WantedIn, HasOp, Op, OpsOf
<1>5. PICK cs, ds : cs \in Seq(Frame) /\ cs = ctl /\ ds = ctl' /\ ds = Append(cs, fr)
  BY <1>2, TopFrame
<1>6. /\ Len(cs) \in Nat /\ DOMAIN cs = 1..Len(cs) /\ DOMAIN ds = 1..(Len(cs) + 1)
      /\ Len(ds) = Len(cs) + 1
      /\ ds[Len(cs) + 1] = fr /\ \A i \in 1..Len(cs) : ds[i] = cs[i]
  BY <1>5
<1>7. ASSUME NEW i \in DOMAIN ds, i < Len(ds)
      PROVE  AsksIn(walk, ds[i]) /\ WantedIn(walk, ds[i]) = Owner(ds[i + 1])
  <2>1. i \in DOMAIN cs /\ ds[i] = cs[i]
    BY <1>6, <1>7
  <2>2. CASE i = Len(cs)
    <3>1. cs[i] = Top /\ ds[i + 1] = fr
      BY <1>5, <1>6, <2>2, TopFrame
    <3> QED BY <1>2, <1>4, <2>1, <3>1 DEF Owner
  <2>3. CASE i # Len(cs)
    <3>1. i < Len(cs) /\ ds[i + 1] = cs[i + 1]
      BY <1>6, <2>1, <2>3
    <3>2. AsksIn(walk, cs[i]) /\ WantedIn(walk, cs[i]) = Owner(cs[i + 1])
      BY <1>5, <2>1, <3>1 DEF LinksInv, Linked
    <3> QED BY <2>1, <3>1, <3>2
  <2> QED BY <2>2, <2>3
<1>8. Linked(walk, ds)
  BY <1>7 DEF Linked
<1>9. walk' = walk
  BY DEF GetWalk
<1> QED BY <1>3, <1>5, <1>8, <1>9 DEF LinksInv

(* A walk goes on.                                                         *)
LEMMA LinksWalkOn ==
  ASSUME Inv, LinksInv, DeferCall \/ StartCall \/ FinishCall
  PROVE  LinksInv'
<1>1. Top.kind = "walk" /\ Top \in WalkFrame
  BY TopFrame, FrameType DEF DeferCall, StartCall, FinishCall, AtSite
<1>2. UNCHANGED <<state, current, walk>>
  BY DEF DeferCall, StartCall, FinishCall, slots
<1>3. \E fr : fr.kind = "walk" /\ fr.ctx = Top.ctx /\ ctl' = [ctl EXCEPT ![Len(ctl)] = fr]
  <2>1. CASE DeferCall
    BY <1>1, <2>1 DEF DeferCall, SetTop, WalkFrame
  <2>2. CASE StartCall
    BY <1>1, <2>2 DEF StartCall, SetTop, WalkFrame
  <2>3. CASE FinishCall
    BY <1>1, <2>3 DEF FinishCall, SetTop, WalkFrame
  <2> QED BY <2>1, <2>2, <2>3
<1>4. PICK fr : Owner(fr) = Owner(Top) /\ ctl' = [ctl EXCEPT ![Len(ctl)] = fr]
  BY <1>1, <1>3 DEF Owner
<1>5. OpsKept(walk, walk', Below) /\ CurrentFits'
  BY <1>2 DEF OpsKept, OpsOf, LinksInv, CurrentFits
<1> QED BY <1>1, <1>4, <1>5, LinksAfterTop

(* A walk is parked.                                                       *)
LEMMA LinksPark ==
  ASSUME Inv, LinksInv, WalkOver, NEW head \in Ctx, Park(Top.ctx, WalkDone, head),
         NEW got \in (SUBSET V) \cup {None}, ctl' = Answer(Below, got)
  PROVE  LinksInv'
<1>1. PICK m : m = Top.ctx /\ m \in Ctx /\ state[m] = "Running" /\ Top.kind = "walk"
  BY WalkOverType DEF WalkOver
<1>2. /\ \A d \in Ctx : d # m => /\ state'[d] = state[d] /\ walk'[d] = walk[d]
                                 /\ current'[d] = current[d]
      /\ state'[m] = "Parked"
  BY <1>1 DEF Park, Inv, TypeOK
<1>3. OpsKept(walk, walk', Below)
  <2>1. \A d \in Ctx : state[d] = "Resolving" => walk'[d].deferred = walk[d].deferred
    BY <1>1, <1>2
  <2> QED BY <1>1, <2>1, OpsKeptBelow
<1>4. CurrentFits'
  BY <1>2 DEF LinksInv, CurrentFits, Waiting
<1>5. FramesFit(Below, Under, fixpoint)
  BY WalkOverBelow
<1> QED BY <1>1, <1>3, <1>4, <1>5, LinksAfterPop

(* ParkInCycle and ParkInGroup park it, FinishAlone ends it.               *)
LEMMA LinksWalkOver ==
  ASSUME Inv, LinksInv, ParkInCycle \/ ParkInGroup \/ FinishAlone
  PROVE  LinksInv'
<1>1. CASE ParkInCycle
  <2>1. PICK r, head : /\ r = read[Top.ctx] /\ head = heads[stack[r.lowest + 1]]
                       /\ WalkOver /\ r.lowest < Len(Under)
                       /\ Park(Top.ctx, WalkDone, head) /\ ctl' = Answer(Below, None)
    BY <1>1 DEF ParkInCycle, Return
  <2>2. r \in Note
    BY <2>1, WalkOverType, TopFrame
  <2>3. r.lowest + 1 \in 1..Len(stack)
    BY <2>1, <2>2, WalkOverType, TopFrame DEF Note
  <2>4. stack[r.lowest + 1] \in Ctx
    BY <2>3, TopFrame, SeqType
  <2>5. head \in Ctx
    BY <2>1, <2>4 DEF Inv, TypeOK
  <2> QED BY <2>1, <2>5, LinksPark
<1>2. CASE ParkInGroup
  <2>1. PICK c, r, got :
          /\ c = Top.ctx /\ r = read[c] /\ WalkOver /\ r.joins # None
          /\ got = ReadGroupMember(c, state', heads', current', fixpoint, Under).got
          /\ Park(c, WalkDone, r.joins) /\ ctl' = Answer(Below, got)
    BY <1>2 DEF ParkInGroup, Return
  <2>2. c \in Ctx /\ r.joins \in Ctx
    BY <2>1, WalkOverType, TopFrame DEF Note
  <2>3. current'[c] \in FunctionResult
    BY <2>1, <2>2, ParkType
  <2>4. got \in (SUBSET V) \cup {None}
    BY <2>1, <2>3, ReturnsType DEF ReadGroupMember
  <2> QED BY <2>1, <2>2, <2>4, LinksPark
<1>3. CASE FinishAlone
  <2>1. PICK m, k, got : /\ m = Top.ctx /\ WalkOver /\ ctl' = Answer(Below, got)
                         /\ got = [RoundZero(WalkDone) EXCEPT !.cut = read[m].cut].returns
                         /\ state' = [state EXCEPT ![m] = k]
                         /\ UNCHANGED <<current, walk>>
    BY <1>3 DEF FinishAlone, Return
  <2>2. m \in Ctx /\ state[m] = "Running" /\ Top.kind = "walk" /\ WalkDone \in Walk
    BY <2>1, WalkOverType DEF WalkOver
  <2>3. got \in (SUBSET V) \cup {None}
    BY <2>1, <2>2, RoundZeroType DEF FunctionResult
  <2>4. CurrentFits'
    BY <2>1, <2>2 DEF LinksInv, CurrentFits, Waiting, Inv, TypeOK
  <2>5. OpsKept(walk, walk', Below)
    BY <2>1 DEF OpsKept, OpsOf
  <2>6. FramesFit(Below, Under, fixpoint)
    BY <2>1, WalkOverBelow
  <2> QED BY <2>1, <2>2, <2>3, <2>4, <2>5, <2>6, LinksAfterPop
<1> QED BY <1>1, <1>2, <1>3

(* A fixpoint starts in the place of the walk of its head.                 *)
LEMMA LinksResolveGroup ==
  ASSUME Inv, LinksInv, ResolveGroup
  PROVE  LinksInv'
<1>1. PICK fr : ctl' = Append(Below, fr) /\ fr.kind = "resolve" /\ fr.head = Top.ctx
  BY DEF ResolveGroup
<1>2. WalkOver /\ Top.kind = "walk" /\ state[Top.ctx] = "Running"
  BY WalkOverType DEF ResolveGroup, WalkOver
<1>3. PICK ms \in SUBSET Ctx :
        /\ \A d \in ms : d # Top.ctx => state[d] = "Parked" /\ heads[d] = Top.ctx
        /\ \A d \in Ctx : d \notin ms =>
              /\ state'[d] = state[d] /\ current'[d] = current[d] /\ walk'[d] = walk[d]
        /\ \A d \in ms : state'[d] = "Resolving"
  BY GroupStarts
<1>4. Owner(fr) = Owner(Top)
  BY <1>1, <1>2 DEF Owner
<1>5. OpsKept(walk, walk', Below)
  <2>1. \A d \in Ctx : state[d] = "Resolving" => walk'[d].deferred = walk[d].deferred
    BY <1>2, <1>3
  <2> QED BY <1>2, <2>1, OpsKeptBelow
<1>6. CurrentFits'
  BY <1>3 DEF LinksInv, CurrentFits, Waiting
<1> QED BY <1>1, <1>2, <1>4, <1>5, <1>6, LinksAfterTop

(* A fixpoint goes on.                                                     *)
LEMMA LinksReplay ==
  ASSUME Inv, LinksInv, ReplayCall \/ ReplayDone \/ NextMember \/ NextRound
  PROVE  LinksInv'
<1>1. Top.kind = "resolve" /\ Top \in ResolveFrame
  BY TopFrame, FrameType
     DEF ReplayCall, ReplayDone, NextMember, NextRound, HasOp, MemberOver, Replays, RoundOver
<1>2. \E fr : /\ fr.kind = "resolve" /\ fr.head = Top.head
              /\ ctl' = [ctl EXCEPT ![Len(ctl)] = fr]
  <2>1. CASE ReplayCall
    BY <1>1, <2>1 DEF ReplayCall, SetTop, ResolveFrame
  <2>2. CASE ReplayDone
    BY <1>1, <2>2 DEF ReplayDone, SetTop, OpDone, ResolveFrame
  <2>3. CASE NextMember
    BY <1>1, <2>3 DEF NextMember, SetTop, ResolveFrame
  <2>4. CASE NextRound
    BY <1>1, <2>4 DEF NextRound, SetTop, ResolveFrame
  <2> QED BY <2>1, <2>2, <2>3, <2>4
<1>3. PICK fr : Owner(fr) = Owner(Top) /\ ctl' = [ctl EXCEPT ![Len(ctl)] = fr]
  BY <1>1, <1>2 DEF Owner
<1>4. /\ \A d \in Ctx : state[d] = "Resolving" => walk'[d].deferred = walk[d].deferred
      /\ CurrentFits'
  <2>1. CASE ReplayCall
    BY <2>1 DEF ReplayCall, slots, LinksInv, CurrentFits
  <2>2. CASE ReplayDone
    <3>1. PICK m, x : /\ m = Member(Top) /\ walk' = [walk EXCEPT ![m].calls = x]
                      /\ UNCHANGED <<state, current>>
      BY <2>2 DEF ReplayDone
    <3>2. m \in Ctx /\ walk[m] \in Walk
      BY <2>2, <3>1, Replaying DEF ReplayDone, HasOp
    <3>3. \A d \in Ctx : walk'[d].deferred = walk[d].deferred
      BY <3>1, <3>2 DEF Inv, TypeOK, Walk
    <3> QED BY <3>1, <3>3 DEF LinksInv, CurrentFits
  <2>3. CASE NextMember
    <3>1. PICK m, x : /\ m = Member(Top) /\ walk' = [walk EXCEPT ![m].resolved = Top.now]
                      /\ current' = [current EXCEPT ![m] = x] /\ state' = state
      BY <2>3 DEF NextMember, KeepsResolved
    <3>2. m \in Ctx /\ walk[m] \in Walk /\ state[m] = "Resolving"
      BY <2>3, <3>1, Replaying DEF NextMember, MemberOver
    <3>3. \A d \in Ctx : walk'[d].deferred = walk[d].deferred
      BY <3>1, <3>2 DEF Inv, TypeOK, Walk
    <3>4. CurrentFits'
      BY <3>1, <3>2 DEF LinksInv, CurrentFits, Waiting, Inv, TypeOK
    <3> QED BY <3>3, <3>4
  <2>4. CASE NextRound
    <3>1. FromRoundZero(Range(Joiners), walk) /\ \A d \in Range(Joiners) : state[d] = "Parked"
      BY <1>1, <2>4, JoinersType DEF NextRound
    <3>2. \A d \in Ctx : d \notin Range(Joiners) =>
             /\ walk'[d] = walk[d] /\ current'[d] = current[d] /\ state'[d] = state[d]
      BY <3>1 DEF FromRoundZero
    <3>3. \A d \in Ctx : d \in Range(Joiners) => state'[d] = "Resolving"
      BY <3>1 DEF FromRoundZero
    <3>4. CurrentFits'
      BY <3>2, <3>3 DEF LinksInv, CurrentFits, Waiting
    <3> QED BY <3>1, <3>2, <3>4
  <2> QED BY <2>1, <2>2, <2>3, <2>4
<1>5. OpsKept(walk, walk', Below)
  BY <1>1, <1>4, OpsKeptBelow
<1> QED BY <1>1, <1>3, <1>4, <1>5, LinksAfterTop

(* It stops, and its members wait again.                                   *)
LEMMA LinksStop ==
  ASSUME Inv, LinksInv, Merged \/ Joined
  PROVE  LinksInv'
<1>1. PICK head : /\ MemberOver /\ KeepsResolved /\ ParkAll(head) /\ current' = current
  BY DEF Merged, Joined
<1>2. Top.kind = "resolve"
  BY <1>1 DEF MemberOver, Replays
<1>3. PICK m : m = Member(Top) /\ m \in Ctx /\ walk[m] \in Walk
  BY <1>1, Replaying DEF MemberOver
<1>4. \A d \in Ctx : walk'[d].deferred = walk[d].deferred
  BY <1>1, <1>3 DEF KeepsResolved, Inv, TypeOK, Walk
<1>5. OpsKept(walk, walk', Below)
  BY <1>2, <1>4, OpsKeptBelow
<1>6. CurrentFits'
  BY <1>1 DEF LinksInv, CurrentFits, ParkAll, Waiting
<1>7. \E got \in (SUBSET V) \cup {None} : ctl' = Answer(Below, got)
  <2>1. CASE Merged
    BY <2>1 DEF Merged, Return
  <2>2. CASE Joined
    <3>1. PICK got :
            /\ got = ReadGroupMember(Top.head, state', heads', current, Top.outer, stack).got
            /\ ctl' = Answer(Below, got)
      BY <1>1, <2>2 DEF Joined, Return
    <3>2. Top.head \in Ctx /\ current[Top.head] \in FunctionResult
      BY <1>2, ResolveOnTop
    <3>3. got \in (SUBSET V) \cup {None}
      BY <3>1, <3>2, ReturnsType DEF ReadGroupMember
    <3> QED BY <3>1, <3>3
  <2> QED BY <2>1, <2>2
<1>8. FramesFit(Below, stack, Top.outer)
  BY <1>2, ResolveBelow
<1> QED BY <1>2, <1>5, <1>6, <1>7, <1>8, LinksAfterPop

(* It settles, and they are done.                                          *)
LEMMA LinksSettle ==
  ASSUME Inv, WaitersInv, LinksInv, Settle
  PROVE  LinksInv'
<1>1. PICK rd \in [Ctx -> Note], cut \in Cut \cup {None}, got \in SUBSET V, ms \in SUBSET Ctx :
        /\ Return(Below, rd, Top.outer, stack, IsCut(cut), got)
        /\ ms = Range(Top.members) \cup Range(Joiners)
        /\ \A c \in Ctx : state'[c] = IF c \notin ms THEN state[c]
                                      ELSE IF cut = None THEN "Ready" ELSE "Cut"
  BY SettleTells
<1>2. Top.kind = "resolve"
  BY DEF Settle, RoundOver
<1>3. /\ \A c \in Ctx : c \in ms <=> state[c] \in Waiting /\ heads[c] = Top.head
      /\ \A c \in Ctx : c \notin ms => walk'[c] = walk[c] /\ current'[c] = current[c]
      /\ \A c \in Ctx : c \in ms => current'[c] = None
  BY <1>1, SettleLeaves
<1>4. OpsKept(walk, walk', Below)
  <2>1. \A c \in Ctx : state[c] = "Resolving" /\ heads[c] # Top.head
            => walk'[c].deferred = walk[c].deferred
    BY <1>3
  <2> QED BY <1>2, <2>1, OpsKeptBelow
<1>5. CurrentFits'
  BY <1>1, <1>3 DEF LinksInv, CurrentFits
<1>6. FramesFit(Below, stack, Top.outer)
  BY <1>2, ResolveBelow
<1>7. got \in (SUBSET V) \cup {None} /\ ctl' = Answer(Below, got)
  BY <1>1 DEF Return
<1> QED BY <1>2, <1>4, <1>5, <1>6, <1>7, LinksAfterPop
-----------------------------------------------------------------------------
(* The invariant.                                                          *)

(* solve starts with nothing found.                                        *)
LEMMA InitBounds == Init => LinksInv /\ BoundsInv
<1> SUFFICES ASSUME Init PROVE LinksInv /\ BoundsInv
  OBVIOUS
<1>1. PICK fr : ctl = <<fr>> /\ fr.kind = "solve"
  BY DEF Init
<1>2. DOMAIN ctl = {1} /\ Len(ctl) = 1 /\ ctl[1] = fr
  BY <1>1
<1>3. Linked(walk, ctl)
  BY <1>2 DEF Linked
<1>4. CurrentFits /\ \A c \in Ctx : state[c] = "New"
  BY DEF Init, CurrentFits
<1>5. ASSUME NEW S, NEW W PROVE StaysBelow(S, W)
  <2>1. SlotsBelow(prog, S, W, state, heads, read, walk, current, result, fixpoint, ctl)
    BY <1>4 DEF SlotsBelow, Waiting
  <2>2. FramesBelow(prog, S, W, state, heads, read, walk, fixpoint, ctl)
    BY <1>1, <1>2 DEF FramesBelow
  <2> QED BY <2>1, <2>2 DEF StaysBelow
<1> QED BY <1>3, <1>4, <1>5 DEF LinksInv, BoundsInv

(* Nothing the invariant speaks of changes.                                *)
LEMMA BoundsUnchanged ==
  ASSUME UNCHANGED <<prog, slots, heads, fixpoint, ctl>>
  PROVE  /\ LinksInv => LinksInv'
         /\ \A S, W : StaysBelow(S, W) => StaysBelow(S, W)'
<1>1. /\ prog' = prog /\ state' = state /\ result' = result /\ current' = current
      /\ read' = read /\ walk' = walk /\ heads' = heads /\ fixpoint' = fixpoint /\ ctl' = ctl
  BY DEF slots
<1>2. LinksInv => LinksInv'
  BY <1>1 DEF LinksInv, CurrentFits
<1>3. ASSUME NEW S, NEW W, StaysBelow(S, W) PROVE StaysBelow(S, W)'
  BY <1>1, <1>3 DEF StaysBelow
<1> QED BY <1>2, <1>3

(* No step breaks the links.                                               *)
LEMMA LinksNext == Inv /\ WaitersInv /\ LinksInv /\ [Next]_vars => LinksInv'
<1> SUFFICES ASSUME Inv, WaitersInv, LinksInv, [Next]_vars PROVE LinksInv'
  OBVIOUS
<1>1. CASE Get
  BY <1>1, LinksGet, LinksGetWalk DEF Get
<1>2. CASE WalkStep
  BY <1>2, LinksWalkOn, LinksWalkOver DEF WalkStep
<1>3. CASE FixpointStep
  BY <1>3, LinksResolveGroup, LinksReplay, LinksStop, LinksSettle DEF FixpointStep
<1>4. CASE DeadlinePasses
  BY <1>4, BoundsUnchanged DEF DeadlinePasses
<1>5. CASE UNCHANGED vars
  BY <1>5, BoundsUnchanged DEF vars
<1> QED BY <1>1, <1>2, <1>3, <1>4, <1>5 DEF Next, Thread, Finished

(* The program is the same throughout.                                     *)
LEMMA SameProgram == [Next]_vars => prog' = prog
  BY DEF Next, Thread, Get, WalkStep, FixpointStep, Finished, vars, DeadlinePasses,
         GetReady, GetRunning, GetGroupMember, GetCut, GetWalk, DeferCall, StartCall,
         FinishCall, ParkInCycle, ParkInGroup, FinishAlone, ResolveGroup, ReplayCall,
         ReplayDone, NextMember, Merged, Joined, NextRound, Settle

(* No step takes what is found above a bound.                              *)
LEMMA BoundsStep ==
  ASSUME Inv, RoundsSuffice, WaitersInv, LinksInv, [Next]_vars,
         NEW S, NEW W, BoundOf(prog, S, W), StaysBelow(S, W)
  PROVE  StaysBelow(S, W)'
<1>1. CASE Get
  BY <1>1, BoundsGetReady, BoundsGetRunning, BoundsGetCut, BoundsGetGroupMember, BoundsGetWalk
     DEF Get
<1>2. CASE WalkStep
  BY <1>2, BoundsDeferCall, BoundsStartCall, BoundsFinishCall, BoundsParkInCycle,
     BoundsParkInGroup, BoundsFinishAlone
     DEF WalkStep
<1>3. CASE FixpointStep
  BY <1>3, BoundsResolveGroup, BoundsReplayCall, BoundsReplayDone, BoundsNextMember,
     BoundsMerged, BoundsJoined, BoundsNextRound, BoundsSettle
     DEF FixpointStep
<1>4. CASE DeadlinePasses
  BY <1>4, BoundsUnchanged DEF DeadlinePasses
<1>5. CASE UNCHANGED vars
  BY <1>5, BoundsUnchanged DEF vars
<1> QED BY <1>1, <1>2, <1>3, <1>4, <1>5 DEF Next, Thread, Finished

(* Every step of the solver keeps what it found below every bound.         *)
LEMMA BoundsNext ==
  Inv /\ RoundsSuffice /\ WaitersInv /\ LinksInv /\ BoundsInv /\ [Next]_vars => BoundsInv'
<1> SUFFICES ASSUME Inv, RoundsSuffice, WaitersInv, LinksInv, BoundsInv, [Next]_vars,
                    NEW S \in [Ctx -> SUBSET V], NEW W \in [Ctx -> Seq(Value)],
                    Bounds(prog', S, W)
             PROVE  StaysBelow(S, W)'
  BY DEF BoundsInv
<1>1. prog' = prog /\ prog \in [Func -> Body]
  BY SameProgram, ProgramAssumption DEF Inv, TypeOK
<1>2. BoundOf(prog, S, W) /\ StaysBelow(S, W)
  BY <1>1 DEF BoundOf, BoundsInv
<1> QED BY <1>2, BoundsStep

(* What the solver has found so far stays below every bound of the         *)
(* program's equations, while its fixpoints settle before their last round.*)
THEOREM BoundsInvariance == Spec /\ []RoundsSuffice => [](LinksInv /\ BoundsInv)
<1>1. Inv /\ WaitersInv /\ LinksInv /\ BoundsInv /\ RoundsSuffice /\ [Next]_vars
        => (LinksInv /\ BoundsInv)'
  BY LinksNext, BoundsNext
<1> QED BY <1>1, InitBounds, WaitersInvariance, PTL DEF Spec

(* get, park, settle, replay: nothing is made up.  Whatever limits fired,  *)
(* whatever order the contexts were reached in, a finished summary that is *)
(* not marked cut holds no value that the program's calls do not give.     *)
THEOREM NothingMadeUp == Spec /\ []RoundsSuffice => []ReadyBelowBounds
<1>1. BoundsInv => ReadyBelowBounds
  BY DEF BoundsInv, StaysBelow, SlotsBelow, ReadyBelowBounds
<1> QED BY <1>1, BoundsInvariance, PTL

=============================================================================
