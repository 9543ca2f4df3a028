----------------------- MODULE CallSolverClosed_proofs ------------------------
(***************************************************************************)
(* The proof that CallSolver leaves nothing out.                           *)
(***************************************************************************)
EXTENDS CallSolverClosed, CallSolverBounds_proofs

-----------------------------------------------------------------------------
(* What stays closed when more is finished.                                *)

(* What is finished under st and res is under tt and rt.                   *)
FinalsKept(st, res, tt, rt) ==
    \A c \in Ctx : st[c] = "Ready" => tt[c] = "Ready" /\ rt[c] = res[c]

(* More contexts are finished within more.                                 *)
LEMMA FinalsMore ==
  ASSUME NEW st, NEW res, NEW tt, NEW rt, FinalsKept(st, res, tt, rt),
         NEW X, NEW Y, X \subseteq Y
  PROVE  Finals(st, res, X) \subseteq Finals(tt, rt, Y)
  BY DEF FinalsKept, Finals

(* What is accounted for stays so within more.                             *)
LEMMA AccountedMore ==
  ASSUME NEW callees, NEW arg, NEW X, NEW D, Accounted(callees, arg, X, D),
         NEW Y, NEW E, X \subseteq Y, D \subseteq E
  PROVE  Accounted(callees, arg, Y, E)
  BY DEF Accounted

(* A finished summary stays closed.                                        *)
LEMMA ClosedStays ==
  ASSUME NEW p, NEW st, NEW res, NEW tt, NEW rt, FinalsKept(st, res, tt, rt),
         NEW c \in Ctx, st[c] = "Ready", NEW vals, Closed(p, st, res, c, vals)
  PROVE  Closed(p, tt, rt, c, vals)
<1>1. rt[c] = res[c]
  BY DEF FinalsKept
<1>2. ASSUME NEW i \in DOMAIN vals
      PROVE  Accounted(CalleeOf(p, c, vals, i).known, ArgOf(p, c, vals, i).known,
                       vals[i].known, Finals(tt, rt, vals[i].known))
  <2>1. Accounted(CalleeOf(p, c, vals, i).known, ArgOf(p, c, vals, i).known,
                  vals[i].known, Finals(st, res, vals[i].known))
    BY <1>2 DEF Closed
  <2>2. Finals(st, res, vals[i].known) \subseteq Finals(tt, rt, vals[i].known)
    BY FinalsMore
  <2> QED BY <2>1, <2>2, AccountedMore
<1> QED BY <1>1, <1>2 DEF Closed

(* The operations ops come first in more.                                  *)
OpsMore(ops, more) ==
    DOMAIN ops \subseteq DOMAIN more /\ \A j \in DOMAIN ops : more[j] = ops[j]
(* No operation is a call of site i.                                       *)
NotDeferred(ops, i) == \A j \in DOMAIN ops : ops[j].op = "Call" => ops[j].site # i

(* A call site that has its value keeps it when the walk goes on, and when *)
(* a deferred call refills its edge.                                       *)
LEMMA SiteTakenMore ==
  ASSUME NEW p, NEW st, NEW res, NEW tt, NEW rt, FinalsKept(st, res, tt, rt),
         NEW c, NEW w, NEW vals, NEW i, SiteTaken(p, st, res, c, w, vals, i),
         NEW v, NEW us, Before(us, i) = Before(vals, i), us[i] = vals[i],
         OpsMore(w.deferred, v.deferred),
         NotDeferred(w.deferred, i) => NotDeferred(v.deferred, i) /\ v.calls[i] = w.calls[i]
  PROVE  SiteTaken(p, tt, rt, c, v, us, i)
<1>1. CalleeOf(p, c, us, i) = CalleeOf(p, c, vals, i) /\ ArgOf(p, c, us, i) = ArgOf(p, c, vals, i)
  BY DEF CalleeOf, ArgOf
<1>2. us[i].pending \subseteq DOMAIN v.deferred
  BY DEF SiteTaken, OpsMore
<1>3. CASE Deferred(p, c, w.deferred, vals, i)
  <2>1. Deferred(p, c, v.deferred, us, i)
    BY <1>1, <1>3 DEF Deferred, OpsMore
  <2> QED BY <1>2, <2>1 DEF SiteTaken
<1>4. CASE Called(p, st, res, c, w, vals, i)
  <2> DEFINE X == vals[i].known
  <2>1. NotDeferred(w.deferred, i)
    BY <1>4 DEF Called, NotDeferred
  <2>2. Finals(st, res, X) \subseteq Finals(tt, rt, X)
    BY FinalsMore
  <2>3. Applied(w.deferred, vals[i]) \subseteq Applied(v.deferred, vals[i])
    BY DEF Applied, OpsMore
  <2>4. Accounted(CalleeOf(p, c, vals, i).known, ArgOf(p, c, vals, i).known, X,
                  Finals(tt, rt, X) \cup Applied(v.deferred, vals[i]))
    BY <1>4, <2>2, <2>3 DEF Called, Accounted
  <2>5. Called(p, tt, rt, c, v, us, i)
    BY <1>1, <1>4, <2>1, <2>4 DEF Called, NotDeferred
  <2> QED BY <1>2, <2>5 DEF SiteTaken
<1> QED BY <1>3, <1>4 DEF SiteTaken

(* What waits stays closed, whatever its fixpoint does to its edges.       *)
LEMMA WaiterStays ==
  ASSUME NEW p, NEW st, NEW res, NEW tt, NEW rt, FinalsKept(st, res, tt, rt),
         NEW c, NEW w, WaiterClosed(p, st, res, c, w),
         NEW v, v.deferred = w.deferred, v.rets = w.rets, DOMAIN v.calls = DOMAIN w.calls,
         \A i \in DOMAIN w.calls : NotDeferred(w.deferred, i) => v.calls[i] = w.calls[i]
  PROVE  WaiterClosed(p, tt, rt, c, v)
<1>1. PICK vals \in Seq(Value) :
          /\ DOMAIN vals = DOMAIN p[c.func].sites
          /\ SitesTaken(p, st, res, c, w, vals)
          /\ w.rets = Eval(p[c.func].rets, c, vals)
          /\ ValuesFit(p, c, w.deferred, vals)
  BY DEF WaiterClosed
<1>2. OpsMore(w.deferred, v.deferred) /\ (\A i : NotDeferred(w.deferred, i) => NotDeferred(v.deferred, i))
  BY DEF OpsMore
<1>3. ASSUME NEW i \in DOMAIN vals PROVE SiteTaken(p, tt, rt, c, v, vals, i)
  <2>1. SiteTaken(p, st, res, c, w, vals, i) /\ i \in DOMAIN w.calls
    BY <1>1 DEF SitesTaken
  <2> QED BY <1>2, <2>1, SiteTakenMore
<1>4. SitesTaken(p, tt, rt, c, v, vals)
  BY <1>1, <1>3 DEF SitesTaken
<1> QED BY <1>1, <1>4 DEF WaiterClosed

(* So does a walk in progress.                                             *)
LEMMA WalkStays ==
  ASSUME NEW p, NEW st, NEW res, NEW tt, NEW rt, FinalsKept(st, res, tt, rt),
         NEW fr, WalkClosed(p, st, res, fr)
  PROVE  WalkClosed(p, tt, rt, fr)
<1>1. ASSUME NEW i \in DOMAIN fr.vals PROVE SiteTaken(p, tt, rt, fr.ctx, fr.w, fr.vals, i)
  <2>1. SiteTaken(p, st, res, fr.ctx, fr.w, fr.vals, i)
    BY DEF WalkClosed, SitesTaken
  <2>2. OpsMore(fr.w.deferred, fr.w.deferred)
    BY DEF OpsMore
  <2> QED BY <2>1, <2>2, SiteTakenMore
<1>2. SitesTaken(p, tt, rt, fr.ctx, fr.w, fr.vals)
  BY <1>1 DEF WalkClosed, SitesTaken
<1>3. ASSUME NEW callees, SiteOpen(callees, fr.site,
                 Finals(st, res, fr.site.out.known) \cup Applied(fr.w.deferred, fr.site.out))
      PROVE  SiteOpen(callees, fr.site,
                 Finals(tt, rt, fr.site.out.known) \cup Applied(fr.w.deferred, fr.site.out))
  <2>1. Finals(st, res, fr.site.out.known) \subseteq Finals(tt, rt, fr.site.out.known)
    BY FinalsMore
  <2> QED BY <1>3, <2>1 DEF SiteOpen, Accounted
<1> QED BY <1>2, <1>3 DEF WalkClosed

-----------------------------------------------------------------------------
(* What stays settled in a group.                                          *)

(* Who waits under h does so afterwards, with the same summary so far.     *)
GroupStays(st, hs, cur, tt, gs, ju, h) ==
    \A c \in Ctx : st[c] \in Waiting /\ hs[c] = h =>
        tt[c] \in Waiting /\ gs[c] = h /\ ju[c].returns = cur[c].returns

(* More contexts answer within more.                                       *)
LEMMA AnsweringMore ==
  ASSUME NEW st, NEW res, NEW hs, NEW cur, NEW tt, NEW rt, NEW gs, NEW ju, NEW h,
         FinalsKept(st, res, tt, rt), GroupStays(st, hs, cur, tt, gs, ju, h),
         NEW X, NEW Y, X \subseteq Y
  PROVE  Answering(st, res, hs, cur, h, X) \subseteq Answering(tt, rt, gs, ju, h, Y)
<1>1. Finals(st, res, X) \subseteq Finals(tt, rt, Y)
  BY FinalsMore
<1>2. SoFar(st, hs, cur, h, X) \subseteq SoFar(tt, gs, ju, h, Y)
  BY DEF SoFar, GroupStays
<1> QED BY <1>1, <1>2 DEF Answering

(* An operation stays settled when it and its edge stay what they are.     *)
LEMMA OpSettledMore ==
  ASSUME NEW st, NEW res, NEW hs, NEW cur, NEW tt, NEW rt, NEW gs, NEW ju, NEW h,
         FinalsKept(st, res, tt, rt), GroupStays(st, hs, cur, tt, gs, ju, h),
         NEW w, NEW now, NEW j, OpSettled(st, res, hs, cur, h, w, now, j),
         NEW v, v.deferred[j] = w.deferred[j],
         NEW then, then[j] = now[j],
         w.deferred[j].op # "Apply" =>
             /\ Substitute(w.deferred[j].callee, then) = Substitute(w.deferred[j].callee, now)
             /\ Substitute(w.deferred[j].arg, then) = Substitute(w.deferred[j].arg, now)
             /\ v.calls[w.deferred[j].site] = w.calls[w.deferred[j].site]
  PROVE  OpSettled(tt, rt, gs, ju, h, v, then, j)
<1>1. PICK D, E : /\ D = Answering(st, res, hs, cur, h, now[j])
                  /\ E = Answering(tt, rt, gs, ju, h, now[j])
  OBVIOUS
<1>2. D \subseteq E
  BY <1>1, AnsweringMore
<1>3. CASE w.deferred[j].op = "Apply"
  BY <1>1, <1>2, <1>3 DEF OpSettled
<1>4. CASE w.deferred[j].op # "Apply"
  <2>1. Accounted(Substitute(w.deferred[j].callee, now), Substitute(w.deferred[j].arg, now),
                  now[j], E)
    BY <1>1, <1>2, <1>4, AccountedMore DEF OpSettled
  <2> QED BY <1>1, <1>4, <2>1 DEF OpSettled
<1> QED BY <1>3, <1>4

(* A round stays closed when its members are left alone.                   *)
LEMMA RoundStays ==
  ASSUME NEW st, NEW res, NEW hs, NEW cur, NEW rd, NEW wk,
         NEW tt, NEW rt, NEW gs, NEW ju, NEW sd, NEW vk,
         NEW fr, RoundClosed(st, res, hs, cur, rd, wk, fr),
         FinalsKept(st, res, tt, rt), GroupStays(st, hs, cur, tt, gs, ju, fr.head),
         \A k \in DOMAIN fr.members : LET c == fr.members[k] IN
             /\ vk[c] = wk[c] /\ ju[c] = cur[c]
             /\ sd[c].cut = None => rd[c].cut = None
  PROVE  RoundClosed(tt, rt, gs, ju, sd, vk, fr)
<1>1. SUFFICES ASSUME NEW k \in DOMAIN fr.members, sd[fr.members[k]].cut = None
               PROVE  LET c == fr.members[k] IN
                      /\ k < fr.at => MemberClosed(tt, rt, gs, ju, fr.head, vk[c], c)
                      /\ k = fr.at => ReplayClosed(tt, rt, gs, ju, vk[c], fr)
  BY DEF RoundClosed
<1>2. PICK c, w, h : /\ c = fr.members[k] /\ w = wk[c] /\ h = fr.head
                     /\ vk[c] = w /\ ju[c] = cur[c] /\ rd[c].cut = None
  BY <1>1
<1>3. \A now, j : OpSettled(st, res, hs, cur, h, w, now, j) => OpSettled(tt, rt, gs, ju, h, w, now, j)
  BY <1>2, OpSettledMore
<1>4. ASSUME k < fr.at PROVE MemberClosed(tt, rt, gs, ju, h, w, c)
  <2>1. MemberClosed(st, res, hs, cur, h, w, c)
    BY <1>2, <1>4 DEF RoundClosed
  <2> QED BY <1>2, <1>3, <2>1 DEF MemberClosed
<1>5. ASSUME k = fr.at PROVE ReplayClosed(tt, rt, gs, ju, w, fr)
  <2>1. ReplayClosed(st, res, hs, cur, w, fr)
    BY <1>2, <1>5 DEF RoundClosed
  <2>2. \A X : Answering(st, res, hs, cur, h, X) \subseteq Answering(tt, rt, gs, ju, h, X)
    BY <1>2, AnsweringMore
  <2>3. ASSUME NEW callees,
               SiteOpen(callees, fr.site, Answering(st, res, hs, cur, h, fr.site.out.known))
        PROVE  SiteOpen(callees, fr.site, Answering(tt, rt, gs, ju, h, fr.site.out.known))
    BY <2>2, <2>3 DEF SiteOpen, Accounted
  <2> QED BY <1>2, <1>3, <2>1, <2>3 DEF ReplayClosed
<1> QED BY <1>2, <1>4, <1>5

(* Afterwards the group of h is what it was, its members having read, by   *)
(* rd, the cuts they had.                                                  *)
GroupKept(rd, h) ==
    \A c \in Ctx : state[c] \in Waiting /\ heads[c] = h =>
        /\ state'[c] \in Waiting /\ heads'[c] = h
        /\ current'[c] = current[c] /\ walk'[c] = walk[c]
        /\ rd[c].cut = None => read[c].cut = None
(* The members of fr wait under its head.                                  *)
MembersUnder(fr) ==
    \A k \in DOMAIN fr.members :
        fr.members[k] \in Ctx /\ state[fr.members[k]] \in Waiting /\ heads[fr.members[k]] = fr.head
ClosedFrame(fr) ==
    FrameClosed(prog, state, result, heads, current, read, walk, fixpoint, ctl, fr)
ReadyLasts == FinalsKept(state, result, state', result')

(* A frame stays closed when a step leaves it alone.                       *)
LEMMA FrameStays ==
  ASSUME ReadyLasts, NEW fr, ClosedFrame(fr), NEW rd, NEW fx, NEW cs,
         fr.kind = "walk" /\ rd[fr.ctx].cut = None => read[fr.ctx].cut = None,
         fr.kind = "resolve" =>
             /\ MembersUnder(fr) /\ GroupKept(rd, fr.head)
             /\ Disturbed(fixpoint, ctl, fr.head) => Disturbed(fx, cs, fr.head)
  PROVE  FrameClosed(prog, state', result', heads', current', rd, walk', fx, cs, fr)
<1>1. ASSUME fr.kind = "walk", rd[fr.ctx].cut = None
      PROVE  WalkClosed(prog, state', result', fr)
  <2>1. WalkClosed(prog, state, result, fr)
    BY <1>1 DEF ClosedFrame, FrameClosed
  <2> QED BY <2>1, WalkStays DEF ReadyLasts
<1>2. ASSUME fr.kind = "resolve", ~fr.changed, ~Disturbed(fx, cs, fr.head)
      PROVE  RoundClosed(state', result', heads', current', rd, walk', fr)
  <2>1. RoundClosed(state, result, heads, current, read, walk, fr)
    BY <1>2 DEF ClosedFrame, FrameClosed
  <2>2. GroupStays(state, heads, current, state', heads', current', fr.head)
    BY <1>2 DEF GroupStays, GroupKept
  <2>3. ASSUME NEW k \in DOMAIN fr.members
        PROVE  LET c == fr.members[k] IN
               /\ walk'[c] = walk[c] /\ current'[c] = current[c]
               /\ rd[c].cut = None => read[c].cut = None
    BY <1>2 DEF MembersUnder, GroupKept
  <2> QED BY <2>1, <2>2, <2>3, RoundStays DEF ReadyLasts
<1> QED BY <1>1, <1>2 DEF FrameClosed

-----------------------------------------------------------------------------
(* A call is answered.                                                     *)

(* One callee more has answered at a site: it is accounted for.            *)
LEMMA SiteAnsweredOpen ==
  ASSUME NEW s \in SiteCall, s.todo # {}, NEW callees, NEW D, SiteOpen(callees, s, D),
         NEW v, NEW E, D \subseteq E, s.arg # {} => Key(NextCallee(s), s.arg) \in E
  PROVE  SiteOpen(callees, SiteAnswered(s, v), E)
<1>1. PICK f : f = NextCallee(s) /\ f \in s.todo /\ f \in Func
  BY NextCalleeIn
<1>2. PICK t : t = SiteAnswered(s, v)
  OBVIOUS
<1>3. /\ t.todo = s.todo \ {f} /\ t.arg = s.arg /\ t.out = Join(s.out, v)
      /\ t.targets = s.targets \cup {Key(f, s.arg)}
  BY <1>1, <1>2 DEF SiteAnswered, SiteCall
<1>4. f \in callees /\ f # Unknown
  BY <1>1, FuncAssumption DEF SiteOpen
<1>5. callees \ t.todo = (callees \ s.todo) \cup {f}
  BY <1>1, <1>3, <1>4
<1>6. Keys(callees \ t.todo, s.arg) = Keys(callees \ s.todo, s.arg) \cup {Key(f, s.arg)}
  BY <1>1, <1>5 DEF Keys
<1>7. s.out.known \subseteq t.out.known
  BY <1>3 DEF Join
<1>8. Accounted(callees \ t.todo, s.arg, t.out.known, E)
  BY <1>1, <1>4, <1>5, <1>6, <1>7 DEF SiteOpen, Accounted
<1> QED BY <1>2, <1>3, <1>6, <1>8 DEF SiteOpen

(* An operation is deferred: the earlier ones stay in order,               *)
LEMMA OpsOrderedMore ==
  ASSUME NEW ops \in Seq(DeferredOp), NEW n \in Nat, OpsOrdered(ops, n),
         NEW op \in DeferredOp, NEW m \in Nat, n <= m,
         op.op = "Call" => /\ op.callee.pending \cup op.arg.pending \subseteq DOMAIN ops
                           /\ op.site \in (n + 1)..m
  PROVE  OpsOrdered(Append(ops, op), m)
<1>1. PICK more, l : more = Append(ops, op) /\ l = Len(ops) /\ l \in Nat
  BY SeqType
<1>2. /\ DOMAIN ops = 1..l /\ DOMAIN more = 1..(l + 1) /\ more[l + 1] = op
      /\ \A j \in 1..l : more[j] = ops[j] /\ more[j] \in DeferredOp
  BY <1>1, AppendType, SeqType
<1>3. ASSUME NEW j \in DOMAIN more, more[j].op = "Call"
      PROVE  /\ more[j].callee.pending \cup more[j].arg.pending \subseteq 1..(j - 1)
             /\ more[j].site \in 1..m
             /\ \A i \in DOMAIN more : more[i].op = "Call" /\ more[i].site = more[j].site => i = j
  <2>1. \A i \in 1..l : ops[i].op = "Call" => ops[i].site \in 1..n
    BY <1>2 DEF OpsOrdered
  <2>2. CASE j \in 1..l
    <3>1. ops[j].op = "Call" /\ ops[j].site \in 1..n
      BY <1>2, <1>3, <2>1, <2>2
    <3>2. more[j].callee.pending \cup more[j].arg.pending \subseteq 1..(j - 1)
      BY <1>2, <2>2, <3>1 DEF OpsOrdered
    <3>3. ASSUME NEW i \in DOMAIN more, more[i].op = "Call", more[i].site = more[j].site PROVE i = j
      <4>1. CASE i \in 1..l
        BY <1>2, <2>2, <3>1, <3>3, <4>1 DEF OpsOrdered
      <4>2. CASE i = l + 1
        BY <1>2, <2>2, <3>1, <3>3, <4>2
      <4> QED BY <1>1, <1>2, <4>1, <4>2
    <3> QED BY <1>2, <2>2, <3>1, <3>2, <3>3
  <2>3. CASE j = l + 1
    <3>1. op.op = "Call" /\ more[j] = op /\ op.site \in (n + 1)..m
      BY <1>2, <1>3, <2>3
    <3>2. more[j].callee.pending \cup more[j].arg.pending \subseteq 1..(j - 1)
      BY <1>1, <1>2, <2>3, <3>1
    <3>3. ASSUME NEW i \in DOMAIN more, more[i].op = "Call", more[i].site = more[j].site PROVE i = j
      <4>1. CASE i \in 1..l
        BY <1>2, <2>1, <3>1, <3>3, <4>1
      <4> QED BY <1>1, <1>2, <2>3, <4>1
    <3> QED BY <3>1, <3>2, <3>3
  <2> QED BY <1>1, <1>2, <2>2, <2>3
<1> QED BY <1>1, <1>3 DEF OpsOrdered

(* and come first in what there is then.                                   *)
LEMMA AppendMore ==
  ASSUME NEW ops \in Seq(DeferredOp), NEW op \in DeferredOp, NEW more, more = Append(ops, op)
  PROVE  /\ OpsMore(ops, more) /\ DOMAIN more = DOMAIN ops \cup {Len(ops) + 1}
         /\ more[Len(ops) + 1] = op /\ Len(ops) + 1 \notin DOMAIN ops
         /\ \A i : NotDeferred(ops, i) /\ (op.op = "Call" => op.site # i) => NotDeferred(more, i)
<1>1. PICK l \in Nat : l = Len(ops) /\ DOMAIN ops = 1..l
  BY SeqType
<1>2. /\ DOMAIN more = 1..(l + 1) /\ more[l + 1] = op /\ \A j \in 1..l : more[j] = ops[j]
  BY <1>1, AppendType
<1>3. DOMAIN more = DOMAIN ops \cup {l + 1} /\ l + 1 \notin DOMAIN ops
  BY <1>1, <1>2
<1>4. OpsMore(ops, more)
  BY <1>1, <1>2, <1>3 DEF OpsMore
<1>5. \A i : NotDeferred(ops, i) /\ (op.op = "Call" => op.site # i) => NotDeferred(more, i)
  BY <1>1, <1>2, <1>3 DEF NotDeferred
<1> QED BY <1>1, <1>2, <1>3, <1>4, <1>5

(* The callee and the argument of the site a walk is at.                   *)
CalleeNow(p, fr) == CalleeOf(p, fr.ctx, fr.vals, Len(fr.vals) + 1)
ArgNow(p, fr) == ArgOf(p, fr.ctx, fr.vals, Len(fr.vals) + 1)
(* Who answers the site it is at.                                          *)
AnswersNow(st, res, w, s) == Finals(st, res, s.out.known) \cup Applied(w.deferred, s.out)

(* A walk in progress at a site, put together.                             *)
LEMMA WalkIsClosed ==
  ASSUME NEW p, NEW st, NEW res, NEW fr, SitesTaken(p, st, res, fr.ctx, fr.w, fr.vals),
         ~NeedsDefer(CalleeNow(p, fr), ArgNow(p, fr)),
         fr.site.arg = ArgNow(p, fr).known,
         fr.site.out.pending \subseteq DOMAIN fr.w.deferred,
         SiteOpen(CalleeNow(p, fr).known, fr.site, AnswersNow(st, res, fr.w, fr.site))
  PROVE  WalkClosed(p, st, res, fr)
  BY DEF WalkClosed, CalleeNow, ArgNow, AnswersNow

(* and taken apart.                                                        *)
LEMMA WalkAtSite ==
  ASSUME NEW p, NEW st, NEW res, NEW fr, fr.site # None, WalkClosed(p, st, res, fr)
  PROVE  /\ SitesTaken(p, st, res, fr.ctx, fr.w, fr.vals)
         /\ ~NeedsDefer(CalleeNow(p, fr), ArgNow(p, fr))
         /\ fr.site.arg = ArgNow(p, fr).known
         /\ fr.site.out.pending \subseteq DOMAIN fr.w.deferred
         /\ SiteOpen(CalleeNow(p, fr).known, fr.site, AnswersNow(st, res, fr.w, fr.site))
  BY DEF WalkClosed, CalleeNow, ArgNow, AnswersNow

(* The sites before stay taken when the walk defers an Apply.              *)
LEMMA SitesTakenMore ==
  ASSUME NEW p, NEW st, NEW res, NEW c, NEW w \in Walk, NEW vals \in Seq(Value),
         SitesTaken(p, st, res, c, w, vals),
         NEW op \in DeferredOp, op.op = "Apply",
         NEW v, v.deferred = Append(w.deferred, op), v.calls = w.calls
  PROVE  SitesTaken(p, st, res, c, v, vals)
<1>1. PICK ops, more : ops = w.deferred /\ more = v.deferred /\ ops \in Seq(DeferredOp)
                       /\ more = Append(ops, op)
  BY WalkFields
<1>2. OpsMore(ops, more) /\ (\A i : NotDeferred(ops, i) => NotDeferred(more, i))
  BY <1>1, AppendMore
<1>3. OpsOrdered(more, Len(vals))
  <2>1. OpsOrdered(ops, Len(vals)) /\ Len(vals) \in Nat
    BY <1>1, SeqType DEF SitesTaken
  <2> QED BY <1>1, <2>1, OpsOrderedMore
<1>4. FinalsKept(st, res, st, res)
  BY DEF FinalsKept
<1>5. ASSUME NEW i \in DOMAIN vals PROVE SiteTaken(p, st, res, c, v, vals, i)
  <2>1. SiteTaken(p, st, res, c, w, vals, i)
    BY DEF SitesTaken
  <2> QED BY <1>1, <1>2, <1>4, <2>1, SiteTakenMore
<1> QED BY <1>1, <1>3, <1>5 DEF SitesTaken

(* A callee of a walk answers: at once, and then it is finished, or by an  *)
(* operation.                                                              *)
LEMMA WalkAnsweredClosed ==
  ASSUME NEW p, NEW st, NEW res, NEW fr \in WalkFrame, InSite(fr), fr.site.todo # {},
         WalkClosed(p, st, res, fr), NEW got \in (SUBSET V) \cup {None},
         got = None \/ Key(NextCallee(fr.site), fr.site.arg) \in Finals(st, res, got)
  PROVE  WalkClosed(p, st, res, Answered(fr, got))
<1>1. PICK s, w, ops : s = fr.site /\ w = fr.w /\ ops = w.deferred
  OBVIOUS
<1>2. /\ fr.kind = "walk" /\ w \in Walk /\ s \in SiteCall /\ s # None
      /\ ops \in Seq(DeferredOp) /\ fr.vals \in Seq(Value)
  BY <1>1, WalkFrameType, WalkFields DEF InSite
<1>3. /\ SitesTaken(p, st, res, fr.ctx, w, fr.vals)
      /\ ~NeedsDefer(CalleeNow(p, fr), ArgNow(p, fr))
      /\ s.arg = ArgNow(p, fr).known /\ s.out.pending \subseteq DOMAIN ops
      /\ SiteOpen(CalleeNow(p, fr).known, s, AnswersNow(st, res, w, s))
  BY <1>1, <1>2, WalkAtSite
<1>4. Answered(fr, got) = CallAnswered(fr, got)
  BY <1>2 DEF Answered
<1>5. PICK key : key = Key(NextCallee(s), s.arg)
  OBVIOUS
<1>6. CASE s.arg = {} \/ got # None
  <2>1. PICK K : /\ s.arg # {} => K = got /\ got # None
                 /\ CallAnswered(fr, got) =
                       [fr EXCEPT !.site = SiteAnswered(s, [known |-> K, pending |-> {}])]
    <3>1. CASE s.arg = {}
      <4>1. CallAnswered(fr, got) =
              [fr EXCEPT !.site = SiteAnswered(s, [known |-> {}, pending |-> {}])]
        BY <1>1, <1>2, <3>1 DEF CallAnswered, WalkFrame
      <4> QED BY <3>1, <4>1
    <3>2. CASE s.arg # {}
      <4>1. CallAnswered(fr, got) =
              [fr EXCEPT !.site = SiteAnswered(s, [known |-> got, pending |-> {}])]
        BY <1>1, <1>2, <1>6, <3>2 DEF CallAnswered, WalkFrame
      <4> QED BY <1>6, <3>2, <4>1
    <3> QED BY <3>1, <3>2
  <2>2. PICK v, t : v = [known |-> K, pending |-> {}] /\ t = SiteAnswered(s, v)
    OBVIOUS
  <2>3. t.out = Join(s.out, v) /\ t.arg = s.arg
    BY <1>2, <2>2 DEF SiteAnswered, SiteCall
  <2>4. t.out.pending = s.out.pending /\ t.out.known = s.out.known \cup K
    BY <2>2, <2>3 DEF Join
  <2>5. AnswersNow(st, res, w, s) \subseteq AnswersNow(st, res, w, t)
    BY <2>4 DEF AnswersNow, Applied, Finals
  <2>6. s.arg # {} => key \in AnswersNow(st, res, w, t)
    BY <1>1, <1>5, <2>1, <2>4 DEF AnswersNow, Finals
  <2>7. SiteOpen(CalleeNow(p, fr).known, t, AnswersNow(st, res, w, t))
    <3>1. PICK D, E, callees : D = AnswersNow(st, res, w, s) /\ E = AnswersNow(st, res, w, t)
                               /\ callees = CalleeNow(p, fr).known
      OBVIOUS
    <3>2. SiteOpen(callees, s, D) /\ s.todo # {} /\ D \subseteq E
      BY <1>1, <1>3, <2>5, <3>1
    <3>3. s.arg # {} => Key(NextCallee(s), s.arg) \in E
      BY <1>5, <2>6, <3>1
    <3>4. SiteOpen(callees, SiteAnswered(s, v), E)
      BY <1>2, <3>2, <3>3, SiteAnsweredOpen
    <3> QED BY <2>2, <3>1, <3>4
  <2>8. PICK gr : gr = [fr EXCEPT !.site = t] /\ gr = Answered(fr, got)
    BY <1>4, <2>1, <2>2
  <2>9. gr.w = w /\ gr.vals = fr.vals /\ gr.ctx = fr.ctx /\ gr.site = t
    BY <1>1, <2>8 DEF WalkFrame
  <2>10. CalleeNow(p, gr) = CalleeNow(p, fr) /\ ArgNow(p, gr) = ArgNow(p, fr)
    BY <2>9 DEF CalleeNow, ArgNow
  <2>11. WalkClosed(p, st, res, gr)
    BY <1>1, <1>3, <2>3, <2>4, <2>7, <2>9, <2>10, WalkIsClosed
  <2> QED BY <2>8, <2>11
<1>7. CASE s.arg # {} /\ got = None
  <2>1. PICK op : op = [op |-> "Apply", ctx |-> key]
    OBVIOUS
  <2>2. NextCallee(s) \in Func /\ s.arg \in SUBSET V
    BY <1>1, <1>2, NextCalleeIn DEF SiteCall
  <2>3. op \in DeferredOp /\ op.op = "Apply" /\ op.ctx = key
    BY <1>5, <2>1, <2>2, KeyType DEF DeferredOp
  <2>4. PICK u, more, n : /\ u = [w EXCEPT !.deferred = Append(@, op)]
                          /\ more = Append(ops, op) /\ n = Len(ops) + 1
    OBVIOUS
  <2>5. u.deferred = more /\ u.calls = w.calls
    BY <1>1, <1>2, <2>4 DEF Walk
  <2>6. SitesTaken(p, st, res, fr.ctx, u, fr.vals)
    BY <1>1, <1>2, <1>3, <2>3, <2>4, <2>5, SitesTakenMore
  <2>7. OpsMore(ops, more) /\ n \in DOMAIN more /\ more[n] = op
    <3>1. /\ OpsMore(ops, more) /\ DOMAIN more = DOMAIN ops \cup {Len(ops) + 1}
          /\ more[Len(ops) + 1] = op
      <4>1. ops \in Seq(DeferredOp) /\ op \in DeferredOp /\ more = Append(ops, op)
        BY <1>2, <2>3, <2>4
      <4> QED BY <4>1, AppendMore
    <3> QED BY <2>4, <3>1
  <2>8. PICK v, t : v = [known |-> {}, pending |-> {n}] /\ t = SiteAnswered(s, v)
    OBVIOUS
  <2>9. t.out = Join(s.out, v) /\ t.arg = s.arg
    BY <1>2, <2>8 DEF SiteAnswered, SiteCall
  <2>10. t.out.pending = s.out.pending \cup {n} /\ t.out.known = s.out.known
    BY <2>8, <2>9 DEF Join
  <2>11. AnswersNow(st, res, w, s) \subseteq AnswersNow(st, res, u, t)
    BY <1>1, <2>5, <2>7, <2>10 DEF AnswersNow, Applied, OpsMore
  <2>12. key \in AnswersNow(st, res, u, t)
    <3>1. n \in t.out.pending \cap DOMAIN more
      BY <2>7, <2>10
    <3>2. key \in Applied(more, t.out)
      BY <2>3, <2>7, <3>1 DEF Applied
    <3> QED BY <2>5, <3>2 DEF AnswersNow
  <2>13. SiteOpen(CalleeNow(p, fr).known, t, AnswersNow(st, res, u, t))
    <3>1. PICK D, E, callees : D = AnswersNow(st, res, w, s) /\ E = AnswersNow(st, res, u, t)
                               /\ callees = CalleeNow(p, fr).known
      OBVIOUS
    <3>2. SiteOpen(callees, s, D) /\ s.todo # {} /\ D \subseteq E
      BY <1>1, <1>3, <2>11, <3>1
    <3>3. Key(NextCallee(s), s.arg) \in E
      BY <1>5, <2>12, <3>1
    <3>4. SiteOpen(callees, SiteAnswered(s, v), E)
      BY <1>2, <3>2, <3>3, SiteAnsweredOpen
    <3> QED BY <2>8, <3>1, <3>4
  <2>14. Wanted(fr) = key
    BY <1>1, <1>2, <1>5 DEF Wanted
  <2>15. PICK gr : gr = [fr EXCEPT !.w = u, !.site = t] /\ gr = Answered(fr, got)
    <3>1. CallAnswered(fr, got) = [fr EXCEPT
              !.w.deferred = Append(@, op), !.site = SiteAnswered(@, v)]
      BY <1>1, <1>2, <1>7, <2>1, <2>4, <2>8, <2>14 DEF CallAnswered
    <3>2. [fr EXCEPT !.w.deferred = Append(@, op), !.site = SiteAnswered(@, v)]
              = [fr EXCEPT !.w = u, !.site = t]
      BY <1>1, <2>4, <2>8 DEF WalkFrame
    <3> QED BY <1>4, <3>1, <3>2
  <2>16. gr.w = u /\ gr.vals = fr.vals /\ gr.ctx = fr.ctx /\ gr.site = t
    BY <2>15 DEF WalkFrame
  <2>17. CalleeNow(p, gr) = CalleeNow(p, fr) /\ ArgNow(p, gr) = ArgNow(p, fr)
    BY <2>16 DEF CalleeNow, ArgNow
  <2>18. t.out.pending \subseteq DOMAIN more
    BY <1>3, <2>7, <2>10 DEF OpsMore
  <2>19. WalkClosed(p, st, res, gr)
    BY <1>3, <2>5, <2>6, <2>9, <2>13, <2>16, <2>17, <2>18, WalkIsClosed
  <2> QED BY <2>15, <2>19
<1> QED BY <1>6, <1>7

(* What a value resolves to depends on the operations it is pending on.    *)
LEMMA SubstituteSame ==
  ASSUME NEW v, NEW now, NEW then, DOMAIN then = DOMAIN now,
         \A d \in v.pending \cap DOMAIN now : then[d] = now[d]
  PROVE  Substitute(v, then) = Substitute(v, now)
<1>1. \A x : x \in UNION {then[d] : d \in v.pending \cap DOMAIN then}
               <=> x \in UNION {now[d] : d \in v.pending \cap DOMAIN now}
  OBVIOUS
<1>2. UNION {then[d] : d \in v.pending \cap DOMAIN then} = UNION {now[d] : d \in v.pending \cap DOMAIN now}
  BY <1>1
<1> QED BY <1>2 DEF Substitute

(* Only the edge of operation j of w may have changed in u.                *)
EdgeRefilled(w, u, j) ==
    /\ u.deferred = w.deferred
    /\ \A i \in DOMAIN w.deferred :
          w.deferred[i].op = "Call" /\ i # j
            => u.calls[w.deferred[i].site] = w.calls[w.deferred[i].site]

(* The operation a replay is at has its value v: it is settled, and those  *)
(* before it stay so.                                                      *)
LEMMA OpDoneClosed ==
  ASSUME NEW st, NEW res, NEW hs, NEW cur, NEW fr \in ResolveFrame, ~Capped(fr),
         NEW w \in Walk, ReplayClosed(st, res, hs, cur, w, fr),
         fr.pc \in DOMAIN w.deferred, DOMAIN fr.now = DOMAIN w.deferred,
         NEW n, OpsOrdered(w.deferred, n), NEW u, EdgeRefilled(w, u, fr.pc),
         NEW op, op = w.deferred[fr.pc], NEW v, NEW D,
         D = Answering(st, res, hs, cur, fr.head, v),
         op.op = "Apply" => op.ctx \in D,
         op.op # "Apply" =>
             /\ Accounted(Substitute(op.callee, fr.now), Substitute(op.arg, fr.now), v, D)
             /\ u.calls[op.site] = Keys(Substitute(op.callee, fr.now), Substitute(op.arg, fr.now))
  PROVE  ReplayClosed(st, res, hs, cur, u, OpDone(fr, v))
<1>1. PICK ops, now, then, gr :
          /\ ops = w.deferred /\ now = fr.now /\ then = [now EXCEPT ![fr.pc] = v]
          /\ gr = OpDone(fr, v)
  OBVIOUS
<1>2. /\ ops \in Seq(DeferredOp) /\ DOMAIN ops = 1..Len(ops) /\ Len(ops) \in Nat
      /\ \A j \in DOMAIN ops : ops[j].op \in {"Apply", "Call"}
  BY <1>1, WalkFields, SeqType, OpType
<1>3. fr.pc \in Nat /\ fr.now \in Seq(SUBSET V) /\ fr.head \in Ctx
  BY ResolveFrameType
<1>4. gr.now = then /\ gr.pc = fr.pc + 1 /\ gr.site = None /\ gr.head = fr.head
  <2>1. gr = [fr EXCEPT !.now[fr.pc] = v, !.pc = @ + 1, !.site = None]
    BY <1>1 DEF OpDone
  <2> QED BY <1>1, <2>1 DEF ResolveFrame
<1>5. DOMAIN then = DOMAIN now /\ then[fr.pc] = v /\ \A j \in DOMAIN now : j # fr.pc => then[j] = now[j]
  BY <1>1
<1>6. ASSUME NEW j \in DOMAIN ops, j <= fr.pc, ops[j].op = "Call"
      PROVE  /\ Substitute(ops[j].callee, then) = Substitute(ops[j].callee, now)
             /\ Substitute(ops[j].arg, then) = Substitute(ops[j].arg, now)
  <2>1. ops[j].callee.pending \cup ops[j].arg.pending \subseteq 1..(j - 1)
    BY <1>1, <1>6 DEF OpsOrdered
  <2>2. \A d \in 1..(j - 1) : d # fr.pc
    BY <1>2, <1>3, <1>6
  <2>3. \A d \in ops[j].callee.pending \cap DOMAIN now : then[d] = now[d]
    BY <1>5, <2>1, <2>2
  <2>4. \A d \in ops[j].arg.pending \cap DOMAIN now : then[d] = now[d]
    BY <1>5, <2>1, <2>2
  <2> QED BY <1>5, <2>3, <2>4, SubstituteSame
<1>7. FinalsKept(st, res, st, res) /\ GroupStays(st, hs, cur, st, hs, cur, fr.head)
  BY DEF FinalsKept, GroupStays
<1>8. ASSUME NEW j \in DOMAIN ops, j < fr.pc
      PROVE  OpSettled(st, res, hs, cur, fr.head, u, then, j)
  <2>1. OpSettled(st, res, hs, cur, fr.head, w, now, j)
    BY <1>1, <1>8 DEF ReplayClosed
  <2>2. u.deferred[j] = w.deferred[j] /\ j # fr.pc
    BY <1>2, <1>3, <1>8 DEF EdgeRefilled
  <2>3. then[j] = now[j]
    BY <1>1, <1>5, <2>2
  <2>4. w.deferred[j].op # "Apply" =>
             /\ Substitute(w.deferred[j].callee, then) = Substitute(w.deferred[j].callee, now)
             /\ Substitute(w.deferred[j].arg, then) = Substitute(w.deferred[j].arg, now)
             /\ u.calls[w.deferred[j].site] = w.calls[w.deferred[j].site]
    <3>1. ASSUME w.deferred[j].op # "Apply"
          PROVE  /\ Substitute(ops[j].callee, then) = Substitute(ops[j].callee, now)
                 /\ Substitute(ops[j].arg, then) = Substitute(ops[j].arg, now)
                 /\ u.calls[w.deferred[j].site] = w.calls[w.deferred[j].site]
      <4>1. ops[j].op = "Call" /\ j <= fr.pc
        BY <1>1, <1>2, <1>3, <1>8, <3>1
      <4> QED BY <1>1, <1>6, <2>2, <4>1 DEF EdgeRefilled
    <3> QED BY <1>1, <3>1
  <2> QED BY <1>7, <2>1, <2>2, <2>3, <2>4, OpSettledMore
<1>9. OpSettled(st, res, hs, cur, fr.head, u, then, fr.pc)
  <2>1. u.deferred[fr.pc] = op /\ ops[fr.pc] = op /\ then[fr.pc] = v /\ op.op \in {"Apply", "Call"}
    BY <1>1, <1>2, <1>5 DEF EdgeRefilled
  <2>2. CASE op.op = "Apply"
    BY <2>1, <2>2 DEF OpSettled
  <2>3. CASE op.op = "Call"
    <3>1. /\ Substitute(op.callee, then) = Substitute(op.callee, now)
          /\ Substitute(op.arg, then) = Substitute(op.arg, now)
      BY <1>1, <1>3, <1>6, <2>1, <2>3
    <3> QED BY <1>1, <2>1, <2>3, <3>1 DEF OpSettled
  <2> QED BY <2>1, <2>2, <2>3
<1>10. ASSUME NEW j \in DOMAIN u.deferred, j < gr.pc
       PROVE  OpSettled(st, res, hs, cur, gr.head, u, gr.now, j)
  <2>1. j \in DOMAIN ops /\ (j < fr.pc \/ j = fr.pc)
    BY <1>1, <1>2, <1>3, <1>4, <1>10 DEF EdgeRefilled
  <2> QED BY <1>4, <1>8, <1>9, <2>1
<1> QED BY <1>1, <1>4, <1>10 DEF ReplayClosed

(* A callee of a replay answers.                                           *)
LEMMA ReplayAnsweredClosed ==
  ASSUME NEW st, NEW res, NEW hs, NEW cur, NEW wk, NEW fr \in ResolveFrame, ~Capped(fr),
         Replays(fr), AsksIn(wk, fr), NEW w \in Walk, w = wk[Member(fr)],
         ReplayClosed(st, res, hs, cur, w, fr),
         DOMAIN fr.now = DOMAIN w.deferred, NEW n, OpsOrdered(w.deferred, n),
         NEW got \in SUBSET V,
         WantedIn(wk, fr) \in Answering(st, res, hs, cur, fr.head, got)
  PROVE  ReplayClosed(st, res, hs, cur, w, Answered(fr, got))
<1>1. /\ fr.kind = "resolve" /\ fr.pc \in Nat \ {0} /\ fr.site \in SiteCall \cup {None}
      /\ got # None /\ w.deferred \in Seq(DeferredOp)
  BY ResolveFrameType, WalkFields, NoneAssumption
<1>2. FinalsKept(st, res, st, res) /\ GroupStays(st, hs, cur, st, hs, cur, fr.head)
  BY DEF FinalsKept, GroupStays
<1>3. CASE InSite(fr)
  <2>1. PICK s : s = fr.site /\ s.todo # {} /\ s \in SiteCall /\ s # None
    BY <1>1, <1>3 DEF AsksIn, InSite
  <2>2. WantedIn(wk, fr) = Key(NextCallee(s), s.arg)
    BY <1>1, <1>3, <2>1 DEF WantedIn
  <2>3. Answered(fr, got) = CallAnswered(fr, got)
    BY <1>1, <1>3 DEF Answered
  <2>4. PICK K : /\ s.arg # {} => K = got
                 /\ CallAnswered(fr, got) =
                       [fr EXCEPT !.site = SiteAnswered(s, [known |-> K, pending |-> {}])]
    <3>1. CASE s.arg = {}
      <4>1. CallAnswered(fr, got) =
              [fr EXCEPT !.site = SiteAnswered(s, [known |-> {}, pending |-> {}])]
        BY <1>1, <2>1, <3>1 DEF CallAnswered, ResolveFrame
      <4> QED BY <3>1, <4>1
    <3>2. CASE s.arg # {}
      <4>1. CallAnswered(fr, got) =
              [fr EXCEPT !.site = SiteAnswered(s, [known |-> got, pending |-> {}])]
        BY <1>1, <2>1, <3>2 DEF CallAnswered, ResolveFrame
      <4> QED BY <4>1
    <3> QED BY <3>1, <3>2
  <2>5. PICK v, t : v = [known |-> K, pending |-> {}] /\ t = SiteAnswered(s, v)
    OBVIOUS
  <2>6. t.out.known = s.out.known \cup K /\ t.arg = s.arg
    <3>1. t.out = Join(s.out, v) /\ t.arg = s.arg
      BY <2>1, <2>5 DEF SiteAnswered, SiteCall
    <3> QED BY <2>5, <3>1 DEF Join
  <2>7. PICK D, E, G : /\ D = Answering(st, res, hs, cur, fr.head, s.out.known)
                       /\ E = Answering(st, res, hs, cur, fr.head, t.out.known)
                       /\ G = Answering(st, res, hs, cur, fr.head, got)
    OBVIOUS
  <2>8. D \subseteq E /\ (K = got => G \subseteq E)
    <3>1. s.out.known \subseteq t.out.known /\ (K = got => got \subseteq t.out.known)
      BY <2>6
    <3> QED BY <1>2, <2>7, <3>1, AnsweringMore
  <2>9. PICK op, callees : op = w.deferred[fr.pc] /\ callees = Substitute(op.callee, fr.now)
    OBVIOUS
  <2>10. /\ fr.pc \in DOMAIN w.deferred /\ op.op = "Call" /\ s.arg = Substitute(op.arg, fr.now)
         /\ SiteOpen(callees, s, D)
    BY <2>1, <2>7, <2>9 DEF ReplayClosed
  <2>11. SiteOpen(callees, t, E)
    <3>1. s.arg # {} => Key(NextCallee(s), s.arg) \in E
      BY <2>2, <2>4, <2>7, <2>8
    <3> QED BY <2>1, <2>5, <2>8, <2>10, <3>1, SiteAnsweredOpen
  <2>12. PICK gr : gr = [fr EXCEPT !.site = t] /\ gr = Answered(fr, got)
    BY <2>3, <2>4, <2>5
  <2>13. gr.now = fr.now /\ gr.site = t /\ gr.pc = fr.pc /\ gr.head = fr.head
    BY <2>12 DEF ResolveFrame
  <2>14. \A j \in DOMAIN w.deferred :
             j < gr.pc => OpSettled(st, res, hs, cur, gr.head, w, gr.now, j)
    BY <2>13 DEF ReplayClosed
  <2>15. ReplayClosed(st, res, hs, cur, w, gr)
    BY <2>6, <2>7, <2>9, <2>10, <2>11, <2>13, <2>14 DEF ReplayClosed
  <2> QED BY <2>12, <2>15
<1>4. CASE ~InSite(fr)
  <2>1. PICK op : op = w.deferred[fr.pc]
    OBVIOUS
  <2>2. /\ fr.pc <= Len(w.deferred) /\ op.op = "Apply" /\ WantedIn(wk, fr) = op.ctx
    BY <1>1, <1>4, <2>1 DEF AsksIn, WantedIn, OpsOf
  <2>3. fr.pc \in DOMAIN w.deferred
    BY <1>1, <2>2, SeqType
  <2>4. Answered(fr, got) = OpDone(fr, got)
    BY <1>1, <1>4 DEF Answered
  <2>5. EdgeRefilled(w, w, fr.pc)
    BY DEF EdgeRefilled
  <2>6. PICK D : D = Answering(st, res, hs, cur, fr.head, got)
    OBVIOUS
  <2>7. op.ctx \in D /\ op.op = "Apply"
    BY <2>2, <2>6
  <2>8. ReplayClosed(st, res, hs, cur, w, OpDone(fr, got))
    BY <2>1, <2>3, <2>5, <2>6, <2>7, OpDoneClosed
  <2> QED BY <2>4, <2>8
<1> QED BY <1>3, <1>4

-----------------------------------------------------------------------------
(* What a reader is told.                                                  *)

(* The answer of a call is a finished summary, or the reader is told that  *)
(* it is not: a walk defers it or has read a cut, and a fixpoint, which    *)
(* also gets what its own group has so far, knows that it was disturbed.   *)
Honest(st, res, hs, cur, wk, fr, n, got) ==
    /\ fr.kind = "walk" =>
          got = None \/ n.cut # None \/ WantedIn(wk, fr) \in Finals(st, res, got)
    /\ fr.kind = "resolve" =>
          \/ got # None /\ WantedIn(wk, fr) \in Answering(st, res, hs, cur, fr.head, got)
          \/ n.lowest < NoDepth \/ n.joins # None \/ n.cut # None

(* A fixpoint that is told something is disturbed, and stays so.           *)
LEMMA DisturbedTold ==
  ASSUME NEW fx \in Fixpoint \cup {None}, NEW cs, NEW ds, SameFrames(cs, ds),
         NEW stk \in Seq(Ctx), NEW n \in Note, NEW ft, ft = FixpointTold(fx, stk, n), NEW h
  PROVE  /\ Disturbed(fx, cs, h) => Disturbed(ft, ds, h)
         /\ ReaderIsFixpoint(fx, stk) /\ fx.head = h
              /\ (n.lowest < NoDepth \/ n.joins # None \/ n.cut # None)
            => Disturbed(ft, ds, h)
<1>1. CASE ReaderIsFixpoint(fx, stk)
  <2>1. /\ fx \in Fixpoint /\ fx # None /\ ft # None /\ ft.head = fx.head
        /\ ft.read = Noted(fx.read, n)
    BY <1>1, FixpointToldKeeps DEF ReaderIsFixpoint
  <2>2. /\ fx.read \in Note /\ NoDepth \in Nat /\ fx.read.lowest \in Nat /\ n.lowest \in Nat
        /\ ft.read.lowest \in Nat
    BY <2>1, NotedType, LimitAssumption DEF Fixpoint, Note, NoDepth
  <2>3. /\ ft.read.lowest <= fx.read.lowest /\ ft.read.lowest <= n.lowest
        /\ fx.read.joins # None \/ n.joins # None => ft.read.joins # None
        /\ fx.read.cut # None \/ n.cut # None => ft.read.cut # None
    BY <2>1, <2>2, NotedGrows
  <2>4. Loud(fx, h) => Loud(ft, h)
    BY <2>1, <2>2, <2>3 DEF Loud
  <2>5. fx.head = h /\ (n.lowest < NoDepth \/ n.joins # None \/ n.cut # None) => Loud(ft, h)
    BY <2>1, <2>2, <2>3 DEF Loud
  <2> QED BY <2>4, <2>5 DEF Disturbed, SameFrames, SameLinks
<1>2. CASE ~ReaderIsFixpoint(fx, stk)
  <2>1. ft = fx
    BY <1>2, FixpointToldKeeps
  <2> QED BY <1>2, <2>1 DEF Disturbed, SameFrames, SameLinks
<1> QED BY <1>1, <1>2

(* A fixpoint that is answered goes on with the member it replays.         *)
LEMMA AnswerKeepsReplay ==
  ASSUME NEW fr \in ResolveFrame, NEW got, NEW gr, gr = Answered(fr, got)
  PROVE  /\ gr.kind = fr.kind /\ gr.head = fr.head /\ gr.members = fr.members
         /\ gr.at = fr.at /\ gr.changed = fr.changed /\ DOMAIN gr.now = DOMAIN fr.now
         /\ gr.site # None => fr.site # None /\ gr.pc = fr.pc
<1>1. fr.kind = "resolve"
  BY ResolveFrameType
<1>2. CASE InSite(fr)
  <2>1. gr = CallAnswered(fr, got)
    BY <1>1, <1>2 DEF Answered
  <2>2. \E s : gr = [fr EXCEPT !.site = s]
    BY <1>1, <2>1 DEF CallAnswered
  <2> QED BY <1>2, <2>2 DEF ResolveFrame, InSite
<1>3. CASE ~InSite(fr)
  <2>1. \E v : gr = OpDone(fr, v)
    BY <1>1, <1>3 DEF Answered
  <2>2. \E v, k : gr = [fr EXCEPT !.now[fr.pc] = v, !.pc = k, !.site = None]
    BY <2>1 DEF OpDone
  <2> QED BY <2>2 DEF ResolveFrame
<1> QED BY <1>2, <1>3

(* A round stays closed when the operation it replays is answered.         *)
LEMMA RoundAnswered ==
  ASSUME NEW p, NEW st, NEW res, NEW hs, NEW cur, NEW rd, NEW wk,
         NEW fr \in ResolveFrame, ~Capped(fr), AsksIn(wk, fr),
         RoundClosed(st, res, hs, cur, rd, wk, fr),
         Replays(fr) => /\ st[Member(fr)] \in Waiting /\ wk[Member(fr)] \in Walk
                        /\ DOMAIN fr.now = DOMAIN OpsOf(wk, fr),
         WaitersClosed(p, st, res, rd, wk),
         NEW rt, \A c \in Ctx : rt[c].cut = None => rd[c].cut = None,
         NEW got \in SUBSET V,
         WantedIn(wk, fr) \in Answering(st, res, hs, cur, fr.head, got)
  PROVE  RoundClosed(st, res, hs, cur, rt, wk, Answered(fr, got))
<1>1. PICK gr : gr = Answered(fr, got)
  OBVIOUS
<1>2. /\ gr.head = fr.head /\ gr.members = fr.members /\ gr.at = fr.at
      /\ fr.members \in Seq(Ctx) /\ fr.at \in Nat \ {0} /\ fr.kind = "resolve"
  BY <1>1, AnswerKeepsReplay, ResolveFrameType
<1>3. SUFFICES ASSUME NEW k \in DOMAIN fr.members, rt[fr.members[k]].cut = None
               PROVE  LET c == fr.members[k] IN
                      /\ k < fr.at => MemberClosed(st, res, hs, cur, fr.head, wk[c], c)
                      /\ k = fr.at => ReplayClosed(st, res, hs, cur, wk[c], gr)
  BY <1>1, <1>2 DEF RoundClosed
<1>4. PICK c : c = fr.members[k] /\ c \in Ctx /\ rd[c].cut = None
  BY <1>2, <1>3, SeqType
<1>5. ASSUME k = fr.at PROVE ReplayClosed(st, res, hs, cur, wk[c], gr)
  <2>1. c = Member(fr) /\ Replays(fr)
    BY <1>2, <1>4, <1>5, SeqType DEF Member, Replays
  <2>2. st[c] \in Waiting /\ wk[c] \in Walk /\ DOMAIN fr.now = DOMAIN wk[c].deferred
    BY <2>1 DEF OpsOf
  <2>3. PICK n : OpsOrdered(wk[c].deferred, n)
    BY <1>4, <2>2 DEF WaitersClosed, WaiterClosed, SitesTaken
  <2>4. ReplayClosed(st, res, hs, cur, wk[c], fr)
    BY <1>4, <1>5 DEF RoundClosed
  <2>5. PICK w : w = wk[c]
    OBVIOUS
  <2> QED BY <1>1, <2>1, <2>2, <2>3, <2>4, <2>5, ReplayAnsweredClosed
<1> QED BY <1>4, <1>5 DEF RoundClosed

(* The frame on top asks, with everything closed, and gets an honest       *)
(* answer.                                                                 *)
Answerable(p, st, res, hs, cur, rd, wk, fx, cs, stk, n, got) ==
    LET top == cs[Len(cs)] IN
    /\ FramesFit(cs, stk, fx) /\ Waits(top) /\ AsksIn(wk, top)
    /\ top.kind = "resolve" => ~Capped(top)
    /\ FramesClosed(p, st, res, hs, cur, rd, wk, fx, cs)
    /\ WaitersClosed(p, st, res, rd, wk) /\ PlacesFit(st, wk, cs)
    /\ Replays(top) => st[Member(top)] \in Waiting /\ wk[Member(top)] \in Walk
    /\ Honest(st, res, hs, cur, wk, top, n, got)

(* Frames and waiting contexts stay closed when the frame on top is        *)
(* answered.                                                               *)
LEMMA ClosedAfterReturn ==
  ASSUME NEW cs \in Seq(Frame), NEW stk \in Seq(Ctx), NEW fx \in Fixpoint \cup {None},
         NEW rd \in [Ctx -> Note], NEW n \in Note, NEW got \in (SUBSET V) \cup {None},
         NEW p, NEW st, NEW res, NEW hs, NEW cur, NEW wk,
         Answerable(p, st, res, hs, cur, rd, wk, fx, cs, stk, n, got),
         NEW rt, rt = ReadsTold(rd, fx, stk, n), NEW ft, ft = FixpointTold(fx, stk, n),
         NEW ds, ds = Answer(cs, got)
  PROVE  /\ FramesClosed(p, st, res, hs, cur, rt, wk, ft, ds)
         /\ WaitersClosed(p, st, res, rt, wk) /\ PlacesFit(st, wk, ds)
<1>0. LET top == cs[Len(cs)] IN
      /\ FramesFit(cs, stk, fx) /\ Waits(top) /\ AsksIn(wk, top)
      /\ top.kind = "resolve" => ~Capped(top)
      /\ FramesClosed(p, st, res, hs, cur, rd, wk, fx, cs)
      /\ WaitersClosed(p, st, res, rd, wk) /\ PlacesFit(st, wk, cs)
      /\ Replays(top) => st[Member(top)] \in Waiting /\ wk[Member(top)] \in Walk
      /\ Honest(st, res, hs, cur, wk, top, n, got)
  BY DEF Answerable
<1> USE <1>0
<1>1. PICK k \in Nat : k = Len(cs) /\ DOMAIN cs = 1..k /\ k \in 1..k
  BY SeqType DEF FramesFit
<1>2. /\ DOMAIN ds = DOMAIN cs /\ \A i \in DOMAIN cs : i # k => ds[i] = cs[i]
      /\ \A i \in DOMAIN cs : SameShape(cs[i], ds[i]) /\ SameLinks(cs[i], ds[i])
      /\ ds[k] = Answered(cs[k], got)
  BY <1>1, AnswerLinks
<1>3. \A h : Disturbed(fx, cs, h) => Disturbed(ft, ds, h)
  <2>1. SameFrames(cs, ds)
    BY <1>2 DEF SameFrames
  <2> QED BY <2>1, DisturbedTold
<1>4. \A c \in Ctx : rt[c].cut = None => rd[c].cut = None
  BY ReadsToldGrow DEF Grown
<1>5. PICK top : top = cs[k]
  OBVIOUS
<1>6. ASSUME NEW i \in DOMAIN cs, cs[i].kind = "walk", rt[ds[i].ctx].cut = None
      PROVE  WalkClosed(p, st, res, ds[i])
  <2>1. ds[i].ctx = cs[i].ctx /\ cs[i] \in WalkFrame
    BY <1>1, <1>2, <1>6, SeqType, FrameType DEF SameShape
  <2>2. cs[i].ctx \in Ctx
    BY <2>1, WalkFrameType
  <2>3. WalkClosed(p, st, res, cs[i])
    BY <1>4, <1>6, <2>1, <2>2 DEF FramesClosed, FrameClosed
  <2>4. CASE i # k
    BY <1>2, <2>3, <2>4
  <2>5. CASE i = k
    <3>1. InSite(top) /\ top.site.todo # {} /\ top \in WalkFrame /\ top.kind = "walk"
      BY <1>1, <1>5, <1>6, <2>1, <2>5 DEF AsksIn, Replays
    <3>2. WantedIn(wk, top) = Key(NextCallee(top.site), top.site.arg)
      BY <3>1 DEF WantedIn
    <3>3. n.cut = None
      <4>1. ~ReaderIsFixpoint(fx, stk)
        BY <1>1, <1>6, <2>5, WalkReads
      <4>2. stk # <<>> /\ stk[Len(stk)] = cs[k].ctx
        BY <1>1, <1>6, <2>5, PopWalk
      <4>3. rt[cs[k].ctx] = Noted(rd[cs[k].ctx], n)
        BY <2>2, <2>5, <4>1, <4>2, ReadsToldKeeps
      <4>4. rd[cs[k].ctx] \in Note
        BY <2>2, <2>5
      <4>5. n.cut # None => Noted(rd[cs[k].ctx], n).cut # None
        BY <4>4, NotedGrows
      <4> QED BY <1>6, <2>1, <2>5, <4>3, <4>5
    <3>4. got = None \/ Key(NextCallee(top.site), top.site.arg) \in Finals(st, res, got)
      BY <1>1, <1>5, <3>1, <3>2, <3>3 DEF Honest
    <3>5. WalkClosed(p, st, res, Answered(top, got))
      BY <1>5, <2>3, <2>5, <3>1, <3>4, WalkAnsweredClosed
    <3> QED BY <1>2, <1>5, <2>5, <3>5
  <2> QED BY <2>4, <2>5
<1>7. ASSUME NEW i \in DOMAIN cs, cs[i].kind = "resolve", ~ds[i].changed,
             ~Disturbed(ft, ds, ds[i].head)
      PROVE  RoundClosed(st, res, hs, cur, rt, wk, ds[i])
  <2>1. ds[i].head = cs[i].head /\ cs[i] \in ResolveFrame
    BY <1>1, <1>2, <1>7, SeqType, FrameType DEF SameShape
  <2>2. CASE i # k
    <3>1. RoundClosed(st, res, hs, cur, rd, wk, cs[i])
      BY <1>2, <1>3, <1>7, <2>1, <2>2 DEF FramesClosed, FrameClosed
    <3>2. \A j \in DOMAIN cs[i].members : cs[i].members[j] \in Ctx
      BY <2>1, ResolveFrameType, SeqType
    <3> QED BY <1>2, <1>4, <2>2, <3>1, <3>2 DEF RoundClosed
  <2>3. CASE i = k
    <3>1. top \in ResolveFrame /\ top.kind = "resolve" /\ AsksIn(wk, top) /\ ~Capped(top)
      BY <1>1, <1>5, <1>7, <2>1, <2>3
    <3>2. ~top.changed
      BY <1>2, <1>5, <1>7, <2>3, <3>1, AnswerKeepsReplay
    <3>3. RoundClosed(st, res, hs, cur, rd, wk, top)
      BY <1>3, <1>5, <1>7, <2>1, <2>3, <3>1, <3>2 DEF FramesClosed, FrameClosed
    <3>4. got # None /\ WantedIn(wk, top) \in Answering(st, res, hs, cur, top.head, got)
      <4>1. ReaderIsFixpoint(fx, stk) /\ fx.head = top.head
        BY <1>1, <1>5, <3>1, FixpointReads
      <4>2. ~(n.lowest < NoDepth \/ n.joins # None \/ n.cut # None)
        <5>1. SameFrames(cs, ds)
          BY <1>2 DEF SameFrames
        <5> QED BY <1>5, <1>7, <2>1, <2>3, <4>1, <5>1, DisturbedTold
      <4> QED BY <1>1, <1>5, <3>1, <4>2 DEF Honest
    <3>5. Replays(top) => /\ st[Member(top)] \in Waiting /\ wk[Member(top)] \in Walk
                          /\ DOMAIN top.now = DOMAIN OpsOf(wk, top)
      BY <1>1, <1>5 DEF PlacesFit, Placed
    <3>6. RoundClosed(st, res, hs, cur, rt, wk, Answered(top, got))
      BY <1>4, <3>1, <3>3, <3>4, <3>5, RoundAnswered
    <3> QED BY <1>2, <1>5, <2>3, <3>6
  <2> QED BY <2>2, <2>3
<1>8. FramesClosed(p, st, res, hs, cur, rt, wk, ft, ds)
  BY <1>2, <1>6, <1>7 DEF FramesClosed, FrameClosed, SameShape
<1>9. WaitersClosed(p, st, res, rt, wk)
  BY <1>4 DEF WaitersClosed
<1>10. ASSUME NEW i \in DOMAIN ds, Replays(ds[i])
       PROVE  Placed(wk, ds[i])
  <2>1. CASE i # k
    BY <1>2, <1>10, <2>1 DEF PlacesFit
  <2>2. CASE i = k
    <3>1. cs[k].kind = "resolve" /\ cs[k] \in ResolveFrame
      BY <1>1, <1>2, <1>10, <2>2, SeqType, FrameType DEF SameShape, Replays
    <3>2. /\ ds[k].members = cs[k].members /\ ds[k].at = cs[k].at
          /\ DOMAIN ds[k].now = DOMAIN cs[k].now /\ ds[k].kind = "resolve"
          /\ ds[k].site # None => cs[k].site # None /\ ds[k].pc = cs[k].pc
      BY <1>2, <3>1, AnswerKeepsReplay
    <3>3. Replays(cs[k]) /\ OpsOf(wk, ds[k]) = OpsOf(wk, cs[k])
      BY <1>10, <2>2, <3>1, <3>2 DEF Replays, OpsOf, Member
    <3>4. Placed(wk, cs[k])
      BY <1>1, <3>3 DEF PlacesFit
    <3> QED BY <2>2, <3>2, <3>3, <3>4 DEF Placed
  <2> QED BY <2>1, <2>2
<1> QED BY <1>8, <1>9, <1>10 DEF PlacesFit

-----------------------------------------------------------------------------
(* What a step leaves alone.                                               *)

(* The groups other than that of the frame on top are left alone, their    *)
(* members having read, by rd, no cut that is gone.                        *)
OthersKept(rd) ==
    \A c \in Ctx : state[c] \in Waiting /\ heads[c] # Owner(Top) =>
        /\ state'[c] \in Waiting /\ heads'[c] = heads[c]
        /\ current'[c] = current[c] /\ walk'[c] = walk[c]
        /\ rd[c].cut = None => read[c].cut = None

(* The members of a fixpoint wait, with their walks.                       *)
LEMMA MembersWait ==
  ASSUME Inv, NEW i \in DOMAIN ctl, ctl[i].kind = "resolve"
  PROVE  /\ ctl[i] \in ResolveFrame /\ MembersUnder(ctl[i])
         /\ \A k \in DOMAIN ctl[i].members : walk[ctl[i].members[k]] \in Walk
<1>1. ctl[i] \in ResolveFrame
  BY TopFrame, SeqType, FrameType
<1>2. ASSUME NEW k \in DOMAIN ctl[i].members
      PROVE  /\ ctl[i].members[k] \in Ctx /\ state[ctl[i].members[k]] = "Resolving"
             /\ heads[ctl[i].members[k]] = ctl[i].head
  <2>1. ctl[i].members \in Seq(Ctx)
    BY <1>1, ResolveFrameType
  <2>2. ctl[i].members[k] \in Ctx /\ ctl[i].members[k] \in Range(ctl[i].members)
    BY <2>1, SeqType DEF Range
  <2> QED BY <2>2 DEF Inv, GroupsFit
<1> QED BY <1>1, <1>2 DEF MembersUnder, Waiting, Inv, SlotsFit

(* A group below is another one than that of the frame on top.             *)
LEMMA OwnersApart ==
  ASSUME Inv, Top.kind # "solve", NEW i \in DOMAIN Below, Below[i].kind = "resolve"
  PROVE  /\ Below[i] \in ResolveFrame /\ MembersUnder(Below[i]) /\ Below[i].head # Owner(Top)
         /\ \A k \in DOMAIN Below[i].members : walk[Below[i].members[k]] \in Walk
<1>1. /\ i \in DOMAIN ctl /\ Below[i] = ctl[i] /\ i # Len(ctl) /\ ctl[Len(ctl)] = Top
      /\ Len(ctl) \in DOMAIN ctl /\ ctl \in Seq(Frame) /\ Top \in Frame
  BY BelowFacts, TopFrame
<1>2. state[ctl[i].head] = "Resolving"
  BY <1>1, HeadResolves
<1>3. CASE Top.kind = "resolve"
  <2>1. ctl[i].head # Top.head
    BY <1>1, <1>3 DEF Inv, GroupsFit
  <2> QED BY <1>1, <1>3, <2>1, MembersWait DEF Owner
<1>4. CASE Top.kind # "resolve"
  <2>1. Top.kind = "walk"
    BY <1>1, <1>4, FrameType
  <2>2. stack[Len(stack)] = Top.ctx /\ stack # <<>> /\ stack \in Seq(Ctx)
    BY <1>1, <2>1, TopFrame, PopWalk
  <2>3. Top.ctx \in Range(stack) /\ Top.ctx \in Ctx
    BY <2>2, SeqType DEF Range
  <2>4. state[Top.ctx] = "Running"
    BY <2>3 DEF Inv, StackMatches
  <2> QED BY <1>1, <1>2, <1>4, <2>1, <2>4, MembersWait DEF Owner
<1> QED BY <1>3, <1>4

(* It is left alone with the others.                                       *)
LEMMA OthersGroup ==
  ASSUME NEW rd, OthersKept(rd), NEW h, h # Owner(Top)
  PROVE  GroupKept(rd, h)
  BY DEF OthersKept, GroupKept

(* A frame below stays closed.                                             *)
LEMMA UnderStays ==
  ASSUME Inv, ReadyLasts, ClosedInv, Top.kind # "solve", NEW rd, OthersKept(rd),
         NEW i \in DOMAIN Below,
         Below[i].kind = "walk" /\ rd[Below[i].ctx].cut = None => read[Below[i].ctx].cut = None,
         NEW fx, NEW cs,
         Disturbed(fixpoint, ctl, Below[i].head) /\ Below[i].head # Owner(Top)
            => Disturbed(fx, cs, Below[i].head)
  PROVE  FrameClosed(prog, state', result', heads', current', rd, walk', fx, cs, Below[i])
<1>1. PICK fr : fr = Below[i]
  OBVIOUS
<1>2. ClosedFrame(fr)
  <2>1. i \in DOMAIN ctl /\ fr = ctl[i]
    BY <1>1, BelowFacts
  <2> QED BY <2>1 DEF ClosedInv, FramesClosed, ClosedFrame
<1>3. ASSUME fr.kind = "resolve"
      PROVE  /\ MembersUnder(fr) /\ GroupKept(rd, fr.head)
             /\ Disturbed(fixpoint, ctl, fr.head) => Disturbed(fx, cs, fr.head)
  <2>1. MembersUnder(fr) /\ fr.head # Owner(Top)
    BY <1>1, <1>3, OwnersApart
  <2> QED BY <1>1, <2>1, OthersGroup
<1>4. fr.kind = "walk" /\ rd[fr.ctx].cut = None => read[fr.ctx].cut = None
  BY <1>1
<1>5. FrameClosed(prog, state', result', heads', current', rd, walk', fx, cs, fr)
  BY <1>2, <1>3, <1>4, FrameStays
<1> QED BY <1>1, <1>5

(* The operations of what is below stay the same.                          *)
LEMMA OthersOps ==
  ASSUME Inv, Top.kind # "solve", NEW rd, OthersKept(rd)
  PROVE  /\ OpsKept(walk, walk', Below)
         /\ PlacesFit(state, walk, ctl)
              => \A i \in DOMAIN Below : Replays(Below[i])
                    => Placed(walk', Below[i])
<1>1. ASSUME NEW i \in DOMAIN Below, Replays(Below[i])
      PROVE  /\ OpsOf(walk', Below[i]) = OpsOf(walk, Below[i])
             /\ PlacesFit(state, walk, ctl) => Placed(walk', Below[i])
  <2>1. /\ Below[i].kind = "resolve" /\ Below[i] \in ResolveFrame
        /\ MembersUnder(Below[i]) /\ Below[i].head # Owner(Top)
    BY <1>1, OwnersApart DEF Replays
  <2>2. Below[i].at \in DOMAIN Below[i].members
    <3>1. Below[i].members \in Seq(Ctx) /\ Below[i].at \in Nat \ {0}
      BY <2>1, ResolveFrameType
    <3> QED BY <1>1, <3>1, SeqType DEF Replays
  <2>3. walk'[Member(Below[i])] = walk[Member(Below[i])]
    BY <2>1, <2>2 DEF MembersUnder, OthersKept, Member
  <2>4. i \in DOMAIN ctl /\ Below[i] = ctl[i]
    BY BelowFacts
  <2> QED BY <1>1, <2>3, <2>4 DEF OpsOf, PlacesFit, Placed
<1> QED BY <1>1 DEF OpsKept

(* A step that takes away the walk on top, or the fixpoint, leaves the     *)
(* other groups as disturbed as they were.                                 *)
LEMMA DisturbedUnder ==
  ASSUME Inv, Top.kind # "solve", NEW h, h # Owner(Top), Disturbed(fixpoint, ctl, h)
  PROVE  Disturbed(IF Top.kind = "resolve" THEN Top.outer ELSE fixpoint, Below, h)
<1>1. PICK fx : fx = IF Top.kind = "resolve" THEN Top.outer ELSE fixpoint
  OBVIOUS
<1>2. ASSUME Loud(fixpoint, h) PROVE Loud(fx, h)
  <2>1. CASE Top.kind = "resolve"
    <3>1. fixpoint.head = Top.head
      BY <2>1, ResolveOnTop
    <3> QED BY <1>2, <2>1, <3>1 DEF Loud, Owner
  <2> QED BY <1>1, <1>2, <2>1
<1>3. ASSUME NEW i \in DOMAIN ctl, ctl[i].kind = "resolve", Loud(ctl[i].outer, h)
      PROVE  Disturbed(fx, Below, h)
  <2>1. CASE i = Len(ctl)
    <3>1. ctl[i] = Top
      BY <2>1, BelowFacts
    <3> QED BY <1>1, <1>3, <3>1 DEF Disturbed
  <2>2. CASE i # Len(ctl)
    <3>1. i \in DOMAIN Below /\ Below[i] = ctl[i]
      <4>1. i \in 1..Len(Below)
        BY <2>2, BelowFacts
      <4> QED BY <4>1, BelowFacts
    <3> QED BY <1>3, <3>1 DEF Disturbed
  <2> QED BY <2>1, <2>2
<1> QED BY <1>1, <1>2, <1>3 DEF Disturbed

(* The slots are closed after a step, their readers having read rd.        *)
SlotsClosed(rd) ==
    /\ ReadyIsClosed'
    /\ \A c \in Ctx : state'[c] = "Resolving" => DOMAIN walk'[c].resolved = DOMAIN walk'[c].deferred
    /\ WaitersClosed(prog', state', result', rd, walk')

(* The frame on top goes on.                                               *)
LEMMA ClosedAfterTop ==
  ASSUME Inv, ClosedInv, ReadyLasts, Top.kind # "solve", NEW fr, SameLinks(Top, fr),
         ctl' = [ctl EXCEPT ![Len(ctl)] = fr], UNCHANGED <<prog, read, fixpoint>>,
         OthersKept(read), SlotsClosed(read),
         Replays(fr) => Placed(walk', fr),
         FrameClosed(prog, state', result', heads', current', read, walk', fixpoint, ctl', fr)
  PROVE  ClosedInv'
<1>1. PICK k \in Nat : /\ k = Len(ctl) /\ DOMAIN ctl = 1..k /\ k \in 1..k /\ ctl[k] = Top
                       /\ \A i \in 1..k : i # k => i \in DOMAIN Below /\ Below[i] = ctl[i]
  BY BelowFacts, TopFrame, SeqType
<1>2. DOMAIN ctl' = 1..k /\ ctl'[k] = fr /\ \A i \in 1..k : i # k => ctl'[i] = ctl[i]
  BY <1>1
<1>3. ASSUME NEW h, Disturbed(fixpoint, ctl, h) PROVE Disturbed(fixpoint, ctl', h)
  <2>1. ASSUME NEW i \in 1..k, ctl[i].kind = "resolve"
        PROVE  ctl'[i].kind = "resolve" /\ ctl'[i].outer = ctl[i].outer
    BY <1>1, <1>2, <2>1 DEF SameLinks
  <2> QED BY <1>1, <1>2, <1>3, <2>1 DEF Disturbed
<1>4. ASSUME NEW i \in 1..k
      PROVE  FrameClosed(prog, state', result', heads', current', read, walk', fixpoint, ctl', ctl'[i])
  <2>1. CASE i = k
    BY <1>2, <2>1
  <2>2. CASE i # k
    <3>1. PICK j \in DOMAIN Below : j = i /\ Below[j] = ctl'[i]
      BY <1>1, <1>2, <2>2
    <3>2. FrameClosed(prog, state', result', heads', current', read, walk', fixpoint, ctl', Below[j])
      BY <1>3, UnderStays
    <3> QED BY <3>1, <3>2
  <2> QED BY <2>1, <2>2
<1>5. FramesClosed(prog', state', result', heads', current', read', walk', fixpoint', ctl')
  BY <1>2, <1>4 DEF FramesClosed
<1>6. ASSUME NEW i \in 1..k, Replays(ctl'[i])
      PROVE  Placed(walk', ctl'[i])
  <2>1. CASE i = k
    BY <1>2, <1>6, <2>1
  <2>2. CASE i # k
    <3>1. i \in DOMAIN Below /\ Below[i] = ctl'[i]
      BY <1>1, <1>2, <2>2
    <3> QED BY <1>6, <3>1, OthersOps DEF ClosedInv
  <2> QED BY <2>1, <2>2
<1>7. PlacesFit(state', walk', ctl')
  BY <1>2, <1>6 DEF PlacesFit, SlotsClosed
<1> QED BY <1>5, <1>7 DEF ClosedInv, SlotsClosed

(* The frame on top gets an answer from what is there.                     *)
LEMMA ClosedAfterRead ==
  ASSUME Inv, RoundsSuffice, ClosedInv, Asks(Top), NEW n \in Note,
         NEW got \in (SUBSET V) \cup {None}, Return(ctl, read, fixpoint, stack, n, got),
         UNCHANGED <<prog, state, heads, walk, current, result>>,
         Honest(state, result, heads, current, walk, Top, n, got)
  PROVE  ClosedInv'
<1>1. /\ ctl \in Seq(Frame) /\ stack \in Seq(Ctx) /\ fixpoint \in Fixpoint \cup {None}
      /\ read \in [Ctx -> Note] /\ FramesFit(ctl, stack, fixpoint)
      /\ Waits(ctl[Len(ctl)]) /\ Top = ctl[Len(ctl)] /\ Len(ctl) \in DOMAIN ctl
  BY TopFrame, WantedType
<1>2. PICK cs \in Seq(Frame) : cs = ctl
  BY <1>1
<1>3. PICK stk \in Seq(Ctx) : stk = stack
  BY <1>1
<1>4. PICK fx \in Fixpoint \cup {None} : fx = fixpoint
  BY <1>1
<1>5. PICK rd \in [Ctx -> Note] : rd = read
  BY <1>1
<1>6. PICK p, st, hs, wk, cur, res :
        /\ p = prog /\ st = state /\ hs = heads /\ wk = walk /\ cur = current /\ res = result
  OBVIOUS
<1>7. PICK rt, ft, ds : rt = read' /\ ft = fixpoint' /\ ds = ctl'
  OBVIOUS
<1>8. /\ rt = ReadsTold(rd, fx, stk, n) /\ ft = FixpointTold(fx, stk, n)
      /\ ds = Answer(cs, got)
  BY <1>2, <1>3, <1>4, <1>5, <1>7 DEF Return
<1>9. AsksIn(wk, cs[Len(cs)])
  BY <1>1, <1>2, <1>6 DEF Asks, AsksIn, HasOp, Op, OpsOf
<1>10. cs[Len(cs)].kind = "resolve" => ~Capped(cs[Len(cs)])
  BY <1>1, <1>2, NotCapped
<1>11. /\ FramesClosed(p, st, res, hs, cur, rd, wk, fx, cs)
       /\ WaitersClosed(p, st, res, rd, wk) /\ PlacesFit(st, wk, cs)
  BY <1>2, <1>4, <1>5, <1>6 DEF ClosedInv
<1>12. Replays(cs[Len(cs)]) =>
          st[Member(cs[Len(cs)])] \in Waiting /\ wk[Member(cs[Len(cs)])] \in Walk
  BY <1>1, <1>2, <1>6, Replaying DEF Waiting
<1>13. Honest(st, res, hs, cur, wk, cs[Len(cs)], n, got)
  BY <1>1, <1>2, <1>6
<1>14. FramesFit(cs, stk, fx) /\ Waits(cs[Len(cs)])
  BY <1>1, <1>2, <1>3, <1>4
<1>15. /\ FramesClosed(p, st, res, hs, cur, rt, wk, ft, ds)
       /\ WaitersClosed(p, st, res, rt, wk) /\ PlacesFit(st, wk, ds)
  <2>1. Answerable(p, st, res, hs, cur, rd, wk, fx, cs, stk, n, got)
    BY <1>9, <1>10, <1>11, <1>12, <1>13, <1>14 DEF Answerable
  <2> QED BY <1>8, <2>1, ClosedAfterReturn
<1>16. UNCHANGED <<prog, state, heads, walk, current, result>>
  OBVIOUS
<1>17. ReadyIsClosed'
  BY <1>16 DEF ClosedInv, ReadyIsClosed
<1> QED BY <1>6, <1>7, <1>15, <1>16, <1>17 DEF ClosedInv

(* The frame on top is done: the one below it gets its answer.             *)
LEMMA ClosedAfterPop ==
  ASSUME Inv, RoundsSuffice, Linked(walk, ctl), ClosedInv, ReadyLasts, Top.kind # "solve",
         NEW stk \in Seq(Ctx), NEW fx \in Fixpoint \cup {None}, FramesFit(Below, stk, fx),
         fx = (IF Top.kind = "resolve" THEN Top.outer ELSE fixpoint),
         NEW rd \in [Ctx -> Note], Grown(read, rd),
         NEW n \in Note, NEW got \in (SUBSET V) \cup {None},
         Return(Below, rd, fx, stk, n, got), prog' = prog,
         OthersKept(rd), SlotsClosed(rd),
         Honest(state', result', heads', current', walk', Below[Len(Below)], n, got)
  PROVE  ClosedInv'
<1>1. PICK p, st, hs, wk, cur, res, cs :
        /\ p = prog /\ st = state' /\ hs = heads' /\ wk = walk' /\ cur = current'
        /\ res = result' /\ cs = Below
  OBVIOUS
<1>2. PICK rt, ft, ds : rt = read' /\ ft = fixpoint' /\ ds = ctl'
  OBVIOUS
<1>3. /\ rt = ReadsTold(rd, fx, stk, n) /\ ft = FixpointTold(fx, stk, n)
      /\ ds = Answer(cs, got)
  BY <1>1, <1>2 DEF Return
<1>4. /\ cs \in Seq(Frame) /\ Len(cs) \in DOMAIN cs
      /\ \A i \in DOMAIN cs : i \in DOMAIN ctl /\ cs[i] = ctl[i]
  BY <1>1, BelowFacts
<1>5. Waits(cs[Len(cs)])
  BY <1>1, TopFrame, BelowWaits DEF Below
<1>6. OpsKept(walk, walk', Below)
  BY OthersOps
<1>7. AsksIn(wk, cs[Len(cs)])
  BY <1>1, <1>6, BelowLinks
<1>8. cs[Len(cs)].kind = "resolve" => ~Capped(cs[Len(cs)])
  BY <1>4, NotCapped
<1>9. ASSUME NEW i \in DOMAIN cs
      PROVE  FrameClosed(p, st, res, hs, cur, rd, wk, fx, cs, cs[i])
  <2>1. ASSUME cs[i].kind = "walk", rd[cs[i].ctx].cut = None PROVE read[cs[i].ctx].cut = None
    <3>1. cs[i].ctx \in Ctx
      BY <1>4, <2>1, SeqType, FrameType, WalkFrameType
    <3> QED BY <2>1, <3>1 DEF Grown
  <2>2. Disturbed(fixpoint, ctl, cs[i].head) /\ cs[i].head # Owner(Top)
           => Disturbed(fx, Below, cs[i].head)
    BY DisturbedUnder
  <2>3. FrameClosed(prog, state', result', heads', current', rd, walk', fx, Below, Below[i])
    BY <1>1, <2>1, <2>2, UnderStays
  <2> QED BY <1>1, <2>3
<1>10. FramesClosed(p, st, res, hs, cur, rd, wk, fx, cs)
  BY <1>9 DEF FramesClosed
<1>11. PlacesFit(st, wk, cs)
  BY <1>1, OthersOps DEF PlacesFit, SlotsClosed, ClosedInv
<1>12. WaitersClosed(p, st, res, rd, wk)
  BY <1>1 DEF SlotsClosed
<1>13. Replays(cs[Len(cs)]) =>
          st[Member(cs[Len(cs)])] \in Waiting /\ wk[Member(cs[Len(cs)])] \in Walk
  <2>1. ASSUME Replays(cs[Len(cs)])
        PROVE  st[Member(cs[Len(cs)])] \in Waiting /\ wk[Member(cs[Len(cs)])] \in Walk
    <3>1. PICK fr : fr = cs[Len(cs)]
      OBVIOUS
    <3>2. /\ fr \in ResolveFrame /\ MembersUnder(fr) /\ fr.head # Owner(Top)
          /\ \A k \in DOMAIN fr.members : walk[fr.members[k]] \in Walk
      BY <1>1, <1>4, <2>1, <3>1, OwnersApart DEF Replays
    <3>3. fr.at \in DOMAIN fr.members
      <4>1. fr.members \in Seq(Ctx) /\ fr.at \in Nat \ {0}
        BY <3>2, ResolveFrameType
      <4> QED BY <2>1, <3>1, <4>1, SeqType DEF Replays
    <3> QED BY <1>1, <3>1, <3>2, <3>3 DEF MembersUnder, OthersKept, Member
  <2> QED BY <2>1
<1>14. Honest(st, res, hs, cur, wk, cs[Len(cs)], n, got)
  BY <1>1
<1>15. FramesFit(cs, stk, fx)
  BY <1>1
<1>16. /\ FramesClosed(p, st, res, hs, cur, rt, wk, ft, ds)
       /\ WaitersClosed(p, st, res, rt, wk) /\ PlacesFit(st, wk, ds)
  <2>1. Answerable(p, st, res, hs, cur, rd, wk, fx, cs, stk, n, got)
    BY <1>5, <1>7, <1>8, <1>10, <1>11, <1>12, <1>13, <1>14, <1>15 DEF Answerable
  <2>2. cs \in Seq(Frame)
    BY <1>4
  <2>3. rt = ReadsTold(rd, fx, stk, n) /\ ft = FixpointTold(fx, stk, n) /\ ds = Answer(cs, got)
    BY <1>3
  <2> QED BY <2>1, <2>2, <2>3, ClosedAfterReturn, ZenonT(30)
<1> QED BY <1>1, <1>2, <1>16 DEF ClosedInv, SlotsClosed

-----------------------------------------------------------------------------
(* A call is answered from what is there.                                  *)

(* A finished summary is an honest answer.                                 *)
LEMMA ReadyHonest ==
  ASSUME NEW st, NEW res, NEW hs, NEW cur, NEW wk, NEW fr, NEW n, NEW got \in SUBSET V,
         WantedIn(wk, fr) \in Ctx, st[WantedIn(wk, fr)] = "Ready",
         res[WantedIn(wk, fr)].returns = got
  PROVE  Honest(st, res, hs, cur, wk, fr, n, got)
<1>1. WantedIn(wk, fr) \in Finals(st, res, got)
  BY DEF Finals
<1>2. got # None
  BY NoneAssumption
<1> QED BY <1>1, <1>2 DEF Honest, Answering

(* So is nothing, for a walk, which defers its call, and for a fixpoint    *)
(* that is told to stop.                                                   *)
LEMMA NothingHonest ==
  ASSUME NEW st, NEW res, NEW hs, NEW cur, NEW wk, NEW fr, NEW n, n.lowest < NoDepth
  PROVE  Honest(st, res, hs, cur, wk, fr, n, None)
  BY DEF Honest

(* So is what a cut answers.                                               *)
LEMMA CutHonest ==
  ASSUME NEW st, NEW res, NEW hs, NEW cur, NEW wk, NEW fr, NEW n, NEW got, n.cut # None
  PROVE  Honest(st, res, hs, cur, wk, fr, n, got)
  BY DEF Honest

(* So is what is read of a group: a fixpoint gets what its own group has.  *)
LEMMA GroupHonest ==
  ASSUME NEW cs \in Seq(Frame), NEW stk \in Seq(Ctx), NEW fx, FramesFit(cs, stk, fx),
         Len(stk) <= MaxStack, NEW st, NEW hs, NEW cur, NEW res, NEW wk,
         NEW c \in Ctx, st[c] \in Waiting, hs[c] \in Ctx, cur[c] \in FunctionResult,
         fx # None => hs[fx.head] = fx.head,
         st[hs[c]] = "Running" => depth[hs[c]] \in Nat /\ depth[hs[c]] < Len(stk),
         WantedIn(wk, cs[Len(cs)]) = c,
         NEW m, m = ReadGroupMember(c, st, hs, cur, fx, stk)
  PROVE  Honest(st, res, hs, cur, wk, cs[Len(cs)], m.note, m.got)
<1>1. Len(stk) \in Nat /\ MaxStack \in Nat
  BY SeqType, LimitAssumption
<1>2. CASE st[hs[c]] = "Running"
  <2>1. m.note.lowest = depth[hs[c]] /\ m.got = None
    BY <1>2 DEF ReadGroupMember, DependsOn, Nothing
  <2>2. m.note.lowest < NoDepth
    BY <1>1, <1>2, <2>1 DEF NoDepth
  <2> QED BY <2>1, <2>2, NothingHonest
<1>3. CASE st[hs[c]] # "Running" /\ ReaderIsFixpoint(fx, stk) /\ hs[fx.head] = hs[c]
  <2>1. m.got = cur[c].returns /\ m.got \in SUBSET V /\ m.got # None
    BY <1>3, ReturnsType, NoneAssumption DEF ReadGroupMember
  <2>2. cs[Len(cs)].kind # "walk"
    BY <1>3, WalkReads
  <2>3. ASSUME cs[Len(cs)].kind = "resolve"
        PROVE  c \in Answering(st, res, hs, cur, cs[Len(cs)].head, m.got)
    <3>1. fx.head = cs[Len(cs)].head
      BY <2>3, FixpointReads
    <3>2. hs[c] = cs[Len(cs)].head
      BY <1>3, <3>1 DEF ReaderIsFixpoint
    <3> QED BY <2>1, <3>2 DEF Answering, SoFar
  <2> QED BY <2>1, <2>2, <2>3 DEF Honest
<1>4. CASE st[hs[c]] # "Running" /\ ~(ReaderIsFixpoint(fx, stk) /\ hs[fx.head] = hs[c])
  <2>1. m.note.joins = hs[c] /\ m.got = None
    BY <1>4 DEF ReadGroupMember, Joins, Nothing
  <2> QED BY <2>1, NoneAssumption DEF Honest
<1> QED BY <1>2, <1>3, <1>4

(* What the frame on top wants.                                            *)
LEMMA WantedNow ==
  ASSUME Inv, Asks(Top)
  PROVE  Wanted(Top) \in Ctx /\ WantedIn(walk, Top) = Wanted(Top)
  BY WantedType DEF Asks, Wanted, WantedIn, HasOp, Op, OpsOf

(* get: a summary, nothing yet, what a group has, or a cut.                *)
LEMMA ClosedGetReady ==
  ASSUME Inv, RoundsSuffice, ClosedInv, GetReady
  PROVE  ClosedInv'
<1>1. Asks(Top) /\ state[Wanted(Top)] = "Ready" /\ ctl' = Answer(ctl, result[Wanted(Top)].returns)
  BY DEF GetReady
<1>2. Wanted(Top) \in Ctx /\ WantedIn(walk, Top) = Wanted(Top)
  BY <1>1, WantedNow
<1>3. PICK got : got = result[Wanted(Top)].returns /\ got \in SUBSET V
  BY <1>1, <1>2, ReturnsType DEF Inv, SlotsFit
<1>4. PICK n \in Note : Return(ctl, read, fixpoint, stack, n, got)
  <2>1. read' = read /\ fixpoint' = fixpoint
    BY DEF GetReady, slots
  <2>2. PICK n \in Note : /\ ReadsTold(read, fixpoint, stack, n) = read
                          /\ FixpointTold(fixpoint, stack, n) = fixpoint
    BY TopFrame, ToldNothing
  <2> QED BY <1>1, <1>3, <2>1, <2>2 DEF Return
<1>5. UNCHANGED <<prog, state, heads, walk, current, result>>
  BY DEF GetReady, slots
<1>6. Honest(state, result, heads, current, walk, Top, n, got)
  BY <1>1, <1>2, <1>3, ReadyHonest
<1> QED BY <1>1, <1>3, <1>4, <1>5, <1>6, ClosedAfterRead

(* Reading a context whose walk is running keeps ClosedInv.                *)
LEMMA ClosedGetRunning ==
  ASSUME Inv, RoundsSuffice, Counted, ClosedInv, GetRunning
  PROVE  ClosedInv'
<1>1. Asks(Top) /\ Wanted(Top) \in Ctx /\ state[Wanted(Top)] = "Running"
      /\ UNCHANGED <<prog, state, heads, walk, current, result>>
  BY WantedType DEF GetRunning
<1>2. PICK d : d = depth[Wanted(Top)] /\ d \in Nat /\ d < NoDepth
  BY <1>1, RunningDepth, TopFrame, LimitAssumption DEF Counted, NoDepth
<1>3. PICK n \in Note : n = DependsOn(d)
  BY <1>2, DependsOnType
<1>4. Return(ctl, read, fixpoint, stack, n, None)
  BY <1>2, <1>3 DEF GetRunning
<1>5. n.lowest < NoDepth
  BY <1>2, <1>3 DEF DependsOn, Nothing
<1> QED BY <1>1, <1>4, <1>5, NothingHonest, ClosedAfterRead

(* So does reading a cut.                                                  *)
LEMMA ClosedGetCut ==
  ASSUME Inv, RoundsSuffice, ClosedInv, GetCut
  PROVE  ClosedInv'
<1>1. Asks(Top) /\ UNCHANGED <<prog, state, heads, walk, current, result>>
  BY DEF GetCut
<1>2. PICK k : k = CostLimit(Wanted(Top)) /\ k \in Cut
  BY DEF GetCut, CostLimit, Cut
<1>3. PICK n \in Note : n = IsCut(k)
  BY <1>2, IsCutType
<1>4. Return(ctl, read, fixpoint, stack, n, CutReturns) /\ CutReturns \in SUBSET V
  BY <1>2, <1>3, UnknownInV DEF GetCut, CutReturns
<1>5. n.cut # None
  <2>1. n.cut = k
    BY <1>3 DEF IsCut, Nothing
  <2> QED BY <1>2, <2>1, CutAssumption
<1> QED BY <1>1, <1>3, <1>4, <1>5, CutHonest, ClosedAfterRead

(* So does reading a member of a group.                                    *)
LEMMA ClosedGetGroupMember ==
  ASSUME Inv, RoundsSuffice, Counted, ClosedInv, GetGroupMember
  PROVE  ClosedInv'
<1>1. /\ Asks(Top) /\ Wanted(Top) \in Ctx /\ state[Wanted(Top)] \in Waiting
      /\ UNCHANGED <<prog, state, heads, walk, current, result>>
  BY WantedType DEF GetGroupMember, Waiting
<1>2. PICK m : /\ m = ReadGroupMember(Wanted(Top), state, heads, current, fixpoint, stack)
               /\ Return(ctl, read, fixpoint, stack, m.note, m.got)
  BY DEF GetGroupMember
<1>3. /\ heads \in [Ctx -> Ctx] /\ heads[Wanted(Top)] \in Ctx
      /\ current[Wanted(Top)] \in FunctionResult
  BY <1>1 DEF Inv, TypeOK, SlotsFit, Waiting
<1>4. state[heads[Wanted(Top)]] = "Running" =>
          depth[heads[Wanted(Top)]] \in Nat /\ depth[heads[Wanted(Top)]] < Len(stack)
  BY <1>3, RunningDepth
<1>5. m.note \in Note /\ m.got \in (SUBSET V) \cup {None}
  <2>1. Len(stack) \in Nat
    BY TopFrame
  <2> QED BY <1>1, <1>2, <1>3, <1>4, <2>1, GroupReadType DEF NoteAt
<1>6. Honest(state, result, heads, current, walk, Top, m.note, m.got)
  <2>1. /\ ctl \in Seq(Frame) /\ stack \in Seq(Ctx) /\ FramesFit(ctl, stack, fixpoint)
        /\ Len(stack) <= MaxStack /\ WantedIn(walk, ctl[Len(ctl)]) = Wanted(Top)
        /\ Top = ctl[Len(ctl)]
    BY <1>1, TopFrame, WantedNow DEF Counted
  <2>2. ASSUME fixpoint # None PROVE heads[fixpoint.head] = fixpoint.head
    BY <2>1, <2>2, FixpointHeads
  <2> QED BY <1>1, <1>2, <1>3, <1>4, <2>1, <2>2, GroupHonest
<1> QED BY <1>1, <1>2, <1>5, <1>6, ClosedAfterRead

-----------------------------------------------------------------------------
(* The slots after a step.                                                 *)

(* A waiting walk v is w, but for the edges of deferred calls and the      *)
(* values of its operations.                                               *)
SameWaiter(w, v) ==
    /\ v.deferred = w.deferred /\ v.rets = w.rets /\ DOMAIN v.calls = DOMAIN w.calls
    /\ \A i \in DOMAIN w.calls : NotDeferred(w.deferred, i) => v.calls[i] = w.calls[i]

(* What is finished, and what waits, stays closed; what waits anew must be *)
(* closed.                                                                 *)
LEMMA SlotsStay ==
  ASSUME ClosedInv, ReadyLasts, prog' = prog, NEW rd,
         \A c \in Ctx : state'[c] = "Ready" => state[c] = "Ready",
         \A c \in Ctx : state'[c] = "Resolving" =>
             DOMAIN walk'[c].resolved = DOMAIN walk'[c].deferred,
         \A c \in Ctx : state'[c] \in Waiting /\ rd[c].cut = None =>
             \/ state[c] \in Waiting /\ read[c].cut = None /\ SameWaiter(walk[c], walk'[c])
             \/ WaiterClosed(prog, state, result, c, walk'[c])
  PROVE  SlotsClosed(rd)
<1>1. ASSUME NEW c \in Ctx, state'[c] = "Ready"
      PROVE  \E vals \in Seq(Value) : Closed(prog, state', result', c, vals)
  <2>1. state[c] = "Ready"
    BY <1>1
  <2>2. PICK vals \in Seq(Value) : Closed(prog, state, result, c, vals)
    BY <2>1 DEF ClosedInv, ReadyIsClosed
  <2>3. Closed(prog, state', result', c, vals)
    BY <2>1, <2>2, ClosedStays DEF ReadyLasts
  <2> QED BY <2>3
<1>2. ReadyIsClosed'
  BY <1>1 DEF ReadyIsClosed
<1>3. ASSUME NEW c \in Ctx, state'[c] \in Waiting, rd[c].cut = None
      PROVE  WaiterClosed(prog, state', result', c, walk'[c])
  <2>1. CASE state[c] \in Waiting /\ read[c].cut = None /\ SameWaiter(walk[c], walk'[c])
    <3>1. WaiterClosed(prog, state, result, c, walk[c])
      BY <2>1 DEF ClosedInv, WaitersClosed
    <3> QED BY <2>1, <3>1, WaiterStays DEF ReadyLasts, SameWaiter
  <2>2. CASE WaiterClosed(prog, state, result, c, walk'[c])
    BY <2>2, WaiterStays DEF ReadyLasts
  <2> QED BY <1>3, <2>1, <2>2
<1> QED BY <1>2, <1>3 DEF SlotsClosed, WaitersClosed

(* A frame is pushed on what is there.                                     *)
LEMMA Pushed ==
  ASSUME NEW T, NEW cs \in Seq(T), NEW fr, NEW ds, ds = Append(cs, fr)
  PROVE  /\ Len(cs) \in Nat /\ DOMAIN cs = 1..Len(cs) /\ DOMAIN ds = 1..(Len(cs) + 1)
         /\ ds[Len(cs) + 1] = fr /\ \A i \in 1..Len(cs) : ds[i] = cs[i]
  OBVIOUS

-----------------------------------------------------------------------------
(* A walk starts.                                                          *)

(* The context of a walk runs.                                             *)
LEMMA WalkRuns ==
  ASSUME Inv, NEW i \in DOMAIN ctl, ctl[i].kind = "walk"
  PROVE  ctl[i].ctx \in Ctx /\ state[ctl[i].ctx] = "Running"
<1>1. ctl[i] \in WalkFrame
  BY TopFrame, SeqType, FrameType
<1>2. ctl[i].ctx \in Ctx /\ ctl[i].base \in Nat
  BY <1>1, WalkFrameType
<1>3. ctl[i].base < Len(stack) /\ stack[ctl[i].base + 1] = ctl[i].ctx
  BY TopFrame DEF FramesFit
<1>4. stack \in Seq(Ctx) /\ Len(stack) \in Nat /\ DOMAIN stack = 1..Len(stack)
  BY TopFrame, SeqType
<1>5. ctl[i].ctx \in Range(stack)
  BY <1>2, <1>3, <1>4 DEF Range
<1> QED BY <1>2, <1>5 DEF Inv, StackMatches

(* It has no call site yet.                                                *)
LEMMA FreshClosed ==
  ASSUME NEW p, NEW st, NEW res, NEW fr, fr.vals = <<>>, fr.site = None,
         fr.w.deferred = <<>>, fr.w.calls = <<>>
  PROVE  WalkClosed(p, st, res, fr)
<1>1. OpsOrdered(fr.w.deferred, Len(fr.vals))
  BY DEF OpsOrdered
<1>2. SitesTaken(p, st, res, fr.ctx, fr.w, fr.vals)
  BY <1>1 DEF SitesTaken
<1> QED BY <1>2 DEF WalkClosed

(* walk.                                                                   *)
LEMMA ClosedGetWalk ==
  ASSUME Inv, Reuse, ClosedInv, ReadyLasts, GetWalk
  PROVE  ClosedInv'
<1>1. PICK c : c = Wanted(Top) /\ c \in Ctx /\ state[c] \in {"New", "Cut"}
  BY WantedType DEF GetWalk, MustWalk
<1>2. /\ \A d \in Ctx : d # c => /\ state'[d] = state[d] /\ heads'[d] = heads[d]
                                 /\ read'[d] = read[d]
      /\ state'[c] = "Running" /\ UNCHANGED <<prog, result, current, walk, fixpoint>>
  BY <1>1 DEF GetWalk, Inv, TypeOK
<1>3. PICK fr : /\ ctl' = Append(ctl, fr) /\ fr.kind = "walk"
                /\ fr.vals = <<>> /\ fr.site = None
                /\ fr.w.deferred = <<>> /\ fr.w.calls = <<>>
  <2>1. PICK w, fr : /\ w = [deferred |-> <<>>, resolved |-> <<>>, calls |-> <<>>, rets |-> NoValue]
                     /\ fr = [kind |-> "walk", base |-> Len(stack), ctx |-> c, w |-> w,
                              vals |-> <<>>, site |-> None]
    OBVIOUS
  <2>2. ctl' = Append(ctl, fr)
    BY <1>1, <2>1 DEF GetWalk
  <2> QED BY <2>1, <2>2
<1>4. PICK n : n = Len(ctl)
  OBVIOUS
<1>5. /\ n \in Nat /\ DOMAIN ctl = 1..n /\ DOMAIN ctl' = 1..(n + 1) /\ ctl'[n + 1] = fr
      /\ \A i \in 1..n : ctl'[i] = ctl[i]
  <2>1. ctl \in Seq(Frame)
    BY TopFrame
  <2>2. PICK cs, ds : cs \in Seq(Frame) /\ cs = ctl /\ ds = ctl' /\ ds = Append(cs, fr)
    BY <1>3, <2>1
  <2> QED BY <1>4, <2>2, Pushed
<1>6. \A h : Disturbed(fixpoint, ctl, h) => Disturbed(fixpoint', ctl', h)
  <2>1. \A i \in DOMAIN ctl : i \in DOMAIN ctl' /\ ctl'[i] = ctl[i]
    BY <1>5
  <2> QED BY <1>2, <2>1 DEF Disturbed
<1>7. SlotsClosed(read')
  <2>1. ASSUME NEW d \in Ctx, state'[d] \in Waiting, read'[d].cut = None
        PROVE  state[d] \in Waiting /\ read[d].cut = None /\ SameWaiter(walk[d], walk'[d])
    <3>1. d # c
      BY <1>2, <2>1 DEF Waiting
    <3> QED BY <1>2, <2>1, <3>1 DEF SameWaiter
  <2>2. ASSUME NEW d \in Ctx, state'[d] = "Resolving"
        PROVE  DOMAIN walk'[d].resolved = DOMAIN walk'[d].deferred
    <3>1. d # c /\ state[d] = "Resolving"
      BY <1>2, <2>2
    <3> QED BY <1>2, <3>1 DEF ClosedInv, PlacesFit
  <2>3. \A d \in Ctx : state'[d] = "Ready" => state[d] = "Ready"
    BY <1>2
  <2> QED BY <1>2, <2>1, <2>2, <2>3, SlotsStay
<1>8. ASSUME NEW i \in 1..n
      PROVE  FrameClosed(prog, state', result', heads', current', read', walk', fixpoint', ctl', ctl[i])
  <2>1. PICK fi : fi = ctl[i]
    OBVIOUS
  <2>2. ClosedFrame(fi)
    BY <1>5, <2>1 DEF ClosedInv, FramesClosed, ClosedFrame
  <2>3. ASSUME fi.kind = "walk", read'[fi.ctx].cut = None PROVE read[fi.ctx].cut = None
    <3>1. fi.ctx \in Ctx /\ state[fi.ctx] = "Running"
      BY <1>5, <2>1, <2>3, WalkRuns
    <3> QED BY <1>1, <1>2, <2>3, <3>1
  <2>4. ASSUME fi.kind = "resolve"
        PROVE  /\ MembersUnder(fi) /\ GroupKept(read', fi.head)
               /\ Disturbed(fixpoint, ctl, fi.head) => Disturbed(fixpoint', ctl', fi.head)
    <3>1. MembersUnder(fi)
      BY <1>5, <2>1, <2>4, MembersWait
    <3>2. GroupKept(read', fi.head)
      <4>1. ASSUME NEW d \in Ctx, state[d] \in Waiting PROVE d # c
        BY <1>1, <4>1 DEF Waiting
      <4> QED BY <1>2, <4>1 DEF GroupKept
    <3> QED BY <1>6, <3>1, <3>2
  <2>5. PICK rd, fx, cs : rd = read' /\ fx = fixpoint' /\ cs = ctl'
    OBVIOUS
  <2>6. FrameClosed(prog, state', result', heads', current', rd, walk', fx, cs, fi)
    BY <2>2, <2>3, <2>4, <2>5, FrameStays
  <2> QED BY <2>1, <2>5, <2>6
<1>9. FrameClosed(prog, state', result', heads', current', read', walk', fixpoint', ctl', fr)
  BY <1>3, FreshClosed DEF FrameClosed
<1>10. FramesClosed(prog', state', result', heads', current', read', walk', fixpoint', ctl')
  <2> SUFFICES ASSUME NEW i \in 1..(n + 1)
               PROVE  FrameClosed(prog, state', result', heads', current', read', walk', fixpoint',
                                  ctl', ctl'[i])
    BY <1>2, <1>5 DEF FramesClosed
  <2>1. CASE i = n + 1
    BY <1>5, <1>9, <2>1
  <2>2. CASE i # n + 1
    <3>1. i \in 1..n /\ ctl'[i] = ctl[i]
      BY <1>5, <2>2
    <3> QED BY <1>8, <3>1
  <2> QED BY <2>1, <2>2
<1>11. PlacesFit(state', walk', ctl')
  <2> SUFFICES ASSUME NEW i \in 1..(n + 1), Replays(ctl'[i])
               PROVE  Placed(walk', ctl'[i])
    BY <1>5, <1>7 DEF PlacesFit, SlotsClosed
  <2>1. i \in DOMAIN ctl /\ ctl'[i] = ctl[i]
    BY <1>3, <1>5 DEF Replays
  <2> QED BY <1>2, <2>1 DEF ClosedInv, PlacesFit, Placed, OpsOf, Member
<1> QED BY <1>7, <1>10, <1>11 DEF ClosedInv, SlotsClosed

-----------------------------------------------------------------------------
(* A walk goes on.                                                         *)

(* The values before a call site stay when the walk goes on.               *)
LEMMA BeforeAppend ==
  ASSUME NEW vals \in Seq(Value), NEW v \in Value
  PROVE  /\ Before(vals, Len(vals) + 1) = vals
         /\ \A k \in 1..(Len(vals) + 1) : Before(Append(vals, v), k) = Before(vals, k)
<1>1. PICK n, us : n = Len(vals) /\ us = Append(vals, v)
  OBVIOUS
<1>2. /\ n \in Nat /\ DOMAIN vals = 1..n /\ DOMAIN us = 1..(n + 1) /\ us \in Seq(Value)
      /\ us[n + 1] = v /\ \A k \in 1..n : us[k] = vals[k]
      /\ Len(us) = n + 1
  BY <1>1, AppendType, SeqType
<1>3. Before(vals, n + 1) = vals
  BY <1>1, <1>2 DEF Before
<1>4. ASSUME NEW k \in 1..(n + 1) PROVE Before(us, k) = Before(vals, k)
  BY <1>1, <1>2 DEF Before
<1> QED BY <1>1, <1>3, <1>4

(* The walk on top goes on.                                                *)
LEMMA ClosedWalkOn ==
  ASSUME Inv, ClosedInv, Top.kind = "walk",
         NEW fr, fr.kind = "walk", fr.base = Top.base, fr.ctx = Top.ctx, SetTop(fr),
         WalkClosed(prog, state, result, Top) => WalkClosed(prog, state, result, fr),
         UNCHANGED <<prog, slots, heads, parked, stack, fixpoint>>
  PROVE  ClosedInv'
<1>1. UNCHANGED <<prog, state, heads, read, walk, current, fixpoint, result>>
  BY DEF slots
<1>2. SameLinks(Top, fr) /\ ctl' = [ctl EXCEPT ![Len(ctl)] = fr]
  BY DEF SameLinks, SetTop
<1>3. ReadyLasts /\ OthersKept(read)
  BY <1>1 DEF ReadyLasts, FinalsKept, OthersKept
<1>4. SlotsClosed(read)
  <2>1. ASSUME NEW c \in Ctx, state'[c] \in Waiting, read[c].cut = None
        PROVE  state[c] \in Waiting /\ read[c].cut = None /\ SameWaiter(walk[c], walk'[c])
    BY <1>1, <2>1 DEF SameWaiter
  <2>2. ASSUME NEW c \in Ctx, state'[c] = "Resolving"
        PROVE  DOMAIN walk'[c].resolved = DOMAIN walk'[c].deferred
    BY <1>1, <2>2 DEF ClosedInv, PlacesFit
  <2> QED BY <1>1, <1>3, <2>1, <2>2, SlotsStay
<1>5. ClosedFrame(Top)
  <2>1. Len(ctl) \in DOMAIN ctl /\ Top = ctl[Len(ctl)]
    BY TopFrame
  <2> QED BY <2>1 DEF ClosedInv, FramesClosed, ClosedFrame
<1>6. FrameClosed(prog, state', result', heads', current', read, walk', fixpoint, ctl', fr)
  BY <1>1, <1>5 DEF ClosedFrame, FrameClosed
<1>7. ~Replays(fr)
  BY DEF Replays
<1> QED BY <1>1, <1>2, <1>3, <1>4, <1>6, <1>7, ClosedAfterTop

(* One call site more has its value.                                       *)
LEMMA SitesTakenNext ==
  ASSUME NEW p, NEW st, NEW res, NEW c, NEW w \in Walk, NEW vals \in Seq(Value),
         SitesTaken(p, st, res, c, w, vals),
         NEW v \in Value, NEW us, us = Append(vals, v), NEW n, n = Len(vals),
         NEW u, NEW edge \in SUBSET Ctx, u.calls = Append(w.calls, edge),
         OpsMore(w.deferred, u.deferred), OpsOrdered(u.deferred, n + 1),
         \A i \in 1..n : NotDeferred(w.deferred, i) => NotDeferred(u.deferred, i),
         SiteTaken(p, st, res, c, u, us, n + 1)
  PROVE  SitesTaken(p, st, res, c, u, us)
<1>1. /\ n \in Nat /\ DOMAIN vals = 1..n /\ DOMAIN us = 1..(n + 1) /\ Len(us) = n + 1
      /\ \A k \in 1..n : us[k] = vals[k] /\ Before(us, k) = Before(vals, k)
  <2>1. /\ n \in Nat /\ DOMAIN vals = 1..n /\ DOMAIN us = 1..(n + 1) /\ Len(us) = n + 1
        /\ \A k \in 1..n : us[k] = vals[k]
    BY AppendType, SeqType
  <2>2. \A k \in 1..(n + 1) : Before(us, k) = Before(vals, k)
    BY BeforeAppend
  <2> QED BY <2>1, <2>2
<1>2. /\ DOMAIN u.calls = 1..(n + 1) /\ \A k \in 1..n : u.calls[k] = w.calls[k]
  <2>1. PICK calls \in Seq(SUBSET Ctx) : calls = w.calls
    BY WalkFields
  <2>2. DOMAIN calls = 1..n /\ Len(calls) = n
    BY <1>1, <2>1, SeqType DEF SitesTaken
  <2> QED BY <2>1, <2>2, AppendType
<1>3. FinalsKept(st, res, st, res)
  BY DEF FinalsKept
<1>4. ASSUME NEW i \in 1..n PROVE SiteTaken(p, st, res, c, u, us, i)
  <2>1. SiteTaken(p, st, res, c, w, vals, i)
    BY <1>1 DEF SitesTaken
  <2>2. Before(us, i) = Before(vals, i) /\ us[i] = vals[i] /\ u.calls[i] = w.calls[i]
    BY <1>1, <1>2
  <2> QED BY <1>3, <2>1, <2>2, SiteTakenMore
<1>5. ASSUME NEW i \in DOMAIN us PROVE SiteTaken(p, st, res, c, u, us, i)
  <2>1. i \in 1..n \/ i = n + 1
    BY <1>1
  <2> QED BY <1>4, <2>1
<1> QED BY <1>1, <1>2, <1>5 DEF SitesTaken

(* What a value is pending on has been deferred.                           *)
LEMMA EvalPending ==
  ASSUME NEW p, NEW st, NEW res, NEW c, NEW w, NEW vals, SitesTaken(p, st, res, c, w, vals),
         NEW e, NEW d
  PROVE  Eval(e, d, vals).pending \subseteq DOMAIN w.deferred
<1>1. \A i \in DOMAIN vals : vals[i].pending \subseteq DOMAIN w.deferred
  BY DEF SitesTaken, SiteTaken
<1> QED BY <1>1 DEF Eval

(* The site a walk is at.                                                  *)
LEMMA NowIs ==
  ASSUME NEW p, NEW fr, fr.vals \in Seq(Value), NEW us, NEW n, n = Len(fr.vals),
         NEW v \in Value, us = Append(fr.vals, v)
  PROVE  /\ CalleeNow(p, fr) = Eval(NextSite(p, fr).callee, fr.ctx, fr.vals)
         /\ ArgNow(p, fr) = Eval(NextSite(p, fr).arg, fr.ctx, fr.vals)
         /\ CalleeOf(p, fr.ctx, us, n + 1) = CalleeNow(p, fr)
         /\ ArgOf(p, fr.ctx, us, n + 1) = ArgNow(p, fr)
<1>1. n + 1 \in 1..(n + 1) /\ Before(fr.vals, n + 1) = fr.vals /\ Before(us, n + 1) = Before(fr.vals, n + 1)
  <2>1. PICK vals \in Seq(Value) : vals = fr.vals
    OBVIOUS
  <2>2. us = Append(vals, v) /\ n = Len(vals)
    BY <2>1
  <2>3. Before(vals, n + 1) = vals /\ \A k \in 1..(n + 1) : Before(us, k) = Before(vals, k)
    BY <2>2, BeforeAppend
  <2>4. n + 1 \in 1..(n + 1)
    BY <2>2, SeqType
  <2> QED BY <2>1, <2>3, <2>4
<1> QED BY <1>1 DEF CalleeNow, ArgNow, CalleeOf, ArgOf, NextSite

(* A walk that defers a call stays closed.                                 *)
LEMMA DeferClosed ==
  ASSUME NEW p, NEW st, NEW res, NEW fr \in WalkFrame, WalkClosed(p, st, res, fr),
         NEW op \in DeferredOp, CallOp(p, fr, op),
         NEW v \in Value, NEW gr, Defers(fr, gr, op, v), gr.w.calls = Append(fr.w.calls, {})
  PROVE  WalkClosed(p, st, res, gr)
<1>1. PICK c, w, vals, ops, n, us, u, more :
        /\ c = fr.ctx /\ w = fr.w /\ vals = fr.vals /\ ops = fr.w.deferred /\ n = Len(vals)
        /\ us = gr.vals /\ u = gr.w /\ more = gr.w.deferred
  OBVIOUS
<1>2. /\ w \in Walk /\ ops \in Seq(DeferredOp) /\ vals \in Seq(Value) /\ n \in Nat
      /\ Len(ops) \in Nat
  BY <1>1, WalkFrameType, WalkFields, SeqType
<1>3. us = Append(vals, v) /\ more = Append(ops, op) /\ u.calls = Append(w.calls, {}) /\ gr.site = None
      /\ v.pending = {Len(ops) + 1} /\ gr.ctx = c
  BY <1>1 DEF Defers
<1>4. SitesTaken(p, st, res, c, w, vals)
  BY <1>1 DEF WalkClosed
<1>5. /\ OpsMore(ops, more) /\ DOMAIN more = DOMAIN ops \cup {Len(ops) + 1}
      /\ more[Len(ops) + 1] = op
      /\ \A i : NotDeferred(ops, i) /\ (op.op = "Call" => op.site # i) => NotDeferred(more, i)
  BY <1>2, <1>3, AppendMore
<1>6. op.op = "Call" /\ op.site = n + 1 /\ op.callee = CalleeNow(p, fr) /\ op.arg = ArgNow(p, fr)
  <2>1. CalleeNow(p, fr) = Eval(NextSite(p, fr).callee, fr.ctx, fr.vals)
        /\ ArgNow(p, fr) = Eval(NextSite(p, fr).arg, fr.ctx, fr.vals)
    <3>1. fr.vals \in Seq(Value) /\ us = Append(fr.vals, v) /\ n = Len(fr.vals)
      BY <1>1, <1>2, <1>3
    <3> QED BY <3>1, NowIs
  <2> QED BY <1>1, <2>1 DEF CallOp
<1>7. OpsOrdered(more, n + 1)
  <2>1. op.callee.pending \cup op.arg.pending \subseteq DOMAIN ops
    <3>1. \A e : Eval(e, c, vals).pending \subseteq DOMAIN w.deferred
      BY <1>4, EvalPending
    <3> QED BY <1>1, <3>1 DEF CallOp
  <2>2. OpsOrdered(ops, n)
    <3>1. OpsOrdered(w.deferred, Len(vals))
      BY <1>4 DEF SitesTaken
    <3>2. ops = w.deferred /\ n = Len(vals)
      BY <1>1
    <3> QED BY <3>1, <3>2
  <2>3. n + 1 \in Nat /\ n <= n + 1 /\ op.site \in (n + 1)..(n + 1)
    BY <1>2, <1>6
  <2>4. OpsOrdered(Append(ops, op), n + 1)
    BY <1>2, <2>1, <2>2, <2>3, OpsOrderedMore
  <2> QED BY <1>3, <2>4
<1>8. \A i \in 1..n : NotDeferred(ops, i) => NotDeferred(more, i)
  BY <1>2, <1>5, <1>6
<1>9. SiteTaken(p, st, res, c, u, us, n + 1)
  <2>1. us[n + 1] = v
    BY <1>1, <1>2, <1>3, AppendType
  <2>2. CalleeOf(p, c, us, n + 1) = CalleeNow(p, fr) /\ ArgOf(p, c, us, n + 1) = ArgNow(p, fr)
    <3>1. fr.vals \in Seq(Value) /\ us = Append(fr.vals, v) /\ n = Len(fr.vals)
      BY <1>1, <1>2, <1>3
    <3> QED BY <1>1, <3>1, NowIs
  <2>3. Deferred(p, c, more, us, n + 1)
    <3>1. Len(ops) + 1 \in us[n + 1].pending \cap DOMAIN more
      BY <1>3, <1>5, <2>1
    <3> QED BY <1>5, <1>6, <2>2, <3>1 DEF Deferred
  <2> QED BY <1>1, <1>3, <1>5, <2>1, <2>3 DEF SiteTaken
<1>10. SitesTaken(p, st, res, c, u, us)
  <2>1. {} \in SUBSET Ctx /\ OpsMore(w.deferred, u.deferred) /\ OpsOrdered(u.deferred, n + 1)
        /\ \A i \in 1..n : NotDeferred(w.deferred, i) => NotDeferred(u.deferred, i)
    BY <1>1, <1>5, <1>7, <1>8
  <2> QED BY <1>1, <1>2, <1>3, <1>4, <1>9, <2>1, SitesTakenNext
<1> QED BY <1>1, <1>3, <1>10 DEF WalkClosed

(* A walk whose call has started,                                          *)
LEMMA StartClosed ==
  ASSUME NEW p, NEW st, NEW res, NEW fr, WalkClosed(p, st, res, fr),
         ~NeedsDefer(CalleeNow(p, fr), ArgNow(p, fr)),
         NEW gr, gr.w = fr.w, gr.vals = fr.vals, gr.ctx = fr.ctx,
         gr.site = StartSite(CalleeNow(p, fr).known, ArgNow(p, fr).known)
  PROVE  WalkClosed(p, st, res, gr)
<1>1. PICK callees, arg, s : /\ callees = CalleeNow(p, fr).known /\ arg = ArgNow(p, fr).known
                             /\ s = gr.site
  OBVIOUS
<1>2. /\ s.todo = callees \cap Func /\ s.arg = arg /\ s.targets = {}
      /\ s.out.known = callees \cap {Unknown} /\ s.out.pending = {}
  BY <1>1 DEF StartSite
<1>3. Unknown \notin Func
  BY FuncAssumption
<1>4. Keys(callees \ s.todo, arg) = {}
  BY <1>2 DEF Keys
<1>5. Accounted(callees \ s.todo, arg, s.out.known, AnswersNow(st, res, gr.w, s))
  BY <1>2, <1>3, <1>4 DEF Accounted
<1>6. SiteOpen(callees, s, AnswersNow(st, res, gr.w, s))
  BY <1>2, <1>4, <1>5 DEF SiteOpen
<1>7. CalleeNow(p, gr) = CalleeNow(p, fr) /\ ArgNow(p, gr) = ArgNow(p, fr)
  BY DEF CalleeNow, ArgNow
<1>8. SitesTaken(p, st, res, gr.ctx, gr.w, gr.vals)
  BY DEF WalkClosed
<1> QED BY <1>1, <1>2, <1>6, <1>7, <1>8, WalkIsClosed

(* and one whose call is over.                                             *)
LEMMA FinishClosed ==
  ASSUME NEW p, NEW st, NEW res, NEW fr \in WalkFrame, WalkClosed(p, st, res, fr),
         NEW s \in SiteCall, s = fr.site, s # None, s.todo = {},
         NEW gr, gr.vals = Append(fr.vals, s.out), gr.site = None, gr.ctx = fr.ctx,
         gr.w.deferred = fr.w.deferred, gr.w.calls = Append(fr.w.calls, s.targets)
  PROVE  WalkClosed(p, st, res, gr)
<1>1. PICK c, w, vals, ops, n, us, u :
        /\ c = fr.ctx /\ w = fr.w /\ vals = fr.vals /\ ops = fr.w.deferred /\ n = Len(vals)
        /\ us = gr.vals /\ u = gr.w
  OBVIOUS
<1>2. /\ w \in Walk /\ ops \in Seq(DeferredOp) /\ vals \in Seq(Value) /\ n \in Nat
      /\ s.out \in Value /\ s.targets \in SUBSET Ctx
  BY <1>1, WalkFrameType, WalkFields, SeqType DEF SiteCall
<1>3. /\ SitesTaken(p, st, res, c, w, vals)
      /\ ~NeedsDefer(CalleeNow(p, fr), ArgNow(p, fr))
      /\ s.arg = ArgNow(p, fr).known /\ s.out.pending \subseteq DOMAIN ops
      /\ SiteOpen(CalleeNow(p, fr).known, s, AnswersNow(st, res, w, s))
  BY <1>1, WalkAtSite
<1>4. PICK callee, arg : callee = CalleeNow(p, fr) /\ arg = ArgNow(p, fr)
  OBVIOUS
<1>5. Accounted(callee.known, arg.known, s.out.known, AnswersNow(st, res, w, s))
      /\ s.targets = Keys(callee.known, arg.known)
  <2>1. callee.known \ s.todo = callee.known
    OBVIOUS
  <2> QED BY <1>3, <1>4, <2>1 DEF SiteOpen
<1>6. OpsOrdered(ops, n) /\ OpsOrdered(ops, n + 1) /\ NotDeferred(ops, n + 1)
  <2>1. OpsOrdered(ops, n)
    BY <1>1, <1>3 DEF SitesTaken
  <2>2. \A j \in DOMAIN ops : ops[j].op = "Call" =>
          ops[j].site \in 1..(n + 1) /\ ops[j].site # n + 1
    BY <1>2, <2>1 DEF OpsOrdered
  <2> QED BY <2>1, <2>2 DEF OpsOrdered, NotDeferred
<1>7. u.calls[n + 1] = s.targets
  <2>1. PICK calls \in Seq(SUBSET Ctx) : calls = w.calls
    BY <1>2, WalkFields
  <2>2. DOMAIN calls = DOMAIN vals /\ Len(calls) = n
    BY <1>1, <1>2, <1>3, <2>1, SeqType DEF SitesTaken
  <2> QED BY <1>1, <1>2, <2>1, <2>2, AppendType
<1>8. SiteTaken(p, st, res, c, u, us, n + 1)
  <2>1. us[n + 1] = s.out
    BY <1>1, <1>2, AppendType
  <2>2. CalleeOf(p, c, us, n + 1) = callee /\ ArgOf(p, c, us, n + 1) = arg
    BY <1>1, <1>2, <1>4, NowIs
  <2>3. Called(p, st, res, c, u, us, n + 1)
    BY <1>1, <1>3, <1>4, <1>5, <1>6, <1>7, <2>1, <2>2 DEF Called, AnswersNow, NotDeferred
  <2> QED BY <1>1, <1>3, <2>1, <2>3 DEF SiteTaken
<1>9. SitesTaken(p, st, res, c, u, us)
  <2>1. OpsMore(w.deferred, u.deferred) /\ OpsOrdered(u.deferred, n + 1)
        /\ \A i \in 1..n : NotDeferred(w.deferred, i) => NotDeferred(u.deferred, i)
    BY <1>1, <1>6 DEF OpsMore
  <2>2. us = Append(vals, s.out) /\ u.calls = Append(w.calls, s.targets)
    BY <1>1
  <2> QED BY <1>1, <1>2, <1>3, <1>8, <2>1, <2>2, SitesTakenNext
<1> QED BY <1>1, <1>9 DEF WalkClosed

(* eval_call: the call is deferred.                                        *)
LEMMA ClosedDeferCall ==
  ASSUME Inv, ClosedInv, DeferCall
  PROVE  ClosedInv'
<1>1. AtSite /\ Top.kind = "walk" /\ Top.site = None /\ Callee \in Value /\ Arg \in Value
      /\ Top \in WalkFrame /\ Len(Top.vals) \in Nat /\ Top.w \in Walk
      /\ Len(Top.w.deferred) \in Nat
  BY AtSiteType, WalkFrameType, WalkFields, SeqType DEF DeferCall, AtSite
<1> DEFINE op == [op |-> "Call", site |-> Len(Top.vals) + 1, callee |-> Callee, arg |-> Arg]
           w == [Top.w EXCEPT !.deferred = Append(@, op), !.calls = Append(@, {})]
           v == [known |-> {}, pending |-> {Len(Top.w.deferred) + 1}]
           fr == [Top EXCEPT !.w = w, !.vals = Append(@, v)]
<1>2. SetTop(fr)
  BY <1>1, WalkFrameType DEF DeferCall, WalkFrame, Walk
<1>3. op \in DeferredOp /\ v \in Value
  BY <1>1 DEF DeferredOp, Value
<1>4. CallOp(prog, Top, op)
  BY DEF CallOp, NextSite, Callee, Arg, SiteNow, BodyOf
<1>5. v.known = {} /\ v.pending = {Len(Top.w.deferred) + 1}
  OBVIOUS
<1>6. /\ w.deferred = Append(Top.w.deferred, op) /\ w.rets = Top.w.rets
      /\ w.resolved = Top.w.resolved /\ w.calls = Append(Top.w.calls, {})
  BY <1>1 DEF Walk
<1> HIDE DEF op, v, w
<1>7. /\ fr.kind = "walk" /\ fr.base = Top.base /\ fr.ctx = Top.ctx /\ fr.site = None
      /\ fr.w = w /\ fr.vals = Append(Top.vals, v)
  BY <1>1 DEF WalkFrame
<1> HIDE DEF fr
<1>8. Defers(Top, fr, op, v)
  BY <1>5, <1>6, <1>7 DEF Defers
<1>9. WalkClosed(prog, state, result, Top) => WalkClosed(prog, state, result, fr)
  BY <1>1, <1>3, <1>4, <1>6, <1>7, <1>8, DeferClosed
<1>10. UNCHANGED <<prog, slots, heads, parked, stack, fixpoint>>
  BY DEF DeferCall
<1> QED BY <1>1, <1>2, <1>7, <1>9, <1>10, ClosedWalkOn

(* eval_call: call_values starts.                                          *)
LEMMA ClosedStartCall ==
  ASSUME Inv, ClosedInv, StartCall
  PROVE  ClosedInv'
<1>1. AtSite /\ Top.kind = "walk" /\ Top \in WalkFrame /\ Callee \in Value /\ Arg \in Value
      /\ Top.vals \in Seq(Value)
  BY AtSiteType, WalkFrameType DEF StartCall, AtSite
<1>2. PICK s : s = StartSite(Callee.known, Arg.known)
  OBVIOUS
<1>3. PICK fr : fr = [Top EXCEPT !.site = s]
  OBVIOUS
<1>4. SetTop(fr)
  BY <1>2, <1>3 DEF StartCall
<1>5. /\ fr.kind = "walk" /\ fr.base = Top.base /\ fr.ctx = Top.ctx /\ fr.site = s
      /\ fr.w = Top.w /\ fr.vals = Top.vals
  BY <1>1, <1>3 DEF WalkFrame
<1>6. CalleeNow(prog, Top) = Callee /\ ArgNow(prog, Top) = Arg
  <2>1. PICK v, us, n : v = Callee /\ v \in Value /\ us = Append(Top.vals, v) /\ n = Len(Top.vals)
    BY <1>1
  <2>2. /\ CalleeNow(prog, Top) = Eval(NextSite(prog, Top).callee, Top.ctx, Top.vals)
        /\ ArgNow(prog, Top) = Eval(NextSite(prog, Top).arg, Top.ctx, Top.vals)
    BY <1>1, <2>1, NowIs
  <2> QED BY <2>2 DEF NextSite, Callee, Arg, SiteNow, BodyOf
<1>7. ~NeedsDefer(Callee, Arg)
  BY DEF StartCall
<1>8. WalkClosed(prog, state, result, Top) => WalkClosed(prog, state, result, fr)
  BY <1>2, <1>5, <1>6, <1>7, StartClosed
<1>9. UNCHANGED <<prog, slots, heads, parked, stack, fixpoint>>
  BY DEF StartCall
<1> QED BY <1>1, <1>4, <1>5, <1>8, <1>9, ClosedWalkOn

(* call_values: the walk takes what its callees answered and goes on.      *)
LEMMA ClosedFinishCall ==
  ASSUME Inv, ClosedInv, FinishCall
  PROVE  ClosedInv'
<1>1. /\ Top.kind = "walk" /\ Top \in WalkFrame /\ Top.site # None /\ Top.w \in Walk
      /\ Top.site \in SiteCall /\ Top.site.todo = {}
  BY TopFrame, FrameType, WalkFrameType DEF FinishCall, InSite
<1> DEFINE w == [Top.w EXCEPT !.calls = Append(@, Top.site.targets)]
           fr == [Top EXCEPT !.w = w, !.vals = Append(@, Top.site.out), !.site = None]
<1>2. SetTop(fr)
  BY <1>1 DEF FinishCall, WalkFrame, Walk
<1>3. w.deferred = Top.w.deferred /\ w.calls = Append(Top.w.calls, Top.site.targets)
  BY <1>1 DEF Walk
<1> HIDE DEF w
<1>4. /\ fr.kind = "walk" /\ fr.base = Top.base /\ fr.ctx = Top.ctx /\ fr.site = None
      /\ fr.w = w /\ fr.vals = Append(Top.vals, Top.site.out)
  BY <1>1 DEF WalkFrame
<1> HIDE DEF fr
<1>5. WalkClosed(prog, state, result, Top) => WalkClosed(prog, state, result, fr)
  BY <1>1, <1>3, <1>4, FinishClosed
<1>6. UNCHANGED <<prog, slots, heads, parked, stack, fixpoint>>
  BY DEF FinishCall
<1> QED BY <1>1, <1>2, <1>4, <1>5, <1>6, ClosedWalkOn

-----------------------------------------------------------------------------
(* A replay goes on.                                                       *)

(* The fixpoint on top goes on.                                            *)
LEMMA ClosedReplayOn ==
  ASSUME Inv, ClosedInv, Top.kind = "resolve", OthersKept(read),
         \A c \in Ctx : /\ state'[c] \in Waiting <=> state[c] \in Waiting
                        /\ state'[c] = "Ready" <=> state[c] = "Ready",
         UNCHANGED <<prog, heads, read, fixpoint, result>>,
         \A c \in Ctx : state[c] \in Waiting => SameWaiter(walk[c], walk'[c]),
         \A c \in Ctx : state'[c] = "Resolving" =>
             DOMAIN walk'[c].resolved = DOMAIN walk'[c].deferred,
         NEW fr, SameLinks(Top, fr), SetTop(fr),
         Replays(fr) => Placed(walk', fr),
         ~fr.changed /\ ~Disturbed(fixpoint, ctl, Top.head)
            => RoundClosed(state', result, heads, current', read, walk', fr)
  PROVE  ClosedInv'
<1>1. ReadyLasts /\ ctl' = [ctl EXCEPT ![Len(ctl)] = fr]
  BY DEF ReadyLasts, FinalsKept, SetTop
<1>2. SlotsClosed(read)
  <2>1. ASSUME NEW c \in Ctx, state'[c] \in Waiting, read[c].cut = None
        PROVE  state[c] \in Waiting /\ read[c].cut = None /\ SameWaiter(walk[c], walk'[c])
    BY <2>1
  <2> QED BY <1>1, <2>1, SlotsStay
<1>3. fr.kind = "resolve" /\ fr.head = Top.head
  BY DEF SameLinks
<1>4. Disturbed(fixpoint, ctl, Top.head) => Disturbed(fixpoint, ctl', Top.head)
  <2>1. PICK k \in Nat : k = Len(ctl) /\ DOMAIN ctl = 1..k /\ k \in 1..k /\ ctl[k] = Top
    BY TopFrame, SeqType
  <2>2. DOMAIN ctl' = 1..k /\ ctl'[k] = fr /\ \A i \in 1..k : i # k => ctl'[i] = ctl[i]
    BY <1>1, <2>1
  <2>3. ASSUME NEW i \in 1..k, ctl[i].kind = "resolve"
        PROVE  ctl'[i].kind = "resolve" /\ ctl'[i].outer = ctl[i].outer
    BY <2>1, <2>2, <2>3 DEF SameLinks
  <2> QED BY <2>1, <2>2, <2>3 DEF Disturbed
<1>5. FrameClosed(prog, state', result', heads', current', read, walk', fixpoint, ctl', fr)
  BY <1>3, <1>4 DEF FrameClosed
<1> QED BY <1>1, <1>2, <1>5, ClosedAfterTop

(* The round of the fixpoint on top is closed, as long as it changed       *)
(* nothing and was not disturbed.                                          *)
LEMMA RoundNow ==
  ASSUME Inv, ClosedInv, Top.kind = "resolve", ~Top.changed,
         ~Disturbed(fixpoint, ctl, Top.head)
  PROVE  RoundClosed(state, result, heads, current, read, walk, Top)
<1>1. Len(ctl) \in DOMAIN ctl /\ Top = ctl[Len(ctl)]
  BY TopFrame
<1> QED BY <1>1 DEF ClosedInv, FramesClosed, FrameClosed

(* The member a fixpoint replays waits, and is listed once.                *)
LEMMA MemberNow ==
  ASSUME Inv, WaitersInv, ClosedInv, Replays(Top), NEW m, m = Member(Top)
  PROVE  /\ Top \in ResolveFrame /\ Top.kind = "resolve" /\ m \in Ctx /\ walk[m] \in Walk
         /\ state[m] = "Resolving" /\ state[m] \in Waiting /\ heads[m] = Top.head
         /\ Top.at \in DOMAIN Top.members /\ m = Top.members[Top.at] /\ Top.members \in Seq(Ctx)
         /\ \A k \in DOMAIN Top.members : k # Top.at => Top.members[k] # m
         /\ DOMAIN Top.now = DOMAIN walk[m].deferred
         /\ Top.site # None => walk[m].deferred[Top.pc].op = "Call"
         /\ walk[m].deferred \in Seq(DeferredOp) /\ Top.pc \in Nat \ {0}
         /\ read[m].cut = None => WaiterClosed(prog, state, result, m, walk[m])
<1>1. /\ Top \in ResolveFrame /\ Top.kind = "resolve" /\ m \in Ctx /\ walk[m] \in Walk
      /\ state[m] = "Resolving" /\ state[m] \in Waiting /\ heads[m] = Top.head
      /\ Top.at \in 1..Len(Top.members)
  BY Replaying DEF Waiting, Replays
<1>2. /\ Top.members \in Seq(Ctx) /\ Top.at \in DOMAIN Top.members /\ m = Top.members[Top.at]
      /\ Top.pc \in Nat \ {0} /\ walk[m].deferred \in Seq(DeferredOp)
  BY <1>1, ResolveFrameType, WalkFields, SeqType DEF Member
<1>3. Len(ctl) \in DOMAIN ctl /\ Top = ctl[Len(ctl)]
  BY TopFrame
<1>4. \A k \in DOMAIN Top.members : k # Top.at => Top.members[k] # m
  BY <1>1, <1>2, <1>3 DEF WaitersInv, ListsFit, IsInjective
<1>5. /\ DOMAIN Top.now = DOMAIN walk[m].deferred
      /\ Top.site # None => walk[m].deferred[Top.pc].op = "Call"
  BY <1>3 DEF ClosedInv, PlacesFit, Placed, OpsOf
<1>6. read[m].cut = None => WaiterClosed(prog, state, result, m, walk[m])
  BY <1>1 DEF ClosedInv, WaitersClosed
<1> QED BY <1>1, <1>2, <1>4, <1>5, <1>6

(* Everyone else is left alone when only that member changes.              *)
LEMMA OnlyMember ==
  ASSUME Inv, NEW m \in Ctx, heads[m] = Top.head, Top.kind = "resolve",
         UNCHANGED <<state, heads>>,
         \A c \in Ctx : c # m => walk'[c] = walk[c] /\ current'[c] = current[c]
  PROVE  OthersKept(read)
<1>1. Owner(Top) = Top.head
  BY DEF Owner
<1> QED BY <1>1 DEF OthersKept

(* Only the member that the frame fr replays goes on; fr becomes gr.        *)
Replayed(st, res, hs, cur, rd, wk, vk, fr, gr) ==
    LET m == Member(fr) IN
    /\ RoundClosed(st, res, hs, cur, rd, wk, fr)
    /\ fr.members \in Seq(Ctx) /\ fr.at \in Nat
    /\ gr.head = fr.head /\ gr.members = fr.members /\ gr.at = fr.at
    /\ \A k \in DOMAIN fr.members : k # fr.at => vk[fr.members[k]] = wk[fr.members[k]]
    /\ rd[m].cut = None /\ ReplayClosed(st, res, hs, cur, wk[m], fr)
          => ReplayClosed(st, res, hs, cur, vk[m], gr)

(* A round stays closed when only the member it replays goes on.           *)
LEMMA RoundReplays ==
  ASSUME NEW st, NEW res, NEW hs, NEW cur, NEW rd, NEW wk, NEW vk, NEW fr, NEW gr,
         Replayed(st, res, hs, cur, rd, wk, vk, fr, gr)
  PROVE  RoundClosed(st, res, hs, cur, rd, vk, gr)
<1>0. PICK m : /\ m = Member(fr)
               /\ rd[m].cut = None /\ ReplayClosed(st, res, hs, cur, wk[m], fr)
                     => ReplayClosed(st, res, hs, cur, vk[m], gr)
  BY DEF Replayed
<1> USE DEF Replayed
<1>1. SUFFICES ASSUME NEW k \in DOMAIN fr.members, rd[fr.members[k]].cut = None
               PROVE  LET c == fr.members[k] IN
                      /\ k < fr.at => MemberClosed(st, res, hs, cur, fr.head, vk[c], c)
                      /\ k = fr.at => ReplayClosed(st, res, hs, cur, vk[c], gr)
  BY DEF RoundClosed
<1>2. PICK c : c = fr.members[k] /\ rd[c].cut = None /\ k \in Nat
  BY <1>1, SeqType
<1>3. /\ k < fr.at => MemberClosed(st, res, hs, cur, fr.head, wk[c], c)
      /\ k = fr.at => ReplayClosed(st, res, hs, cur, wk[c], fr)
  BY <1>2 DEF RoundClosed
<1>4. ASSUME k < fr.at PROVE MemberClosed(st, res, hs, cur, fr.head, vk[c], c)
  <2>1. k # fr.at
    BY <1>2, <1>4
  <2> QED BY <1>2, <1>3, <1>4, <2>1
<1>5. ASSUME k = fr.at PROVE ReplayClosed(st, res, hs, cur, vk[c], gr)
  <2>1. c = m
    BY <1>0, <1>2, <1>5 DEF Member
  <2> QED BY <1>0, <1>2, <1>3, <1>5, <2>1
<1> QED BY <1>2, <1>4, <1>5

(* A call that starts has no callee that answered, and none it need have.  *)
LEMMA StartOpen ==
  ASSUME NEW callees, NEW arg, NEW D
  PROVE  SiteOpen(callees, StartSite(callees, arg), D) /\ StartSite(callees, arg).arg = arg
<1>1. PICK s : s = StartSite(callees, arg)
  OBVIOUS
<1>2. /\ s.todo = callees \cap Func /\ s.arg = arg /\ s.targets = {}
      /\ s.out.known = callees \cap {Unknown}
  BY <1>1 DEF StartSite
<1>3. Unknown \notin Func
  BY FuncAssumption
<1>4. Keys(callees \ s.todo, arg) = {}
  BY <1>2 DEF Keys
<1>5. Accounted(callees \ s.todo, arg, s.out.known, D)
  BY <1>2, <1>3, <1>4 DEF Accounted
<1> QED BY <1>1, <1>2, <1>4, <1>5 DEF SiteOpen

(* A replay stays closed when it makes a deferred call.                    *)
LEMMA ReplayCallClosed ==
  ASSUME NEW st, NEW res, NEW hs, NEW cur, NEW w, NEW fr \in ResolveFrame,
         ReplayClosed(st, res, hs, cur, w, fr),
         NEW op, op = w.deferred[fr.pc], fr.pc \in DOMAIN w.deferred, op.op = "Call",
         NEW gr, gr.now = fr.now, gr.pc = fr.pc, gr.head = fr.head,
         gr.site = StartSite(Substitute(op.callee, fr.now), Substitute(op.arg, fr.now))
  PROVE  ReplayClosed(st, res, hs, cur, w, gr)
<1>1. PICK callees, arg : callees = Substitute(op.callee, fr.now) /\ arg = Substitute(op.arg, fr.now)
  OBVIOUS
<1>2. /\ SiteOpen(callees, gr.site, Answering(st, res, hs, cur, gr.head, gr.site.out.known))
      /\ gr.site.arg = arg
  BY <1>1, StartOpen
<1> QED BY <1>1, <1>2 DEF ReplayClosed

(* replay: a deferred call is made.                                        *)
LEMMA ClosedReplayCall ==
  ASSUME Inv, WaitersInv, ClosedInv, ReplayCall
  PROVE  ClosedInv'
<1>1. HasOp(Top) /\ Replays(Top) /\ Op(Top).op = "Call" /\ Top.site = None
  BY DEF ReplayCall, HasOp
<1>2. PICK m : m = Member(Top)
  OBVIOUS
<1>3. /\ Top \in ResolveFrame /\ Top.kind = "resolve" /\ m \in Ctx /\ heads[m] = Top.head
      /\ Top.members \in Seq(Ctx) /\ DOMAIN Top.now = DOMAIN walk[m].deferred
      /\ walk[m].deferred \in Seq(DeferredOp) /\ Top.pc \in Nat \ {0}
  BY <1>1, <1>2, MemberNow
<1>4. PICK op : op = walk[m].deferred[Top.pc] /\ op = Op(Top) /\ op.op = "Call"
  BY <1>1, <1>2 DEF Op
<1>5. Top.pc \in DOMAIN walk[m].deferred
  <2>1. Top.pc <= Len(walk[m].deferred)
    BY <1>1, <1>2 DEF HasOp
  <2> QED BY <1>3, <2>1, SeqType
<1>6. PICK s : s = StartSite(Substitute(op.callee, Top.now), Substitute(op.arg, Top.now))
  OBVIOUS
<1>7. PICK fr : fr = [Top EXCEPT !.site = s]
  OBVIOUS
<1>8. SetTop(fr) /\ UNCHANGED <<prog, slots, heads, fixpoint>>
  BY <1>4, <1>6, <1>7 DEF ReplayCall
<1>9. UNCHANGED <<prog, state, heads, read, current, fixpoint, result, walk>>
  BY <1>8 DEF slots
<1>10. /\ SameLinks(Top, fr) /\ fr.members = Top.members /\ fr.head = Top.head
       /\ fr.at = Top.at /\ fr.pc = Top.pc /\ fr.now = Top.now /\ fr.site = s
       /\ fr.changed = Top.changed /\ fr.kind = "resolve" /\ Top.at \in Nat
  BY <1>3, <1>7, ResolveFrameType DEF ResolveFrame, SameLinks
<1>11. ASSUME ~fr.changed, ~Disturbed(fixpoint, ctl, Top.head)
       PROVE  RoundClosed(state, result, heads, current, read, walk, fr)
  <2>1. RoundClosed(state, result, heads, current, read, walk, Top)
    BY <1>3, <1>10, <1>11, RoundNow
  <2>2. ASSUME ReplayClosed(state, result, heads, current, walk[m], Top)
        PROVE  ReplayClosed(state, result, heads, current, walk[m], fr)
    BY <1>3, <1>4, <1>5, <1>6, <1>10, <2>2, ReplayCallClosed
  <2>3. Replayed(state, result, heads, current, read, walk, walk, Top, fr)
    BY <1>2, <1>3, <1>10, <2>1, <2>2 DEF Replayed
  <2> QED BY <2>3, RoundReplays
<1>12. OthersKept(read)
  BY <1>3, <1>9, OnlyMember
<1>13. \A c \in Ctx : SameWaiter(walk[c], walk'[c])
  BY <1>9 DEF SameWaiter
<1>14. \A c \in Ctx : state'[c] = "Resolving" => DOMAIN walk'[c].resolved = DOMAIN walk'[c].deferred
  BY <1>9 DEF ClosedInv, PlacesFit
<1>15. Placed(walk', fr)
  BY <1>2, <1>3, <1>4, <1>5, <1>9, <1>10 DEF Placed, OpsOf, Member
<1> QED BY <1>3, <1>8, <1>9, <1>10, <1>11, <1>12, <1>13, <1>14, <1>15, ClosedReplayOn

(* replay: the deferred call has its value, and its edge is refilled.      *)
LEMMA ClosedReplayDone ==
  ASSUME Inv, RoundsSuffice, WaitersInv, ClosedInv, ReplayDone
  PROVE  ClosedInv'
<1>1. HasOp(Top) /\ Replays(Top) /\ InSite(Top) /\ Top.site.todo = {} /\ Top.site # None
  BY DEF ReplayDone, HasOp, InSite
<1>2. PICK m, w : m = Member(Top) /\ w = walk[m]
  OBVIOUS
<1>3. /\ Top \in ResolveFrame /\ Top.kind = "resolve" /\ m \in Ctx /\ heads[m] = Top.head
      /\ w \in Walk /\ state[m] = "Resolving"
      /\ Top.members \in Seq(Ctx) /\ DOMAIN Top.now = DOMAIN w.deferred
      /\ w.deferred \in Seq(DeferredOp) /\ Top.pc \in Nat \ {0}
      /\ \A k \in DOMAIN Top.members : k # Top.at => Top.members[k] # m
      /\ w.deferred[Top.pc].op = "Call"
      /\ read[m].cut = None => WaiterClosed(prog, state, result, m, w)
  BY <1>1, <1>2, MemberNow
<1>4. PICK op, s, v : op = w.deferred[Top.pc] /\ op = Op(Top) /\ s = Top.site /\ v = s.out.known
  BY <1>2 DEF Op
<1>5. s \in SiteCall /\ v \in SUBSET V
  BY <1>1, <1>3, <1>4, ResolveFrameType DEF SiteCall, Value
<1>6. Top.pc \in DOMAIN w.deferred
  <2>1. Top.pc <= Len(w.deferred)
    BY <1>1, <1>2 DEF HasOp
  <2> QED BY <1>3, <2>1, SeqType
<1>7. PICK fr : fr = OpDone(Top, v)
  OBVIOUS
<1>8. SetTop(fr) /\ UNCHANGED <<prog, state, heads, read, current, fixpoint, result>>
  BY <1>4, <1>7 DEF ReplayDone
<1>9. PICK u : u = [w EXCEPT !.calls[op.site] = s.targets]
  OBVIOUS
<1>10. walk'[m] = u /\ \A c \in Ctx : c # m => walk'[c] = walk[c]
  <2>1. walk \in [Ctx -> Walk \cup {None}]
    BY DEF Inv, TypeOK
  <2>2. walk' = [walk EXCEPT ![m].calls[op.site] = s.targets]
    BY <1>2, <1>4 DEF ReplayDone
  <2> QED BY <1>2, <1>3, <1>9, <2>1, <2>2
<1>11. /\ u.deferred = w.deferred /\ u.rets = w.rets /\ u.resolved = w.resolved
       /\ u.calls = [w.calls EXCEPT ![op.site] = s.targets]
  BY <1>3, <1>9 DEF Walk
<1>12. /\ SameLinks(Top, fr) /\ fr.members = Top.members /\ fr.head = Top.head
       /\ fr.at = Top.at /\ DOMAIN fr.now = DOMAIN Top.now /\ fr.site = None
       /\ fr.changed = Top.changed /\ fr.kind = "resolve" /\ Top.at \in Nat
  <2>1. \E x : fr = [Top EXCEPT !.now[Top.pc] = x, !.pc = @ + 1, !.site = None]
    BY <1>7 DEF OpDone
  <2> QED BY <1>3, <2>1, ResolveFrameType DEF ResolveFrame, SameLinks
<1>13. ASSUME read[m].cut = None, ReplayClosed(state, result, heads, current, w, Top)
       PROVE  ReplayClosed(state, result, heads, current, u, fr)
  <2>1. PICK vals \in Seq(Value) : SitesTaken(prog, state, result, m, w, vals)
    BY <1>3, <1>13 DEF WaiterClosed
  <2>2. OpsOrdered(w.deferred, Len(vals)) /\ DOMAIN w.calls = DOMAIN vals /\ DOMAIN vals = 1..Len(vals)
    BY <2>1, SeqType DEF SitesTaken
  <2>3. PICK callees, arg, D : /\ callees = Substitute(op.callee, Top.now)
                               /\ arg = Substitute(op.arg, Top.now)
                               /\ D = Answering(state, result, heads, current, Top.head, v)
    OBVIOUS
  <2>4. /\ op.op = "Call" /\ s.arg = arg /\ SiteOpen(callees, s, D)
    BY <1>1, <1>4, <1>13, <2>3 DEF ReplayClosed
  <2>5. Accounted(callees, arg, v, D) /\ s.targets = Keys(callees, arg)
    <3>1. callees \ s.todo = callees
      BY <1>1, <1>4
    <3> QED BY <1>4, <2>4, <3>1 DEF SiteOpen
  <2>6. op.site \in DOMAIN w.calls
    BY <1>4, <1>6, <2>2, <2>4 DEF OpsOrdered
  <2>7. u.calls[op.site] = Keys(callees, arg)
    BY <1>11, <2>5, <2>6
  <2>8. EdgeRefilled(w, u, Top.pc)
    <3>1. ASSUME NEW i \in DOMAIN w.deferred, w.deferred[i].op = "Call", i # Top.pc
          PROVE  w.deferred[i].site # op.site
      BY <1>4, <1>6, <2>2, <2>4, <3>1 DEF OpsOrdered
    <3> QED BY <1>11, <3>1 DEF EdgeRefilled
  <2>9. ~Capped(Top)
    BY <1>3, TopFrame, NotCapped
  <2>10. ReplayClosed(state, result, heads, current, u, OpDone(Top, v))
    <3>1. PICK n : OpsOrdered(w.deferred, n)
      BY <2>2
    <3>2. op.op # "Apply"
      BY <2>4
    <3>3. /\ Accounted(Substitute(op.callee, Top.now), Substitute(op.arg, Top.now), v, D)
          /\ u.calls[op.site] = Keys(Substitute(op.callee, Top.now), Substitute(op.arg, Top.now))
      BY <2>3, <2>5, <2>7
    <3> QED BY <1>3, <1>4, <1>6, <1>13, <2>3, <2>8, <2>9, <3>1, <3>2, <3>3, OpDoneClosed
  <2> QED BY <1>7, <2>10
<1>14. ASSUME ~fr.changed, ~Disturbed(fixpoint, ctl, Top.head)
       PROVE  RoundClosed(state, result, heads, current, read, walk', fr)
  <2>1. RoundClosed(state, result, heads, current, read, walk, Top)
    BY <1>3, <1>12, <1>14, RoundNow
  <2>2. \A k \in DOMAIN Top.members : k # Top.at => walk'[Top.members[k]] = walk[Top.members[k]]
    <3>1. \A k \in DOMAIN Top.members : Top.members[k] \in Ctx
      BY <1>3, SeqType
    <3> QED BY <1>3, <1>10, <3>1
  <2>3. read[m].cut = None /\ ReplayClosed(state, result, heads, current, walk[m], Top)
            => ReplayClosed(state, result, heads, current, walk'[m], fr)
    BY <1>2, <1>10, <1>13
  <2>4. PICK vk, st, res, hs, cur, rd, wk, top :
          /\ vk = walk' /\ st = state /\ res = result /\ hs = heads /\ cur = current
          /\ rd = read /\ wk = walk /\ top = Top
    OBVIOUS
  <2>5. /\ RoundClosed(st, res, hs, cur, rd, wk, top) /\ top.members \in Seq(Ctx) /\ top.at \in Nat
        /\ fr.head = top.head /\ fr.members = top.members /\ fr.at = top.at /\ m = Member(top)
        /\ \A k \in DOMAIN top.members : k # top.at => vk[top.members[k]] = wk[top.members[k]]
        /\ rd[m].cut = None /\ ReplayClosed(st, res, hs, cur, wk[m], top)
              => ReplayClosed(st, res, hs, cur, vk[m], fr)
    BY <1>2, <1>3, <1>12, <2>1, <2>2, <2>3, <2>4
  <2>6. RoundClosed(st, res, hs, cur, rd, vk, fr)
    <3>1. Replayed(st, res, hs, cur, rd, wk, vk, top, fr)
      BY <2>5 DEF Replayed
    <3> QED BY <3>1, RoundReplays
  <2> QED BY <2>4, <2>6
<1>15. OthersKept(read)
  BY <1>3, <1>8, <1>10, OnlyMember
<1>16. SameWaiter(w, u)
  <2>1. DOMAIN u.calls = DOMAIN w.calls
    BY <1>11
  <2>2. \A i \in DOMAIN w.calls : NotDeferred(w.deferred, i) => i # op.site
    BY <1>3, <1>4, <1>6 DEF NotDeferred
  <2> QED BY <1>11, <2>1, <2>2 DEF SameWaiter
<1>17. \A c \in Ctx : SameWaiter(walk[c], walk'[c])
  BY <1>2, <1>10, <1>16 DEF SameWaiter
<1>18. \A c \in Ctx : state'[c] = "Resolving" => DOMAIN walk'[c].resolved = DOMAIN walk'[c].deferred
  BY <1>2, <1>8, <1>10, <1>11 DEF ClosedInv, PlacesFit
<1>19. Placed(walk', fr)
  BY <1>2, <1>3, <1>10, <1>11, <1>12 DEF Placed, OpsOf, Member
<1> QED BY <1>3, <1>8, <1>12, <1>14, <1>15, <1>17, <1>18, <1>19, ClosedReplayOn

(* The member that the frame fr replays is done, its summary being what it *)
(* was; fr becomes gr.                                                     *)
Advanced(cur, ju, wk, vk, fr, gr) ==
    LET m == Member(fr) IN
    /\ fr.members \in Seq(Ctx) /\ fr.at \in DOMAIN fr.members
    /\ \A k \in DOMAIN fr.members : wk[fr.members[k]] \in Walk /\ (k # fr.at => fr.members[k] # m)
    /\ \A c \in Ctx : c # m => vk[c] = wk[c] /\ ju[c] = cur[c]
    /\ fr.site = None /\ \A j \in DOMAIN wk[m].deferred : j < fr.pc
    /\ vk[m].deferred = wk[m].deferred /\ vk[m].calls = wk[m].calls
    /\ vk[m].resolved = fr.now /\ ju[m] = FinishRound(vk[m], fr.now)
    /\ ju[m].returns = cur[m].returns
    /\ gr.members = fr.members /\ gr.head = fr.head /\ gr.at = fr.at + 1
    /\ gr.pc = 1 /\ gr.site = None

(* A round stays closed when it comes to its next member.                  *)
LEMMA RoundAdvances ==
  ASSUME NEW st, NEW res, NEW hs, NEW cur, NEW ju, NEW rd, NEW wk, NEW vk, NEW fr, NEW gr,
         RoundClosed(st, res, hs, cur, rd, wk, fr), Advanced(cur, ju, wk, vk, fr, gr)
  PROVE  RoundClosed(st, res, hs, ju, rd, vk, gr)
<1>1. PICK m : m = Member(fr) /\ m = fr.members[fr.at] /\ m \in Ctx
  BY SeqType DEF Advanced, Member
<1>2. /\ fr.members \in Seq(Ctx) /\ fr.at \in Nat
      /\ \A k \in DOMAIN fr.members : k \in Nat /\ fr.members[k] \in Ctx
  BY SeqType DEF Advanced
<1>3. /\ gr.members = fr.members /\ gr.head = fr.head /\ gr.at = fr.at + 1
      /\ gr.pc = 1 /\ gr.site = None
      /\ fr.site = None /\ \A j \in DOMAIN wk[m].deferred : j < fr.pc
      /\ vk[m].deferred = wk[m].deferred /\ vk[m].calls = wk[m].calls
      /\ vk[m].resolved = fr.now /\ ju[m] = FinishRound(vk[m], fr.now)
      /\ \A k \in DOMAIN fr.members : k # fr.at => fr.members[k] # m
      /\ \A c \in Ctx : c # m => vk[c] = wk[c] /\ ju[c] = cur[c]
      /\ ju[m].returns = cur[m].returns
  BY <1>1 DEF Advanced
<1>4. FinalsKept(st, res, st, res) /\ GroupStays(st, hs, cur, st, hs, ju, fr.head)
  BY <1>1, <1>3 DEF FinalsKept, GroupStays
<1>5. \A w, now, j : OpSettled(st, res, hs, cur, fr.head, w, now, j)
                        => OpSettled(st, res, hs, ju, fr.head, w, now, j)
  BY <1>4, OpSettledMore
<1>6. SUFFICES ASSUME NEW k \in DOMAIN fr.members, rd[fr.members[k]].cut = None
               PROVE  LET c == fr.members[k] IN
                      /\ k < gr.at => MemberClosed(st, res, hs, ju, fr.head, vk[c], c)
                      /\ k = gr.at => ReplayClosed(st, res, hs, ju, vk[c], gr)
  BY <1>3 DEF RoundClosed
<1>7. PICK c : c = fr.members[k] /\ c \in Ctx /\ rd[c].cut = None /\ k \in Nat
  BY <1>2, <1>6
<1>8. ASSUME k < fr.at PROVE MemberClosed(st, res, hs, ju, fr.head, vk[c], c)
  <2>1. MemberClosed(st, res, hs, cur, fr.head, wk[c], c)
    BY <1>7, <1>8 DEF RoundClosed
  <2>2. k # fr.at
    BY <1>2, <1>7, <1>8
  <2>3. vk[c] = wk[c] /\ ju[c] = cur[c]
    BY <1>3, <1>7, <2>2
  <2> QED BY <1>5, <2>1, <2>3 DEF MemberClosed
<1>9. ASSUME k = fr.at PROVE MemberClosed(st, res, hs, ju, fr.head, vk[c], c)
  <2>1. c = m
    BY <1>1, <1>7, <1>9
  <2>2. ReplayClosed(st, res, hs, cur, wk[m], fr)
    BY <1>7, <1>9, <2>1 DEF RoundClosed
  <2>3. PICK v : v = vk[m]
    OBVIOUS
  <2>4. \A j \in DOMAIN v.deferred : OpSettled(st, res, hs, cur, fr.head, wk[m], fr.now, j)
    BY <1>3, <2>2, <2>3 DEF ReplayClosed
  <2>5. \A j \in DOMAIN v.deferred : OpSettled(st, res, hs, ju, fr.head, wk[m], fr.now, j)
    BY <1>5, <2>4
  <2>6. \A j \in DOMAIN v.deferred : OpSettled(st, res, hs, ju, fr.head, v, v.resolved, j)
    BY <1>3, <2>3, <2>5 DEF OpSettled
  <2> QED BY <1>3, <2>1, <2>3, <2>6 DEF MemberClosed
<1>10. ASSUME k = gr.at PROVE ReplayClosed(st, res, hs, ju, vk[c], gr)
  <2>1. vk[c] = wk[c]
    BY <1>2, <1>3, <1>7, <1>10
  <2>2. \A j \in DOMAIN wk[c].deferred : ~(j < 1)
    <3>1. PICK w \in Walk : w = wk[c]
      BY <1>7 DEF Advanced
    <3> QED BY <3>1, WalkFields, SeqType
  <2> QED BY <1>3, <2>1, <2>2 DEF ReplayClosed
<1> QED BY <1>2, <1>3, <1>7, <1>8, <1>9, <1>10

(* resolve_group: the member has been replayed, and the next one is.       *)
LEMMA ClosedNextMember ==
  ASSUME Inv, WaitersInv, ClosedInv, NextMember
  PROVE  ClosedInv'
<1>1. /\ MemberOver /\ Replays(Top) /\ Top.site = None
      /\ Top.pc > Len(walk[Member(Top)].deferred)
  BY DEF NextMember, MemberOver
<1>2. PICK m : m = Member(Top)
  OBVIOUS
<1>3. /\ Top \in ResolveFrame /\ Top.kind = "resolve" /\ m \in Ctx /\ walk[m] \in Walk
      /\ state[m] = "Resolving" /\ heads[m] = Top.head /\ Top.members \in Seq(Ctx)
      /\ Top.at \in DOMAIN Top.members
      /\ \A k \in DOMAIN Top.members : k # Top.at => Top.members[k] # m
      /\ DOMAIN Top.now = DOMAIN walk[m].deferred /\ walk[m].deferred \in Seq(DeferredOp)
      /\ Top.pc \in Nat
  BY <1>1, <1>2, MemberNow
<1>4. /\ walk' = [walk EXCEPT ![m].resolved = Top.now]
      /\ current' = [current EXCEPT ![m] = FinishRound(walk[m], Top.now)]
  BY <1>2 DEF NextMember, KeepsResolved
<1>5. /\ \A c \in Ctx : c # m => walk'[c] = walk[c] /\ current'[c] = current[c]
      /\ walk'[m] = [walk[m] EXCEPT !.resolved = Top.now]
      /\ current'[m] = FinishRound(walk[m], Top.now)
  BY <1>3, <1>4 DEF Inv, TypeOK
<1>6. /\ walk'[m].deferred = walk[m].deferred /\ walk'[m].rets = walk[m].rets
      /\ walk'[m].calls = walk[m].calls /\ walk'[m].resolved = Top.now
  BY <1>3, <1>5 DEF Walk
<1>7. PICK fr : /\ SetTop(fr) /\ fr.kind = "resolve" /\ SameLinks(Top, fr) /\ fr.site = None
                /\ fr.members = Top.members /\ fr.at = Top.at + 1 /\ fr.head = Top.head
                /\ fr.pc = 1
                /\ ~fr.changed => /\ ~Top.changed
                                  /\ FinishRound(walk[m], Top.now).returns = current[m].returns
                /\ fr.now = IF Top.at < Len(Top.members)
                            THEN walk[Top.members[Top.at + 1]].resolved ELSE <<>>
  <2>1. PICK fr : fr = [Top EXCEPT
           !.changed = @ \/ FinishRound(walk[m], Top.now).returns # current[m].returns,
           !.at = @ + 1, !.pc = 1,
           !.now = IF Top.at < Len(Top.members)
                   THEN walk[Top.members[Top.at + 1]].resolved ELSE <<>>]
    OBVIOUS
  <2>2. SetTop(fr)
    BY <1>2, <2>1 DEF NextMember
  <2>3. /\ fr.kind = "resolve" /\ SameLinks(Top, fr) /\ fr.site = None
        /\ fr.members = Top.members /\ fr.at = Top.at + 1 /\ fr.head = Top.head
        /\ fr.pc = 1
        /\ fr.now = IF Top.at < Len(Top.members)
                    THEN walk[Top.members[Top.at + 1]].resolved ELSE <<>>
    BY <1>1, <1>3, <2>1 DEF ResolveFrame, SameLinks
  <2>4. fr.changed = (Top.changed \/ FinishRound(walk[m], Top.now).returns # current[m].returns)
    BY <1>3, <2>1 DEF ResolveFrame
  <2> QED BY <2>2, <2>3, <2>4
<1>8. UNCHANGED <<prog, state, heads, read, fixpoint, result>>
  BY DEF NextMember
<1>9. OthersKept(read)
  BY <1>3, <1>5, <1>8, OnlyMember
<1>10. \A c \in Ctx : SameWaiter(walk[c], walk'[c])
  BY <1>5, <1>6 DEF SameWaiter
<1>11. \A c \in Ctx : state'[c] = "Resolving" => DOMAIN walk'[c].resolved = DOMAIN walk'[c].deferred
  BY <1>3, <1>5, <1>6, <1>8 DEF ClosedInv, PlacesFit
<1>12. ASSUME Replays(fr) PROVE Placed(walk', fr)
  <2>1. fr.at \in 1..Len(Top.members) /\ Top.at < Len(Top.members)
    <3>1. Top.at \in Nat /\ Len(Top.members) \in Nat
      BY <1>3, SeqType
    <3> QED BY <1>3, <1>7, <1>12, <3>1, SeqType DEF Replays
  <2>2. PICK c : c = Member(fr) /\ c = Top.members[Top.at + 1] /\ c \in Ctx
                 /\ c \in Range(Top.members)
    BY <1>3, <1>7, <2>1, SeqType DEF Member, Range
  <2>3. state[c] = "Resolving"
    BY <1>3, <2>2, ResolveOnTop
  <2>4. DOMAIN walk[c].resolved = DOMAIN walk[c].deferred
    BY <2>2, <2>3 DEF ClosedInv, PlacesFit
  <2>5. walk'[c].deferred = walk[c].deferred
    BY <1>5, <1>6, <2>2
  <2> QED BY <1>7, <2>1, <2>2, <2>4, <2>5 DEF Placed, OpsOf
<1>13. ASSUME ~fr.changed, ~Disturbed(fixpoint, ctl, Top.head)
       PROVE  RoundClosed(state, result, heads, current', read, walk', fr)
  <2>1. RoundClosed(state, result, heads, current, read, walk, Top)
    BY <1>3, <1>7, <1>13, RoundNow
  <2>2. PICK st, res, hs, cur, ju, rd, wk, vk, top :
          /\ st = state /\ res = result /\ hs = heads /\ cur = current /\ ju = current'
          /\ rd = read /\ wk = walk /\ vk = walk' /\ top = Top
    OBVIOUS
  <2>3. \A k \in DOMAIN top.members : wk[top.members[k]] \in Walk
    <3>1. Len(ctl) \in DOMAIN ctl /\ Top = ctl[Len(ctl)]
      BY TopFrame
    <3> QED BY <1>3, <2>2, <3>1, MembersWait
  <2>4. \A j \in DOMAIN wk[m].deferred : j < top.pc
    <3>1. PICK ops \in Seq(DeferredOp) : ops = walk[m].deferred
      BY <1>3
    <3>2. \A j \in DOMAIN ops : j < Top.pc
      BY <1>1, <1>2, <1>3, <3>1, SeqType
    <3> QED BY <2>2, <3>1, <3>2
  <2>5. FinishRound(vk[m], top.now) = FinishRound(walk[m], Top.now)
    BY <1>6, <2>2 DEF FinishRound
  <2>6. ju[m] = FinishRound(vk[m], top.now) /\ ju[m].returns = cur[m].returns
    BY <1>5, <1>7, <1>13, <2>2, <2>5
  <2>7. Advanced(cur, ju, wk, vk, top, fr)
    <3>1. m = Member(top)
      BY <1>2, <2>2
    <3>2. /\ \A k \in DOMAIN top.members : k # top.at => top.members[k] # m
          /\ \A c \in Ctx : c # m => vk[c] = wk[c] /\ ju[c] = cur[c]
          /\ top.members \in Seq(Ctx) /\ top.at \in DOMAIN top.members /\ top.site = None
          /\ vk[m].deferred = wk[m].deferred /\ vk[m].calls = wk[m].calls
          /\ vk[m].resolved = top.now
      BY <1>1, <1>3, <1>5, <1>6, <2>2
    <3>3. /\ fr.members = top.members /\ fr.head = top.head /\ fr.at = top.at + 1
          /\ fr.pc = 1 /\ fr.site = None
      BY <1>7, <2>2
    <3> QED BY <2>3, <2>4, <2>6, <3>1, <3>2, <3>3 DEF Advanced
  <2>8. RoundClosed(st, res, hs, cur, rd, wk, top)
    BY <2>1, <2>2
  <2>9. RoundClosed(st, res, hs, ju, rd, vk, fr)
    BY <2>7, <2>8, RoundAdvances
  <2> QED BY <2>2, <2>9
<1> QED BY <1>3, <1>7, <1>8, <1>9, <1>10, <1>11, <1>12, <1>13, ClosedReplayOn

(* When a round starts, nothing has been replayed.                         *)
LEMMA RoundStarts ==
  ASSUME NEW st, NEW res, NEW hs, NEW cur, NEW rd, NEW wk, NEW fr,
         fr.members \in Seq(Ctx), fr.at = 1, fr.pc = 1, fr.site = None,
         wk[fr.members[1]].deferred \in Seq(DeferredOp)
  PROVE  RoundClosed(st, res, hs, cur, rd, wk, fr)
<1>1. PICK ms : ms = fr.members /\ ms \in Seq(Ctx)
  OBVIOUS
<1>2. PICK ops : ops = wk[ms[1]].deferred /\ ops \in Seq(DeferredOp)
  BY <1>1
<1>3. \A k \in DOMAIN ms : ~(k < 1)
  BY <1>1, SeqType
<1>4. \A j \in DOMAIN ops : ~(j < 1)
  BY <1>2, SeqType
<1>5. ReplayClosed(st, res, hs, cur, wk[ms[1]], fr)
  BY <1>2, <1>4 DEF ReplayClosed
<1>6. \A k \in DOMAIN ms : ~(k < fr.at) /\ (k = fr.at => k = 1)
  BY <1>3
<1> QED BY <1>1, <1>5, <1>6 DEF RoundClosed

(* resolve_group: another round, from round 0 for what joined.             *)
LEMMA ClosedNextRound ==
  ASSUME Inv, WaitersInv, ClosedInv, NextRound
  PROVE  ClosedInv'
<1>1. /\ Top.kind = "resolve" /\ Top \in ResolveFrame /\ Top.members \in Seq(Ctx)
      /\ Top.head \in Range(Top.members) /\ Joiners \in Seq(Ctx)
  BY ResolveOnTop, JoinersType DEF NextRound, RoundOver
<1>2. PICK ms : /\ ms = Range(Joiners) /\ \A c \in ms : c \in Ctx
                /\ \A c \in ms : state[c] = "Parked" /\ heads[c] = Top.head
                /\ \A c \in ms : walk[c] \in Walk
  BY <1>1, JoinersType
<1>3. /\ \A c \in Ctx \ ms : walk'[c] = walk[c] /\ current'[c] = current[c] /\ state'[c] = state[c]
      /\ \A c \in ms : /\ walk'[c] = [walk[c] EXCEPT !.resolved = NoValues(walk[c])]
                       /\ current'[c] = RoundZero(walk[c]) /\ state'[c] = "Resolving"
  BY <1>2 DEF NextRound, FromRoundZero
<1>4. \A c \in ms : /\ walk'[c].deferred = walk[c].deferred /\ walk'[c].rets = walk[c].rets
                    /\ walk'[c].calls = walk[c].calls
                    /\ walk'[c].resolved = NoValues(walk[c])
  <2> SUFFICES ASSUME NEW c \in ms
               PROVE  /\ walk'[c].deferred = walk[c].deferred /\ walk'[c].rets = walk[c].rets
                      /\ walk'[c].calls = walk[c].calls
                      /\ walk'[c].resolved = NoValues(walk[c])
    OBVIOUS
  <2>1. PICK w, v, r : w = walk[c] /\ v = walk'[c] /\ r = NoValues(w)
    OBVIOUS
  <2>2. w \in Walk /\ v = [w EXCEPT !.resolved = r]
    BY <1>2, <1>3, <2>1
  <2>3. v.deferred = w.deferred /\ v.rets = w.rets /\ v.calls = w.calls /\ v.resolved = r
    BY <2>2 DEF Walk
  <2> QED BY <2>1, <2>3
<1>5. PICK fr : /\ SetTop(fr) /\ fr.kind = "resolve" /\ SameLinks(Top, fr) /\ fr.site = None
                /\ fr.members = Top.members \o Joiners /\ fr.at = 1 /\ fr.pc = 1
                /\ fr.now = walk[fr.members[1]].resolved
  <2>1. PICK fr : fr = [Top EXCEPT
           !.members = Top.members \o Joiners, !.round = @ + 1, !.changed = FALSE,
           !.at = 1, !.pc = 1, !.now = walk[(Top.members \o Joiners)[1]].resolved]
    OBVIOUS
  <2>2. SetTop(fr)
    BY <2>1 DEF NextRound
  <2>3. Top.site = None
    BY RoundOverFacts DEF NextRound
  <2>4. /\ fr.kind = Top.kind /\ fr.base = Top.base /\ fr.head = Top.head
        /\ fr.outer = Top.outer /\ fr.site = Top.site
        /\ fr.members = Top.members \o Joiners /\ fr.at = 1 /\ fr.pc = 1
        /\ fr.now = walk[(Top.members \o Joiners)[1]].resolved
    BY <1>1, <2>1 DEF ResolveFrame
  <2> QED BY <1>1, <2>2, <2>3, <2>4 DEF SameLinks
<1>6. UNCHANGED <<prog, heads, read, fixpoint, result>>
  BY DEF NextRound
<1>7. OthersKept(read)
  <2>1. \A c \in Ctx : heads[c] # Top.head => c \notin ms
    BY <1>2
  <2>2. Owner(Top) = Top.head
    BY <1>1 DEF Owner
  <2> QED BY <1>3, <1>6, <2>1, <2>2 DEF OthersKept
<1>8. \A c \in Ctx : /\ state'[c] \in Waiting <=> state[c] \in Waiting
                     /\ state'[c] = "Ready" <=> state[c] = "Ready"
  BY <1>2, <1>3 DEF Waiting
<1>9. \A c \in Ctx : SameWaiter(walk[c], walk'[c])
  BY <1>3, <1>4 DEF SameWaiter
<1>10. ASSUME NEW c \in Ctx, state'[c] = "Resolving"
       PROVE  DOMAIN walk'[c].resolved = DOMAIN walk'[c].deferred
  <2>1. CASE c \in ms
    <3>1. PICK w, ops : w = walk[c] /\ ops = w.deferred
      OBVIOUS
    <3>2. ops \in Seq(DeferredOp)
      BY <1>2, <2>1, <3>1, WalkFields
    <3>3. DOMAIN NoValues(w) = DOMAIN ops
      BY <3>1, <3>2, SeqType DEF NoValues
    <3>4. walk'[c].resolved = NoValues(w) /\ walk'[c].deferred = ops
      BY <1>4, <2>1, <3>1
    <3> QED BY <3>3, <3>4
  <2>2. CASE c \notin ms
    BY <1>3, <1>10, <2>2 DEF ClosedInv, PlacesFit
  <2> QED BY <2>1, <2>2
<1>11. PICK c : c = fr.members[1] /\ c \in Ctx /\ c \in Range(Top.members) /\ c \notin ms
  <2>1. 1 \in 1..Len(Top.members) /\ DOMAIN Top.members = 1..Len(Top.members)
    BY <1>1, SeqType DEF Range
  <2>2. (Top.members \o Joiners)[1] = Top.members[1]
    BY <1>1, <2>1
  <2>3. Top.members[1] \in Range(Top.members) /\ Top.members[1] \in Ctx
    BY <1>1, <2>1 DEF Range
  <2>4. state[Top.members[1]] = "Resolving"
    BY <1>1, <2>3, ResolveOnTop
  <2> QED BY <1>2, <1>5, <2>2, <2>3, <2>4
<1>12. state[c] = "Resolving" /\ walk[c] \in Walk /\ walk'[c] = walk[c]
  BY <1>1, <1>3, <1>11, ResolveOnTop
<1>13. Placed(walk', fr)
  <2>1. Member(fr) = c
    BY <1>5, <1>11 DEF Member
  <2>2. DOMAIN walk[c].resolved = DOMAIN walk[c].deferred
    BY <1>11, <1>12 DEF ClosedInv, PlacesFit
  <2> QED BY <1>5, <1>11, <1>12, <2>1, <2>2 DEF Placed, OpsOf
<1>14. RoundClosed(state', result, heads, current', read, walk', fr)
  <2>1. fr.members \in Seq(Ctx)
    BY <1>1, <1>5
  <2>2. walk'[fr.members[1]].deferred \in Seq(DeferredOp)
    BY <1>11, <1>12, WalkFields
  <2>3. PICK st, ju, vk : st = state' /\ ju = current' /\ vk = walk'
    OBVIOUS
  <2>4. RoundClosed(st, result, heads, ju, read, vk, fr)
    BY <1>5, <2>1, <2>2, <2>3, RoundStarts
  <2> QED BY <2>3, <2>4
<1> QED BY <1>1, <1>5, <1>6, <1>7, <1>8, <1>9, <1>10, <1>13, <1>14, ClosedReplayOn

-----------------------------------------------------------------------------
(* A walk that is over.                                                    *)

(* Its call sites have the values its waiting needs.                       *)
LEMMA OverClosed ==
  ASSUME NEW p, NEW st, NEW res, NEW fr \in WalkFrame, WalkClosed(p, st, res, fr),
         p[fr.ctx.func].sites \in Seq(CallSite), Len(fr.vals) = Len(p[fr.ctx.func].sites),
         ValuesFit(p, fr.ctx, fr.w.deferred, fr.vals),
         NEW w, w = [fr.w EXCEPT !.rets = Eval(p[fr.ctx.func].rets, fr.ctx, fr.vals)]
  PROVE  WaiterClosed(p, st, res, fr.ctx, w)
<1>1. PICK c, u, vals : c = fr.ctx /\ u = fr.w /\ vals = fr.vals /\ u \in Walk /\ vals \in Seq(Value)
  BY WalkFrameType
<1>2. PICK r : r = Eval(p[c.func].rets, c, vals)
  OBVIOUS
<1>3. w.deferred = u.deferred /\ w.calls = u.calls /\ w.rets = r
  BY <1>1, <1>2 DEF Walk
<1>4. SitesTaken(p, st, res, c, u, vals)
  BY <1>1 DEF WalkClosed
<1>5. SitesTaken(p, st, res, c, w, vals)
  BY <1>3, <1>4 DEF SitesTaken, SiteTaken, Called
<1>6. DOMAIN vals = DOMAIN p[c.func].sites
  <2>1. PICK ss \in Seq(CallSite) : ss = p[c.func].sites
    BY <1>1
  <2>2. DOMAIN vals = 1..Len(vals) /\ DOMAIN ss = 1..Len(ss) /\ Len(vals) = Len(ss)
    BY <1>1, <2>1
  <2> QED BY <2>1, <2>2
<1>7. ValuesFit(p, c, w.deferred, vals)
  BY <1>1, <1>3
<1> QED BY <1>1, <1>2, <1>3, <1>5, <1>6, <1>7 DEF WaiterClosed

(* So it is for the walk on top, if it read no cut.                        *)
LEMMA WalkDoneClosed ==
  ASSUME Inv, BoundsInv, ClosedInv, WalkOver, read[Top.ctx].cut = None
  PROVE  /\ WaiterClosed(prog, state, result, Top.ctx, WalkDone)
         /\ WalkClosed(prog, state, result, Top)
<1>1. Top \in WalkFrame /\ Top.kind = "walk" /\ Len(ctl) \in DOMAIN ctl /\ Top = ctl[Len(ctl)]
      /\ Top.ctx \in Ctx
  BY WalkOverType, TopFrame DEF WalkOver
<1>2. WalkClosed(prog, state, result, Top)
  BY <1>1 DEF ClosedInv, FramesClosed, FrameClosed
<1>3. ValuesFit(prog, Top.ctx, Top.w.deferred, Top.vals)
  <2> SUFFICES ASSUME NEW S \in [Ctx -> SUBSET V], NEW W \in [Ctx -> Seq(Value)],
                      Bounds(prog, S, W), NEW i \in DOMAIN Top.vals
               PROVE  Fits(Ceiling(S, W, Top.ctx, Top.w.deferred), Top.vals[i],
                           W[Top.ctx][i].known)
    BY DEF ValuesFit
  <2>1. StaysBelow(S, W)
    BY DEF BoundsInv
  <2>2. WalkBelow(prog, S, W, Top)
    BY <1>1, <2>1 DEF StaysBelow, FramesBelow
  <2> QED BY <2>2 DEF WalkBelow
<1>4. prog[Top.ctx.func].sites \in Seq(CallSite)
  <2>1. Top.ctx.func \in Func
    BY <1>1, CtxType
  <2> QED BY <2>1, ProgramAssumption DEF Inv, TypeOK, Body
<1>5. Len(Top.vals) = Len(prog[Top.ctx.func].sites)
  BY DEF WalkOver, BodyOf
<1>6. WalkDone = [Top.w EXCEPT !.rets = Eval(prog[Top.ctx.func].rets, Top.ctx, Top.vals)]
  BY DEF WalkDone, BodyOf
<1> QED BY <1>1, <1>2, <1>3, <1>4, <1>5, <1>6, OverClosed

(* resolve_group: the member that comes first.                             *)
LEMMA GroupFirst ==
  ASSUME Inv, ResolveGroup, NEW ms, ms = Taken(Append(parked, Top.ctx), heads, Top.ctx)
  PROVE  /\ ms \in Seq(Ctx) /\ ms[1] \in Ctx
         /\ state[ms[1]] # "Resolving" /\ state'[ms[1]] = "Resolving"
<1>1. PICK c, ps : c = Top.ctx /\ ps = Append(parked, c)
  OBVIOUS
<1>2. c \in Ctx /\ heads[c] = c /\ state[c] = "Running"
  BY <1>1, WalkOverType DEF ResolveGroup
<1>3. parked \in Seq(Ctx) /\ heads \in [Ctx -> Ctx]
  BY DEF Inv, TypeOK
<1>4. ps \in Seq(Ctx) /\ Range(ps) = Range(parked) \cup {c}
  BY <1>1, <1>2, <1>3, AppendType, RangeOfAppend
<1>5. ms \in Seq(Ctx) /\ Range(ms) = {d \in Range(ps) : heads[d] = c}
  <2>1. PICK hs \in [Ctx -> Ctx] : hs = heads
    BY <1>3
  <2>2. /\ Taken(ps, hs, c) \in Seq(Ctx)
        /\ Range(Taken(ps, hs, c)) = {d \in Range(ps) : hs[d] = c}
    BY <1>2, <1>4, TakenLeft
  <2>3. ms = Taken(ps, hs, c)
    BY <1>1, <2>1
  <2> QED BY <2>1, <2>2, <2>3
<1>6. c \in Range(ms)
  BY <1>2, <1>4, <1>5
<1>7. ms[1] \in Range(ms)
  <2>1. 1 \in 1..Len(ms) /\ DOMAIN ms = 1..Len(ms)
    BY <1>5, <1>6, SeqType DEF Range
  <2> QED BY <2>1 DEF Range
<1>8. ms[1] \in Ctx /\ (ms[1] = c \/ ms[1] \in Range(parked))
  <2>1. ms[1] \in Range(parked) => ms[1] \in Ctx
    BY <1>3, SeqType DEF Range
  <2> QED BY <1>2, <1>4, <1>5, <1>7, <2>1
<1>9. state[ms[1]] # "Resolving"
  BY <1>2, <1>8 DEF Inv, GroupsFit
<1>10. state' = [d \in Ctx |-> IF d \in Range(ms) THEN "Resolving" ELSE state[d]]
  BY DEF ResolveGroup, FromRoundZero
<1> QED BY <1>5, <1>7, <1>8, <1>9, <1>10

(* The walk of a group's member as the fixpoint over the group begins.     *)
LEMMA BegunWaiter ==
  ASSUME NEW w \in Walk, NEW v, v = [w EXCEPT !.resolved = NoValues(w)]
  PROVE  SameWaiter(w, v) /\ DOMAIN v.resolved = DOMAIN v.deferred /\ v.resolved = NoValues(w)
         /\ v.deferred \in Seq(DeferredOp)
<1>1. PICK r : r = NoValues(w)
  OBVIOUS
<1>2. v.deferred = w.deferred /\ v.rets = w.rets /\ v.calls = w.calls /\ v.resolved = r
  BY <1>1 DEF Walk
<1>3. w.deferred \in Seq(DeferredOp)
  BY WalkFields
<1>4. DOMAIN r = DOMAIN w.deferred
  BY <1>1, <1>3, SeqType DEF NoValues
<1> QED BY <1>1, <1>2, <1>3, <1>4 DEF SameWaiter

(* resolve_group: the fixpoint over the group begins.                      *)
LEMMA ClosedResolveGroup ==
  ASSUME Inv, BoundsInv, ClosedInv, ReadyLasts, ResolveGroup
  PROVE  ClosedInv'
<1>1. WalkOver /\ Top.kind = "walk" /\ UNCHANGED <<prog, heads, read, result>>
  BY DEF ResolveGroup, WalkOver
<1>2. PICK fr : /\ ctl' = Append(Below, fr) /\ fr.kind = "resolve" /\ fr.head = Top.ctx
                /\ fr.outer = fixpoint /\ fr.site = None /\ fr.at = 1 /\ fr.pc = 1
                /\ fr.members = Taken(Append(parked, Top.ctx), heads, Top.ctx)
                /\ fr.now = NoValues([walk EXCEPT ![Top.ctx] = WalkDone][fr.members[1]])
  BY DEF ResolveGroup
<1>3. PICK ms \in SUBSET Ctx :
            /\ Top.ctx \in ms
            /\ \A d \in ms : d # Top.ctx => state[d] = "Parked" /\ heads[d] = Top.ctx
            /\ \A d \in ms : Ended(d) \in Walk
            /\ \A d \in Ctx : d \notin ms =>
                  /\ state'[d] = state[d] /\ current'[d] = current[d] /\ walk'[d] = walk[d]
            /\ \A d \in ms : /\ state'[d] = "Resolving" /\ current'[d] = RoundZero(Ended(d))
                             /\ walk'[d] = [Ended(d) EXCEPT !.resolved = NoValues(Ended(d))]
  BY GroupStarts
<1>4. PICK n \in Nat : /\ n = Len(Below) /\ DOMAIN Below = 1..n /\ DOMAIN ctl = 1..(n + 1)
                       /\ DOMAIN ctl' = 1..(n + 1) /\ ctl'[n + 1] = fr /\ ctl[n + 1] = Top
                       /\ \A i \in 1..n : ctl'[i] = Below[i] /\ ctl[i] = Below[i]
  <2>1. /\ Below \in Seq(Frame) /\ Len(Below) \in Nat /\ DOMAIN Below = 1..Len(Below)
        /\ DOMAIN ctl = 1..(Len(Below) + 1) /\ ctl[Len(Below) + 1] = Top
        /\ \A i \in 1..Len(Below) : Below[i] = ctl[i]
    BY <1>1, BelowFacts
  <2>2. /\ DOMAIN ctl' = 1..(Len(Below) + 1) /\ ctl'[Len(Below) + 1] = fr
        /\ \A i \in 1..Len(Below) : ctl'[i] = Below[i]
    BY <1>2, <2>1
  <2> QED BY <2>1, <2>2
<1>5. Top.ctx \in Ctx /\ heads[Top.ctx] = Top.ctx /\ state[Top.ctx] = "Running"
  BY <1>1, WalkOverType
<1>6. \A d \in ms : /\ SameWaiter(Ended(d), walk'[d])
                    /\ DOMAIN walk'[d].resolved = DOMAIN walk'[d].deferred
                    /\ walk'[d].resolved = NoValues(Ended(d))
                    /\ walk'[d].deferred \in Seq(DeferredOp)
  <2> SUFFICES ASSUME NEW d \in ms
               PROVE  /\ SameWaiter(Ended(d), walk'[d])
                      /\ DOMAIN walk'[d].resolved = DOMAIN walk'[d].deferred
                      /\ walk'[d].resolved = NoValues(Ended(d))
                      /\ walk'[d].deferred \in Seq(DeferredOp)
    OBVIOUS
  <2>1. PICK w, v : /\ w = Ended(d) /\ w \in Walk /\ v = walk'[d]
                    /\ v = [w EXCEPT !.resolved = NoValues(w)]
    BY <1>3
  <2>2. /\ SameWaiter(w, v) /\ DOMAIN v.resolved = DOMAIN v.deferred
        /\ v.resolved = NoValues(w) /\ v.deferred \in Seq(DeferredOp)
    BY <2>1, BegunWaiter
  <2> QED BY <2>1, <2>2
<1>7. OthersKept(read)
  <2>1. \A d \in Ctx : heads[d] # Top.ctx => d \notin ms
    BY <1>3, <1>5
  <2>2. Owner(Top) = Top.ctx
    BY <1>1 DEF Owner
  <2> QED BY <1>1, <1>3, <2>1, <2>2 DEF OthersKept
<1>8. \A d \in Ctx : /\ state'[d] = "Ready" => state[d] = "Ready"
                     /\ state'[d] = "Resolving"
                          => DOMAIN walk'[d].resolved = DOMAIN walk'[d].deferred
  <2>1. \A d \in Ctx : state'[d] = "Ready" => state[d] = "Ready"
    BY <1>3
  <2>2. ASSUME NEW d \in Ctx, state'[d] = "Resolving"
        PROVE  DOMAIN walk'[d].resolved = DOMAIN walk'[d].deferred
    <3>1. CASE d \in ms
      BY <1>6, <3>1
    <3>2. CASE d \notin ms
      <4>1. state[d] = "Resolving" /\ walk'[d] = walk[d]
        BY <1>3, <2>2, <3>2
      <4> QED BY <4>1 DEF ClosedInv, PlacesFit
    <3> QED BY <3>1, <3>2
  <2> QED BY <2>1, <2>2
<1>9. ASSUME NEW d \in Ctx, state'[d] \in Waiting, read[d].cut = None
      PROVE  \/ state[d] \in Waiting /\ read[d].cut = None /\ SameWaiter(walk[d], walk'[d])
             \/ WaiterClosed(prog, state, result, d, walk'[d])
  <2>1. CASE d = Top.ctx
    <3>1. WaiterClosed(prog, state, result, d, Ended(d))
      BY <1>1, <1>9, <2>1, WalkDoneClosed DEF Ended
    <3>2. PICK w, v : w = Ended(d) /\ v = walk'[d] /\ SameWaiter(w, v)
      BY <1>3, <1>6, <2>1
    <3>3. FinalsKept(state, result, state, result)
      BY DEF FinalsKept
    <3>4. WaiterClosed(prog, state, result, d, v)
      BY <3>1, <3>2, <3>3, WaiterStays DEF SameWaiter
    <3> QED BY <3>2, <3>4
  <2>2. CASE d # Top.ctx /\ d \in ms
    <3>1. state[d] = "Parked" /\ Ended(d) = walk[d]
      BY <1>3, <2>2 DEF Ended
    <3> QED BY <1>6, <1>9, <2>2, <3>1 DEF Waiting
  <2>3. CASE d \notin ms
    <3>1. SameWaiter(walk[d], walk'[d]) /\ state[d] \in Waiting
      BY <1>3, <1>9, <2>3 DEF SameWaiter
    <3> QED BY <1>9, <3>1
  <2> QED BY <2>1, <2>2, <2>3
<1>10. SlotsClosed(read)
  BY <1>1, <1>8, <1>9, SlotsStay
<1>11. /\ fr.members \in Seq(Ctx) /\ fr.members[1] \in ms
       /\ fr.now = NoValues(Ended(fr.members[1]))
  <2>1. PICK e : e = fr.members[1]
    OBVIOUS
  <2>2. /\ fr.members \in Seq(Ctx) /\ e \in Ctx
        /\ state[e] # "Resolving" /\ state'[e] = "Resolving"
    BY <1>2, <2>1, GroupFirst
  <2>3. e \in ms
    BY <1>3, <2>2
  <2>4. [walk EXCEPT ![Top.ctx] = WalkDone][e] = Ended(e)
    BY <2>2 DEF Ended, Inv, TypeOK
  <2> QED BY <1>2, <2>1, <2>2, <2>3, <2>4
<1>12. Placed(walk', fr)
  <2>1. Member(fr) = fr.members[1]
    BY <1>2 DEF Member
  <2>2. PICK e : e = fr.members[1] /\ e \in ms /\ fr.now = NoValues(Ended(e))
    BY <1>11
  <2>3. DOMAIN fr.now = DOMAIN walk'[e].deferred
    BY <1>6, <2>2
  <2> QED BY <1>2, <2>1, <2>2, <2>3 DEF Placed, OpsOf
<1>13. RoundClosed(state', result', heads', current', read', walk', fr)
  <2>1. PICK st, res, hs, cur, rd, wk :
          /\ st = state' /\ res = result' /\ hs = heads' /\ cur = current' /\ rd = read'
          /\ wk = walk'
    OBVIOUS
  <2>2. wk[fr.members[1]].deferred \in Seq(DeferredOp)
    BY <1>6, <1>11, <2>1
  <2>3. RoundClosed(st, res, hs, cur, rd, wk, fr)
    BY <1>2, <1>11, <2>2, RoundStarts
  <2> QED BY <2>1, <2>3
<1>14. ASSUME NEW h, Disturbed(fixpoint, ctl, h) PROVE Disturbed(fixpoint', ctl', h)
  <2>1. CASE Loud(fixpoint, h)
    <3>1. n + 1 \in DOMAIN ctl' /\ ctl'[n + 1].kind = "resolve" /\ Loud(ctl'[n + 1].outer, h)
      BY <1>2, <1>4, <2>1
    <3> QED BY <3>1 DEF Disturbed
  <2>2. CASE \E i \in DOMAIN ctl : ctl[i].kind = "resolve" /\ Loud(ctl[i].outer, h)
    <3>1. PICK i \in 1..(n + 1) : ctl[i].kind = "resolve" /\ Loud(ctl[i].outer, h)
      BY <1>4, <2>2
    <3>2. i \in 1..n /\ i \in DOMAIN ctl' /\ ctl'[i] = ctl[i]
      BY <1>1, <1>4, <3>1
    <3> QED BY <3>1, <3>2 DEF Disturbed
  <2> QED BY <1>14, <2>1, <2>2 DEF Disturbed
<1>15. ASSUME NEW i \in 1..(n + 1)
       PROVE  FrameClosed(prog', state', result', heads', current', read', walk', fixpoint',
                          ctl', ctl'[i])
  <2>1. CASE i = n + 1
    BY <1>2, <1>4, <1>13, <2>1 DEF FrameClosed
  <2>2. CASE i # n + 1
    <3>1. i \in DOMAIN Below /\ ctl'[i] = Below[i]
      BY <1>4, <2>2
    <3>2. PICK fx, ds : fx = fixpoint' /\ ds = ctl'
      OBVIOUS
    <3>3. Disturbed(fixpoint, ctl, Below[i].head) => Disturbed(fx, ds, Below[i].head)
      BY <1>14, <3>2
    <3>4. FrameClosed(prog, state', result', heads', current', read, walk', fx, ds, Below[i])
      BY <1>1, <1>7, <3>1, <3>3, UnderStays
    <3> QED BY <1>1, <3>1, <3>2, <3>4
  <2> QED BY <2>1, <2>2
<1>16. FramesClosed(prog', state', result', heads', current', read', walk', fixpoint', ctl')
  BY <1>4, <1>15 DEF FramesClosed
<1>17. PlacesFit(state', walk', ctl')
  <2>1. ASSUME NEW i \in 1..(n + 1), Replays(ctl'[i]) PROVE Placed(walk', ctl'[i])
    <3>1. CASE i = n + 1
      BY <1>4, <1>12, <3>1
    <3>2. CASE i # n + 1
      <4>1. i \in DOMAIN Below /\ ctl'[i] = Below[i]
        BY <1>4, <3>2
      <4>2. PlacesFit(state, walk, ctl)
        BY DEF ClosedInv
      <4>3. \A k \in DOMAIN Below : Replays(Below[k]) => Placed(walk', Below[k])
        BY <1>1, <1>7, <4>2, OthersOps
      <4> QED BY <2>1, <4>1, <4>3
    <3> QED BY <3>1, <3>2
  <2> QED BY <1>4, <1>8, <2>1 DEF PlacesFit
<1> QED BY <1>1, <1>10, <1>16, <1>17 DEF ClosedInv, SlotsClosed

(* park: what the walk leaves waiting is closed.                           *)
LEMMA ParkClosed ==
  ASSUME Inv, BoundsInv, ClosedInv, ReadyLasts, WalkOver, NEW head \in Ctx,
         Park(Top.ctx, WalkDone, head), prog' = prog
  PROVE  OthersKept(read) /\ SlotsClosed(read) /\ OpsKept(walk, walk', Below)
<1>1. PICK m : /\ m = Top.ctx /\ m \in Ctx /\ state[m] = "Running" /\ heads[m] = m
               /\ Top.kind = "walk" /\ WalkDone \in Walk
  BY WalkOverType DEF WalkOver
<1>2. /\ \A d \in Ctx : d # m => /\ state'[d] = state[d] /\ walk'[d] = walk[d]
                                 /\ current'[d] = current[d]
      /\ state'[m] = "Parked" /\ walk'[m] = WalkDone
  BY <1>1 DEF Park, Inv, TypeOK
<1>3. \A d \in Ctx : heads[d] # m => heads'[d] = heads[d]
  BY <1>1, ParkHeads
<1>4. OthersKept(read)
  BY <1>1, <1>2, <1>3 DEF OthersKept, Owner, Waiting
<1>5. \A d \in Ctx : state'[d] = "Ready" => state[d] = "Ready"
  BY <1>2
<1>6. \A d \in Ctx : state'[d] = "Resolving" => DOMAIN walk'[d].resolved = DOMAIN walk'[d].deferred
  BY <1>2 DEF ClosedInv, PlacesFit
<1>7. ASSUME NEW d \in Ctx, state'[d] \in Waiting, read[d].cut = None
      PROVE  \/ state[d] \in Waiting /\ read[d].cut = None /\ SameWaiter(walk[d], walk'[d])
             \/ WaiterClosed(prog, state, result, d, walk'[d])
  <2>1. CASE d = m
    BY <1>1, <1>2, <1>7, <2>1, WalkDoneClosed
  <2>2. CASE d # m
    BY <1>2, <1>7, <2>2 DEF SameWaiter
  <2> QED BY <2>1, <2>2
<1>8. SlotsClosed(read)
  BY <1>5, <1>6, <1>7, SlotsStay
<1>9. OpsKept(walk, walk', Below)
  <2>1. \A d \in Ctx : state[d] = "Resolving" => walk'[d].deferred = walk[d].deferred
    BY <1>1, <1>2
  <2> QED BY <1>1, <2>1, OpsKeptBelow
<1> QED BY <1>4, <1>8, <1>9

(* What is below a walk that is over, and its reads.                       *)
LEMMA OverUnder ==
  ASSUME Inv, WalkOver
  PROVE  /\ Under \in Seq(Ctx) /\ FramesFit(Below, Under, fixpoint) /\ Below \in Seq(Frame)
         /\ fixpoint \in Fixpoint \cup {None} /\ read \in [Ctx -> Note] /\ Grown(read, read)
         /\ Top.kind = "walk" /\ Top.ctx \in Ctx /\ Owner(Top) = Top.ctx
<1>1. Grown(read, read)
  BY TopFrame DEF Grown, Note
<1> QED BY <1>1, WalkOverType, WalkOverBelow, TopFrame DEF WalkOver, Owner

(* ParkInCycle: the reader gets nothing, and is told so.                   *)
LEMMA ClosedParkInCycle ==
  ASSUME Inv, RoundsSuffice, Counted, LinksInv, BoundsInv, ClosedInv, ReadyLasts, ParkInCycle
  PROVE  ClosedInv'
<1>1. PICK r, head : /\ r = read[Top.ctx] /\ head = heads[stack[r.lowest + 1]]
                     /\ WalkOver /\ r.lowest < Len(Under)
                     /\ Park(Top.ctx, WalkDone, head) /\ prog' = prog
  BY DEF ParkInCycle
<1>2. PICK n : n = [r EXCEPT !.cut = None] /\ Return(Below, read, fixpoint, Under, n, None)
  BY <1>1 DEF ParkInCycle
<1>3. Top.ctx \in Ctx /\ r \in Note /\ Top.kind = "walk"
  BY <1>1, WalkOverType, TopFrame DEF WalkOver
<1>4. n \in Note /\ r.lowest \in Nat /\ n.lowest = r.lowest
  BY <1>2, <1>3 DEF Note
<1>5. head \in Ctx
  <2>1. r.lowest + 1 \in 1..Len(stack)
    BY <1>1, <1>4, WalkOverType, TopFrame
  <2>2. stack[r.lowest + 1] \in Ctx
    BY <2>1, TopFrame, SeqType
  <2> QED BY <1>1, <2>2 DEF Inv, TypeOK
<1>6. OthersKept(read) /\ SlotsClosed(read)
  BY <1>1, <1>5, ParkClosed
<1>7. n.lowest < NoDepth
  <2>1. Len(Under) <= NoDepth /\ Len(Under) \in Nat /\ NoDepth \in Nat
    BY <1>1, UnderFacts, LimitAssumption DEF NoDepth
  <2> QED BY <1>1, <1>4, <2>1
<1>8. Honest(state', result', heads', current', walk', Below[Len(Below)], n, None)
  <2>1. PICK st, res, hs, cur, wk, fr :
          /\ st = state' /\ res = result' /\ hs = heads' /\ cur = current' /\ wk = walk'
          /\ fr = Below[Len(Below)]
    OBVIOUS
  <2>2. Honest(st, res, hs, cur, wk, fr, n, None)
    BY <1>7, NothingHonest
  <2> QED BY <2>1, <2>2
<1>9. /\ Under \in Seq(Ctx) /\ FramesFit(Below, Under, fixpoint)
      /\ fixpoint \in Fixpoint \cup {None} /\ read \in [Ctx -> Note] /\ Grown(read, read)
  BY <1>1, OverUnder
<1> QED BY <1>1, <1>2, <1>3, <1>4, <1>6, <1>8, <1>9, ClosedAfterPop DEF LinksInv

(* ParkInGroup: a fixpoint gets the summary so far, and any other reader   *)
(* is told of the group.                                                   *)
LEMMA ClosedParkInGroup ==
  ASSUME Inv, RoundsSuffice, Counted, LinksInv, BoundsInv, ClosedInv, ReadyLasts, ParkInGroup
  PROVE  ClosedInv'
<1>1. PICK c, r, m : /\ c = Top.ctx /\ r = read[c]
                     /\ m = ReadGroupMember(c, state', heads', current', fixpoint, Under)
                     /\ WalkOver /\ r.joins # None /\ Park(c, WalkDone, r.joins)
                     /\ Return(Below, read, fixpoint, Under, m.note, m.got)
                     /\ prog' = prog
  BY DEF ParkInGroup
<1>2. /\ c \in Ctx /\ r \in Note /\ Top.kind = "walk" /\ Len(Under) \in Nat
      /\ state[c] = "Running" /\ heads[c] = c
  BY <1>1, WalkOverType, TopFrame DEF WalkOver
<1>3. r.joins \in Ctx
  BY <1>1, <1>2 DEF Note
<1>4. OthersKept(read) /\ SlotsClosed(read) /\ OpsKept(walk, walk', Below)
  BY <1>1, <1>3, ParkClosed
<1>5. /\ Under \in Seq(Ctx) /\ FramesFit(Below, Under, fixpoint) /\ Below \in Seq(Frame)
      /\ fixpoint \in Fixpoint \cup {None} /\ read \in [Ctx -> Note] /\ Grown(read, read)
  BY <1>1, OverUnder
<1>6. PICK st, hs, cur, wk, res, cs :
        /\ st = state' /\ hs = heads' /\ cur = current' /\ wk = walk' /\ res = result'
        /\ cs = Below
  OBVIOUS
<1>7. /\ hs \in [Ctx -> Ctx] /\ cur[c] \in FunctionResult /\ hs[c] \in Ctx
      /\ \A d \in Ctx : st[d] = "Running" <=> state[d] = "Running" /\ d # c
  BY <1>1, <1>2, <1>3, <1>6, ParkType
<1>8. st[hs[c]] = "Running" => depth[hs[c]] \in Nat /\ depth[hs[c]] < Len(Under)
  BY <1>1, <1>7, WalkOverType
<1>9. m.note \in Note /\ m.got \in (SUBSET V) \cup {None}
  <2>1. /\ NoteAt(ReadGroupMember(c, st, hs, cur, fixpoint, Under).note, Len(Under))
        /\ ReadGroupMember(c, st, hs, cur, fixpoint, Under).got \in (SUBSET V) \cup {None}
    BY <1>2, <1>7, <1>8, GroupReadType
  <2> QED BY <1>1, <1>6, <2>1 DEF NoteAt
<1>10. fixpoint # None => hs[fixpoint.head] = fixpoint.head
  BY <1>1, <1>2, <1>3, <1>6, FixpointHeads, ParkHeads
<1>11. Honest(st, res, hs, cur, wk, cs[Len(cs)], m.note, m.got)
  <2>1. st[c] \in Waiting
    BY <1>1, <1>2, <1>3, <1>6, ParkHeads DEF Waiting
  <2>2. Len(Under) <= MaxStack
    BY <1>1, UnderFacts DEF NoDepth
  <2>3. WantedIn(wk, cs[Len(cs)]) = c
    <3>1. Owner(Top) = c /\ Linked(walk, ctl) /\ OpsKept(walk, wk, Below)
      BY <1>1, <1>2, <1>4, <1>6 DEF Owner, LinksInv
    <3>2. WantedIn(wk, Below[Len(Below)]) = Owner(Top)
      BY <1>2, <3>1, BelowLinks
    <3> QED BY <1>6, <3>1, <3>2
  <2>4. m = ReadGroupMember(c, st, hs, cur, fixpoint, Under)
    BY <1>1, <1>6
  <2>5. cs \in Seq(Frame) /\ FramesFit(cs, Under, fixpoint) /\ Under \in Seq(Ctx)
    BY <1>5, <1>6
  <2> QED BY <1>2, <1>7, <1>8, <1>10, <2>1, <2>2, <2>3, <2>4, <2>5, GroupHonest
<1>12. Honest(state', result', heads', current', walk', Below[Len(Below)], m.note, m.got)
  BY <1>6, <1>11
<1> QED BY <1>1, <1>2, <1>4, <1>5, <1>9, <1>12, ClosedAfterPop DEF LinksInv

(* What waits on nothing is finished: its summary needs no replay.         *)
LEMMA AloneClosed ==
  ASSUME NEW p, NEW st, NEW res, NEW c \in Ctx, NEW w, WaiterClosed(p, st, res, c, w),
         w.deferred = <<>>,
         NEW tt, NEW rt, FinalsKept(st, res, tt, rt),
         rt[c].calls = w.calls, rt[c].returns = Substitute(w.rets, NoValues(w))
  PROVE  \E vals \in Seq(Value) : Closed(p, tt, rt, c, vals)
<1>1. PICK vals \in Seq(Value) :
        /\ DOMAIN vals = DOMAIN p[c.func].sites
        /\ SitesTaken(p, st, res, c, w, vals)
        /\ w.rets = Eval(p[c.func].rets, c, vals)
        /\ ValuesFit(p, c, w.deferred, vals)
  BY DEF WaiterClosed
<1>2. DOMAIN w.deferred = {}
  OBVIOUS
<1>3. ASSUME NEW i \in DOMAIN vals
      PROVE  LET callees == CalleeOf(p, c, vals, i).known
                 arg == ArgOf(p, c, vals, i).known IN
             /\ Accounted(callees, arg, vals[i].known, Finals(tt, rt, vals[i].known))
             /\ rt[c].calls[i] = Keys(callees, arg)
  <2>1. PICK callees, arg, v : /\ callees = CalleeOf(p, c, vals, i).known
                               /\ arg = ArgOf(p, c, vals, i).known /\ v = vals[i]
    OBVIOUS
  <2>2. SiteTaken(p, st, res, c, w, vals, i)
    BY <1>1 DEF SitesTaken
  <2>3. Called(p, st, res, c, w, vals, i)
    BY <1>2, <2>2 DEF SiteTaken, Deferred
  <2>4. Applied(w.deferred, v) = {}
    BY <1>2 DEF Applied
  <2>5. Accounted(callees, arg, v.known, Finals(st, res, v.known)) /\ w.calls[i] = Keys(callees, arg)
    BY <2>1, <2>3, <2>4 DEF Called
  <2>6. Finals(st, res, v.known) \subseteq Finals(tt, rt, v.known)
    BY FinalsMore
  <2>7. PICK D, E : D = Finals(st, res, v.known) /\ E = Finals(tt, rt, v.known)
    OBVIOUS
  <2>8. Accounted(callees, arg, v.known, E)
    BY <2>5, <2>6, <2>7, AccountedMore
  <2> QED BY <2>1, <2>5, <2>7, <2>8
<1>4. Eval(p[c.func].rets, c, vals).known \subseteq rt[c].returns
  BY <1>1 DEF Substitute
<1>5. SitesBelow(p, c, vals)
  BY <1>1 DEF ValuesFit, SitesBelow, Fits
<1>6. DOMAIN rt[c].calls = DOMAIN vals
  BY <1>1 DEF SitesTaken
<1>7. Closed(p, tt, rt, c, vals)
  BY <1>1, <1>3, <1>4, <1>5, <1>6 DEF Closed
<1> QED BY <1>7

(* FinishAlone: the summary is closed, or it is marked cut.                *)
LEMMA ClosedFinishAlone ==
  ASSUME Inv, RoundsSuffice, LinksInv, ReadersInv, BoundsInv, ClosedInv, ReadyLasts, FinishAlone
  PROVE  ClosedInv'
<1>1. PICK m, r, res : /\ m = Top.ctx /\ r = read[m] /\ WalkOver
                       /\ res = [RoundZero(WalkDone) EXCEPT !.cut = r.cut]
                       /\ state' = [state EXCEPT ![m] = IF r.cut = None THEN "Ready" ELSE "Cut"]
                       /\ result' = [result EXCEPT ![m] = res]
                       /\ Return(Below, read, fixpoint, Under, IsCut(r.cut), res.returns)
                       /\ UNCHANGED <<prog, current, walk, heads>>
  BY DEF FinishAlone
<1>2. /\ m \in Ctx /\ r \in Note /\ Top.kind = "walk" /\ WalkDone \in Walk
      /\ state[m] = "Running" /\ Owner(Top) = m
  BY <1>1, WalkOverType, TopFrame DEF WalkOver, Owner
<1>3. r.cut \in Cut \cup {None} /\ IsCut(r.cut) \in Note /\ IsCut(r.cut).cut = r.cut
  BY <1>2, IsCutType DEF Note, IsCut, Nothing
<1>4. /\ state'[m] = IF r.cut = None THEN "Ready" ELSE "Cut"
      /\ result'[m] = res
      /\ \A d \in Ctx : d # m => state'[d] = state[d] /\ result'[d] = result[d]
  BY <1>1, <1>2 DEF Inv, TypeOK
<1>5. res.returns = Substitute(WalkDone.rets, NoValues(WalkDone)) /\ res.calls = WalkDone.calls
  BY <1>1 DEF RoundZero, FinishRound
<1>6. res.returns \in SUBSET V
  BY <1>2, <1>5, WalkFields, NoValuesType, SubstituteType
<1>7. ASSUME r.cut = None
      PROVE  \E vals \in Seq(Value) : Closed(prog, state', result', m, vals)
  <2>1. WaiterClosed(prog, state, result, m, WalkDone)
    BY <1>1, <1>7, WalkDoneClosed
  <2>2. WalkDone.deferred = <<>>
    <3>1. AloneDefersNothing /\ FinishesAlone
      BY <1>1, AloneDeferred DEF FinishAlone, FinishesAlone
    <3>2. Top.w \in Walk
      BY <1>1, WalkOverType, WalkFrameType
    <3> QED BY <3>1, <3>2 DEF AloneDefersNothing, WalkDone, Walk
  <2>3. PICK p, st, rs, w, tt, rt :
          /\ p = prog /\ st = state /\ rs = result /\ w = WalkDone /\ tt = state' /\ rt = result'
    OBVIOUS
  <2>4. FinalsKept(st, rs, tt, rt) /\ WaiterClosed(p, st, rs, m, w) /\ w.deferred = <<>>
    BY <2>1, <2>2, <2>3 DEF ReadyLasts
  <2>5. rt[m].calls = w.calls /\ rt[m].returns = Substitute(w.rets, NoValues(w))
    BY <1>4, <1>5, <2>3
  <2>6. \E vals \in Seq(Value) : Closed(p, tt, rt, m, vals)
    BY <1>2, <2>4, <2>5, AloneClosed
  <2> QED BY <2>3, <2>6
<1>8. OthersKept(read)
  BY <1>1, <1>2, <1>4 DEF OthersKept, Waiting
<1>9. ReadyIsClosed'
  <2> SUFFICES ASSUME NEW d \in Ctx, state'[d] = "Ready"
               PROVE  \E vals \in Seq(Value) : Closed(prog', state', result', d, vals)
    BY DEF ReadyIsClosed
  <2>1. CASE d = m
    <3>1. r.cut = None
      BY <1>4, <2>1
    <3> QED BY <1>1, <1>7, <2>1, <3>1
  <2>2. CASE d # m
    <3>1. state[d] = "Ready"
      BY <1>4, <2>2
    <3>2. PICK vals \in Seq(Value) : Closed(prog, state, result, d, vals)
      BY <3>1 DEF ClosedInv, ReadyIsClosed
    <3>3. PICK st, rs, tt, rt : st = state /\ rs = result /\ tt = state' /\ rt = result'
      OBVIOUS
    <3>4. FinalsKept(st, rs, tt, rt) /\ st[d] = "Ready" /\ Closed(prog, st, rs, d, vals)
      BY <3>1, <3>2, <3>3 DEF ReadyLasts
    <3>5. Closed(prog, tt, rt, d, vals)
      BY <3>4, ClosedStays
    <3> QED BY <1>1, <3>3, <3>5
  <2> QED BY <2>1, <2>2
<1>10. \A c \in Ctx : state'[c] = "Resolving" => DOMAIN walk'[c].resolved = DOMAIN walk'[c].deferred
  BY <1>1, <1>4 DEF ClosedInv, PlacesFit
<1>11. WaitersClosed(prog', state', result', read, walk')
  <2> SUFFICES ASSUME NEW d \in Ctx, state'[d] \in Waiting, read[d].cut = None
               PROVE  WaiterClosed(prog', state', result', d, walk'[d])
    BY DEF WaitersClosed
  <2>1. state[d] \in Waiting
    BY <1>4 DEF Waiting
  <2>2. WaiterClosed(prog, state, result, d, walk[d])
    BY <2>1 DEF ClosedInv, WaitersClosed
  <2>3. PICK p, st, rs, w, tt, rt : /\ p = prog /\ st = state /\ rs = result /\ w = walk[d]
                                    /\ tt = state' /\ rt = result'
    OBVIOUS
  <2>4. FinalsKept(st, rs, tt, rt) /\ WaiterClosed(p, st, rs, d, w)
    BY <2>2, <2>3 DEF ReadyLasts
  <2>5. WaiterClosed(p, tt, rt, d, w)
    BY <2>4, WaiterStays
  <2> QED BY <1>1, <2>3, <2>5
<1>12. SlotsClosed(read)
  BY <1>9, <1>10, <1>11 DEF SlotsClosed
<1>13. Honest(state', result', heads', current', walk', Below[Len(Below)], IsCut(r.cut),
              res.returns)
  <2>1. PICK st, rs, hs, cur, wk, fr, n, got :
          /\ st = state' /\ rs = result' /\ hs = heads' /\ cur = current' /\ wk = walk'
          /\ fr = Below[Len(Below)] /\ n = IsCut(r.cut) /\ got = res.returns
    OBVIOUS
  <2>2. CASE r.cut # None
    <3>1. n.cut # None
      BY <1>3, <2>1, <2>2
    <3>2. Honest(st, rs, hs, cur, wk, fr, n, got)
      BY <3>1, CutHonest
    <3> QED BY <2>1, <3>2
  <2>3. CASE r.cut = None
    <3>1. WantedIn(wk, fr) = m
      <4>1. Linked(walk, ctl) /\ OpsKept(walk, wk, Below)
        BY <1>1, <2>1 DEF LinksInv, OpsKept, OpsOf
      <4>2. WantedIn(wk, Below[Len(Below)]) = Owner(Top)
        BY <1>2, <4>1, BelowLinks
      <4> QED BY <1>2, <2>1, <4>2
    <3>2. st[m] = "Ready" /\ rs[m].returns = got /\ got \in SUBSET V
      BY <1>4, <1>6, <2>1, <2>3
    <3>3. Honest(st, rs, hs, cur, wk, fr, n, got)
      BY <1>2, <3>1, <3>2, ReadyHonest
    <3> QED BY <2>1, <3>3
  <2> QED BY <2>2, <2>3
<1>14. /\ Under \in Seq(Ctx) /\ FramesFit(Below, Under, fixpoint)
       /\ fixpoint \in Fixpoint \cup {None} /\ read \in [Ctx -> Note] /\ Grown(read, read)
  BY <1>1, OverUnder
<1>15. res.returns \in (SUBSET V) \cup {None} /\ prog' = prog /\ Linked(walk, ctl)
  BY <1>1, <1>6 DEF LinksInv
<1> QED BY <1>1, <1>2, <1>3, <1>8, <1>12, <1>13, <1>14, <1>15, ClosedAfterPop

(* park: a group that waits under another head is closed.                  *)
LEMMA ParkAllClosed ==
  ASSUME Inv, ClosedInv, ReadyLasts, MemberOver,
         NEW head \in Ctx, ParkAll(head), KeepsResolved, current' = current, prog' = prog,
         NEW rd, rd = KeepCut(read, Range(Top.members), fixpoint.read.cut)
  PROVE  OthersKept(rd) /\ SlotsClosed(rd) /\ OpsKept(walk, walk', Below)
<1>1. /\ Replays(Top) /\ Top.kind = "resolve" /\ Top \in ResolveFrame
      /\ Top.at \in Nat \ {0} /\ Top.members \in Seq(Ctx)
  BY KeptWalk, ResolveFrameType DEF MemberOver, Replays
<1>2. PICK m : /\ m = Member(Top) /\ m \in Ctx /\ state[m] = "Resolving" /\ heads[m] = Top.head
               /\ walk[m] \in Walk /\ m \in Range(Top.members)
  BY <1>1, Replaying
<1>3. /\ \A c \in Ctx : c # m => walk'[c] = walk[c]
      /\ walk'[m] = [walk[m] EXCEPT !.resolved = Top.now]
  BY <1>2 DEF KeepsResolved, Inv, TypeOK
<1>4. /\ walk'[m].deferred = walk[m].deferred /\ walk'[m].rets = walk[m].rets
      /\ walk'[m].calls = walk[m].calls
  BY <1>2, <1>3 DEF Walk
<1>5. /\ \A c \in Ctx : heads[c] # Top.head => heads'[c] = heads[c]
      /\ \A c \in Ctx : heads[c] # Top.head => state'[c] = state[c]
      /\ \A c \in Ctx : state'[c] \in Waiting => state[c] \in Waiting
  BY <1>1, ParkAllHeads
<1>6. /\ rd \in [Ctx -> Note] /\ Grown(read, rd)
      /\ \A c \in Ctx : state[c] \in Waiting => state'[c] \in Waiting
  BY <1>1, StoppedReads
<1>7. \A c \in Ctx : rd[c].cut = None => read[c].cut = None
  BY <1>6 DEF Grown
<1>8. OthersKept(rd)
  <2>1. \A c \in Ctx : heads[c] # Top.head => walk'[c] = walk[c]
    BY <1>2, <1>3
  <2>2. Owner(Top) = Top.head
    BY <1>1 DEF Owner
  <2> QED BY <1>5, <1>6, <1>7, <2>1, <2>2 DEF OthersKept
<1>9. \A c \in Ctx : state'[c] = "Ready" => state[c] = "Ready"
  BY DEF ParkAll
<1>10. \A c \in Ctx : state'[c] = "Resolving" =>
          DOMAIN walk'[c].resolved = DOMAIN walk'[c].deferred
  <2> SUFFICES ASSUME NEW c \in Ctx, state'[c] = "Resolving"
               PROVE  DOMAIN walk'[c].resolved = DOMAIN walk'[c].deferred
    OBVIOUS
  <2>1. state[c] = "Resolving" /\ c # m
    BY <1>2 DEF ParkAll
  <2> QED BY <1>3, <2>1 DEF ClosedInv, PlacesFit
<1>11. \A c \in Ctx : SameWaiter(walk[c], walk'[c])
  BY <1>3, <1>4 DEF SameWaiter
<1>12. SlotsClosed(rd)
  BY <1>5, <1>7, <1>9, <1>10, <1>11, SlotsStay
<1>13. OpsKept(walk, walk', Below)
  <2>1. \A c \in Ctx : walk'[c].deferred = walk[c].deferred
    BY <1>3, <1>4
  <2> QED BY <1>1, <2>1, OpsKeptBelow
<1> QED BY <1>8, <1>12, <1>13

(* Merged: the reader gets nothing, and is told so.                        *)
LEMMA ClosedMerged ==
  ASSUME Inv, RoundsSuffice, Counted, LinksInv, ClosedInv, ReadyLasts, Merged
  PROVE  ClosedInv'
<1>1. PICK r, head, rd, n :
         /\ r = fixpoint.read /\ head = stack[r.lowest + 1] /\ n = DependsOn(r.lowest)
         /\ rd = KeepCut(read, Range(Top.members), r.cut)
         /\ MemberOver /\ r.lowest # NoDepth /\ KeepsResolved /\ ParkAll(head)
         /\ Return(Below, rd, Top.outer, stack, n, None)
         /\ UNCHANGED <<prog, result, current>>
  BY DEF Merged
<1>2. Top.kind = "resolve"
  BY <1>1 DEF MemberOver, Replays
<1>3. r.lowest \in Nat /\ r.lowest < Len(stack)
  BY <1>1, <1>2, ResolveOnTop DEF NoteAt, Note
<1>4. n \in Note /\ n.lowest = r.lowest
  BY <1>1, <1>3, DependsOnType DEF DependsOn, Nothing
<1>5. head \in Ctx
  <2>1. r.lowest + 1 \in 1..Len(stack)
    BY <1>3, TopFrame
  <2> QED BY <1>1, <2>1, TopFrame, SeqType
<1>6. OthersKept(rd) /\ SlotsClosed(rd)
  BY <1>1, <1>5, ParkAllClosed
<1>7. n.lowest < NoDepth
  <2>1. Len(stack) <= NoDepth /\ Len(stack) \in Nat /\ NoDepth \in Nat
    BY TopFrame, LimitAssumption DEF NoDepth, Counted
  <2> QED BY <1>3, <1>4, <2>1
<1>8. Honest(state', result', heads', current', walk', Below[Len(Below)], n, None)
  <2>1. PICK st, res, hs, cur, wk, fr :
          /\ st = state' /\ res = result' /\ hs = heads' /\ cur = current' /\ wk = walk'
          /\ fr = Below[Len(Below)]
    OBVIOUS
  <2>2. Honest(st, res, hs, cur, wk, fr, n, None)
    BY <1>7, NothingHonest
  <2> QED BY <2>1, <2>2
<1>9. /\ stack \in Seq(Ctx) /\ FramesFit(Below, stack, Top.outer)
      /\ Top.outer \in Fixpoint \cup {None}
  BY <1>2, ResolveBelow, TopFrame
<1>10. rd \in [Ctx -> Note] /\ Grown(read, rd)
  BY <1>1, <1>2, StoppedReads
<1> QED BY <1>1, <1>2, <1>4, <1>6, <1>8, <1>9, <1>10, ClosedAfterPop DEF LinksInv

(* Joined: an outer fixpoint gets what the head of the group has so far,   *)
(* and any other reader is told of the group.                              *)
LEMMA ClosedJoined ==
  ASSUME Inv, RoundsSuffice, Counted, LinksInv, ClosedInv, ReadyLasts, Joined
  PROVE  ClosedInv'
<1>1. PICK c, r, rd, m, fx :
         /\ c = Top.head /\ r = fixpoint.read /\ fx = Top.outer
         /\ m = ReadGroupMember(c, state', heads', current', fx, stack)
         /\ rd = KeepCut(read, Range(Top.members), r.cut)
         /\ MemberOver /\ r.joins # None /\ KeepsResolved /\ ParkAll(r.joins)
         /\ Return(Below, rd, fx, stack, m.note, m.got)
         /\ UNCHANGED <<prog, result, current>>
  BY DEF Joined
<1>2. Top.kind = "resolve"
  BY <1>1 DEF MemberOver, Replays
<1>3. r.joins \in Ctx /\ c \in Ctx /\ heads[c] = c /\ c \in Range(Top.members)
      /\ current[c] \in FunctionResult /\ Len(stack) \in Nat /\ state[c] = "Resolving"
  BY <1>1, <1>2, ResolveOnTop, TopFrame DEF NoteAt, Note
<1>4. OthersKept(rd) /\ SlotsClosed(rd) /\ OpsKept(walk, walk', Below)
  BY <1>1, <1>3, ParkAllClosed
<1>5. /\ stack \in Seq(Ctx) /\ FramesFit(Below, stack, fx) /\ Below \in Seq(Frame)
      /\ fx \in Fixpoint \cup {None}
  BY <1>1, <1>2, ResolveBelow, TopFrame
<1>6. rd \in [Ctx -> Note] /\ Grown(read, rd)
  BY <1>1, <1>2, StoppedReads
<1>7. PICK st, hs, cur, wk, res, cs :
        /\ st = state' /\ hs = heads' /\ cur = current' /\ wk = walk' /\ res = result'
        /\ cs = Below
  OBVIOUS
<1>8. /\ hs \in [Ctx -> Ctx] /\ hs[c] \in Ctx /\ cur[c] \in FunctionResult
      /\ \A d \in Ctx : st[d] = "Running" <=> state[d] = "Running"
  BY <1>1, <1>3, <1>7, ParkAllType
<1>9. st[hs[c]] = "Running" => depth[hs[c]] \in Nat /\ depth[hs[c]] < Len(stack)
  BY <1>8, RunningDepth
<1>10. m = ReadGroupMember(c, st, hs, cur, fx, stack)
  BY <1>1, <1>7
<1>11. m.note \in Note /\ m.got \in (SUBSET V) \cup {None}
  <2>1. /\ NoteAt(ReadGroupMember(c, st, hs, cur, fx, stack).note, Len(stack))
        /\ ReadGroupMember(c, st, hs, cur, fx, stack).got \in (SUBSET V) \cup {None}
    BY <1>3, <1>8, <1>9, GroupReadType
  <2> QED BY <1>10, <2>1 DEF NoteAt
<1>12. fx # None => hs[fx.head] = fx.head
  <2> SUFFICES ASSUME fx # None PROVE heads'[fx.head] = fx.head
    BY <1>7
  <2>1. PICK i : i = Len(ctl) /\ i \in DOMAIN ctl /\ ctl[i] = Top
    BY TopFrame
  <2>2. /\ heads[fx.head] = fx.head
        /\ \E j \in 1..(i - 1) : j \in DOMAIN ctl /\ ctl[j].kind = "resolve"
                                 /\ ctl[j].head = fx.head
    BY <1>1, <1>2, <2>1, OuterHeads
  <2>3. PICK j \in 1..(i - 1) : j \in DOMAIN ctl /\ ctl[j].kind = "resolve"
                                /\ ctl[j].head = fx.head
    BY <2>2
  <2>4. fx.head # Top.head
    <3>1. j # Len(ctl)
      BY <2>1, <2>3, TopFrame
    <3> QED BY <1>2, <2>3, <3>1, HeadsApart
  <2>5. fx.head \in Ctx
    BY <1>5 DEF Fixpoint
  <2> QED BY <1>1, <1>2, <1>3, <2>2, <2>4, <2>5, ParkAllHeads
<1>13. Honest(st, res, hs, cur, wk, cs[Len(cs)], m.note, m.got)
  <2>1. st[c] \in Waiting
    BY <1>1, <1>3, <1>7 DEF Waiting, ParkAll
  <2>2. Len(stack) <= MaxStack
    BY DEF Counted
  <2>3. WantedIn(wk, cs[Len(cs)]) = c
    <3>1. Owner(Top) = c /\ Linked(walk, ctl) /\ OpsKept(walk, wk, Below)
      BY <1>1, <1>2, <1>4, <1>7 DEF Owner, LinksInv
    <3>2. WantedIn(wk, Below[Len(Below)]) = Owner(Top)
      BY <1>2, <3>1, BelowLinks
    <3> QED BY <1>7, <3>1, <3>2
  <2>4. cs \in Seq(Frame) /\ FramesFit(cs, stack, fx) /\ stack \in Seq(Ctx)
    BY <1>5, <1>7
  <2> QED BY <1>3, <1>8, <1>9, <1>10, <1>12, <2>1, <2>2, <2>3, <2>4, GroupHonest
<1>14. Honest(state', result', heads', current', walk', Below[Len(Below)], m.note, m.got)
  BY <1>7, <1>13
<1> QED BY <1>1, <1>2, <1>4, <1>5, <1>6, <1>11, <1>14, ClosedAfterPop DEF LinksInv

-----------------------------------------------------------------------------
(* A group settles.                                                        *)

(* The values vals, with now for those that are pending.                   *)
Resolved(vals, now) ==
    [i \in DOMAIN vals |-> [known |-> Substitute(vals[i], now), pending |-> {}]]

(* An expression has the value its operations resolve to.                  *)
LEMMA EvalResolved ==
  ASSUME NEW vals, NEW now, NEW e, NEW c
  PROVE  Eval(e, c, Resolved(vals, now)).known = Substitute(Eval(e, c, vals), now)
<1>1. PICK us, from, pend : /\ us = Resolved(vals, now) /\ from = e.sites \cap DOMAIN vals
                            /\ pend = UNION {vals[i].pending : i \in from}
  OBVIOUS
<1>2. PICK consts, K, U, P : /\ consts = e.consts \cup (IF e.param THEN c.arg ELSE {})
                             /\ K = UNION {vals[i].known : i \in from}
                             /\ U = UNION {us[i].known : i \in from}
                             /\ P = UNION {now[d] : d \in pend \cap DOMAIN now}
  OBVIOUS
<1>3. DOMAIN us = DOMAIN vals /\ \A i \in from : us[i].known = Substitute(vals[i], now)
  BY <1>1 DEF Resolved
<1>4. Eval(e, c, us).known = consts \cup U
  BY <1>1, <1>2, <1>3 DEF Eval
<1>5. Substitute(Eval(e, c, vals), now) = (consts \cup K) \cup P
  BY <1>1, <1>2 DEF Eval, Substitute
<1>6. ASSUME NEW v, NEW i \in from
      PROVE  v \in us[i].known
               <=> v \in vals[i].known \/ \E d \in vals[i].pending \cap DOMAIN now : v \in now[d]
  BY <1>3 DEF Substitute
<1>7. \A v : v \in U <=> \E i \in from : v \in us[i].known
  BY <1>2
<1>8. \A v : v \in K <=> \E i \in from : v \in vals[i].known
  BY <1>2
<1>9. \A v : v \in P <=> \E i \in from : \E d \in vals[i].pending \cap DOMAIN now : v \in now[d]
  BY <1>1, <1>2
<1>10. U = K \cup P
  BY <1>6, <1>7, <1>8, <1>9
<1> QED BY <1>1, <1>4, <1>5, <1>10

(* So have the callees and the argument of a call site.                    *)
LEMMA ResolvedSite ==
  ASSUME NEW p, NEW c, NEW vals \in Seq(Value), NEW now, NEW i \in DOMAIN vals,
         NEW us, us = Resolved(vals, now)
  PROVE  /\ CalleeOf(p, c, us, i).known = Substitute(CalleeOf(p, c, vals, i), now)
         /\ ArgOf(p, c, us, i).known = Substitute(ArgOf(p, c, vals, i), now)
<1>1. Before(us, i) = Resolved(Before(vals, i), now)
  <2>1. DOMAIN vals = 1..Len(vals) /\ Len(vals) \in Nat /\ i \in 1..Len(vals)
    BY SeqType
  <2>2. \A k \in 1..Len(vals) : us[k] = [known |-> Substitute(vals[k], now), pending |-> {}]
    BY <2>1 DEF Resolved
  <2>3. PICK bs : bs = Before(vals, i)
    OBVIOUS
  <2>4. bs = [k \in 1..(i - 1) |-> vals[k]]
    BY <2>1, <2>3 DEF Before
  <2>5. Before(us, i) = [k \in 1..(i - 1) |-> us[k]]
    BY <2>1 DEF Before
  <2>6. Resolved(bs, now)
          = [k \in 1..(i - 1) |-> [known |-> Substitute(vals[k], now), pending |-> {}]]
    BY <2>4 DEF Resolved
  <2>7. \A k \in 1..(i - 1) : k \in 1..Len(vals)
    BY <2>1
  <2> QED BY <2>2, <2>3, <2>5, <2>6, <2>7
<1> QED BY <1>1, EvalResolved DEF CalleeOf, ArgOf

(* The operations of w have the values now, and what answered them in the  *)
(* group of h is final.                                                    *)
RoundSettled(st, res, hs, cur, h, w, now, tt, rt) ==
    /\ DOMAIN now = DOMAIN w.deferred
    /\ \A j \in DOMAIN w.deferred : OpSettled(st, res, hs, cur, h, w, now, j)
    /\ \A X : Answering(st, res, hs, cur, h, X) \subseteq Finals(tt, rt, X)

(* A call site has its final value.                                        *)
LEMMA SettledSite ==
  ASSUME NEW p, NEW st, NEW res, NEW hs, NEW cur, NEW h, NEW tt, NEW rt, NEW w, NEW now,
         RoundSettled(st, res, hs, cur, h, w, now, tt, rt),
         NEW c, NEW vals, NEW i \in DOMAIN vals, SiteTaken(p, st, res, c, w, vals, i),
         NEW callees, callees = Substitute(CalleeOf(p, c, vals, i), now),
         NEW arg, arg = Substitute(ArgOf(p, c, vals, i), now),
         NEW v, v = Substitute(vals[i], now)
  PROVE  Accounted(callees, arg, v, Finals(tt, rt, v)) /\ w.calls[i] = Keys(callees, arg)
<1> USE DEF RoundSettled
<1>1. ASSUME NEW X, X \subseteq v
      PROVE  Answering(st, res, hs, cur, h, X) \subseteq Finals(tt, rt, v)
  <2>1. Finals(tt, rt, X) \subseteq Finals(tt, rt, v)
    BY <1>1 DEF Finals
  <2> QED BY <2>1
<1>2. \A j \in vals[i].pending \cap DOMAIN w.deferred : now[j] \subseteq v
  BY DEF Substitute
<1>3. vals[i].known \subseteq v
  BY DEF Substitute
<1>4. CASE Deferred(p, c, w.deferred, vals, i)
  <2>1. PICK j \in vals[i].pending \cap DOMAIN w.deferred :
          /\ w.deferred[j].op = "Call" /\ w.deferred[j].site = i
          /\ w.deferred[j].callee = CalleeOf(p, c, vals, i)
          /\ w.deferred[j].arg = ArgOf(p, c, vals, i)
    BY <1>4 DEF Deferred
  <2>2. PICK D, E : D = Answering(st, res, hs, cur, h, now[j]) /\ E = Finals(tt, rt, v)
    OBVIOUS
  <2>3. Accounted(callees, arg, now[j], D) /\ w.calls[i] = Keys(callees, arg)
    BY <2>1, <2>2 DEF OpSettled
  <2>4. now[j] \subseteq v /\ D \subseteq E
    BY <1>1, <1>2, <2>2
  <2> QED BY <2>2, <2>3, <2>4, AccountedMore
<1>5. CASE Called(p, st, res, c, w, vals, i)
  <2>1. PICK ca, ar, X, D : /\ ca = CalleeOf(p, c, vals, i) /\ ar = ArgOf(p, c, vals, i)
                            /\ X = vals[i].known
                            /\ D = Finals(st, res, X) \cup Applied(w.deferred, vals[i])
    OBVIOUS
  <2>2. /\ ~NeedsDefer(ca, ar) /\ Accounted(ca.known, ar.known, X, D)
        /\ w.calls[i] = Keys(ca.known, ar.known)
    BY <1>5, <2>1 DEF Called
  <2>3. callees = ca.known
    BY <2>1, <2>2 DEF NeedsDefer, Substitute
  <2>4. D \subseteq Finals(tt, rt, v)
    <3>1. Finals(st, res, X) \subseteq Finals(tt, rt, v)
      BY <1>1, <1>3, <2>1 DEF Answering
    <3>2. ASSUME NEW j \in vals[i].pending \cap DOMAIN w.deferred, w.deferred[j].op = "Apply"
          PROVE  w.deferred[j].ctx \in Finals(tt, rt, v)
      <4>1. w.deferred[j].ctx \in Answering(st, res, hs, cur, h, now[j])
        BY <3>2 DEF OpSettled
      <4> QED BY <1>1, <1>2, <4>1
    <3> QED BY <2>1, <3>1, <3>2 DEF Applied
  <2>5. CASE ar.pending = {}
    <3>1. arg = ar.known
      BY <2>1, <2>5 DEF Substitute
    <3>2. PICK E : E = Finals(tt, rt, v)
      OBVIOUS
    <3>3. Accounted(callees, arg, v, E)
      BY <1>3, <2>1, <2>2, <2>3, <2>4, <3>1, <3>2, AccountedMore
    <3> QED BY <2>2, <2>3, <3>1, <3>2, <3>3
  <2>6. CASE ca.known \cap Func = {}
    <3>1. Keys(callees, arg) = {} /\ Keys(ca.known, ar.known) = {}
      BY <2>3, <2>6 DEF Keys
    <3> QED BY <1>3, <2>1, <2>2, <2>3, <3>1 DEF Accounted
  <2> QED BY <2>2, <2>5, <2>6 DEF NeedsDefer
<1> QED BY <1>4, <1>5 DEF SiteTaken

(* A member whose round has settled is closed.                             *)
LEMMA SettledClosed ==
  ASSUME NEW p, NEW st, NEW res, NEW hs, NEW cur, NEW h, NEW tt, NEW rt,
         NEW c \in Ctx, NEW w \in Walk, WaiterClosed(p, st, res, c, w),
         NEW now, now = w.resolved, RoundSettled(st, res, hs, cur, h, w, now, tt, rt),
         \A S \in [Ctx -> SUBSET V], W \in [Ctx -> Seq(Value)] :
             Bounds(p, S, W) => NowFits(Ceiling(S, W, c, w.deferred), now),
         rt[c].calls = w.calls, Substitute(w.rets, now) \subseteq rt[c].returns
  PROVE  \E vals \in Seq(Value) : Closed(p, tt, rt, c, vals)
<1>1. PICK vals \in Seq(Value) :
        /\ DOMAIN vals = DOMAIN p[c.func].sites
        /\ SitesTaken(p, st, res, c, w, vals)
        /\ w.rets = Eval(p[c.func].rets, c, vals)
        /\ ValuesFit(p, c, w.deferred, vals)
  BY DEF WaiterClosed
<1>2. PICK us : us = Resolved(vals, now)
  OBVIOUS
<1>3. /\ DOMAIN us = DOMAIN vals
      /\ \A i \in DOMAIN vals : us[i].known = Substitute(vals[i], now)
  BY <1>2 DEF Resolved
<1>4. us \in Seq(Value)
  <2>1. now \in Seq(SUBSET V)
    BY WalkFields
  <2>2. ASSUME NEW i \in DOMAIN vals
        PROVE  [known |-> Substitute(vals[i], now), pending |-> {}] \in Value
    <3>1. vals[i] \in Value
      BY SeqType
    <3>2. Substitute(vals[i], now) \in SUBSET V
      BY <2>1, <3>1, SubstituteType
    <3> QED BY <3>2 DEF Value
  <2>3. DOMAIN vals = 1..Len(vals) /\ Len(vals) \in Nat
    OBVIOUS
  <2>4. PICK n \in Nat : n = Len(vals)
    BY <2>3
  <2>5. us \in [1..n -> Value]
    BY <1>2, <2>2, <2>3, <2>4 DEF Resolved
  <2> QED BY <2>5
<1>5. ASSUME NEW i \in DOMAIN us
      PROVE  LET callees == CalleeOf(p, c, us, i).known
                 arg == ArgOf(p, c, us, i).known IN
             /\ Accounted(callees, arg, us[i].known, Finals(tt, rt, us[i].known))
             /\ rt[c].calls[i] = Keys(callees, arg)
  <2>1. PICK callees, arg, v : /\ callees = Substitute(CalleeOf(p, c, vals, i), now)
                               /\ arg = Substitute(ArgOf(p, c, vals, i), now)
                               /\ v = Substitute(vals[i], now)
    OBVIOUS
  <2>2. SiteTaken(p, st, res, c, w, vals, i) /\ i \in DOMAIN vals
    BY <1>1, <1>3 DEF SitesTaken
  <2>3. Accounted(callees, arg, v, Finals(tt, rt, v)) /\ w.calls[i] = Keys(callees, arg)
    BY <2>1, <2>2, SettledSite
  <2>4. /\ callees = CalleeOf(p, c, us, i).known /\ arg = ArgOf(p, c, us, i).known
        /\ v = us[i].known
    BY <1>2, <1>3, <2>1, <2>2, ResolvedSite
  <2> QED BY <2>3, <2>4
<1>6. Eval(p[c.func].rets, c, us).known \subseteq rt[c].returns
  BY <1>1, <1>2, EvalResolved
<1>7. SitesBelow(p, c, us)
  <2> SUFFICES ASSUME NEW S \in [Ctx -> SUBSET V], NEW W \in [Ctx -> Seq(Value)],
                      Bounds(p, S, W), NEW i \in DOMAIN us
               PROVE  us[i].known \subseteq W[c][i].known
    BY DEF SitesBelow
  <2>1. PICK b, T : b = Ceiling(S, W, c, w.deferred) /\ T = W[c][i].known
    OBVIOUS
  <2>2. Fits(b, vals[i], T) /\ NowFits(b, now)
    BY <1>1, <1>3, <2>1 DEF ValuesFit
  <2>3. Substitute(vals[i], now) \subseteq T
    BY <2>2, SubstituteFits
  <2> QED BY <1>3, <2>1, <2>3
<1>8. DOMAIN rt[c].calls = DOMAIN us
  BY <1>1, <1>3 DEF SitesTaken
<1>9. Closed(p, tt, rt, c, us)
  BY <1>1, <1>3, <1>5, <1>6, <1>7, <1>8 DEF Closed
<1> QED BY <1>4, <1>9

(* A group settles in a round that nothing has changed.                    *)
LEMMA SettleResults ==
  ASSUME Inv, RoundsSuffice, Settle
  PROVE  /\ Top.kind = "resolve" /\ ~Top.changed /\ Joiners = <<>>
         /\ Top.members \in Seq(Ctx) /\ Top.at \in Nat /\ Top.at > Len(Top.members)
         /\ \A c \in Range(Top.members) : /\ result'[c].returns = current[c].returns
                                          /\ result'[c].calls = current[c].calls
<1> DEFINE seq == Top.members \o Joiners
           cut == IF fixpoint.read.cut # None THEN fixpoint.read.cut ELSE FirstCut(seq)
           last(c) == IF c \in Range(Joiners) THEN RoundZero(walk[c]) ELSE current[c]
           res(c) == [last(c) EXCEPT !.capped = Capped(Top), !.cut = cut]
<1>1. /\ RoundOver /\ (~RoundChanged \/ Capped(Top))
      /\ result' = [c \in Ctx |-> IF c \in Range(seq) THEN res(c) ELSE result[c]]
  BY DEF Settle
<1>2. Top.kind = "resolve" /\ Top.at > Len(Top.members)
  BY <1>1 DEF RoundOver
<1>3. ~Capped(Top)
  BY <1>2, TopFrame, NotCapped
<1>4. ~Top.changed /\ Joiners = <<>>
  BY <1>1, <1>3 DEF RoundChanged
<1>5. /\ Top \in ResolveFrame /\ Top.members \in Seq(Ctx) /\ Range(Top.members) \subseteq Ctx
      /\ \A c \in Range(Top.members) : current[c] \in FunctionResult
  BY <1>2, ResolveOnTop
<1>6. Top.at \in Nat
  BY <1>5, ResolveFrameType
<1>7. Range(Joiners) = {} /\ Range(seq) = Range(Top.members)
  <2>1. Range(Joiners) = {}
    BY <1>4 DEF Range
  <2>2. Joiners \in Seq(Ctx)
    BY <1>2, JoinersType
  <2>3. Range(Top.members \o Joiners) = Range(Top.members) \cup Range(Joiners)
    BY <1>5, <2>2, RangeOfConcat
  <2> QED BY <2>1, <2>3
<1>8. ASSUME NEW c \in Range(Top.members)
      PROVE  result'[c].returns = current[c].returns /\ result'[c].calls = current[c].calls
  <2>1. last(c) = current[c] /\ last(c) \in FunctionResult
    BY <1>5, <1>7
  <2> HIDE DEF last, cut, seq
  <2>2. res(c).returns = last(c).returns /\ res(c).calls = last(c).calls
    BY <2>1 DEF FunctionResult
  <2> HIDE DEF res
  <2>3. result'[c] = res(c)
    BY <1>1, <1>5, <1>7
  <2> QED BY <2>1, <2>2, <2>3
<1> QED BY <1>2, <1>4, <1>5, <1>6, <1>8

(* If it read no cut, it was told of nothing.                              *)
LEMMA SettlesQuiet ==
  ASSUME Inv, WaitersInv, Settle, ~FixpointCut(fixpoint)
  PROVE  ~Disturbed(fixpoint, ctl, Top.head)
<1>1. RoundOver /\ Top.kind = "resolve"
  BY DEF Settle, RoundOver
<1>2. ~Loud(fixpoint, Top.head)
  <2>1. fixpoint.read.lowest = NoDepth /\ fixpoint.read.joins = None
    BY <1>1, RoundOverFacts DEF Quiet
  <2>2. ~(NoDepth < NoDepth)
    BY LimitAssumption DEF NoDepth
  <2> QED BY <2>1, <2>2 DEF Loud, FixpointCut
<1>3. ASSUME NEW i \in DOMAIN ctl, ctl[i].kind = "resolve", Loud(ctl[i].outer, Top.head)
      PROVE  FALSE
  <2>1. ctl[i].outer # None /\ ctl[i].outer.head = Top.head
    BY <1>3 DEF Loud
  <2>2. PICK j \in 1..(i - 1) : j \in DOMAIN ctl /\ ctl[j].kind = "resolve"
                                /\ ctl[j].head = ctl[i].outer.head
    BY <1>3, <2>1, OuterHeads
  <2>3. j # Len(ctl)
    BY <2>2, TopFrame
  <2> QED BY <1>1, <2>1, <2>2, <2>3, HeadsApart
<1> QED BY <1>2, <1>3 DEF Disturbed

(* A member is closed when its group settles and no cut was read.          *)
LEMMA MemberSettles ==
  ASSUME Inv, RoundsSuffice, WaitersInv, BoundsInv, ClosedInv, ReadyLasts, Settle,
         ~FixpointCut(fixpoint),
         NEW ms \in SUBSET Ctx, ms = Range(Top.members), \A c \in ms : read[c].cut = None,
         \A c \in Ctx : c \in ms <=> state[c] \in Waiting /\ heads[c] = Top.head,
         \A c \in ms : state'[c] = "Ready",
         NEW c \in ms
  PROVE  \E vals \in Seq(Value) : Closed(prog, state', result', c, vals)
<1>1. /\ Top.kind = "resolve" /\ ~Top.changed
      /\ Top.members \in Seq(Ctx) /\ Top.at \in Nat /\ Top.at > Len(Top.members)
      /\ \A d \in ms : /\ result'[d].returns = current[d].returns
                       /\ result'[d].calls = current[d].calls
  BY SettleResults
<1>2. PICK st, res, hs, cur, h, w, now, tt, rt :
        /\ st = state /\ res = result /\ hs = heads /\ cur = current /\ h = Top.head
        /\ w = walk[c] /\ now = w.resolved /\ tt = state' /\ rt = result'
  OBVIOUS
<1>3. state[c] = "Resolving" /\ walk[c] \in Walk
  BY <1>1, ResolveOnTop
<1>4. MemberClosed(st, res, hs, cur, h, w, c)
  <2>1. RoundClosed(state, result, heads, current, read, walk, Top)
    BY <1>1, SettlesQuiet, RoundNow
  <2>2. PICK k \in DOMAIN Top.members : c = Top.members[k]
    BY DEF Range
  <2>3. k < Top.at
    BY <1>1, <2>2
  <2>4. read[c].cut = None
    OBVIOUS
  <2>5. MemberClosed(state, result, heads, current, Top.head, walk[c], c)
    BY <2>1, <2>2, <2>3, <2>4 DEF RoundClosed
  <2> QED BY <1>2, <2>5
<1>5. WaiterClosed(prog, st, res, c, w)
  BY <1>2, <1>3 DEF ClosedInv, WaitersClosed, Waiting
<1>6. ASSUME NEW X PROVE Answering(st, res, hs, cur, h, X) \subseteq Finals(tt, rt, X)
  <2>1. ASSUME NEW d \in Ctx, st[d] = "Ready", res[d].returns \subseteq X
        PROVE  tt[d] = "Ready" /\ rt[d].returns \subseteq X
    BY <1>2, <2>1 DEF ReadyLasts, FinalsKept
  <2>2. ASSUME NEW d \in Ctx, st[d] \in Waiting, hs[d] = h, cur[d].returns \subseteq X
        PROVE  tt[d] = "Ready" /\ rt[d].returns \subseteq X
    <3>1. d \in ms
      BY <1>2, <2>2
    <3> QED BY <1>1, <1>2, <2>2, <3>1
  <2> QED BY <2>1, <2>2 DEF Answering, Finals, SoFar
<1>7. RoundSettled(st, res, hs, cur, h, w, now, tt, rt)
  <2>1. DOMAIN now = DOMAIN w.deferred
    BY <1>2, <1>3 DEF ClosedInv, PlacesFit
  <2>2. \A j \in DOMAIN w.deferred : OpSettled(st, res, hs, cur, h, w, now, j)
    BY <1>2, <1>4 DEF MemberClosed
  <2> QED BY <1>6, <2>1, <2>2 DEF RoundSettled
<1>8. rt[c].calls = w.calls /\ rt[c].returns = Substitute(w.rets, now)
  <2>1. cur[c] = FinishRound(w, now)
    BY <1>2, <1>4 DEF MemberClosed
  <2>2. cur[c].calls = w.calls /\ cur[c].returns = Substitute(w.rets, now)
    BY <2>1 DEF FinishRound
  <2> QED BY <1>1, <1>2, <2>2
<1>9. \A S \in [Ctx -> SUBSET V], W \in [Ctx -> Seq(Value)] :
          Bounds(prog, S, W) => NowFits(Ceiling(S, W, c, w.deferred), now)
  <2> SUFFICES ASSUME NEW S \in [Ctx -> SUBSET V], NEW W \in [Ctx -> Seq(Value)],
                      Bounds(prog, S, W)
               PROVE  NowFits(Ceiling(S, W, c, walk[c].deferred), walk[c].resolved)
    BY <1>2
  <2>1. ~SpoiledNow(Top.head)
    BY <1>1, SettlesClean
  <2>2. StaysBelow(S, W) /\ state[c] \in Waiting /\ heads[c] = Top.head
    BY DEF BoundsInv
  <2>3. WaiterBelow(prog, S, W, walk, current, c)
    BY <2>1, <2>2 DEF StaysBelow, SlotsBelow, SpoiledNow
  <2> QED BY <2>3 DEF WaiterBelow
<1>10. \E vals \in Seq(Value) : Closed(prog, tt, rt, c, vals)
  <2>1. w \in Walk /\ c \in Ctx
    BY <1>2, <1>3
  <2> QED BY <1>2, <1>5, <1>7, <1>8, <1>9, <2>1, SettledClosed
<1> QED BY <1>2, <1>10

(* settle: the members are closed, or marked cut.                          *)
LEMMA ClosedSettle ==
  ASSUME Inv, RoundsSuffice, WaitersInv, LinksInv, BoundsInv, ClosedInv, ReadyLasts, Settle
  PROVE  ClosedInv'
<1>1. PICK rd \in [Ctx -> Note], cut \in Cut \cup {None}, got \in SUBSET V, ms \in SUBSET Ctx :
            /\ Return(Below, rd, Top.outer, stack, IsCut(cut), got)
            /\ Grown(read, rd) /\ Top.head \in ms
            /\ ms = Range(Top.members) \cup Range(Joiners)
            /\ got = result'[Top.head].returns
            /\ cut = None => ~FixpointCut(fixpoint) /\ \A c \in ms : read[c].cut = None
            /\ \A c \in Ctx : c \notin ms => rd[c] = read[c]
            /\ \A c \in Ctx : c \in ms => rd[c].cut = cut
            /\ \A c \in Ctx : state'[c] = IF c \notin ms THEN state[c]
                                          ELSE IF cut = None THEN "Ready" ELSE "Cut"
  BY SettleTells
<1>2. Top.kind = "resolve" /\ prog' = prog /\ heads' = heads
  BY DEF Settle, RoundOver
<1>3. /\ \A c \in Ctx : c \in ms <=> state[c] \in Waiting /\ heads[c] = Top.head
      /\ \A c \in Ctx : c \notin ms => /\ walk'[c] = walk[c] /\ current'[c] = current[c]
                                       /\ result'[c] = result[c]
  BY <1>1, SettleLeaves
<1>4. ms = Range(Top.members) /\ Top.head \in Ctx
  <2>1. Range(Joiners) = {}
    BY SettleResults DEF Range
  <2> QED BY <1>1, <2>1
<1>5. ASSUME cut = None, NEW c \in ms
      PROVE  \E vals \in Seq(Value) : Closed(prog, state', result', c, vals)
  <2>1. ~FixpointCut(fixpoint) /\ \A d \in ms : read[d].cut = None /\ state'[d] = "Ready"
    BY <1>1, <1>5
  <2> QED BY <1>3, <1>4, <2>1, MemberSettles
<1>6. OthersKept(rd)
  <2>1. Owner(Top) = Top.head
    BY <1>2 DEF Owner
  <2>2. \A c \in Ctx : state[c] \in Waiting /\ heads[c] # Top.head => c \notin ms
    BY <1>3
  <2> QED BY <1>1, <1>2, <1>3, <2>1, <2>2 DEF OthersKept
<1>7. ReadyIsClosed'
  <2> SUFFICES ASSUME NEW d \in Ctx, state'[d] = "Ready"
               PROVE  \E vals \in Seq(Value) : Closed(prog', state', result', d, vals)
    BY DEF ReadyIsClosed
  <2>1. CASE d \in ms
    <3>1. cut = None
      BY <1>1, <2>1
    <3> QED BY <1>2, <1>5, <2>1, <3>1
  <2>2. CASE d \notin ms
    <3>1. state[d] = "Ready"
      BY <1>1, <2>2
    <3>2. PICK vals \in Seq(Value) : Closed(prog, state, result, d, vals)
      BY <3>1 DEF ClosedInv, ReadyIsClosed
    <3>3. PICK st, rs, tt, rt : st = state /\ rs = result /\ tt = state' /\ rt = result'
      OBVIOUS
    <3>4. FinalsKept(st, rs, tt, rt) /\ st[d] = "Ready" /\ Closed(prog, st, rs, d, vals)
      BY <3>1, <3>2, <3>3 DEF ReadyLasts
    <3>5. Closed(prog, tt, rt, d, vals)
      BY <3>4, ClosedStays
    <3> QED BY <1>2, <3>3, <3>5
  <2> QED BY <2>1, <2>2
<1>8. ASSUME NEW c \in Ctx, state'[c] \in Waiting
      PROVE  /\ c \notin ms /\ state'[c] = state[c] /\ walk'[c] = walk[c]
             /\ rd[c] = read[c]
  <2>1. c \notin ms
    BY <1>1, <1>8 DEF Waiting
  <2> QED BY <1>1, <1>3, <2>1
<1>9. \A c \in Ctx : state'[c] = "Resolving" => DOMAIN walk'[c].resolved = DOMAIN walk'[c].deferred
  BY <1>8 DEF ClosedInv, PlacesFit, Waiting
<1>10. WaitersClosed(prog', state', result', rd, walk')
  <2> SUFFICES ASSUME NEW d \in Ctx, state'[d] \in Waiting, rd[d].cut = None
               PROVE  WaiterClosed(prog', state', result', d, walk'[d])
    BY DEF WaitersClosed
  <2>1. state[d] \in Waiting /\ read[d].cut = None /\ walk'[d] = walk[d]
    BY <1>8
  <2>2. WaiterClosed(prog, state, result, d, walk[d])
    BY <2>1 DEF ClosedInv, WaitersClosed
  <2>3. PICK p, st, rs, w, tt, rt : /\ p = prog /\ st = state /\ rs = result /\ w = walk[d]
                                    /\ tt = state' /\ rt = result'
    OBVIOUS
  <2>4. FinalsKept(st, rs, tt, rt) /\ WaiterClosed(p, st, rs, d, w)
    BY <2>2, <2>3 DEF ReadyLasts
  <2>5. WaiterClosed(p, tt, rt, d, w)
    BY <2>4, WaiterStays
  <2> QED BY <1>2, <2>1, <2>3, <2>5
<1>11. SlotsClosed(rd)
  BY <1>7, <1>9, <1>10 DEF SlotsClosed
<1>12. IsCut(cut) \in Note /\ IsCut(cut).cut = cut
  BY IsCutType DEF IsCut, Nothing
<1>13. Honest(state', result', heads', current', walk', Below[Len(Below)], IsCut(cut), got)
  <2>1. PICK st, rs, hs, cur, wk, fr, n :
          /\ st = state' /\ rs = result' /\ hs = heads' /\ cur = current' /\ wk = walk'
          /\ fr = Below[Len(Below)] /\ n = IsCut(cut)
    OBVIOUS
  <2>2. CASE cut # None
    <3>1. Honest(st, rs, hs, cur, wk, fr, n, got)
      BY <1>12, <2>1, <2>2, CutHonest
    <3> QED BY <2>1, <3>1
  <2>3. CASE cut = None
    <3>1. OpsKept(walk, wk, Below)
      <4>1. \A c \in Ctx : state[c] = "Resolving" /\ heads[c] # Top.head
              => wk[c].deferred = walk[c].deferred
        BY <1>3, <2>1
      <4> QED BY <1>2, <4>1, OpsKeptBelow
    <3>2. WantedIn(wk, fr) = Top.head
      <4>1. WantedIn(wk, Below[Len(Below)]) = Owner(Top)
        BY <1>2, <3>1, BelowLinks DEF LinksInv
      <4> QED BY <1>2, <2>1, <4>1 DEF Owner
    <3>3. PICK h : h = Top.head
      OBVIOUS
    <3>4. st[h] = "Ready" /\ rs[h].returns = got /\ WantedIn(wk, fr) = h /\ h \in Ctx
      BY <1>1, <1>4, <2>1, <2>3, <3>2, <3>3
    <3>5. Honest(st, rs, hs, cur, wk, fr, n, got)
      BY <3>4, ReadyHonest
    <3> QED BY <2>1, <3>5
  <2> QED BY <2>2, <2>3
<1>14. /\ stack \in Seq(Ctx) /\ FramesFit(Below, stack, Top.outer)
       /\ Top.outer \in Fixpoint \cup {None} /\ Linked(walk, ctl)
  BY <1>2, ResolveBelow, TopFrame DEF LinksInv
<1>15. got \in (SUBSET V) \cup {None}
  OBVIOUS
<1> QED BY <1>1, <1>2, <1>6, <1>11, <1>12, <1>13, <1>14, <1>15, ClosedAfterPop

-----------------------------------------------------------------------------
(* The invariant.                                                          *)

(* solve starts with nothing found.                                        *)
LEMMA InitClosed == Init => ClosedInv
<1> SUFFICES ASSUME Init PROVE ClosedInv
  OBVIOUS
<1>1. PICK fr : ctl = <<fr>> /\ fr.kind = "solve"
  BY DEF Init
<1>2. DOMAIN ctl = {1} /\ ctl[1] = fr
  BY <1>1
<1>3. \A c \in Ctx : state[c] = "New"
  BY DEF Init
<1>4. ReadyIsClosed /\ WaitersClosed(prog, state, result, read, walk)
  BY <1>3 DEF ReadyIsClosed, WaitersClosed, Waiting
<1>5. PlacesFit(state, walk, ctl)
  BY <1>1, <1>2, <1>3 DEF PlacesFit, Replays
<1>6. FramesClosed(prog, state, result, heads, current, read, walk, fixpoint, ctl)
  BY <1>1, <1>2 DEF FramesClosed, FrameClosed
<1> QED BY <1>4, <1>5, <1>6 DEF ClosedInv

(* Nothing the invariant speaks of changes.                                *)
LEMMA ClosedUnchanged ==
  ASSUME UNCHANGED <<prog, slots, heads, fixpoint, ctl>>, ClosedInv
  PROVE  ClosedInv'
<1>1. /\ prog' = prog /\ state' = state /\ result' = result /\ current' = current
      /\ read' = read /\ walk' = walk /\ heads' = heads /\ fixpoint' = fixpoint /\ ctl' = ctl
  BY DEF slots
<1> QED BY <1>1 DEF ClosedInv, ReadyIsClosed

(* With reuse no finished summary is withdrawn.                            *)
LEMMA FinalsLast == Reuse /\ Inv /\ [Next]_vars => ReadyLasts
<1> SUFFICES ASSUME Reuse, Inv, [Next]_vars, NEW c \in Ctx PROVE StaysReady(c)
  BY DEF ReadyLasts, FinalsKept, StaysReady
<1> QED BY ReadyKept

(* No step leaves anything out.                                            *)
LEMMA ClosedNext ==
  ASSUME Reuse, RoundsSuffice, Inv, Counted, WaitersInv, ReadersInv,
         LinksInv, BoundsInv, ClosedInv, [Next]_vars
  PROVE  ClosedInv'
<1>1. ReadyLasts
  BY FinalsLast
<1>2. CASE Get
  BY <1>1, <1>2, ClosedGetReady, ClosedGetRunning, ClosedGetCut, ClosedGetGroupMember,
     ClosedGetWalk
     DEF Get
<1>3. CASE WalkStep
  BY <1>1, <1>3, ClosedDeferCall, ClosedStartCall, ClosedFinishCall, ClosedParkInCycle,
     ClosedParkInGroup, ClosedFinishAlone
     DEF WalkStep
<1>4. CASE FixpointStep
  BY <1>1, <1>4, ClosedResolveGroup, ClosedReplayCall, ClosedReplayDone, ClosedNextMember,
     ClosedMerged, ClosedJoined, ClosedNextRound, ClosedSettle
     DEF FixpointStep
<1>5. CASE DeadlinePasses
  BY <1>5, ClosedUnchanged DEF DeadlinePasses
<1>6. CASE UNCHANGED vars
  BY <1>6, ClosedUnchanged DEF vars
<1> QED BY <1>2, <1>3, <1>4, <1>5, <1>6 DEF Next, Thread, Finished

(* What is finished and what waits stays closed, while the fixpoints       *)
(* settle before their last round.                                         *)
THEOREM ClosedInvariance ==
  ASSUME Reuse
  PROVE  Spec /\ []RoundsSuffice => []ClosedInv
<1>1. RoundsSuffice /\ Inv /\ Counted /\ WaitersInv /\ ReadersInv /\ LinksInv /\ BoundsInv
        /\ ClosedInv /\ [Next]_vars => ClosedInv'
  BY ClosedNext
<1>2. Inv /\ Counted /\ [Next]_vars => Counted'
  BY CountedNext
<1>3. Init => Counted /\ ClosedInv
  BY InitCounted, InitClosed
<1> QED BY <1>1, <1>2, <1>3, ReadersInvariance, WaitersInvariance, BoundsInvariance, PTL
        DEF Spec

(* get, park, replay, settle: nothing is left out.  A finished summary     *)
(* that is not marked cut holds all that its context's calls give, and has *)
(* an edge for each of them, whatever joined its group or was restarted.   *)
THEOREM NothingLeftOut ==
  ASSUME Reuse
  PROVE  Spec /\ []RoundsSuffice => []ReadyIsClosed
<1>1. ClosedInv => ReadyIsClosed
  BY DEF ClosedInv
<1> QED BY <1>1, ClosedInvariance, PTL

=============================================================================
