----------------------- MODULE CallSolverWaiters_proofs ------------------------
(***************************************************************************)
(* The proof that no waiting context of CallSolver is lost or left without *)
(* a head that will resolve it, for every program and every limit.         *)
(***************************************************************************)
EXTENDS CallSolverWaiters, CallSolver_proofs

-----------------------------------------------------------------------------
(* Sequences without duplicates.                                           *)

(* Two disjoint sequences without duplicates make one without duplicates.  *)
LEMMA ConcatInjective ==
  ASSUME NEW T, NEW s \in Seq(T), NEW t \in Seq(T), IsInjective(s), IsInjective(t),
         Range(s) \cap Range(t) = {}
  PROVE  IsInjective(s \o t)
<1> DEFINE u == s \o t
<1>1. /\ DOMAIN s = 1..Len(s) /\ DOMAIN t = 1..Len(t) /\ DOMAIN u = 1..(Len(s) + Len(t))
      /\ Len(s) \in Nat /\ Len(t) \in Nat
      /\ \A i \in 1..Len(s) : u[i] = s[i]
      /\ \A i \in (Len(s) + 1)..(Len(s) + Len(t)) : u[i] = t[i - Len(s)]
  OBVIOUS
<1>2. /\ \A i \in 1..Len(s) : s[i] \in Range(s)
      /\ \A i \in 1..Len(t) : t[i] \in Range(t)
  BY <1>1 DEF Range
<1> HIDE DEF u
<1>3. ASSUME NEW i \in DOMAIN u, NEW j \in DOMAIN u, u[i] = u[j]
      PROVE  i = j
  <2>1. CASE i <= Len(s) /\ j <= Len(s)
    <3>1. i \in 1..Len(s) /\ j \in 1..Len(s)
      BY <1>1, <2>1
    <3> QED BY <1>1, <1>3, <3>1 DEF IsInjective
  <2>2. CASE i > Len(s) /\ j > Len(s)
    <3>1. i - Len(s) \in 1..Len(t) /\ j - Len(s) \in 1..Len(t) /\ i \in Int /\ j \in Int
      BY <1>1, <2>2
    <3>2. t[i - Len(s)] = t[j - Len(s)]
      <4>1. i \in (Len(s) + 1)..(Len(s) + Len(t)) /\ j \in (Len(s) + 1)..(Len(s) + Len(t))
        BY <1>1, <2>2
      <4>2. u[i] = t[i - Len(s)] /\ u[j] = t[j - Len(s)]
        BY <1>1, <4>1
      <4> QED BY <1>3, <4>2
    <3>3. i - Len(s) = j - Len(s)
      BY <1>1, <3>1, <3>2 DEF IsInjective
    <3> QED BY <1>1, <3>1, <3>3
  <2>3. CASE i <= Len(s) /\ j > Len(s)
    <3>1. i \in 1..Len(s) /\ j - Len(s) \in 1..Len(t)
      BY <1>1, <2>3
    <3>2. s[i] = t[j - Len(s)]
      BY <1>1, <1>3, <2>3
    <3> QED BY <1>2, <3>1, <3>2
  <2>4. CASE i > Len(s) /\ j <= Len(s)
    <3>1. j \in 1..Len(s) /\ i - Len(s) \in 1..Len(t)
      BY <1>1, <2>4
    <3>2. s[j] = t[i - Len(s)]
      BY <1>1, <1>3, <2>4
    <3> QED BY <1>2, <3>1, <3>2
  <2> QED BY <1>1, <2>1, <2>2, <2>3, <2>4
<1>4. IsInjective(u)
  BY <1>3 DEF IsInjective
<1> QED BY <1>4 DEF u

-----------------------------------------------------------------------------
(* Where the frames and the fixpoints stand.                               *)

(* No frame stands above the solver's stack, and every one below the top   *)
(* stands at the top's base at most.                                       *)
LEMMA FrameBases ==
  ASSUME NEW cs \in Seq(Frame), NEW stk \in Seq(Ctx), NEW fx, FramesFit(cs, stk, fx)
  PROVE  /\ \A i \in DOMAIN cs : cs[i].base \in Nat /\ cs[i].base <= Len(stk)
         /\ \A i \in DOMAIN cs : i < Len(cs) => cs[i].base <= cs[Len(cs)].base
<1>1. cs # <<>> /\ DOMAIN cs = 1..Len(cs) /\ Len(cs) \in 1..Len(cs) /\ Len(stk) \in Nat
  BY SeqType DEF FramesFit
<1>2. \A i \in DOMAIN cs : /\ Height(cs[i]) \in Nat /\ cs[i].base \in Nat
                           /\ cs[i].base <= Height(cs[i])
  BY <1>1, SeqType, HeightType, FrameType
<1>3. ASSUME NEW i \in DOMAIN cs, i < Len(cs) PROVE cs[i].base <= cs[Len(cs)].base
  <2>1. Height(cs[i]) <= cs[Len(cs)].base
    BY <1>1, <1>3 DEF FramesFit
  <2> QED BY <1>1, <1>2, <2>1
<1>4. cs[Len(cs)].base <= Len(stk)
  BY <1>1, <1>2 DEF FramesFit
<1>5. ASSUME NEW i \in DOMAIN cs PROVE cs[i].base <= Len(stk)
  <2>1. CASE i = Len(cs)
    BY <1>4, <2>1
  <2>2. CASE i < Len(cs)
    BY <1>1, <1>2, <1>3, <1>4, <2>2
  <2> QED BY <1>1, <2>1, <2>2
<1> QED BY <1>2, <1>3, <1>5

(* A fixpoint in progress is that of a frame below.                        *)
LEMMA FixpointFrame ==
  ASSUME NEW cs, NEW n, NEW fx, FixpointAt(cs, n, fx), fx # None
  PROVE  \E i \in 1..n : cs[i].kind = "resolve" /\ cs[i].base = fx.base /\ cs[i].head = fx.head
  BY DEF FixpointAt

(* Where the reader is a walk, no fixpoint stands on the walk it belongs   *)
(* to.                                                                     *)
LEMMA ReaderBases ==
  ASSUME NEW cs \in Seq(Frame), NEW stk \in Seq(Ctx), NEW fx, FramesFit(cs, stk, fx),
         ~ReaderIsFixpoint(fx, stk),
         NEW i \in DOMAIN cs, cs[i].kind = "resolve"
  PROVE  cs[i].base < Len(stk)
<1>1. PICK n \in Nat : n = Len(cs) /\ DOMAIN cs = 1..n /\ n \in 1..n /\ i \in 1..n
  BY SeqType DEF FramesFit
<1>2. /\ cs[n] \in Frame /\ cs[i] \in Frame /\ Len(stk) \in Nat
      /\ cs[i].base \in Nat /\ cs[n].base \in Nat
  BY <1>1, SeqType, FrameType
<1>3. Len(stk) = Height(cs[n]) /\ FixpointAt(cs, n, fx)
  BY <1>1 DEF FramesFit
<1>4. cs[n].kind # "resolve"
  <2> SUFFICES ASSUME cs[n].kind = "resolve" PROVE FALSE
    OBVIOUS
  <2>1. fx # None /\ fx.base = cs[n].base
    BY <1>1, <1>3 DEF FixpointAt
  <2>2. Len(stk) = cs[n].base
    BY <1>2, <1>3, HeightType
  <2> QED BY <2>1, <2>2 DEF ReaderIsFixpoint
<1>5. i < n
  BY <1>1, <1>4
<1>6. cs[n].kind = "walk"
  <2>1. i = 1 => cs[i].kind = "solve"
    BY <1>1 DEF FramesFit
  <2>2. cs[n].kind = "solve" => n = 1
    BY <1>1 DEF FramesFit
  <2> QED BY <1>1, <1>2, <1>4, <1>5, <2>1, <2>2, FrameType
<1>7. Len(stk) = cs[n].base + 1
  BY <1>2, <1>3, <1>6, HeightType
<1>8. cs[i].base <= cs[n].base
  BY <1>1, <1>5, FrameBases
<1> QED BY <1>2, <1>7, <1>8

-----------------------------------------------------------------------------
(* Frames that keep what the waiting contexts depend on.                   *)

(* The fixpoints of the two call stacks are the same, but for the members. *)
SameLinks(a, b) ==
    /\ b.kind = a.kind /\ b.base = a.base
    /\ a.kind = "resolve" => b.head = a.head /\ b.outer = a.outer

(* Frames of one shape have the same links.                                *)
LEMMA ShapeLinks ==
  ASSUME NEW a, NEW b, SameShape(a, b)
  PROVE  SameLinks(a, b)
  BY DEF SameShape, SameLinks

(* ds starts with the fixpoints of cs.                                     *)
LEMMA LinksKeepHeads ==
  ASSUME NEW cs, NEW ds, NEW n \in Nat, \A i \in 1..n : SameLinks(cs[i], ds[i]),
         NEW h, HeadAmong(cs, n, h)
  PROVE  \A m \in Nat : m >= n => HeadAmong(ds, m, h)
<1> SUFFICES ASSUME NEW m \in Nat, m >= n PROVE HeadAmong(ds, m, h)
  OBVIOUS
<1>1. PICK i \in 1..n : cs[i].kind = "resolve" /\ cs[i].head = h
  BY DEF HeadAmong
<1>2. i \in 1..m /\ ds[i].kind = "resolve" /\ ds[i].head = h
  BY <1>1 DEF SameLinks
<1> QED BY <1>2 DEF HeadAmong

(* Whoever joins a group among the first n frames still does.              *)
LEMMA LinksKeepJoins ==
  ASSUME NEW cs, NEW ds, NEW n \in Nat, \A i \in 1..n : SameLinks(cs[i], ds[i]),
         NEW fx, FixpointJoins(cs, n, fx)
  PROVE  \A m \in Nat : m >= n => FixpointJoins(ds, m, fx)
  BY LinksKeepHeads DEF FixpointJoins

(* JoinsFit, HeadAmong and Told depend on the links of the frames only.    *)
LEMMA SameLinksFit ==
  ASSUME NEW cs \in Seq(Frame), NEW ds \in Seq(Frame), Len(ds) = Len(cs),
         \A i \in 1..Len(cs) : SameLinks(cs[i], ds[i]),
         NEW stk, NEW rd, NEW fx
  PROVE  /\ JoinsFit(cs, stk, rd, fx) => JoinsFit(ds, stk, rd, fx)
         /\ \A h : HeadAmong(cs, Len(cs), h) => HeadAmong(ds, Len(ds), h)
         /\ \A k : Told(cs, stk, rd, fx, k) => Told(ds, stk, rd, fx, k)
<1>1. PICK n \in Nat : n = Len(cs) /\ n = Len(ds) /\ DOMAIN cs = 1..n /\ DOMAIN ds = 1..n
  BY SeqType
<1>2. \A i \in 1..n : SameLinks(cs[i], ds[i])
  BY <1>1
<1>3. ASSUME NEW h, HeadAmong(cs, n, h) PROVE HeadAmong(ds, n, h)
  BY <1>2, <1>3, LinksKeepHeads
<1>4. ASSUME NEW k, Told(cs, stk, rd, fx, k) PROVE Told(ds, stk, rd, fx, k)
  BY <1>1, <1>2, <1>4 DEF Told, SameLinks
<1>5. ASSUME JoinsFit(cs, stk, rd, fx) PROVE JoinsFit(ds, stk, rd, fx)
  <2>1. FixpointJoins(ds, n, fx)
    BY <1>1, <1>2, <1>5, LinksKeepJoins DEF JoinsFit
  <2>2. ASSUME NEW i \in 1..n, ds[i].kind = "resolve"
        PROVE  FixpointJoins(ds, i - 1, ds[i].outer)
    <3>1. cs[i].kind = "resolve" /\ ds[i].outer = cs[i].outer
      BY <1>2, <2>2 DEF SameLinks
    <3>2. FixpointJoins(cs, i - 1, cs[i].outer)
      BY <1>1, <1>5, <3>1 DEF JoinsFit
    <3>3. i - 1 \in Nat /\ \A j \in 1..(i - 1) : SameLinks(cs[j], ds[j])
      BY <1>2
    <3> QED BY <3>1, <3>2, <3>3, LinksKeepJoins
  <2>3. ASSUME NEW i \in DOMAIN stk PROVE WalkJoins(ds, i, rd[stk[i]])
    <3>1. WalkJoins(cs, i, rd[stk[i]])
      BY <1>5 DEF JoinsFit
    <3> QED BY <1>1, <1>2, <3>1 DEF WalkJoins, SameLinks
  <2> QED BY <1>1, <2>1, <2>2, <2>3 DEF JoinsFit
<1> QED BY <1>1, <1>3, <1>4, <1>5

(* What waits is held as before when frames keep their shape.              *)
LEMMA SameListsFit ==
  ASSUME NEW cs \in Seq(Frame), NEW ds \in Seq(Frame), Len(ds) = Len(cs),
         \A i \in 1..Len(cs) : SameShape(cs[i], ds[i]),
         NEW st, NEW ps, ListsFit(st, ps, cs)
  PROVE  ListsFit(st, ps, ds)
<1>1. PICK n \in Nat : n = Len(cs) /\ DOMAIN cs = 1..n /\ DOMAIN ds = 1..n
  BY SeqType
<1>2. \A i \in 1..n : cs[i].kind = "resolve" <=> ds[i].kind = "resolve"
  BY <1>1 DEF SameShape
<1>3. \A i \in 1..n : cs[i].kind = "resolve" => ds[i].members = cs[i].members
  BY <1>1 DEF SameShape
<1>4. \A i \in 1..n : ds[i].kind = "resolve" => IsInjective(ds[i].members)
  BY <1>1, <1>2, <1>3 DEF ListsFit
<1>5. \A c \in Ctx : st[c] = "Resolving" =>
          \E i \in 1..n : ds[i].kind = "resolve" /\ c \in Range(ds[i].members)
  BY <1>1, <1>2, <1>3 DEF ListsFit
<1> QED BY <1>1, <1>4, <1>5 DEF ListsFit

-----------------------------------------------------------------------------
(* An answer.                                                              *)

(* A replayed operation that was answered is over, or its call goes on: it *)
(* is never the start of a member's replay.                                *)
LEMMA AnsweredReplay ==
  ASSUME NEW fr \in ResolveFrame, Waits(fr), NEW got \in (SUBSET V) \cup {None}
  PROVE  /\ Answered(fr, got).at = fr.at /\ Answered(fr, got).members = fr.members
         /\ Answered(fr, got).kind = "resolve"
         /\ ~(Answered(fr, got).pc = 1 /\ Answered(fr, got).site = None)
<1>1. fr.kind = "resolve" /\ fr.pc \in Nat \ {0} /\ fr.site \in SiteCall \cup {None}
  BY ResolveFrameType
<1>2. CASE InSite(fr)
  <2> DEFINE S == IF fr.site.arg = {} \/ got = None THEN {} ELSE got
             v == [known |-> S, pending |-> {}]
  <2>1. fr.site \in SiteCall /\ fr.site.todo # {}
    BY <1>1, <1>2 DEF InSite, Waits
  <2>2. v \in Value
    BY DEF Value
  <2>3. CallAnswered(fr, got) = [fr EXCEPT !.site = SiteAnswered(@, v)]
    BY <1>1 DEF CallAnswered
  <2> HIDE DEF v
  <2>4. SiteAnswered(fr.site, v) \in SiteCall
    BY <2>1, <2>2, SiteAnsweredType
  <2>5. SiteAnswered(fr.site, v) # None
    BY <2>4, NoneAssumption
  <2>6. Answered(fr, got) = [fr EXCEPT !.site = SiteAnswered(fr.site, v)]
    BY <1>1, <1>2, <2>3 DEF Answered, ResolveFrame
  <2> QED BY <2>5, <2>6 DEF ResolveFrame
<1>3. CASE ~InSite(fr)
  <2>1. PICK w : Answered(fr, got) = OpDone(fr, w)
    BY <1>1, <1>3 DEF Answered
  <2>2. PICK now : OpDone(fr, w) = [fr EXCEPT !.now = now, !.pc = fr.pc + 1, !.site = None]
    BY DEF OpDone, ResolveFrame
  <2>3. fr.pc + 1 # 1
    BY <1>1
  <2> QED BY <2>1, <2>2, <2>3 DEF ResolveFrame
<1> QED BY <1>2, <1>3

(* What a reader was told is never forgotten when it is told more.         *)
LEMMA ReadsToldKeeps ==
  ASSUME NEW rd \in [Ctx -> Note], NEW fx, NEW stk \in Seq(Ctx), NEW n \in Note, NEW c \in Ctx
  PROVE  LET rt == ReadsTold(rd, fx, stk, n) IN
         /\ rt[c].lowest \in Nat /\ rt[c].lowest <= rd[c].lowest
         /\ stk # <<>> /\ ~ReaderIsFixpoint(fx, stk) /\ c = stk[Len(stk)] => rt[c] = Noted(rd[c], n)
         /\ ~(stk # <<>> /\ ~ReaderIsFixpoint(fx, stk) /\ c = stk[Len(stk)]) => rt[c] = rd[c]
<1>1. rd[c] \in Note /\ rd[c].lowest \in Nat /\ n.lowest \in Nat
  BY DEF Note
<1>2. Noted(rd[c], n).lowest \in Nat /\ Noted(rd[c], n).lowest <= rd[c].lowest
  BY <1>1 DEF Noted
<1>3. CASE stk # <<>> /\ ~ReaderIsFixpoint(fx, stk)
  <2>1. stk[Len(stk)] \in Ctx
    BY <1>3, SeqType
  <2> QED BY <1>1, <1>2, <1>3, <2>1 DEF ReadsTold
<1>4. CASE ~(stk # <<>> /\ ~ReaderIsFixpoint(fx, stk))
  BY <1>1, <1>4 DEF ReadsTold
<1> QED BY <1>3, <1>4

(* The fixpoint, when it is told.                                          *)
LEMMA FixpointToldKeeps ==
  ASSUME NEW fx \in Fixpoint \cup {None}, NEW stk \in Seq(Ctx), NEW n \in Note
  PROVE  LET ft == FixpointTold(fx, stk, n) IN
         /\ ~ReaderIsFixpoint(fx, stk) => ft = fx
         /\ ReaderIsFixpoint(fx, stk) =>
               /\ fx \in Fixpoint /\ ft # None /\ ft.base = Len(stk)
               /\ ft.head = fx.head /\ ft.read = Noted(fx.read, n)
         /\ \A k \in Nat : FixpointTells(fx, k) => FixpointTells(ft, k)
<1>1. CASE ReaderIsFixpoint(fx, stk)
  <2>1. fx \in Fixpoint /\ fx.base = Len(stk)
    BY <1>1 DEF ReaderIsFixpoint
  <2>2. fx.read \in Note /\ fx.read.lowest \in Nat /\ n.lowest \in Nat /\ fx.base \in Nat
    BY <2>1 DEF Fixpoint, Note
  <2>3. Noted(fx.read, n).lowest \in Nat /\ Noted(fx.read, n).lowest <= fx.read.lowest
    BY <2>2 DEF Noted
  <2>4. Noted(fx.read, n) \in Note
    BY <2>2, NotedType
  <2> DEFINE ft == [fx EXCEPT !.read = Noted(fx.read, n)]
  <2>5. FixpointTold(fx, stk, n) = ft
    BY <1>1, <2>1 DEF FixpointTold, Fixpoint
  <2>6. /\ ft \in Fixpoint /\ ft.base = fx.base /\ ft.head = fx.head
        /\ ft.read = Noted(fx.read, n)
    BY <2>1, <2>4 DEF Fixpoint
  <2> HIDE DEF ft
  <2>7. ft # None
    BY <2>6, NoneAssumption
  <2>8. ASSUME NEW k \in Nat, FixpointTells(fx, k) PROVE FixpointTells(ft, k)
    <3>1. k < ft.base /\ fx.read.lowest <= k
      BY <2>6, <2>8 DEF FixpointTells
    <3>2. ft.read.lowest <= k
      <4>1. ft.read.lowest \in {fx.read.lowest, n.lowest}
        BY <2>6 DEF Noted
      <4>2. ft.read.lowest = fx.read.lowest \/ (ft.read.lowest = n.lowest /\ n.lowest < fx.read.lowest)
        BY <2>6 DEF Noted
      <4> QED BY <3>1, <4>2, <2>2
    <3> QED BY <2>7, <3>1, <3>2 DEF FixpointTells
  <2> QED BY <1>1, <2>1, <2>5, <2>6, <2>7, <2>8
<1>2. CASE ~ReaderIsFixpoint(fx, stk)
  BY <1>2 DEF FixpointTold
<1> QED BY <1>1, <1>2

(* A reader is told of a walk below it: whoever was told of that walk, or  *)
(* of one further down, still is, and now the reader is too.               *)
LEMMA ToldByReader ==
  ASSUME NEW cs, NEW rd \in [Ctx -> Note], NEW stk \in Seq(Ctx),
         NEW fx \in Fixpoint \cup {None}, NEW n \in Note, NEW k \in Nat
  PROVE  LET rt == ReadsTold(rd, fx, stk, n)
             ft == FixpointTold(fx, stk, n) IN
         /\ Told(cs, stk, rd, fx, k) => Told(cs, stk, rt, ft, k)
         /\ n.lowest <= k /\ k < Len(stk) => Told(cs, stk, rt, ft, k)
<1> DEFINE rt == ReadsTold(rd, fx, stk, n)
           ft == FixpointTold(fx, stk, n)
<1>1. \A c \in Ctx : rt[c].lowest \in Nat /\ rt[c].lowest <= rd[c].lowest
  BY ReadsToldKeeps
<1>2. FixpointTells(fx, k) => FixpointTells(ft, k)
  BY FixpointToldKeeps
<1>3. DOMAIN stk = 1..Len(stk) /\ \A i \in 1..Len(stk) : stk[i] \in Ctx
  BY SeqType
<1>4. \A c \in Ctx : rd[c].lowest \in Nat
  BY DEF Note
<1>5. ASSUME n.lowest <= k, k < Len(stk) PROVE Told(cs, stk, rt, ft, k)
  <2>1. stk # <<>> /\ Len(stk) \in Nat /\ Len(stk) \in DOMAIN stk /\ n.lowest \in Nat
    BY <1>5, SeqType DEF Note
  <2>2. CASE ReaderIsFixpoint(fx, stk)
    <3>1. ft # None /\ ft.base = Len(stk) /\ ft.read = Noted(fx.read, n) /\ fx.read \in Note
      BY <2>2, FixpointToldKeeps DEF Fixpoint
    <3>2. ft.read.lowest <= k
      BY <1>5, <2>1, <3>1 DEF Noted, Note
    <3> QED BY <1>5, <3>1, <3>2 DEF Told, FixpointTells
  <2>3. CASE ~ReaderIsFixpoint(fx, stk)
    <3> DEFINE top == stk[Len(stk)]
    <3>1. top \in Ctx /\ rt[top] = Noted(rd[top], n) /\ rd[top] \in Note
      BY <1>3, <2>1, <2>3, ReadsToldKeeps
    <3>2. rt[top].lowest <= k
      BY <1>5, <2>1, <3>1 DEF Noted, Note
    <3> QED BY <1>5, <2>1, <3>2 DEF Told
  <2> QED BY <2>2, <2>3
<1> HIDE DEF rt, ft
<1>6. ASSUME Told(cs, stk, rd, fx, k) PROVE Told(cs, stk, rt, ft, k)
  <2>1. CASE \E i \in DOMAIN stk : k < i /\ rd[stk[i]].lowest <= k
    <3>1. PICK i \in DOMAIN stk : k < i /\ rd[stk[i]].lowest <= k
      BY <2>1
    <3>2. rt[stk[i]].lowest <= k
      BY <1>1, <1>3, <1>4, <3>1
    <3> QED BY <3>1, <3>2 DEF Told
  <2>2. CASE FixpointTells(fx, k)
    BY <1>2, <2>2 DEF Told
  <2>3. CASE \E i \in DOMAIN cs : cs[i].kind = "resolve" /\ FixpointTells(cs[i].outer, k)
    BY <2>3 DEF Told
  <2> QED BY <1>6, <2>1, <2>2, <2>3 DEF Told
<1> QED BY <1>5, <1>6 DEF rt, ft

(* What a reader may be told of a group to join: a fixpoint in progress    *)
(* below it, and not its own if it has nothing further down to wait for.   *)
NoteJoins(cs, stk, fx, n) ==
    n.joins # None =>
        /\ HeadAmong(cs, Len(cs), n.joins)
        /\ ReaderIsFixpoint(fx, stk) /\ n.lowest = NoDepth => n.joins # fx.head

(* Whoever joins a group, once the reader was told n, still joins one that *)
(* is resolved below it.                                                   *)
LEMMA JoinsByReader ==
  ASSUME NEW cs \in Seq(Frame), NEW stk \in Seq(Ctx), NEW fx \in Fixpoint \cup {None},
         FramesFit(cs, stk, fx), IsInjective(stk), Len(stk) <= NoDepth,
         NEW rd \in [Ctx -> Note], JoinsFit(cs, stk, rd, fx),
         NEW n, NoteAt(n, Len(stk)), NoteJoins(cs, stk, fx, n)
  PROVE  JoinsFit(cs, stk, ReadsTold(rd, fx, stk, n), FixpointTold(fx, stk, n))
<1> DEFINE rt == ReadsTold(rd, fx, stk, n)
           ft == FixpointTold(fx, stk, n)
<1>0. n \in Note /\ n.lowest \in Nat /\ NoDepth \in Nat /\ Len(stk) \in Nat /\ n.lowest <= NoDepth
  BY LimitAssumption, SeqType DEF NoteAt, Note, NoDepth
<1>1. FixpointJoins(cs, Len(cs), ft)
  <2>1. CASE ReaderIsFixpoint(fx, stk)
    <3>1. /\ fx \in Fixpoint /\ ft # None /\ fx # None
          /\ ft.head = fx.head /\ ft.read = Noted(fx.read, n) /\ fx.read \in Note
      BY <1>0, <2>1, FixpointToldKeeps, NoneAssumption DEF Fixpoint
    <3>2. FixpointJoins(cs, Len(cs), fx)
      BY DEF JoinsFit
    <3>3. \/ ft.read.joins = None
          \/ ft.read.joins = fx.read.joins /\ fx.read.joins # None
          \/ ft.read.joins = n.joins /\ n.joins # None
      BY <3>1 DEF Noted
    <3>4. fx.read.lowest = NoDepth \/ fx.read.lowest < Len(stk)
      <4>1. FixpointAt(cs, Len(cs), fx)
        BY DEF FramesFit
      <4> QED BY <2>1, <3>1, <4>1 DEF FixpointAt, ReaderIsFixpoint
    <3>5. ft.read.lowest = NoDepth => fx.read.lowest = NoDepth /\ n.lowest = NoDepth
      <4>1. fx.read.lowest \in Nat /\ fx.read.lowest <= NoDepth
        BY <1>0, <3>1, <3>4 DEF Note
      <4> QED BY <1>0, <3>1, <4>1 DEF Noted
    <3>6. CASE ft.read.joins = fx.read.joins /\ fx.read.joins # None
      BY <3>1, <3>2, <3>5, <3>6 DEF FixpointJoins
    <3>7. CASE ft.read.joins = n.joins /\ n.joins # None
      BY <2>1, <3>1, <3>5, <3>7 DEF FixpointJoins, NoteJoins
    <3> QED BY <3>3, <3>6, <3>7 DEF FixpointJoins
  <2>2. CASE ~ReaderIsFixpoint(fx, stk)
    BY <1>0, <2>2, FixpointToldKeeps DEF JoinsFit
  <2> QED BY <2>1, <2>2
<1>2. ASSUME NEW i \in DOMAIN stk PROVE WalkJoins(cs, i, rt[stk[i]])
  <2>0. WalkJoins(cs, i, rd[stk[i]]) /\ i \in 1..Len(stk) /\ stk[i] \in Ctx
    BY SeqType DEF JoinsFit
  <2>1. CASE stk # <<>> /\ ~ReaderIsFixpoint(fx, stk) /\ stk[i] = stk[Len(stk)]
    <3>1. i = Len(stk)
      BY <2>0, <2>1, SeqType DEF IsInjective
    <3>2. rt[stk[i]] = Noted(rd[stk[i]], n)
      BY <1>0, <2>0, <2>1, ReadsToldKeeps
    <3>3. CASE rd[stk[i]].joins = None
      <4>1. rt[stk[i]].joins = n.joins
        BY <3>2, <3>3 DEF Noted
      <4>2. ASSUME n.joins # None
            PROVE  \E j \in DOMAIN cs : cs[j].kind = "resolve" /\ cs[j].head = n.joins /\ cs[j].base < i
        <5>1. PICK j \in 1..Len(cs) : cs[j].kind = "resolve" /\ cs[j].head = n.joins
          BY <4>2 DEF NoteJoins, HeadAmong
        <5>2. j \in DOMAIN cs
          BY SeqType
        <5>3. cs[j].base < Len(stk)
          BY <2>1, <5>1, <5>2, ReaderBases
        <5> QED BY <3>1, <5>1, <5>2, <5>3
      <4> QED BY <4>1, <4>2 DEF WalkJoins
    <3>4. CASE rd[stk[i]].joins # None
      <4>1. rt[stk[i]].joins = rd[stk[i]].joins
        BY <3>2, <3>4 DEF Noted
      <4> QED BY <2>0, <4>1 DEF WalkJoins
    <3> QED BY <3>3, <3>4
  <2>2. CASE ~(stk # <<>> /\ ~ReaderIsFixpoint(fx, stk) /\ stk[i] = stk[Len(stk)])
    <3>1. PICK c \in Ctx : c = stk[i]
      BY <2>0
    <3>2. ~(stk # <<>> /\ ~ReaderIsFixpoint(fx, stk) /\ c = stk[Len(stk)])
      BY <2>2, <3>1
    <3>3. rt[c] = rd[c]
      BY ZenonT(30), <1>0, <3>2, ReadsToldKeeps
    <3> QED BY <2>0, <3>1, <3>3
  <2> QED BY <2>1, <2>2
<1> HIDE DEF rt, ft
<1>3. JoinsFit(cs, stk, rt, ft)
  BY <1>1, <1>2 DEF JoinsFit
<1> QED BY <1>3 DEF rt, ft

(* Every fixpoint of cs still has a member to replay.                      *)
Replayable(cs) ==
    \A i \in DOMAIN cs : cs[i].kind = "resolve" => cs[i].at <= Len(cs[i].members)

(* What waits has its head, or the reader is being told of it.             *)
HeadsNoted(st, hs, cs, stk, rd, fx, n) ==
    \A c \in Ctx : st[c] \in Waiting =>
        \/ HeadAmong(cs, Len(cs), hs[c])
        \/ \E i \in DOMAIN stk : /\ stk[i] = hs[c]
                                 /\ Told(cs, stk, rd, fx, i - 1) \/ n.lowest <= i - 1

(* An answer keeps WaitersInv, when what the reader is told covers what    *)
(* the frames that left were told.                                         *)
LEMMA WaitersAfterReturn ==
  ASSUME NEW cs \in Seq(Frame), NEW stk \in Seq(Ctx), NEW fx \in Fixpoint \cup {None},
         FramesFit(cs, stk, fx), CallersWait(cs), Waits(cs[Len(cs)]),
         IsInjective(stk), Len(stk) <= NoDepth,
         NEW rd \in [Ctx -> Note], NEW n, NoteAt(n, Len(stk)),
         NEW got \in (SUBSET V) \cup {None},
         Return(cs, rd, fx, stk, n, got), stack' = stk,
         cs[1].base = 0, ListsFit(state', parked', cs), Replayable(cs),
         JoinsFit(cs, stk, rd, fx), NoteJoins(cs, stk, fx, n),
         HeadsNoted(state', heads', cs, stk, rd, fx, n)
  PROVE  WaitersInv'
<1>1. /\ ctl' \in Seq(Frame) /\ Len(ctl') = Len(cs)
      /\ \A i \in 1..Len(cs) : SameShape(cs[i], ctl'[i])
  BY ReturnType
<1>2. PICK m \in Nat : /\ m = Len(cs) /\ m >= 1 /\ DOMAIN cs = 1..m /\ DOMAIN ctl' = 1..m
                       /\ m = Len(ctl') /\ m \in 1..m /\ 1 \in 1..m
  BY <1>1, SeqType DEF FramesFit
<1>3. \A i \in 1..m : SameLinks(cs[i], ctl'[i])
  BY <1>1, <1>2, ShapeLinks
<1>4. n \in Note /\ n.lowest \in Nat
  BY DEF NoteAt, Note
<1>5. read' = ReadsTold(rd, fx, stk, n) /\ fixpoint' = FixpointTold(fx, stk, n)
  BY DEF Return
<1>6. PICK fr : fr = Answered(cs[m], got) /\ ctl' = [cs EXCEPT ![m] = fr]
  BY <1>2 DEF Return, Answer
<1>7. ctl'[1].base = 0
  BY <1>1, <1>2 DEF SameShape
<1>8. ListsFit(state', parked', ctl')
  BY <1>1, SameListsFit
<1>9. ASSUME NEW i \in 1..m, ctl'[i].kind = "resolve" PROVE ctl'[i].at <= Len(ctl'[i].members)
  <2>1. CASE i # m
    <3>1. ctl'[i] = cs[i]
      BY <1>2, <1>6, <2>1
    <3> QED BY <1>2, <1>9, <3>1 DEF Replayable
  <2>2. CASE i = m
    <3>1. cs[m].kind = "resolve" /\ cs[m] \in Frame
      BY <1>1, <1>2, <1>9, <2>2, SeqType DEF SameShape
    <3>2. cs[m] \in ResolveFrame
      BY <3>1, FrameType
    <3>3. fr.at = cs[m].at /\ fr.members = cs[m].members
      BY <1>2, <1>6, <3>2, AnsweredReplay
    <3>4. ctl'[m] = fr
      BY <1>2, <1>6
    <3> QED BY <1>2, <2>2, <3>1, <3>3, <3>4 DEF Replayable
  <2> QED BY <2>1, <2>2
<1>10. ~(ctl'[m].kind = "resolve" /\ ctl'[m].pc = 1 /\ ctl'[m].site = None)
  <2> SUFFICES ASSUME ctl'[m].kind = "resolve" PROVE ~(ctl'[m].pc = 1 /\ ctl'[m].site = None)
    OBVIOUS
  <2>1. cs[m].kind = "resolve" /\ cs[m] \in Frame
    BY <1>1, <1>2, SeqType DEF SameShape
  <2>2. cs[m] \in ResolveFrame
    BY <2>1, FrameType
  <2>3. ~(fr.pc = 1 /\ fr.site = None)
    BY <1>2, <1>6, <2>2, AnsweredReplay
  <2>4. ctl'[m] = fr
    BY <1>2, <1>6
  <2> QED BY <2>3, <2>4
<1>11. ReplaysFit(ctl', fixpoint')
  <2>1. ASSUME NEW i \in 1..m, ctl'[i].kind = "resolve" PROVE ~(ctl'[i].at > Len(ctl'[i].members))
    <3>1. ctl'[i] \in ResolveFrame
      BY <1>1, <1>2, <2>1, SeqType, FrameType
    <3>2. ctl'[i].at \in Nat /\ Len(ctl'[i].members) \in Nat
      BY <3>1, ResolveFrameType, SeqType
    <3> QED BY <1>9, <2>1, <3>2
  <2> QED BY <1>2, <1>10, <2>1 DEF ReplaysFit
<1>12. JoinsFit(cs, stk, read', fixpoint')
  BY <1>5, JoinsByReader
<1>13. JoinsFit(ctl', stk, read', fixpoint')
  BY <1>1, <1>2, <1>3, <1>12, SameLinksFit
<1>14. HeadsFit(state', heads', ctl', stk, read', fixpoint')
  <2> SUFFICES ASSUME NEW c \in Ctx, state'[c] \in Waiting
               PROVE  Headed(ctl', stk, read', fixpoint', heads'[c])
    BY DEF HeadsFit
  <2>1. CASE HeadAmong(cs, Len(cs), heads'[c])
    <3>1. HeadAmong(ctl', Len(ctl'), heads'[c])
      BY <1>1, <1>2, <1>3, <2>1, SameLinksFit
    <3> QED BY <3>1 DEF Headed
  <2>2. CASE ~HeadAmong(cs, Len(cs), heads'[c])
    <3>1. PICK i \in DOMAIN stk : /\ stk[i] = heads'[c]
                                  /\ Told(cs, stk, rd, fx, i - 1) \/ n.lowest <= i - 1
      BY <2>2 DEF HeadsNoted
    <3>2. PICK k \in Nat : k = i - 1 /\ k < Len(stk)
      BY SeqType
    <3>3. Told(cs, stk, rd, fx, k) \/ n.lowest <= k
      BY <3>1, <3>2
    <3>4. Told(cs, stk, read', fixpoint', k)
      BY <1>4, <1>5, <3>2, <3>3, ToldByReader
    <3>5. Told(ctl', stk, read', fixpoint', k)
      BY <1>1, <1>2, <1>3, <3>4, SameLinksFit
    <3> QED BY <3>1, <3>2, <3>5 DEF Headed
  <2> QED BY <2>1, <2>2
<1> QED BY <1>7, <1>8, <1>11, <1>13, <1>14 DEF WaitersInv

(* A step that changes the top frame only, keeping its shape.              *)
LEMMA WaitersAfterTop ==
  ASSUME Inv, WaitersInv, NEW fr \in Frame, SameShape(Top, fr),
         ctl' = [ctl EXCEPT ![Len(ctl)] = fr],
         UNCHANGED <<state, read, heads, parked, stack, fixpoint>>,
         fr.kind = "resolve" /\ fr.at > Len(fr.members) => fr.pc = 1 /\ fr.site = None,
         fr.kind = "resolve" /\ fr.pc = 1 /\ fr.site = None => Quiet(fixpoint.read)
  PROVE  WaitersInv'
<1>1. PICK m \in Nat : m = Len(ctl) /\ m >= 1 /\ DOMAIN ctl = 1..m /\ m \in 1..m /\ 1 \in 1..m
  BY TopFrame, SeqType
<1>2. ctl \in Seq(Frame) /\ ctl # <<>> /\ Top = ctl[m]
  BY <1>1, TopFrame
<1>3. /\ ctl' \in Seq(Frame) /\ Len(ctl') = Len(ctl)
      /\ \A i \in 1..Len(ctl) : SameShape(ctl[i], ctl'[i])
  BY <1>1, <1>2, SetTopFrames
<1>4. \A i \in 1..Len(ctl) : SameLinks(ctl[i], ctl'[i])
  BY <1>3, ShapeLinks
<1>5. DOMAIN ctl' = 1..m /\ ctl'[m] = fr /\ \A i \in 1..m : i # m => ctl'[i] = ctl[i]
  BY <1>1, <1>2, <1>3
<1>6. ctl'[1].base = 0
  BY <1>1, <1>3 DEF SameShape, WaitersInv
<1>7. ListsFit(state', parked', ctl')
  BY <1>2, <1>3, SameListsFit DEF WaitersInv
<1>8. JoinsFit(ctl', stack', read', fixpoint')
  BY <1>2, <1>3, <1>4, SameLinksFit DEF WaitersInv
<1>9. HeadsFit(state', heads', ctl', stack', read', fixpoint')
  <2>1. /\ \A h : HeadAmong(ctl, Len(ctl), h) => HeadAmong(ctl', Len(ctl'), h)
        /\ \A k : Told(ctl, stack, read, fixpoint, k) => Told(ctl', stack, read, fixpoint, k)
    BY <1>2, <1>3, <1>4, SameLinksFit
  <2> QED BY <2>1 DEF WaitersInv, HeadsFit, Headed
<1>10. ReplaysFit(ctl', fixpoint')
  <2>1. ASSUME NEW i \in 1..m, ctl'[i].kind = "resolve", ctl'[i].at > Len(ctl'[i].members)
        PROVE  i = m /\ ctl'[i].pc = 1 /\ ctl'[i].site = None
    <3>1. CASE i = m
      BY <1>5, <2>1, <3>1
    <3>2. CASE i # m
      BY <1>1, <1>5, <2>1, <3>2 DEF WaitersInv, ReplaysFit
    <3> QED BY <3>1, <3>2
  <2> QED BY <1>1, <1>3, <1>5, <2>1 DEF ReplaysFit
<1> QED BY <1>6, <1>7, <1>8, <1>9, <1>10 DEF WaitersInv

-----------------------------------------------------------------------------
(* A frame leaves.                                                         *)

(* What the frames below the top keep of WaitersInv.                       *)
LEMMA BelowKeeps ==
  ASSUME Inv, WaitersInv, Top.kind # "solve"
  PROVE  /\ Below \in Seq(Frame) /\ Len(Below) \in Nat /\ Len(Below) >= 1
         /\ DOMAIN Below = 1..Len(Below) /\ Len(ctl) = Len(Below) + 1
         /\ DOMAIN ctl = 1..(Len(Below) + 1)
         /\ \A i \in 1..Len(Below) : Below[i] = ctl[i]
         /\ ctl[Len(Below) + 1] = Top
         /\ Below[1].base = 0 /\ Replayable(Below)
         /\ \A i \in DOMAIN Below : Below[i].kind = "resolve" =>
               FixpointJoins(Below, i - 1, Below[i].outer)
<1>1. PICK n \in Nat : n = Len(ctl) - 1 /\ n >= 1
  BY TopFrame, HasBelow DEF Top
<1>2. ctl \in Seq(Frame) /\ Len(ctl) = n + 1 /\ DOMAIN ctl = 1..(n + 1) /\ Top = ctl[n + 1]
  BY <1>1, TopFrame, SeqType
<1>3. /\ Below \in Seq(Frame) /\ Len(Below) = n /\ \A i \in 1..n : Below[i] = ctl[i]
  BY <1>1, <1>2, TopFrame, HasBelow DEF Top, Below
<1>4. DOMAIN Below = 1..n /\ 1 \in 1..n
  BY <1>1, <1>3, SeqType
<1>5. Below[1].base = 0
  BY <1>3, <1>4 DEF WaitersInv
<1>6. Replayable(Below)
  <2> SUFFICES ASSUME NEW i \in 1..n, Below[i].kind = "resolve"
               PROVE  Below[i].at <= Len(Below[i].members)
    BY <1>4 DEF Replayable
  <2>1. Below[i] \in ResolveFrame
    BY <1>3, <1>4, FrameType, SeqType
  <2>2. Below[i].at \in Nat /\ Len(Below[i].members) \in Nat
    BY <2>1, ResolveFrameType, SeqType
  <2>3. i \in DOMAIN ctl /\ i # Len(ctl) /\ ctl[i] = Below[i]
    BY <1>2, <1>3
  <2>4. ~(Below[i].at > Len(Below[i].members))
    BY <2>3 DEF WaitersInv, ReplaysFit
  <2> QED BY <2>2, <2>4
<1>7. ASSUME NEW i \in DOMAIN Below, Below[i].kind = "resolve"
      PROVE  FixpointJoins(Below, i - 1, Below[i].outer)
  <2>1. i \in DOMAIN ctl /\ ctl[i] = Below[i] /\ i - 1 \in Nat /\ i - 1 <= n
    BY <1>2, <1>3, <1>4
  <2>2. FixpointJoins(ctl, i - 1, Below[i].outer)
    BY <1>7, <2>1 DEF WaitersInv, JoinsFit
  <2>3. \A j \in 1..(i - 1) : SameLinks(ctl[j], Below[j])
    BY <1>3, <1>4 DEF SameLinks
  <2> QED BY <2>1, <2>2, <2>3, LinksKeepJoins
<1> QED BY <1>1, <1>2, <1>3, <1>4, <1>5, <1>6, <1>7

(* A walk is over: what the frames below it keep of WaitersInv, and whom   *)
(* the contexts wait for whose head, or whose only news of it, was the     *)
(* walk.                                                                   *)
LEMMA WaitersBelowWalk ==
  ASSUME Inv, WaitersInv, WalkOver
  PROVE  /\ \A st, ps : ListsFit(st, ps, ctl) => ListsFit(st, ps, Below)
         /\ \A h : HeadAmong(ctl, Len(ctl), h) => HeadAmong(Below, Len(Below), h)
         /\ JoinsFit(Below, Under, read, fixpoint)
         /\ \A c \in Ctx : state[c] \in Waiting =>
               \/ HeadAmong(Below, Len(Below), heads[c])
               \/ heads[c] = Top.ctx /\ read[Top.ctx].lowest <= Len(Under)
               \/ \E i \in DOMAIN Under :
                     /\ Under[i] = heads[c]
                     /\ \/ Told(Below, Under, read, fixpoint, i - 1)
                        \/ read[Top.ctx].lowest <= i - 1
<1>0. Top.kind = "walk"
  BY DEF WalkOver
<1>1. PICK n \in Nat : n = Len(Below) /\ n >= 1
  BY <1>0, BelowKeeps
<1>2. /\ Below \in Seq(Frame) /\ DOMAIN Below = 1..n /\ Len(ctl) = n + 1 /\ ctl \in Seq(Frame)
      /\ DOMAIN ctl = 1..(n + 1) /\ \A i \in 1..n : Below[i] = ctl[i]
      /\ ctl[n + 1].kind = "walk" /\ ctl[n + 1] = Top
  BY <1>0, <1>1, BelowKeeps, TopFrame
<1>3. PICK u \in Nat : /\ u = Len(Under) /\ DOMAIN Under = 1..u /\ Len(stack) = u + 1
                       /\ DOMAIN stack = 1..(u + 1)
                       /\ \A i \in 1..u : Under[i] = stack[i]
                       /\ stack[u + 1] = Top.ctx /\ Top.base = u
  <2>1. /\ stack \in Seq(Ctx) /\ Len(stack) \in Nat /\ ctl \in Seq(Frame)
        /\ FramesFit(ctl, stack, fixpoint) /\ ctl[Len(ctl)] = Top
    BY TopFrame
  <2>2. /\ stack # <<>> /\ stack[Len(stack)] = Top.ctx /\ Top.base = Len(stack) - 1
        /\ Len(stack) - 1 \in Nat /\ Under \in Seq(Ctx) /\ Len(Under) = Len(stack) - 1
        /\ \A i \in 1..(Len(stack) - 1) : Under[i] = stack[i]
    BY <1>0, <2>1, PopWalk DEF Under
  <2>3. DOMAIN Under = 1..Len(Under) /\ DOMAIN stack = 1..Len(stack)
    BY <2>1, <2>2, SeqType
  <2>4. PICK u \in Nat : u = Len(stack) - 1
    BY <2>2
  <2>5. Len(stack) = u + 1
    BY <2>1, <2>4
  <2> QED BY <2>2, <2>3, <2>4, <2>5
<1>4. ASSUME NEW i \in 1..(n + 1), ctl[i].kind = "resolve" PROVE i \in 1..n
  BY <1>2, <1>4
<1>5. ASSUME NEW st, NEW ps, ListsFit(st, ps, ctl) PROVE ListsFit(st, ps, Below)
  BY <1>2, <1>4, <1>5 DEF ListsFit
<1>6. ASSUME NEW h, HeadAmong(ctl, n + 1, h) PROVE HeadAmong(Below, n, h)
  BY <1>2, <1>4, <1>6 DEF HeadAmong
<1>7. FixpointJoins(Below, n, fixpoint)
  <2>1. FixpointJoins(ctl, n + 1, fixpoint)
    BY <1>2 DEF WaitersInv, JoinsFit
  <2> QED BY <1>6, <2>1 DEF FixpointJoins
<1>8. ASSUME NEW i \in 1..u PROVE WalkJoins(Below, i, read[Under[i]])
  <2>1. WalkJoins(ctl, i, read[Under[i]])
    BY <1>3 DEF WaitersInv, JoinsFit
  <2> QED BY <1>2, <1>4, <2>1 DEF WalkJoins
<1>9. JoinsFit(Below, Under, read, fixpoint)
  BY <1>0, <1>1, <1>3, <1>7, <1>8, BelowKeeps DEF JoinsFit
<1>10. ASSUME NEW k, Told(ctl, stack, read, fixpoint, k)
       PROVE  Told(Below, Under, read, fixpoint, k) \/ (k < u + 1 /\ read[Top.ctx].lowest <= k)
  <2>1. CASE \E i \in DOMAIN stack : k < i /\ read[stack[i]].lowest <= k
    <3>1. PICK i \in 1..(u + 1) : k < i /\ read[stack[i]].lowest <= k
      BY <1>3, <2>1
    <3>2. CASE i = u + 1
      BY <1>3, <3>1, <3>2
    <3>3. CASE i # u + 1
      <4>1. i \in DOMAIN Under /\ Under[i] = stack[i]
        BY <1>3, <3>3
      <4> QED BY <3>1, <4>1 DEF Told
    <3> QED BY <3>2, <3>3
  <2>2. CASE FixpointTells(fixpoint, k)
    BY <2>2 DEF Told
  <2>3. CASE \E i \in DOMAIN ctl : ctl[i].kind = "resolve" /\ FixpointTells(ctl[i].outer, k)
    BY <1>2, <1>4, <2>3 DEF Told
  <2> QED BY <1>10, <2>1, <2>2, <2>3 DEF Told
<1>11. ~Told(Below, Under, read, fixpoint, u)
  <2>1. ASSUME NEW fx, NEW m \in 0..n, FixpointAt(ctl, m, fx) PROVE ~FixpointTells(fx, u)
    <3> SUFFICES ASSUME fx # None, u < fx.base PROVE FALSE
      BY DEF FixpointTells
    <3>1. PICK i \in 1..m : ctl[i].base = fx.base
      BY <2>1, FixpointFrame
    <3>2. i \in DOMAIN ctl /\ i < Len(ctl)
      BY <1>2
    <3>3. ctl[i].base \in Nat /\ ctl[i].base <= u
      BY <1>2, <1>3, <3>2, TopFrame, FrameBases
    <3> QED BY <3>1, <3>3
  <2>2. FixpointAt(ctl, n, fixpoint)
    <3>1. FixpointAt(ctl, n + 1, fixpoint)
      BY <1>2, TopFrame DEF FramesFit
    <3> QED BY <1>2, <3>1, FixpointBelow
  <2>3. ~FixpointTells(fixpoint, u)
    <3>1. n \in 0..n
      OBVIOUS
    <3> QED BY <2>1, <2>2, <3>1
  <2>4. ASSUME NEW i \in DOMAIN Below, Below[i].kind = "resolve"
        PROVE  ~FixpointTells(Below[i].outer, u)
    <3>1. i - 1 \in 0..n /\ i \in DOMAIN ctl /\ ctl[i] = Below[i]
      BY <1>2
    <3>2. PICK m \in 0..n : m = i - 1
      BY <3>1
    <3>3. PICK fo : fo = Below[i].outer /\ FixpointAt(ctl, m, fo)
      BY <2>4, <3>1, <3>2, TopFrame DEF FramesFit
    <3> QED BY <2>1, <3>3
  <2>5. ~(\E i \in DOMAIN Under : u < i /\ read[Under[i]].lowest <= u)
    BY <1>3
  <2> QED BY <2>3, <2>4, <2>5 DEF Told
<1>12. ASSUME NEW c \in Ctx, state[c] \in Waiting
       PROVE  \/ HeadAmong(Below, n, heads[c])
              \/ heads[c] = Top.ctx /\ read[Top.ctx].lowest <= u
              \/ \E i \in DOMAIN Under :
                     /\ Under[i] = heads[c]
                     /\ \/ Told(Below, Under, read, fixpoint, i - 1)
                        \/ read[Top.ctx].lowest <= i - 1
  <2>1. Headed(ctl, stack, read, fixpoint, heads[c])
    BY <1>12 DEF WaitersInv, HeadsFit
  <2>2. CASE HeadAmong(ctl, Len(ctl), heads[c])
    BY <1>2, <1>6, <2>2
  <2>3. CASE ~HeadAmong(ctl, Len(ctl), heads[c])
    <3>1. PICK i \in 1..(u + 1) : stack[i] = heads[c] /\ Told(ctl, stack, read, fixpoint, i - 1)
      BY <1>3, <2>1, <2>3 DEF Headed
    <3>2. PICK k : k = i - 1
      OBVIOUS
    <3>3. Told(Below, Under, read, fixpoint, k) \/ read[Top.ctx].lowest <= k
      BY <1>10, <3>1, <3>2
    <3>4. CASE i = u + 1
      <4>1. k = u /\ heads[c] = Top.ctx
        BY <1>3, <3>1, <3>2, <3>4
      <4> QED BY <1>11, <3>3, <4>1
    <3>5. CASE i # u + 1
      <4>1. i \in DOMAIN Under /\ Under[i] = heads[c]
        BY <1>3, <3>1, <3>5
      <4> QED BY <3>2, <3>3, <4>1
    <3> QED BY <3>4, <3>5
  <2> QED BY <2>2, <2>3
<1> QED BY <1>1, <1>2, <1>3, <1>5, <1>6, <1>9, <1>12

-----------------------------------------------------------------------------
(* The steps that end a walk.                                              *)

(* What a step that ends a walk leaves behind.                             *)
LEMMA UnderFacts ==
  ASSUME Inv, Counted, WalkOver
  PROVE  /\ IsInjective(Under) /\ Len(Under) <= NoDepth /\ Len(Under) \in Nat
         /\ DOMAIN Under = 1..Len(Under) /\ Len(stack) \in DOMAIN stack
         /\ stack[Len(stack)] = Top.ctx /\ Len(stack) = Len(Under) + 1
         /\ \A i \in 1..Len(Under) : Under[i] = stack[i] /\ i \in DOMAIN stack
<1>0. ctl[Len(ctl)].kind = "walk" /\ ctl \in Seq(Frame)
  BY TopFrame DEF WalkOver, Top
<1>1. /\ stack # <<>> /\ Len(stack) - 1 \in Nat /\ Under \in Seq(Ctx) /\ stack \in Seq(Ctx)
      /\ Len(Under) = Len(stack) - 1
      /\ stack[Len(stack)] = Top.ctx
      /\ \A i \in 1..(Len(stack) - 1) : Under[i] = stack[i]
  BY <1>0, TopFrame, PopWalk DEF Under, Top
<1>2. Len(stack) \in Nat /\ DOMAIN stack = 1..Len(stack) /\ DOMAIN Under = 1..Len(Under)
  BY <1>1, SeqType
<1>3. IsInjective(Under)
  <2>1. IsInjective(stack)
    BY StackDistinct
  <2>2. \A i \in 1..Len(Under) : i \in DOMAIN stack /\ Under[i] = stack[i]
    BY <1>1, <1>2
  <2> QED BY <1>2, <2>1, <2>2 DEF IsInjective
<1>4. Len(Under) <= NoDepth
  BY <1>1, <1>2, LimitAssumption DEF Counted, NoDepth
<1> QED BY <1>1, <1>2, <1>3, <1>4

(* The head of a fixpoint in progress resolves its own group.              *)
LEMMA HeadResolves ==
  ASSUME Inv, NEW i \in DOMAIN ctl, ctl[i].kind = "resolve"
  PROVE  /\ ctl[i].head \in Ctx /\ state[ctl[i].head] = "Resolving"
         /\ heads[ctl[i].head] = ctl[i].head
         /\ ctl[i].head \in Range(ctl[i].members) /\ ctl[i].members \in Seq(Ctx)
  BY TopFrame, MembersIn DEF Inv, GroupsFit

(* Parking the walk on top, under the head of its cycle or the group it    *)
(* joins, keeps what waits in its list.                                    *)
LEMMA ParkLists ==
  ASSUME Inv, WaitersInv, WalkOver, NEW head, Park(Top.ctx, WalkDone, head)
  PROVE  ListsFit(state', parked', Below)
<1> DEFINE c == Top.ctx
<1>1. c \in Ctx /\ state[c] = "Running"
  BY WalkOverType
<1>2. /\ parked \in Seq(Ctx) /\ \A d \in Range(parked) : state[d] = "Parked"
      /\ state \in [Ctx -> {"New", "Running", "Parked", "Resolving", "Ready", "Cut"}]
  BY DEF Inv, TypeOK, GroupsFit
<1>3. state' = [state EXCEPT ![c] = "Parked"] /\ parked' = Append(parked, c)
  BY DEF Park
<1>4. ListsFit(state, parked, Below)
  BY WaitersBelowWalk DEF WaitersInv
<1>5. IsInjective(parked') /\ Range(parked') = Range(parked) \cup {c}
  BY <1>1, <1>2, <1>3, <1>4, AppendInjective, RangeOfAppend DEF ListsFit
<1> HIDE DEF c
<1> QED BY <1>1, <1>2, <1>3, <1>4, <1>5 DEF ListsFit

(* The groups of a context that is parked go under another's head.         *)
LEMMA ParkHeads ==
  ASSUME Inv, WalkOver, NEW head \in Ctx, Park(Top.ctx, WalkDone, head)
  PROVE  /\ \A c \in Ctx : heads[c] = Top.ctx => heads'[c] = heads[head]
         /\ \A c \in Ctx : heads[c] # Top.ctx => heads'[c] = heads[c]
         /\ \A c \in Ctx : state'[c] \in Waiting => c = Top.ctx \/ state[c] \in Waiting
         /\ \A c \in Ctx : c # Top.ctx => state'[c] = state[c]
         /\ state'[Top.ctx] = "Parked"
<1>1. /\ Top.ctx \in Ctx /\ heads[Top.ctx] = Top.ctx
      /\ state \in [Ctx -> {"New", "Running", "Parked", "Resolving", "Ready", "Cut"}]
      /\ heads \in [Ctx -> Ctx]
  BY WalkOverType DEF Inv, TypeOK
<1>2. heads' = UnionInto(heads, {Top.ctx}, head) /\ state' = [state EXCEPT ![Top.ctx] = "Parked"]
  BY DEF Park
<1>3. heads' = [c \in Ctx |-> IF heads[c] = Top.ctx THEN heads[head] ELSE heads[c]]
  BY <1>1, <1>2 DEF UnionInto
<1> QED BY <1>1, <1>2, <1>3

(* A walk that waits for one further down is parked: its caller is told of *)
(* that one, which heads its group from now on.                            *)
LEMMA WaitersParkInCycle ==
  ASSUME Inv, Counted, WaitersInv, ParkInCycle
  PROVE  WaitersInv'
<1> DEFINE c == Top.ctx
           r == read[c]
           s == stack[r.lowest + 1]
           note == [r EXCEPT !.cut = None]
<1>1. /\ WalkOver /\ r.lowest < Len(Under)
      /\ Park(c, WalkDone, heads[s]) /\ stack' = Under
      /\ Return(Below, read, fixpoint, Under, note, None)
  BY DEF ParkInCycle
<1>2. /\ c \in Ctx /\ state[c] = "Running" /\ heads[c] = c
      /\ Under \in Seq(Ctx) /\ Len(Under) \in Nat
  BY <1>1, WalkOverType
<1>3. r \in Note /\ r.lowest \in Nat /\ read \in [Ctx -> Note] /\ Len(Under) <= NoDepth
  BY <1>1, <1>2, TopFrame, UnderFacts DEF Note
<1> HIDE DEF c, r
<1>4. /\ note \in Note /\ note.lowest = r.lowest /\ note.joins = r.joins
  BY <1>3 DEF Note
<1>5. /\ r.lowest + 1 \in DOMAIN Under /\ s = Under[r.lowest + 1] /\ s = stack[r.lowest + 1]
      /\ r.lowest + 1 \in DOMAIN stack
  BY <1>1, <1>2, <1>3, UnderFacts
<1> HIDE DEF s
<1>6. s \in Ctx /\ heads[s] = s
  <2>1. s \in Range(stack) /\ s \in Ctx
    BY <1>5, TopFrame, SeqType DEF Range
  <2> QED BY <2>1 DEF Inv, StackMatches, SlotsFit
<1>7. NoteAt(note, Len(Under))
  BY <1>1, <1>4 DEF NoteAt
<1> HIDE DEF note
<1>8. NoteJoins(Below, Under, fixpoint, note)
  <2>1. ASSUME note.joins # None PROVE HeadAmong(Below, Len(Below), note.joins)
    <3>1. WalkJoins(ctl, Len(stack), r)
      BY <1>1, UnderFacts DEF WaitersInv, JoinsFit, c, r
    <3>2. PICK j \in DOMAIN ctl : ctl[j].kind = "resolve" /\ ctl[j].head = r.joins
      BY <1>4, <2>1, <3>1 DEF WalkJoins
    <3>3. HeadAmong(ctl, Len(ctl), r.joins)
      BY <3>2, TopFrame, SeqType DEF HeadAmong
    <3> QED BY <1>1, <1>4, <3>3, WaitersBelowWalk
  <2>2. note.lowest # NoDepth
    BY <1>1, <1>2, <1>3, <1>4, LimitAssumption DEF NoDepth
  <2> QED BY <2>1, <2>2 DEF NoteJoins
<1>9. HeadsNoted(state', heads', Below, Under, read, fixpoint, note)
  <2> SUFFICES ASSUME NEW d \in Ctx, state'[d] \in Waiting
               PROVE  \/ HeadAmong(Below, Len(Below), heads'[d])
                      \/ \E i \in DOMAIN Under :
                            /\ Under[i] = heads'[d]
                            /\ \/ Told(Below, Under, read, fixpoint, i - 1)
                               \/ note.lowest <= i - 1
    BY DEF HeadsNoted
  <2>0. /\ heads[d] = c => heads'[d] = s
        /\ heads[d] # c => heads'[d] = heads[d]
        /\ d = c \/ state[d] \in Waiting
    BY <1>1, <1>6, ParkHeads DEF c
  <2>1. CASE heads[d] = c
    <3>1. heads'[d] = Under[r.lowest + 1] /\ note.lowest <= (r.lowest + 1) - 1
      BY <1>3, <1>4, <1>5, <2>0, <2>1
    <3> QED BY <1>5, <3>1
  <2>2. CASE heads[d] # c
    <3>1. state[d] \in Waiting /\ heads'[d] = heads[d]
      BY <1>2, <2>0, <2>2
    <3> QED BY <1>1, <1>4, <2>2, <3>1, WaitersBelowWalk DEF c, r
  <2> QED BY <2>1, <2>2
<1>10. /\ Below \in Seq(Frame) /\ FramesFit(Below, Under, fixpoint)
       /\ CallersWait(Below) /\ Waits(Below[Len(Below)])
  BY <1>1, WalkOverBelow
<1>11. ListsFit(state', parked', Below)
  BY <1>1, ParkLists DEF c
<1>12. JoinsFit(Below, Under, read, fixpoint) /\ IsInjective(Under)
       /\ Below[1].base = 0 /\ Replayable(Below) /\ fixpoint \in Fixpoint \cup {None}
  BY <1>1, WaitersBelowWalk, UnderFacts, BelowKeeps, TopFrame DEF WalkOver
<1>13. None \in (SUBSET V) \cup {None}
  OBVIOUS
<1> QED BY <1>1, <1>2, <1>3, <1>7, <1>8, <1>9, <1>10, <1>11, <1>12, <1>13, WaitersAfterReturn

(* What the reader of a waiting context is told, and whether it may join   *)
(* its group.                                                              *)
LEMMA GroupReadJoins ==
  ASSUME NEW c \in Ctx, NEW st, NEW hs \in [Ctx -> Ctx], NEW cur, NEW fx,
         NEW stk \in Seq(Ctx), NEW cs,
         st[hs[c]] # "Running" => HeadAmong(cs, Len(cs), hs[c]),
         fx # None => hs[fx.head] = fx.head
  PROVE  NoteJoins(cs, stk, fx, ReadGroupMember(c, st, hs, cur, fx, stk).note)
<1> DEFINE m == ReadGroupMember(c, st, hs, cur, fx, stk)
<1>1. CASE st[hs[c]] = "Running"
  BY <1>1 DEF ReadGroupMember, DependsOn, Nothing, NoteJoins
<1>2. CASE st[hs[c]] # "Running" /\ ReaderIsFixpoint(fx, stk) /\ hs[fx.head] = hs[c]
  BY <1>2 DEF ReadGroupMember, Nothing, NoteJoins
<1>3. CASE st[hs[c]] # "Running" /\ ~(ReaderIsFixpoint(fx, stk) /\ hs[fx.head] = hs[c])
  <2>1. m.note = Joins(hs[c]) /\ m.note.joins = hs[c]
    BY <1>3 DEF ReadGroupMember, Joins, Nothing
  <2>2. ReaderIsFixpoint(fx, stk) => hs[c] # fx.head
    BY <1>3 DEF ReaderIsFixpoint
  <2> HIDE DEF m
  <2>3. NoteJoins(cs, stk, fx, m.note)
    BY <1>3, <2>1, <2>2 DEF NoteJoins
  <2> QED BY <2>3 DEF m
<1> QED BY <1>1, <1>2, <1>3

(* A walk that calls back into a group being resolved is parked there.     *)
LEMMA WaitersParkInGroup ==
  ASSUME Inv, Counted, WaitersInv, ParkInGroup
  PROVE  WaitersInv'
<1> DEFINE c == Top.ctx
           r == read[c]
           m == ReadGroupMember(c, state', heads', current', fixpoint, Under)
           j == r.joins
<1>1. /\ WalkOver /\ r.lowest >= Len(Under) /\ j # None
      /\ Park(c, WalkDone, j) /\ stack' = Under
      /\ Return(Below, read, fixpoint, Under, m.note, m.got)
  BY DEF ParkInGroup
<1>2. /\ c \in Ctx /\ state[c] = "Running" /\ heads[c] = c /\ Under \in Seq(Ctx)
      /\ Len(Under) \in Nat
  BY <1>1, WalkOverType
<1>3. r \in Note /\ r.lowest \in Nat /\ read \in [Ctx -> Note] /\ fixpoint \in Fixpoint \cup {None}
  BY <1>2, TopFrame DEF Note
<1>4. PICK i \in DOMAIN ctl : ctl[i].kind = "resolve" /\ ctl[i].head = j
  <2>1. WalkJoins(ctl, Len(stack), r)
    BY <1>1, UnderFacts DEF WaitersInv, JoinsFit
  <2> QED BY <1>1, <2>1 DEF WalkJoins
<1>5. j \in Ctx /\ state[j] = "Resolving" /\ heads[j] = j
  BY <1>4, HeadResolves
<1>6. HeadAmong(Below, Len(Below), j)
  <2>1. HeadAmong(ctl, Len(ctl), j)
    BY <1>4, TopFrame, SeqType DEF HeadAmong
  <2> QED BY <1>1, <2>1, WaitersBelowWalk
<1>7. /\ heads' \in [Ctx -> Ctx] /\ current'[c] \in FunctionResult
      /\ \A d \in Ctx : heads[d] = c => heads'[d] = j
      /\ \A d \in Ctx : heads[d] # c => heads'[d] = heads[d]
      /\ \A d \in Ctx : state'[d] \in Waiting => d = c \/ state[d] \in Waiting
      /\ state'[j] = "Resolving" /\ heads'[c] = j /\ heads'[j] = j
  <2>1. j # c
    BY <1>2, <1>5
  <2> QED BY <1>1, <1>2, <1>5, <2>1, ParkHeads, ParkType
<1>8. NoteAt(m.note, Len(Under)) /\ m.got \in (SUBSET V) \cup {None}
  BY <1>2, <1>7, GroupReadType
<1>9. NoteJoins(Below, Under, fixpoint, m.note)
  <2>1. fixpoint # None => heads'[fixpoint.head] = fixpoint.head
    <3> SUFFICES ASSUME fixpoint # None PROVE heads'[fixpoint.head] = fixpoint.head
      OBVIOUS
    <3>1. PICK k \in 1..Len(ctl) : ctl[k].kind = "resolve" /\ ctl[k].head = fixpoint.head
      BY TopFrame, FixpointFrame DEF FramesFit
    <3>2. k \in DOMAIN ctl
      BY TopFrame, SeqType
    <3>3. fixpoint.head \in Ctx /\ heads[fixpoint.head] = fixpoint.head
          /\ state[fixpoint.head] = "Resolving"
      BY <3>1, <3>2, HeadResolves
    <3> QED BY <1>2, <1>7, <3>3
  <2> QED BY <1>2, <1>6, <1>7, <2>1, GroupReadJoins
<1> HIDE DEF m
<1>10. HeadsNoted(state', heads', Below, Under, read, fixpoint, m.note)
  <2> SUFFICES ASSUME NEW d \in Ctx, state'[d] \in Waiting
               PROVE  \/ HeadAmong(Below, Len(Below), heads'[d])
                      \/ \E k \in DOMAIN Under : /\ Under[k] = heads'[d]
                                                 /\ Told(Below, Under, read, fixpoint, k - 1)
    BY DEF HeadsNoted
  <2>1. CASE heads[d] = c
    BY <1>6, <1>7, <2>1
  <2>2. CASE heads[d] # c
    <3>1. state[d] \in Waiting /\ heads'[d] = heads[d]
      BY <1>2, <1>7, <2>2
    <3>2. \A k \in DOMAIN Under : ~(r.lowest <= k - 1)
      BY <1>1, <1>2, <1>3, UnderFacts
    <3> QED BY <1>1, <2>2, <3>1, <3>2, WaitersBelowWalk
  <2> QED BY <2>1, <2>2
<1>11. /\ Below \in Seq(Frame) /\ FramesFit(Below, Under, fixpoint)
       /\ CallersWait(Below) /\ Waits(Below[Len(Below)])
  BY <1>1, WalkOverBelow
<1>12. ListsFit(state', parked', Below)
  BY <1>1, ParkLists
<1>13. /\ JoinsFit(Below, Under, read, fixpoint) /\ IsInjective(Under) /\ Len(Under) <= NoDepth
       /\ Below[1].base = 0 /\ Replayable(Below)
  BY <1>1, WaitersBelowWalk, UnderFacts, BelowKeeps DEF WalkOver
<1> HIDE DEF c, r, j
<1> QED BY <1>1, <1>2, <1>3, <1>8, <1>9, <1>10, <1>11, <1>12, <1>13, WaitersAfterReturn

(* A walk that waited on nothing finishes: nobody waits for it either.     *)
LEMMA WaitersFinishAlone ==
  ASSUME Inv, Counted, WaitersInv, FinishAlone
  PROVE  WaitersInv'
<1> DEFINE c == Top.ctx
           r == read[c]
           res == [RoundZero(WalkDone) EXCEPT !.cut = r.cut]
           to == IF r.cut = None THEN "Ready" ELSE "Cut"
<1>1. /\ WalkOver /\ r.lowest > Len(Under)
      /\ state' = [state EXCEPT ![c] = to] /\ to \in {"Ready", "Cut"}
      /\ stack' = Under /\ heads' = heads /\ parked' = parked
      /\ Return(Below, read, fixpoint, Under, IsCut(r.cut), res.returns)
  BY DEF FinishAlone
<1>2. /\ c \in Ctx /\ state[c] = "Running" /\ WalkDone \in Walk /\ Under \in Seq(Ctx)
      /\ Len(Under) \in Nat
      /\ state \in [Ctx -> {"New", "Running", "Parked", "Resolving", "Ready", "Cut"}]
  BY <1>1, WalkOverType DEF Inv, TypeOK
<1>3. /\ r \in Note /\ r.lowest \in Nat /\ r.cut \in Cut \cup {None}
      /\ read \in [Ctx -> Note] /\ fixpoint \in Fixpoint \cup {None}
  BY <1>2, TopFrame DEF Note
<1>4. res.returns \in (SUBSET V) \cup {None}
  BY <1>2, RoundZeroType DEF FunctionResult
<1>5. NoteAt(IsCut(r.cut), Len(Under)) /\ IsCut(r.cut).joins = None
  BY <1>2, <1>3, IsCutType DEF IsCut, Nothing
<1> HIDE DEF res, to
<1>6. \A d \in Ctx : IF d = c THEN state'[d] \in {"Ready", "Cut"} ELSE state'[d] = state[d]
  BY <1>1, <1>2
<1>7. ListsFit(state', parked', Below)
  <2>1. ListsFit(state, parked, Below)
    BY <1>1, WaitersBelowWalk DEF WaitersInv
  <2> QED BY <1>1, <1>6, <2>1 DEF ListsFit
<1>8. HeadsNoted(state', heads', Below, Under, read, fixpoint, IsCut(r.cut))
  <2> SUFFICES ASSUME NEW d \in Ctx, state'[d] \in Waiting
               PROVE  \/ HeadAmong(Below, Len(Below), heads[d])
                      \/ \E k \in DOMAIN Under : /\ Under[k] = heads[d]
                                                 /\ Told(Below, Under, read, fixpoint, k - 1)
    BY <1>1 DEF HeadsNoted
  <2>1. state[d] \in Waiting
    BY <1>6 DEF Waiting
  <2>2. ~(r.lowest <= Len(Under)) /\ \A k \in DOMAIN Under : ~(r.lowest <= k - 1)
    BY <1>1, <1>2, <1>3, UnderFacts
  <2> QED BY <1>1, <2>1, <2>2, WaitersBelowWalk
<1>9. /\ Below \in Seq(Frame) /\ FramesFit(Below, Under, fixpoint)
      /\ CallersWait(Below) /\ Waits(Below[Len(Below)])
  BY <1>1, WalkOverBelow
<1>10. /\ JoinsFit(Below, Under, read, fixpoint) /\ IsInjective(Under) /\ Len(Under) <= NoDepth
       /\ Below[1].base = 0 /\ Replayable(Below)
  BY <1>1, WaitersBelowWalk, UnderFacts, BelowKeeps DEF WalkOver
<1>11. NoteJoins(Below, Under, fixpoint, IsCut(r.cut))
  BY <1>5 DEF NoteJoins
<1> HIDE DEF c, r
<1> QED BY <1>1, <1>2, <1>3, <1>4, <1>5, <1>7, <1>8, <1>9, <1>10, <1>11, WaitersAfterReturn

-----------------------------------------------------------------------------
(* The steps that push a frame.                                            *)

(* What a pushed frame leaves of who joins whom.                           *)
LEMMA PushKeeps ==
  ASSUME NEW cs \in Seq(Frame), NEW fr \in Frame
  PROVE  LET ds == Append(cs, fr) IN
         /\ ds \in Seq(Frame) /\ Len(ds) = Len(cs) + 1 /\ DOMAIN ds = 1..(Len(cs) + 1)
         /\ Len(cs) \in Nat /\ DOMAIN cs = 1..Len(cs)
         /\ ds[Len(cs) + 1] = fr /\ \A i \in 1..Len(cs) : ds[i] = cs[i]
         /\ \A h : HeadAmong(cs, Len(cs), h) => HeadAmong(ds, Len(ds), h)
         /\ \A fx : FixpointJoins(cs, Len(cs), fx) =>
               FixpointJoins(ds, Len(cs), fx) /\ FixpointJoins(ds, Len(ds), fx)
         /\ \A i, n : WalkJoins(cs, i, n) => WalkJoins(ds, i, n)
         /\ (\A i \in DOMAIN cs : cs[i].kind = "resolve" => FixpointJoins(cs, i - 1, cs[i].outer))
               => \A i \in 1..Len(cs) : ds[i].kind = "resolve" =>
                      FixpointJoins(ds, i - 1, ds[i].outer)
<1> DEFINE ds == Append(cs, fr)
<1>1. PICK n \in Nat : n = Len(cs) /\ DOMAIN cs = 1..n
  BY SeqType
<1>2. /\ ds \in Seq(Frame) /\ Len(ds) = n + 1 /\ DOMAIN ds = 1..(n + 1)
      /\ ds[n + 1] = fr /\ \A i \in 1..n : ds[i] = cs[i]
  BY <1>1, AppendType
<1> HIDE DEF ds
<1>3. \A i \in 1..n : SameLinks(cs[i], ds[i])
  BY <1>2 DEF SameLinks
<1> n + 1 \in Nat /\ n + 1 >= n /\ n >= n
  OBVIOUS
<1>4. ASSUME NEW h, HeadAmong(cs, n, h) PROVE HeadAmong(ds, n, h) /\ HeadAmong(ds, n + 1, h)
  <2>1. \A m \in Nat : m >= n => HeadAmong(ds, m, h)
    BY <1>3, <1>4, LinksKeepHeads
  <2> QED BY <2>1
<1>5. ASSUME NEW fx, FixpointJoins(cs, n, fx)
      PROVE  FixpointJoins(ds, n, fx) /\ FixpointJoins(ds, n + 1, fx)
  <2>1. \A m \in Nat : m >= n => FixpointJoins(ds, m, fx)
    BY <1>3, <1>5, LinksKeepJoins
  <2> QED BY <2>1
<1>6. ASSUME NEW i, NEW m, WalkJoins(cs, i, m) PROVE WalkJoins(ds, i, m)
  BY <1>1, <1>2, <1>6 DEF WalkJoins
<1>7. ASSUME \A i \in DOMAIN cs : cs[i].kind = "resolve" => FixpointJoins(cs, i - 1, cs[i].outer),
             NEW i \in 1..n, ds[i].kind = "resolve"
      PROVE  FixpointJoins(ds, i - 1, ds[i].outer)
  <2>1. FixpointJoins(cs, i - 1, ds[i].outer) /\ i - 1 \in Nat
    BY <1>1, <1>2, <1>7
  <2>2. \A j \in 1..(i - 1) : SameLinks(cs[j], ds[j])
    BY <1>3
  <2> QED BY <2>1, <2>2, LinksKeepJoins
<1>8. /\ \A h : HeadAmong(cs, Len(cs), h) => HeadAmong(ds, Len(ds), h)
      /\ \A fx : FixpointJoins(cs, Len(cs), fx) =>
               FixpointJoins(ds, Len(cs), fx) /\ FixpointJoins(ds, Len(ds), fx)
  BY <1>1, <1>2, <1>4, <1>5
<1>9. (\A i \in DOMAIN cs : cs[i].kind = "resolve" => FixpointJoins(cs, i - 1, cs[i].outer))
         => \A i \in 1..Len(cs) : ds[i].kind = "resolve" => FixpointJoins(ds, i - 1, ds[i].outer)
  BY <1>1, <1>7
<1> QED BY <1>1, <1>2, <1>6, <1>8, <1>9 DEF ds

(* The head of a cycle starts the fixpoint of its group.                   *)
LEMMA WaitersResolveGroup ==
  ASSUME Inv, Counted, WaitersInv, ResolveGroup, Inv'
  PROVE  WaitersInv'
<1> DEFINE c == Top.ctx
           r == read[c]
           ps == Append(parked, c)
           ms == Taken(ps, heads, c)
           ws == [walk EXCEPT ![c] = WalkDone]
           fy == [head |-> c, base |-> Len(Under), read |-> Nothing]
           fr == [kind |-> "resolve", base |-> Len(Under), head |-> c, members |-> ms,
                  round |-> 1, changed |-> FALSE, at |-> 1, pc |-> 1,
                  now |-> NoValues(ws[ms[1]]), site |-> None, outer |-> fixpoint]
<1>1. /\ WalkOver /\ r.lowest = Len(Under) /\ stack' = Under /\ parked' = Left(ps, heads, c)
      /\ FromRoundZero(Range(ms), ws) /\ fixpoint' = fy /\ ctl' = Append(Below, fr)
      /\ heads' = heads /\ read' = read
  BY DEF ResolveGroup
<1>2. /\ c \in Ctx /\ state[c] = "Running" /\ heads[c] = c
      /\ Under \in Seq(Ctx) /\ Len(Under) \in Nat
  BY <1>1, WalkOverType
<1>3. /\ parked \in Seq(Ctx) /\ heads \in [Ctx -> Ctx] /\ IsInjective(parked)
      /\ \A d \in Range(parked) : state[d] = "Parked"
  BY DEF Inv, TypeOK, GroupsFit, WaitersInv, ListsFit
<1>4. ps \in Seq(Ctx) /\ Range(ps) = Range(parked) \cup {c} /\ IsInjective(ps)
  BY <1>2, <1>3, AppendType, RangeOfAppend, AppendInjective
<1> HIDE DEF ps
<1>5. /\ ms \in Seq(Ctx) /\ IsInjective(ms) /\ IsInjective(parked')
      /\ Range(ms) = {d \in Range(parked) \cup {c} : heads[d] = c}
      /\ Range(parked') = {d \in Range(parked) \cup {c} : heads[d] # c}
  <2>1. PICK qs \in Seq(Ctx) : qs = ps /\ IsInjective(qs)
    BY <1>4
  <2>2. /\ ms \in Seq(Ctx) /\ IsInjective(ms) /\ IsInjective(Left(ps, heads, c))
        /\ Range(ms) = {d \in Range(ps) : heads[d] = c}
        /\ Range(Left(ps, heads, c)) = {d \in Range(ps) : heads[d] # c}
    <3> HIDE DEF c, ms, ws, fy, fr
    <3>1. /\ Taken(qs, heads, c) \in Seq(Ctx)
          /\ Range(Taken(qs, heads, c)) = {d \in Range(qs) : heads[d] = c}
          /\ Range(Left(qs, heads, c)) = {d \in Range(qs) : heads[d] # c}
          /\ IsInjective(Taken(qs, heads, c)) /\ IsInjective(Left(qs, heads, c))
      <4> HIDE DEF r
      <4>1. PICK h \in Ctx : h = c
        BY <1>2
      <4>2. PICK hs \in [Ctx -> Ctx] : hs = heads
        BY <1>3
      <4>3. /\ Taken(qs, hs, h) \in Seq(Ctx)
            /\ Range(Taken(qs, hs, h)) = {d \in Range(qs) : hs[d] = h}
            /\ Range(Left(qs, hs, h)) = {d \in Range(qs) : hs[d] # h}
            /\ IsInjective(qs) => IsInjective(Taken(qs, hs, h)) /\ IsInjective(Left(qs, hs, h))
        BY ZenonT(30), TakenLeft
      <4> QED BY <2>1, <4>1, <4>2, <4>3
    <3> QED BY <2>1, <3>1 DEF ms
  <2> HIDE DEF ms, c
  <2> QED BY <1>1, <1>4, <2>2
<1>6. state' = [d \in Ctx |-> IF d \in Range(ms) THEN "Resolving" ELSE state[d]]
  BY <1>1 DEF FromRoundZero
<1> HIDE DEF ms, ws
<1>7. c \in Range(ms) /\ Len(ms) \in Nat /\ 1 <= Len(ms)
  <2>1. c \in Range(ms)
    BY <1>2, <1>5
  <2>2. ms # <<>>
    BY <2>1, <1>5, SeqType DEF Range
  <2> QED BY <1>5, <2>1, <2>2, SeqType
<1>8. /\ Below \in Seq(Frame) /\ Below[1].base = 0 /\ Replayable(Below) /\ Len(Below) >= 1
      /\ \A i \in DOMAIN Below : Below[i].kind = "resolve" =>
               FixpointJoins(Below, i - 1, Below[i].outer)
  BY <1>1, BelowKeeps DEF WalkOver
<1>9. PICK n \in Nat : n = Len(Below) /\ n >= 1 /\ DOMAIN Below = 1..n
  BY <1>8, SeqType
<1>10. fr \in Frame
  <2>1. ctl' \in Seq(Frame)
    BY DEF Inv, TypeOK
  <2>2. Len(ctl') = n + 1 /\ ctl'[n + 1] = fr
    <3>1. ctl' = Append(Below, fr)
      BY <1>1
    <3> DEFINE Any == Frame \cup {fr}
    <3> HIDE DEF fr
    <3>2. fr \in Any /\ DOMAIN Below = 1..n
      BY <1>9
    <3>3. Below \in Seq(Any)
      <4>1. \A i \in 1..n : Below[i] \in Any
        BY <1>8, <1>9, SeqType
      <4> HIDE DEF Any
      <4> QED BY <1>8, <1>9, <4>1
    <3> HIDE DEF Any
    <3> QED BY <1>9, <3>1, <3>2, <3>3, AppendType
  <2> QED BY <2>1, <2>2, <1>9, SeqType
<1>11. /\ fr.kind = "resolve" /\ fr.outer = fixpoint /\ fr.head = c /\ fr.members = ms
       /\ fr.at = 1 /\ fr.pc = 1 /\ fr.site = None /\ fr.base = Len(Under)
  OBVIOUS
<1>12. fy # None /\ fy.read = Nothing /\ Quiet(fy.read)
  <2>1. fy \in Fixpoint
    BY <1>2, NothingType DEF Fixpoint
  <2> QED BY <2>1, NoneAssumption DEF Quiet, Nothing
<1> HIDE DEF fr, fy
<1>13. /\ ctl' \in Seq(Frame) /\ Len(ctl') = n + 1 /\ DOMAIN ctl' = 1..(n + 1)
       /\ ctl'[n + 1] = fr /\ \A i \in 1..n : ctl'[i] = Below[i]
       /\ \A h : HeadAmong(Below, n, h) => HeadAmong(ctl', n + 1, h)
       /\ \A fx : FixpointJoins(Below, n, fx) => FixpointJoins(ctl', n, fx)
       /\ \A i, nt : WalkJoins(Below, i, nt) => WalkJoins(ctl', i, nt)
       /\ \A i \in 1..n : ctl'[i].kind = "resolve" => FixpointJoins(ctl', i - 1, ctl'[i].outer)
  <2>1. ctl' = Append(Below, fr)
    BY <1>1
  <2> QED BY <1>8, <1>9, <1>10, <2>1, PushKeeps
<1>14. JoinsFit(Below, Under, read, fixpoint) /\ ListsFit(state, parked, Below)
  BY <1>1, WaitersBelowWalk DEF WaitersInv
<1>15. ctl'[1].base = 0
  BY <1>8, <1>9, <1>13
<1>16. ListsFit(state', parked', ctl')
  <2>1. ASSUME NEW i \in 1..(n + 1), ctl'[i].kind = "resolve" PROVE IsInjective(ctl'[i].members)
    <3>1. CASE i = n + 1
      BY <1>5, <1>11, <1>13, <3>1
    <3>2. CASE i # n + 1
      BY <1>9, <1>13, <1>14, <2>1, <3>2 DEF ListsFit
    <3> QED BY <3>1, <3>2
  <2>2. ASSUME NEW d \in Ctx, state'[d] = "Parked" PROVE d \in Range(parked')
    <3>1. d \notin Range(ms) /\ state[d] = "Parked"
      BY <1>6, <2>2
    <3>2. d \in Range(parked)
      BY <1>14, <3>1 DEF ListsFit
    <3> QED BY <1>5, <3>1, <3>2
  <2>3. ASSUME NEW d \in Ctx, state'[d] = "Resolving"
        PROVE  \E i \in 1..(n + 1) : ctl'[i].kind = "resolve" /\ d \in Range(ctl'[i].members)
    <3>1. CASE d \in Range(ms)
      <4>1. n + 1 \in 1..(n + 1) /\ ctl'[n + 1].kind = "resolve" /\ ctl'[n + 1].members = ms
        BY <1>11, <1>13
      <4> QED BY <3>1, <4>1
    <3>2. CASE d \notin Range(ms)
      <4>1. state[d] = "Resolving"
        BY <1>6, <2>3, <3>2
      <4>2. PICK i \in 1..n : Below[i].kind = "resolve" /\ d \in Range(Below[i].members)
        BY <1>9, <1>14, <4>1 DEF ListsFit
      <4>3. i \in 1..(n + 1) /\ ctl'[i] = Below[i]
        BY <1>13
      <4> QED BY <4>2, <4>3
    <3> QED BY <3>1, <3>2
  <2> QED BY <1>5, <1>13, <2>1, <2>2, <2>3 DEF ListsFit
<1>17. ReplaysFit(ctl', fixpoint')
  <2>1. ASSUME NEW i \in 1..(n + 1), ctl'[i].kind = "resolve"
        PROVE  ~(ctl'[i].at > Len(ctl'[i].members))
    <3>1. CASE i = n + 1
      BY <1>7, <1>11, <1>13, <3>1
    <3>2. CASE i # n + 1
      <4>1. i \in 1..n /\ ctl'[i] = Below[i] /\ ctl'[i] \in Frame
        BY <1>13, <3>2, SeqType
      <4>2. Below[i].at <= Len(Below[i].members)
        BY <1>8, <1>9, <2>1, <4>1 DEF Replayable
      <4>3. Below[i].at \in Nat /\ Len(Below[i].members) \in Nat
        BY <2>1, <4>1, FrameType, ResolveFrameType, SeqType
      <4> QED BY <4>1, <4>2, <4>3
    <3> QED BY <3>1, <3>2
  <2> QED BY <1>1, <1>12, <1>13, <2>1 DEF ReplaysFit
<1>18. JoinsFit(ctl', stack', read', fixpoint')
  <2>1. FixpointJoins(ctl', n + 1, fixpoint')
    BY <1>1, <1>12 DEF FixpointJoins, Nothing
  <2>2. ASSUME NEW i \in 1..(n + 1), ctl'[i].kind = "resolve"
        PROVE  FixpointJoins(ctl', i - 1, ctl'[i].outer)
    <3>1. CASE i = n + 1
      <4>1. FixpointJoins(Below, n, fixpoint)
        BY <1>9, <1>14 DEF JoinsFit
      <4>2. FixpointJoins(ctl', n, fixpoint)
        BY <1>13, <4>1
      <4>3. i - 1 = n /\ ctl'[i].outer = fixpoint
        BY <1>11, <1>13, <3>1
      <4> QED BY <4>2, <4>3
    <3>2. CASE i # n + 1
      BY <1>13, <2>2, <3>2
    <3> QED BY <3>1, <3>2
  <2>3. ASSUME NEW i \in DOMAIN Under PROVE WalkJoins(ctl', i, read[Under[i]])
    BY <1>13, <1>14 DEF JoinsFit
  <2> QED BY <1>1, <1>13, <2>1, <2>2, <2>3 DEF JoinsFit
<1>19. HeadsFit(state', heads', ctl', stack', read', fixpoint')
  <2> SUFFICES ASSUME NEW d \in Ctx, state'[d] \in Waiting
               PROVE  Headed(ctl', Under, read, fixpoint', heads[d])
    BY <1>1 DEF HeadsFit
  <2>1. CASE heads[d] = c
    <3>1. n + 1 \in 1..(n + 1) /\ ctl'[n + 1].kind = "resolve" /\ ctl'[n + 1].head = heads[d]
      BY <1>11, <1>13, <2>1
    <3>2. HeadAmong(ctl', Len(ctl'), heads[d])
      BY <1>13, <3>1 DEF HeadAmong
    <3> QED BY <3>2 DEF Headed
  <2>2. CASE heads[d] # c
    <3>1. state[d] \in Waiting
      <4>1. d \notin Range(ms)
        BY <1>5, <2>2
      <4> QED BY <1>6, <4>1
    <3>2. \A k \in DOMAIN Under : ~(r.lowest <= k - 1)
      BY <1>1, <1>2, UnderFacts
    <3>3. \/ HeadAmong(Below, n, heads[d])
          \/ \E k \in DOMAIN Under : Under[k] = heads[d] /\ Told(Below, Under, read, fixpoint, k - 1)
      BY <1>1, <1>9, <2>2, <3>1, <3>2, WaitersBelowWalk
    <3>4. ASSUME NEW k, Told(Below, Under, read, fixpoint, k)
          PROVE  Told(ctl', Under, read, fixpoint', k)
      <4>1. ASSUME FixpointTells(fixpoint, k)
            PROVE  \E i \in DOMAIN ctl' : ctl'[i].kind = "resolve" /\ FixpointTells(ctl'[i].outer, k)
        BY <1>11, <1>13, <4>1
      <4>2. ASSUME NEW i \in DOMAIN Below, Below[i].kind = "resolve",
                   FixpointTells(Below[i].outer, k)
            PROVE  \E m \in DOMAIN ctl' : ctl'[m].kind = "resolve" /\ FixpointTells(ctl'[m].outer, k)
        BY <1>9, <1>13, <4>2
      <4> QED BY <3>4, <4>1, <4>2 DEF Told
    <3> QED BY <1>13, <3>3, <3>4 DEF Headed
  <2> QED BY <2>1, <2>2
<1> QED BY <1>15, <1>16, <1>17, <1>18, <1>19 DEF WaitersInv

(* A frame that asks still has an operation to replay, and so has every    *)
(* fixpoint below it.                                                      *)
LEMMA AsksReplayable ==
  ASSUME Inv, WaitersInv, Asks(Top) \/ HasOp(Top)
  PROVE  Replayable(ctl)
<1>1. ctl \in Seq(Frame) /\ DOMAIN ctl = 1..Len(ctl) /\ Len(ctl) \in DOMAIN ctl /\ Top = ctl[Len(ctl)]
  BY TopFrame, SeqType
<1>2. ASSUME NEW i \in DOMAIN ctl, ctl[i].kind = "resolve"
      PROVE  ctl[i].at <= Len(ctl[i].members)
  <2>1. ctl[i] \in ResolveFrame
    BY <1>1, <1>2, SeqType, FrameType
  <2>2. ctl[i].at \in Nat /\ Len(ctl[i].members) \in Nat
    BY <2>1, ResolveFrameType, SeqType
  <2> SUFFICES ASSUME ctl[i].at > Len(ctl[i].members) PROVE FALSE
    BY <2>2
  <2>3. i = Len(ctl) /\ ctl[i].site = None
    BY <1>2 DEF WaitersInv, ReplaysFit
  <2>4. Top.kind = "resolve" /\ Top.site = None /\ ~(Top.at <= Len(Top.members))
    BY <1>1, <1>2, <2>2, <2>3
  <2> QED BY <2>4 DEF Asks, InSite, HasOp, Replays
<1> QED BY <1>2 DEF Replayable

(* A walk that starts is a new reader, which nobody waits for.             *)
LEMMA WaitersGetWalk ==
  ASSUME Inv, WaitersInv, GetWalk
  PROVE  WaitersInv'
<1> DEFINE c == Wanted(Top)
           fr == [kind |-> "walk", base |-> Len(stack), ctx |-> c,
                  w |-> [deferred |-> <<>>, resolved |-> <<>>, calls |-> <<>>, rets |-> NoValue],
                  vals |-> <<>>, site |-> None]
<1>1. c \in Ctx /\ Asks(Top)
  BY WantedType DEF GetWalk
<1>2. state[c] \in {"New", "Cut", "Ready"}
  BY DEF GetWalk, MustWalk
<1>3. fr \in Frame /\ fr.kind = "walk"
  <2>1. [deferred |-> <<>>, resolved |-> <<>>, calls |-> <<>>, rets |-> NoValue] \in Walk
    BY DEF Walk, NoValue, Value
  <2> QED BY <1>1, <2>1, TopFrame DEF WalkFrame, Frame
<1>4. /\ heads' = [heads EXCEPT ![c] = c]
      /\ state' = [state EXCEPT ![c] = "Running"]
      /\ read' = [read EXCEPT ![c] = Nothing]
      /\ stack' = Append(stack, c)
      /\ ctl' = Append(ctl, fr)
      /\ parked' = parked /\ fixpoint' = fixpoint
  BY DEF GetWalk
<1> HIDE DEF fr, c
<1>5. /\ state \in [Ctx -> {"New", "Running", "Parked", "Resolving", "Ready", "Cut"}]
      /\ heads \in [Ctx -> Ctx] /\ read \in [Ctx -> Note] /\ ctl \in Seq(Frame) /\ ctl # <<>>
  BY TopFrame DEF Inv, TypeOK
<1>6. PICK u \in Nat : /\ u = Len(stack) /\ DOMAIN stack = 1..u
                       /\ DOMAIN stack' = 1..(u + 1) /\ stack'[u + 1] = c
                       /\ \A i \in 1..u : stack'[i] = stack[i]
  BY <1>1, <1>4, TopFrame, SeqType, AppendType
<1>7. \A d \in Ctx : /\ d # c => state'[d] = state[d] /\ heads'[d] = heads[d] /\ read'[d] = read[d]
                     /\ state'[d] \in {"Parked", "Resolving"} => d # c /\ state'[d] = state[d]
  BY <1>1, <1>4, <1>5
<1>8. \A i \in 1..u : stack[i] \in Ctx /\ stack[i] # c /\ read'[stack[i]] = read[stack[i]]
  <2> TAKE i \in 1..u
  <2>1. stack[i] \in Ctx /\ stack[i] \in Range(stack)
    BY <1>6, TopFrame, SeqType DEF Range
  <2>2. state[stack[i]] = "Running"
    BY <2>1 DEF Inv, StackMatches
  <2> QED BY <1>2, <1>7, <2>1, <2>2
<1>9. PICK n \in Nat : /\ n = Len(ctl) /\ n >= 1 /\ DOMAIN ctl = 1..n
                       /\ ctl' \in Seq(Frame) /\ Len(ctl') = n + 1 /\ DOMAIN ctl' = 1..(n + 1)
                       /\ ctl'[n + 1] = fr /\ \A i \in 1..n : ctl'[i] = ctl[i]
  BY <1>3, <1>4, <1>5, SeqType, PushKeeps
<1>10. /\ \A h : HeadAmong(ctl, n, h) => HeadAmong(ctl', n + 1, h)
       /\ FixpointJoins(ctl', n + 1, fixpoint)
       /\ \A i, nt : WalkJoins(ctl, i, nt) => WalkJoins(ctl', i, nt)
       /\ \A i \in 1..n : ctl'[i].kind = "resolve" => FixpointJoins(ctl', i - 1, ctl'[i].outer)
  <2>1. /\ FixpointJoins(ctl, Len(ctl), fixpoint)
        /\ \A i \in DOMAIN ctl : ctl[i].kind = "resolve" => FixpointJoins(ctl, i - 1, ctl[i].outer)
    BY DEF WaitersInv, JoinsFit
  <2>2. PICK ds \in Seq(Frame) : ds = ctl' /\ ds = Append(ctl, fr)
    BY <1>4, <1>9
  <2>3. /\ \A h : HeadAmong(ctl, Len(ctl), h) => HeadAmong(ds, Len(ds), h)
        /\ \A i, nt : WalkJoins(ctl, i, nt) => WalkJoins(ds, i, nt)
    BY <1>3, <1>5, <2>2, PushKeeps
  <2>4. FixpointJoins(ds, Len(ds), fixpoint)
    BY <1>3, <1>5, <2>1, <2>2, PushKeeps
  <2>5. \A i \in 1..Len(ctl) : ds[i].kind = "resolve" => FixpointJoins(ds, i - 1, ds[i].outer)
    BY <1>3, <1>5, <2>1, <2>2, PushKeeps
  <2> QED BY <1>9, <2>2, <2>3, <2>4, <2>5
<1>11. ctl'[n + 1].kind # "resolve" /\ Len(ctl') = n + 1
  BY <1>3, <1>9
<1>12. ctl'[1].base = 0
  BY <1>9 DEF WaitersInv
<1>13. ListsFit(state', parked', ctl')
  <2>1. ListsFit(state, parked, ctl)
    BY DEF WaitersInv
  <2>2. ASSUME NEW i \in 1..(n + 1), ctl'[i].kind = "resolve" PROVE IsInjective(ctl'[i].members)
    BY <1>9, <1>11, <2>1, <2>2 DEF ListsFit
  <2>3. ASSUME NEW d \in Ctx, state'[d] = "Resolving"
        PROVE  \E i \in 1..(n + 1) : ctl'[i].kind = "resolve" /\ d \in Range(ctl'[i].members)
    <3>1. PICK i \in 1..n : ctl[i].kind = "resolve" /\ d \in Range(ctl[i].members)
      BY <1>7, <1>9, <2>1, <2>3 DEF ListsFit
    <3>2. i \in 1..(n + 1) /\ ctl'[i] = ctl[i]
      BY <1>9
    <3> QED BY <3>1, <3>2
  <2>4. \A d \in Ctx : state'[d] = "Parked" => d \in Range(parked')
    BY <1>4, <1>7, <2>1 DEF ListsFit
  <2>5. IsInjective(parked')
    BY <1>4, <2>1 DEF ListsFit
  <2> QED BY <1>9, <2>2, <2>3, <2>4, <2>5 DEF ListsFit
<1>14. ReplaysFit(ctl', fixpoint')
  <2>1. ASSUME NEW i \in 1..(n + 1), ctl'[i].kind = "resolve"
        PROVE  ~(ctl'[i].at > Len(ctl'[i].members))
    <3>1. i \in 1..n /\ ctl'[i] = ctl[i] /\ i \in DOMAIN ctl
      BY <1>9, <1>11, <2>1
    <3>2. ctl[i].at <= Len(ctl[i].members)
      BY <1>1, <2>1, <3>1, AsksReplayable DEF Replayable
    <3>3. ctl[i] \in ResolveFrame
      BY <1>5, <2>1, <3>1, SeqType, FrameType
    <3>4. ctl[i].at \in Nat /\ Len(ctl[i].members) \in Nat
      BY <3>3, ResolveFrameType, SeqType
    <3> QED BY <3>1, <3>2, <3>4
  <2> QED BY <1>9, <1>11, <2>1 DEF ReplaysFit
<1>15. JoinsFit(ctl', stack', read', fixpoint')
  <2>1. ASSUME NEW i \in 1..(u + 1) PROVE WalkJoins(ctl', i, read'[stack'[i]])
    <3>1. CASE i = u + 1
      <4>1. read'[stack'[i]] = Nothing
        BY <1>1, <1>4, <1>5, <1>6, <3>1
      <4> QED BY <4>1 DEF WalkJoins, Nothing
    <3>2. CASE i # u + 1
      <4>1. i \in 1..u /\ read'[stack'[i]] = read[stack[i]]
        BY <1>6, <1>8, <3>2
      <4>2. WalkJoins(ctl, i, read[stack[i]])
        BY <1>6, <4>1 DEF WaitersInv, JoinsFit
      <4>3. WalkJoins(ctl', i, read[stack[i]])
        BY <1>10, <4>2
      <4> QED BY <4>1, <4>3
    <3> QED BY <3>1, <3>2
  <2>2. \A i \in 1..(n + 1) : ctl'[i].kind = "resolve" => FixpointJoins(ctl', i - 1, ctl'[i].outer)
    BY <1>10, <1>11
  <2> QED BY <1>4, <1>6, <1>9, <1>10, <2>1, <2>2 DEF JoinsFit
<1>16. ASSUME NEW k, Told(ctl, stack, read, fixpoint, k)
       PROVE  Told(ctl', stack', read', fixpoint', k)
  <2>1. CASE \E i \in DOMAIN stack : k < i /\ read[stack[i]].lowest <= k
    <3>1. PICK i \in 1..u : k < i /\ read[stack[i]].lowest <= k
      BY <1>6, <2>1
    <3>2. i \in DOMAIN stack' /\ read'[stack'[i]] = read[stack[i]]
      BY <1>6, <1>8
    <3> QED BY <3>1, <3>2 DEF Told
  <2>2. CASE FixpointTells(fixpoint, k)
    BY <1>4, <2>2 DEF Told
  <2>3. CASE \E i \in DOMAIN ctl : ctl[i].kind = "resolve" /\ FixpointTells(ctl[i].outer, k)
    <3>1. PICK i \in 1..n : ctl[i].kind = "resolve" /\ FixpointTells(ctl[i].outer, k)
      BY <1>9, <2>3
    <3>2. i \in DOMAIN ctl' /\ ctl'[i] = ctl[i]
      BY <1>9
    <3> QED BY <3>1, <3>2 DEF Told
  <2> QED BY <1>16, <2>1, <2>2, <2>3 DEF Told
<1>17. HeadsFit(state', heads', ctl', stack', read', fixpoint')
  <2> SUFFICES ASSUME NEW d \in Ctx, state'[d] \in Waiting
               PROVE  Headed(ctl', stack', read', fixpoint', heads'[d])
    BY DEF HeadsFit
  <2>1. state[d] \in Waiting /\ heads'[d] = heads[d]
    BY <1>7 DEF Waiting
  <2>2. Headed(ctl, stack, read, fixpoint, heads[d])
    BY <2>1 DEF WaitersInv, HeadsFit
  <2>3. CASE HeadAmong(ctl, Len(ctl), heads[d])
    BY <1>9, <1>10, <2>1, <2>3 DEF Headed
  <2>4. CASE ~HeadAmong(ctl, Len(ctl), heads[d])
    <3>1. PICK i \in 1..u : stack[i] = heads[d] /\ Told(ctl, stack, read, fixpoint, i - 1)
      BY <1>6, <2>2, <2>4 DEF Headed
    <3>2. i \in DOMAIN stack' /\ stack'[i] = heads'[d]
      BY <1>6, <2>1, <3>1
    <3> QED BY <1>16, <3>1, <3>2 DEF Headed
  <2> QED BY <2>3, <2>4
<1> QED BY <1>12, <1>13, <1>14, <1>15, <1>17 DEF WaitersInv

-----------------------------------------------------------------------------
(* The steps that only go on with the frame on top.                        *)

(* A walk goes on.                                                         *)
LEMMA WaitersWalkOn ==
  ASSUME Inv, WaitersInv, DeferCall \/ StartCall \/ FinishCall, Inv'
  PROVE  WaitersInv'
<1>1. UNCHANGED <<state, read, heads, parked, stack, fixpoint>>
  BY DEF DeferCall, StartCall, FinishCall, slots
<1>2. Top.kind = "walk" /\ Top \in WalkFrame
  BY TopFrame, FrameType DEF DeferCall, StartCall, FinishCall, AtSite
<1>3. PICK fr : ctl' = [ctl EXCEPT ![Len(ctl)] = fr] /\ SameShape(Top, fr)
  <2>1. CASE DeferCall
    <3>1. PICK w, v : SetTop([Top EXCEPT !.w = w, !.vals = v])
      <4> DEFINE w == [Top.w EXCEPT !.deferred = Append(@, [op |-> "Call", site |-> Len(Top.vals) + 1,
                                                   callee |-> Callee, arg |-> Arg]),
                                    !.calls = Append(@, {})]
                 v == Append(Top.vals, [known |-> {}, pending |-> {Len(Top.w.deferred) + 1}])
      <4>1. SetTop([Top EXCEPT !.w = w, !.vals = v])
        BY <1>2, <2>1, WalkFrameType DEF DeferCall, SetTop, WalkFrame, Walk
      <4> HIDE DEF w, v
      <4> QED BY <4>1
    <3> QED BY <1>2, <3>1 DEF SetTop, WalkFrame, SameShape
  <2>2. CASE StartCall
    <3>1. PICK s : SetTop([Top EXCEPT !.site = s])
      BY <2>2 DEF StartCall
    <3> QED BY <1>2, <3>1 DEF SetTop, WalkFrame, SameShape
  <2>3. CASE FinishCall
    <3>1. PICK w, v : SetTop([Top EXCEPT !.w = w, !.vals = v, !.site = None])
      <4> DEFINE w == [Top.w EXCEPT !.calls = Append(@, Top.site.targets)]
                 v == Append(Top.vals, Top.site.out)
      <4>1. SetTop([Top EXCEPT !.w = w, !.vals = v, !.site = None])
        BY <1>2, <2>3, WalkFrameType DEF FinishCall, SetTop, WalkFrame, Walk
      <4> HIDE DEF w, v
      <4> QED BY <4>1
    <3> QED BY <1>2, <3>1 DEF SetTop, WalkFrame, SameShape
  <2> QED BY <2>1, <2>2, <2>3
<1>4. fr \in Frame
  <2>1. ctl \in Seq(Frame) /\ Len(ctl) \in DOMAIN ctl /\ ctl' \in Seq(Frame)
    BY TopFrame DEF Inv, TypeOK
  <2>2. DOMAIN ctl' = DOMAIN ctl /\ ctl'[Len(ctl)] = fr
    BY <1>3, <2>1
  <2>3. Len(ctl) \in 1..Len(ctl')
    BY <2>1, <2>2, SeqType
  <2> QED BY <2>1, <2>2, <2>3, SeqType
<1>5. fr.kind = "walk"
  BY <1>2, <1>3 DEF SameShape
<1> QED BY <1>1, <1>3, <1>4, <1>5, WaitersAfterTop

(* An answer to a frame that asks, from a slot.                            *)
LEMMA WaitersGetReady ==
  ASSUME Inv, WaitersInv, GetReady
  PROVE  WaitersInv'
<1> DEFINE c == Wanted(Top)
           got == result[c].returns
           fr == Answered(Top, got)
<1>1. c \in Ctx /\ Waits(Top) /\ Asks(Top) /\ state[c] = "Ready"
  BY WantedType DEF GetReady
<1>2. ctl' = Answer(ctl, got) /\ UNCHANGED <<state, read, heads, parked, stack, fixpoint>>
  BY DEF GetReady, slots
<1>3. got \in (SUBSET V) \cup {None}
  <2>1. result[c] \in FunctionResult
    BY <1>1 DEF Inv, SlotsFit
  <2> QED BY <2>1, ReturnsType
<1> HIDE DEF got, c
<1>4. fr \in Frame /\ SameShape(Top, fr)
  BY <1>1, <1>3, TopFrame, AnsweredType
<1>5. ctl' = [ctl EXCEPT ![Len(ctl)] = fr]
  BY <1>2 DEF Answer, Top
<1>6. ASSUME fr.kind = "resolve"
      PROVE  ~(fr.at > Len(fr.members)) /\ ~(fr.pc = 1 /\ fr.site = None)
  <2>1. Top.kind = "resolve" /\ Top \in ResolveFrame
    BY <1>4, <1>6, TopFrame, FrameType DEF SameShape
  <2>2. fr.at = Top.at /\ fr.members = Top.members /\ ~(fr.pc = 1 /\ fr.site = None)
    BY <1>1, <1>3, <2>1, AnsweredReplay
  <2>3. Top.at <= Len(Top.members)
    BY <1>1, <2>1, TopFrame, AsksReplayable DEF Replayable
  <2>4. Top.at \in Nat /\ Len(Top.members) \in Nat
    BY <2>1, ResolveFrameType, SeqType
  <2> QED BY <2>2, <2>3, <2>4
<1> HIDE DEF fr
<1> QED BY <1>2, <1>4, <1>5, <1>6, WaitersAfterTop

(* A deferred call is replayed: it is no longer the start of a replay.     *)
LEMMA WaitersReplayCall ==
  ASSUME Inv, WaitersInv, ReplayCall
  PROVE  WaitersInv'
<1>1. /\ HasOp(Top) /\ Replays(Top) /\ Top \in ResolveFrame
      /\ Op(Top) \in DeferredOp /\ Op(Top).op = "Call"
  BY Replaying DEF ReplayCall, HasOp
<1>2. Op(Top).callee \in Value /\ Op(Top).arg \in Value /\ Top.now \in Seq(SUBSET V)
  BY <1>1, OpType, ResolveFrameType
<1> DEFINE s == StartSite(Substitute(Op(Top).callee, Top.now), Substitute(Op(Top).arg, Top.now))
           fr == [Top EXCEPT !.site = s]
<1>3. s \in SiteCall
  BY <1>2, SubstituteType, StartSiteType
<1>4. ctl' = [ctl EXCEPT ![Len(ctl)] = fr]
      /\ UNCHANGED <<state, read, heads, parked, stack, fixpoint>>
  BY DEF ReplayCall, SetTop, slots
<1> HIDE DEF s
<1>5. fr \in Frame /\ SameShape(Top, fr)
  BY <1>1, <1>3, ResolveFrameType, SetSiteType
<1>6. fr.site # None /\ fr.at = Top.at /\ fr.members = Top.members
  BY <1>1, <1>3, NoneAssumption DEF ResolveFrame
<1>7. ~(fr.at > Len(fr.members))
  <2>1. Top.at <= Len(Top.members)
    BY <1>1 DEF Replays
  <2>2. Top.at \in Nat /\ Len(Top.members) \in Nat
    BY <1>1, ResolveFrameType, SeqType
  <2> QED BY <1>6, <2>1, <2>2
<1> HIDE DEF fr
<1> QED BY <1>4, <1>5, <1>6, <1>7, WaitersAfterTop

(* A replayed call has its value: the next operation is not a member's     *)
(* first.                                                                  *)
LEMMA WaitersReplayDone ==
  ASSUME Inv, WaitersInv, ReplayDone
  PROVE  WaitersInv'
<1>1. /\ HasOp(Top) /\ Replays(Top) /\ Top \in ResolveFrame
  BY Replaying DEF ReplayDone, HasOp
<1>2. Top.site \in SiteCall
  BY TopFrame, InSiteType DEF ReplayDone
<1> DEFINE v == Top.site.out.known
           fr == OpDone(Top, v)
<1>3. v \in SUBSET V
  BY <1>2 DEF SiteCall, Value
<1>4. ctl' = [ctl EXCEPT ![Len(ctl)] = fr]
      /\ UNCHANGED <<state, read, heads, parked, stack, fixpoint>>
  BY DEF ReplayDone, SetTop
<1> HIDE DEF v
<1>5. fr \in Frame /\ SameShape(Top, fr)
  BY <1>1, <1>3, OpDoneType DEF Frame
<1>6. fr.pc = Top.pc + 1 /\ fr.at = Top.at /\ fr.members = Top.members
  <2>1. PICK now : fr = [Top EXCEPT !.now = now, !.pc = Top.pc + 1, !.site = None]
    BY <1>1 DEF OpDone, ResolveFrame
  <2> QED BY <1>1, <2>1 DEF ResolveFrame
<1>7. fr.pc # 1 /\ ~(fr.at > Len(fr.members))
  <2>1. Top.at <= Len(Top.members)
    BY <1>1 DEF Replays
  <2>2. Top.at \in Nat /\ Top.pc \in Nat \ {0} /\ Len(Top.members) \in Nat
    BY <1>1, ResolveFrameType, SeqType
  <2> QED BY <1>6, <2>1, <2>2
<1> HIDE DEF fr
<1> QED BY <1>4, <1>5, <1>7, WaitersAfterTop

(* A member whose replay read nothing further down: the next one starts    *)
(* with a fixpoint that was told nothing.                                  *)
LEMMA WaitersNextMember ==
  ASSUME Inv, WaitersInv, NextMember, Inv'
  PROVE  WaitersInv'
<1>1. /\ Replays(Top) /\ Top \in ResolveFrame /\ Top.site = None
      /\ fixpoint.read.lowest = NoDepth /\ fixpoint.read.joins = None
  BY KeptWalk DEF NextMember, MemberOver
<1>2. PICK changed, now : SetTop([Top EXCEPT !.changed = changed, !.at = Top.at + 1, !.pc = 1,
                                             !.now = now])
  <2> DEFINE m == Member(Top)
             changed == Top.changed \/ FinishRound(walk[m], Top.now).returns # current[m].returns
             now == IF Top.at < Len(Top.members)
                    THEN walk[Top.members[Top.at + 1]].resolved ELSE <<>>
  <2>1. SetTop([Top EXCEPT !.changed = changed, !.at = Top.at + 1, !.pc = 1, !.now = now])
    BY <1>1 DEF NextMember, SetTop, ResolveFrame
  <2> HIDE DEF changed, now
  <2> QED BY <2>1
<1>3. PICK fr : fr = [Top EXCEPT !.changed = changed, !.at = Top.at + 1, !.pc = 1, !.now = now]
  OBVIOUS
<1>4. /\ SameShape(Top, fr) /\ fr.kind = "resolve" /\ fr.pc = 1 /\ fr.site = None
  BY <1>1, <1>3 DEF ResolveFrame, SameShape
<1>5. ctl' = [ctl EXCEPT ![Len(ctl)] = fr]
      /\ UNCHANGED <<state, read, heads, parked, stack, fixpoint>>
  BY <1>2, <1>3 DEF NextMember, SetTop
<1>6. fr \in Frame
  <2>1. ctl \in Seq(Frame) /\ Len(ctl) \in DOMAIN ctl /\ ctl' \in Seq(Frame)
    BY TopFrame DEF Inv, TypeOK
  <2>2. DOMAIN ctl' = DOMAIN ctl /\ ctl'[Len(ctl)] = fr
    BY <1>5, <2>1
  <2>3. Len(ctl) \in 1..Len(ctl')
    BY <2>1, <2>2, SeqType
  <2> QED BY <2>1, <2>2, <2>3, SeqType
<1> QED BY <1>1, <1>4, <1>5, <1>6, WaitersAfterTop DEF Quiet

-----------------------------------------------------------------------------
(* The answers that leave the frames alone.                                *)

(* The fixpoint in progress is that of a group under its own head.         *)
LEMMA FixpointHeads ==
  ASSUME Inv, fixpoint # None
  PROVE  /\ fixpoint.head \in Ctx /\ heads[fixpoint.head] = fixpoint.head
         /\ state[fixpoint.head] = "Resolving"
<1>1. PICK k \in 1..Len(ctl) : ctl[k].kind = "resolve" /\ ctl[k].head = fixpoint.head
  BY TopFrame, FixpointFrame DEF FramesFit
<1>2. k \in DOMAIN ctl
  BY TopFrame, SeqType
<1> QED BY <1>1, <1>2, HeadResolves

(* A read that only tells the reader something.                            *)
LEMMA WaitersAfterRead ==
  ASSUME Inv, Counted, WaitersInv, Asks(Top),
         NEW n, NoteAt(n, Len(stack)), NoteJoins(ctl, stack, fixpoint, n),
         NEW got \in (SUBSET V) \cup {None},
         Return(ctl, read, fixpoint, stack, n, got),
         UNCHANGED <<state, heads, parked, stack>>
  PROVE  WaitersInv'
<1>1. /\ ctl \in Seq(Frame) /\ stack \in Seq(Ctx) /\ fixpoint \in Fixpoint \cup {None}
      /\ FramesFit(ctl, stack, fixpoint) /\ CallersWait(ctl) /\ read \in [Ctx -> Note]
      /\ Waits(ctl[Len(ctl)])
  BY TopFrame, WantedType
<1>2. IsInjective(stack) /\ Len(stack) <= NoDepth /\ Replayable(ctl)
  BY StackDistinct, AsksReplayable DEF Counted, NoDepth
<1>3. /\ ctl[1].base = 0 /\ ListsFit(state', parked', ctl)
      /\ JoinsFit(ctl, stack, read, fixpoint)
  BY DEF WaitersInv
<1>4. HeadsNoted(state', heads', ctl, stack, read, fixpoint, n)
  BY DEF WaitersInv, HeadsFit, Headed, HeadsNoted
<1> QED BY <1>1, <1>2, <1>3, <1>4, WaitersAfterReturn

(* A recursive call.                                                       *)
LEMMA WaitersGetRunning ==
  ASSUME Inv, Counted, WaitersInv, GetRunning
  PROVE  WaitersInv'
<1> DEFINE d == depth[Wanted(Top)]
<1>1. /\ Asks(Top) /\ state[Wanted(Top)] = "Running" /\ Wanted(Top) \in Ctx
      /\ Return(ctl, read, fixpoint, stack, DependsOn(d), None)
      /\ UNCHANGED <<state, heads, parked, stack>>
  BY WantedType DEF GetRunning
<1>2. d \in Nat /\ d < Len(stack)
  BY <1>1, RunningDepth
<1> HIDE DEF d
<1>3. NoteAt(DependsOn(d), Len(stack))
  BY <1>2, TopFrame, DependsOnType
<1>4. NoteJoins(ctl, stack, fixpoint, DependsOn(d))
  BY DEF NoteJoins, DependsOn, Nothing
<1>5. None \in (SUBSET V) \cup {None}
  OBVIOUS
<1> QED BY <1>1, <1>3, <1>4, <1>5, WaitersAfterRead

(* A call a limit stops.                                                   *)
LEMMA WaitersGetCut ==
  ASSUME Inv, Counted, WaitersInv, GetCut
  PROVE  WaitersInv'
<1> DEFINE k == CostLimit(Wanted(Top))
<1>1. /\ Asks(Top) /\ Return(ctl, read, fixpoint, stack, IsCut(k), CutReturns)
      /\ UNCHANGED <<state, heads, parked, stack>>
  BY DEF GetCut
<1>2. k \in Cut \cup {None}
  BY DEF CostLimit, Cut
<1> HIDE DEF k
<1>3. NoteAt(IsCut(k), Len(stack))
  BY <1>2, TopFrame, IsCutType
<1>4. NoteJoins(ctl, stack, fixpoint, IsCut(k))
  BY DEF NoteJoins, IsCut, Nothing
<1>5. CutReturns \in (SUBSET V) \cup {None}
  BY UnknownInV DEF CutReturns
<1> QED BY <1>1, <1>3, <1>4, <1>5, WaitersAfterRead

(* A read of a context that waits.                                         *)
LEMMA WaitersGetGroupMember ==
  ASSUME Inv, Counted, WaitersInv, GetGroupMember
  PROVE  WaitersInv'
<1> DEFINE c == Wanted(Top)
           m == ReadGroupMember(c, state, heads, current, fixpoint, stack)
<1>1. /\ Asks(Top) /\ state[c] \in Waiting /\ c \in Ctx
      /\ Return(ctl, read, fixpoint, stack, m.note, m.got)
      /\ UNCHANGED <<state, heads, parked, stack>>
  BY WantedType DEF GetGroupMember, Waiting
<1>2. heads \in [Ctx -> Ctx] /\ current[c] \in FunctionResult /\ stack \in Seq(Ctx)
      /\ Len(stack) \in Nat
  BY <1>1, TopFrame DEF Inv, TypeOK, SlotsFit, Waiting
<1>3. NoteAt(m.note, Len(stack)) /\ m.got \in (SUBSET V) \cup {None}
  <2>1. state[heads[c]] = "Running" => depth[heads[c]] \in Nat /\ depth[heads[c]] < Len(stack)
    <3>1. heads[c] \in Ctx
      BY <1>1, <1>2
    <3> QED BY <3>1, RunningDepth
  <2> QED BY <1>1, <1>2, <2>1, GroupReadType
<1>4. NoteJoins(ctl, stack, fixpoint, m.note)
  <2>1. state[heads[c]] # "Running" => HeadAmong(ctl, Len(ctl), heads[c])
    <3> SUFFICES ASSUME state[heads[c]] # "Running" PROVE HeadAmong(ctl, Len(ctl), heads[c])
      OBVIOUS
    <3>1. Headed(ctl, stack, read, fixpoint, heads[c])
      BY <1>1 DEF WaitersInv, HeadsFit
    <3>2. \A i \in DOMAIN stack : stack[i] # heads[c]
      <4> SUFFICES ASSUME NEW i \in DOMAIN stack PROVE stack[i] # heads[c]
        OBVIOUS
      <4>1. stack[i] \in Range(stack) /\ stack[i] \in Ctx
        BY <1>2, SeqType DEF Range
      <4> QED BY <4>1 DEF Inv, StackMatches
    <3> QED BY <3>1, <3>2 DEF Headed
  <2>2. fixpoint # None => heads[fixpoint.head] = fixpoint.head
    BY FixpointHeads
  <2> QED BY <1>1, <1>2, <2>1, <2>2, GroupReadJoins
<1> HIDE DEF m, c
<1> QED BY <1>1, <1>3, <1>4, WaitersAfterRead

-----------------------------------------------------------------------------
(* The steps that end a fixpoint.                                          *)

(* A fixpoint is over: what the frames below it keep of WaitersInv, whom   *)
(* they head, and what only the fixpoint was told.                         *)
LEMMA WaitersBelowResolve ==
  ASSUME Inv, WaitersInv, Top.kind = "resolve",
         NEW rd \in [Ctx -> Note],
         \A c \in Ctx : rd[c].lowest <= read[c].lowest /\ rd[c].joins = read[c].joins
  PROVE  /\ \A h : HeadAmong(ctl, Len(ctl), h) /\ h # Top.head => HeadAmong(Below, Len(Below), h)
         /\ JoinsFit(Below, stack, rd, Top.outer)
         /\ \A k \in Nat : Told(ctl, stack, read, fixpoint, k) =>
               Told(Below, stack, rd, Top.outer, k) \/ fixpoint.read.lowest <= k
<1>1. PICK n \in Nat : n = Len(Below) /\ n >= 1
  BY BelowKeeps
<1>2. /\ Below \in Seq(Frame) /\ DOMAIN Below = 1..n /\ Len(ctl) = n + 1 /\ ctl \in Seq(Frame)
      /\ DOMAIN ctl = 1..(n + 1) /\ \A i \in 1..n : Below[i] = ctl[i]
      /\ ctl[n + 1] = Top /\ Top.base = Len(stack) /\ Len(stack) \in Nat
      /\ DOMAIN stack = 1..Len(stack) /\ \A i \in DOMAIN stack : stack[i] \in Ctx
  BY <1>1, BelowKeeps, TopFrame, ResolveOnTop, SeqType
<1>3. ASSUME NEW h, HeadAmong(ctl, n + 1, h), h # Top.head PROVE HeadAmong(Below, n, h)
  <2>1. PICK i \in 1..(n + 1) : ctl[i].kind = "resolve" /\ ctl[i].head = h
    BY <1>3 DEF HeadAmong
  <2>2. i # n + 1
    BY <1>2, <1>3, <2>1
  <2>3. i \in 1..n /\ Below[i] = ctl[i]
    BY <1>2, <2>2
  <2> QED BY <2>1, <2>3 DEF HeadAmong
<1>4. FixpointJoins(Below, n, Top.outer)
  <2>1. PICK i \in DOMAIN ctl : i = n + 1
    BY <1>2
  <2>2. FixpointJoins(ctl, i - 1, ctl[i].outer)
    BY <1>2, <2>1 DEF WaitersInv, JoinsFit
  <2>3. i - 1 = n /\ ctl[i].outer = Top.outer
    BY <1>2, <2>1
  <2>4. FixpointJoins(ctl, n, Top.outer)
    BY <2>2, <2>3
  <2>5. \A j \in 1..n : SameLinks(ctl[j], Below[j])
    BY <1>2 DEF SameLinks
  <2>6. \A m \in Nat : m >= n => FixpointJoins(Below, m, Top.outer)
    BY <2>4, <2>5, LinksKeepJoins
  <2> QED BY <2>6
<1>5. ASSUME NEW i \in DOMAIN stack PROVE WalkJoins(Below, i, rd[stack[i]])
  <2>1. WalkJoins(ctl, i, read[stack[i]]) /\ rd[stack[i]].joins = read[stack[i]].joins
    BY <1>2 DEF WaitersInv, JoinsFit
  <2> SUFFICES ASSUME rd[stack[i]].joins # None
               PROVE  \E j \in DOMAIN Below : /\ Below[j].kind = "resolve"
                                              /\ Below[j].head = rd[stack[i]].joins
                                              /\ Below[j].base < i
    BY DEF WalkJoins
  <2>2. PICK j \in 1..(n + 1) : /\ ctl[j].kind = "resolve" /\ ctl[j].head = rd[stack[i]].joins
                                /\ ctl[j].base < i
    BY <1>2, <2>1 DEF WalkJoins
  <2>3. j # n + 1
    BY <1>2, <2>2
  <2>4. j \in DOMAIN Below /\ Below[j] = ctl[j]
    BY <1>2, <2>3
  <2> QED BY <2>2, <2>4
<1>6. JoinsFit(Below, stack, rd, Top.outer)
  BY <1>1, <1>4, <1>5, BelowKeeps DEF JoinsFit
<1>7. ASSUME NEW k \in Nat, Told(ctl, stack, read, fixpoint, k)
      PROVE  Told(Below, stack, rd, Top.outer, k) \/ fixpoint.read.lowest <= k
  <2>1. CASE \E i \in DOMAIN stack : k < i /\ read[stack[i]].lowest <= k
    <3>1. PICK i \in DOMAIN stack : k < i /\ read[stack[i]].lowest <= k
      BY <2>1
    <3>2. /\ rd[stack[i]].lowest \in Nat /\ read[stack[i]].lowest \in Nat
          /\ rd[stack[i]].lowest <= read[stack[i]].lowest
      BY <1>2, TopFrame DEF Note
    <3>3. rd[stack[i]].lowest <= k
      BY <3>1, <3>2
    <3> QED BY <3>1, <3>3 DEF Told
  <2>2. CASE FixpointTells(fixpoint, k)
    BY <2>2 DEF FixpointTells
  <2>3. CASE \E i \in DOMAIN ctl : ctl[i].kind = "resolve" /\ FixpointTells(ctl[i].outer, k)
    <3>1. PICK i \in 1..(n + 1) : ctl[i].kind = "resolve" /\ FixpointTells(ctl[i].outer, k)
      BY <1>2, <2>3
    <3>2. CASE i = n + 1
      <4>1. FixpointTells(Top.outer, k)
        BY <1>2, <3>1, <3>2
      <4> QED BY <4>1 DEF Told
    <3>3. CASE i # n + 1
      <4>1. i \in DOMAIN Below /\ Below[i] = ctl[i]
        BY <1>2, <3>3
      <4> QED BY <3>1, <4>1 DEF Told
    <3> QED BY <3>2, <3>3
  <2> QED BY <1>7, <2>1, <2>2, <2>3 DEF Told
<1> QED BY <1>1, <1>2, <1>3, <1>6, <1>7

(* A fixpoint that stops parks its members once, next to what was parked.  *)
LEMMA ParkAllLists ==
  ASSUME Inv, WaitersInv, Top.kind = "resolve", NEW head, ParkAll(head)
  PROVE  ListsFit(state', parked', Below)
<1>1. PICK n \in Nat : n = Len(Below) /\ n >= 1
  BY BelowKeeps
<1>2. /\ DOMAIN Below = 1..n /\ Len(ctl) = n + 1 /\ n + 1 \in DOMAIN ctl
      /\ DOMAIN ctl = 1..(n + 1) /\ \A i \in 1..n : Below[i] = ctl[i]
      /\ ctl[n + 1] = Top
  BY <1>1, BelowKeeps, TopFrame
<1>3. /\ Top.members \in Seq(Ctx) /\ \A c \in Range(Top.members) : state[c] = "Resolving"
      /\ parked \in Seq(Ctx) /\ \A c \in Range(parked) : state[c] = "Parked"
  BY ResolveOnTop DEF Inv, TypeOK, GroupsFit
<1>4. ListsFit(state, parked, ctl)
  BY DEF WaitersInv
<1>5. IsInjective(Top.members) /\ IsInjective(parked)
  <2>1. IsInjective(ctl[n + 1].members)
    BY <1>2, <1>4 DEF ListsFit
  <2> QED BY <1>2, <1>4, <2>1 DEF ListsFit
<1>6. /\ state' = [c \in Ctx |-> IF c \in Range(Top.members) THEN "Parked" ELSE state[c]]
      /\ parked' = parked \o Top.members
  BY DEF ParkAll
<1>7. Range(parked) \cap Range(Top.members) = {}
  BY <1>3
<1>8. IsInjective(parked') /\ Range(parked') = Range(parked) \cup Range(Top.members)
  BY <1>3, <1>5, <1>6, <1>7, ConcatInjective, RangeOfConcat
<1>9. \A i \in DOMAIN Below : Below[i].kind = "resolve" => IsInjective(Below[i].members)
  BY <1>2, <1>4 DEF ListsFit
<1>10. \A c \in Ctx : state'[c] = "Parked" => c \in Range(parked')
  BY <1>4, <1>6, <1>8 DEF ListsFit
<1>11. ASSUME NEW c \in Ctx, state'[c] = "Resolving"
       PROVE  \E i \in DOMAIN Below : Below[i].kind = "resolve" /\ c \in Range(Below[i].members)
  <2>1. c \notin Range(Top.members) /\ state[c] = "Resolving"
    BY <1>6, <1>11
  <2>2. PICK i \in 1..(n + 1) : ctl[i].kind = "resolve" /\ c \in Range(ctl[i].members)
    BY <1>2, <1>4, <2>1 DEF ListsFit
  <2>3. i # n + 1
    BY <1>2, <2>1, <2>2
  <2>4. i \in DOMAIN Below /\ Below[i] = ctl[i]
    BY <1>2, <2>3
  <2> QED BY <2>2, <2>4
<1> QED BY <1>8, <1>9, <1>10, <1>11 DEF ListsFit

(* Its group goes under another's head, and nothing else.                  *)
LEMMA ParkAllHeads ==
  ASSUME Inv, Top.kind = "resolve", NEW head \in Ctx, ParkAll(head)
  PROVE  /\ \A c \in Ctx : heads[c] = Top.head => heads'[c] = heads[head]
         /\ \A c \in Ctx : heads[c] # Top.head => heads'[c] = heads[c]
         /\ \A c \in Ctx : heads[c] # Top.head => state'[c] = state[c]
         /\ \A c \in Ctx : state'[c] \in Waiting => state[c] \in Waiting
<1>1. /\ Top.head \in Range(Top.members) /\ Range(Top.members) \subseteq Ctx
      /\ \A c \in Range(Top.members) : state[c] = "Resolving" /\ heads[c] = Top.head
  BY ResolveOnTop
<1>2. /\ heads' = UnionInto(heads, Range(Top.members), head)
      /\ state' = [c \in Ctx |-> IF c \in Range(Top.members) THEN "Parked" ELSE state[c]]
  BY DEF ParkAll
<1>3. \A c \in Ctx : (\E m \in Range(Top.members) : heads[c] = heads[m]) <=> heads[c] = Top.head
  BY <1>1
<1>4. \A c \in Ctx : heads'[c] = IF heads[c] = Top.head THEN heads[head] ELSE heads[c]
  BY <1>2, <1>3 DEF UnionInto
<1>5. \A c \in Ctx : state'[c] \in Waiting => state[c] \in Waiting
  BY <1>1, <1>2 DEF Waiting
<1> QED BY <1>1, <1>2, <1>4, <1>5

(* Marking the members with a cut leaves what they were told.              *)
LEMMA KeepCutKeeps ==
  ASSUME NEW rd \in [Ctx -> Note], NEW ms, NEW cut \in Cut \cup {None}, NEW c \in Ctx
  PROVE  KeepCut(rd, ms, cut)[c].lowest <= rd[c].lowest /\ KeepCut(rd, ms, cut)[c].joins = rd[c].joins
<1>1. rd[c] \in Note /\ rd[c].lowest \in Nat /\ IsCut(cut).joins = None /\ IsCut(cut) \in Note
  BY IsCutType DEF Note, IsCut, Nothing
<1>2. PICK n \in Note : n = IsCut(cut)
  BY <1>1
<1>3. n.lowest \in Nat /\ n.joins = None
  BY <1>1, <1>2 DEF Note
<1>4. Noted(rd[c], n).lowest <= rd[c].lowest /\ Noted(rd[c], n).joins = rd[c].joins
  BY <1>1, <1>3 DEF Noted
<1>5. KeepCut(rd, ms, cut)[c] = rd[c] \/ KeepCut(rd, ms, cut)[c] = Noted(rd[c], n)
  BY <1>2 DEF KeepCut
<1> QED BY <1>1, <1>4, <1>5

(* A fixpoint that read a walk further down: its group waits for the head  *)
(* of a bigger cycle, which the reader below is told of.                   *)
LEMMA WaitersMerged ==
  ASSUME Inv, Counted, WaitersInv, Merged
  PROVE  WaitersInv'
<1> DEFINE r == fixpoint.read
           k == r.lowest
           s == stack[r.lowest + 1]
           rd == KeepCut(read, Range(Top.members), r.cut)
<1>1. /\ MemberOver /\ k # NoDepth /\ ParkAll(s)
      /\ Return(Below, rd, Top.outer, stack, DependsOn(k), None) /\ stack' = stack
  BY DEF Merged
<1>2. Top.kind = "resolve"
  BY <1>1 DEF MemberOver, Replays
<1>3. r \in Note /\ k \in Nat /\ k < Len(stack) /\ r.cut \in Cut \cup {None}
  BY <1>1, <1>2, ResolveOnTop DEF NoteAt, Note
<1>4. k + 1 \in DOMAIN stack /\ s = stack[k + 1] /\ s \in Ctx /\ heads[s] = s
  <2>1. k + 1 \in 1..Len(stack)
    BY <1>3, TopFrame
  <2>2. k + 1 \in DOMAIN stack /\ s \in Ctx /\ s \in Range(stack)
    BY <2>1, TopFrame, SeqType DEF Range
  <2> QED BY <2>2 DEF Inv, StackMatches, SlotsFit
<1>5. NoteAt(DependsOn(k), Len(stack)) /\ DependsOn(k).lowest = k /\ DependsOn(k).joins = None
  BY <1>3, TopFrame, DependsOnType DEF DependsOn, Nothing
<1>6. /\ rd \in [Ctx -> Note]
      /\ \A c \in Ctx : rd[c].lowest <= read[c].lowest /\ rd[c].joins = read[c].joins
  BY <1>3, TopFrame, KeepCutType, KeepCutKeeps
<1> HIDE DEF rd, s, r
<1>7. /\ Below \in Seq(Frame) /\ FramesFit(Below, stack, Top.outer)
      /\ CallersWait(Below) /\ Waits(Below[Len(Below)])
      /\ Top.outer \in Fixpoint \cup {None} /\ Below[1].base = 0 /\ Replayable(Below)
  BY <1>2, ResolveBelow, BelowKeeps
<1>8. /\ \A h : HeadAmong(ctl, Len(ctl), h) /\ h # Top.head => HeadAmong(Below, Len(Below), h)
      /\ JoinsFit(Below, stack, rd, Top.outer)
      /\ \A j \in Nat : Told(ctl, stack, read, fixpoint, j) =>
               Told(Below, stack, rd, Top.outer, j) \/ k <= j
  BY <1>2, <1>6, WaitersBelowResolve DEF r
<1>9. ListsFit(state', parked', Below)
  BY <1>1, <1>2, ParkAllLists
<1>10. /\ \A c \in Ctx : heads[c] = Top.head => heads'[c] = s
       /\ \A c \in Ctx : heads[c] # Top.head => heads'[c] = heads[c]
       /\ \A c \in Ctx : state'[c] \in Waiting => state[c] \in Waiting
  BY <1>1, <1>2, <1>4, ParkAllHeads
<1>11. HeadsNoted(state', heads', Below, stack, rd, Top.outer, DependsOn(k))
  <2> SUFFICES ASSUME NEW c \in Ctx, state'[c] \in Waiting
               PROVE  \/ HeadAmong(Below, Len(Below), heads'[c])
                      \/ \E i \in DOMAIN stack :
                            /\ stack[i] = heads'[c]
                            /\ Told(Below, stack, rd, Top.outer, i - 1) \/ k <= i - 1
    BY <1>5 DEF HeadsNoted
  <2>1. CASE heads[c] = Top.head
    <3>1. stack[k + 1] = heads'[c] /\ k <= (k + 1) - 1
      BY <1>3, <1>4, <1>10, <2>1
    <3> QED BY <1>4, <3>1
  <2>2. CASE heads[c] # Top.head
    <3>1. Headed(ctl, stack, read, fixpoint, heads[c]) /\ heads'[c] = heads[c]
      BY <1>10, <2>2 DEF WaitersInv, HeadsFit
    <3>2. CASE HeadAmong(ctl, Len(ctl), heads[c])
      BY <1>8, <2>2, <3>1, <3>2
    <3>3. CASE ~HeadAmong(ctl, Len(ctl), heads[c])
      <4>1. PICK i \in DOMAIN stack : stack[i] = heads[c] /\ Told(ctl, stack, read, fixpoint, i - 1)
        BY <3>1, <3>3 DEF Headed
      <4>2. i - 1 \in Nat
        BY TopFrame, SeqType
      <4> QED BY <1>8, <3>1, <4>1, <4>2
    <3> QED BY <3>2, <3>3
  <2> QED BY <2>1, <2>2
<1>12. NoteJoins(Below, stack, Top.outer, DependsOn(k))
  BY <1>5 DEF NoteJoins
<1>13. /\ IsInjective(stack) /\ Len(stack) <= NoDepth /\ stack \in Seq(Ctx)
       /\ None \in (SUBSET V) \cup {None}
  BY StackDistinct, TopFrame DEF Counted, NoDepth
<1> QED BY <1>1, <1>5, <1>6, <1>7, <1>8, <1>9, <1>11, <1>12, <1>13, WaitersAfterReturn

(* A fixpoint that read another group's member: its group waits for that   *)
(* group's fixpoint, which is in progress below.                           *)
LEMMA WaitersJoined ==
  ASSUME Inv, Counted, WaitersInv, Joined
  PROVE  WaitersInv'
<1> DEFINE r == fixpoint.read
           j == r.joins
           m == ReadGroupMember(Top.head, state', heads', current, Top.outer, stack)
           rd == KeepCut(read, Range(Top.members), r.cut)
<1>1. /\ MemberOver /\ r.lowest = NoDepth /\ j # None /\ KeepsResolved /\ ParkAll(j)
      /\ Return(Below, rd, Top.outer, stack, m.note, m.got)
      /\ UNCHANGED <<prog, depth, result, current, stack, counters, expired>>
  BY DEF Joined
<1>2. Top.kind = "resolve"
  BY <1>1 DEF MemberOver, Replays
<1>3. /\ r \in Note /\ r.lowest \in Nat /\ j \in Ctx /\ r.cut \in Cut \cup {None}
      /\ Top.head \in Ctx /\ current[Top.head] \in FunctionResult
      /\ fixpoint # None /\ fixpoint.head = Top.head
  BY <1>1, <1>2, ResolveOnTop DEF NoteAt, Note
<1>4. HeadAmong(ctl, Len(ctl), j) /\ j # Top.head
  BY <1>1, <1>3 DEF WaitersInv, JoinsFit, FixpointJoins
<1>5. heads[j] = j /\ state[j] = "Resolving"
  <2>1. PICK i \in 1..Len(ctl) : ctl[i].kind = "resolve" /\ ctl[i].head = j
    BY <1>4 DEF HeadAmong
  <2> QED BY <2>1, TopFrame, SeqType, HeadResolves
<1>6. /\ rd \in [Ctx -> Note]
      /\ \A c \in Ctx : rd[c].lowest <= read[c].lowest /\ rd[c].joins = read[c].joins
  BY <1>3, TopFrame, KeepCutType, KeepCutKeeps
<1> HIDE DEF rd, r, j
<1>7. /\ Below \in Seq(Frame) /\ FramesFit(Below, stack, Top.outer)
      /\ CallersWait(Below) /\ Waits(Below[Len(Below)])
      /\ Top.outer \in Fixpoint \cup {None} /\ Below[1].base = 0 /\ Replayable(Below)
  BY <1>2, ResolveBelow, BelowKeeps
<1>8. /\ \A h : HeadAmong(ctl, Len(ctl), h) /\ h # Top.head => HeadAmong(Below, Len(Below), h)
      /\ JoinsFit(Below, stack, rd, Top.outer)
      /\ \A k \in Nat : Told(ctl, stack, read, fixpoint, k) =>
               Told(Below, stack, rd, Top.outer, k) \/ r.lowest <= k
  BY <1>2, <1>6, WaitersBelowResolve DEF r
<1>9. ListsFit(state', parked', Below)
  BY <1>1, <1>2, ParkAllLists
<1>10. /\ \A c \in Ctx : heads[c] = Top.head => heads'[c] = j
       /\ \A c \in Ctx : heads[c] # Top.head => heads'[c] = heads[c] /\ state'[c] = state[c]
       /\ \A c \in Ctx : state'[c] \in Waiting => state[c] \in Waiting
  BY <1>1, <1>2, <1>3, <1>5, ParkAllHeads
<1>11. heads[Top.head] = Top.head /\ heads'[Top.head] = j /\ heads'[j] = j
       /\ state'[j] = "Resolving"
  <2>1. heads[Top.head] = Top.head
    BY <1>2, ResolveOnTop
  <2> QED BY <1>3, <1>4, <1>5, <1>10, <2>1
<1>12. /\ heads' \in [Ctx -> Ctx]
       /\ \A c \in Ctx : state'[c] = "Running" <=> state[c] = "Running"
  BY <1>1, <1>3, ParkAllType
<1>13. NoteAt(m.note, Len(stack)) /\ m.got \in (SUBSET V) \cup {None}
  <2>1. state'[heads'[Top.head]] # "Running"
    BY <1>11
  <2> QED BY <1>3, <1>12, <2>1, TopFrame, GroupReadType
<1>14. HeadAmong(Below, Len(Below), j)
  BY <1>4, <1>8
<1>15. NoteJoins(Below, stack, Top.outer, m.note)
  <2>1. ASSUME Top.outer # None PROVE heads'[Top.outer.head] = Top.outer.head
    <3>1. FixpointAt(Below, Len(Below), Top.outer)
      BY <1>7 DEF FramesFit
    <3>2. PICK i \in 1..Len(Below) : Below[i].kind = "resolve" /\ Below[i].head = Top.outer.head
      BY <2>1, <3>1, FixpointFrame
    <3>3. i \in DOMAIN ctl /\ ctl[i] = Below[i] /\ i \in DOMAIN Below
      BY <1>2, BelowKeeps
    <3>4. ctl[i].head \in Ctx /\ heads[ctl[i].head] = ctl[i].head
      BY <3>2, <3>3, HeadResolves
    <3>5. Below[i].head # Top.head
      BY <1>2, <3>2, <3>3, ResolveBelow
    <3> QED BY <1>10, <3>2, <3>3, <3>4, <3>5
  <2>2. state'[heads'[Top.head]] # "Running" => HeadAmong(Below, Len(Below), heads'[Top.head])
    BY <1>11, <1>14
  <2> QED BY <1>3, <1>12, <2>1, <2>2, TopFrame, GroupReadJoins
<1> HIDE DEF m
<1>16. HeadsNoted(state', heads', Below, stack, rd, Top.outer, m.note)
  <2> SUFFICES ASSUME NEW c \in Ctx, state'[c] \in Waiting
               PROVE  \/ HeadAmong(Below, Len(Below), heads'[c])
                      \/ \E i \in DOMAIN stack :
                            stack[i] = heads'[c] /\ Told(Below, stack, rd, Top.outer, i - 1)
    BY DEF HeadsNoted
  <2>1. CASE heads[c] = Top.head
    BY <1>10, <1>14, <2>1
  <2>2. CASE heads[c] # Top.head
    <3>1. Headed(ctl, stack, read, fixpoint, heads[c]) /\ heads'[c] = heads[c]
      BY <1>10, <2>2 DEF WaitersInv, HeadsFit
    <3>2. CASE HeadAmong(ctl, Len(ctl), heads[c])
      BY <1>8, <2>2, <3>1, <3>2
    <3>3. CASE ~HeadAmong(ctl, Len(ctl), heads[c])
      <4>1. PICK i \in DOMAIN stack : stack[i] = heads[c] /\ Told(ctl, stack, read, fixpoint, i - 1)
        BY <3>1, <3>3 DEF Headed
      <4>2. i - 1 \in Nat /\ ~(r.lowest <= i - 1)
        BY <1>1, <1>3, TopFrame, SeqType, LimitAssumption DEF Counted, NoDepth, r
      <4> QED BY <1>8, <3>1, <4>1, <4>2
    <3> QED BY <3>2, <3>3
  <2> QED BY <2>1, <2>2
<1>17. /\ IsInjective(stack) /\ Len(stack) <= NoDepth /\ stack \in Seq(Ctx) /\ stack' = stack
  BY <1>1, StackDistinct, TopFrame DEF Counted, NoDepth
<1> QED BY <1>1, <1>6, <1>7, <1>8, <1>9, <1>13, <1>15, <1>16, <1>17, WaitersAfterReturn

(* Everything parked under the head of the fixpoint on top joins it, and   *)
(* what joins or is left is there once.                                    *)
LEMMA JoinersExact ==
  ASSUME Inv, WaitersInv, Top.kind = "resolve"
  PROVE  LET left == Left(parked, heads, Top.head) IN
         /\ Joiners \in Seq(Ctx) /\ IsInjective(Joiners) /\ IsInjective(left)
         /\ Range(Joiners) = {c \in Range(parked) : heads[c] = Top.head}
         /\ Range(left) = {c \in Range(parked) : heads[c] # Top.head}
<1>1. parked \in Seq(Ctx) /\ heads \in [Ctx -> Ctx] /\ Top.head \in Ctx /\ IsInjective(parked)
  BY ResolveOnTop DEF Inv, TypeOK, WaitersInv, ListsFit
<1>2. PICK ps \in Seq(Ctx) : ps = parked /\ IsInjective(ps)
  BY <1>1
<1>3. PICK hs \in [Ctx -> Ctx] : hs = heads
  BY <1>1
<1>4. PICK h \in Ctx : h = Top.head
  BY <1>1
<1>5. /\ Taken(ps, hs, h) \in Seq(Ctx)
      /\ Range(Taken(ps, hs, h)) = {d \in Range(ps) : hs[d] = h}
      /\ Range(Left(ps, hs, h)) = {d \in Range(ps) : hs[d] # h}
      /\ IsInjective(ps) => IsInjective(Taken(ps, hs, h)) /\ IsInjective(Left(ps, hs, h))
  BY ZenonT(30), TakenLeft
<1>6. Joiners = Taken(ps, hs, h) /\ Left(parked, heads, Top.head) = Left(ps, hs, h)
  BY <1>2, <1>3, <1>4 DEF Joiners
<1> QED BY <1>2, <1>3, <1>4, <1>5, <1>6

(* A resolving context is a member of the fixpoint of its group.           *)
LEMMA ResolvingUnder ==
  ASSUME Inv, WaitersInv, NEW c \in Ctx, state[c] = "Resolving"
  PROVE  \E i \in DOMAIN ctl : /\ ctl[i].kind = "resolve" /\ c \in Range(ctl[i].members)
                               /\ ctl[i].head = heads[c]
<1>1. PICK i \in DOMAIN ctl : ctl[i].kind = "resolve" /\ c \in Range(ctl[i].members)
  BY DEF WaitersInv, ListsFit
<1> QED BY <1>1 DEF Inv, GroupsFit

(* When a round is over the fixpoint was told nothing since its last       *)
(* member, and everything that waits under its head is a member or joins.  *)
LEMMA RoundOverFacts ==
  ASSUME Inv, WaitersInv, RoundOver
  PROVE  /\ Top.kind = "resolve" /\ Top.pc = 1 /\ Top.site = None /\ Quiet(fixpoint.read)
         /\ \A c \in Ctx : state[c] \in Waiting /\ heads[c] = Top.head =>
               c \in Range(Top.members) \/ c \in Range(Joiners)
<1>1. Top.kind = "resolve" /\ Top.at > Len(Top.members)
  BY DEF RoundOver
<1>2. Len(ctl) \in DOMAIN ctl /\ Top = ctl[Len(ctl)]
  BY TopFrame
<1>3. Top.pc = 1 /\ Top.site = None
  BY <1>1, <1>2 DEF WaitersInv, ReplaysFit
<1>4. Quiet(fixpoint.read)
  BY <1>1, <1>2, <1>3 DEF WaitersInv, ReplaysFit
<1>5. ASSUME NEW c \in Ctx, state[c] \in Waiting, heads[c] = Top.head
      PROVE  c \in Range(Top.members) \/ c \in Range(Joiners)
  <2>1. CASE state[c] = "Parked"
    <3>1. c \in Range(parked)
      BY <2>1 DEF WaitersInv, ListsFit
    <3> QED BY <1>1, <1>5, <3>1, JoinersExact
  <2>2. CASE state[c] = "Resolving"
    <3>1. PICK i \in DOMAIN ctl : /\ ctl[i].kind = "resolve" /\ c \in Range(ctl[i].members)
                                  /\ ctl[i].head = Top.head
      BY <1>5, <2>2, ResolvingUnder
    <3>2. i = Len(ctl)
      BY <1>1, <1>2, <3>1 DEF Inv, GroupsFit
    <3> QED BY <1>2, <3>1, <3>2
  <2> QED BY <1>5, <2>1, <2>2 DEF Waiting
<1> QED BY <1>1, <1>3, <1>4, <1>5

(* Who joined the group is a member from the next round on.                *)
LEMMA WaitersNextRound ==
  ASSUME Inv, WaitersInv, NextRound, Inv'
  PROVE  WaitersInv'
<1> DEFINE ms == Top.members \o Joiners
           new == Range(Joiners)
           now == walk[ms[1]].resolved
           left == Left(parked, heads, Top.head)
           fr == [Top EXCEPT !.members = ms, !.round = @ + 1, !.changed = FALSE,
                             !.at = 1, !.pc = 1, !.now = now]
<1>1. /\ RoundOver /\ parked' = left
      /\ state' = [c \in Ctx |-> IF c \in new THEN "Resolving" ELSE state[c]]
      /\ ctl' = [ctl EXCEPT ![Len(ctl)] = fr]
      /\ UNCHANGED <<read, heads, stack, fixpoint>>
  BY DEF NextRound, FromRoundZero, SetTop
<1>2. /\ Top.kind = "resolve" /\ Top.pc = 1 /\ Top.site = None /\ Quiet(fixpoint.read)
  BY <1>1, RoundOverFacts
<1>3. /\ Top \in ResolveFrame /\ Top.members \in Seq(Ctx)
      /\ \A c \in Range(Top.members) : state[c] = "Resolving"
  BY <1>2, ResolveOnTop
<1>4. /\ Joiners \in Seq(Ctx) /\ IsInjective(Joiners) /\ IsInjective(left)
      /\ new = {c \in Range(parked) : heads[c] = Top.head}
      /\ Range(left) = {c \in Range(parked) : heads[c] # Top.head}
      /\ \A c \in new : state[c] = "Parked"
  BY <1>2, JoinersExact, JoinersType
<1>5. PICK n \in Nat : /\ n = Len(ctl) /\ n >= 1 /\ DOMAIN ctl = 1..n /\ n \in 1..n /\ 1 \in 1..n
                       /\ Top = ctl[n] /\ ctl \in Seq(Frame)
  BY TopFrame, SeqType
<1>6. ListsFit(state, parked, ctl)
  BY DEF WaitersInv
<1>7. ms \in Seq(Ctx) /\ Range(ms) = Range(Top.members) \cup new /\ IsInjective(ms)
  <2>1. IsInjective(Top.members)
    BY <1>2, <1>5, <1>6 DEF ListsFit
  <2>2. Range(Top.members) \cap new = {}
    BY <1>3, <1>4
  <2>3. IsInjective(ms)
    BY <1>3, <1>4, <2>1, <2>2, ConcatInjective
  <2>4. ms \in Seq(Ctx) /\ Range(ms) = Range(Top.members) \cup new
    BY <1>3, <1>4, RangeOfConcat
  <2> QED BY <2>3, <2>4
<1> HIDE DEF ms, new, now, left
<1>8. /\ fr.kind = "resolve" /\ fr.base = Top.base /\ fr.head = Top.head /\ fr.outer = Top.outer
      /\ fr.members = ms /\ fr.pc = 1 /\ fr.site = None
  BY <1>2, <1>3 DEF ResolveFrame
<1> HIDE DEF fr
<1>9. /\ ctl' \in Seq(Frame) /\ Len(ctl') = n /\ DOMAIN ctl' = 1..n
      /\ ctl'[n] = fr /\ \A i \in 1..n : i # n => ctl'[i] = ctl[i]
  <2>1. ctl' \in Seq(Frame)
    BY DEF Inv, TypeOK
  <2>2. DOMAIN ctl' = 1..n /\ ctl'[n] = fr /\ \A i \in 1..n : i # n => ctl'[i] = ctl[i]
    BY <1>1, <1>5
  <2>3. Len(ctl') = n
    BY <1>5, <2>1, <2>2, SeqType
  <2> QED BY <2>1, <2>2, <2>3
<1>10. \A i \in 1..n : SameLinks(ctl[i], ctl'[i])
  BY <1>2, <1>5, <1>8, <1>9 DEF SameLinks
<1>11. ctl'[1].base = 0
  <2>1. ctl'[1].base = ctl[1].base
    BY <1>5, <1>10 DEF SameLinks
  <2> QED BY <2>1 DEF WaitersInv
<1>12. ListsFit(state', parked', ctl')
  <2>1. \A i \in 1..n : ctl'[i].kind = "resolve" => IsInjective(ctl'[i].members)
    BY <1>5, <1>6, <1>7, <1>8, <1>9 DEF ListsFit
  <2>2. ASSUME NEW c \in Ctx, state'[c] = "Parked" PROVE c \in Range(parked')
    BY <1>1, <1>4, <1>6, <2>2 DEF ListsFit
  <2>3. ASSUME NEW c \in Ctx, state'[c] = "Resolving"
        PROVE  \E i \in 1..n : ctl'[i].kind = "resolve" /\ c \in Range(ctl'[i].members)
    <3>1. CASE c \in Range(ms)
      BY <1>5, <1>8, <1>9, <3>1
    <3>2. CASE c \notin Range(ms)
      <4>1. state[c] = "Resolving" /\ c \notin Range(Top.members)
        BY <1>1, <1>7, <2>3, <3>2
      <4>2. PICK i \in 1..n : ctl[i].kind = "resolve" /\ c \in Range(ctl[i].members)
        BY <1>5, <1>6, <4>1 DEF ListsFit
      <4>3. i # n
        BY <1>5, <4>1, <4>2
      <4> QED BY <1>9, <4>2, <4>3
    <3> QED BY <3>1, <3>2
  <2> QED BY <1>1, <1>4, <1>9, <2>1, <2>2, <2>3 DEF ListsFit
<1>13. ReplaysFit(ctl', fixpoint')
  <2>1. ASSUME NEW i \in 1..n, ctl'[i].kind = "resolve", ctl'[i].at > Len(ctl'[i].members)
        PROVE  i = n /\ ctl'[i].pc = 1 /\ ctl'[i].site = None
    <3>1. CASE i = n
      BY <1>8, <1>9, <3>1
    <3>2. CASE i # n
      BY <1>5, <1>9, <2>1, <3>2 DEF WaitersInv, ReplaysFit
    <3> QED BY <3>1, <3>2
  <2> QED BY <1>1, <1>2, <1>9, <2>1 DEF ReplaysFit
<1>14. /\ JoinsFit(ctl', stack, read, fixpoint)
       /\ \A h : HeadAmong(ctl, Len(ctl), h) => HeadAmong(ctl', Len(ctl'), h)
       /\ \A k : Told(ctl, stack, read, fixpoint, k) => Told(ctl', stack, read, fixpoint, k)
  <2>1. JoinsFit(ctl, stack, read, fixpoint)
    BY DEF WaitersInv
  <2> QED BY <1>5, <1>9, <1>10, <2>1, SameLinksFit
<1>15. HeadsFit(state', heads', ctl', stack', read', fixpoint')
  <2>1. \A c \in Ctx : state'[c] \in Waiting => state[c] \in Waiting
    BY <1>1, <1>4 DEF Waiting
  <2> QED BY <1>1, <1>14, <2>1 DEF WaitersInv, HeadsFit, Headed
<1> QED BY <1>1, <1>11, <1>12, <1>13, <1>14, <1>15 DEF WaitersInv

(* What a group that settles answers.                                      *)
LEMMA SettleReturns ==
  ASSUME Inv, Settle
  PROVE  \E rd \in [Ctx -> Note], cut \in Cut \cup {None}, got \in (SUBSET V) \cup {None} :
            /\ \A c \in Ctx : rd[c].lowest = read[c].lowest /\ rd[c].joins = read[c].joins
            /\ Return(Below, rd, Top.outer, stack, IsCut(cut), got)
<1> DEFINE seq == Top.members \o Joiners
           ms == Range(seq)
           new == Range(Joiners)
           cut == IF fixpoint.read.cut # None THEN fixpoint.read.cut ELSE FirstCut(seq)
           last(c) == IF c \in new THEN RoundZero(walk[c]) ELSE current[c]
           res(c) == [last(c) EXCEPT !.capped = Capped(Top), !.cut = cut]
           rd == [c \in Ctx |-> IF c \in ms THEN [read[c] EXCEPT !.cut = cut] ELSE read[c]]
           got == res(Top.head).returns
<1>1. RoundOver /\ Return(Below, rd, Top.outer, stack, IsCut(cut), got)
  BY DEF Settle
<1>2. Top.kind = "resolve"
  BY <1>1 DEF RoundOver
<1>3. /\ Top.head \in Ctx /\ Top.members \in Seq(Ctx) /\ Top.head \in Range(Top.members)
      /\ state[Top.head] = "Resolving" /\ current[Top.head] \in FunctionResult
      /\ fixpoint.read \in Note
  BY <1>2, ResolveOnTop DEF NoteAt
<1>4. Joiners \in Seq(Ctx) /\ \A c \in new : state[c] = "Parked"
  BY <1>2, JoinersType
<1>5. seq \in Seq(Ctx)
  BY <1>3, <1>4, RangeOfConcat
<1>6. cut \in Cut \cup {None}
  <2>1. fixpoint.read.cut \in Cut \cup {None}
    BY <1>3 DEF Note
  <2>2. FirstCut(seq) \in Cut \cup {None}
    BY <1>5, TopFrame, FirstCutType
  <2> HIDE DEF seq
  <2> QED BY <2>1, <2>2
<1> HIDE DEF cut, ms, seq
<1>7. rd \in [Ctx -> Note]
  <2>1. \A c \in Ctx : [read[c] EXCEPT !.cut = cut] \in Note
    BY <1>6, TopFrame DEF Note
  <2> QED BY <2>1, TopFrame
<1>8. ASSUME NEW c \in Ctx
      PROVE  rd[c].lowest = read[c].lowest /\ rd[c].joins = read[c].joins
  <2>1. read[c] \in Note
    BY TopFrame
  <2> QED BY <2>1 DEF Note
<1>9. got \in (SUBSET V) \cup {None}
  <2>1. last(Top.head) = current[Top.head]
    BY <1>3, <1>4
  <2>2. got = current[Top.head].returns
    <3> HIDE DEF last
    <3>1. got = last(Top.head).returns
      BY <1>3, <2>1 DEF FunctionResult
    <3> QED BY <2>1, <3>1
  <2> HIDE DEF got
  <2> QED BY <1>3, <2>2, ReturnsType
<1> HIDE DEF rd, got
<1> QED BY <1>1, <1>6, <1>7, <1>8, <1>9

(* A group that settles: nobody waits for it any more.                     *)
LEMMA WaitersSettle ==
  ASSUME Inv, Counted, WaitersInv, Settle
  PROVE  WaitersInv'
<1> DEFINE ms == Range(Top.members \o Joiners)
           left == Left(parked, heads, Top.head)
<1>1. /\ RoundOver /\ parked' = left /\ heads' = heads /\ stack' = stack
      /\ \A c \in Ctx : IF c \in ms THEN state'[c] \in {"Ready", "Cut"} ELSE state'[c] = state[c]
  BY DEF Settle
<1>2. PICK rd \in [Ctx -> Note], cut \in Cut \cup {None}, got \in (SUBSET V) \cup {None} :
         /\ \A c \in Ctx : rd[c].lowest = read[c].lowest /\ rd[c].joins = read[c].joins
         /\ Return(Below, rd, Top.outer, stack, IsCut(cut), got)
  BY SettleReturns
<1>3. /\ Top.kind = "resolve" /\ fixpoint.read.lowest = NoDepth
      /\ \A c \in Ctx : state[c] \in Waiting /\ heads[c] = Top.head =>
            c \in Range(Top.members) \/ c \in Range(Joiners)
  BY <1>1, RoundOverFacts DEF Quiet
<1>4. /\ Joiners \in Seq(Ctx) /\ IsInjective(left) /\ Top.members \in Seq(Ctx)
      /\ Range(Joiners) = {c \in Range(parked) : heads[c] = Top.head}
      /\ Range(left) = {c \in Range(parked) : heads[c] # Top.head}
  BY <1>3, JoinersExact, ResolveOnTop
<1>5. ms = Range(Top.members) \cup Range(Joiners)
  BY <1>4, RangeOfConcat
<1> HIDE DEF ms, left
<1>6. \A c \in Ctx : state'[c] \in Waiting =>
         state[c] \in Waiting /\ state'[c] = state[c] /\ heads[c] # Top.head /\ c \notin ms
  BY <1>1, <1>3, <1>5 DEF Waiting
<1>7. \A c \in Ctx : rd[c].lowest <= read[c].lowest /\ rd[c].joins = read[c].joins
  <2> SUFFICES ASSUME NEW c \in Ctx PROVE rd[c].lowest <= read[c].lowest
    BY <1>2
  <2>1. read[c].lowest \in Nat
    BY TopFrame DEF Note
  <2> QED BY <1>2, <2>1
<1>8. /\ \A h : HeadAmong(ctl, Len(ctl), h) /\ h # Top.head => HeadAmong(Below, Len(Below), h)
      /\ JoinsFit(Below, stack, rd, Top.outer)
      /\ \A k \in Nat : Told(ctl, stack, read, fixpoint, k) =>
               Told(Below, stack, rd, Top.outer, k) \/ fixpoint.read.lowest <= k
  BY <1>3, <1>7, WaitersBelowResolve
<1>9. PICK n \in Nat : /\ n = Len(Below) /\ DOMAIN Below = 1..n /\ DOMAIN ctl = 1..(n + 1)
                       /\ \A i \in 1..n : Below[i] = ctl[i]
                       /\ ctl[n + 1] = Top
  BY <1>3, BelowKeeps
<1>10. ListsFit(state', parked', Below)
  <2>1. ListsFit(state, parked, ctl)
    BY DEF WaitersInv
  <2>2. ASSUME NEW c \in Ctx, state'[c] = "Parked" PROVE c \in Range(parked')
    <3>1. c \in Range(parked) /\ heads[c] # Top.head
      BY <1>6, <2>1, <2>2 DEF ListsFit, Waiting
    <3> QED BY <1>1, <1>4, <3>1
  <2>3. ASSUME NEW c \in Ctx, state'[c] = "Resolving"
        PROVE  \E i \in 1..n : Below[i].kind = "resolve" /\ c \in Range(Below[i].members)
    <3>1. state[c] = "Resolving" /\ c \notin Range(Top.members)
      BY <1>5, <1>6, <2>3 DEF Waiting
    <3>2. PICK i \in 1..(n + 1) : ctl[i].kind = "resolve" /\ c \in Range(ctl[i].members)
      BY <1>9, <2>1, <3>1 DEF ListsFit
    <3>3. i # n + 1
      BY <1>9, <3>1, <3>2
    <3> QED BY <1>9, <3>2, <3>3
  <2>4. \A i \in 1..n : Below[i].kind = "resolve" => IsInjective(Below[i].members)
    BY <1>9, <2>1 DEF ListsFit
  <2> QED BY <1>1, <1>4, <1>9, <2>2, <2>3, <2>4 DEF ListsFit
<1>11. HeadsNoted(state', heads', Below, stack, rd, Top.outer, IsCut(cut))
  <2> SUFFICES ASSUME NEW c \in Ctx, state'[c] \in Waiting
               PROVE  \/ HeadAmong(Below, Len(Below), heads[c])
                      \/ \E i \in DOMAIN stack :
                            stack[i] = heads[c] /\ Told(Below, stack, rd, Top.outer, i - 1)
    BY <1>1 DEF HeadsNoted
  <2>1. Headed(ctl, stack, read, fixpoint, heads[c]) /\ heads[c] # Top.head
    BY <1>6 DEF WaitersInv, HeadsFit
  <2>2. CASE HeadAmong(ctl, Len(ctl), heads[c])
    BY <1>8, <2>1, <2>2
  <2>3. CASE ~HeadAmong(ctl, Len(ctl), heads[c])
    <3>1. PICK i \in DOMAIN stack : stack[i] = heads[c] /\ Told(ctl, stack, read, fixpoint, i - 1)
      BY <2>1, <2>3 DEF Headed
    <3>2. i - 1 \in Nat /\ ~(fixpoint.read.lowest <= i - 1)
      BY <1>3, TopFrame, SeqType, LimitAssumption DEF Counted, NoDepth
    <3> QED BY <1>8, <3>1, <3>2
  <2> QED BY <2>2, <2>3
<1>12. NoteAt(IsCut(cut), Len(stack)) /\ NoteJoins(Below, stack, Top.outer, IsCut(cut))
  BY TopFrame, IsCutType DEF IsCut, Nothing, NoteJoins
<1>13. /\ Below \in Seq(Frame) /\ FramesFit(Below, stack, Top.outer)
       /\ CallersWait(Below) /\ Waits(Below[Len(Below)])
       /\ Top.outer \in Fixpoint \cup {None} /\ Below[1].base = 0 /\ Replayable(Below)
  BY <1>3, ResolveBelow, BelowKeeps
<1>14. /\ IsInjective(stack) /\ Len(stack) <= NoDepth /\ stack \in Seq(Ctx)
  BY StackDistinct, TopFrame DEF Counted, NoDepth
<1> QED BY <1>1, <1>2, <1>8, <1>10, <1>11, <1>12, <1>13, <1>14, WaitersAfterReturn

-----------------------------------------------------------------------------
(* The invariant.                                                          *)

(* solve starts with nobody waiting.                                       *)
LEMMA InitWaiters == Init => WaitersInv
<1> SUFFICES ASSUME Init PROVE WaitersInv
  OBVIOUS
<1>1. PICK f \in Entries :
         ctl = <<[kind |-> "solve", base |-> 0, ctx |-> Key(f, {}), answered |-> FALSE]>>
  BY DEF Init
<1>2. /\ Len(ctl) = 1 /\ DOMAIN ctl = {1} /\ ctl[1].kind = "solve" /\ ctl[1].base = 0
  BY <1>1
<1>3. /\ parked = <<>> /\ stack = <<>> /\ fixpoint = None
      /\ \A c \in Ctx : state[c] = "New"
  BY DEF Init
<1>4. ListsFit(state, parked, ctl)
  BY <1>2, <1>3 DEF ListsFit, IsInjective
<1>5. ReplaysFit(ctl, fixpoint)
  BY <1>2 DEF ReplaysFit
<1>6. JoinsFit(ctl, stack, read, fixpoint)
  BY <1>2, <1>3 DEF JoinsFit, FixpointJoins
<1>7. HeadsFit(state, heads, ctl, stack, read, fixpoint)
  BY <1>3 DEF HeadsFit, Waiting
<1> QED BY <1>2, <1>4, <1>5, <1>6, <1>7 DEF WaitersInv

(* Every step keeps the waiting contexts in their lists, under a head that *)
(* will resolve them.                                                      *)
LEMMA WaitersNext == Inv /\ Counted /\ WaitersInv /\ [Next]_vars => WaitersInv'
<1> SUFFICES ASSUME Inv, Counted, WaitersInv, [Next]_vars PROVE WaitersInv'
  OBVIOUS
<1>0. Inv'
  BY NextInv
<1>1. CASE Get
  BY <1>1, WaitersGetReady, WaitersGetRunning, WaitersGetGroupMember, WaitersGetCut,
     WaitersGetWalk DEF Get
<1>2. CASE WalkStep
  BY <1>0, <1>2, WaitersWalkOn, WaitersParkInCycle, WaitersParkInGroup, WaitersFinishAlone
     DEF WalkStep
<1>3. CASE FixpointStep
  BY <1>0, <1>3, WaitersResolveGroup, WaitersReplayCall, WaitersReplayDone, WaitersNextMember,
     WaitersMerged, WaitersJoined, WaitersNextRound, WaitersSettle DEF FixpointStep
<1>4. CASE DeadlinePasses \/ Finished \/ UNCHANGED vars
  <2>1. UNCHANGED <<state, read, heads, parked, stack, fixpoint, ctl>>
    BY <1>4 DEF DeadlinePasses, Finished, vars, slots
  <2> QED BY <2>1 DEF WaitersInv
<1> QED BY <1>1, <1>2, <1>3, <1>4 DEF Next, Thread

(* In every reachable state of every program, each waiting context is in   *)
(* its list once and has a head that will resolve it: WaitersInv is        *)
(* inductive together with Inv and the count of the slots.                 *)
THEOREM WaitersInvariance == Spec => [](Inv /\ WaitersInv)
<1>1. Init => Inv /\ Counted /\ WaitersInv
  BY InitInv, InitCounted, InitWaiters
<1>2. (Inv /\ Counted /\ WaitersInv) /\ [Next]_vars => (Inv /\ Counted /\ WaitersInv)'
  BY NextInv, CountedNext, WaitersNext
<1> QED BY <1>1, <1>2, PTL DEF Spec

-----------------------------------------------------------------------------
(* What it gives.                                                          *)

(* Where a context is held.                                                *)
LEMMA HolderIs ==
  ASSUME Inv, NEW c \in Ctx, NEW h
  PROVE  h \in Holders(c) <=>
            \/ \E j \in DOMAIN parked : parked[j] = c /\ h = <<0, j>>
            \/ \E i \in DOMAIN ctl : /\ ctl[i].kind = "resolve"
                                     /\ \E j \in DOMAIN ctl[i].members :
                                           ctl[i].members[j] = c /\ h = <<i, j>>
  BY DEF Holders, Fixpoints

(* A context that waits is held in one place, its own; one that does not   *)
(* is held nowhere.                                                        *)
LEMMA HeldOnce ==
  ASSUME Inv, WaitersInv, NEW c \in Ctx
  PROVE  /\ state[c] \in Waiting =>
               \E h \in Holders(c) : Holders(c) = {h} /\ (state[c] = "Parked" <=> h[1] = 0)
         /\ state[c] \notin Waiting => Holders(c) = {}
<1>1. \A j \in DOMAIN parked : parked[j] = c => state[c] = "Parked"
  BY DEF Inv, GroupsFit, Range
<1>2. ASSUME NEW i \in DOMAIN ctl, ctl[i].kind = "resolve",
             NEW j \in DOMAIN ctl[i].members, ctl[i].members[j] = c
      PROVE  state[c] = "Resolving" /\ heads[c] = ctl[i].head
  <2>1. c \in Range(ctl[i].members)
    BY <1>2 DEF Range
  <2> QED BY <1>2, <2>1 DEF Inv, GroupsFit
<1>3. CASE state[c] = "Parked"
  <2>1. PICK j \in DOMAIN parked : parked[j] = c
    BY <1>3 DEF WaitersInv, ListsFit, Range
  <2>2. IsInjective(parked)
    BY DEF WaitersInv, ListsFit
  <2>3. PICK p : p = <<0, j>>
    OBVIOUS
  <2>4. p \in Holders(c) /\ p[1] = 0
    BY <2>1, <2>3, HolderIs
  <2>5. ASSUME NEW h \in Holders(c) PROVE h = p
    <3>1. PICK k \in DOMAIN parked : parked[k] = c /\ h = <<0, k>>
      BY <1>2, <1>3, <2>5, HolderIs
    <3>2. k = j
      BY <2>1, <2>2, <3>1 DEF IsInjective
    <3> QED BY <2>3, <3>1, <3>2
  <2>6. Holders(c) = {p}
    BY <2>4, <2>5
  <2> QED BY <1>3, <2>4, <2>6 DEF Waiting
<1>4. CASE state[c] = "Resolving"
  <2>1. PICK i \in DOMAIN ctl : ctl[i].kind = "resolve" /\ c \in Range(ctl[i].members)
    BY <1>4 DEF WaitersInv, ListsFit
  <2>2. PICK j \in DOMAIN ctl[i].members : ctl[i].members[j] = c
    BY <2>1 DEF Range
  <2>3. PICK p : p = <<i, j>>
    OBVIOUS
  <2>4. p \in Holders(c) /\ p[1] = i
    BY <2>1, <2>2, <2>3, HolderIs
  <2>5. p[1] # 0
    <3>1. i \in 1..Len(ctl)
      BY TopFrame, SeqType
    <3> QED BY <2>4, <3>1
  <2>6. ASSUME NEW h \in Holders(c) PROVE h = p
    <3>1. PICK k \in DOMAIN ctl : \E m \in DOMAIN ctl[k].members :
             ctl[k].kind = "resolve" /\ ctl[k].members[m] = c /\ h = <<k, m>>
      BY <1>1, <1>4, <2>6, HolderIs
    <3>2. PICK m \in DOMAIN ctl[k].members :
             ctl[k].kind = "resolve" /\ ctl[k].members[m] = c /\ h = <<k, m>>
      BY <3>1
    <3>3. ctl[k].head = ctl[i].head
      BY <1>2, <2>1, <2>2, <3>2
    <3>4. k = i
      BY <2>1, <3>2, <3>3 DEF Inv, GroupsFit
    <3>5. IsInjective(ctl[i].members)
      BY <2>1 DEF WaitersInv, ListsFit
    <3>6. m = j
      BY <2>2, <3>2, <3>4, <3>5 DEF IsInjective
    <3> QED BY <2>3, <3>2, <3>4, <3>6
  <2>7. Holders(c) = {p}
    BY <2>4, <2>6
  <2> QED BY <1>4, <2>4, <2>5, <2>7 DEF Waiting
<1>5. CASE state[c] \notin Waiting
  <2>1. \A h : h \notin Holders(c)
    BY <1>1, <1>2, <1>5, HolderIs DEF Waiting
  <2> QED BY <1>5, <2>1
<1> QED BY <1>3, <1>4, <1>5 DEF Waiting

(* What waits waits for a walk or a fixpoint in progress.                  *)
LEMMA WaitsForSome ==
  ASSUME Inv, WaitersInv, NEW c \in Ctx, state[c] \in Waiting
  PROVE  state[heads[c]] = "Running" \/ \E i \in Fixpoints : ctl[i].head = heads[c]
<1>1. Headed(ctl, stack, read, fixpoint, heads[c])
  BY DEF WaitersInv, HeadsFit
<1>2. CASE HeadAmong(ctl, Len(ctl), heads[c])
  BY <1>2, TopFrame, SeqType DEF HeadAmong, Fixpoints
<1>3. CASE \E i \in DOMAIN stack : stack[i] = heads[c]
  <2>1. heads[c] \in Range(stack) /\ heads[c] \in Ctx
    BY <1>3 DEF Range, Inv, TypeOK
  <2> QED BY <2>1 DEF Inv, StackMatches
<1> QED BY <1>1, <1>2, <1>3 DEF Headed

(* No waiting context is ever lost, held twice, or left under a head that  *)
(* nobody resolves, and none of the solver's expects fires, whatever the   *)
(* program, the limits and the deadline.                                   *)
THEOREM WaitersHeld == Spec => []WaitersAreHeld
<1>1. Inv /\ WaitersInv => WaitersAreHeld
  <2> SUFFICES ASSUME Inv, WaitersInv, NEW c \in Ctx
               PROVE  /\ state[c] \in Waiting =>
                           /\ walk[c] # None /\ current[c] # None
                           /\ \E h \in Holders(c) :
                                 Holders(c) = {h} /\ (state[c] = "Parked" <=> h[1] = 0)
                           /\ \/ state[heads[c]] = "Running"
                              \/ \E i \in Fixpoints : ctl[i].head = heads[c]
                      /\ state[c] \notin Waiting => Holders(c) = {}
    BY DEF WaitersAreHeld, Waiting
  <2>1. state[c] \in Waiting => walk[c] # None /\ current[c] # None
    BY NoneAssumption DEF Inv, SlotsFit, Waiting
  <2> QED BY <2>1, HeldOnce, WaitsForSome
<1> QED BY <1>1, WaitersInvariance, PTL

(* When solve returns, every context it met is final: nothing is parked,   *)
(* no fixpoint is in progress and no walk is on the stack.                 *)
THEOREM NothingWaitsAtTheEnd == Spec => []NothingLeftWaiting
<1>1. Inv /\ WaitersInv => NothingLeftWaiting
  <2> SUFFICES ASSUME Inv, WaitersInv, Done
               PROVE  /\ parked = <<>> /\ stack = <<>> /\ fixpoint = None
                      /\ \A c \in Ctx : state[c] \in {"New", "Ready", "Cut"}
    BY DEF NothingLeftWaiting
  <2>1. Len(ctl) = 1 /\ DOMAIN ctl = 1..1 /\ ctl[1] \in Frame
    BY TopFrame, SeqType DEF Done
  <2>2. ctl[1].kind = "solve" /\ ctl[1].base = 0
    BY <2>1 DEF Inv, FramesFit, WaitersInv
  <2>3. stack = <<>>
    <3>1. Len(stack) = 0
      BY <2>1, <2>2, HeightType DEF Inv, FramesFit
    <3>2. stack \in Seq(Ctx)
      BY TopFrame
    <3> QED BY <3>1, <3>2
  <2>4. fixpoint = None
    BY <2>1, <2>2 DEF Inv, FramesFit, FixpointAt
  <2>5. ASSUME NEW c \in Ctx PROVE state[c] \notin Waiting
    BY <2>1, <2>2, <2>3 DEF WaitersInv, HeadsFit, Headed, HeadAmong
  <2>6. ASSUME NEW c \in Ctx PROVE state[c] # "Running"
    BY <2>3 DEF Inv, StackMatches, Range
  <2>7. \A c \in Ctx : state[c] \in {"New", "Ready", "Cut"}
    BY <2>5, <2>6 DEF Inv, TypeOK, Waiting
  <2>8. parked = <<>>
    <3> SUFFICES ASSUME parked # <<>> PROVE FALSE
      OBVIOUS
    <3>1. parked \in Seq(Ctx)
      BY DEF Inv, TypeOK
    <3>2. parked[Len(parked)] \in Range(parked) /\ parked[Len(parked)] \in Ctx
      BY <3>1, SeqType DEF Range
    <3>3. state[parked[Len(parked)]] = "Parked"
      BY <3>2 DEF Inv, GroupsFit
    <3> QED BY <2>7, <3>2, <3>3
  <2> QED BY <2>3, <2>4, <2>7, <2>8
<1> QED BY <1>1, WaitersInvariance, PTL
=============================================================================
