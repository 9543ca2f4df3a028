----------------------- MODULE CallSolverReaders_proofs ------------------------
(***************************************************************************)
(* The proof that a walk of CallSolver which finishes alone deferred       *)
(* nothing, and that no cut on the way to the entry is lost, for every     *)
(* program and every limit.                                                *)
(***************************************************************************)
EXTENDS CallSolverReaders, CallSolverWaiters_proofs

-----------------------------------------------------------------------------
(* Readers that are told more.                                             *)

(* What each slot read in rd it still did in rt.                           *)
Grown(rd, rt) ==
    \A c \in Ctx :
        /\ rt[c].lowest <= rd[c].lowest
        /\ rd[c].joins # None => rt[c].joins # None
        /\ rd[c].cut # None => rt[c].cut # None

(* A note keeps what it holds when more is noted, and gets the rest.       *)
LEMMA NotedGrows ==
  ASSUME NEW old \in Note, NEW n \in Note
  PROVE  /\ Noted(old, n).lowest <= old.lowest /\ Noted(old, n).lowest <= n.lowest
         /\ old.joins # None \/ n.joins # None => Noted(old, n).joins # None
         /\ old.cut # None \/ n.cut # None => Noted(old, n).cut # None
<1>1. old.lowest \in Nat /\ n.lowest \in Nat
  BY DEF Note
<1> QED BY <1>1 DEF Noted

(* Telling the reader is growth.                                           *)
LEMMA ReadsToldGrow ==
  ASSUME NEW rd \in [Ctx -> Note], NEW fx, NEW stk \in Seq(Ctx), NEW n \in Note
  PROVE  Grown(rd, ReadsTold(rd, fx, stk, n))
<1> DEFINE rt == ReadsTold(rd, fx, stk, n)
<1>1. ASSUME NEW c \in Ctx
      PROVE  /\ rt[c].lowest <= rd[c].lowest
             /\ rd[c].joins # None => rt[c].joins # None
             /\ rd[c].cut # None => rt[c].cut # None
  <2>1. rd[c] \in Note /\ rd[c].lowest \in Nat
    BY DEF Note
  <2>2. rt[c] = Noted(rd[c], n) \/ rt[c] = rd[c]
    BY ReadsToldKeeps
  <2> HIDE DEF rt
  <2> QED BY <2>1, <2>2, NotedGrows
<1> QED BY <1>1 DEF Grown

(* A fixpoint that read a cut still did.                                   *)
LEMMA FixpointToldCut ==
  ASSUME NEW fx \in Fixpoint \cup {None}, NEW stk \in Seq(Ctx), NEW n \in Note
  PROVE  /\ FixpointCut(fx) => FixpointCut(FixpointTold(fx, stk, n))
         /\ ReaderIsFixpoint(fx, stk) /\ n.cut # None => FixpointCut(FixpointTold(fx, stk, n))
<1>1. CASE ReaderIsFixpoint(fx, stk)
  <2>1. PICK ft : ft = FixpointTold(fx, stk, n) /\ ft # None /\ ft.read = Noted(fx.read, n)
    BY <1>1, FixpointToldKeeps
  <2>2. fx \in Fixpoint /\ fx.read \in Note
    BY <1>1 DEF ReaderIsFixpoint, Fixpoint
  <2> QED BY <1>1, <2>1, <2>2, NotedGrows DEF FixpointCut
<1>2. CASE ~ReaderIsFixpoint(fx, stk)
  BY <1>2, FixpointToldKeeps
<1> QED BY <1>1, <1>2

-----------------------------------------------------------------------------
(* Walks that deferred something.                                          *)

(* A walk that was told something still was when its slot has grown.       *)
LEMMA WalkToldGrows ==
  ASSUME NEW fr \in WalkFrame, NEW n \in Note, NEW m \in Note, WalkTold(fr, n),
         m.lowest <= n.lowest, n.joins # None => m.joins # None
  PROVE  WalkTold(fr, m)
<1>1. n.lowest \in Nat /\ m.lowest \in Nat /\ fr.base \in Nat
  BY WalkFrameType DEF Note
<1>2. Reads(n, fr.base) => Reads(m, fr.base)
  BY <1>1 DEF Reads
<1> QED BY <1>2 DEF WalkTold

(* So do all walks in progress.                                            *)
LEMMA WalksToldGrow ==
  ASSUME NEW cs \in Seq(Frame), NEW rd \in [Ctx -> Note], NEW rt \in [Ctx -> Note],
         Grown(rd, rt), WalksTold(cs, rd)
  PROVE  WalksTold(cs, rt)
<1>1. ASSUME NEW i \in DOMAIN cs, cs[i].kind = "walk" PROVE WalkTold(cs[i], rt[cs[i].ctx])
  <2>1. PICK c \in Ctx : c = cs[i].ctx
    BY <1>1, SeqType, FrameType, WalkFrameType
  <2>2. cs[i] \in WalkFrame /\ rd[c] \in Note /\ rt[c] \in Note
    BY <1>1, <2>1, SeqType, FrameType
  <2>3. WalkTold(cs[i], rd[c])
    BY <1>1, <2>1 DEF WalksTold
  <2>4. rt[c].lowest <= rd[c].lowest /\ (rd[c].joins # None => rt[c].joins # None)
    BY DEF Grown
  <2> QED BY <2>1, <2>2, <2>3, <2>4, WalkToldGrows
<1> QED BY <1>1 DEF WalksTold

(* A walk whose call is answered: it defers the call only if the answer is *)
(* pending, and then it was told why.                                      *)
LEMMA AnsweredTold ==
  ASSUME NEW fr \in WalkFrame, Waits(fr), NEW got \in (SUBSET V) \cup {None},
         NEW m, WalkTold(fr, m), got = None => Reads(m, fr.base)
  PROVE  WalkTold(Answered(fr, got), m)
<1>1. /\ fr.kind = "walk" /\ fr.w \in Walk /\ fr.site \in SiteCall /\ InSite(fr)
      /\ fr.w.deferred \in Seq(DeferredOp)
  BY WalkFrameType, WalkFields DEF Waits, InSite
<1>2. Answered(fr, got) = CallAnswered(fr, got)
  BY <1>1 DEF Answered
<1>3. CASE fr.site.arg = {} \/ got # None
  <2>1. PICK S : CallAnswered(fr, got) =
                     [fr EXCEPT !.site = SiteAnswered(fr.site, [known |-> S, pending |-> {}])]
    BY <1>1, <1>3 DEF CallAnswered, WalkFrame
  <2>2. PICK s : s = SiteAnswered(fr.site, [known |-> S, pending |-> {}])
    OBVIOUS
  <2>3. s.out.pending = fr.site.out.pending
    <3>1. s.out = Join(fr.site.out, [known |-> S, pending |-> {}])
      BY <1>1, <2>2 DEF SiteAnswered, SiteCall
    <3> QED BY <3>1 DEF Join
  <2>4. PICK gr : gr = [fr EXCEPT !.site = s] /\ gr = Answered(fr, got)
    BY <1>2, <2>1, <2>2
  <2>5. /\ gr.w = fr.w /\ gr.vals = fr.vals /\ gr.base = fr.base /\ gr.site = s
    BY <2>4 DEF WalkFrame
  <2>6. fr.site # None
    BY <1>1 DEF InSite
  <2> QED BY <2>3, <2>4, <2>5, <2>6 DEF WalkTold
<1>4. CASE ~(fr.site.arg = {} \/ got # None)
  <2> DEFINE op == [op |-> "Apply", ctx |-> Wanted(fr)]
             w == [fr.w EXCEPT !.deferred = Append(@, op)]
             s == SiteAnswered(fr.site, [known |-> {}, pending |-> {Len(fr.w.deferred) + 1}])
  <2>1. Answered(fr, got) = [fr EXCEPT !.w = w, !.site = s]
    BY <1>1, <1>2, <1>4 DEF CallAnswered, WalkFrame
  <2>2. w.deferred # <<>>
    <3>1. w.deferred = Append(fr.w.deferred, op)
      BY <1>1 DEF Walk
    <3> HIDE DEF op, w
    <3> QED BY <1>1, <3>1
  <2> HIDE DEF w, s
  <2>3. PICK gr : gr = Answered(fr, got) /\ gr.w = w /\ gr.vals = fr.vals /\ gr.base = fr.base
    BY <2>1 DEF WalkFrame
  <2> QED BY <1>4, <2>2, <2>3 DEF WalkTold
<1> QED BY <1>3, <1>4

(* An answer leaves the walks in progress told.                            *)
LEMMA WalksToldByAnswer ==
  ASSUME NEW cs \in Seq(Frame), cs # <<>>, Waits(cs[Len(cs)]),
         NEW got \in (SUBSET V) \cup {None}, NEW rt, WalksTold(cs, rt),
         cs[Len(cs)].kind = "walk" /\ got = None
            => Reads(rt[cs[Len(cs)].ctx], cs[Len(cs)].base)
  PROVE  WalksTold(Answer(cs, got), rt)
<1>1. PICK n \in Nat : n = Len(cs) /\ n \in 1..n /\ DOMAIN cs = 1..n
  BY SeqType
<1>2. PICK gr : gr = Answered(cs[n], got) /\ SameShape(cs[n], gr)
  BY <1>1, SeqType, AnsweredType
<1>3. PICK ds : ds = Answer(cs, got) /\ ds = [cs EXCEPT ![n] = gr]
  BY <1>1, <1>2 DEF Answer
<1>4. DOMAIN ds = 1..n /\ ds[n] = gr /\ \A i \in 1..n : i # n => ds[i] = cs[i]
  BY <1>1, <1>3
<1>5. ASSUME NEW i \in 1..n, ds[i].kind = "walk" PROVE WalkTold(ds[i], rt[ds[i].ctx])
  <2>1. CASE i # n
    BY <1>1, <1>4, <1>5, <2>1 DEF WalksTold
  <2>2. CASE i = n
    <3>1. cs[n].kind = "walk" /\ gr.ctx = cs[n].ctx /\ cs[n] \in WalkFrame
      BY <1>1, <1>2, <1>4, <1>5, <2>2, SeqType, FrameType DEF SameShape
    <3>2. WalkTold(cs[n], rt[cs[n].ctx])
      BY <1>1, <3>1 DEF WalksTold
    <3>3. WalkTold(gr, rt[cs[n].ctx])
      BY <1>1, <1>2, <3>1, <3>2, AnsweredTold
    <3> QED BY <1>4, <2>2, <3>1, <3>3
  <2> QED BY <2>1, <2>2
<1> QED BY <1>3, <1>4, <1>5 DEF WalksTold

(* Where a walk is on top, it is the reader.                               *)
LEMMA WalkReads ==
  ASSUME NEW cs \in Seq(Frame), NEW stk \in Seq(Ctx), NEW fx, FramesFit(cs, stk, fx),
         cs[Len(cs)].kind = "walk"
  PROVE  ~ReaderIsFixpoint(fx, stk)
<1>1. PICK n \in Nat : n = Len(cs) /\ DOMAIN cs = 1..n /\ n \in 1..n
  BY SeqType DEF FramesFit
<1>2. FixpointAt(cs, n, fx) /\ cs[n].base = Len(stk) - 1 /\ Len(stk) \in Nat
  <2>1. FixpointAt(cs, n, fx)
    BY <1>1 DEF FramesFit
  <2>2. cs[n].base = Len(stk) - 1
    BY <1>1, PopWalk
  <2> QED BY <2>1, <2>2, SeqType
<1> SUFFICES ASSUME fx # None, fx.base = Len(stk) PROVE FALSE
  BY DEF ReaderIsFixpoint
<1>3. PICK i \in 1..n : cs[i].kind = "resolve" /\ cs[i].base = fx.base
  BY <1>2, FixpointFrame
<1>4. i < n
  BY <1>1, <1>3
<1>5. cs[i].base <= cs[n].base
  BY <1>1, <1>4, FrameBases
<1> QED BY <1>2, <1>3, <1>5

(* The answer of a call that told its reader why it is pending.            *)
LEMMA WalksToldByReturn ==
  ASSUME NEW cs \in Seq(Frame), NEW stk \in Seq(Ctx), NEW fx \in Fixpoint \cup {None},
         FramesFit(cs, stk, fx), Waits(cs[Len(cs)]),
         NEW rd \in [Ctx -> Note], NEW n \in Note, NEW got \in (SUBSET V) \cup {None},
         got = None => n.lowest < Len(stk) \/ n.joins # None,
         WalksTold(cs, rd)
  PROVE  WalksTold(Answer(cs, got), ReadsTold(rd, fx, stk, n))
<1>1. PICK rt : rt = ReadsTold(rd, fx, stk, n) /\ rt \in [Ctx -> Note]
  BY ReadsToldType
<1>2. WalksTold(cs, rt)
  BY <1>1, ReadsToldGrow, WalksToldGrow
<1>3. ASSUME cs[Len(cs)].kind = "walk", got = None
      PROVE  Reads(rt[cs[Len(cs)].ctx], cs[Len(cs)].base)
  <2>1. /\ stk # <<>> /\ stk[Len(stk)] = cs[Len(cs)].ctx
        /\ cs[Len(cs)].base = Len(stk) - 1 /\ Len(stk) \in Nat
    BY <1>3, PopWalk, SeqType
  <2>2. PICK c \in Ctx : c = cs[Len(cs)].ctx /\ c = stk[Len(stk)]
    BY <2>1, SeqType
  <2>3. ~ReaderIsFixpoint(fx, stk)
    BY <1>3, WalkReads
  <2>4. rt[c] = Noted(rd[c], n) /\ rd[c] \in Note
    BY <1>1, <2>1, <2>2, <2>3, ReadsToldKeeps
  <2>5. rt[c].lowest <= n.lowest /\ (n.joins # None => rt[c].joins # None)
    BY <2>4, NotedGrows
  <2>6. rt[c].lowest \in Nat /\ n.lowest \in Nat
    BY <1>1 DEF Note
  <2> QED BY <1>3, <2>1, <2>2, <2>5, <2>6 DEF Reads
<1> QED BY <1>1, <1>2, <1>3, WalksToldByAnswer DEF FramesFit

-----------------------------------------------------------------------------
(* Cuts.                                                                   *)

(* Whoever read a cut still did after slots and fixpoints have grown, and  *)
(* as long as who waited waits.                                            *)
LEMMA CutReadGrows ==
  ASSUME NEW cs, NEW ds, DOMAIN cs \subseteq DOMAIN ds,
         \A i \in DOMAIN cs : cs[i].kind = "resolve" => SameLinks(cs[i], ds[i]),
         NEW stk \in Seq(Ctx), NEW rd, NEW rt, Grown(rd, rt),
         NEW fx, NEW ft, FixpointCut(fx) => FixpointCut(ft),
         NEW st, NEW tt, \A c \in Ctx : st[c] \in Waiting => tt[c] \in Waiting,
         CutRead(st, cs, stk, rd, fx)
  PROVE  CutRead(tt, ds, stk, rt, ft)
<1>1. ASSUME NEW i \in DOMAIN stk, rd[stk[i]].cut # None PROVE rt[stk[i]].cut # None
  <2>1. stk[i] \in Ctx
    BY SeqType
  <2> QED BY <1>1, <2>1 DEF Grown
<1>2. ASSUME NEW i \in DOMAIN cs, cs[i].kind = "resolve", FixpointCut(cs[i].outer)
      PROVE  i \in DOMAIN ds /\ ds[i].kind = "resolve" /\ FixpointCut(ds[i].outer)
  BY <1>2 DEF SameLinks
<1>3. ASSUME NEW c \in Ctx, st[c] \in Waiting, rd[c].cut # None
      PROVE  tt[c] \in Waiting /\ rt[c].cut # None
  BY <1>3 DEF Grown
<1> QED BY <1>1, <1>2, <1>3 DEF CutRead

(* A cut that the reader is told of is read, when there is a reader.       *)
LEMMA CutReadTold ==
  ASSUME NEW cs \in Seq(Frame), NEW stk \in Seq(Ctx), NEW fx \in Fixpoint \cup {None},
         FramesFit(cs, stk, fx), cs[Len(cs)].kind # "solve",
         NEW rd \in [Ctx -> Note], NEW n \in Note, n.cut # None
  PROVE  \A st, ds : CutRead(st, ds, stk, ReadsTold(rd, fx, stk, n), FixpointTold(fx, stk, n))
<1> DEFINE rt == ReadsTold(rd, fx, stk, n)
           ft == FixpointTold(fx, stk, n)
<1>1. PICK k \in Nat : k = Len(cs) /\ DOMAIN cs = 1..k /\ k \in 1..k
  BY SeqType DEF FramesFit
<1>2. cs[k] \in Frame /\ cs[k].kind \in {"walk", "resolve"}
  BY <1>1, SeqType, FrameType
<1>3. CASE cs[k].kind = "walk"
  <2>1. stk # <<>> /\ ~ReaderIsFixpoint(fx, stk)
    BY <1>1, <1>3, PopWalk, WalkReads
  <2>2. PICK c \in Ctx : c = stk[Len(stk)] /\ Len(stk) \in DOMAIN stk
    BY <2>1, SeqType
  <2>3. rt[c] = Noted(rd[c], n) /\ rd[c] \in Note
    BY <2>1, <2>2, ReadsToldKeeps
  <2>4. rt[stk[Len(stk)]].cut # None
    BY <2>2, <2>3, NotedGrows
  <2> HIDE DEF rt, ft
  <2> QED BY <2>2, <2>4 DEF CutRead, rt, ft
<1>4. CASE cs[k].kind = "resolve"
  <2>1. FixpointAt(cs, k, fx) /\ Len(stk) = cs[k].base
    BY <1>1, <1>2, <1>4, HeightType DEF FramesFit
  <2>2. fx # None /\ fx.base = cs[k].base
    BY <1>1, <1>4, <2>1 DEF FixpointAt
  <2>3. FixpointCut(ft)
    BY <2>1, <2>2, FixpointToldCut DEF ReaderIsFixpoint
  <2> HIDE DEF rt, ft
  <2> QED BY <2>3 DEF CutRead, rt, ft
<1> QED BY <1>1, <1>2, <1>3, <1>4

(* The frame of `solve` keeps its entry, and is answered last.             *)
LEMMA EntryByAnswer ==
  ASSUME NEW cs \in Seq(Frame), NEW stk, NEW fx, FramesFit(cs, stk, fx), Waits(cs[Len(cs)]),
         NEW got \in (SUBSET V) \cup {None}, EntryFits(cs)
  PROVE  /\ EntryFits(Answer(cs, got))
         /\ Answer(cs, got)[1].ctx = cs[1].ctx
         /\ Len(cs) = 1 => Answer(cs, got)[1].answered
<1>1. PICK n \in Nat : n = Len(cs) /\ n >= 1 /\ n \in 1..n /\ 1 \in 1..n /\ DOMAIN cs = 1..n
  BY SeqType DEF FramesFit
<1>2. PICK gr \in Frame : gr = Answered(cs[n], got) /\ SameShape(cs[n], gr)
  BY <1>1, SeqType, AnsweredType
<1>3. PICK ds \in Seq(Frame) : ds = Answer(cs, got) /\ ds = [cs EXCEPT ![n] = gr]
  BY <1>1, <1>2, ExceptInSeq DEF Answer
<1>4. /\ Len(ds) = n /\ DOMAIN ds = 1..n /\ ds[n] = gr
      /\ \A i \in 1..n : i # n => ds[i] = cs[i]
  BY <1>1, <1>3
<1>5. cs[1] \in SolveFrame /\ \A i \in 1..n : cs[i].kind = "solve" <=> i = 1
  <2>1. \A i \in 1..n : cs[i].kind = "solve" <=> i = 1
    BY <1>1 DEF FramesFit
  <2> QED BY <1>1, <2>1, SeqType, FrameType
<1>6. CASE n = 1
  <2>1. gr = [cs[1] EXCEPT !.answered = TRUE]
    BY <1>1, <1>2, <1>5, <1>6 DEF Answered, SolveFrame
  <2>2. gr.ctx = cs[1].ctx /\ gr.answered
    BY <1>5, <2>1 DEF SolveFrame
  <2> QED BY <1>1, <1>3, <1>4, <1>6, <2>2 DEF EntryFits
<1>7. CASE n # 1
  <2>1. ds[1] = cs[1] /\ ~cs[1].answered
    BY <1>1, <1>4, <1>7 DEF EntryFits
  <2>2. 2 \in 1..n
    BY <1>1, <1>7
  <2>3. cs[2].kind \in {"walk", "resolve"}
    BY <1>1, <1>5, <2>2, SeqType, FrameType
  <2>4. SameShape(cs[2], ds[2])
    BY <1>2, <1>4, <2>2 DEF SameShape
  <2>5. (IF ds[2].kind = "walk" THEN ds[2].ctx ELSE ds[2].head)
           = IF cs[2].kind = "walk" THEN cs[2].ctx ELSE cs[2].head
    BY <2>3, <2>4 DEF SameShape
  <2> QED BY <1>1, <1>3, <1>4, <1>7, <2>1, <2>2, <2>5 DEF EntryFits
<1> QED BY <1>6, <1>7

-----------------------------------------------------------------------------
(* Steps that answer.                                                      *)

(* After an answer: the reader was told why it is pending, and of the cut  *)
(* that the contexts which are cut by the step have.                       *)
LEMMA ReadersAfterReturn ==
  ASSUME NEW cs \in Seq(Frame), NEW stk \in Seq(Ctx), NEW fx \in Fixpoint \cup {None},
         FramesFit(cs, stk, fx), CallersWait(cs), Waits(cs[Len(cs)]),
         NEW rd \in [Ctx -> Note], NEW n, NoteAt(n, Len(stk)),
         NEW got \in (SUBSET V) \cup {None},
         Return(cs, rd, fx, stk, n, got), stack' = stk,
         got = None => n.lowest < Len(stk) \/ n.joins # None,
         WalksTold(cs, rd), EntryFits(cs),
         \A c \in Ctx : state'[c] = "Cut" =>
             \/ CutRead(state', cs, stk, rd, fx)
             \/ n.cut # None /\ cs[Len(cs)].kind # "solve"
             \/ Len(cs) = 1 /\ state'[cs[1].ctx] = "Cut"
  PROVE  ReadersInv'
<1>1. n \in Note
  BY DEF NoteAt
<1>2. /\ read' = ReadsTold(rd, fx, stk, n) /\ fixpoint' = FixpointTold(fx, stk, n)
      /\ ctl' = Answer(cs, got)
  BY DEF Return
<1>3. WalksTold(ctl', read')
  BY <1>1, <1>2, WalksToldByReturn
<1>4. EntryFits(ctl') /\ ctl'[1].ctx = cs[1].ctx /\ (Len(cs) = 1 => ctl'[1].answered)
  BY <1>2, EntryByAnswer
<1>5. /\ ctl' \in Seq(Frame) /\ DOMAIN ctl' = DOMAIN cs
      /\ \A i \in DOMAIN cs : SameShape(cs[i], ctl'[i])
  BY ReturnType, SeqType
<1>6. ASSUME NEW c \in Ctx, state'[c] = "Cut"
      PROVE  \/ CutRead(state', ctl', stack', read', fixpoint')
             \/ ctl'[1].answered /\ state'[ctl'[1].ctx] = "Cut"
  <2>1. CASE CutRead(state', cs, stk, rd, fx)
    <3>1. Grown(rd, read') /\ (FixpointCut(fx) => FixpointCut(fixpoint'))
      BY <1>1, <1>2, ReadsToldGrow, FixpointToldCut
    <3>2. \A i \in DOMAIN cs : cs[i].kind = "resolve" => SameLinks(cs[i], ctl'[i])
      BY <1>5, ShapeLinks
    <3> QED BY <1>5, <2>1, <3>1, <3>2, CutReadGrows
  <2>2. CASE n.cut # None /\ cs[Len(cs)].kind # "solve"
    BY <1>1, <1>2, <2>2, CutReadTold
  <2>3. CASE Len(cs) = 1 /\ state'[cs[1].ctx] = "Cut"
    BY <1>4, <2>3
  <2> QED BY <1>6, <2>1, <2>2, <2>3
<1> QED BY <1>3, <1>4, <1>6 DEF ReadersInv, CutsTold

(* While a frame asks or stands on another, the request is open: a cut     *)
(* context has a reader.                                                   *)
LEMMA StillOpen ==
  ASSUME Inv, ReadersInv, Asks(Top) \/ Top.kind # "solve"
  PROVE  /\ ~ctl[1].answered
         /\ \A c \in Ctx : state[c] = "Cut" => CutRead(state, ctl, stack, read, fixpoint)
<1>1. PICK n \in Nat : n = Len(ctl) /\ n >= 1 /\ Top = ctl[n] /\ DOMAIN ctl = 1..n
  BY TopFrame, SeqType
<1>2. ctl[1].kind = "solve"
  BY <1>1, TopFrame DEF FramesFit
<1>3. ~ctl[1].answered
  <2> SUFFICES ASSUME ctl[1].answered PROVE FALSE
    OBVIOUS
  <2>1. Top = ctl[1]
    BY <1>1 DEF ReadersInv, EntryFits
  <2> QED BY <1>2, <2>1 DEF Asks, InSite, HasOp, Replays
<1> QED BY <1>3 DEF ReadersInv, CutsTold

(* A call that `get` answers from what is there, or cuts.                  *)
LEMMA ReadersAfterRead ==
  ASSUME Inv, ReadersInv, Asks(Top), NEW n, NoteAt(n, Len(stack)),
         NEW got \in (SUBSET V) \cup {None},
         got = None => n.lowest < Len(stack) \/ n.joins # None,
         Return(ctl, read, fixpoint, stack, n, got), UNCHANGED <<state, stack>>
  PROVE  ReadersInv'
<1>1. /\ ctl \in Seq(Frame) /\ stack \in Seq(Ctx) /\ fixpoint \in Fixpoint \cup {None}
      /\ read \in [Ctx -> Note] /\ FramesFit(ctl, stack, fixpoint) /\ CallersWait(ctl)
      /\ Waits(ctl[Len(ctl)])
  BY TopFrame, WantedType
<1>2. \A c \in Ctx : state'[c] = "Cut" => CutRead(state', ctl, stack, read, fixpoint)
  BY StillOpen
<1>3. WalksTold(ctl, read) /\ EntryFits(ctl)
  BY DEF ReadersInv
<1> QED BY <1>1, <1>2, <1>3, ReadersAfterReturn

(* What a parked or resolving context answers: if pending, the reader was  *)
(* told of a walk below it, or of a group.                                 *)
LEMMA GroupReadTells ==
  ASSUME NEW c \in Ctx, NEW st, NEW hs \in [Ctx -> Ctx], NEW cur, NEW fx, NEW stk,
         cur[c] \in FunctionResult,
         st[hs[c]] = "Running" => depth[hs[c]] < Len(stk)
  PROVE  LET m == ReadGroupMember(c, st, hs, cur, fx, stk) IN
         m.got = None => m.note.lowest < Len(stk) \/ m.note.joins # None
<1>1. hs[c] # None /\ cur[c].returns # None
  BY ReturnsType, NoneAssumption
<1> QED BY <1>1 DEF ReadGroupMember, DependsOn, Joins, Nothing

(* GetReady: the answer is not pending.                                    *)
LEMMA ReadersGetReady ==
  ASSUME Inv, ReadersInv, GetReady
  PROVE  ReadersInv'
<1>1. PICK got \in SUBSET V : ctl' = Answer(ctl, got)
  <2>1. Wanted(Top) \in Ctx /\ state[Wanted(Top)] = "Ready"
    BY WantedType DEF GetReady
  <2>2. result[Wanted(Top)] \in FunctionResult
    BY <2>1 DEF Inv, SlotsFit
  <2> QED BY <2>2, ReturnsType DEF GetReady
<1>2. /\ ctl \in Seq(Frame) /\ ctl # <<>> /\ Waits(ctl[Len(ctl)])
      /\ FramesFit(ctl, stack, fixpoint) /\ stack \in Seq(Ctx)
  BY TopFrame, WantedType DEF GetReady
<1>3. UNCHANGED <<state, stack, read, fixpoint>> /\ Asks(Top)
  BY DEF GetReady, slots
<1>4. WalksTold(ctl', read')
  BY <1>1, <1>2, <1>3, NoneAssumption, WalksToldByAnswer DEF ReadersInv
<1>5. EntryFits(ctl')
  BY <1>1, <1>2, EntryByAnswer DEF ReadersInv
<1>6. ASSUME NEW c \in Ctx, state'[c] = "Cut"
      PROVE  CutRead(state', ctl', stack', read', fixpoint')
  <2>1. CutRead(state, ctl, stack, read, fixpoint)
    BY <1>3, <1>6, StillOpen
  <2>2. ctl' \in Seq(Frame) /\ DOMAIN ctl' = DOMAIN ctl
    BY <1>1, <1>2, AnsweredType, ExceptInSeq, SeqType DEF Answer
  <2>3. \A i \in DOMAIN ctl : SameLinks(ctl[i], ctl'[i])
    <3>1. SameShape(ctl[Len(ctl)], Answered(ctl[Len(ctl)], got))
      BY <1>2, AnsweredType, SeqType
    <3>2. \A i \in DOMAIN ctl : i # Len(ctl) => ctl'[i] = ctl[i]
      BY <1>1 DEF Answer
    <3>3. ctl'[Len(ctl)] = Answered(ctl[Len(ctl)], got)
      BY <1>1, <1>2, SeqType DEF Answer
    <3> QED BY <3>1, <3>2, <3>3, ShapeLinks DEF SameLinks
  <2>4. Grown(read, read')
    BY <1>3, TopFrame DEF Grown, Note
  <2> QED BY <1>2, <1>3, <2>1, <2>2, <2>3, <2>4, CutReadGrows
<1> QED BY <1>4, <1>5, <1>6 DEF ReadersInv, CutsTold

(* GetRunning: the reader is told of the walk.                             *)
LEMMA ReadersGetRunning ==
  ASSUME Inv, ReadersInv, GetRunning
  PROVE  ReadersInv'
<1>1. PICK c \in Ctx : c = Wanted(Top) /\ state[c] = "Running" /\ Asks(Top)
  BY WantedType DEF GetRunning
<1>2. depth[c] \in Nat /\ depth[c] < Len(stack) /\ Len(stack) \in Nat
  BY <1>1, RunningDepth, TopFrame
<1>3. NoteAt(DependsOn(depth[c]), Len(stack)) /\ DependsOn(depth[c]).lowest = depth[c]
  BY <1>2, DependsOnType DEF DependsOn, Nothing
<1>4. /\ Return(ctl, read, fixpoint, stack, DependsOn(depth[c]), None)
      /\ UNCHANGED <<state, stack>>
  BY <1>1 DEF GetRunning
<1> QED BY <1>1, <1>2, <1>3, <1>4, ReadersAfterRead

(* GetGroupMember: of the walk or the group it waits for.                  *)
LEMMA ReadersGetGroupMember ==
  ASSUME Inv, ReadersInv, GetGroupMember
  PROVE  ReadersInv'
<1>1. PICK c \in Ctx : c = Wanted(Top) /\ state[c] \in {"Parked", "Resolving"} /\ Asks(Top)
  BY WantedType DEF GetGroupMember
<1>2. current[c] \in FunctionResult /\ heads \in [Ctx -> Ctx] /\ Len(stack) \in Nat
  BY <1>1, TopFrame DEF Inv, SlotsFit, TypeOK
<1>3. state[heads[c]] = "Running" => depth[heads[c]] \in Nat /\ depth[heads[c]] < Len(stack)
  BY <1>2, RunningDepth
<1> DEFINE m == ReadGroupMember(c, state, heads, current, fixpoint, stack)
<1>4. NoteAt(m.note, Len(stack)) /\ m.got \in (SUBSET V) \cup {None}
  BY <1>2, <1>3, GroupReadType
<1>5. m.got = None => m.note.lowest < Len(stack) \/ m.note.joins # None
  BY <1>2, <1>3, GroupReadTells
<1>6. Return(ctl, read, fixpoint, stack, m.note, m.got) /\ UNCHANGED <<state, stack>>
  BY <1>1 DEF GetGroupMember
<1> HIDE DEF m
<1> QED BY <1>1, <1>4, <1>5, <1>6, ReadersAfterRead

(* GetCut: the answer is not pending.                                      *)
LEMMA ReadersGetCut ==
  ASSUME Inv, ReadersInv, GetCut
  PROVE  ReadersInv'
<1>1. PICK k : k = CostLimit(Wanted(Top)) /\ k # None /\ Asks(Top)
  BY DEF GetCut
<1>2. k \in Cut \cup {None} /\ Len(stack) \in Nat
  BY <1>1, TopFrame DEF CostLimit, Cut
<1>3. NoteAt(IsCut(k), Len(stack))
  BY <1>2, IsCutType
<1>4. CutReturns \in (SUBSET V) \cup {None} /\ CutReturns # None
  BY UnknownInV, NoneAssumption DEF CutReturns
<1>5. Return(ctl, read, fixpoint, stack, IsCut(k), CutReturns) /\ UNCHANGED <<state, stack>>
  BY <1>1 DEF GetCut
<1> QED BY <1>1, <1>3, <1>4, <1>5, ReadersAfterRead

-----------------------------------------------------------------------------
(* Steps of the frame on top.                                              *)

(* The frame on top goes on; a walk was told why it deferred something.    *)
LEMMA ReadersAfterTop ==
  ASSUME Inv, ReadersInv, Top.kind # "solve", NEW fr \in Frame, SameLinks(Top, fr),
         fr.kind = "walk" => fr.ctx = Top.ctx /\ WalkTold(fr, read[fr.ctx]),
         ctl' = [ctl EXCEPT ![Len(ctl)] = fr], UNCHANGED <<read, stack, fixpoint>>,
         \A c \in Ctx : state'[c] = "Cut" => state[c] = "Cut",
         \A c \in Ctx : state[c] \in Waiting => state'[c] \in Waiting
  PROVE  ReadersInv'
<1>1. PICK n \in Nat : n = Len(ctl) /\ n >= 1 /\ DOMAIN ctl = 1..n /\ n \in 1..n /\ 1 \in 1..n
  BY TopFrame, SeqType
<1>2. ctl \in Seq(Frame) /\ Top = ctl[n] /\ Top.kind \in {"walk", "resolve"}
  BY <1>1, TopFrame, FrameType
<1>3. DOMAIN ctl' = 1..n /\ ctl'[n] = fr /\ \A i \in 1..n : i # n => ctl'[i] = ctl[i]
  BY <1>1, <1>2
<1>4. \A i \in 1..n : SameLinks(ctl[i], ctl'[i])
  BY <1>2, <1>3 DEF SameLinks
<1>5. Len(ctl') = n
  <2>1. ctl' \in Seq(Frame)
    BY <1>2, ExceptInSeq
  <2> QED BY <1>1, <1>3, <2>1, SeqType
<1>6. n # 1
  <2>1. ctl[1].kind = "solve"
    BY <1>1, TopFrame DEF FramesFit
  <2> QED BY <1>2, <2>1
<1>7. WalksTold(ctl', read')
  <2>1. ASSUME NEW i \in 1..n, ctl'[i].kind = "walk" PROVE WalkTold(ctl'[i], read'[ctl'[i].ctx])
    <3>1. CASE i = n
      BY <1>3, <2>1, <3>1
    <3>2. CASE i # n
      BY <1>1, <1>3, <2>1, <3>2 DEF ReadersInv, WalksTold
    <3> QED BY <3>1, <3>2
  <2> QED BY <1>3, <2>1 DEF WalksTold
<1>8. EntryFits(ctl') /\ ~ctl'[1].answered
  <2>1. ctl'[1] = ctl[1] /\ ~ctl[1].answered
    BY <1>1, <1>3, <1>6 DEF ReadersInv, EntryFits
  <2>2. 2 \in 1..n
    BY <1>1, <1>6
  <2>3. ctl[2].kind \in {"walk", "resolve"}
    <3>1. ctl[2].kind # "solve"
      BY <1>1, <2>2, TopFrame DEF FramesFit
    <3> QED BY <1>1, <1>2, <2>2, <3>1, SeqType, FrameType
  <2>4. (IF ctl'[2].kind = "walk" THEN ctl'[2].ctx ELSE ctl'[2].head)
           = IF ctl[2].kind = "walk" THEN ctl[2].ctx ELSE ctl[2].head
    <3>1. CASE n = 2
      BY <1>2, <1>3, <3>1 DEF SameLinks
    <3>2. CASE n # 2
      BY <1>3, <2>2, <3>2
    <3> QED BY <3>1, <3>2
  <2> QED BY <1>1, <1>3, <1>5, <2>1, <2>2, <2>4 DEF ReadersInv, EntryFits
<1>9. ASSUME NEW c \in Ctx, state'[c] = "Cut"
      PROVE  CutRead(state', ctl', stack', read', fixpoint')
  <2>1. CutRead(state, ctl, stack, read, fixpoint)
    BY <1>9, StillOpen
  <2>2. Grown(read, read')
    BY TopFrame DEF Grown, Note
  <2>3. DOMAIN ctl \subseteq DOMAIN ctl'
    BY <1>1, <1>3
  <2>4. \A i \in DOMAIN ctl : ctl[i].kind = "resolve" => SameLinks(ctl[i], ctl'[i])
    BY <1>1, <1>4
  <2>5. stack \in Seq(Ctx) /\ (FixpointCut(fixpoint) => FixpointCut(fixpoint'))
    BY TopFrame
  <2>6. CutRead(state', ctl', stack, read', fixpoint')
    BY <2>1, <2>2, <2>3, <2>4, <2>5, CutReadGrows
  <2> QED BY <2>6
<1> QED BY <1>7, <1>8, <1>9 DEF ReadersInv, CutsTold

(* A replay or a round goes on.                                            *)
LEMMA ReadersReplay ==
  ASSUME Inv, ReadersInv, Inv', ReplayCall \/ ReplayDone \/ NextMember \/ NextRound
  PROVE  ReadersInv'
<1>1. UNCHANGED <<read, stack, fixpoint>>
  BY DEF ReplayCall, ReplayDone, NextMember, NextRound, slots
<1>2. Top.kind = "resolve" /\ Top \in ResolveFrame
  BY TopFrame, FrameType
     DEF ReplayCall, ReplayDone, NextMember, NextRound, HasOp, Replays, MemberOver, RoundOver
<1>3. /\ \A c \in Ctx : state'[c] = "Cut" => state[c] = "Cut"
      /\ \A c \in Ctx : state[c] \in Waiting => state'[c] \in Waiting
  <2>1. CASE state' = state
    BY <2>1
  <2>2. CASE NextRound
    <3>1. state' = [c \in Ctx |-> IF c \in Range(Joiners) THEN "Resolving" ELSE state[c]]
      BY <2>2 DEF NextRound, FromRoundZero
    <3> QED BY <3>1 DEF Waiting
  <2> QED BY <2>1, <2>2 DEF ReplayCall, ReplayDone, NextMember, slots
<1>4. PICK fr : SameLinks(Top, fr) /\ ctl' = [ctl EXCEPT ![Len(ctl)] = fr]
  <2>1. CASE ReplayCall
    <3>1. PICK s : SetTop([Top EXCEPT !.site = s])
      BY <2>1 DEF ReplayCall
    <3> QED BY <1>2, <3>1 DEF SetTop, ResolveFrame, SameLinks
  <2>2. CASE ReplayDone
    <3>1. PICK v : SetTop(OpDone(Top, v))
      BY <2>2 DEF ReplayDone
    <3>2. PICK now : OpDone(Top, v) = [Top EXCEPT !.now = now, !.pc = Top.pc + 1, !.site = None]
      BY <1>2 DEF OpDone, ResolveFrame
    <3> QED BY <1>2, <3>1, <3>2 DEF SetTop, ResolveFrame, SameLinks
  <2>3. CASE NextMember
    <3> DEFINE m == Member(Top)
               changed == Top.changed \/ FinishRound(walk[m], Top.now).returns # current[m].returns
               now == IF Top.at < Len(Top.members)
                      THEN walk[Top.members[Top.at + 1]].resolved ELSE <<>>
    <3>1. SetTop([Top EXCEPT !.changed = changed, !.at = Top.at + 1, !.pc = 1, !.now = now])
      BY <1>2, <2>3 DEF NextMember, SetTop, ResolveFrame
    <3> HIDE DEF changed, now
    <3> QED BY <1>2, <3>1 DEF SetTop, ResolveFrame, SameLinks
  <2>4. CASE NextRound
    <3> DEFINE ms == Top.members \o Joiners
               now == walk[ms[1]].resolved
    <3>1. SetTop([Top EXCEPT !.members = ms, !.round = Top.round + 1, !.changed = FALSE,
                             !.at = 1, !.pc = 1, !.now = now])
      BY <1>2, <2>4 DEF NextRound, SetTop, ResolveFrame
    <3> HIDE DEF ms, now
    <3> QED BY <1>2, <3>1 DEF SetTop, ResolveFrame, SameLinks
  <2> QED BY <2>1, <2>2, <2>3, <2>4
<1>5. fr \in Frame
  <2>1. ctl \in Seq(Frame) /\ Len(ctl) \in DOMAIN ctl /\ ctl' \in Seq(Frame)
    BY TopFrame DEF Inv, TypeOK
  <2>2. DOMAIN ctl' = DOMAIN ctl /\ ctl'[Len(ctl)] = fr
    BY <1>4, <2>1
  <2>3. Len(ctl) \in 1..Len(ctl')
    BY <2>1, <2>2, SeqType
  <2> QED BY <2>1, <2>2, <2>3, SeqType
<1> QED BY <1>1, <1>2, <1>3, <1>4, <1>5, ReadersAfterTop DEF SameLinks

(* What was added to is not empty.                                         *)
LEMMA AppendNotEmpty ==
  ASSUME NEW T, NEW s \in Seq(T), NEW e
  PROVE  Append(s, e) # <<>>
<1>1. PICK n \in Nat : n = Len(s)
  BY SeqType
<1>2. PICK t : t = Append(s, e)
  OBVIOUS
<1>3. 1 \in DOMAIN t
  BY <1>1, <1>2
<1> QED BY <1>2, <1>3

(* An expression is pending on a call that is.                             *)
LEMMA PendingOnACall ==
  ASSUME NEW e, NEW c, NEW vals, Eval(e, c, vals).pending # {}
  PROVE  \E k \in DOMAIN vals : vals[k].pending # {}
  BY DEF Eval

(* A walk goes on: it defers a call whose callee or argument is pending,   *)
(* which an operation it deferred before has left so.                      *)
LEMMA ReadersWalkOn ==
  ASSUME Inv, ReadersInv, Inv', DeferCall \/ StartCall \/ FinishCall
  PROVE  ReadersInv'
<1>1. UNCHANGED <<state, read, stack, fixpoint>>
  BY DEF DeferCall, StartCall, FinishCall, slots
<1>2. Top.kind = "walk" /\ Top \in WalkFrame
  BY TopFrame, FrameType DEF DeferCall, StartCall, FinishCall, AtSite
<1>3. /\ Top.w \in Walk /\ Top.w.deferred \in Seq(DeferredOp) /\ Top.vals \in Seq(Value)
      /\ Top.ctx \in Ctx
  BY <1>2, WalkFrameType, WalkFields
<1>4. PICK n : n = read[Top.ctx]
  OBVIOUS
<1>5. WalkTold(Top, n)
  BY <1>2, <1>4, TopFrame DEF ReadersInv, WalksTold
<1>6. PICK fr : /\ ctl' = [ctl EXCEPT ![Len(ctl)] = fr]
                /\ fr.kind = "walk" /\ fr.base = Top.base /\ fr.ctx = Top.ctx
                /\ WalkTold(fr, n)
  <2>1. CASE DeferCall
    <3> DEFINE op == [op |-> "Call", site |-> Len(Top.vals) + 1,
                      callee |-> Callee, arg |-> Arg]
               w == [Top.w EXCEPT !.deferred = Append(@, op), !.calls = Append(@, {})]
               v == Append(Top.vals, [known |-> {}, pending |-> {Len(Top.w.deferred) + 1}])
    <3>1. SetTop([Top EXCEPT !.w = w, !.vals = v])
      BY <1>2, <2>1, WalkFrameType DEF DeferCall, SetTop, WalkFrame, Walk
    <3>2. w.deferred # <<>>
      <4>1. w.deferred = Append(Top.w.deferred, op)
        BY <1>3 DEF Walk
      <4> HIDE DEF op, w
      <4> QED BY <1>3, <4>1, AppendNotEmpty
    <3>3. Reads(n, Top.base)
      <4>1. Callee.pending # {} \/ Arg.pending # {}
        BY <2>1 DEF DeferCall, NeedsDefer
      <4>2. \E k \in DOMAIN Top.vals : Top.vals[k].pending # {}
        BY <4>1, PendingOnACall DEF Callee, Arg
      <4> QED BY <1>5, <4>2 DEF WalkTold
    <3> HIDE DEF w, v
    <3>4. PICK fr : fr = [Top EXCEPT !.w = w, !.vals = v]
      OBVIOUS
    <3>5. fr.kind = "walk" /\ fr.base = Top.base /\ fr.ctx = Top.ctx /\ fr.w = w
      BY <1>2, <3>4 DEF WalkFrame
    <3>6. WalkTold(fr, n)
      BY <3>2, <3>3, <3>5 DEF WalkTold
    <3> QED BY <3>1, <3>4, <3>5, <3>6 DEF SetTop
  <2>2. CASE StartCall
    <3>1. PICK s : SetTop([Top EXCEPT !.site = s]) /\ s.out.pending = {}
      <4> DEFINE s == StartSite(Callee.known, Arg.known)
      <4>1. SetTop([Top EXCEPT !.site = s])
        BY <2>2 DEF StartCall
      <4>2. s.out.pending = {}
        BY DEF StartSite
      <4> HIDE DEF s
      <4> QED BY <4>1, <4>2
    <3>2. PICK fr : fr = [Top EXCEPT !.site = s]
      OBVIOUS
    <3>3. /\ fr.kind = "walk" /\ fr.base = Top.base /\ fr.ctx = Top.ctx
          /\ fr.w = Top.w /\ fr.vals = Top.vals /\ fr.site = s
      BY <1>2, <3>2 DEF WalkFrame
    <3>4. WalkTold(fr, n)
      BY <1>5, <3>1, <3>3 DEF WalkTold
    <3> QED BY <3>1, <3>2, <3>3, <3>4 DEF SetTop
  <2>3. CASE FinishCall
    <3> DEFINE w == [Top.w EXCEPT !.calls = Append(@, Top.site.targets)]
               v == Append(Top.vals, Top.site.out)
    <3>1. SetTop([Top EXCEPT !.w = w, !.vals = v, !.site = None])
      BY <1>2, <2>3, WalkFrameType DEF FinishCall, SetTop, WalkFrame, Walk
    <3>2. w.deferred = Top.w.deferred
      BY <1>3 DEF Walk
    <3>3. \A k \in DOMAIN v : v[k].pending # {} => Top.w.deferred # <<>>
      <4>1. Top.site # None /\ Top.site \in SiteCall
        BY <1>2, <2>3, InSiteType DEF FinishCall, InSite, Frame
      <4>2. Top.site.out \in Value
        BY <4>1 DEF SiteCall
      <4>3. DOMAIN Top.vals = 1..Len(Top.vals) /\ Len(Top.vals) \in Nat
        BY <1>3, SeqType
      <4>4. /\ DOMAIN v = 1..(Len(Top.vals) + 1) /\ v[Len(Top.vals) + 1] = Top.site.out
            /\ \A k \in 1..Len(Top.vals) : v[k] = Top.vals[k]
        BY <1>3, <4>2, AppendType
      <4> HIDE DEF v
      <4>5. Top.site.out.pending # {} => Top.w.deferred # <<>>
        BY <1>5, <4>1 DEF WalkTold
      <4>6. \A k \in DOMAIN Top.vals : Top.vals[k].pending # {} => Top.w.deferred # <<>>
        BY <1>5 DEF WalkTold
      <4> QED BY <4>3, <4>4, <4>5, <4>6
    <3> HIDE DEF w, v
    <3>4. PICK fr : fr = [Top EXCEPT !.w = w, !.vals = v, !.site = None]
      OBVIOUS
    <3>5. /\ fr.kind = "walk" /\ fr.base = Top.base /\ fr.ctx = Top.ctx
          /\ fr.w = w /\ fr.vals = v /\ fr.site = None
      BY <1>2, <3>4 DEF WalkFrame
    <3>6. WalkTold(fr, n)
      BY <1>5, <3>2, <3>3, <3>5 DEF WalkTold
    <3> QED BY <3>1, <3>4, <3>5, <3>6 DEF SetTop
  <2> QED BY <2>1, <2>2, <2>3
<1>7. fr \in Frame
  <2>1. ctl \in Seq(Frame) /\ Len(ctl) \in DOMAIN ctl /\ ctl' \in Seq(Frame)
    BY TopFrame DEF Inv, TypeOK
  <2>2. DOMAIN ctl' = DOMAIN ctl /\ ctl'[Len(ctl)] = fr
    BY <1>6, <2>1
  <2>3. Len(ctl) \in 1..Len(ctl')
    BY <2>1, <2>2, SeqType
  <2> QED BY <2>1, <2>2, <2>3, SeqType
<1>8. SameLinks(Top, fr)
  BY <1>2, <1>6 DEF SameLinks
<1> QED BY <1>1, <1>2, <1>4, <1>6, <1>7, <1>8, ReadersAfterTop

-----------------------------------------------------------------------------
(* A walk starts, or ends.                                                 *)

(* A walk that starts has read and deferred nothing.                       *)
LEMMA ReadersGetWalk ==
  ASSUME Inv, ReadersInv, GetWalk
  PROVE  ReadersInv'
<1> DEFINE c == Wanted(Top)
           fr == [kind |-> "walk", base |-> Len(stack), ctx |-> c,
                  w |-> [deferred |-> <<>>, resolved |-> <<>>, calls |-> <<>>, rets |-> NoValue],
                  vals |-> <<>>, site |-> None]
<1>1. c \in Ctx /\ Asks(Top)
  BY WantedType DEF GetWalk
<1>2. state[c] \in {"New", "Cut", "Ready"}
  BY DEF GetWalk, MustWalk
<1>3. fr \in Frame /\ fr.kind = "walk" /\ fr.ctx = c /\ \A n : WalkTold(fr, n)
  <2>1. [deferred |-> <<>>, resolved |-> <<>>, calls |-> <<>>, rets |-> NoValue] \in Walk
    BY DEF Walk, NoValue, Value
  <2>2. fr \in Frame
    BY <1>1, <2>1, TopFrame DEF WalkFrame, Frame
  <2>3. \A n : WalkTold(fr, n)
    BY DEF WalkTold
  <2> QED BY <2>2, <2>3
<1>4. /\ state' = [state EXCEPT ![c] = "Running"]
      /\ read' = [read EXCEPT ![c] = Nothing]
      /\ stack' = Append(stack, c)
      /\ ctl' = Append(ctl, fr)
      /\ fixpoint' = fixpoint
  BY DEF GetWalk
<1>5. Len(ctl) = 1 => c = ctl[1].ctx
  <2>1. ctl[1].kind = "solve"
    BY TopFrame, SeqType DEF FramesFit
  <2> QED BY <2>1 DEF Wanted, Top
<1> HIDE DEF fr, c
<1>6. /\ state \in [Ctx -> {"New", "Running", "Parked", "Resolving", "Ready", "Cut"}]
      /\ read \in [Ctx -> Note] /\ ctl \in Seq(Frame) /\ ctl # <<>>
  BY TopFrame DEF Inv, TypeOK
<1>7. PICK u \in Nat : /\ u = Len(stack) /\ DOMAIN stack = 1..u
                       /\ DOMAIN stack' = 1..(u + 1) /\ stack'[u + 1] = c
                       /\ \A i \in 1..u : stack'[i] = stack[i]
  BY <1>1, <1>4, TopFrame, SeqType, AppendType
<1>8. \A d \in Ctx : /\ d # c => state'[d] = state[d] /\ read'[d] = read[d]
                     /\ state'[d] = "Cut" => d # c
                     /\ state[d] \in Waiting => d # c
  BY <1>1, <1>2, <1>4, <1>6 DEF Waiting
<1>9. \A i \in 1..u : stack[i] \in Ctx /\ stack[i] # c /\ read'[stack[i]] = read[stack[i]]
  <2> TAKE i \in 1..u
  <2>1. stack[i] \in Ctx /\ stack[i] \in Range(stack)
    BY <1>7, TopFrame, SeqType DEF Range
  <2>2. state[stack[i]] = "Running"
    BY <2>1 DEF Inv, StackMatches
  <2> QED BY <1>2, <1>8, <2>1, <2>2
<1>10. PICK n \in Nat : /\ n = Len(ctl) /\ n >= 1 /\ DOMAIN ctl = 1..n
                        /\ ctl' \in Seq(Frame) /\ Len(ctl') = n + 1 /\ DOMAIN ctl' = 1..(n + 1)
                        /\ ctl'[n + 1] = fr /\ \A i \in 1..n : ctl'[i] = ctl[i]
  BY <1>3, <1>4, <1>6, SeqType, PushKeeps
<1>11. ASSUME NEW i \in 1..(n + 1), ctl'[i].kind = "walk"
       PROVE  WalkTold(ctl'[i], read'[ctl'[i].ctx])
  <2>1. CASE i = n + 1
    BY <1>3, <1>10, <2>1
  <2>2. CASE i # n + 1
    <3>1. i \in 1..n /\ ctl'[i] = ctl[i] /\ ctl[i].kind = "walk"
      BY <1>10, <1>11, <2>2
    <3>2. ctl[i].base < Len(stack) /\ stack[ctl[i].base + 1] = ctl[i].ctx
      BY <1>10, <3>1, TopFrame DEF FramesFit
    <3>3. ctl[i].base \in Nat
      BY <1>6, <1>10, <3>1, SeqType, FrameType
    <3>4. read'[ctl[i].ctx] = read[ctl[i].ctx]
      BY <1>7, <1>9, <3>2, <3>3
    <3>5. WalkTold(ctl[i], read[ctl[i].ctx])
      BY <1>10, <3>1 DEF ReadersInv, WalksTold
    <3> QED BY <3>1, <3>4, <3>5
  <2> QED BY <2>1, <2>2
<1>12. ~ctl[1].answered
  BY <1>1, StillOpen
<1>13. EntryFits(ctl') /\ ~ctl'[1].answered
  <2>1. ctl'[1] = ctl[1] /\ 2 \in 1..(n + 1)
    BY <1>10
  <2>2. CASE n = 1
    BY <1>3, <1>5, <1>10, <1>12, <2>1, <2>2 DEF EntryFits
  <2>3. CASE n # 1
    <3>1. 2 \in 1..n /\ ctl'[2] = ctl[2]
      BY <1>10, <2>3
    <3> QED BY <1>10, <1>12, <2>1, <3>1 DEF EntryFits, ReadersInv
  <2> QED BY <2>2, <2>3
<1>14. ASSUME NEW d \in Ctx, state'[d] = "Cut"
       PROVE  CutRead(state', ctl', stack', read', fixpoint')
  <2>1. CutRead(state, ctl, stack, read, fixpoint)
    BY <1>1, <1>8, <1>14, StillOpen
  <2>2. CASE \E i \in DOMAIN stack : read[stack[i]].cut # None
    <3>1. PICK i \in 1..u : read[stack[i]].cut # None
      BY <1>7, <2>2
    <3>2. i \in DOMAIN stack' /\ read'[stack'[i]] = read[stack[i]]
      BY <1>7, <1>9
    <3> QED BY <3>1, <3>2 DEF CutRead
  <2>3. CASE FixpointCut(fixpoint)
    BY <1>4, <2>3 DEF CutRead
  <2>4. CASE \E i \in DOMAIN ctl : ctl[i].kind = "resolve" /\ FixpointCut(ctl[i].outer)
    <3>1. PICK i \in 1..n : ctl[i].kind = "resolve" /\ FixpointCut(ctl[i].outer)
      BY <1>10, <2>4
    <3>2. i \in DOMAIN ctl' /\ ctl'[i] = ctl[i]
      BY <1>10
    <3> QED BY <3>1, <3>2 DEF CutRead
  <2>5. CASE \E e \in Ctx : state[e] \in Waiting /\ read[e].cut # None
    <3>1. PICK e \in Ctx : state[e] \in Waiting /\ read[e].cut # None
      BY <2>5
    <3>2. state'[e] \in Waiting /\ read'[e].cut # None
      BY <1>8, <3>1
    <3> QED BY <3>2 DEF CutRead
  <2> QED BY <2>1, <2>2, <2>3, <2>4, <2>5 DEF CutRead
<1> QED BY <1>10, <1>11, <1>13, <1>14 DEF ReadersInv, WalksTold, CutsTold

(* What the frames below a walk or a fixpoint keep.                        *)
LEMMA ReadersBelow ==
  ASSUME Inv, ReadersInv, Top.kind # "solve"
  PROVE  /\ WalksTold(Below, read) /\ EntryFits(Below) /\ ~ctl[1].answered
         /\ Below[1].ctx = ctl[1].ctx
         /\ Len(Below) = 1 =>
               ctl[1].ctx = IF Top.kind = "walk" THEN Top.ctx ELSE Top.head
         /\ DOMAIN Below \subseteq DOMAIN ctl /\ \A i \in DOMAIN Below : Below[i] = ctl[i]
         /\ \A i \in DOMAIN ctl : i \in DOMAIN Below \/ ctl[i] = Top
         /\ Len(Below) = 1 \/ Len(Below) > 1
         /\ Len(Below) > 1 => Below[Len(Below)].kind # "solve"
<1>1. PICK n \in Nat : n = Len(ctl) - 1 /\ n >= 1
  BY TopFrame, HasBelow DEF Top
<1>2. ctl \in Seq(Frame) /\ Len(ctl) = n + 1 /\ DOMAIN ctl = 1..(n + 1) /\ Top = ctl[n + 1]
  BY <1>1, TopFrame, SeqType
<1>3. /\ Below \in Seq(Frame) /\ Len(Below) = n /\ \A i \in 1..n : Below[i] = ctl[i]
      /\ DOMAIN Below = 1..n
  BY <1>1, <1>2, TopFrame, HasBelow, SeqType DEF Top, Below
<1>4. WalksTold(Below, read)
  BY <1>2, <1>3 DEF ReadersInv, WalksTold
<1>5. ~ctl[1].answered /\ Below[1] = ctl[1]
  BY <1>1, <1>3, StillOpen
<1>6. EntryFits(Below)
  BY <1>2, <1>3, <1>5 DEF ReadersInv, EntryFits
<1>7. n = 1 => ctl[1].ctx = IF Top.kind = "walk" THEN Top.ctx ELSE Top.head
  BY <1>2 DEF ReadersInv, EntryFits
<1>8. n > 1 => Below[n].kind # "solve"
  <2>1. \A i \in 1..(n + 1) : ctl[i].kind = "solve" <=> i = 1
    BY <1>2, TopFrame DEF FramesFit
  <2> QED BY <1>3, <2>1
<1>9. \A i \in DOMAIN ctl : i \in DOMAIN Below \/ ctl[i] = Top
  BY <1>2, <1>3
<1> QED BY <1>1, <1>2, <1>3, <1>4, <1>5, <1>6, <1>7, <1>8, <1>9

(* When a walk is over, a cut is read below it, or by it.                  *)
LEMMA CutUnderWalk ==
  ASSUME Inv, ReadersInv, WalkOver, NEW d \in Ctx, state[d] = "Cut"
  PROVE  CutRead(state, Below, Under, read, fixpoint) \/ read[Top.ctx].cut # None
<1>1. Top.kind = "walk"
  BY DEF WalkOver
<1>2. CutRead(state, ctl, stack, read, fixpoint)
  BY <1>1, StillOpen
<1>3. \A i \in DOMAIN ctl : ctl[i].kind = "resolve" => i \in DOMAIN Below /\ Below[i] = ctl[i]
  BY <1>1, ReadersBelow
<1>4. \A i \in DOMAIN stack : stack[i] = Top.ctx \/ (i \in DOMAIN Under /\ Under[i] = stack[i])
  <2>1. PICK u \in Nat : /\ u = Len(stack) - 1 /\ DOMAIN stack = 1..(u + 1)
                         /\ stack[u + 1] = Top.ctx /\ Under \in Seq(Ctx) /\ Len(Under) = u
                         /\ \A i \in 1..u : Under[i] = stack[i]
    <3>1. /\ Len(stack) - 1 \in Nat /\ stack # <<>> /\ stack[Len(stack)] = Top.ctx
          /\ Under \in Seq(Ctx) /\ Len(Under) = Len(stack) - 1
          /\ \A i \in 1..(Len(stack) - 1) : Under[i] = stack[i]
      BY <1>1, TopFrame, PopWalk DEF Under, Top
    <3>2. DOMAIN stack = 1..Len(stack) /\ Len(stack) \in Nat
      BY TopFrame, SeqType
    <3> QED BY <3>1, <3>2
  <2>2. DOMAIN Under = 1..u
    BY <2>1, SeqType
  <2> QED BY <2>1, <2>2
<1>5. CASE \E i \in DOMAIN stack : read[stack[i]].cut # None
  BY <1>4, <1>5 DEF CutRead
<1>6. CASE \E i \in DOMAIN ctl : ctl[i].kind = "resolve" /\ FixpointCut(ctl[i].outer)
  BY <1>3, <1>6 DEF CutRead
<1> QED BY <1>2, <1>5, <1>6 DEF CutRead

(* A walk ends: it waits, or hands its cut to the reader below.            *)
LEMMA ReadersAfterWalk ==
  ASSUME Inv, ReadersInv, WalkOver,
         NEW n, NoteAt(n, Len(Under)), NEW got \in (SUBSET V) \cup {None},
         Return(Below, read, fixpoint, Under, n, got), stack' = Under,
         got = None => n.lowest < Len(Under) \/ n.joins # None,
         \A d \in Ctx : d # Top.ctx => state'[d] = state[d],
         \/ state'[Top.ctx] = "Parked"
         \/ /\ n.cut = read[Top.ctx].cut
            /\ state'[Top.ctx] = IF n.cut = None THEN "Ready" ELSE "Cut"
  PROVE  ReadersInv'
<1>1. /\ Below \in Seq(Frame) /\ FramesFit(Below, Under, fixpoint)
      /\ CallersWait(Below) /\ Waits(Below[Len(Below)])
  BY WalkOverBelow
<1>2. /\ Under \in Seq(Ctx) /\ Top.ctx \in Ctx /\ state[Top.ctx] = "Running"
      /\ fixpoint \in Fixpoint \cup {None} /\ read \in [Ctx -> Note] /\ Top.kind = "walk"
  BY WalkOverType, TopFrame DEF WalkOver
<1>3. /\ WalksTold(Below, read) /\ EntryFits(Below) /\ Below[1].ctx = ctl[1].ctx
      /\ Len(Below) = 1 => ctl[1].ctx = Top.ctx
      /\ Len(Below) > 1 => Below[Len(Below)].kind # "solve"
  BY <1>2, ReadersBelow
<1>4. Len(Below) = 1 \/ Len(Below) > 1
  BY <1>2, ReadersBelow
<1>5. ASSUME NEW d \in Ctx, state'[d] = "Cut"
      PROVE  \/ CutRead(state', Below, Under, read, fixpoint)
             \/ n.cut # None /\ Below[Len(Below)].kind # "solve"
             \/ Len(Below) = 1 /\ state'[Below[1].ctx] = "Cut"
  <2>1. CASE state'[Top.ctx] # "Parked" /\ n.cut # None
    <3>1. state'[Top.ctx] = "Cut"
      BY <2>1
    <3> QED BY <1>3, <1>4, <2>1, <3>1
  <2>2. CASE state'[Top.ctx] = "Parked"
    <3>1. d # Top.ctx /\ state[d] = "Cut"
      BY <1>5, <2>2
    <3>2. CASE read[Top.ctx].cut # None
      BY <1>2, <2>2, <3>2 DEF CutRead, Waiting
    <3>3. CASE CutRead(state, Below, Under, read, fixpoint)
      <4>1. \A e \in Ctx : state[e] \in Waiting => state'[e] \in Waiting
        BY <2>2 DEF Waiting
      <4> QED BY <3>3, <4>1 DEF CutRead
    <3> QED BY <3>1, <3>2, <3>3, CutUnderWalk
  <2>3. CASE state'[Top.ctx] # "Parked" /\ n.cut = None
    <3>1. d # Top.ctx /\ state[d] = "Cut" /\ read[Top.ctx].cut = None
      BY <1>5, <2>3
    <3>2. CutRead(state, Below, Under, read, fixpoint)
      BY <3>1, CutUnderWalk
    <3>3. \A e \in Ctx : state[e] \in Waiting => state'[e] \in Waiting
      BY <1>2 DEF Waiting
    <3> QED BY <3>2, <3>3 DEF CutRead
  <2> QED BY <2>1, <2>2, <2>3
<1> QED BY <1>1, <1>2, <1>3, <1>5, ReadersAfterReturn

(* It parks under a walk further down, which the reader is told of.        *)
LEMMA ReadersParkInCycle ==
  ASSUME Inv, ReadersInv, ParkInCycle
  PROVE  ReadersInv'
<1>1. PICK r : /\ r = read[Top.ctx] /\ WalkOver /\ r.lowest < Len(Under) /\ stack' = Under
               /\ state' = [state EXCEPT ![Top.ctx] = "Parked"]
  BY DEF ParkInCycle, Park
<1>2. /\ Top.ctx \in Ctx /\ r \in Note
      /\ state \in [Ctx -> {"New", "Running", "Parked", "Resolving", "Ready", "Cut"}]
  BY <1>1, WalkOverType, TopFrame DEF Inv, TypeOK
<1>3. PICK n : n = [r EXCEPT !.cut = None] /\ Return(Below, read, fixpoint, Under, n, None)
  BY <1>1 DEF ParkInCycle
<1>4. n \in Note /\ n.lowest = r.lowest
  BY <1>2, <1>3 DEF Note
<1>5. NoteAt(n, Len(Under)) /\ n.lowest < Len(Under)
  BY <1>1, <1>4 DEF NoteAt
<1>6. state'[Top.ctx] = "Parked" /\ \A d \in Ctx : d # Top.ctx => state'[d] = state[d]
  BY <1>1, <1>2
<1> QED BY <1>1, <1>3, <1>5, <1>6, ReadersAfterWalk

(* It joins a group, which the reader is told of.                          *)
LEMMA ReadersParkInGroup ==
  ASSUME Inv, ReadersInv, ParkInGroup
  PROVE  ReadersInv'
<1> DEFINE c == Top.ctx
           r == read[c]
           m == ReadGroupMember(c, state', heads', current', fixpoint, Under)
<1>1. /\ WalkOver /\ r.joins # None /\ Park(c, WalkDone, r.joins) /\ stack' = Under
      /\ Return(Below, read, fixpoint, Under, m.note, m.got)
      /\ state' = [state EXCEPT ![c] = "Parked"]
  BY DEF ParkInGroup, Park
<1>2. /\ c \in Ctx /\ r \in Note /\ Len(Under) \in Nat
      /\ state \in [Ctx -> {"New", "Running", "Parked", "Resolving", "Ready", "Cut"}]
  BY <1>1, WalkOverType, TopFrame DEF Inv, TypeOK
<1>3. r.joins \in Ctx
  BY <1>1, <1>2 DEF Note
<1>4. /\ heads' \in [Ctx -> Ctx] /\ current'[c] \in FunctionResult
      /\ \A d \in Ctx : state'[d] = "Running" <=> state[d] = "Running" /\ d # c
  BY <1>1, <1>3, ParkType
<1>5. state'[heads'[c]] = "Running" =>
         depth[heads'[c]] \in Nat /\ depth[heads'[c]] < Len(Under)
  <2>1. heads'[c] \in Ctx
    BY <1>2, <1>4
  <2> QED BY <1>1, <1>4, <2>1, WalkOverType
<1>6. NoteAt(m.note, Len(Under)) /\ m.got \in (SUBSET V) \cup {None}
  BY <1>2, <1>4, <1>5, GroupReadType
<1>7. m.got = None => m.note.lowest < Len(Under) \/ m.note.joins # None
  <2>1. state'[heads'[c]] = "Running" => depth[heads'[c]] < Len(Under)
    BY <1>5
  <2>2. PICK st, hs, cur, d : st = state' /\ hs = heads' /\ cur = current' /\ d = c
    OBVIOUS
  <2>3. PICK gm : gm = ReadGroupMember(d, st, hs, cur, fixpoint, Under) /\ gm = m
    BY <2>2
  <2>4. d \in Ctx /\ hs \in [Ctx -> Ctx] /\ cur[d] \in FunctionResult
    BY <1>2, <1>4, <2>2
  <2>5. st[hs[d]] = "Running" => depth[hs[d]] < Len(Under)
    BY <2>1, <2>2
  <2>6. gm.got = None => gm.note.lowest < Len(Under) \/ gm.note.joins # None
    BY <2>3, <2>4, <2>5, GroupReadTells
  <2> HIDE DEF m
  <2> QED BY <2>3, <2>6
<1>8. state'[c] = "Parked" /\ \A d \in Ctx : d # c => state'[d] = state[d]
  BY <1>1, <1>2
<1> HIDE DEF m
<1> QED BY <1>1, <1>6, <1>7, <1>8, ReadersAfterWalk

(* It is final, and its cut goes to the reader.                            *)
LEMMA ReadersFinishAlone ==
  ASSUME Inv, ReadersInv, FinishAlone
  PROVE  ReadersInv'
<1> DEFINE c == Top.ctx
           r == read[c]
           res == [RoundZero(WalkDone) EXCEPT !.cut = r.cut]
           got == res.returns
<1>1. /\ WalkOver /\ stack' = Under
      /\ Return(Below, read, fixpoint, Under, IsCut(r.cut), got)
      /\ state' = [state EXCEPT ![c] = IF r.cut = None THEN "Ready" ELSE "Cut"]
  BY DEF FinishAlone
<1>2. /\ c \in Ctx /\ r \in Note /\ Len(Under) \in Nat /\ WalkDone \in Walk
      /\ state \in [Ctx -> {"New", "Running", "Parked", "Resolving", "Ready", "Cut"}]
  BY <1>1, WalkOverType, TopFrame DEF Inv, TypeOK
<1>3. got \in (SUBSET V) \cup {None} /\ got # None
  <2>1. got \in SUBSET V
    BY <1>2, RoundZeroType DEF FunctionResult
  <2> QED BY <2>1, NoneAssumption
<1>4. NoteAt(IsCut(r.cut), Len(Under)) /\ IsCut(r.cut).cut = r.cut
  BY <1>2, IsCutType DEF Note, IsCut, Nothing
<1>5. /\ state'[c] = IF r.cut = None THEN "Ready" ELSE "Cut"
      /\ \A d \in Ctx : d # c => state'[d] = state[d]
  BY <1>1, <1>2
<1> HIDE DEF got
<1> QED BY <1>1, <1>3, <1>4, <1>5, ReadersAfterWalk

(* The head of a cycle: its walk becomes a member that waits, with its     *)
(* cut, and the fixpoint it was told about goes under the new one.         *)
LEMMA ReadersResolveGroup ==
  ASSUME Inv, ReadersInv, ResolveGroup, Inv'
  PROVE  ReadersInv'
<1>1. PICK c : c = Top.ctx
  OBVIOUS
<1>2. WalkOver /\ Top.kind = "walk" /\ stack' = Under /\ read' = read
  BY DEF ResolveGroup, WalkOver
<1>3. PICK fr : ctl' = Append(Below, fr) /\ fr.kind = "resolve" /\ fr.head = c /\ fr.outer = fixpoint
  BY <1>1 DEF ResolveGroup
<1>4. PICK S : state' = [d \in Ctx |-> IF d \in S THEN "Resolving" ELSE state[d]]
  BY DEF ResolveGroup, FromRoundZero
<1>5. PICK n \in Nat : /\ n = Len(Below) /\ n >= 1 /\ DOMAIN Below = 1..n
                       /\ DOMAIN ctl' = 1..(n + 1) /\ Len(ctl') = n + 1
                       /\ ctl'[n + 1] = fr /\ \A i \in 1..n : ctl'[i] = Below[i]
  <2>1. Below \in Seq(Frame) /\ Below # <<>>
    BY <1>2, WalkOverBelow DEF FramesFit
  <2>2. ctl' \in Seq(Frame)
    BY DEF Inv, TypeOK
  <2>3. PICK n \in Nat : n = Len(Below) /\ n >= 1 /\ DOMAIN Below = 1..n
    BY <2>1, SeqType
  <2>4. /\ DOMAIN ctl' = 1..(n + 1)
        /\ ctl'[n + 1] = fr /\ \A i \in 1..n : ctl'[i] = Below[i]
    BY <1>3, <2>1, <2>3
  <2>5. Len(ctl') = n + 1
    BY <2>2, <2>3, <2>4, SeqType
  <2> QED BY <2>3, <2>4, <2>5
<1>6. /\ WalksTold(Below, read) /\ ~ctl[1].answered
      /\ n = 1 => ctl[1].ctx = c
      /\ Below[1] = ctl[1] /\ EntryFits(Below)
  <2>1. 1 \in DOMAIN Below
    BY <1>5
  <2> QED BY <1>1, <1>2, <1>5, <2>1, ReadersBelow
<1>7. WalksTold(ctl', read')
  <2>1. ASSUME NEW i \in 1..(n + 1), ctl'[i].kind = "walk" PROVE WalkTold(ctl'[i], read[ctl'[i].ctx])
    <3>1. i # n + 1
      BY <1>3, <1>5, <2>1
    <3>2. i \in 1..n /\ ctl'[i] = Below[i]
      BY <1>5, <3>1
    <3> QED BY <1>5, <1>6, <2>1, <3>2 DEF WalksTold
  <2> QED BY <1>2, <1>5, <2>1 DEF WalksTold
<1>8. EntryFits(ctl')
  <2>1. ctl'[1] = ctl[1]
    BY <1>5, <1>6
  <2>2. CASE n = 1
    BY <1>3, <1>5, <1>6, <2>1, <2>2 DEF EntryFits
  <2>3. CASE n # 1
    <3>1. 2 \in 1..n /\ ctl'[2] = Below[2]
      BY <1>5, <2>3
    <3> QED BY <1>5, <1>6, <2>1, <3>1 DEF EntryFits
  <2> QED BY <2>2, <2>3
<1>9. c \in Ctx /\ state'[c] = "Resolving"
  <2>1. c \in Range(ctl'[n + 1].members) /\ n + 1 \in DOMAIN ctl'
    BY <1>3, <1>5 DEF Inv, GroupsFit
  <2>2. state'[c] = "Resolving"
    BY <1>3, <1>5, <2>1 DEF Inv, GroupsFit
  <2> QED BY <1>1, <1>2, <2>2, WalkOverType
<1>10. ASSUME NEW d \in Ctx, state'[d] = "Cut"
       PROVE  CutRead(state', ctl', stack', read', fixpoint')
  <2>1. state[d] = "Cut" /\ \A e \in Ctx : state[e] \in Waiting => state'[e] \in Waiting
    BY <1>4, <1>10 DEF Waiting
  <2>2. CASE read[c].cut # None
    BY <1>2, <1>9, <2>2 DEF CutRead, Waiting
  <2>3. CASE FixpointCut(fixpoint)
    <3>1. n + 1 \in DOMAIN ctl' /\ ctl'[n + 1].kind = "resolve" /\ FixpointCut(ctl'[n + 1].outer)
      BY <1>3, <1>5, <2>3
    <3> QED BY <3>1 DEF CutRead
  <2>4. CASE \E i \in DOMAIN Under : read[Under[i]].cut # None
    BY <1>2, <2>4 DEF CutRead
  <2>5. CASE \E i \in DOMAIN Below : Below[i].kind = "resolve" /\ FixpointCut(Below[i].outer)
    <3>1. PICK i \in 1..n : Below[i].kind = "resolve" /\ FixpointCut(Below[i].outer)
      BY <1>5, <2>5
    <3>2. i \in DOMAIN ctl' /\ ctl'[i] = Below[i]
      BY <1>5
    <3> QED BY <3>1, <3>2 DEF CutRead
  <2>6. CASE \E e \in Ctx : state[e] \in Waiting /\ read[e].cut # None
    BY <1>2, <2>1, <2>6 DEF CutRead
  <2>7. CutRead(state, Below, Under, read, fixpoint) \/ read[c].cut # None
    BY <1>1, <1>2, <2>1, CutUnderWalk
  <2> QED BY <2>2, <2>3, <2>4, <2>5, <2>6, <2>7 DEF CutRead
<1> QED BY <1>7, <1>8, <1>10 DEF ReadersInv, CutsTold

-----------------------------------------------------------------------------
(* A fixpoint ends.                                                        *)

(* A cut is read below a fixpoint, or by it.                               *)
LEMMA CutUnderFixpoint ==
  ASSUME Inv, ReadersInv, Top.kind = "resolve", NEW d \in Ctx, state[d] = "Cut"
  PROVE  CutRead(state, Below, stack, read, Top.outer) \/ FixpointCut(fixpoint)
<1>1. CutRead(state, ctl, stack, read, fixpoint)
  BY StillOpen
<1>2. \A i \in DOMAIN ctl : (i \in DOMAIN Below /\ Below[i] = ctl[i]) \/ ctl[i] = Top
  BY ReadersBelow
<1>3. CASE \E i \in DOMAIN ctl : ctl[i].kind = "resolve" /\ FixpointCut(ctl[i].outer)
  BY <1>2, <1>3 DEF CutRead
<1> QED BY <1>1, <1>3 DEF CutRead

(* A fixpoint ends: its cut goes to the reader below, or stays with a      *)
(* member that waits.                                                      *)
LEMMA ReadersAfterFixpoint ==
  ASSUME Inv, ReadersInv, Top.kind = "resolve",
         NEW rd \in [Ctx -> Note], Grown(read, rd),
         NEW n, NoteAt(n, Len(stack)), NEW got \in (SUBSET V) \cup {None},
         Return(Below, rd, Top.outer, stack, n, got), stack' = stack,
         got = None => n.lowest < Len(stack) \/ n.joins # None,
         \/ n.cut # None /\ state'[Top.head] = "Cut"
         \/ /\ \A d \in Ctx : state'[d] = "Cut" => state[d] = "Cut"
            /\ \A e \in Ctx : state[e] \in Waiting /\ rd[e].cut # None => state'[e] \in Waiting
            /\ FixpointCut(fixpoint) =>
                  rd[Top.head].cut # None /\ state'[Top.head] \in Waiting
  PROVE  ReadersInv'
<1>1. /\ Below \in Seq(Frame) /\ FramesFit(Below, stack, Top.outer)
      /\ CallersWait(Below) /\ Waits(Below[Len(Below)])
      /\ Top.outer \in Fixpoint \cup {None} /\ Top.head \in Ctx
  BY ResolveBelow, ResolveOnTop
<1>2. stack \in Seq(Ctx) /\ read \in [Ctx -> Note]
  BY TopFrame
<1>3. /\ WalksTold(Below, read) /\ EntryFits(Below) /\ Below[1].ctx = ctl[1].ctx
      /\ Len(Below) = 1 => ctl[1].ctx = Top.head
      /\ Len(Below) = 1 \/ Len(Below) > 1
      /\ Len(Below) > 1 => Below[Len(Below)].kind # "solve"
  BY ReadersBelow
<1>4. WalksTold(Below, rd)
  BY <1>1, <1>2, <1>3, WalksToldGrow
<1>5. ASSUME NEW d \in Ctx, state'[d] = "Cut"
      PROVE  \/ CutRead(state', Below, stack, rd, Top.outer)
             \/ n.cut # None /\ Below[Len(Below)].kind # "solve"
             \/ Len(Below) = 1 /\ state'[Below[1].ctx] = "Cut"
  <2>1. CASE n.cut # None /\ state'[Top.head] = "Cut"
    BY <1>3, <2>1
  <2>2. CASE ~(n.cut # None /\ state'[Top.head] = "Cut")
    <3>1. state[d] = "Cut"
      BY <1>5, <2>2
    <3>2. CASE FixpointCut(fixpoint)
      BY <1>1, <2>2, <3>2 DEF CutRead
    <3>3. CASE CutRead(state, Below, stack, read, Top.outer)
      <4>1. CASE \E i \in DOMAIN stack : read[stack[i]].cut # None
        <5>1. PICK i \in DOMAIN stack : read[stack[i]].cut # None
          BY <4>1
        <5>2. stack[i] \in Ctx
          BY <1>2, SeqType
        <5>3. rd[stack[i]].cut # None
          BY <5>1, <5>2 DEF Grown
        <5> QED BY <5>3 DEF CutRead
      <4>2. CASE \E e \in Ctx : state[e] \in Waiting /\ read[e].cut # None
        BY <2>2, <4>2 DEF CutRead, Grown
      <4> QED BY <3>3, <4>1, <4>2 DEF CutRead
    <3> QED BY <3>1, <3>2, <3>3, CutUnderFixpoint
  <2> QED BY <2>1, <2>2
<1> QED BY <1>1, <1>2, <1>3, <1>4, <1>5, ReadersAfterReturn

(* The members of a fixpoint that stops keep the cut it read.              *)
LEMMA KeepCutGrows ==
  ASSUME NEW rd \in [Ctx -> Note], NEW ms, NEW cut \in Cut \cup {None}
  PROVE  /\ Grown(rd, KeepCut(rd, ms, cut))
         /\ \A c \in Ctx : c \in ms /\ cut # None => KeepCut(rd, ms, cut)[c].cut # None
<1>1. IsCut(cut) \in Note /\ IsCut(cut).cut = cut
  BY IsCutType DEF IsCut, Nothing
<1>2. ASSUME NEW c \in Ctx, NEW kc, kc = KeepCut(rd, ms, cut)
      PROVE  /\ kc[c].lowest <= rd[c].lowest
             /\ rd[c].joins # None => kc[c].joins # None
             /\ rd[c].cut # None => kc[c].cut # None
             /\ c \in ms /\ cut # None => kc[c].cut # None
  <2>1. rd[c] \in Note /\ rd[c].lowest \in Nat
    BY DEF Note
  <2>2. kc[c] = IF c \in ms THEN Noted(rd[c], IsCut(cut)) ELSE rd[c]
    BY <1>2 DEF KeepCut
  <2> QED BY <1>1, <2>1, <2>2, NotedGrows
<1> QED BY <1>2 DEF Grown

(* What a fixpoint that stops leaves: its members wait, with its cut.      *)
LEMMA StoppedReads ==
  ASSUME Inv, Top.kind = "resolve", NEW rd, NEW head, ParkAll(head),
         rd = KeepCut(read, Range(Top.members), fixpoint.read.cut)
  PROVE  /\ rd \in [Ctx -> Note] /\ Grown(read, rd)
         /\ \A d \in Ctx : state'[d] = "Cut" => state[d] = "Cut"
         /\ \A e \in Ctx : state[e] \in Waiting => state'[e] \in Waiting
         /\ FixpointCut(fixpoint) => rd[Top.head].cut # None /\ state'[Top.head] \in Waiting
<1>1. /\ Top.head \in Ctx /\ Top.head \in Range(Top.members)
      /\ fixpoint.read.cut \in Cut \cup {None} /\ read \in [Ctx -> Note]
  BY ResolveOnTop, TopFrame DEF NoteAt, Note
<1>2. state' = [c \in Ctx |-> IF c \in Range(Top.members) THEN "Parked" ELSE state[c]]
  BY DEF ParkAll
<1>3. rd \in [Ctx -> Note] /\ Grown(read, rd)
  BY <1>1, KeepCutType, KeepCutGrows
<1>4. fixpoint.read.cut # None => rd[Top.head].cut # None
  BY <1>1, KeepCutGrows
<1> QED BY <1>1, <1>2, <1>3, <1>4 DEF Waiting, FixpointCut

(* It merges with a cycle further down: the reader is told of the walk.    *)
LEMMA ReadersMerged ==
  ASSUME Inv, ReadersInv, Merged
  PROVE  ReadersInv'
<1>1. PICK r, head : /\ r = fixpoint.read /\ MemberOver /\ r.lowest # NoDepth /\ ParkAll(head)
                     /\ stack' = stack
                     /\ Return(Below, KeepCut(read, Range(Top.members), r.cut), Top.outer, stack,
                               DependsOn(r.lowest), None)
  BY DEF Merged
<1>2. Top.kind = "resolve"
  BY <1>1 DEF MemberOver, Replays
<1>3. r.lowest \in Nat /\ r.lowest < Len(stack)
  BY <1>1, <1>2, ResolveOnTop DEF NoteAt, Note
<1>4. /\ NoteAt(DependsOn(r.lowest), Len(stack))
      /\ DependsOn(r.lowest).lowest = r.lowest
  BY <1>3, TopFrame, DependsOnType DEF DependsOn, Nothing
<1>5. PICK rd : rd = KeepCut(read, Range(Top.members), r.cut)
  OBVIOUS
<1>6. /\ rd \in [Ctx -> Note] /\ Grown(read, rd)
      /\ \A d \in Ctx : state'[d] = "Cut" => state[d] = "Cut"
      /\ \A e \in Ctx : state[e] \in Waiting => state'[e] \in Waiting
      /\ FixpointCut(fixpoint) => rd[Top.head].cut # None /\ state'[Top.head] \in Waiting
  BY <1>1, <1>2, <1>5, StoppedReads
<1> QED BY <1>1, <1>2, <1>3, <1>4, <1>5, <1>6, ReadersAfterFixpoint

(* It joins a group further down: the reader is told of the group.         *)
LEMMA ReadersJoined ==
  ASSUME Inv, ReadersInv, Joined
  PROVE  ReadersInv'
<1> DEFINE m == ReadGroupMember(Top.head, state', heads', current, Top.outer, stack)
<1>1. PICK r : /\ r = fixpoint.read /\ MemberOver /\ r.joins # None /\ KeepsResolved
               /\ ParkAll(r.joins) /\ current' = current /\ result' = result /\ stack' = stack
               /\ Return(Below, KeepCut(read, Range(Top.members), r.cut), Top.outer, stack,
                         m.note, m.got)
  BY DEF Joined
<1>2. Top.kind = "resolve"
  BY <1>1 DEF MemberOver, Replays
<1>3. r.joins \in Ctx /\ Len(stack) \in Nat
  BY <1>1, <1>2, ResolveOnTop, TopFrame DEF NoteAt, Note
<1>4. /\ heads' \in [Ctx -> Ctx]
      /\ \A c \in Ctx : state'[c] = "Running" <=> state[c] = "Running"
  BY <1>1, <1>3, ParkAllType
<1>5. Top.head \in Ctx /\ current[Top.head] \in FunctionResult
  BY <1>2, ResolveOnTop
<1>6. state'[heads'[Top.head]] = "Running" =>
         depth[heads'[Top.head]] \in Nat /\ depth[heads'[Top.head]] < Len(stack)
  <2>1. heads'[Top.head] \in Ctx
    BY <1>4, <1>5
  <2> QED BY <1>4, <2>1, RunningDepth
<1>7. NoteAt(m.note, Len(stack)) /\ m.got \in (SUBSET V) \cup {None}
  BY <1>3, <1>4, <1>5, <1>6, GroupReadType
<1>8. m.got = None => m.note.lowest < Len(stack) \/ m.note.joins # None
  <2>1. state'[heads'[Top.head]] = "Running" => depth[heads'[Top.head]] < Len(stack)
    BY <1>6
  <2>2. PICK st, hs, d : st = state' /\ hs = heads' /\ d = Top.head
    OBVIOUS
  <2>3. PICK gm : gm = ReadGroupMember(d, st, hs, current, Top.outer, stack) /\ gm = m
    BY <2>2
  <2>4. d \in Ctx /\ hs \in [Ctx -> Ctx] /\ current[d] \in FunctionResult
    BY <1>4, <1>5, <2>2
  <2>5. st[hs[d]] = "Running" => depth[hs[d]] < Len(stack)
    BY <2>1, <2>2
  <2>6. gm.got = None => gm.note.lowest < Len(stack) \/ gm.note.joins # None
    BY <2>3, <2>4, <2>5, GroupReadTells
  <2> HIDE DEF m
  <2> QED BY <2>3, <2>6
<1> HIDE DEF m
<1>9. PICK rd : rd = KeepCut(read, Range(Top.members), r.cut)
  OBVIOUS
<1>10. /\ rd \in [Ctx -> Note] /\ Grown(read, rd)
       /\ \A d \in Ctx : state'[d] = "Cut" => state[d] = "Cut"
       /\ \A e \in Ctx : state[e] \in Waiting => state'[e] \in Waiting
       /\ FixpointCut(fixpoint) => rd[Top.head].cut # None /\ state'[Top.head] \in Waiting
  BY <1>1, <1>2, <1>9, StoppedReads
<1> QED BY <1>1, <1>2, <1>7, <1>8, <1>9, <1>10, ReadersAfterFixpoint

(* FirstCut misses no member's cut.                                        *)
LEMMA FirstCutFinds ==
  ASSUME NEW ms \in Seq(Ctx), FirstCut(ms) = None
  PROVE  \A c \in Range(ms) : read[c].cut = None
<1> DEFINE cuts == {i \in DOMAIN ms : read[ms[i]].cut # None}
           first == CHOOSE i \in cuts : \A j \in cuts : i <= j
<1>1. CASE cuts = {}
  BY <1>1 DEF Range
<1>2. CASE cuts # {}
  <2>1. cuts \in SUBSET Nat
    BY SeqType
  <2>2. FirstCut(ms) = read[ms[first]].cut
    BY <1>2 DEF FirstCut
  <2>3. first \in cuts
    <3> HIDE DEF cuts
    <3>1. \E i \in cuts : \A j \in cuts : i <= j
      BY <1>2, <2>1, Smallest
    <3> QED BY <3>1
  <2> HIDE DEF first
  <2>4. read[ms[first]].cut # None
    BY <2>3
  <2> QED BY <2>2, <2>4
<1> QED BY <1>1, <1>2

(* What a group that settles answers and leaves.                           *)
LEMMA SettleTells ==
  ASSUME Inv, Settle
  PROVE  \E rd \in [Ctx -> Note], cut \in Cut \cup {None}, got \in SUBSET V, ms \in SUBSET Ctx :
            /\ Return(Below, rd, Top.outer, stack, IsCut(cut), got)
            /\ Grown(read, rd) /\ Top.head \in ms
            /\ ms = Range(Top.members) \cup Range(Joiners)
            /\ got = result'[Top.head].returns
            /\ cut = None => ~FixpointCut(fixpoint) /\ \A c \in ms : read[c].cut = None
            /\ \A c \in Ctx : c \notin ms => rd[c] = read[c]
            /\ \A c \in Ctx : c \in ms => rd[c].cut = cut
            /\ \A c \in Ctx : state'[c] = IF c \notin ms THEN state[c]
                                          ELSE IF cut = None THEN "Ready" ELSE "Cut"
<1> DEFINE seq == Top.members \o Joiners
           ms == Range(seq)
           new == Range(Joiners)
           cut == IF fixpoint.read.cut # None THEN fixpoint.read.cut ELSE FirstCut(seq)
           last(c) == IF c \in new THEN RoundZero(walk[c]) ELSE current[c]
           res(c) == [last(c) EXCEPT !.capped = Capped(Top), !.cut = cut]
           rd == [c \in Ctx |-> IF c \in ms THEN [read[c] EXCEPT !.cut = cut] ELSE read[c]]
           got == res(Top.head).returns
<1>1. /\ RoundOver /\ Return(Below, rd, Top.outer, stack, IsCut(cut), got)
      /\ state' = [c \in Ctx |-> IF c \notin ms THEN state[c]
                                 ELSE IF cut = None THEN "Ready" ELSE "Cut"]
      /\ result' = [c \in Ctx |-> IF c \in ms THEN res(c) ELSE result[c]]
  BY DEF Settle
<1>2. Top.kind = "resolve"
  BY <1>1 DEF RoundOver
<1>3. /\ Top.head \in Ctx /\ Top.members \in Seq(Ctx) /\ Top.head \in Range(Top.members)
      /\ state[Top.head] = "Resolving" /\ current[Top.head] \in FunctionResult
      /\ fixpoint.read \in Note
  BY <1>2, ResolveOnTop DEF NoteAt
<1>4. Joiners \in Seq(Ctx) /\ \A c \in new : state[c] = "Parked"
  BY <1>2, JoinersType
<1>5. /\ seq \in Seq(Ctx) /\ Top.head \in ms /\ ms \in SUBSET Ctx
      /\ ms = Range(Top.members) \cup Range(Joiners)
  <2>1. seq \in Seq(Ctx) /\ Top.head \in ms /\ ms = Range(Top.members) \cup Range(Joiners)
    BY <1>3, <1>4, RangeOfConcat
  <2> HIDE DEF seq
  <2>2. ms \in SUBSET Ctx
    BY <2>1, SeqType DEF Range
  <2> QED BY <2>1, <2>2
<1>6. cut \in Cut \cup {None}
  <2>1. fixpoint.read.cut \in Cut \cup {None}
    BY <1>3 DEF Note
  <2>2. FirstCut(seq) \in Cut \cup {None}
    BY <1>5, TopFrame, FirstCutType
  <2> HIDE DEF seq
  <2> QED BY <2>1, <2>2
<1>7. cut = None => ~FixpointCut(fixpoint) /\ \A c \in ms : read[c].cut = None
  <2> SUFFICES ASSUME cut = None
               PROVE  ~FixpointCut(fixpoint) /\ \A c \in ms : read[c].cut = None
    OBVIOUS
  <2>1. fixpoint.read.cut = None /\ FirstCut(seq) = None
    <3> HIDE DEF seq
    <3> QED OBVIOUS
  <2> HIDE DEF cut, seq
  <2>2. \A c \in Range(seq) : read[c].cut = None
    BY <1>5, <2>1, FirstCutFinds
  <2> QED BY <2>1, <2>2 DEF FixpointCut
<1> HIDE DEF cut, ms, seq
<1>8. \A c \in Ctx : [read[c] EXCEPT !.cut = cut] \in Note
                     /\ [read[c] EXCEPT !.cut = cut].lowest = read[c].lowest
                     /\ [read[c] EXCEPT !.cut = cut].joins = read[c].joins
                     /\ [read[c] EXCEPT !.cut = cut].cut = cut
                     /\ read[c].lowest \in Nat
  BY <1>6, TopFrame DEF Note
<1>9. /\ rd \in [Ctx -> Note]
      /\ \A c \in Ctx : c \notin ms => rd[c] = read[c]
      /\ \A c \in Ctx : c \in ms => rd[c].cut = cut
      /\ \A c \in Ctx : /\ rd[c].lowest = read[c].lowest /\ rd[c].joins = read[c].joins
                        /\ read[c].lowest \in Nat
  BY <1>8, TopFrame
<1> HIDE DEF rd
<1>10. Grown(read, rd)
  <2>1. ASSUME NEW c \in Ctx, read[c].cut # None PROVE rd[c].cut # None
    BY <1>7, <1>9, <2>1
  <2> QED BY <1>9, <2>1 DEF Grown
<1>11. got \in SUBSET V
  <2>1. last(Top.head) = current[Top.head]
    BY <1>3, <1>4
  <2>2. got = current[Top.head].returns
    <3> HIDE DEF last
    <3>1. got = last(Top.head).returns
      BY <1>3, <2>1 DEF FunctionResult
    <3> QED BY <2>1, <3>1
  <2> HIDE DEF got
  <2> QED BY <1>3, <2>2, ReturnsType
<1>12. got = result'[Top.head].returns
  BY <1>1, <1>3, <1>5
<1> HIDE DEF got
<1>13. \A c \in Ctx : state'[c] = IF c \notin ms THEN state[c]
                                   ELSE IF cut = None THEN "Ready" ELSE "Cut"
  BY <1>1
<1>14. Return(Below, rd, Top.outer, stack, IsCut(cut), got)
  BY <1>1
<1> QED BY <1>5, <1>6, <1>7, <1>9, <1>10, <1>11, <1>12, <1>13, <1>14

(* It settles: the members are cut if anything the group read was, and the *)
(* reader is told.                                                         *)
LEMMA ReadersSettle ==
  ASSUME Inv, ReadersInv, Settle
  PROVE  ReadersInv'
<1>1. PICK rd \in [Ctx -> Note], cut \in Cut \cup {None}, got \in SUBSET V, ms \in SUBSET Ctx :
            /\ Return(Below, rd, Top.outer, stack, IsCut(cut), got)
            /\ Grown(read, rd) /\ Top.head \in ms
            /\ cut = None => ~FixpointCut(fixpoint) /\ \A c \in ms : read[c].cut = None
            /\ \A c \in Ctx : c \notin ms => rd[c] = read[c]
            /\ \A c \in Ctx : c \in ms => rd[c].cut = cut
            /\ \A c \in Ctx : state'[c] = IF c \notin ms THEN state[c]
                                          ELSE IF cut = None THEN "Ready" ELSE "Cut"
  BY SettleTells
<1>2. Top.kind = "resolve" /\ stack' = stack
  BY DEF Settle, RoundOver
<1>3. Top.head \in Ctx /\ Len(stack) \in Nat
  BY <1>2, ResolveOnTop, TopFrame
<1>4. NoteAt(IsCut(cut), Len(stack)) /\ IsCut(cut).cut = cut
  BY <1>3, IsCutType DEF IsCut, Nothing
<1>5. got \in (SUBSET V) \cup {None} /\ got # None
  BY NoneAssumption
<1>6. CASE cut # None
  <2>1. state'[Top.head] = "Cut"
    BY <1>1, <1>3, <1>6
  <2> QED BY <1>1, <1>2, <1>4, <1>5, <1>6, <2>1, ReadersAfterFixpoint
<1>7. CASE cut = None
  <2>1. ~FixpointCut(fixpoint) /\ \A d \in Ctx : state'[d] = "Cut" => state[d] = "Cut"
    BY <1>1, <1>7
  <2>2. \A e \in Ctx : state[e] \in Waiting /\ rd[e].cut # None => state'[e] \in Waiting
    BY <1>1, <1>7
  <2> QED BY <1>1, <1>2, <1>4, <1>5, <2>1, <2>2, ReadersAfterFixpoint
<1> QED BY <1>6, <1>7

-----------------------------------------------------------------------------
(* The invariant.                                                          *)

(* solve starts with nothing cut, and no walk.                             *)
LEMMA InitReaders == Init => ReadersInv
<1> SUFFICES ASSUME Init PROVE ReadersInv
  OBVIOUS
<1>1. PICK f \in Entries :
         ctl = <<[kind |-> "solve", base |-> 0, ctx |-> Key(f, {}), answered |-> FALSE]>>
  BY DEF Init
<1>2. Len(ctl) = 1 /\ DOMAIN ctl = {1} /\ ctl[1].kind = "solve" /\ ~ctl[1].answered
  BY <1>1
<1>3. \A c \in Ctx : state[c] # "Cut"
  BY DEF Init
<1>4. WalksTold(ctl, read)
  BY <1>2 DEF WalksTold
<1>5. EntryFits(ctl)
  BY <1>2 DEF EntryFits
<1> QED BY <1>3, <1>4, <1>5 DEF ReadersInv, CutsTold

(* No step lets a walk defer something it was not told of, or loses a cut. *)
LEMMA ReadersNext == Inv /\ ReadersInv /\ [Next]_vars => ReadersInv'
<1> SUFFICES ASSUME Inv, ReadersInv, [Next]_vars PROVE ReadersInv'
  OBVIOUS
<1>0. Inv'
  BY NextInv
<1>1. CASE Get
  BY <1>1, ReadersGetReady, ReadersGetRunning, ReadersGetGroupMember, ReadersGetCut,
     ReadersGetWalk DEF Get
<1>2. CASE WalkStep
  BY <1>0, <1>2, ReadersWalkOn, ReadersParkInCycle, ReadersParkInGroup, ReadersFinishAlone
     DEF WalkStep
<1>3. CASE FixpointStep
  BY <1>0, <1>3, ReadersResolveGroup, ReadersReplay, ReadersMerged, ReadersJoined,
     ReadersSettle DEF FixpointStep
<1>4. CASE DeadlinePasses \/ Finished \/ UNCHANGED vars
  <2>1. UNCHANGED <<state, read, stack, fixpoint, ctl>>
    BY <1>4 DEF DeadlinePasses, Finished, vars, slots
  <2> QED BY <2>1 DEF ReadersInv, CutsTold
<1> QED BY <1>1, <1>2, <1>3, <1>4 DEF Next, Thread

(* In every reachable state of every program, a walk that deferred         *)
(* something was told why, and a cut is known to a reader on the way to    *)
(* the entry: ReadersInv is inductive together with Inv.                   *)
THEOREM ReadersInvariance == Spec => [](Inv /\ ReadersInv)
<1>1. Init => Inv /\ ReadersInv
  BY InitInv, InitReaders
<1>2. (Inv /\ ReadersInv) /\ [Next]_vars => (Inv /\ ReadersInv)'
  BY NextInv, ReadersNext
<1> QED BY <1>1, <1>2, PTL DEF Spec

-----------------------------------------------------------------------------
(* What it gives.                                                          *)

(* What a walk read tells whether it deferred anything.                     *)
LEMMA AloneDeferred == Inv /\ ReadersInv => AloneDefersNothing
<1> SUFFICES ASSUME Inv, ReadersInv, FinishesAlone, Top.w.deferred # <<>> PROVE FALSE
  BY DEF AloneDefersNothing
<1>1. WalkOver /\ Top.kind = "walk"
  BY DEF FinishesAlone, WalkOver
<1>2. PICK n \in Note : n = read[Top.ctx]
  BY <1>1, WalkOverType, TopFrame
<1>3. n.lowest > Len(Under) /\ n.joins = None /\ n.lowest \in Nat
  BY <1>2 DEF FinishesAlone, Note
<1>4. Top.base = Len(Under) /\ Len(Under) \in Nat
  BY <1>1, TopFrame, WalkOverType, PopWalk DEF Top
<1>5. WalkTold(Top, n)
  BY <1>1, <1>2, TopFrame DEF ReadersInv, WalksTold
<1>6. n.lowest <= Len(Under)
  BY <1>3, <1>4, <1>5 DEF WalkTold, Reads
<1> QED BY <1>3, <1>4, <1>6

(* finish_alone's assertion holds for every program: a walk that read      *)
(* nothing unfinished deferred nothing, so its summary needs no replay.    *)
THEOREM NothingDeferredAlone == Spec => []AloneDefersNothing
  BY AloneDeferred, ReadersInvariance, PTL

(* The entry's summary is marked cut whenever any context is, whatever the *)
(* program and whichever limits fired.                                     *)
THEOREM EntryIsMarkedCut == Spec => []EntryIsMarked
<1>1. Inv /\ ReadersInv /\ NothingLeftWaiting => EntryIsMarked
  <2> SUFFICES ASSUME Inv, ReadersInv, NothingLeftWaiting, Done, state[ctl[1].ctx] = "Ready",
                      NEW c \in Ctx, state[c] = "Cut"
               PROVE  FALSE
    BY DEF EntryIsMarked
  <2>1. CutRead(state, ctl, stack, read, fixpoint)
    BY DEF ReadersInv, CutsTold
  <2>2. stack = <<>> /\ fixpoint = None /\ \A d \in Ctx : state[d] \notin Waiting
    BY DEF NothingLeftWaiting, Waiting
  <2>3. PICK i \in DOMAIN ctl : ctl[i].kind = "resolve"
    BY <2>1, <2>2 DEF CutRead, FixpointCut
  <2>4. DOMAIN ctl = 1..1
    BY TopFrame, SeqType DEF Done
  <2>5. ctl[1].kind = "solve"
    BY <2>4 DEF Inv, FramesFit
  <2> QED BY <2>3, <2>4, <2>5
<1> QED BY <1>1, ReadersInvariance, NothingWaitsAtTheEnd, PTL
=============================================================================
