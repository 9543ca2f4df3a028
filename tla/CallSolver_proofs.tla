--------------------------- MODULE CallSolver_proofs ---------------------------
(***************************************************************************)
(* The proof that Inv is an invariant of CallSolver, for every program and *)
(* every limit, and what follows from it; that the cost limits hold; and   *)
(* that with reuse no context is walked twice from its start unless a      *)
(* limit or the deadline cut the run.                                      *)
(***************************************************************************)
EXTENDS CallSolverInvariant, FiniteSetTheorems, WellFoundedInduction, TLAPS

-----------------------------------------------------------------------------
(***************************************************************************)
(* Facts about the operators CallSolver is built from: what the filter of  *)
(* the parked list keeps, the types of the values, walks and frames, and   *)
(* how the call stack keeps its shape when a frame is answered, pushed or  *)
(* popped.                                                                 *)
(***************************************************************************)

(* The set of pairs Smallest compares by is the order < on Nat.            *)
LEMMA LessThan == OpToRel(<, Nat) = {ss \in Nat \X Nat : ss[1] < ss[2]}
  BY DEF OpToRel

(* A non-empty set of numbers has a least element.                         *)
LEMMA Smallest ==
  ASSUME NEW S \in SUBSET Nat, S # {}
  PROVE  \E i \in S : \A j \in S : i <= j
<1> DEFINE R == {ss \in Nat \X Nat : ss[1] < ss[2]}
<1>1. IsWellFoundedOn(R, Nat)
  BY NatLessThanWellFounded, LessThan
<1> HIDE DEF R
<1>2. PICK i \in S : \A j \in S : ~(<<j, i>> \in R)
  BY <1>1, WFMin
<1>3. ASSUME NEW j \in S PROVE i <= j
  <2>1. <<j, i>> \notin R /\ i \in Nat /\ j \in Nat
    BY <1>2
  <2> QED BY <2>1 DEF R
<1> QED BY <1>3

-----------------------------------------------------------------------------
(* take_parked: the sequence Kept returns holds the elements of ps in S.   *)

(* Vec::push adds one element to what a sequence holds.                    *)
LEMMA RangeOfAppend ==
  ASSUME NEW T, NEW s \in Seq(T), NEW e \in T
  PROVE  Range(Append(s, e)) = Range(s) \cup {e}
<1> DEFINE t == Append(s, e)
<1>1. /\ t \in Seq(T) /\ Len(t) = Len(s) + 1 /\ DOMAIN t = 1..(Len(s) + 1)
      /\ DOMAIN s = 1..Len(s) /\ Len(s) \in Nat
      /\ t[Len(s) + 1] = e /\ \A i \in 1..Len(s) : t[i] = s[i]
  OBVIOUS
<1> HIDE DEF t
<1> QED BY <1>1 DEF Range

(* A sequence without duplicates stays one when a new element is pushed.   *)
LEMMA AppendInjective ==
  ASSUME NEW T, NEW s \in Seq(T), NEW e \in T, IsInjective(s), e \notin Range(s)
  PROVE  IsInjective(Append(s, e))
<1> DEFINE t == Append(s, e)
<1>1. /\ DOMAIN t = 1..(Len(s) + 1) /\ DOMAIN s = 1..Len(s) /\ Len(s) \in Nat
      /\ t[Len(s) + 1] = e /\ \A i \in 1..Len(s) : t[i] = s[i]
  OBVIOUS
<1>2. \A i \in 1..Len(s) : s[i] \in Range(s)
  BY <1>1 DEF Range
<1> HIDE DEF t
<1>3. ASSUME NEW i \in DOMAIN t, NEW j \in DOMAIN t, t[i] = t[j]
      PROVE  i = j
  <2>1. CASE i \in 1..Len(s) /\ j \in 1..Len(s)
    BY <1>1, <1>3, <2>1 DEF IsInjective
  <2>2. CASE i = Len(s) + 1 /\ j \in 1..Len(s)
    BY <1>1, <1>2, <1>3, <2>2
  <2>3. CASE j = Len(s) + 1 /\ i \in 1..Len(s)
    BY <1>1, <1>2, <1>3, <2>3
  <2>4. CASE i = Len(s) + 1 /\ j = Len(s) + 1
    BY <2>4
  <2> QED BY <1>1, <2>1, <2>2, <2>3, <2>4
<1>4. IsInjective(t)
  BY <1>3 DEF IsInjective
<1> QED BY <1>4 DEF t

(* The function Kept builds has a value on every prefix of ps.             *)
Filters(ps, S, n) ==
    \E f \in [0..n -> Seq(Ctx)] :
      \A i \in 0..n :
        /\ f[i] = IF i = 0 THEN <<>>
                  ELSE IF ps[i] \in S THEN Append(f[i - 1], ps[i]) ELSE f[i - 1]
        /\ Range(f[i]) = {ps[j] : j \in 1..i} \cap S
        /\ IsInjective(ps) => IsInjective(f[i])

(* On every prefix of the parked list the filter keeps the elements of     *)
(* S, in a sequence of contexts.                                           *)
LEMMA KeptUpTo ==
  ASSUME NEW ps \in Seq(Ctx), NEW S
  PROVE  \A n \in 0..Len(ps) : Filters(ps, S, n)
<1> DEFINE Good(f, i) ==
             /\ f[i] = IF i = 0 THEN <<>>
                       ELSE IF ps[i] \in S THEN Append(f[i - 1], ps[i]) ELSE f[i - 1]
             /\ Range(f[i]) = {ps[j] : j \in 1..i} \cap S
             /\ IsInjective(ps) => IsInjective(f[i])
           Bad == {n \in 0..Len(ps) :
                     ~ \E f \in [0..n -> Seq(Ctx)] : \A i \in 0..n : Good(f, i)}
<1> SUFFICES ASSUME Bad # {} PROVE FALSE
  BY DEF Filters
<1>0. Bad \in SUBSET Nat
  OBVIOUS
<1> HIDE DEF Bad
<1>1. PICK n \in Bad : \A m \in Bad : n <= m
  BY <1>0, Smallest
<1>2. /\ n \in 0..Len(ps)
      /\ ~ \E f \in [0..n -> Seq(Ctx)] : \A i \in 0..n : Good(f, i)
  BY <1>1 DEF Bad
<1>3. CASE n = 0
  <2> DEFINE f == [i \in 0..0 |-> <<>>]
  <2>1. f \in [0..0 -> Seq(Ctx)]
    OBVIOUS
  <2>2. \A i \in 0..0 : Good(f, i)
    BY DEF Range, IsInjective
  <2> QED BY <1>2, <1>3, <2>1, <2>2
<1>4. CASE n > 0
  <2>1. n - 1 \in 0..Len(ps) /\ n - 1 \notin Bad
    BY <1>1, <1>2, <1>4
  <2>2. PICK g \in [0..(n - 1) -> Seq(Ctx)] : \A i \in 0..(n - 1) : Good(g, i)
    BY <2>1 DEF Bad
  <2> DEFINE last == IF ps[n] \in S THEN Append(g[n - 1], ps[n]) ELSE g[n - 1]
             f == [i \in 0..n |-> IF i = n THEN last ELSE g[i]]
  <2>3. n \in Nat /\ n \in 1..Len(ps) /\ n - 1 \in 0..(n - 1)
    BY <1>2, <1>4
  <2>4. ps[n] \in Ctx /\ g[n - 1] \in Seq(Ctx)
    BY <2>3
  <2>5. last \in Seq(Ctx)
    BY <2>4
  <2>6. Range(last) = {ps[j] : j \in 1..n} \cap S
    <3>1. Range(g[n - 1]) = {ps[j] : j \in 1..(n - 1)} \cap S
      BY <2>3, <2>2
    <3>2. {ps[j] : j \in 1..n} = {ps[j] : j \in 1..(n - 1)} \cup {ps[n]}
      BY <2>3
    <3>3. CASE ps[n] \in S
      <4>1. Range(last) = Range(g[n - 1]) \cup {ps[n]}
        BY <2>4, <3>3, RangeOfAppend
      <4> QED BY <4>1, <3>1, <3>2, <3>3
    <3>4. CASE ps[n] \notin S
      BY <3>1, <3>2, <3>4
    <3> QED BY <3>3, <3>4
  <2>9. ASSUME IsInjective(ps) PROVE IsInjective(last)
    <3>1. Range(g[n - 1]) = {ps[j] : j \in 1..(n - 1)} \cap S /\ IsInjective(g[n - 1])
      BY <2>3, <2>2, <2>9
    <3>2. ps[n] \notin {ps[j] : j \in 1..(n - 1)}
      <4>1. DOMAIN ps = 1..Len(ps)
        OBVIOUS
      <4>2. \A j \in 1..(n - 1) : j \in DOMAIN ps /\ n \in DOMAIN ps /\ j # n
        BY <2>3, <4>1
      <4> QED BY <4>2, <2>9 DEF IsInjective
    <3>3. CASE ps[n] \in S
      <4>1. IsInjective(Append(g[n - 1], ps[n]))
        BY <2>4, <3>1, <3>2, AppendInjective
      <4> QED BY <4>1, <3>3
    <3>4. CASE ps[n] \notin S
      BY <3>1, <3>4
    <3> QED BY <3>3, <3>4
  <2> HIDE DEF last
  <2>7. f \in [0..n -> Seq(Ctx)]
    BY <2>3, <2>5
  <2>8. ASSUME NEW i \in 0..n PROVE Good(f, i)
    <3>1. CASE i = n
      <4>1. f[i] = last /\ f[i - 1] = g[n - 1] /\ i # 0
        BY <3>1, <2>3
      <4> QED BY <4>1, <2>6, <2>9, <3>1 DEF last
    <3>2. CASE i # n
      <4>1. i \in 0..(n - 1) /\ f[i] = g[i] /\ (i # 0 => f[i - 1] = g[i - 1])
        BY <3>2, <2>3
      <4> QED BY <4>1, <2>2
    <3> QED BY <3>1, <3>2
  <2> QED BY <1>2, <2>7, <2>8
<1> QED BY <1>2, <1>3, <1>4

(* take_parked's filter keeps of the parked list exactly the contexts of   *)
(* S, each once if the list holds each once.                               *)
LEMMA KeptIn ==
  ASSUME NEW ps \in Seq(Ctx), NEW S
  PROVE  /\ Kept(ps, S) \in Seq(Ctx)
         /\ Range(Kept(ps, S)) = Range(ps) \cap S
         /\ IsInjective(ps) => IsInjective(Kept(ps, S))
<1> DEFINE Is(f) == f = [i \in 0..Len(ps) |->
                    IF i = 0 THEN <<>>
                    ELSE IF ps[i] \in S THEN Append(f[i - 1], ps[i]) ELSE f[i - 1]]
           u == CHOOSE f : Is(f)
<1>1. Kept(ps, S) = u[Len(ps)]
  BY DEF Kept
<1>2. Len(ps) \in Nat
  OBVIOUS
<1>3. PICK f \in [0..Len(ps) -> Seq(Ctx)] :
             \A i \in 0..Len(ps) :
               /\ f[i] = IF i = 0 THEN <<>>
                         ELSE IF ps[i] \in S THEN Append(f[i - 1], ps[i]) ELSE f[i - 1]
               /\ Range(f[i]) = {ps[j] : j \in 1..i} \cap S
               /\ IsInjective(ps) => IsInjective(f[i])
  <2>1. Len(ps) \in 0..Len(ps)
    BY <1>2
  <2>2. Filters(ps, S, Len(ps))
    BY <2>1, KeptUpTo
  <2> QED BY <2>2 DEF Filters
<1>4. Is(f)
  BY <1>3
<1>5. Is(u)
  BY <1>4
<1> HIDE DEF u
<1>6. ASSUME NEW g, Is(g) PROVE g = f
  <2> DEFINE Diff == {i \in 0..Len(ps) : g[i] # f[i]}
  <2> SUFFICES ASSUME Diff # {} PROVE FALSE
    BY <1>6, <1>4
  <2>0. Diff \in SUBSET Nat
    OBVIOUS
  <2>1. PICK i \in Diff : \A j \in Diff : i <= j
    <3> HIDE DEF Diff
    <3> QED BY <2>0, Smallest
  <2>2. CASE i = 0
    BY <2>1, <2>2, <1>6, <1>4
  <2>3. CASE i # 0
    <3>1. i - 1 \in 0..Len(ps) /\ i \in 0..Len(ps) /\ i - 1 \notin Diff
      BY <2>1, <2>3
    <3>2. g[i - 1] = f[i - 1]
      BY <3>1
    <3> QED BY ZenonT(30), <3>1, <3>2, <2>1, <2>3, <1>6, <1>4
  <2> QED BY <2>2, <2>3
<1>7. u = f
  BY <1>5, <1>6
<1>8. /\ f[Len(ps)] \in Seq(Ctx) /\ Range(f[Len(ps)]) = {ps[j] : j \in 1..Len(ps)} \cap S
      /\ IsInjective(ps) => IsInjective(f[Len(ps)])
  BY <1>2, <1>3
<1> QED BY <1>1, <1>7, <1>8 DEF Range

(* What take_parked takes and what it leaves.                              *)
LEMMA TakenLeft ==
  ASSUME NEW ps \in Seq(Ctx), NEW hs \in [Ctx -> Ctx], NEW h \in Ctx
  PROVE  /\ Taken(ps, hs, h) \in Seq(Ctx) /\ Left(ps, hs, h) \in Seq(Ctx)
         /\ Range(Taken(ps, hs, h)) = {c \in Range(ps) : hs[c] = h}
         /\ Range(Left(ps, hs, h)) = {c \in Range(ps) : hs[c] # h}
         /\ IsInjective(ps) => IsInjective(Taken(ps, hs, h)) /\ IsInjective(Left(ps, hs, h))
<1>1. Range(ps) \subseteq Ctx
  BY DEF Range
<1>2. Range(ps) \cap Group(hs, h) = {c \in Range(ps) : hs[c] = h}
  BY <1>1 DEF Group
<1>3. Range(ps) \cap (Ctx \ Group(hs, h)) = {c \in Range(ps) : hs[c] # h}
  BY <1>1 DEF Group
<1> QED BY <1>2, <1>3, KeptIn DEF Taken, Left

-----------------------------------------------------------------------------
(* Values, expressions and keys.                                           *)

(* Unknown is a value, and {Unknown} an argument a call can have.          *)
LEMMA UnknownInV == Unknown \in V /\ {Unknown} # {}
  BY DEF V

(* Solver::key answers with a context, whatever values are passed.         *)
LEMMA KeyType ==
  ASSUME NEW f \in Func, NEW vals \in SUBSET V
  PROVE  Key(f, vals) \in Ctx
  BY UnknownInV DEF Key, Ctx

(* A context names a function and the values of its argument.              *)
LEMMA CtxType ==
  ASSUME NEW c \in Ctx
  PROVE  c.func \in Func /\ c.arg \in SUBSET V
  BY DEF Ctx

(* The join of two values is a value.                                      *)
LEMMA JoinType ==
  ASSUME NEW v \in Value, NEW w \in Value
  PROVE  Join(v, w) \in Value
  BY DEF Join, Value

(* Walk::eval yields a value in every context, whatever the calls before   *)
(* it yielded.                                                             *)
LEMMA EvalType ==
  ASSUME NEW e \in Expr, NEW c \in Ctx, NEW vals \in Seq(Value)
  PROVE  Eval(e, c, vals) \in Value
<1> DEFINE from == e.sites \cap DOMAIN vals
<1>1. e.consts \in SUBSET V /\ e.param \in BOOLEAN /\ c.arg \in SUBSET V
  BY CtxType DEF Expr
<1>2. \A i \in from : vals[i].known \in SUBSET V /\ vals[i].pending \in SUBSET Nat
  <2> TAKE i \in from
  <2>1. vals[i] \in Value
    OBVIOUS
  <2> QED BY <2>1 DEF Value
<1>3. UNION {vals[i].known : i \in from} \in SUBSET V
  BY <1>2
<1>4. UNION {vals[i].pending : i \in from} \in SUBSET Nat
  BY <1>2
<1> HIDE DEF from
<1>5. (e.consts \cup (IF e.param THEN c.arg ELSE {})
          \cup UNION {vals[i].known : i \in from}) \in SUBSET V
  BY <1>1, <1>3
<1> QED BY <1>4, <1>5 DEF Eval, Value, from

(* Substituting the replayed values for the pending ones leaves values     *)
(* of V only.                                                              *)
LEMMA SubstituteType ==
  ASSUME NEW v \in Value, NEW now \in Seq(SUBSET V)
  PROVE  Substitute(v, now) \in SUBSET V
<1>1. v.known \in SUBSET V
  BY DEF Value
<1>2. \A d \in v.pending \cap DOMAIN now : now[d] \in SUBSET V
  OBVIOUS
<1>3. UNION {now[d] : d \in v.pending \cap DOMAIN now} \in SUBSET V
  BY <1>2
<1> QED BY <1>1, <1>3 DEF Substitute

-----------------------------------------------------------------------------
(* Walks and summaries.                                                    *)

(* The fields of a finished walk have their types.                         *)
LEMMA WalkFields ==
  ASSUME NEW w \in Walk
  PROVE  /\ w.deferred \in Seq(DeferredOp) /\ w.resolved \in Seq(SUBSET V)
         /\ w.calls \in Seq(SUBSET Ctx) /\ w.rets \in Value
  BY DEF Walk

(* no_values gives one set of values for each deferred operation.          *)
LEMMA NoValuesType ==
  ASSUME NEW w \in Walk
  PROVE  NoValues(w) \in Seq(SUBSET V)
<1>1. Len(w.deferred) \in Nat
  BY WalkFields
<1>2. [d \in 1..Len(w.deferred) |-> {}] \in [1..Len(w.deferred) -> SUBSET V]
  OBVIOUS
<1> QED BY <1>1, <1>2 DEF NoValues

(* finish_round makes a summary of a walk and the values of its            *)
(* operations.                                                             *)
LEMMA FinishRoundType ==
  ASSUME NEW w \in Walk, NEW now \in Seq(SUBSET V)
  PROVE  FinishRound(w, now) \in FunctionResult
  BY WalkFields, SubstituteType DEF FinishRound, FunctionResult

(* The summary a context has at round 0 is a summary.                      *)
LEMMA RoundZeroType ==
  ASSUME NEW w \in Walk
  PROVE  RoundZero(w) \in FunctionResult
  BY FinishRoundType, NoValuesType DEF RoundZero

(* An operation of either kind, by its kind.                               *)
LEMMA OpType ==
  ASSUME NEW d \in DeferredOp
  PROVE  /\ d.op \in {"Apply", "Call"}
         /\ d.op = "Apply" => d.ctx \in Ctx
         /\ d.op = "Call" => d.site \in Nat /\ d.callee \in Value /\ d.arg \in Value
  BY DEF DeferredOp

-----------------------------------------------------------------------------
(* A call in progress.                                                     *)

(* call_values starts with a well-formed call in progress.                 *)
LEMMA StartSiteType ==
  ASSUME NEW cs \in SUBSET V, NEW arg \in SUBSET V
  PROVE  StartSite(cs, arg) \in SiteCall
  BY DEF StartSite, SiteCall, Value

(* The callee call_values takes next is one it has not called yet.         *)
LEMMA NextCalleeIn ==
  ASSUME NEW s \in SiteCall, s.todo # {}
  PROVE  NextCallee(s) \in s.todo /\ NextCallee(s) \in Func
<1>1. s.todo \in SUBSET Nat /\ s.todo \subseteq Func
  BY FuncAssumption DEF SiteCall
<1>2. \E f \in s.todo : \A g \in s.todo : f <= g
  BY <1>1, Smallest
<1> QED BY <1>1, <1>2 DEF NextCallee

(* A call in progress stays well-formed when one callee has answered.      *)
LEMMA SiteAnsweredType ==
  ASSUME NEW s \in SiteCall, s.todo # {}, NEW v \in Value
  PROVE  SiteAnswered(s, v) \in SiteCall
<1> DEFINE f == NextCallee(s)
<1>1. f \in Func
  BY NextCalleeIn
<1> HIDE DEF f
<1>2. s.todo \in SUBSET Func /\ s.arg \in SUBSET V /\ s.out \in Value /\ s.targets \in SUBSET Ctx
  BY DEF SiteCall
<1>3. Key(f, s.arg) \in Ctx
  BY <1>1, <1>2, KeyType
<1>4. Join(s.out, v) \in Value
  BY <1>2, JoinType
<1>5. [s EXCEPT !.todo = @ \ {f}, !.out = Join(@, v), !.targets = @ \cup {Key(f, s.arg)}]
        \in SiteCall
  BY <1>2, <1>3, <1>4 DEF SiteCall
<1> QED BY <1>5 DEF SiteAnswered, f

-----------------------------------------------------------------------------
(* Notes, heads and the reader.                                            *)

NoteAt(n, h) == n \in Note /\ (n.lowest = NoDepth \/ n.lowest < h)

(* A slot told twice keeps the smaller depth, and so stays below a         *)
(* height both notes are below.                                            *)
LEMMA NotedType ==
  ASSUME NEW old \in Note, NEW n \in Note
  PROVE  /\ Noted(old, n) \in Note
         /\ \A h \in Nat : NoteAt(old, h) /\ NoteAt(n, h) => NoteAt(Noted(old, n), h)
<1>1. Noted(old, n) \in Note
  BY DEF Noted, Note
<1>2. Noted(old, n).lowest \in {old.lowest, n.lowest}
  BY DEF Noted
<1> QED BY <1>1, <1>2 DEF NoteAt

(* A walk that was told nothing is below every height.                     *)
LEMMA NothingType == Nothing \in Note /\ \A h \in Nat : NoteAt(Nothing, h)
  BY LimitAssumption DEF Nothing, Note, NoDepth, NoteAt

(* reader_depends_on(d) is a note below every height above d.              *)
LEMMA DependsOnType ==
  ASSUME NEW d \in Nat
  PROVE  /\ DependsOn(d) \in Note
         /\ \A h \in Nat : d < h => NoteAt(DependsOn(d), h)
  BY NothingType DEF DependsOn, Nothing, Note, NoteAt

(* reader_joins tells of no depth.                                         *)
LEMMA JoinsType ==
  ASSUME NEW c \in Ctx \cup {None}
  PROVE  Joins(c) \in Note /\ \A h \in Nat : NoteAt(Joins(c), h)
  BY NothingType DEF Joins, Nothing, Note, NoteAt

(* reader_is_cut tells of no depth.                                        *)
LEMMA IsCutType ==
  ASSUME NEW k \in Cut \cup {None}
  PROVE  IsCut(k) \in Note /\ \A h \in Nat : NoteAt(IsCut(k), h)
  BY NothingType DEF IsCut, Nothing, Note, NoteAt

(* union_into maps contexts to contexts.                                   *)
LEMMA UnionIntoType ==
  ASSUME NEW hs \in [Ctx -> Ctx], NEW ms, NEW h \in Ctx
  PROVE  UnionInto(hs, ms, h) \in [Ctx -> Ctx]
  BY DEF UnionInto

(* Telling the walk on top of the solver's stack leaves every note a       *)
(* note.                                                                   *)
LEMMA ReadsToldType ==
  ASSUME NEW rd \in [Ctx -> Note], NEW fx, NEW stk \in Seq(Ctx), NEW n \in Note
  PROVE  ReadsTold(rd, fx, stk, n) \in [Ctx -> Note]
<1>1. CASE ~ReaderIsFixpoint(fx, stk) /\ stk # <<>>
  <2>1. stk[Len(stk)] \in Ctx
    BY <1>1
  <2>2. Noted(rd[stk[Len(stk)]], n) \in Note
    BY <2>1, NotedType
  <2> QED BY <1>1, <2>1, <2>2 DEF ReadsTold
<1>2. CASE ~(~ReaderIsFixpoint(fx, stk) /\ stk # <<>>)
  BY <1>2 DEF ReadsTold
<1> QED BY <1>1, <1>2

(* Being told keeps the fixpoint's head, its base and the bound on its     *)
(* depth.                                                                  *)
LEMMA FixpointToldType ==
  ASSUME NEW fx \in Fixpoint \cup {None}, NEW stk \in Seq(Ctx), NEW n,
         NoteAt(n, Len(stk))
  PROVE  LET fy == FixpointTold(fx, stk, n) IN
         /\ fy \in Fixpoint \cup {None}
         /\ fx = None <=> fy = None
         /\ fx # None => /\ fy.head = fx.head /\ fy.base = fx.base
                         /\ NoteAt(fx.read, fx.base) => NoteAt(fy.read, fy.base)
<1>1. CASE ReaderIsFixpoint(fx, stk)
  <2>1. fx \in Fixpoint /\ fx.base = Len(stk) /\ fx # None
    BY <1>1 DEF ReaderIsFixpoint
  <2>2. fx.read \in Note /\ fx.base \in Nat /\ n \in Note
    BY <2>1 DEF Fixpoint, NoteAt
  <2>3. Noted(fx.read, n) \in Note
    BY <2>2, NotedType
  <2>4. NoteAt(fx.read, fx.base) => NoteAt(Noted(fx.read, n), fx.base)
    BY <2>1, <2>2, NotedType
  <2>5. FixpointTold(fx, stk, n) = [fx EXCEPT !.read = Noted(@, n)]
    BY <1>1 DEF FixpointTold
  <2>6. [fx EXCEPT !.read = Noted(@, n)] \in Fixpoint
    BY <2>1, <2>3 DEF Fixpoint
  <2>7. /\ [fx EXCEPT !.read = Noted(@, n)].head = fx.head
        /\ [fx EXCEPT !.read = Noted(@, n)].base = fx.base
        /\ [fx EXCEPT !.read = Noted(@, n)].read = Noted(fx.read, n)
    BY <2>1 DEF Fixpoint
  <2> QED BY <2>1, <2>4, <2>5, <2>6, <2>7, NoneAssumption
<1>2. CASE ~ReaderIsFixpoint(fx, stk)
  BY <1>2 DEF FixpointTold
<1> QED BY <1>1, <1>2

-----------------------------------------------------------------------------
(* Frames.                                                                 *)

(* A frame is that of solve, of a walk or of a resolve_group.              *)
LEMMA FrameType ==
  ASSUME NEW fr \in Frame
  PROVE  /\ fr.kind \in {"solve", "walk", "resolve"} /\ fr.base \in Nat
         /\ fr.kind = "solve" => fr \in SolveFrame
         /\ fr.kind = "walk" => fr \in WalkFrame
         /\ fr.kind = "resolve" => fr \in ResolveFrame
  BY DEF Frame, SolveFrame, WalkFrame, ResolveFrame

(* The fields of a walk's frame have their types.                          *)
LEMMA WalkFrameType ==
  ASSUME NEW fr \in WalkFrame
  PROVE  /\ fr \in Frame /\ fr.kind = "walk" /\ fr.base \in Nat /\ fr.ctx \in Ctx
         /\ fr.w \in Walk /\ fr.vals \in Seq(Value) /\ fr.site \in SiteCall \cup {None}
  BY DEF WalkFrame, Frame

(* The fields of a resolve_group's frame have their types.                 *)
LEMMA ResolveFrameType ==
  ASSUME NEW fr \in ResolveFrame
  PROVE  /\ fr \in Frame /\ fr.kind = "resolve" /\ fr.base \in Nat /\ fr.head \in Ctx
         /\ fr.members \in Seq(Ctx) /\ fr.round \in Nat /\ fr.changed \in BOOLEAN
         /\ fr.at \in Nat \ {0} /\ fr.pc \in Nat \ {0} /\ fr.now \in Seq(SUBSET V)
         /\ fr.site \in SiteCall \cup {None} /\ fr.outer \in Fixpoint \cup {None}
  BY DEF ResolveFrame, Frame

(* What the shape of the call stack depends on is the same in both frames. *)
SameShape(a, b) ==
    /\ b.kind = a.kind /\ b.base = a.base
    /\ a.kind = "walk" => b.ctx = a.ctx
    /\ a.kind = "resolve" => b.head = a.head /\ b.members = a.members /\ b.outer = a.outer

(* Overwriting one element of a sequence leaves it a sequence of the       *)
(* same elements.                                                          *)
LEMMA ExceptInSeq ==
  ASSUME NEW T, NEW s \in Seq(T), NEW i, NEW x \in T
  PROVE  [s EXCEPT ![i] = x] \in Seq(T)
<1>1. Len(s) \in Nat /\ s \in [1..Len(s) -> T]
  OBVIOUS
<1>2. [s EXCEPT ![i] = x] \in [1..Len(s) -> T]
  BY <1>1
<1>3. [1..Len(s) -> T] \subseteq Seq(T)
  BY <1>1
<1> QED BY <1>2, <1>3

(* The end of a deferred operation leaves a resolve_group's frame with     *)
(* the same place in the call stack.                                       *)
LEMMA OpDoneType ==
  ASSUME NEW fr \in ResolveFrame, NEW v \in SUBSET V
  PROVE  OpDone(fr, v) \in ResolveFrame /\ SameShape(fr, OpDone(fr, v))
<1> DEFINE x == IF Capped(fr) THEN v \cup {Unknown} ELSE v
           now == [fr.now EXCEPT ![fr.pc] = x]
<1>1. x \in SUBSET V
  BY UnknownInV
<1> HIDE DEF x
<1>2. now \in Seq(SUBSET V)
  BY <1>1, ExceptInSeq, ResolveFrameType
<1> HIDE DEF now
<1>3. OpDone(fr, v) = [fr EXCEPT !.now = now, !.pc = @ + 1, !.site = None]
  BY DEF OpDone, x, now, ResolveFrame
<1>4. fr.pc + 1 \in Nat \ {0}
  BY ResolveFrameType
<1>5. [fr EXCEPT !.now = now, !.pc = @ + 1, !.site = None] \in ResolveFrame
  BY <1>2, <1>4 DEF ResolveFrame
<1>6. SameShape(fr, [fr EXCEPT !.now = now, !.pc = @ + 1, !.site = None])
  BY DEF SameShape, ResolveFrame
<1> QED BY <1>3, <1>5, <1>6

(* A call in progress changes no frame's place in the call stack.          *)
LEMMA SetSiteType ==
  ASSUME NEW fr \in Frame, fr.kind # "solve", NEW s \in SiteCall
  PROVE  [fr EXCEPT !.site = s] \in Frame /\ SameShape(fr, [fr EXCEPT !.site = s])
<1>1. CASE fr.kind = "walk"
  <2>1. fr \in WalkFrame
    BY <1>1, FrameType
  <2> QED BY <2>1 DEF WalkFrame, Frame, SameShape
<1>2. CASE fr.kind = "resolve"
  <2>1. fr \in ResolveFrame
    BY <1>2, FrameType
  <2> QED BY <2>1 DEF ResolveFrame, Frame, SameShape
<1> QED BY <1>1, <1>2, FrameType

(* Only a walk or a replay has a call in progress.                         *)
LEMMA InSiteType ==
  ASSUME NEW fr \in Frame, InSite(fr)
  PROVE  fr.kind # "solve" /\ fr.site \in SiteCall
  BY FrameType, WalkFrameType, ResolveFrameType DEF InSite

(* A callee's answer to a call in progress changes no frame's place in     *)
(* the call stack.                                                         *)
LEMMA CallAnsweredType ==
  ASSUME NEW fr \in Frame, InSite(fr), fr.site.todo # {}, NEW got \in (SUBSET V) \cup {None}
  PROVE  CallAnswered(fr, got) \in Frame /\ SameShape(fr, CallAnswered(fr, got))
<1> DEFINE known(S) == [fr EXCEPT !.site = SiteAnswered(@, [known |-> S, pending |-> {}])]
<1>1. fr.kind # "solve" /\ fr.site \in SiteCall
  BY InSiteType
<1>2. ASSUME NEW S \in SUBSET V PROVE known(S) \in Frame /\ SameShape(fr, known(S))
  <2>1. [known |-> S, pending |-> {}] \in Value
    BY DEF Value
  <2>2. SiteAnswered(fr.site, [known |-> S, pending |-> {}]) \in SiteCall
    BY <1>1, <2>1, SiteAnsweredType
  <2> QED BY <1>1, <2>2, SetSiteType
<1>3. CASE fr.site.arg = {} \/ got # None \/ fr.kind = "resolve"
  <2>1. CallAnswered(fr, got) \in {known({})} \cup {known(S) : S \in SUBSET V}
    BY <1>3 DEF CallAnswered
  <2> HIDE DEF known
  <2> QED BY <2>1, <1>2
<1>4. CASE ~(fr.site.arg = {} \/ got # None \/ fr.kind = "resolve")
  <2>1. fr \in WalkFrame
    BY <1>1, <1>4, FrameType
  <2>2. fr.w \in Walk /\ fr.w.deferred \in Seq(DeferredOp) /\ Len(fr.w.deferred) + 1 \in Nat
    BY <2>1, WalkFrameType, WalkFields
  <2> DEFINE op == [op |-> "Apply", ctx |-> Wanted(fr)]
             v == [known |-> {}, pending |-> {Len(fr.w.deferred) + 1}]
             w == [fr.w EXCEPT !.deferred = Append(@, op)]
             s == SiteAnswered(fr.site, v)
  <2>3. Wanted(fr) \in Ctx
    <3>1. NextCallee(fr.site) \in Func /\ fr.site.arg \in SUBSET V
      BY <1>1, NextCalleeIn DEF SiteCall
    <3> QED BY <3>1, <1>1, KeyType DEF Wanted
  <2>4. op \in DeferredOp
    BY <2>3 DEF DeferredOp
  <2> HIDE DEF op
  <2>5. w \in Walk
    <3>1. Append(fr.w.deferred, op) \in Seq(DeferredOp)
      BY <2>2, <2>4
    <3> QED BY <2>2, <3>1 DEF Walk
  <2>6. s \in SiteCall
    <3>1. v \in Value
      BY <2>2 DEF Value
    <3> HIDE DEF v
    <3> QED BY <1>1, <3>1, SiteAnsweredType
  <2> HIDE DEF w, s
  <2>7. CallAnswered(fr, got) = [fr EXCEPT !.w = w, !.site = s]
    BY <1>4, <2>1 DEF CallAnswered, w, s, op, WalkFrame
  <2>8. [fr EXCEPT !.w = w, !.site = s] \in WalkFrame
    BY <2>1, <2>5, <2>6 DEF WalkFrame
  <2>9. SameShape(fr, [fr EXCEPT !.w = w, !.site = s])
    BY <2>1 DEF SameShape, WalkFrame
  <2> QED BY <2>7, <2>8, <2>9 DEF Frame
<1> QED BY <1>3, <1>4

(* A frame that calls Solver::get waits for its answer.                    *)
LEMMA AsksWaits ==
  ASSUME NEW fr \in Frame, Asks(fr)
  PROVE  Waits(fr)
  BY DEF Asks, Waits, HasOp, Replays

(* The answer of Solver::get changes no frame's place in the call stack.   *)
LEMMA AnsweredType ==
  ASSUME NEW fr \in Frame, Waits(fr), NEW got \in (SUBSET V) \cup {None}
  PROVE  Answered(fr, got) \in Frame /\ SameShape(fr, Answered(fr, got))
<1>1. CASE fr.kind = "solve"
  <2>1. fr \in SolveFrame
    BY <1>1, FrameType
  <2>2. [fr EXCEPT !.answered = TRUE] \in SolveFrame
    BY <2>1 DEF SolveFrame
  <2>3. SameShape(fr, [fr EXCEPT !.answered = TRUE])
    BY <2>1 DEF SolveFrame, SameShape
  <2> QED BY <1>1, <2>2, <2>3 DEF Answered, Frame
<1>2. CASE fr.kind # "solve" /\ InSite(fr)
  <2>1. fr.site.todo # {}
    BY <1>2 DEF Waits, InSite
  <2> QED BY <1>2, <2>1, CallAnsweredType DEF Answered
<1>3. CASE fr.kind # "solve" /\ ~InSite(fr)
  <2>1. fr.kind = "resolve"
    BY <1>3 DEF Waits
  <2>2. fr \in ResolveFrame
    BY <2>1, FrameType
  <2> DEFINE v == IF got = None THEN {} ELSE got
  <2>3. v \in SUBSET V
    OBVIOUS
  <2> HIDE DEF v
  <2>4. OpDone(fr, v) \in ResolveFrame /\ SameShape(fr, OpDone(fr, v))
    BY <2>2, <2>3, OpDoneType
  <2> QED BY <1>3, <2>4 DEF Answered, v, Frame
<1> QED BY <1>1, <1>2, <1>3

-----------------------------------------------------------------------------
(* The call stack.                                                         *)

(* The length, the domain and the elements of a sequence.                  *)
LEMMA SeqType ==
  ASSUME NEW T, NEW s \in Seq(T)
  PROVE  /\ Len(s) \in Nat /\ DOMAIN s = 1..Len(s)
         /\ \A i \in 1..Len(s) : s[i] \in T
         /\ s # <<>> => Len(s) >= 1 /\ Len(s) \in 1..Len(s)
  OBVIOUS

(* The sequence that Vec::pop leaves.                                      *)
LEMMA FrontType ==
  ASSUME NEW T, NEW s \in Seq(T), s # <<>>
  PROVE  LET t == SubSeq(s, 1, Len(s) - 1) IN
         /\ t \in Seq(T) /\ Len(t) = Len(s) - 1 /\ DOMAIN t = 1..(Len(s) - 1)
         /\ \A i \in 1..(Len(s) - 1) : t[i] = s[i]
<1> DEFINE n == Len(s) - 1
           t == SubSeq(s, 1, n)
<1>1. Len(s) \in Nat /\ Len(s) >= 1 /\ n \in Nat /\ n <= Len(s)
      /\ s \in [1..Len(s) -> T]
  OBVIOUS
<1>2. t \in Seq(T)
  <2>1. \A i \in 1..n : s[i] \in T
    BY <1>1
  <2> HIDE DEF n
  <2> QED BY <1>1, <2>1
<1>3. Len(t) = n
  <2> HIDE DEF n
  <2> QED BY <1>1
<1>4. \A i \in 1..n : t[i] = s[i]
  <2> HIDE DEF n
  <2> QED BY <1>1
<1> QED BY <1>1, <1>2, <1>3, <1>4

(* The sequence that Vec::push leaves.                                     *)
LEMMA AppendType ==
  ASSUME NEW T, NEW s \in Seq(T), NEW e \in T
  PROVE  LET t == Append(s, e) IN
         /\ t \in Seq(T) /\ Len(t) = Len(s) + 1 /\ DOMAIN t = 1..(Len(s) + 1)
         /\ t[Len(s) + 1] = e /\ t # <<>>
         /\ \A i \in 1..Len(s) : t[i] = s[i]
  OBVIOUS

(* A walk stands one above its caller, every other frame at its caller's   *)
(* height.                                                                 *)
LEMMA HeightType ==
  ASSUME NEW fr \in Frame
  PROVE  /\ Height(fr) \in Nat /\ fr.base <= Height(fr)
         /\ fr.kind = "walk" => Height(fr) = fr.base + 1
         /\ fr.kind # "walk" => Height(fr) = fr.base
  BY FrameType DEF Height

(* Frames of the same shape reach the same height.                         *)
LEMMA SameHeight ==
  ASSUME NEW a, NEW b, SameShape(a, b)
  PROVE  Height(a) = Height(b)
  BY DEF SameShape, Height

(* fy describes the same fixpoint as fx.                                   *)
SameFixpoint(fx, fy) ==
    /\ fx = None <=> fy = None
    /\ fx # None =>
         /\ fy.head = fx.head /\ fy.base = fx.base
         /\ fx.read.lowest = NoDepth \/ fx.read.lowest < fx.base
              => fy.read.lowest = NoDepth \/ fy.read.lowest < fy.base

(* FixpointAt looks at the first n frames only, and at their shape.        *)
LEMMA FixpointAtSame ==
  ASSUME NEW cs, NEW ds, NEW n \in Nat, \A i \in 1..n : SameShape(cs[i], ds[i]),
         NEW fx, NEW fy, SameFixpoint(fx, fy), FixpointAt(cs, n, fx)
  PROVE  FixpointAt(ds, n, fy)
<1>1. CASE fx = None /\ \A i \in 1..n : cs[i].kind # "resolve"
  BY <1>1 DEF FixpointAt, SameShape, SameFixpoint
<1>2. CASE ~(fx = None /\ \A i \in 1..n : cs[i].kind # "resolve")
  <2>1. PICK i \in 1..n :
          /\ cs[i].kind = "resolve"
          /\ \A j \in (i + 1)..n : cs[j].kind # "resolve"
          /\ fx # None
          /\ fx.base = cs[i].base /\ fx.head = cs[i].head
          /\ fx.read.lowest = NoDepth \/ fx.read.lowest < fx.base
    BY <1>2 DEF FixpointAt
  <2>2. ds[i].kind = "resolve" /\ fy.base = ds[i].base /\ fy.head = ds[i].head
    BY <2>1 DEF SameShape, SameFixpoint
  <2>3. \A j \in (i + 1)..n : ds[j].kind # "resolve"
    <3> TAKE j \in (i + 1)..n
    <3>1. j \in 1..n
      OBVIOUS
    <3> QED BY <3>1, <2>1 DEF SameShape
  <2>4. fy # None /\ (fy.read.lowest = NoDepth \/ fy.read.lowest < fy.base)
    BY <2>1 DEF SameFixpoint
  <2> QED BY <2>2, <2>3, <2>4 DEF FixpointAt
<1> QED BY <1>1, <1>2

(* The current fixpoint is the same when every frame keeps its shape.      *)
LEMMA FixpointAtKept ==
  ASSUME NEW cs, NEW ds, NEW n \in Nat, \A i \in 1..n : SameShape(cs[i], ds[i]),
         NEW fx, FixpointAt(cs, n, fx)
  PROVE  FixpointAt(ds, n, fx)
<1>1. SameFixpoint(fx, fx)
  BY DEF SameFixpoint
<1> QED BY <1>1, FixpointAtSame

(* The stack fits as before when every frame keeps its shape.              *)
LEMMA SameFramesFit ==
  ASSUME NEW cs \in Seq(Frame), NEW ds \in Seq(Frame), NEW stk, NEW fx, NEW fy,
         Len(ds) = Len(cs), \A i \in 1..Len(cs) : SameShape(cs[i], ds[i]),
         SameFixpoint(fx, fy), FramesFit(cs, stk, fx)
  PROVE  FramesFit(ds, stk, fy)
<1>0. /\ DOMAIN cs = 1..Len(cs) /\ DOMAIN ds = 1..Len(cs) /\ Len(cs) \in Nat
      /\ cs # <<>> /\ Len(cs) \in 1..Len(cs)
  BY SeqType DEF FramesFit
<1>1. ds # <<>>
  BY <1>0
<1>2. \A i \in DOMAIN ds : ds[i].kind = "solve" <=> i = 1
  BY <1>0 DEF FramesFit, SameShape
<1>3. \A i \in DOMAIN ds : Height(ds[i]) = Height(cs[i]) /\ ds[i].base = cs[i].base
  BY <1>0, SameHeight DEF SameShape
<1>4. \A i \in DOMAIN ds : i < Len(ds) => ds[i + 1].base = Height(ds[i])
  <2> SUFFICES ASSUME NEW i \in DOMAIN ds, i < Len(ds)
               PROVE  ds[i + 1].base = Height(ds[i])
    OBVIOUS
  <2>1. i \in DOMAIN cs /\ i < Len(cs) /\ i + 1 \in DOMAIN ds
    BY <1>0
  <2> QED BY <2>1, <1>3 DEF FramesFit
<1>5. \A i, j \in DOMAIN ds : i < j => Height(ds[i]) <= ds[j].base
  BY <1>0, <1>3 DEF FramesFit
<1>6. \A i \in DOMAIN ds : ds[i].kind = "walk" =>
          ds[i].base < Len(stk) /\ stk[ds[i].base + 1] = ds[i].ctx
  BY <1>0 DEF FramesFit, SameShape
<1>7. Len(stk) = Height(ds[Len(ds)])
  BY <1>0, <1>3 DEF FramesFit
<1>8. FixpointAt(ds, Len(ds), fy)
  BY <1>0, FixpointAtSame DEF FramesFit
<1>9. \A i \in DOMAIN ds : ds[i].kind = "resolve" => FixpointAt(ds, i - 1, ds[i].outer)
  <2> SUFFICES ASSUME NEW i \in DOMAIN ds, ds[i].kind = "resolve"
               PROVE  FixpointAt(ds, i - 1, ds[i].outer)
    OBVIOUS
  <2>1. i \in DOMAIN cs /\ cs[i].kind = "resolve" /\ ds[i].outer = cs[i].outer
    BY <1>0 DEF SameShape
  <2>2. i - 1 \in Nat /\ \A j \in 1..(i - 1) : j \in 1..Len(cs)
    BY <1>0
  <2>3. FixpointAt(cs, i - 1, cs[i].outer)
    BY <2>1 DEF FramesFit
  <2> QED BY <2>1, <2>2, <2>3, FixpointAtKept
<1> QED BY <1>1, <1>2, <1>4, <1>5, <1>6, <1>7, <1>8, <1>9 DEF FramesFit

(* Replacing the top frame by one of its shape changes no shape.           *)
LEMMA SetTopFrames ==
  ASSUME NEW cs \in Seq(Frame), cs # <<>>, NEW fr \in Frame, SameShape(cs[Len(cs)], fr)
  PROVE  LET ds == [cs EXCEPT ![Len(cs)] = fr] IN
         /\ ds \in Seq(Frame) /\ Len(ds) = Len(cs)
         /\ \A i \in 1..Len(cs) : SameShape(cs[i], ds[i])
<1> DEFINE ds == [cs EXCEPT ![Len(cs)] = fr]
<1>0. Len(cs) \in Nat /\ DOMAIN cs = 1..Len(cs) /\ Len(cs) \in 1..Len(cs)
  BY SeqType
<1>1. ds \in Seq(Frame)
  BY ExceptInSeq
<1>2. Len(ds) = Len(cs)
  BY <1>0, <1>1
<1>3. \A i \in 1..Len(cs) : ds[i] = IF i = Len(cs) THEN fr ELSE cs[i]
  BY <1>0
<1>4. \A i \in 1..Len(cs) : SameShape(cs[i], cs[i])
  BY DEF SameShape
<1> QED BY <1>1, <1>2, <1>3, <1>4

(* The top frame leaves: the rest fits the solver's stack cut at its base. *)
LEMMA PopFrames ==
  ASSUME NEW cs \in Seq(Frame), NEW ds \in Seq(Frame), NEW n \in Nat, n >= 1,
         Len(cs) = n + 1, Len(ds) = n, \A i \in 1..n : ds[i] = cs[i],
         NEW stk \in Seq(Ctx), NEW under \in Seq(Ctx), Len(under) = cs[n + 1].base,
         \A i \in 1..Len(under) : under[i] = stk[i],
         NEW fx, NEW fy, FramesFit(cs, stk, fx), FixpointAt(cs, n, fy)
  PROVE  FramesFit(ds, under, fy)
<1>2. /\ DOMAIN cs = 1..(n + 1) /\ DOMAIN ds = 1..n /\ n \in 1..n /\ n + 1 \in 1..(n + 1)
      /\ Len(under) \in Nat
      /\ \A i \in 1..n : i \in DOMAIN cs /\ i < Len(cs) /\ cs[i] \in Frame /\ ds[i] = cs[i]
  BY SeqType
<1>3. \A i \in 1..n : SameShape(cs[i], ds[i])
  BY <1>2 DEF SameShape
<1>6. \A i \in 1..n : Height(cs[i]) <= Len(under)
  <2> SUFFICES ASSUME NEW i \in 1..n PROVE Height(cs[i]) <= Len(under)
    OBVIOUS
  <2>1. i \in DOMAIN cs /\ n + 1 \in DOMAIN cs /\ i < n + 1
    BY <1>2
  <2>2. Height(cs[i]) <= cs[n + 1].base
    BY <2>1 DEF FramesFit
  <2> QED BY <2>2
<1>7. ds # <<>>
  BY <1>2
<1>8. \A i \in DOMAIN ds : ds[i].kind = "solve" <=> i = 1
  BY <1>2 DEF FramesFit
<1>9. \A i \in DOMAIN ds : i < Len(ds) => ds[i + 1].base = Height(ds[i])
  <2> SUFFICES ASSUME NEW i \in DOMAIN ds, i < Len(ds)
               PROVE  ds[i + 1].base = Height(ds[i])
    OBVIOUS
  <2>1. i \in 1..n /\ i + 1 \in 1..n
    BY <1>2
  <2> QED BY <2>1, <1>2 DEF FramesFit
<1>10. \A i, j \in DOMAIN ds : i < j => Height(ds[i]) <= ds[j].base
  BY <1>2 DEF FramesFit
<1>11. \A i \in DOMAIN ds : ds[i].kind = "walk" =>
          ds[i].base < Len(under) /\ under[ds[i].base + 1] = ds[i].ctx
  <2> SUFFICES ASSUME NEW i \in DOMAIN ds, ds[i].kind = "walk"
               PROVE  ds[i].base < Len(under) /\ under[ds[i].base + 1] = ds[i].ctx
    OBVIOUS
  <2>1. i \in 1..n /\ ds[i] = cs[i] /\ i \in DOMAIN cs /\ cs[i] \in Frame
    BY <1>2
  <2>2. cs[i].base + 1 <= Len(under) /\ cs[i].base \in Nat
    BY <2>1, <1>6, HeightType, FrameType
  <2>3. stk[cs[i].base + 1] = cs[i].ctx
    BY <2>1 DEF FramesFit
  <2>4. cs[i].base + 1 \in 1..Len(under)
    BY <2>2, <1>2
  <2> QED BY <2>1, <2>2, <2>3, <2>4, <1>2
<1>12. Len(under) = Height(ds[Len(ds)])
  <2>1. n \in DOMAIN cs /\ n < Len(cs)
    BY <1>2
  <2>2. cs[n + 1].base = Height(cs[n])
    BY <2>1 DEF FramesFit
  <2> QED BY <2>2, <1>2
<1>13. FixpointAt(ds, Len(ds), fy)
  BY <1>3, FixpointAtKept
<1>14. \A i \in DOMAIN ds : ds[i].kind = "resolve" => FixpointAt(ds, i - 1, ds[i].outer)
  <2> SUFFICES ASSUME NEW i \in DOMAIN ds, ds[i].kind = "resolve"
               PROVE  FixpointAt(ds, i - 1, ds[i].outer)
    OBVIOUS
  <2>1. i \in 1..n /\ i \in DOMAIN cs /\ ds[i] = cs[i]
    BY <1>2
  <2>2. PICK m \in Nat : m = i - 1
    BY <2>1
  <2>3. PICK fo : fo = cs[i].outer /\ FixpointAt(cs, m, fo)
    BY <2>1, <2>2 DEF FramesFit
  <2>4. \A j \in 1..m : SameShape(cs[j], ds[j])
    BY <2>1, <2>2, <1>3
  <2>5. FixpointAt(ds, m, fo)
    BY <2>3, <2>4, FixpointAtKept
  <2>6. FixpointAt(ds, i - 1, cs[i].outer)
    BY <2>2, <2>3, <2>5
  <2> QED BY <2>1, <2>6
<1> QED BY <1>7, <1>8, <1>9, <1>10, <1>11, <1>12, <1>13, <1>14 DEF FramesFit

(* The fixpoint of the innermost resolve_group, below a frame of another   *)
(* kind.                                                                   *)
LEMMA FixpointBelow ==
  ASSUME NEW cs, NEW n \in Nat, NEW fx, FixpointAt(cs, n + 1, fx),
         cs[n + 1].kind # "resolve"
  PROVE  FixpointAt(cs, n, fx)
<1>1. CASE fx = None /\ \A i \in 1..(n + 1) : cs[i].kind # "resolve"
  BY <1>1 DEF FixpointAt
<1>2. CASE ~(fx = None /\ \A i \in 1..(n + 1) : cs[i].kind # "resolve")
  <2>1. PICK i \in 1..(n + 1) :
          /\ cs[i].kind = "resolve"
          /\ \A j \in (i + 1)..(n + 1) : cs[j].kind # "resolve"
          /\ fx # None
          /\ fx.base = cs[i].base /\ fx.head = cs[i].head
          /\ fx.read.lowest = NoDepth \/ fx.read.lowest < fx.base
    BY <1>2 DEF FixpointAt
  <2>2. i # n + 1
    BY <2>1
  <2>3. i \in 1..n
    BY <2>2
  <2>4. \A j \in (i + 1)..n : j \in (i + 1)..(n + 1)
    BY <2>3
  <2> QED BY <2>1, <2>3, <2>4 DEF FixpointAt
<1> QED BY <1>1, <1>2

(* Below a walk or a resolve_group there is another frame.                 *)
LEMMA HasBelow ==
  ASSUME NEW cs \in Seq(Frame), NEW stk, NEW fx, FramesFit(cs, stk, fx),
         cs[Len(cs)].kind # "solve"
  PROVE  /\ Len(cs) - 1 \in Nat /\ Len(cs) - 1 >= 1
         /\ SubSeq(cs, 1, Len(cs) - 1) \in Seq(Frame)
         /\ Len(SubSeq(cs, 1, Len(cs) - 1)) = Len(cs) - 1
         /\ \A i \in 1..(Len(cs) - 1) : SubSeq(cs, 1, Len(cs) - 1)[i] = cs[i]
<1>1. cs # <<>> /\ Len(cs) \in Nat /\ Len(cs) \in DOMAIN cs
  BY SeqType DEF FramesFit
<1>2. Len(cs) # 1
  BY <1>1 DEF FramesFit
<1>3. Len(cs) >= 2
  <2>1. PICK n \in Nat : n = Len(cs)
    BY <1>1
  <2>2. n \in 1..n
    BY <2>1, <1>1, SeqType
  <2> QED BY <2>1, <2>2, <1>2
<1>4. Len(cs) - 1 \in Nat /\ Len(cs) - 1 >= 1
  BY <1>1, <1>3
<1> QED BY <1>1, <1>4, FrontType

(* A walk returns: its frame and its context leave the two stacks.         *)
LEMMA PopWalk ==
  ASSUME NEW cs \in Seq(Frame), NEW stk \in Seq(Ctx), NEW fx, FramesFit(cs, stk, fx),
         cs[Len(cs)].kind = "walk"
  PROVE  /\ stk # <<>> /\ stk[Len(stk)] = cs[Len(cs)].ctx
         /\ cs[Len(cs)].base = Len(stk) - 1 /\ Len(stk) - 1 \in Nat
         /\ SubSeq(stk, 1, Len(stk) - 1) \in Seq(Ctx)
         /\ Len(SubSeq(stk, 1, Len(stk) - 1)) = Len(stk) - 1
         /\ \A i \in 1..(Len(stk) - 1) : SubSeq(stk, 1, Len(stk) - 1)[i] = stk[i]
         /\ FramesFit(SubSeq(cs, 1, Len(cs) - 1), SubSeq(stk, 1, Len(stk) - 1), fx)
<1>0. cs # <<>> /\ Len(cs) \in Nat /\ Len(cs) \in DOMAIN cs /\ Len(stk) \in Nat
      /\ cs[Len(cs)] \in Frame
  BY SeqType DEF FramesFit
<1>1. Len(stk) = cs[Len(cs)].base + 1 /\ stk[cs[Len(cs)].base + 1] = cs[Len(cs)].ctx
  BY <1>0, HeightType DEF FramesFit
<1>2. cs[Len(cs)].base \in Nat
  BY <1>0, FrameType
<1>3. stk # <<>> /\ stk[Len(stk)] = cs[Len(cs)].ctx /\ cs[Len(cs)].base = Len(stk) - 1
  BY <1>0, <1>1, <1>2
<1>4. /\ SubSeq(stk, 1, Len(stk) - 1) \in Seq(Ctx)
      /\ Len(SubSeq(stk, 1, Len(stk) - 1)) = Len(stk) - 1
      /\ \A i \in 1..(Len(stk) - 1) : SubSeq(stk, 1, Len(stk) - 1)[i] = stk[i]
  BY <1>3, FrontType
<1>5. PICK n \in Nat : n = Len(cs) - 1 /\ n >= 1
  BY HasBelow
<1>6. PICK ds \in Seq(Frame) : ds = SubSeq(cs, 1, Len(cs) - 1)
  BY HasBelow
<1>7. Len(ds) = n /\ \A i \in 1..n : ds[i] = cs[i]
  BY <1>5, <1>6, HasBelow
<1>8. Len(cs) = n + 1
  BY <1>0, <1>5
<1>9. FixpointAt(cs, n, fx)
  <2>1. FixpointAt(cs, n + 1, fx)
    BY <1>8 DEF FramesFit
  <2>2. cs[n + 1].kind # "resolve"
    BY <1>8
  <2> QED BY <2>1, <2>2, FixpointBelow
<1>10. PICK under \in Seq(Ctx) : under = SubSeq(stk, 1, Len(stk) - 1)
  BY <1>4
<1>11. Len(under) = cs[n + 1].base /\ \A i \in 1..Len(under) : under[i] = stk[i]
  BY <1>3, <1>4, <1>8, <1>10
<1>12. FramesFit(ds, under, fx)
  BY <1>5, <1>7, <1>8, <1>9, <1>11, PopFrames
<1> QED BY <1>0, <1>1, <1>2, <1>3, <1>4, <1>6, <1>10, <1>12

(* A resolve_group returns: the fixpoint it ran in is the current one.     *)
LEMMA PopResolve ==
  ASSUME NEW cs \in Seq(Frame), NEW stk \in Seq(Ctx), NEW fx, FramesFit(cs, stk, fx),
         cs[Len(cs)].kind = "resolve"
  PROVE  /\ FixpointAt(cs, Len(cs) - 1, cs[Len(cs)].outer)
         /\ FramesFit(SubSeq(cs, 1, Len(cs) - 1), stk, cs[Len(cs)].outer)
<1>0. cs # <<>> /\ Len(cs) \in Nat /\ Len(cs) \in DOMAIN cs /\ Len(stk) \in Nat
      /\ cs[Len(cs)] \in Frame
  BY SeqType DEF FramesFit
<1>1. Len(stk) = cs[Len(cs)].base
  BY <1>0, HeightType DEF FramesFit
<1>5. PICK n \in Nat : n = Len(cs) - 1 /\ n >= 1
  BY HasBelow
<1>6. PICK ds \in Seq(Frame) : ds = SubSeq(cs, 1, Len(cs) - 1)
  BY HasBelow
<1>7. Len(ds) = n /\ \A i \in 1..n : ds[i] = cs[i]
  BY <1>5, <1>6, HasBelow
<1>8. Len(cs) = n + 1
  BY <1>0, <1>5
<1>9. PICK fo : fo = cs[n + 1].outer /\ FixpointAt(cs, n, fo)
  BY <1>0, <1>5, <1>8 DEF FramesFit
<1>10. Len(stk) = cs[n + 1].base
  BY <1>1, <1>8
<1>11. FramesFit(ds, stk, fo)
  <2>1. \A i \in 1..Len(stk) : stk[i] = stk[i]
    OBVIOUS
  <2> QED BY <1>5, <1>7, <1>8, <1>9, <1>10, <2>1, PopFrames
<1>12. FramesFit(ds, stk, cs[Len(cs)].outer)
  BY <1>8, <1>9, <1>11
<1> QED BY <1>5, <1>6, <1>8, <1>9, <1>12

(* A frame is pushed at the height of its caller.                          *)
LEMMA PushFrames ==
  ASSUME NEW cs \in Seq(Frame), NEW fr \in Frame, NEW stk \in Seq(Ctx), NEW tall \in Seq(Ctx),
         NEW fx, NEW fy, FramesFit(cs, stk, fx),
         fr.kind # "solve", fr.base = Len(stk), Len(tall) = Height(fr),
         Len(stk) <= Len(tall), \A i \in 1..Len(stk) : tall[i] = stk[i],
         fr.kind = "walk" => tall[Len(stk) + 1] = fr.ctx /\ fy = fx,
         fr.kind = "resolve" =>
             /\ fr.outer = fx
             /\ fy # None /\ fy.base = fr.base /\ fy.head = fr.head
             /\ fy.read.lowest = NoDepth \/ fy.read.lowest < fy.base
  PROVE  Append(cs, fr) \in Seq(Frame) /\ FramesFit(Append(cs, fr), tall, fy)
<1>1. PICK n \in Nat : n = Len(cs) /\ n >= 1 /\ n \in 1..n /\ DOMAIN cs = 1..n
  BY SeqType DEF FramesFit
<1>2. PICK ds \in Seq(Frame) : /\ ds = Append(cs, fr)
                               /\ Len(ds) = n + 1 /\ DOMAIN ds = 1..(n + 1) /\ ds # <<>>
                               /\ ds[n + 1] = fr /\ \A i \in 1..n : ds[i] = cs[i]
  <2>1. /\ Append(cs, fr) \in Seq(Frame) /\ Len(Append(cs, fr)) = n + 1
        /\ DOMAIN Append(cs, fr) = 1..(n + 1) /\ Append(cs, fr) # <<>>
        /\ Append(cs, fr)[n + 1] = fr /\ \A i \in 1..n : Append(cs, fr)[i] = cs[i]
    BY <1>1, AppendType
  <2> QED BY <2>1
<1>3. \A i \in 1..n : SameShape(cs[i], ds[i])
  BY <1>2 DEF SameShape
<1>4. Len(stk) = Height(cs[n]) /\ Len(stk) \in Nat /\ Len(tall) \in Nat
  BY <1>1, SeqType DEF FramesFit
<1>5. \A i \in 1..n : cs[i] \in Frame /\ Height(cs[i]) \in Nat /\ cs[i].base \in Nat
                      /\ cs[i].base <= Height(cs[i])
  BY <1>1, HeightType, FrameType
<1>6. \A i \in 1..n : Height(cs[i]) <= Len(stk)
  <2> SUFFICES ASSUME NEW i \in 1..n PROVE Height(cs[i]) <= Len(stk)
    OBVIOUS
  <2>1. CASE i = n
    BY <2>1, <1>4
  <2>2. CASE i # n
    <3>1. i < n
      BY <2>2, <1>1
    <3>2. Height(cs[i]) <= cs[n].base
      BY <3>1, <1>1 DEF FramesFit
    <3> QED BY <3>2, <1>1, <1>4, <1>5
  <2> QED BY <2>1, <2>2
<1>7. \A i \in DOMAIN ds : ds[i].kind = "solve" <=> i = 1
  <2> SUFFICES ASSUME NEW i \in 1..(n + 1) PROVE ds[i].kind = "solve" <=> i = 1
    BY <1>2
  <2>1. CASE i = n + 1
    BY <2>1, <1>1, <1>2
  <2>2. CASE i # n + 1
    <3>1. i \in 1..n
      BY <2>2, <1>1
    <3> QED BY <3>1, <1>1, <1>2 DEF FramesFit
  <2> QED BY <2>1, <2>2
<1>8. \A i \in DOMAIN ds : i < Len(ds) => ds[i + 1].base = Height(ds[i])
  <2> SUFFICES ASSUME NEW i \in 1..(n + 1), i < n + 1 PROVE ds[i + 1].base = Height(ds[i])
    BY <1>2
  <2>1. i \in 1..n /\ ds[i] = cs[i]
    BY <1>1, <1>2
  <2>2. CASE i = n
    BY <2>1, <2>2, <1>2, <1>4
  <2>3. CASE i # n
    <3>1. i < Len(cs) /\ i + 1 \in 1..n
      BY <2>1, <2>3, <1>1
    <3> QED BY <3>1, <2>1, <1>1, <1>2 DEF FramesFit
  <2> QED BY <2>2, <2>3
<1>9. \A i, j \in DOMAIN ds : i < j => Height(ds[i]) <= ds[j].base
  <2> SUFFICES ASSUME NEW i \in 1..(n + 1), NEW j \in 1..(n + 1), i < j
               PROVE  Height(ds[i]) <= ds[j].base
    BY <1>2
  <2>1. i \in 1..n /\ ds[i] = cs[i]
    BY <1>1, <1>2
  <2>2. CASE j = n + 1
    BY <2>1, <2>2, <1>2, <1>6
  <2>3. CASE j # n + 1
    <3>1. j \in 1..n
      BY <2>3, <1>1, <2>1
    <3> QED BY <3>1, <2>1, <1>1, <1>2 DEF FramesFit
  <2> QED BY <2>2, <2>3
<1>10. \A i \in DOMAIN ds : ds[i].kind = "walk" =>
          ds[i].base < Len(tall) /\ tall[ds[i].base + 1] = ds[i].ctx
  <2> SUFFICES ASSUME NEW i \in 1..(n + 1), ds[i].kind = "walk"
               PROVE  ds[i].base < Len(tall) /\ tall[ds[i].base + 1] = ds[i].ctx
    BY <1>2
  <2>1. CASE i = n + 1
    BY <2>1, <1>2, <1>4, HeightType
  <2>2. CASE i # n + 1
    <3>1. i \in 1..n /\ ds[i] = cs[i]
      BY <2>2, <1>1, <1>2
    <3>2. cs[i].base < Len(stk) /\ stk[cs[i].base + 1] = cs[i].ctx
      BY <3>1, <1>1 DEF FramesFit
    <3>3. cs[i].base + 1 \in 1..Len(stk) /\ cs[i].base < Len(tall)
      BY SMTT(20), <3>1, <3>2, <1>4, <1>5
    <3> QED BY <3>1, <3>2, <3>3
  <2> QED BY <2>1, <2>2
<1>11. Len(tall) = Height(ds[Len(ds)])
  BY <1>2
<1>12. FixpointAt(ds, n, fx)
  BY <1>1, <1>3, FixpointAtKept DEF FramesFit
<1>13. FixpointAt(ds, n + 1, fy)
  <2>1. CASE fr.kind = "resolve"
    BY <2>1, <1>1, <1>2 DEF FixpointAt
  <2>2. CASE fr.kind = "walk"
    <3>1. CASE fx = None /\ \A i \in 1..n : ds[i].kind # "resolve"
      BY <3>1, <2>2, <1>2 DEF FixpointAt
    <3>2. CASE ~(fx = None /\ \A i \in 1..n : ds[i].kind # "resolve")
      <4>1. PICK i \in 1..n :
              /\ ds[i].kind = "resolve"
              /\ \A j \in (i + 1)..n : ds[j].kind # "resolve"
              /\ fx # None
              /\ fx.base = ds[i].base /\ fx.head = ds[i].head
              /\ fx.read.lowest = NoDepth \/ fx.read.lowest < fx.base
        BY <3>2, <1>12 DEF FixpointAt
      <4>2. i \in 1..(n + 1)
        BY <1>1
      <4>3. \A j \in (i + 1)..(n + 1) : ds[j].kind # "resolve"
        BY <4>1, <2>2, <1>2
      <4> QED BY <4>1, <4>2, <4>3, <2>2 DEF FixpointAt
    <3> QED BY <3>1, <3>2
  <2> QED BY <2>1, <2>2, FrameType
<1>14. \A i \in DOMAIN ds : ds[i].kind = "resolve" => FixpointAt(ds, i - 1, ds[i].outer)
  <2> SUFFICES ASSUME NEW i \in 1..(n + 1), ds[i].kind = "resolve"
               PROVE  FixpointAt(ds, i - 1, ds[i].outer)
    BY <1>2
  <2>1. CASE i = n + 1
    <3>1. i - 1 = n /\ ds[i].outer = fx
      BY <2>1, <1>2
    <3> QED BY <3>1, <1>12
  <2>2. CASE i # n + 1
    <3>1. i \in 1..n /\ ds[i] = cs[i]
      BY <2>2, <1>1, <1>2
    <3>2. PICK m \in Nat : m = i - 1
      BY <3>1
    <3>3. PICK fo : fo = cs[i].outer /\ FixpointAt(cs, m, fo)
      BY <3>1, <3>2, <1>1 DEF FramesFit
    <3>4. \A j \in 1..m : SameShape(cs[j], ds[j])
      BY <3>1, <3>2, <1>3
    <3>5. FixpointAt(ds, m, fo)
      BY <3>3, <3>4, FixpointAtKept
    <3> QED BY <3>1, <3>2, <3>3, <3>5
  <2> QED BY <2>1, <2>2
<1>15. Len(ds) = n + 1
  BY <1>2
<1>16. FixpointAt(ds, Len(ds), fy)
  BY <1>13, <1>15
<1>17. FramesFit(ds, tall, fy)
  BY <1>2, <1>7, <1>8, <1>9, <1>10, <1>11, <1>14, <1>16 DEF FramesFit
<1> QED BY <1>2, <1>17

-----------------------------------------------------------------------------
(* The frame on top changes, and keeps its shape.                          *)

(* The call stack fits as before when the frame on top changes and keeps   *)
(* its shape.                                                              *)
LEMMA SetLast ==
  ASSUME NEW cs \in Seq(Frame), NEW stk \in Seq(Ctx), NEW fx, NEW fy,
         FramesFit(cs, stk, fx), CallersWait(cs), SameFixpoint(fx, fy),
         NEW fr \in Frame, SameShape(cs[Len(cs)], fr)
  PROVE  /\ [cs EXCEPT ![Len(cs)] = fr] \in Seq(Frame)
         /\ FramesFit([cs EXCEPT ![Len(cs)] = fr], stk, fy)
         /\ CallersWait([cs EXCEPT ![Len(cs)] = fr])
         /\ Len([cs EXCEPT ![Len(cs)] = fr]) = Len(cs)
         /\ \A i \in 1..Len(cs) : SameShape(cs[i], [cs EXCEPT ![Len(cs)] = fr][i])
<1>1. cs # <<>> /\ Len(cs) \in Nat /\ DOMAIN cs = 1..Len(cs)
  BY SeqType DEF FramesFit
<1>2. PICK ds \in Seq(Frame) : /\ ds = [cs EXCEPT ![Len(cs)] = fr] /\ Len(ds) = Len(cs)
                               /\ \A i \in 1..Len(cs) : SameShape(cs[i], ds[i])
  BY <1>1, SetTopFrames
<1>3. FramesFit(ds, stk, fy)
  BY <1>2, SameFramesFit
<1>4. \A i \in 1..Len(cs) : i < Len(cs) => ds[i] = cs[i]
  BY <1>1, <1>2
<1>5. DOMAIN ds = 1..Len(cs)
  BY <1>2, SeqType
<1>6. CallersWait(ds)
  BY <1>1, <1>2, <1>4, <1>5 DEF CallersWait
<1> QED BY <1>2, <1>3, <1>6

(* An answer keeps the frames in place.                                    *)
LEMMA ReturnType ==
  ASSUME NEW cs \in Seq(Frame), NEW stk \in Seq(Ctx), NEW fx \in Fixpoint \cup {None},
         FramesFit(cs, stk, fx), CallersWait(cs), Waits(cs[Len(cs)]),
         NEW rd \in [Ctx -> Note], NEW n, NoteAt(n, Len(stk)),
         NEW got \in (SUBSET V) \cup {None},
         Return(cs, rd, fx, stk, n, got)
  PROVE  /\ read' \in [Ctx -> Note] /\ fixpoint' \in Fixpoint \cup {None}
         /\ ctl' \in Seq(Frame) /\ Len(ctl') = Len(cs)
         /\ FramesFit(ctl', stk, fixpoint') /\ CallersWait(ctl')
         /\ \A i \in 1..Len(cs) : SameShape(cs[i], ctl'[i])
<1>1. read' \in [Ctx -> Note]
  BY ReadsToldType DEF Return, NoteAt
<1>2. PICK fy : fy = FixpointTold(fx, stk, n)
  OBVIOUS
<1>3. /\ fy \in Fixpoint \cup {None} /\ (fx = None <=> fy = None)
      /\ fx # None => /\ fy.head = fx.head /\ fy.base = fx.base
                      /\ NoteAt(fx.read, fx.base) => NoteAt(fy.read, fy.base)
  BY <1>2, FixpointToldType
<1>4. SameFixpoint(fx, fy)
  <2>1. fx # None => fx.read \in Note
    BY DEF Fixpoint
  <2> QED BY <1>3, <2>1 DEF SameFixpoint, NoteAt
<1>5. cs # <<>> /\ Len(cs) \in Nat /\ cs[Len(cs)] \in Frame
  BY SeqType DEF FramesFit
<1>6. PICK fr \in Frame : fr = Answered(cs[Len(cs)], got) /\ SameShape(cs[Len(cs)], fr)
  BY <1>5, AnsweredType
<1>7. ctl' = [cs EXCEPT ![Len(cs)] = fr]
  BY <1>6 DEF Return, Answer
<1>8. fixpoint' = fy
  BY <1>2 DEF Return
<1> QED BY <1>1, <1>3, <1>4, <1>6, <1>7, <1>8, SetLast

(* The groups fit as before when frames keep their shape, or leave.        *)
LEMMA SameGroupsFit ==
  ASSUME NEW cs \in Seq(Frame), NEW ds \in Seq(Frame), NEW st, NEW hs, NEW ps,
         Len(ds) <= Len(cs), \A i \in 1..Len(ds) : SameShape(cs[i], ds[i]),
         GroupsFit(st, hs, ps, cs)
  PROVE  GroupsFit(st, hs, ps, ds)
<1>1. /\ DOMAIN ds = 1..Len(ds)
      /\ \A i \in 1..Len(ds) : i \in DOMAIN cs
  BY SeqType
<1>2. \A i \in 1..Len(ds) : ds[i].kind = "resolve" =>
         cs[i].kind = "resolve" /\ ds[i].head = cs[i].head /\ ds[i].members = cs[i].members
  BY DEF SameShape
<1>3. ASSUME NEW i \in DOMAIN ds, ds[i].kind = "resolve"
      PROVE  /\ ds[i].head \in Range(ds[i].members)
             /\ \A c \in Range(ds[i].members) : st[c] = "Resolving" /\ hs[c] = ds[i].head
  BY <1>1, <1>2, <1>3 DEF GroupsFit
<1>4. ASSUME NEW i \in DOMAIN ds, NEW j \in DOMAIN ds,
             ds[i].kind = "resolve", ds[j].kind = "resolve", i # j
      PROVE  ds[i].head # ds[j].head
  BY <1>1, <1>2, <1>4 DEF GroupsFit
<1>5. \A c \in Range(ps) : st[c] = "Parked"
  BY DEF GroupsFit
<1> QED BY <1>3, <1>4, <1>5 DEF GroupsFit

(* The frames below the top.                                               *)
LEMMA BelowWaits ==
  ASSUME NEW cs \in Seq(Frame), NEW stk, NEW fx, FramesFit(cs, stk, fx), CallersWait(cs),
         cs[Len(cs)].kind # "solve", NEW ds, ds = SubSeq(cs, 1, Len(cs) - 1)
  PROVE  /\ ds \in Seq(Frame) /\ ds # <<>> /\ Len(ds) = Len(cs) - 1 /\ Len(ds) <= Len(cs)
         /\ \A i \in 1..Len(ds) : ds[i] = cs[i] /\ SameShape(cs[i], ds[i])
         /\ CallersWait(ds) /\ Waits(ds[Len(ds)])
<1>1. PICK n \in Nat : n = Len(cs) - 1 /\ n >= 1
  BY HasBelow
<1>2. PICK es \in Seq(Frame) : es = ds
  BY HasBelow
<1>3. Len(es) = n /\ \A i \in 1..n : es[i] = cs[i]
  BY <1>1, <1>2, HasBelow
<1>4. Len(cs) \in Nat
  BY SeqType
<1>5. Len(cs) = n + 1
  BY <1>1, <1>4
<1>6. DOMAIN es = 1..n /\ DOMAIN cs = 1..(n + 1) /\ es # <<>>
  BY <1>1, <1>3, <1>5, SeqType
<1>7. \A i \in 1..n : Waits(es[i])
  BY <1>3, <1>5, <1>6 DEF CallersWait
<1>8. CallersWait(es) /\ Waits(es[Len(es)])
  BY <1>1, <1>3, <1>6, <1>7 DEF CallersWait
<1> QED BY <1>1, <1>2, <1>3, <1>5, <1>6, <1>8 DEF SameShape

-----------------------------------------------------------------------------
(***************************************************************************)
(* The steps, one lemma for each action, and the invariant.                *)
(***************************************************************************)

(* What Inv says of the frame on top.                                      *)
LEMMA TopFrame ==
  ASSUME Inv
  PROVE  /\ ctl \in Seq(Frame) /\ ctl # <<>> /\ Len(ctl) \in Nat /\ Len(ctl) \in DOMAIN ctl
         /\ Top \in Frame /\ Top = ctl[Len(ctl)]
         /\ stack \in Seq(Ctx) /\ Len(stack) \in Nat
         /\ fixpoint \in Fixpoint \cup {None}
         /\ read \in [Ctx -> Note]
         /\ FramesFit(ctl, stack, fixpoint) /\ CallersWait(ctl)
         /\ Len(stack) = Height(Top)
<1>1. ctl \in Seq(Frame) /\ FramesFit(ctl, stack, fixpoint) /\ ctl # <<>> /\ CallersWait(ctl)
      /\ stack \in Seq(Ctx) /\ fixpoint \in Fixpoint \cup {None} /\ read \in [Ctx -> Note]
  BY DEF Inv, TypeOK, FramesFit
<1>2. Len(ctl) \in Nat /\ Len(ctl) \in DOMAIN ctl /\ ctl[Len(ctl)] \in Frame
      /\ Len(stack) \in Nat
  BY <1>1, SeqType
<1> QED BY <1>1, <1>2 DEF FramesFit, Top

(* The fields of a summary have their types.                               *)
LEMMA ReturnsType ==
  ASSUME NEW r \in FunctionResult
  PROVE  r.calls \in Seq(SUBSET Ctx) /\ r.returns \in SUBSET V
  BY DEF FunctionResult

(* The member that is replayed waits, with a walk and a summary.           *)
LEMMA Replaying ==
  ASSUME Inv, Replays(Top)
  PROVE  /\ Top \in ResolveFrame /\ Top.at \in 1..Len(Top.members)
         /\ Member(Top) \in Ctx /\ Member(Top) \in Range(Top.members)
         /\ state[Member(Top)] = "Resolving" /\ heads[Member(Top)] = Top.head
         /\ walk[Member(Top)] \in Walk /\ current[Member(Top)] \in FunctionResult
         /\ HasOp(Top) => Op(Top) \in DeferredOp
<1>1. Top \in ResolveFrame /\ Top.kind = "resolve" /\ Top.at <= Len(Top.members)
  BY TopFrame, FrameType DEF Replays
<1>2. Top.at \in 1..Len(Top.members) /\ Top.members \in Seq(Ctx)
  BY <1>1, ResolveFrameType
<1>3. Member(Top) \in Ctx /\ Member(Top) \in Range(Top.members)
  BY <1>2, SeqType DEF Member, Range
<1>4. state[Member(Top)] = "Resolving" /\ heads[Member(Top)] = Top.head
  BY <1>1, <1>3, TopFrame DEF Inv, GroupsFit
<1>5. walk[Member(Top)] \in Walk /\ current[Member(Top)] \in FunctionResult
  BY <1>3, <1>4 DEF Inv, SlotsFit
<1>6. ASSUME HasOp(Top) PROVE Op(Top) \in DeferredOp
  <2>1. walk[Member(Top)].deferred \in Seq(DeferredOp)
    BY <1>5, WalkFields
  <2>2. Top.pc \in 1..Len(walk[Member(Top)].deferred)
    BY <1>1, <1>6, <2>1, ResolveFrameType DEF HasOp
  <2> QED BY <2>1, <2>2, SeqType DEF Op
<1> QED BY <1>1, <1>2, <1>3, <1>4, <1>5, <1>6

(* What the frame on top asks for is a context.                            *)
LEMMA WantedType ==
  ASSUME Inv, Asks(Top)
  PROVE  Wanted(Top) \in Ctx /\ Waits(Top) /\ Waits(ctl[Len(ctl)])
<1>1. Waits(Top) /\ Waits(ctl[Len(ctl)])
  BY TopFrame, AsksWaits
<1>2. CASE Top.kind = "solve"
  <2>1. Top \in SolveFrame
    BY <1>2, TopFrame, FrameType
  <2> QED BY <1>1, <1>2, <2>1 DEF Wanted, SolveFrame
<1>3. CASE Top.kind # "solve" /\ InSite(Top)
  <2>1. Top.site \in SiteCall /\ Top.site.todo # {}
    BY <1>3, TopFrame, InSiteType DEF Asks, InSite
  <2>2. NextCallee(Top.site) \in Func /\ Top.site.arg \in SUBSET V
    BY <2>1, NextCalleeIn DEF SiteCall
  <2> QED BY <1>1, <1>3, <2>2, KeyType DEF Wanted
<1>4. CASE Top.kind # "solve" /\ ~InSite(Top)
  <2>1. HasOp(Top) /\ Op(Top).op = "Apply"
    BY <1>4 DEF Asks
  <2>2. Op(Top) \in DeferredOp
    BY <2>1, Replaying DEF HasOp
  <2>3. Op(Top).ctx \in Ctx
    BY <2>1, <2>2, OpType
  <2> QED BY <1>1, <1>4, <2>3 DEF Wanted
<1> QED BY <1>2, <1>3, <1>4

(* A running context is on the stack, below where its depth says.          *)
LEMMA RunningDepth ==
  ASSUME Inv, NEW c \in Ctx, state[c] = "Running"
  PROVE  depth[c] \in Nat /\ depth[c] < Len(stack) /\ stack[depth[c] + 1] = c
<1>1. c \in Range(stack)
  BY DEF Inv, StackMatches
<1>2. PICK i \in DOMAIN stack : stack[i] = c
  BY <1>1 DEF Range
<1>3. DOMAIN stack = 1..Len(stack) /\ Len(stack) \in Nat
  BY TopFrame, SeqType
<1>4. depth[c] = i - 1
  BY <1>2 DEF Inv, StackMatches
<1> QED BY <1>2, <1>3, <1>4

(* What a read of a waiting context tells and returns.                     *)
LEMMA GroupReadType ==
  ASSUME NEW c \in Ctx, NEW st, NEW hs \in [Ctx -> Ctx], NEW cur, NEW fx, NEW stk,
         cur[c] \in FunctionResult,
         st[hs[c]] = "Running" => depth[hs[c]] \in Nat /\ depth[hs[c]] < Len(stk),
         Len(stk) \in Nat
  PROVE  /\ NoteAt(ReadGroupMember(c, st, hs, cur, fx, stk).note, Len(stk))
         /\ ReadGroupMember(c, st, hs, cur, fx, stk).got \in (SUBSET V) \cup {None}
<1>1. hs[c] \in Ctx /\ cur[c].returns \in SUBSET V
  BY ReturnsType
<1>2. CASE st[hs[c]] = "Running"
  BY <1>1, <1>2, DependsOnType DEF ReadGroupMember
<1>3. CASE st[hs[c]] # "Running" /\ ReaderIsFixpoint(fx, stk) /\ hs[fx.head] = hs[c]
  BY <1>1, <1>3, NothingType DEF ReadGroupMember
<1>4. CASE st[hs[c]] # "Running" /\ ~(ReaderIsFixpoint(fx, stk) /\ hs[fx.head] = hs[c])
  BY <1>1, <1>4, JoinsType DEF ReadGroupMember, NoteAt
<1> QED BY <1>2, <1>3, <1>4

-----------------------------------------------------------------------------
(* Steps that leave the stack and the groups alone.                        *)

(* A step that keeps every frame's shape, the slots' states and the        *)
(* groups preserves Inv.                                                   *)
LEMMA SameStackStep ==
  ASSUME Inv,
         read' \in [Ctx -> Note], fixpoint' \in Fixpoint \cup {None},
         ctl' \in Seq(Frame), Len(ctl') = Len(ctl),
         \A i \in 1..Len(ctl) : SameShape(ctl[i], ctl'[i]),
         FramesFit(ctl', stack, fixpoint'), CallersWait(ctl'),
         walk' \in [Ctx -> Walk \cup {None}], current' \in [Ctx -> FunctionResult \cup {None}],
         SlotsFit(state, heads, walk', current', result),
         prog' = prog, state' = state, depth' = depth, result' = result, heads' = heads,
         parked' = parked, stack' = stack, counters' = counters, expired' = expired
  PROVE  Inv'
<1>1. TypeOK'
  BY DEF Inv, TypeOK, counters
<1>2. StackMatches'
  BY DEF Inv, StackMatches
<1>3. GroupsFit(state, heads, parked, ctl')
  <2>1. Len(ctl') <= Len(ctl)
    BY TopFrame
  <2> QED BY <2>1, TopFrame, SameGroupsFit DEF Inv
<1> QED BY <1>1, <1>2, <1>3 DEF Inv

(* Only the frame on top changes.                                          *)
LEMMA TopStep ==
  ASSUME Inv, NEW fr \in Frame, SameShape(Top, fr), SetTop(fr),
         walk' \in [Ctx -> Walk \cup {None}], current' \in [Ctx -> FunctionResult \cup {None}],
         SlotsFit(state, heads, walk', current', result),
         UNCHANGED <<prog, state, depth, result, read, heads, parked, stack, fixpoint,
                     counters, expired>>
  PROVE  Inv'
<1>1. ctl' = [ctl EXCEPT ![Len(ctl)] = fr]
  BY DEF SetTop
<1>2. SameFixpoint(fixpoint, fixpoint)
  BY DEF SameFixpoint
<1>3. /\ ctl' \in Seq(Frame) /\ Len(ctl') = Len(ctl)
      /\ FramesFit(ctl', stack, fixpoint) /\ CallersWait(ctl')
      /\ \A i \in 1..Len(ctl) : SameShape(ctl[i], ctl'[i])
  BY <1>1, <1>2, TopFrame, SetLast DEF Top
<1> QED BY <1>3, TopFrame, SameStackStep

(* The frame on top gets an answer.                                        *)
LEMMA AnswerStep ==
  ASSUME Inv, Waits(Top), NEW n, NoteAt(n, Len(stack)), NEW got \in (SUBSET V) \cup {None},
         Return(ctl, read, fixpoint, stack, n, got),
         UNCHANGED <<prog, state, depth, result, current, walk, heads, parked, stack,
                     counters, expired>>
  PROVE  Inv'
<1>1. /\ read' \in [Ctx -> Note] /\ fixpoint' \in Fixpoint \cup {None}
      /\ ctl' \in Seq(Frame) /\ Len(ctl') = Len(ctl)
      /\ FramesFit(ctl', stack, fixpoint') /\ CallersWait(ctl')
      /\ \A i \in 1..Len(ctl) : SameShape(ctl[i], ctl'[i])
  BY TopFrame, ReturnType
<1>2. /\ walk' \in [Ctx -> Walk \cup {None}] /\ current' \in [Ctx -> FunctionResult \cup {None}]
      /\ SlotsFit(state, heads, walk', current', result)
  BY DEF Inv, TypeOK
<1> QED BY <1>1, <1>2, SameStackStep

-----------------------------------------------------------------------------
(* get.                                                                    *)

(* The slots fit when walks and summaries are left alone.                  *)
LEMMA SameSlots ==
  ASSUME Inv, walk' = walk, current' = current
  PROVE  /\ walk' \in [Ctx -> Walk \cup {None}] /\ current' \in [Ctx -> FunctionResult \cup {None}]
         /\ SlotsFit(state, heads, walk', current', result)
  BY DEF Inv, TypeOK

(* Reading a finished summary preserves Inv.                               *)
LEMMA GetReadyStep ==
  ASSUME Inv, GetReady
  PROVE  Inv'
<1> DEFINE c == Wanted(Top)
<1>1. c \in Ctx /\ Asks(Top) /\ Waits(Top)
  BY WantedType DEF GetReady
<1>2. result[c] \in FunctionResult
  BY <1>1 DEF GetReady, Inv, SlotsFit
<1>3. result[c].returns \in (SUBSET V) \cup {None}
  BY <1>2, ReturnsType
<1>4. PICK fr \in Frame : fr = Answered(Top, result[c].returns) /\ SameShape(Top, fr)
  BY <1>1, <1>3, TopFrame, AnsweredType
<1>5. SetTop(fr)
  BY <1>4 DEF GetReady, Answer, SetTop, Top
<1>6. UNCHANGED <<prog, state, depth, result, read, heads, parked, stack, fixpoint,
                  counters, expired>> /\ walk' = walk /\ current' = current
  BY DEF GetReady, slots
<1> QED BY <1>4, <1>5, <1>6, SameSlots, TopStep

(* Reading a walk in progress preserves Inv: the depth told is below the   *)
(* reader.                                                                 *)
LEMMA GetRunningStep ==
  ASSUME Inv, GetRunning
  PROVE  Inv'
<1> DEFINE c == Wanted(Top)
<1>1. c \in Ctx /\ Waits(Top) /\ state[c] = "Running"
  BY WantedType DEF GetRunning
<1>2. depth[c] \in Nat /\ depth[c] < Len(stack)
  BY <1>1, RunningDepth
<1>3. NoteAt(DependsOn(depth[c]), Len(stack))
  BY <1>2, TopFrame, DependsOnType DEF NoteAt
<1>4. Return(ctl, read, fixpoint, stack, DependsOn(depth[c]), None)
  BY DEF GetRunning
<1>5. UNCHANGED <<prog, state, depth, result, current, walk, heads, parked, stack,
                  counters, expired>>
  BY DEF GetRunning
<1> QED BY <1>1, <1>3, <1>4, <1>5, AnswerStep

(* Reading a waiting context preserves Inv.                                *)
LEMMA GetGroupMemberStep ==
  ASSUME Inv, GetGroupMember
  PROVE  Inv'
<1> DEFINE c == Wanted(Top)
           m == ReadGroupMember(c, state, heads, current, fixpoint, stack)
<1>1. c \in Ctx /\ Waits(Top) /\ state[c] \in {"Parked", "Resolving"}
  BY WantedType DEF GetGroupMember
<1>2. heads \in [Ctx -> Ctx] /\ heads[c] \in Ctx /\ current[c] \in FunctionResult
  BY <1>1 DEF Inv, TypeOK, SlotsFit
<1>3. state[heads[c]] = "Running" => depth[heads[c]] \in Nat /\ depth[heads[c]] < Len(stack)
  BY <1>2, RunningDepth
<1>4. NoteAt(m.note, Len(stack)) /\ m.got \in (SUBSET V) \cup {None}
  BY <1>1, <1>2, <1>3, TopFrame, GroupReadType
<1>5. Return(ctl, read, fixpoint, stack, m.note, m.got)
  BY DEF GetGroupMember
<1>6. UNCHANGED <<prog, state, depth, result, current, walk, heads, parked, stack,
                  counters, expired>>
  BY DEF GetGroupMember
<1> QED BY <1>1, <1>4, <1>5, <1>6, AnswerStep

(* A read a limit refuses preserves Inv.                                   *)
LEMMA GetCutStep ==
  ASSUME Inv, GetCut
  PROVE  Inv'
<1> DEFINE c == Wanted(Top)
<1>1. c \in Ctx /\ Waits(Top)
  BY WantedType DEF GetCut
<1>2. CostLimit(c) \in Cut \cup {None}
  BY DEF CostLimit, Cut
<1>3. NoteAt(IsCut(CostLimit(c)), Len(stack))
  BY <1>2, TopFrame, IsCutType DEF NoteAt
<1>4. CutReturns \in (SUBSET V) \cup {None}
  BY UnknownInV DEF CutReturns
<1>5. Return(ctl, read, fixpoint, stack, IsCut(CostLimit(c)), CutReturns)
  BY DEF GetCut
<1>6. UNCHANGED <<prog, state, depth, result, current, walk, heads, parked, stack,
                  counters, expired>>
  BY DEF GetCut
<1> QED BY <1>1, <1>3, <1>4, <1>5, <1>6, AnswerStep

-----------------------------------------------------------------------------
(* Walking a body.                                                         *)

(* The walk on top, its body and the site it is at.                        *)
LEMMA AtSiteType ==
  ASSUME Inv, AtSite
  PROVE  /\ Top \in WalkFrame /\ Callee \in Value /\ Arg \in Value
<1>1. Top \in WalkFrame /\ Top.ctx \in Ctx /\ Top.vals \in Seq(Value)
  BY TopFrame, FrameType, WalkFrameType DEF AtSite
<1>2. BodyOf(Top) \in Body
  <2>1. prog \in [Func -> Body]
    BY ProgramAssumption DEF Inv, TypeOK
  <2> QED BY <1>1, <2>1, CtxType DEF BodyOf
<1>3. BodyOf(Top).sites \in Seq(CallSite)
  BY <1>2 DEF Body
<1>4. Len(Top.vals) + 1 \in 1..Len(BodyOf(Top).sites)
  BY <1>1, <1>3 DEF AtSite
<1>5. SiteNow \in CallSite
  BY <1>3, <1>4, SeqType DEF SiteNow
<1>6. SiteNow.callee \in Expr /\ SiteNow.arg \in Expr
  BY <1>5 DEF CallSite
<1> QED BY <1>1, <1>6, EvalType DEF Callee, Arg

(* Deferring a call preserves Inv.                                         *)
LEMMA DeferCallStep ==
  ASSUME Inv, DeferCall
  PROVE  Inv'
<1>1. Top \in WalkFrame /\ Callee \in Value /\ Arg \in Value
  BY AtSiteType DEF DeferCall
<1>2. Top.w \in Walk /\ Top.vals \in Seq(Value)
  BY <1>1, WalkFrameType
<1>3. Top.w.deferred \in Seq(DeferredOp) /\ Top.w.calls \in Seq(SUBSET Ctx)
  BY <1>2, WalkFields
<1> DEFINE op == [op |-> "Call", site |-> Len(Top.vals) + 1, callee |-> Callee, arg |-> Arg]
           v == [known |-> {}, pending |-> {Len(Top.w.deferred) + 1}]
           w == [Top.w EXCEPT !.deferred = Append(@, op), !.calls = Append(@, {})]
           fr == [Top EXCEPT !.w = w, !.vals = Append(@, v)]
<1>4. op \in DeferredOp
  BY <1>1, <1>2 DEF DeferredOp
<1>5. v \in Value
  BY <1>3 DEF Value
<1> HIDE DEF op, v
<1>6. w \in Walk
  <2>1. Append(Top.w.deferred, op) \in Seq(DeferredOp)
    BY <1>3, <1>4
  <2>2. Append(Top.w.calls, {}) \in Seq(SUBSET Ctx)
    BY <1>3
  <2> QED BY <1>2, <2>1, <2>2 DEF Walk
<1>7. Append(Top.vals, v) \in Seq(Value)
  BY <1>2, <1>5
<1>8. SetTop(fr)
  BY <1>1 DEF DeferCall, SetTop, op, v, WalkFrame, Walk
<1> HIDE DEF w
<1>9. fr \in Frame /\ SameShape(Top, fr)
  BY <1>1, <1>6, <1>7 DEF WalkFrame, Frame, SameShape
<1>10. UNCHANGED <<prog, state, depth, result, read, heads, parked, stack, fixpoint,
                   counters, expired>> /\ walk' = walk /\ current' = current
  BY DEF DeferCall, slots
<1> HIDE DEF fr
<1> QED BY <1>8, <1>9, <1>10, SameSlots, TopStep

(* Starting a call preserves Inv.                                          *)
LEMMA StartCallStep ==
  ASSUME Inv, StartCall
  PROVE  Inv'
<1>1. Top \in WalkFrame /\ Callee \in Value /\ Arg \in Value
  BY AtSiteType DEF StartCall
<1>2. Callee.known \in SUBSET V /\ Arg.known \in SUBSET V
  BY <1>1 DEF Value
<1>3. StartSite(Callee.known, Arg.known) \in SiteCall
  BY <1>2, StartSiteType
<1> DEFINE fr == [Top EXCEPT !.site = StartSite(Callee.known, Arg.known)]
<1>4. fr \in Frame /\ SameShape(Top, fr)
  BY <1>1, <1>3, WalkFrameType, SetSiteType
<1>5. SetTop(fr)
  BY DEF StartCall
<1>6. UNCHANGED <<prog, state, depth, result, read, heads, parked, stack, fixpoint,
                  counters, expired>> /\ walk' = walk /\ current' = current
  BY DEF StartCall, slots
<1> HIDE DEF fr
<1> QED BY <1>4, <1>5, <1>6, SameSlots, TopStep

(* Ending a call preserves Inv.                                            *)
LEMMA FinishCallStep ==
  ASSUME Inv, FinishCall
  PROVE  Inv'
<1>1. Top \in WalkFrame /\ Top.site \in SiteCall
  BY TopFrame, FrameType, InSiteType DEF FinishCall
<1>2. Top.w \in Walk /\ Top.vals \in Seq(Value)
  BY <1>1, WalkFrameType
<1>3. Top.site.targets \in SUBSET Ctx /\ Top.site.out \in Value
  BY <1>1 DEF SiteCall
<1>4. Append(Top.w.calls, Top.site.targets) \in Seq(SUBSET Ctx)
  BY <1>2, <1>3, WalkFields
<1> DEFINE w == [Top.w EXCEPT !.calls = Append(@, Top.site.targets)]
           fr == [Top EXCEPT !.w = w, !.vals = Append(@, Top.site.out), !.site = None]
<1>5. w \in Walk
  BY <1>2, <1>4 DEF Walk
<1>6. Append(Top.vals, Top.site.out) \in Seq(Value)
  BY <1>2, <1>3
<1>7. SetTop(fr)
  BY <1>1 DEF FinishCall, SetTop, WalkFrame
<1> HIDE DEF w
<1>8. fr \in Frame /\ SameShape(Top, fr)
  BY <1>1, <1>5, <1>6 DEF WalkFrame, Frame, SameShape
<1>9. UNCHANGED <<prog, state, depth, result, read, heads, parked, stack, fixpoint,
                  counters, expired>> /\ walk' = walk /\ current' = current
  BY DEF FinishCall, slots
<1> HIDE DEF fr
<1> QED BY <1>7, <1>8, <1>9, SameSlots, TopStep

-----------------------------------------------------------------------------
(* Replaying.                                                              *)

(* Replaying a deferred call preserves Inv.                                *)
LEMMA ReplayCallStep ==
  ASSUME Inv, ReplayCall
  PROVE  Inv'
<1>1. /\ HasOp(Top) /\ Replays(Top) /\ Top \in ResolveFrame
      /\ Op(Top) \in DeferredOp /\ Op(Top).op = "Call"
  BY Replaying DEF ReplayCall, HasOp
<1>2. Op(Top).callee \in Value /\ Op(Top).arg \in Value /\ Top.now \in Seq(SUBSET V)
  BY <1>1, OpType, ResolveFrameType
<1> DEFINE s == StartSite(Substitute(Op(Top).callee, Top.now), Substitute(Op(Top).arg, Top.now))
           fr == [Top EXCEPT !.site = s]
<1>3. s \in SiteCall
  BY <1>2, SubstituteType, StartSiteType
<1>4. SetTop(fr)
  BY DEF ReplayCall
<1> HIDE DEF s
<1>5. fr \in Frame /\ SameShape(Top, fr)
  BY <1>1, <1>3, ResolveFrameType, SetSiteType
<1>6. UNCHANGED <<prog, state, depth, result, read, heads, parked, stack, fixpoint,
                  counters, expired>> /\ walk' = walk /\ current' = current
  BY DEF ReplayCall, slots
<1> HIDE DEF fr
<1> QED BY <1>4, <1>5, <1>6, SameSlots, TopStep

(* A context that waits gets another walk, another summary.                *)
LEMMA SlotsSet ==
  ASSUME Inv, NEW m \in Ctx, NEW w \in Walk, NEW r \in FunctionResult \cup {None},
         walk' = [walk EXCEPT ![m] = w],
         current' = current \/ (current' = [current EXCEPT ![m] = r] /\ r \in FunctionResult)
  PROVE  /\ walk' \in [Ctx -> Walk \cup {None}] /\ current' \in [Ctx -> FunctionResult \cup {None}]
         /\ SlotsFit(state, heads, walk', current', result)
<1>1. walk \in [Ctx -> Walk \cup {None}] /\ current \in [Ctx -> FunctionResult \cup {None}]
  BY DEF Inv, TypeOK
<1>2. /\ walk' \in [Ctx -> Walk \cup {None}]
      /\ \A c \in Ctx : walk[c] \in Walk => walk'[c] \in Walk
  BY <1>1
<1>3. /\ current' \in [Ctx -> FunctionResult \cup {None}]
      /\ \A c \in Ctx : current[c] \in FunctionResult => current'[c] \in FunctionResult
  <2>1. CASE current' = current
    BY <1>1, <2>1
  <2>2. CASE current' = [current EXCEPT ![m] = r] /\ r \in FunctionResult
    BY <1>1, <2>2
  <2> QED BY <2>1, <2>2
<1> QED BY <1>2, <1>3 DEF Inv, SlotsFit

(* Ending a replayed call preserves Inv.                                   *)
LEMMA ReplayDoneStep ==
  ASSUME Inv, ReplayDone
  PROVE  Inv'
<1> DEFINE m == Member(Top)
           w == [walk[m] EXCEPT !.calls[Op(Top).site] = Top.site.targets]
           fr == OpDone(Top, Top.site.out.known)
<1>1. /\ HasOp(Top) /\ Replays(Top) /\ Top \in ResolveFrame
      /\ m \in Ctx /\ walk[m] \in Walk
  BY Replaying DEF ReplayDone, HasOp
<1>2. Top.site \in SiteCall
  BY TopFrame, InSiteType DEF ReplayDone
<1>3. Top.site.targets \in SUBSET Ctx /\ Top.site.out.known \in SUBSET V
  BY <1>2 DEF SiteCall, Value
<1>4. w \in Walk
  <2>1. walk[m].calls \in Seq(SUBSET Ctx)
    BY <1>1, WalkFields
  <2> DEFINE cs == [walk[m].calls EXCEPT ![Op(Top).site] = Top.site.targets]
  <2>2. cs \in Seq(SUBSET Ctx)
    BY <2>1, <1>3, ExceptInSeq
  <2> HIDE DEF cs
  <2>3. [walk[m] EXCEPT !.calls = cs] \in Walk
    BY <1>1, <2>2 DEF Walk
  <2>4. w = [walk[m] EXCEPT !.calls = cs]
    BY DEF cs
  <2> QED BY <2>3, <2>4
<1>5. fr \in Frame /\ SameShape(Top, fr)
  BY <1>1, <1>3, OpDoneType DEF Frame
<1>6. walk' = [walk EXCEPT ![m] = w]
  BY DEF ReplayDone
<1>7. SetTop(fr)
  BY DEF ReplayDone
<1> HIDE DEF fr, w, m
<1>8. UNCHANGED <<prog, state, depth, result, read, heads, parked, stack, fixpoint,
                  counters, expired>> /\ current' = current
  BY DEF ReplayDone
<1>9. PICK r \in FunctionResult \cup {None} : r = None
  OBVIOUS
<1>10. /\ walk' \in [Ctx -> Walk \cup {None}] /\ current' \in [Ctx -> FunctionResult \cup {None}]
       /\ SlotsFit(state, heads, walk', current', result)
  BY <1>1, <1>4, <1>6, <1>8, <1>9, SlotsSet
<1> QED BY <1>5, <1>7, <1>8, <1>10, TopStep

(* The values of the replay are kept with the member's walk.               *)
LEMMA KeptWalk ==
  ASSUME Inv, MemberOver
  PROVE  /\ Member(Top) \in Ctx /\ Top \in ResolveFrame /\ Top.now \in Seq(SUBSET V)
         /\ walk[Member(Top)] \in Walk
         /\ [walk[Member(Top)] EXCEPT !.resolved = Top.now] \in Walk
<1>1. Member(Top) \in Ctx /\ Top \in ResolveFrame /\ walk[Member(Top)] \in Walk
  BY Replaying DEF MemberOver
<1>2. Top.now \in Seq(SUBSET V)
  BY <1>1, ResolveFrameType
<1>3. [walk[Member(Top)] EXCEPT !.resolved = Top.now] \in Walk
  BY <1>1, <1>2 DEF Walk
<1> QED BY <1>1, <1>2, <1>3

(* Ending the replay of a member preserves Inv.                            *)
LEMMA NextMemberStep ==
  ASSUME Inv, NextMember
  PROVE  Inv'
<1> DEFINE m == Member(Top)
           next == FinishRound(walk[m], Top.now)
           w == [walk[m] EXCEPT !.resolved = Top.now]
           changed == Top.changed \/ next.returns # current[m].returns
           now == IF Top.at < Len(Top.members)
                  THEN walk[Top.members[Top.at + 1]].resolved ELSE <<>>
           fr == [Top EXCEPT !.changed = changed, !.at = @ + 1, !.pc = 1, !.now = now]
<1>1. /\ MemberOver /\ Replays(Top) /\ m \in Ctx /\ Top \in ResolveFrame
      /\ Top.now \in Seq(SUBSET V) /\ walk[m] \in Walk /\ w \in Walk
  BY KeptWalk DEF NextMember, MemberOver
<1>2. next \in FunctionResult
  BY <1>1, FinishRoundType
<1>3. now \in Seq(SUBSET V)
  <2>1. CASE Top.at < Len(Top.members)
    <3>1. Top.members \in Seq(Ctx) /\ Top.at \in Nat \ {0} /\ Top.kind = "resolve"
      BY <1>1, ResolveFrameType
    <3>2. Top.at + 1 \in 1..Len(Top.members)
      BY <3>1, <2>1
    <3>3. Top.members[Top.at + 1] \in Range(Top.members) /\ Top.members[Top.at + 1] \in Ctx
      BY <3>1, <3>2, SeqType DEF Range
    <3>4. state[Top.members[Top.at + 1]] = "Resolving"
      BY <3>1, <3>3, TopFrame DEF Inv, GroupsFit
    <3>5. walk[Top.members[Top.at + 1]] \in Walk
      BY <3>3, <3>4 DEF Inv, SlotsFit
    <3> QED BY <2>1, <3>5, WalkFields
  <2>2. CASE ~(Top.at < Len(Top.members))
    BY <2>2
  <2> QED BY <2>1, <2>2
<1>4. changed \in BOOLEAN
  BY <1>1, ResolveFrameType
<1>5. SetTop(fr)
  BY DEF NextMember
<1>6. walk' = [walk EXCEPT ![m] = w]
  BY <1>1 DEF NextMember, KeepsResolved
<1>7. current' = [current EXCEPT ![m] = next]
  BY DEF NextMember
<1> HIDE DEF now, changed, next, w, m
<1>8. fr \in Frame /\ SameShape(Top, fr)
  <2>1. Top.at + 1 \in Nat \ {0}
    BY <1>1, ResolveFrameType
  <2>2. 1 \in Nat \ {0}
    OBVIOUS
  <2>3. fr \in ResolveFrame
    BY <1>1, <1>3, <1>4, <2>1, <2>2 DEF ResolveFrame
  <2>4. SameShape(Top, fr)
    BY <1>1 DEF ResolveFrame, SameShape
  <2> QED BY <2>3, <2>4 DEF Frame
<1> HIDE DEF fr
<1>9. UNCHANGED <<prog, state, depth, result, read, heads, parked, stack, fixpoint,
                  counters, expired>>
  BY DEF NextMember
<1>10. /\ walk' \in [Ctx -> Walk \cup {None}] /\ current' \in [Ctx -> FunctionResult \cup {None}]
       /\ SlotsFit(state, heads, walk', current', result)
  BY <1>1, <1>2, <1>6, <1>7, SlotsSet
<1> QED BY <1>5, <1>8, <1>9, <1>10, TopStep

-----------------------------------------------------------------------------
(* A walk starts.                                                          *)

(* The frames below a pushed frame wait when the one that pushed it        *)
(* does.                                                                   *)
LEMMA PushCallers ==
  ASSUME NEW cs \in Seq(Frame), cs # <<>>, CallersWait(cs), Waits(cs[Len(cs)]), NEW fr \in Frame
  PROVE  CallersWait(Append(cs, fr))
<1>1. PICK n \in Nat : n = Len(cs) /\ DOMAIN cs = 1..n
  BY SeqType
<1>2. PICK ds \in Seq(Frame) : ds = Append(cs, fr)
  BY AppendType
<1>3. Len(ds) = n + 1 /\ DOMAIN ds = 1..(n + 1) /\ \A i \in 1..n : ds[i] = cs[i]
  BY <1>1, <1>2, AppendType
<1>4. ASSUME NEW i \in 1..n PROVE Waits(ds[i])
  <2>1. ds[i] = cs[i]
    BY <1>3
  <2>2. CASE i < n
    BY <2>1, <2>2, <1>1 DEF CallersWait
  <2>3. CASE i = n
    BY <2>1, <2>3, <1>1
  <2> QED BY <2>2, <2>3, <1>1
<1>5. \A i \in DOMAIN ds : i < Len(ds) => i \in 1..n
  BY <1>3
<1> QED BY <1>2, <1>4, <1>5 DEF CallersWait

(* A walk's frame adds no group.                                           *)
LEMMA PushGroups ==
  ASSUME NEW cs \in Seq(Frame), NEW fr \in Frame, fr.kind # "resolve",
         NEW st, NEW hs, NEW ps, GroupsFit(st, hs, ps, cs)
  PROVE  GroupsFit(st, hs, ps, Append(cs, fr))
<1>1. PICK n \in Nat : n = Len(cs) /\ DOMAIN cs = 1..n
  BY SeqType
<1>2. PICK ds \in Seq(Frame) : ds = Append(cs, fr)
  BY AppendType
<1>3. /\ Len(ds) = n + 1 /\ DOMAIN ds = 1..(n + 1) /\ ds[n + 1] = fr
      /\ \A i \in 1..n : ds[i] = cs[i]
  BY <1>1, <1>2, AppendType
<1>4. \A i \in DOMAIN ds : ds[i].kind = "resolve" => i \in DOMAIN cs /\ ds[i] = cs[i]
  <2> SUFFICES ASSUME NEW i \in 1..(n + 1), ds[i].kind = "resolve"
               PROVE  i \in DOMAIN cs /\ ds[i] = cs[i]
    BY <1>3
  <2>1. i # n + 1
    BY <1>3
  <2> QED BY <2>1, <1>1, <1>3
<1>5. GroupsFit(st, hs, ps, ds)
  BY <1>4 DEF GroupsFit
<1> QED BY <1>2, <1>5

(* Starting a walk preserves Inv.                                          *)
LEMMA GetWalkStep ==
  ASSUME Inv, GetWalk
  PROVE  Inv'
<1> DEFINE c == Wanted(Top)
           fr == [kind |-> "walk", base |-> Len(stack), ctx |-> c,
                  w |-> [deferred |-> <<>>, resolved |-> <<>>, calls |-> <<>>, rets |-> NoValue],
                  vals |-> <<>>, site |-> None]
<1>1. c \in Ctx /\ Waits(ctl[Len(ctl)])
  BY WantedType DEF GetWalk
<1>2. state[c] \in {"New", "Cut", "Ready"}
  BY DEF GetWalk, MustWalk
<1>3. fr \in WalkFrame
  <2>1. [deferred |-> <<>>, resolved |-> <<>>, calls |-> <<>>, rets |-> NoValue] \in Walk
    BY DEF Walk, NoValue, Value
  <2> QED BY <1>1, <2>1, TopFrame DEF WalkFrame
<1>4. /\ fr \in Frame /\ fr.kind = "walk" /\ fr.base = Len(stack) /\ fr.ctx = c
      /\ Height(fr) = Len(stack) + 1
  BY <1>3 DEF Frame, Height
<1>5. /\ heads' = [heads EXCEPT ![c] = c]
      /\ state' = [state EXCEPT ![c] = "Running"]
      /\ depth' = [depth EXCEPT ![c] = Len(stack)]
      /\ read' = [read EXCEPT ![c] = Nothing]
      /\ stack' = Append(stack, c)
      /\ perFunc' = [perFunc EXCEPT ![c.func] = @ + 1]
      /\ walks' = walks + 1
      /\ ctl' = Append(ctl, fr)
      /\ UNCHANGED <<prog, result, current, walk, parked, fixpoint, expired>>
  BY DEF GetWalk
<1> HIDE DEF fr, c
<1>6. /\ stack' \in Seq(Ctx) /\ Len(stack') = Len(stack) + 1 /\ stack'[Len(stack) + 1] = c
      /\ DOMAIN stack' = 1..(Len(stack) + 1) /\ Len(stack) \in Nat
      /\ \A i \in 1..Len(stack) : stack'[i] = stack[i]
  BY <1>1, <1>5, TopFrame, AppendType
<1>7. Range(stack') = Range(stack) \cup {c}
  BY <1>1, <1>5, TopFrame, RangeOfAppend
<1>8. ctl' \in Seq(Frame) /\ FramesFit(ctl', stack', fixpoint')
  <2>1. Len(stack) <= Len(stack')
    BY <1>6
  <2> QED BY <1>4, <1>5, <1>6, <2>1, TopFrame, PushFrames
<1>9. CallersWait(ctl')
  BY <1>1, <1>4, <1>5, TopFrame, PushCallers
<1>10. GroupsFit(state', heads', parked', ctl')
  <2>1. GroupsFit(state', heads', parked', ctl)
    <3>1. \A d : state[d] \in {"Parked", "Resolving"} => d # c
      BY <1>2
    <3>2. \A d \in Ctx : d # c => state'[d] = state[d] /\ heads'[d] = heads[d]
      BY <1>1, <1>5 DEF Inv, TypeOK
    <3>3. \A d \in Range(parked) : d \in Ctx
      BY SeqType DEF Inv, TypeOK, Range
    <3>4. \A i \in DOMAIN ctl : ctl[i].kind = "resolve" => \A d \in Range(ctl[i].members) : d \in Ctx
      <4> SUFFICES ASSUME NEW i \in DOMAIN ctl, ctl[i].kind = "resolve",
                          NEW d \in Range(ctl[i].members)
                   PROVE  d \in Ctx
        OBVIOUS
      <4>1. ctl[i] \in ResolveFrame
        BY TopFrame, SeqType, FrameType
      <4> QED BY <4>1, ResolveFrameType, SeqType DEF Range
    <3>5. GroupsFit(state, heads, parked, ctl) /\ parked' = parked
      BY <1>5 DEF Inv
    <3> QED BY <3>1, <3>2, <3>3, <3>4, <3>5 DEF GroupsFit
  <2> QED BY <2>1, <1>4, <1>5, TopFrame, PushGroups
<1>11. TypeOK'
  <2>1. Nothing \in Note /\ c.func \in Func
    BY <1>1, NothingType, CtxType
  <2>2. fixpoint' \in Fixpoint \cup {None} /\ read' \in [Ctx -> Note]
    BY <1>5, <2>1 DEF Inv, TypeOK
  <2>3. perFunc' \in [Func -> Nat] /\ walks' \in Nat
    BY <1>5, <2>1 DEF Inv, TypeOK
  <2>4. /\ state' \in [Ctx -> {"New", "Running", "Parked", "Resolving", "Ready", "Cut"}]
        /\ depth' \in [Ctx -> Nat] /\ heads' \in [Ctx -> Ctx]
    BY <1>1, <1>5, TopFrame DEF Inv, TypeOK
  <2> QED BY <1>5, <1>6, <1>8, <2>2, <2>3, <2>4 DEF Inv, TypeOK
<1>12. StackMatches'
  <2>1. \A d \in Ctx : state'[d] = "Running" <=> d = c \/ state[d] = "Running"
    BY <1>1, <1>5 DEF Inv, TypeOK
  <2>2. \A d \in Ctx : state'[d] = "Running" <=> d \in Range(stack')
    BY <2>1, <1>1, <1>7 DEF Inv, StackMatches
  <2>3. ASSUME NEW i \in DOMAIN stack' PROVE depth'[stack'[i]] = i - 1
    <3>1. CASE i = Len(stack) + 1
      BY <3>1, <1>1, <1>5, <1>6 DEF Inv, TypeOK
    <3>2. CASE i # Len(stack) + 1
      <4>1. i \in 1..Len(stack) /\ stack'[i] = stack[i]
        BY <3>2, <1>6
      <4>2. i \in DOMAIN stack /\ stack[i] \in Ctx /\ stack[i] \in Range(stack)
        BY <4>1, TopFrame, SeqType DEF Range
      <4>3. state[stack[i]] = "Running"
        BY <4>2 DEF Inv, StackMatches
      <4>4. stack[i] # c
        BY <4>3, <1>2
      <4>5. depth[stack[i]] = i - 1
        BY <4>2 DEF Inv, StackMatches
      <4> QED BY <4>1, <4>2, <4>4, <4>5, <1>5 DEF Inv, TypeOK
    <3> QED BY <3>1, <3>2
  <2> QED BY <2>2, <2>3 DEF StackMatches
<1>13. SlotsFit(state', heads', walk', current', result')
  <2> SUFFICES ASSUME NEW d \in Ctx
               PROVE  /\ state'[d] = "Running" => heads'[d] = d
                      /\ state'[d] \in {"Parked", "Resolving"} =>
                            walk'[d] \in Walk /\ current'[d] \in FunctionResult
                      /\ state'[d] \in {"Ready", "Cut"} => result'[d] \in FunctionResult
    BY DEF SlotsFit
  <2>1. CASE d = c
    BY <2>1, <1>1, <1>5 DEF Inv, TypeOK
  <2>2. CASE d # c
    <3>1. state'[d] = state[d] /\ heads'[d] = heads[d]
      BY <2>2, <1>1, <1>5 DEF Inv, TypeOK
    <3> QED BY <3>1, <1>5 DEF Inv, SlotsFit
  <2> QED BY <2>1, <2>2
<1> QED BY <1>8, <1>9, <1>10, <1>11, <1>12, <1>13 DEF Inv

-----------------------------------------------------------------------------
(* Steps that end with an answer to the frame below.                       *)

(* A frame that leaves with an answer to the one below preserves Inv,      *)
(* when what it leaves in the slots and groups fits.                       *)
LEMMA AfterAnswer ==
  ASSUME Inv, NEW cs \in Seq(Frame), NEW stk \in Seq(Ctx), NEW fx \in Fixpoint \cup {None},
         FramesFit(cs, stk, fx), CallersWait(cs), Waits(cs[Len(cs)]),
         NEW rd \in [Ctx -> Note], NEW n, NoteAt(n, Len(stk)),
         NEW got \in (SUBSET V) \cup {None},
         Return(cs, rd, fx, stk, n, got), stack' = stk,
         GroupsFit(state', heads', parked', cs), StackMatches',
         SlotsFit(state', heads', walk', current', result'),
         state' \in [Ctx -> {"New", "Running", "Parked", "Resolving", "Ready", "Cut"}],
         result' \in [Ctx -> FunctionResult \cup {None}],
         current' \in [Ctx -> FunctionResult \cup {None}],
         walk' \in [Ctx -> Walk \cup {None}],
         heads' \in [Ctx -> Ctx], parked' \in Seq(Ctx),
         UNCHANGED <<prog, depth, counters, expired>>
  PROVE  Inv'
<1>1. /\ read' \in [Ctx -> Note] /\ fixpoint' \in Fixpoint \cup {None}
      /\ ctl' \in Seq(Frame) /\ Len(ctl') = Len(cs)
      /\ FramesFit(ctl', stack', fixpoint') /\ CallersWait(ctl')
      /\ \A i \in 1..Len(cs) : SameShape(cs[i], ctl'[i])
  BY ReturnType
<1>2. GroupsFit(state', heads', parked', ctl')
  <2>1. Len(ctl') <= Len(cs) /\ \A i \in 1..Len(ctl') : SameShape(cs[i], ctl'[i])
    BY <1>1, SeqType
  <2> QED BY <1>1, <2>1, SameGroupsFit
<1>3. TypeOK'
  BY <1>1 DEF Inv, TypeOK, counters
<1> QED BY <1>1, <1>2, <1>3 DEF Inv

(* The walk on top is over.                                                *)
LEMMA WalkOverType ==
  ASSUME Inv, WalkOver
  PROVE  /\ Top \in WalkFrame /\ Top.ctx \in Ctx /\ state[Top.ctx] = "Running"
         /\ heads[Top.ctx] = Top.ctx /\ WalkDone \in Walk
         /\ Under \in Seq(Ctx) /\ Len(Under) \in Nat /\ Len(Under) = Len(stack) - 1
         /\ Range(Under) = Range(stack) \ {Top.ctx}
         /\ \A i \in DOMAIN Under : depth[Under[i]] = i - 1
         /\ \A c \in Ctx : state[c] = "Running" /\ c # Top.ctx =>
                depth[c] \in Nat /\ depth[c] < Len(Under)
<1>1. Top \in WalkFrame /\ Top.kind = "walk"
  BY TopFrame, FrameType DEF WalkOver
<1>2. Top.ctx \in Ctx /\ Top.w \in Walk /\ Top.vals \in Seq(Value)
  BY <1>1, WalkFrameType
<1>3. WalkDone \in Walk
  <2>1. BodyOf(Top) \in Body
    <3>1. prog \in [Func -> Body]
      BY ProgramAssumption DEF Inv, TypeOK
    <3> QED BY <1>2, <3>1, CtxType DEF BodyOf
  <2>2. BodyOf(Top).rets \in Expr
    BY <2>1 DEF Body
  <2>3. Eval(BodyOf(Top).rets, Top.ctx, Top.vals) \in Value
    BY <1>2, <2>2, EvalType
  <2> QED BY <1>2, <2>3 DEF WalkDone, Walk
<1>4. /\ stack # <<>> /\ stack[Len(stack)] = Top.ctx /\ Len(stack) - 1 \in Nat
      /\ Under \in Seq(Ctx) /\ Len(Under) = Len(stack) - 1
      /\ \A i \in 1..(Len(stack) - 1) : Under[i] = stack[i]
  BY <1>1, TopFrame, PopWalk DEF Under, Top
<1>5. DOMAIN stack = 1..Len(stack) /\ DOMAIN Under = 1..(Len(stack) - 1)
  BY <1>4, TopFrame, SeqType
<1>6. \A i \in DOMAIN Under : depth[Under[i]] = i - 1 /\ Under[i] \in Range(stack)
  <2> TAKE i \in DOMAIN Under
  <2>1. i \in DOMAIN stack /\ Under[i] = stack[i]
    BY <1>4, <1>5, TopFrame
  <2> QED BY <2>1 DEF Inv, StackMatches, Range
<1>7. depth[Top.ctx] = Len(stack) - 1 /\ Top.ctx \in Range(stack)
  <2>1. Len(stack) \in DOMAIN stack
    BY <1>4, <1>5, TopFrame
  <2> QED BY <2>1, <1>4 DEF Inv, StackMatches, Range
<1>8. Range(Under) = Range(stack) \ {Top.ctx}
  <2>1. ASSUME NEW i \in DOMAIN Under PROVE Under[i] \in Range(stack) \ {Top.ctx}
    <3>1. Under[i] # Top.ctx
      BY <1>4, <1>5, <1>6, <1>7, TopFrame
    <3> QED BY <3>1, <1>6
  <2>2. ASSUME NEW i \in DOMAIN stack, stack[i] # Top.ctx PROVE stack[i] \in Range(Under)
    <3>1. i # Len(stack)
      BY <2>2, <1>4
    <3>2. i \in DOMAIN Under /\ Under[i] = stack[i]
      BY <3>1, <1>4, <1>5, TopFrame
    <3> QED BY <3>2 DEF Range
  <2> QED BY <2>1, <2>2 DEF Range
<1>9. state[Top.ctx] = "Running"
  BY <1>2, <1>7 DEF Inv, StackMatches
<1>10. heads[Top.ctx] = Top.ctx
  BY <1>2, <1>9 DEF Inv, SlotsFit
<1>11. ASSUME NEW c \in Ctx, state[c] = "Running", c # Top.ctx
       PROVE  depth[c] \in Nat /\ depth[c] < Len(Under)
  <2>1. depth[c] \in Nat /\ depth[c] < Len(stack) /\ stack[depth[c] + 1] = c
    BY <1>11, RunningDepth
  <2>2. depth[c] # Len(stack) - 1
    BY <2>1, <1>4, <1>11, TopFrame
  <2> QED BY <2>1, <2>2, <1>4, TopFrame
<1> QED BY <1>1, <1>2, <1>3, <1>4, <1>6, <1>8, <1>9, <1>10, <1>11

(* The frames below a walk that is over.                                   *)
LEMMA WalkOverBelow ==
  ASSUME Inv, WalkOver
  PROVE  /\ Below \in Seq(Frame) /\ FramesFit(Below, Under, fixpoint)
         /\ CallersWait(Below) /\ Waits(Below[Len(Below)])
         /\ GroupsFit(state, heads, parked, Below)
<1>1. ctl[Len(ctl)].kind = "walk" /\ ctl[Len(ctl)].kind # "solve"
  BY DEF WalkOver, Top
<1>2. FramesFit(Below, Under, fixpoint)
  BY <1>1, TopFrame, PopWalk DEF Below, Under
<1>3. /\ Below \in Seq(Frame) /\ Len(Below) <= Len(ctl)
      /\ \A i \in 1..Len(Below) : SameShape(ctl[i], Below[i])
      /\ CallersWait(Below) /\ Waits(Below[Len(Below)])
  BY <1>1, TopFrame, BelowWaits DEF Below
<1>4. GroupsFit(state, heads, parked, Below)
  BY <1>3, TopFrame, SameGroupsFit DEF Inv
<1> QED BY <1>2, <1>3, <1>4

(* Members are contexts.                                                   *)
LEMMA MembersIn ==
  ASSUME NEW cs \in Seq(Frame), NEW i \in DOMAIN cs, cs[i].kind = "resolve"
  PROVE  cs[i].members \in Seq(Ctx) /\ Range(cs[i].members) \subseteq Ctx
         /\ cs[i].head \in Ctx
<1>1. cs[i] \in ResolveFrame
  BY SeqType, FrameType
<1> QED BY <1>1, ResolveFrameType, SeqType DEF Range

(* The slots that wait, and the groups, when the walk on top is parked.    *)
LEMMA ParkType ==
  ASSUME Inv, WalkOver, NEW head \in Ctx, Park(Top.ctx, WalkDone, head)
  PROVE  /\ current' \in [Ctx -> FunctionResult \cup {None}]
         /\ current'[Top.ctx] \in FunctionResult
         /\ heads' \in [Ctx -> Ctx]
         /\ walk' \in [Ctx -> Walk \cup {None}]
         /\ state' \in [Ctx -> {"New", "Running", "Parked", "Resolving", "Ready", "Cut"}]
         /\ parked' \in Seq(Ctx)
         /\ \A c \in Ctx : state'[c] = "Running" <=> state[c] = "Running" /\ c # Top.ctx
         /\ GroupsFit(state', heads', parked', Below)
         /\ SlotsFit(state', heads', walk', current', result)
<1> DEFINE c == Top.ctx
<1>1. c \in Ctx /\ state[c] = "Running" /\ heads[c] = c /\ WalkDone \in Walk
  BY WalkOverType
<1>2. RoundZero(WalkDone) \in FunctionResult
  BY <1>1, RoundZeroType
<1>3. /\ current \in [Ctx -> FunctionResult \cup {None}] /\ walk \in [Ctx -> Walk \cup {None}]
      /\ heads \in [Ctx -> Ctx] /\ parked \in Seq(Ctx)
      /\ state \in [Ctx -> {"New", "Running", "Parked", "Resolving", "Ready", "Cut"}]
  BY DEF Inv, TypeOK
<1>4. /\ current' = [current EXCEPT ![c] = IF @ = None THEN RoundZero(WalkDone) ELSE @]
      /\ heads' = UnionInto(heads, {c}, head)
      /\ walk' = [walk EXCEPT ![c] = WalkDone]
      /\ state' = [state EXCEPT ![c] = "Parked"]
      /\ parked' = Append(parked, c)
  BY DEF Park
<1> HIDE DEF c
<1>5. /\ current' \in [Ctx -> FunctionResult \cup {None}] /\ current'[c] \in FunctionResult
      /\ \A d \in Ctx : d # c => current'[d] = current[d]
  BY <1>1, <1>2, <1>3, <1>4
<1>6. heads' \in [Ctx -> Ctx]
  BY <1>3, <1>4, UnionIntoType
<1>7. \A d \in Ctx : heads[d] # c => heads'[d] = heads[d]
  BY <1>1, <1>4 DEF UnionInto
<1>8. /\ walk' \in [Ctx -> Walk \cup {None}] /\ walk'[c] \in Walk
      /\ \A d \in Ctx : d # c => walk'[d] = walk[d]
  BY <1>1, <1>3, <1>4
<1>9. /\ state' \in [Ctx -> {"New", "Running", "Parked", "Resolving", "Ready", "Cut"}]
      /\ state'[c] = "Parked" /\ \A d \in Ctx : d # c => state'[d] = state[d]
  BY <1>1, <1>3, <1>4
<1>10. parked' \in Seq(Ctx) /\ Range(parked') = Range(parked) \cup {c}
  BY <1>1, <1>3, <1>4, AppendType, RangeOfAppend
<1>11. GroupsFit(state', heads', parked', Below)
  <2>1. GroupsFit(state, heads, parked, Below) /\ Below \in Seq(Frame)
    BY WalkOverBelow
  <2>2. \A d \in Range(parked') : state'[d] = "Parked"
    <3> SUFFICES ASSUME NEW d \in Range(parked') PROVE state'[d] = "Parked"
      OBVIOUS
    <3>1. CASE d = c
      BY <3>1, <1>9
    <3>2. CASE d # c
      <4>1. d \in Range(parked)
        BY <3>2, <1>10
      <4>2. d \in Ctx
        BY <4>1, <1>3, SeqType DEF Range
      <4> QED BY <4>1, <4>2, <3>2, <2>1, <1>9 DEF GroupsFit
    <3> QED BY <3>1, <3>2
  <2>3. ASSUME NEW i \in DOMAIN Below, Below[i].kind = "resolve",
               NEW d \in Range(Below[i].members)
        PROVE  state'[d] = "Resolving" /\ heads'[d] = Below[i].head
    <3>1. d \in Ctx /\ Below[i].head \in Ctx
      BY <2>1, <2>3, MembersIn
    <3>2. state[d] = "Resolving" /\ heads[d] = Below[i].head
      BY <2>1, <2>3 DEF GroupsFit
    <3>3. state[Below[i].head] = "Resolving"
      BY <2>1, <2>3 DEF GroupsFit
    <3>4. d # c /\ Below[i].head # c
      BY <3>2, <3>3, <1>1
    <3> QED BY <3>1, <3>2, <3>4, <1>7, <1>9
  <2> QED BY <2>1, <2>2, <2>3 DEF GroupsFit
<1>12. SlotsFit(state', heads', walk', current', result)
  <2> SUFFICES ASSUME NEW d \in Ctx
               PROVE  /\ state'[d] = "Running" => heads'[d] = d
                      /\ state'[d] \in {"Parked", "Resolving"} =>
                            walk'[d] \in Walk /\ current'[d] \in FunctionResult
                      /\ state'[d] \in {"Ready", "Cut"} => result[d] \in FunctionResult
    BY DEF SlotsFit
  <2>1. CASE d = c
    BY <2>1, <1>5, <1>8, <1>9
  <2>2. CASE d # c
    <3>1. state'[d] = state[d] /\ walk'[d] = walk[d] /\ current'[d] = current[d]
      BY <2>2, <1>5, <1>8, <1>9
    <3>2. state[d] = "Running" => heads[d] = d
      BY DEF Inv, SlotsFit
    <3>3. state[d] = "Running" => heads'[d] = d
      BY <3>2, <2>2, <1>7
    <3> QED BY <3>1, <3>3 DEF Inv, SlotsFit
  <2> QED BY <2>1, <2>2
<1>13. \A d \in Ctx : state'[d] = "Running" <=> state[d] = "Running" /\ d # c
  BY <1>9
<1> USE DEF c
<1> QED BY <1>5, <1>6, <1>8, <1>9, <1>10, <1>11, <1>12, <1>13

(* Running slots and stack agree when the walk on top leaves both.         *)
LEMMA PoppedMatches ==
  ASSUME Inv, WalkOver, stack' = Under, depth' = depth,
         \A c \in Ctx : state'[c] = "Running" <=> state[c] = "Running" /\ c # Top.ctx
  PROVE  StackMatches'
<1>1. \A c \in Ctx : state'[c] = "Running" <=> c \in Range(Under)
  BY WalkOverType DEF Inv, StackMatches
<1> QED BY <1>1, WalkOverType DEF StackMatches

(* Parking a walk that read one below it preserves Inv.                    *)
LEMMA ParkInCycleStep ==
  ASSUME Inv, ParkInCycle
  PROVE  Inv'
<1> DEFINE c == Top.ctx
           r == read[c]
           head == heads[stack[r.lowest + 1]]
           note == [r EXCEPT !.cut = None]
<1>1. /\ WalkOver /\ r.lowest < Len(Under)
      /\ Park(c, WalkDone, head) /\ stack' = Under
      /\ Return(Below, read, fixpoint, Under, note, None)
      /\ UNCHANGED <<prog, depth, result, counters, expired>>
  BY DEF ParkInCycle
<1>2. c \in Ctx /\ Under \in Seq(Ctx) /\ Len(Under) \in Nat /\ Len(Under) = Len(stack) - 1
  BY <1>1, WalkOverType
<1>3. r \in Note /\ r.lowest \in Nat
  BY <1>2, TopFrame DEF Note
<1>4. head \in Ctx
  <2>1. r.lowest + 1 \in 1..Len(stack)
    BY <1>1, <1>2, <1>3, TopFrame
  <2>2. stack[r.lowest + 1] \in Ctx
    BY <2>1, TopFrame, SeqType
  <2> QED BY <2>2 DEF Inv, TypeOK
<1>5. NoteAt(note, Len(Under))
  BY <1>1, <1>3 DEF NoteAt, Note
<1> HIDE DEF head, note
<1>6. /\ current' \in [Ctx -> FunctionResult \cup {None}]
      /\ heads' \in [Ctx -> Ctx] /\ walk' \in [Ctx -> Walk \cup {None}]
      /\ state' \in [Ctx -> {"New", "Running", "Parked", "Resolving", "Ready", "Cut"}]
      /\ parked' \in Seq(Ctx)
      /\ GroupsFit(state', heads', parked', Below)
      /\ SlotsFit(state', heads', walk', current', result)
      /\ \A d \in Ctx : state'[d] = "Running" <=> state[d] = "Running" /\ d # Top.ctx
  BY <1>1, <1>4, ParkType
<1>7. StackMatches'
  BY <1>1, <1>6, PoppedMatches
<1>8. result' = result /\ result' \in [Ctx -> FunctionResult \cup {None}]
  BY <1>1 DEF Inv, TypeOK
<1>9. /\ Below \in Seq(Frame) /\ FramesFit(Below, Under, fixpoint)
      /\ CallersWait(Below) /\ Waits(Below[Len(Below)])
  BY <1>1, WalkOverBelow
<1>10. UNCHANGED <<prog, depth, counters, expired>>
  BY <1>1
<1> HIDE DEF c, r
<1> QED BY <1>1, <1>2, <1>5, <1>6, <1>7, <1>8, <1>9, <1>10, TopFrame, AfterAnswer

(* Parking a walk that read a group being resolved preserves Inv.          *)
LEMMA ParkInGroupStep ==
  ASSUME Inv, ParkInGroup
  PROVE  Inv'
<1> DEFINE c == Top.ctx
           r == read[c]
           m == ReadGroupMember(c, state', heads', current', fixpoint, Under)
<1>1. /\ WalkOver /\ r.joins # None
      /\ Park(c, WalkDone, r.joins) /\ stack' = Under
      /\ Return(Below, read, fixpoint, Under, m.note, m.got)
      /\ UNCHANGED <<prog, depth, result, counters, expired>>
  BY DEF ParkInGroup
<1>2. c \in Ctx /\ Under \in Seq(Ctx) /\ Len(Under) \in Nat
  BY <1>1, WalkOverType
<1>3. r \in Note /\ r.joins \in Ctx
  BY <1>1, <1>2, TopFrame DEF Note
<1>6. /\ current' \in [Ctx -> FunctionResult \cup {None}] /\ current'[c] \in FunctionResult
      /\ heads' \in [Ctx -> Ctx] /\ walk' \in [Ctx -> Walk \cup {None}]
      /\ state' \in [Ctx -> {"New", "Running", "Parked", "Resolving", "Ready", "Cut"}]
      /\ parked' \in Seq(Ctx)
      /\ GroupsFit(state', heads', parked', Below)
      /\ SlotsFit(state', heads', walk', current', result)
      /\ \A d \in Ctx : state'[d] = "Running" <=> state[d] = "Running" /\ d # Top.ctx
  BY <1>1, <1>3, ParkType
<1>4. state'[heads'[c]] = "Running" =>
         depth[heads'[c]] \in Nat /\ depth[heads'[c]] < Len(Under)
  <2>1. heads'[c] \in Ctx
    BY <1>2, <1>6
  <2> QED BY <2>1, <1>1, <1>6, WalkOverType
<1>5. NoteAt(m.note, Len(Under)) /\ m.got \in (SUBSET V) \cup {None}
  BY <1>2, <1>4, <1>6, GroupReadType
<1> HIDE DEF m
<1>7. StackMatches'
  BY <1>1, <1>6, PoppedMatches
<1>8. result' = result /\ result' \in [Ctx -> FunctionResult \cup {None}]
  BY <1>1 DEF Inv, TypeOK
<1>9. /\ Below \in Seq(Frame) /\ FramesFit(Below, Under, fixpoint)
      /\ CallersWait(Below) /\ Waits(Below[Len(Below)])
  BY <1>1, WalkOverBelow
<1>10. UNCHANGED <<prog, depth, counters, expired>>
  BY <1>1
<1> HIDE DEF c, r
<1> QED BY <1>1, <1>2, <1>5, <1>6, <1>7, <1>8, <1>9, <1>10, TopFrame, AfterAnswer

(* Finishing a walk that read nobody waiting preserves Inv.                *)
LEMMA FinishAloneStep ==
  ASSUME Inv, FinishAlone
  PROVE  Inv'
<1> DEFINE c == Top.ctx
           r == read[c]
           res == [RoundZero(WalkDone) EXCEPT !.cut = r.cut]
           to == IF r.cut = None THEN "Ready" ELSE "Cut"
<1>1. /\ WalkOver /\ stack' = Under
      /\ state' = [state EXCEPT ![c] = to]
      /\ result' = [result EXCEPT ![c] = res]
      /\ Return(Below, read, fixpoint, Under, IsCut(r.cut), res.returns)
      /\ UNCHANGED <<prog, depth, current, walk, heads, parked, counters, expired>>
  BY DEF FinishAlone
<1>2. c \in Ctx /\ Under \in Seq(Ctx) /\ Len(Under) \in Nat /\ WalkDone \in Walk
      /\ state[c] = "Running"
  BY <1>1, WalkOverType
<1>3. r.cut \in Cut \cup {None}
  BY <1>2, TopFrame DEF Note
<1>4. res \in FunctionResult
  BY <1>2, <1>3, RoundZeroType DEF FunctionResult
<1>5. NoteAt(IsCut(r.cut), Len(Under)) /\ res.returns \in (SUBSET V) \cup {None}
  BY <1>2, <1>3, <1>4, IsCutType, ReturnsType
<1> HIDE DEF res
<1>6. to \in {"Ready", "Cut"}
  OBVIOUS
<1> HIDE DEF to
<1>7. /\ state' \in [Ctx -> {"New", "Running", "Parked", "Resolving", "Ready", "Cut"}]
      /\ state'[c] = to /\ \A d \in Ctx : d # c => state'[d] = state[d]
      /\ result' \in [Ctx -> FunctionResult \cup {None}]
      /\ result'[c] = res /\ \A d \in Ctx : d # c => result'[d] = result[d]
  BY <1>1, <1>2, <1>4, <1>6 DEF Inv, TypeOK
<1>8. /\ current' = current /\ walk' = walk /\ heads' = heads /\ parked' = parked
      /\ current' \in [Ctx -> FunctionResult \cup {None}]
      /\ walk' \in [Ctx -> Walk \cup {None}]
      /\ heads' \in [Ctx -> Ctx] /\ parked' \in Seq(Ctx)
  BY <1>1 DEF Inv, TypeOK
<1>9. /\ Below \in Seq(Frame) /\ FramesFit(Below, Under, fixpoint)
      /\ CallersWait(Below) /\ Waits(Below[Len(Below)])
      /\ GroupsFit(state, heads, parked, Below)
  BY <1>1, WalkOverBelow
<1>10. GroupsFit(state', heads', parked', Below)
  <2>1. \A d \in Range(parked) : d \in Ctx /\ state[d] = "Parked"
    BY <1>8, <1>9, SeqType DEF GroupsFit, Range
  <2>2. ASSUME NEW i \in DOMAIN Below, Below[i].kind = "resolve",
               NEW d \in Range(Below[i].members)
        PROVE  state'[d] = "Resolving" /\ heads'[d] = Below[i].head
    <3>1. d \in Ctx
      BY <1>9, <2>2, MembersIn
    <3>2. state[d] = "Resolving" /\ heads[d] = Below[i].head
      BY <1>9, <2>2 DEF GroupsFit
    <3> QED BY <3>1, <3>2, <1>2, <1>7, <1>8
  <2>3. \A d \in Range(parked') : state'[d] = "Parked"
    BY <2>1, <1>2, <1>7, <1>8
  <2> QED BY <2>2, <2>3, <1>9 DEF GroupsFit
<1>11. SlotsFit(state', heads', walk', current', result')
  <2> SUFFICES ASSUME NEW d \in Ctx
               PROVE  /\ state'[d] = "Running" => heads'[d] = d
                      /\ state'[d] \in {"Parked", "Resolving"} =>
                            walk'[d] \in Walk /\ current'[d] \in FunctionResult
                      /\ state'[d] \in {"Ready", "Cut"} => result'[d] \in FunctionResult
    BY DEF SlotsFit
  <2>1. CASE d = c
    BY <2>1, <1>4, <1>6, <1>7
  <2>2. CASE d # c
    BY <2>2, <1>7, <1>8 DEF Inv, SlotsFit
  <2> QED BY <2>1, <2>2
<1>12. StackMatches'
  <2>1. \A d \in Ctx : state'[d] = "Running" <=> state[d] = "Running" /\ d # Top.ctx
    BY <1>6, <1>7
  <2> QED BY <2>1, <1>1, PoppedMatches
<1>13. UNCHANGED <<prog, depth, counters, expired>>
  BY <1>1
<1> HIDE DEF c, r
<1> QED BY <1>1, <1>2, <1>5, <1>7, <1>8, <1>9, <1>10, <1>11, <1>12, <1>13, TopFrame, AfterAnswer

-----------------------------------------------------------------------------
(* A group's fixpoint starts.                                              *)

(* A resolve_group whose head no other has fits with its members.          *)
LEMMA PushResolveGroups ==
  ASSUME NEW cs \in Seq(Frame), NEW fr \in ResolveFrame,
         NEW st, NEW hs, NEW ps, GroupsFit(st, hs, ps, cs),
         fr.head \in Range(fr.members),
         \A c \in Range(fr.members) : st[c] = "Resolving" /\ hs[c] = fr.head,
         \A i \in DOMAIN cs : cs[i].kind = "resolve" => cs[i].head # fr.head
  PROVE  GroupsFit(st, hs, ps, Append(cs, fr))
<1>0. fr \in Frame
  BY ResolveFrameType
<1>1. PICK n \in Nat : n = Len(cs) /\ DOMAIN cs = 1..n
  BY SeqType
<1>2. PICK ds \in Seq(Frame) : ds = Append(cs, fr)
  BY <1>0, AppendType
<1>3. /\ Len(ds) = n + 1 /\ DOMAIN ds = 1..(n + 1) /\ ds[n + 1] = fr
      /\ \A i \in 1..n : ds[i] = cs[i]
  BY <1>0, <1>1, <1>2, AppendType
<1>4. \A i \in DOMAIN ds : i = n + 1 \/ (i \in DOMAIN cs /\ ds[i] = cs[i])
  BY <1>1, <1>3
<1>5. ASSUME NEW i \in DOMAIN ds, ds[i].kind = "resolve"
      PROVE  /\ ds[i].head \in Range(ds[i].members)
             /\ \A c \in Range(ds[i].members) : st[c] = "Resolving" /\ hs[c] = ds[i].head
  <2>1. CASE i = n + 1
    BY <2>1, <1>3
  <2>2. CASE i \in DOMAIN cs /\ ds[i] = cs[i]
    BY <2>2, <1>5 DEF GroupsFit
  <2> QED BY <2>1, <2>2, <1>4
<1>6. ASSUME NEW i \in DOMAIN ds, NEW j \in DOMAIN ds,
             ds[i].kind = "resolve", ds[j].kind = "resolve", i # j
      PROVE  ds[i].head # ds[j].head
  <2>1. CASE i = n + 1
    BY <2>1, <1>3, <1>4, <1>6
  <2>2. CASE j = n + 1
    BY <2>2, <1>3, <1>4, <1>6
  <2>3. CASE i # n + 1 /\ j # n + 1
    BY <2>3, <1>4, <1>6 DEF GroupsFit
  <2> QED BY <2>1, <2>2, <2>3
<1>7. GroupsFit(st, hs, ps, ds)
  BY <1>5, <1>6 DEF GroupsFit
<1> QED BY <1>2, <1>7

(* Contexts start from round 0.                                            *)
LEMMA FromRoundZeroType ==
  ASSUME Inv, NEW ms \in SUBSET Ctx, NEW ws, \A c \in ms : ws[c] \in Walk,
         FromRoundZero(ms, ws)
  PROVE  /\ current' \in [Ctx -> FunctionResult \cup {None}]
         /\ walk' \in [Ctx -> Walk \cup {None}]
         /\ state' \in [Ctx -> {"New", "Running", "Parked", "Resolving", "Ready", "Cut"}]
         /\ \A c \in ms : /\ state'[c] = "Resolving"
                          /\ current'[c] \in FunctionResult /\ walk'[c] \in Walk
         /\ \A c \in Ctx \ ms : /\ state'[c] = state[c]
                                /\ current'[c] = current[c] /\ walk'[c] = walk[c]
<1>1. ASSUME NEW c \in ms
      PROVE  RoundZero(ws[c]) \in FunctionResult /\ [ws[c] EXCEPT !.resolved = NoValues(ws[c])] \in Walk
  <2>1. ws[c] \in Walk /\ NoValues(ws[c]) \in Seq(SUBSET V)
    BY NoValuesType
  <2>2. [ws[c] EXCEPT !.resolved = NoValues(ws[c])] \in Walk
    BY <2>1 DEF Walk
  <2> QED BY <2>1, <2>2, RoundZeroType
<1>2. /\ current \in [Ctx -> FunctionResult \cup {None}] /\ walk \in [Ctx -> Walk \cup {None}]
      /\ state \in [Ctx -> {"New", "Running", "Parked", "Resolving", "Ready", "Cut"}]
  BY DEF Inv, TypeOK
<1>3. /\ current' \in [Ctx -> FunctionResult \cup {None}]
      /\ \A c \in ms : current'[c] \in FunctionResult
      /\ \A c \in Ctx \ ms : current'[c] = current[c]
  BY <1>1, <1>2 DEF FromRoundZero
<1>4. /\ walk' \in [Ctx -> Walk \cup {None}]
      /\ \A c \in ms : walk'[c] \in Walk
      /\ \A c \in Ctx \ ms : walk'[c] = walk[c]
  BY <1>1, <1>2 DEF FromRoundZero
<1>5. /\ state' \in [Ctx -> {"New", "Running", "Parked", "Resolving", "Ready", "Cut"}]
      /\ \A c \in ms : state'[c] = "Resolving"
      /\ \A c \in Ctx \ ms : state'[c] = state[c]
  BY <1>2 DEF FromRoundZero
<1> QED BY <1>3, <1>4, <1>5

(* Starting a group's fixpoint preserves Inv: its head was running, so     *)
(* no other fixpoint has it.                                               *)
LEMMA ResolveGroupStep ==
  ASSUME Inv, ResolveGroup
  PROVE  Inv'
<1> DEFINE c == Top.ctx
           ps == Append(parked, c)
           ms == Taken(ps, heads, c)
           ws == [walk EXCEPT ![c] = WalkDone]
           fy == [head |-> c, base |-> Len(Under), read |-> Nothing]
           fr == [kind |-> "resolve", base |-> Len(Under), head |-> c, members |-> ms,
                  round |-> 1, changed |-> FALSE, at |-> 1, pc |-> 1,
                  now |-> NoValues(ws[ms[1]]), site |-> None, outer |-> fixpoint]
<1>1. /\ WalkOver /\ stack' = Under /\ parked' = Left(ps, heads, c)
      /\ FromRoundZero(Range(ms), ws) /\ fixpoint' = fy /\ ctl' = Append(Below, fr)
      /\ UNCHANGED <<prog, depth, result, read, heads, counters, expired>>
  BY DEF ResolveGroup
<1>2. /\ c \in Ctx /\ state[c] = "Running" /\ heads[c] = c /\ WalkDone \in Walk
      /\ Under \in Seq(Ctx) /\ Len(Under) \in Nat
  BY <1>1, WalkOverType
<1>3. /\ parked \in Seq(Ctx) /\ heads \in [Ctx -> Ctx] /\ walk \in [Ctx -> Walk \cup {None}]
  BY DEF Inv, TypeOK
<1>4. ps \in Seq(Ctx) /\ Range(ps) = Range(parked) \cup {c}
  BY <1>2, <1>3, AppendType, RangeOfAppend
<1> HIDE DEF ps
<1>5. /\ ms \in Seq(Ctx) /\ Left(ps, heads, c) \in Seq(Ctx)
      /\ Range(ms) = {d \in Range(parked) \cup {c} : heads[d] = c}
      /\ Range(Left(ps, heads, c)) = {d \in Range(parked) \cup {c} : heads[d] # c}
  <2> HIDE DEF c
  <2>1. /\ ms \in Seq(Ctx) /\ Left(ps, heads, c) \in Seq(Ctx)
        /\ Range(ms) = {d \in Range(ps) : heads[d] = c}
        /\ Range(Left(ps, heads, c)) = {d \in Range(ps) : heads[d] # c}
    BY ZenonT(30), <1>2, <1>3, <1>4, TakenLeft
  <2>2. Range(ps) = Range(parked) \cup {c}
    BY <1>4
  <2> HIDE DEF ms
  <2> QED BY <2>1, <2>2
<1> HIDE DEF ms, c
<1>6. Range(ms) \subseteq Ctx /\ c \in Range(ms) /\ ms # <<>> /\ ms[1] \in Range(ms)
  <2>1. c \in Range(ms)
    BY <1>2, <1>5
  <2>2. DOMAIN ms = 1..Len(ms) /\ Len(ms) \in Nat /\ \A i \in 1..Len(ms) : ms[i] \in Ctx
    BY <1>5, SeqType
  <2>3. ms # <<>> /\ 1 \in DOMAIN ms
    BY <2>1, <2>2 DEF Range
  <2> QED BY <2>1, <2>2, <2>3 DEF Range
<1>7. \A d \in Range(parked) : state[d] = "Parked" /\ d \in Ctx
  BY <1>3, SeqType DEF Inv, GroupsFit, Range
<1>8. \A d \in Range(ms) : ws[d] \in Walk /\ (d = c \/ state[d] = "Parked")
  <2> TAKE d \in Range(ms)
  <2>1. CASE d = c
    BY <2>1, <1>2, <1>3
  <2>2. CASE d # c
    <3>1. state[d] = "Parked" /\ d \in Ctx
      BY <2>2, <1>5, <1>7
    <3>2. walk[d] \in Walk
      BY <3>1 DEF Inv, SlotsFit
    <3> QED BY <2>2, <3>1, <3>2, <1>3
  <2> QED BY <2>1, <2>2
<1> HIDE DEF ws
<1>9. /\ current' \in [Ctx -> FunctionResult \cup {None}]
      /\ walk' \in [Ctx -> Walk \cup {None}]
      /\ state' \in [Ctx -> {"New", "Running", "Parked", "Resolving", "Ready", "Cut"}]
      /\ \A d \in Range(ms) : /\ state'[d] = "Resolving"
                              /\ current'[d] \in FunctionResult /\ walk'[d] \in Walk
      /\ \A d \in Ctx \ Range(ms) : /\ state'[d] = state[d]
                                    /\ current'[d] = current[d] /\ walk'[d] = walk[d]
  BY <1>1, <1>6, <1>8, FromRoundZeroType
<1>10. fr \in ResolveFrame
  <2>1. NoValues(ws[ms[1]]) \in Seq(SUBSET V)
    BY <1>6, <1>8, NoValuesType
  <2>2. 1 \in Nat \ {0} /\ fixpoint \in Fixpoint \cup {None}
    BY TopFrame
  <2> QED BY <1>2, <1>5, <2>1, <2>2 DEF ResolveFrame
<1>11. fy \in Fixpoint /\ fy # None /\ fy.read.lowest = NoDepth
  BY <1>2, NothingType, NoneAssumption DEF Fixpoint, Nothing
<1>12. /\ fr \in Frame /\ fr.kind = "resolve" /\ fr.base = Len(Under) /\ Height(fr) = Len(Under)
       /\ fr.outer = fixpoint /\ fr.head = c /\ fr.members = ms
       /\ fy.base = fr.base /\ fy.head = fr.head
  BY <1>10 DEF Frame, Height
<1> HIDE DEF fr, fy
<1>13. /\ Below \in Seq(Frame) /\ FramesFit(Below, Under, fixpoint)
       /\ CallersWait(Below) /\ Waits(Below[Len(Below)]) /\ Below # <<>>
       /\ GroupsFit(state, heads, parked, Below)
  BY <1>1, WalkOverBelow DEF FramesFit
<1>14. ctl' \in Seq(Frame) /\ FramesFit(ctl', stack', fixpoint')
  <2>1. Len(Under) <= Len(Under) /\ \A i \in 1..Len(Under) : Under[i] = Under[i]
    BY <1>2
  <2> QED BY <1>1, <1>2, <1>11, <1>12, <1>13, <2>1, PushFrames
<1>15. CallersWait(ctl')
  BY <1>1, <1>12, <1>13, PushCallers
<1>16. GroupsFit(state', heads', parked', ctl')
  <2>1. \A d \in Range(parked') : state'[d] = "Parked"
    <3> SUFFICES ASSUME NEW d \in Range(parked') PROVE state'[d] = "Parked"
      OBVIOUS
    <3>1. d \in Range(parked) /\ heads[d] # c
      BY <1>1, <1>2, <1>5
    <3> QED BY <3>1, <1>5, <1>7, <1>9
  <2>2. ASSUME NEW i \in DOMAIN Below, Below[i].kind = "resolve"
        PROVE  /\ \A d \in Range(Below[i].members) :
                     state'[d] = "Resolving" /\ heads'[d] = Below[i].head
               /\ Below[i].head # c
    <3>1. ASSUME NEW d \in Range(Below[i].members)
          PROVE  state'[d] = "Resolving" /\ heads'[d] = Below[i].head
      <4>1. d \in Ctx
        BY <1>13, <2>2, MembersIn
      <4>2. state[d] = "Resolving" /\ heads[d] = Below[i].head
        BY <1>13, <2>2 DEF GroupsFit
      <4>3. d \notin Range(ms)
        BY <4>2, <1>2, <1>8
      <4> QED BY <4>1, <4>2, <4>3, <1>1, <1>9
    <3>2. state[Below[i].head] = "Resolving"
      BY <1>13, <2>2 DEF GroupsFit
    <3> QED BY <3>1, <3>2, <1>2
  <2>3. GroupsFit(state', heads', parked', Below)
    BY <2>1, <2>2, <1>13 DEF GroupsFit
  <2>4. \A d \in Range(fr.members) : state'[d] = "Resolving" /\ heads'[d] = fr.head
    BY <1>1, <1>5, <1>9, <1>12
  <2>5. fr.head \in Range(fr.members)
    BY <1>6, <1>12
  <2>6. \A i \in DOMAIN Below : Below[i].kind = "resolve" => Below[i].head # fr.head
    BY <2>2, <1>12
  <2> QED BY <1>1, <1>10, <1>13, <2>3, <2>4, <2>5, <2>6, PushResolveGroups
<1>17. SlotsFit(state', heads', walk', current', result')
  <2> SUFFICES ASSUME NEW d \in Ctx
               PROVE  /\ state'[d] = "Running" => heads'[d] = d
                      /\ state'[d] \in {"Parked", "Resolving"} =>
                            walk'[d] \in Walk /\ current'[d] \in FunctionResult
                      /\ state'[d] \in {"Ready", "Cut"} => result'[d] \in FunctionResult
    BY DEF SlotsFit
  <2>1. CASE d \in Range(ms)
    BY <2>1, <1>9
  <2>2. CASE d \notin Range(ms)
    BY <2>2, <1>1, <1>9 DEF Inv, SlotsFit
  <2> QED BY <2>1, <2>2
<1>18. StackMatches'
  <2>1. ASSUME NEW d \in Ctx PROVE state'[d] = "Running" <=> state[d] = "Running" /\ d # Top.ctx
    <3>1. CASE d \in Range(ms)
      BY <3>1, <1>8, <1>9 DEF c
    <3>2. CASE d \notin Range(ms)
      BY <3>2, <1>6, <1>9 DEF c
    <3> QED BY <3>1, <3>2
  <2> QED BY <2>1, <1>1, PoppedMatches
<1>19. TypeOK'
  BY <1>1, <1>2, <1>5, <1>9, <1>11, <1>14 DEF Inv, TypeOK, counters
<1> QED BY <1>14, <1>15, <1>16, <1>17, <1>18, <1>19 DEF Inv

-----------------------------------------------------------------------------
(* The fixpoint in progress.                                               *)

(* Vec::extend adds the elements of the second sequence.                   *)
LEMMA RangeOfConcat ==
  ASSUME NEW T, NEW s \in Seq(T), NEW t \in Seq(T)
  PROVE  s \o t \in Seq(T) /\ Range(s \o t) = Range(s) \cup Range(t)
<1>0. s \o t \in Seq(T)
  OBVIOUS
<1>1. PICK u \in Seq(T) : u = s \o t
  BY <1>0
<1>2. /\ Len(s) \in Nat /\ Len(t) \in Nat /\ Len(u) = Len(s) + Len(t)
      /\ DOMAIN s = 1..Len(s) /\ DOMAIN t = 1..Len(t) /\ DOMAIN u = 1..(Len(s) + Len(t))
      /\ \A i \in 1..Len(s) : u[i] = s[i]
      /\ \A i \in 1..Len(t) : u[Len(s) + i] = t[i]
  BY <1>1
<1>3. ASSUME NEW i \in DOMAIN u PROVE u[i] \in Range(s) \cup Range(t)
  <2>1. CASE i <= Len(s)
    BY <2>1, <1>2 DEF Range
  <2>2. CASE i > Len(s)
    <3>1. i - Len(s) \in 1..Len(t) /\ i = Len(s) + (i - Len(s))
      BY <2>2, <1>2
    <3>2. u[i] = t[i - Len(s)]
      BY <3>1, <1>2
    <3> QED BY <3>1, <3>2, <1>2 DEF Range
  <2> QED BY <2>1, <2>2, <1>2
<1>4. \A i \in DOMAIN s : i \in DOMAIN u /\ u[i] = s[i]
  BY <1>2
<1>5. \A i \in DOMAIN t : Len(s) + i \in DOMAIN u /\ u[Len(s) + i] = t[i]
  BY <1>2
<1>6. Range(u) = Range(s) \cup Range(t)
  BY <1>3, <1>4, <1>5 DEF Range
<1> QED BY <1>1, <1>6

(* The resolve_group on top, its members and its fixpoint.                 *)
LEMMA ResolveOnTop ==
  ASSUME Inv, Top.kind = "resolve"
  PROVE  /\ Top \in ResolveFrame /\ Top.base = Len(stack) /\ Height(Top) = Len(stack)
         /\ Top.head \in Ctx /\ Top.members \in Seq(Ctx) /\ Range(Top.members) \subseteq Ctx
         /\ Top.head \in Range(Top.members)
         /\ \A c \in Range(Top.members) :
               /\ state[c] = "Resolving" /\ heads[c] = Top.head
               /\ walk[c] \in Walk /\ current[c] \in FunctionResult
         /\ fixpoint \in Fixpoint /\ fixpoint # None
         /\ fixpoint.head = Top.head /\ fixpoint.base = Len(stack)
         /\ NoteAt(fixpoint.read, Len(stack))
<1>1. Top \in ResolveFrame
  BY TopFrame, FrameType
<1>2. Top.head \in Ctx /\ Top.members \in Seq(Ctx) /\ Range(Top.members) \subseteq Ctx
  BY <1>1, ResolveFrameType, SeqType DEF Range
<1>3. Top.base = Len(stack) /\ Height(Top) = Len(stack)
  BY TopFrame, HeightType
<1>4. /\ Top.head \in Range(Top.members)
      /\ \A c \in Range(Top.members) : state[c] = "Resolving" /\ heads[c] = Top.head
  BY TopFrame DEF Inv, GroupsFit
<1>5. \A c \in Range(Top.members) : walk[c] \in Walk /\ current[c] \in FunctionResult
  BY <1>2, <1>4 DEF Inv, SlotsFit
<1>6. PICK n \in Nat : n = Len(ctl) /\ n \in 1..n /\ FixpointAt(ctl, n, fixpoint)
                       /\ ctl[n].kind = "resolve" /\ ctl[n] = Top
  BY TopFrame, SeqType DEF FramesFit
<1>7. PICK i \in 1..n :
        /\ ctl[i].kind = "resolve"
        /\ \A j \in (i + 1)..n : ctl[j].kind # "resolve"
        /\ fixpoint # None
        /\ fixpoint.base = ctl[i].base /\ fixpoint.head = ctl[i].head
        /\ fixpoint.read.lowest = NoDepth \/ fixpoint.read.lowest < fixpoint.base
  BY <1>6 DEF FixpointAt
<1>8. i = n
  BY <1>6, <1>7
<1>9. fixpoint \in Fixpoint /\ fixpoint # None /\ fixpoint.read \in Note
  BY <1>7, TopFrame DEF Fixpoint
<1>10. NoteAt(fixpoint.read, Len(stack))
  BY <1>3, <1>6, <1>7, <1>8, <1>9 DEF NoteAt
<1> QED BY <1>1, <1>2, <1>3, <1>4, <1>5, <1>6, <1>7, <1>8, <1>9, <1>10

(* The frames below a resolve_group.                                       *)
LEMMA ResolveBelow ==
  ASSUME Inv, Top.kind = "resolve"
  PROVE  /\ Below \in Seq(Frame) /\ FramesFit(Below, stack, Top.outer) /\ Below # <<>>
         /\ CallersWait(Below) /\ Waits(Below[Len(Below)])
         /\ GroupsFit(state, heads, parked, Below)
         /\ Top.outer \in Fixpoint \cup {None}
         /\ \A i \in DOMAIN Below : Below[i].kind = "resolve" => Below[i].head # Top.head
<1>1. ctl[Len(ctl)].kind = "resolve" /\ ctl[Len(ctl)].kind # "solve"
  BY DEF Top
<1>2. FramesFit(Below, stack, Top.outer)
  BY <1>1, TopFrame, PopResolve DEF Below, Top
<1>3. /\ Below \in Seq(Frame) /\ Len(Below) <= Len(ctl) /\ Len(Below) = Len(ctl) - 1
      /\ \A i \in 1..Len(Below) : SameShape(ctl[i], Below[i]) /\ Below[i] = ctl[i]
      /\ CallersWait(Below) /\ Waits(Below[Len(Below)]) /\ Below # <<>>
  BY <1>1, TopFrame, BelowWaits DEF Below
<1>4. GroupsFit(state, heads, parked, Below)
  BY <1>3, TopFrame, SameGroupsFit DEF Inv
<1>5. Top.outer \in Fixpoint \cup {None}
  BY ResolveOnTop, ResolveFrameType
<1>6. ASSUME NEW i \in DOMAIN Below, Below[i].kind = "resolve"
      PROVE  Below[i].head # Top.head
  <2>1. i \in 1..Len(Below) /\ DOMAIN ctl = 1..Len(ctl)
    BY <1>3, TopFrame, SeqType
  <2>2. i \in DOMAIN ctl /\ i # Len(ctl) /\ Below[i] = ctl[i]
    BY <2>1, <1>3, TopFrame
  <2> QED BY <2>2, <1>1, <1>6, TopFrame DEF Inv, GroupsFit
<1> QED BY <1>2, <1>3, <1>4, <1>5, <1>6

(* The fixpoint stops, and its members are parked.                         *)
LEMMA ParkAllType ==
  ASSUME Inv, MemberOver, NEW head \in Ctx, ParkAll(head), KeepsResolved,
         current' = current, result' = result
  PROVE  /\ heads' \in [Ctx -> Ctx] /\ parked' \in Seq(Ctx)
         /\ state' \in [Ctx -> {"New", "Running", "Parked", "Resolving", "Ready", "Cut"}]
         /\ walk' \in [Ctx -> Walk \cup {None}]
         /\ current' \in [Ctx -> FunctionResult \cup {None}]
         /\ result' \in [Ctx -> FunctionResult \cup {None}]
         /\ \A c \in Ctx : state'[c] = "Running" <=> state[c] = "Running"
         /\ GroupsFit(state', heads', parked', Below)
         /\ SlotsFit(state', heads', walk', current', result')
<1>1. Top.kind = "resolve" /\ Member(Top) \in Ctx
  BY KeptWalk DEF MemberOver, Replays
<1> DEFINE ms == Range(Top.members)
           m == Member(Top)
           w == [walk[m] EXCEPT !.resolved = Top.now]
<1>2. /\ Top.members \in Seq(Ctx) /\ ms \subseteq Ctx /\ Top.head \in ms
      /\ \A c \in ms : /\ state[c] = "Resolving" /\ heads[c] = Top.head
                       /\ walk[c] \in Walk /\ current[c] \in FunctionResult
  BY <1>1, ResolveOnTop
<1>3. walk' = [walk EXCEPT ![m] = w] /\ w \in Walk
  BY <1>1, KeptWalk DEF KeepsResolved, Inv, TypeOK
<1>4. /\ heads' = UnionInto(heads, ms, head)
      /\ state' = [c \in Ctx |-> IF c \in ms THEN "Parked" ELSE state[c]]
      /\ parked' = parked \o Top.members
  BY DEF ParkAll
<1>5. /\ heads \in [Ctx -> Ctx] /\ parked \in Seq(Ctx) /\ walk \in [Ctx -> Walk \cup {None}]
      /\ current \in [Ctx -> FunctionResult \cup {None}]
      /\ result \in [Ctx -> FunctionResult \cup {None}]
      /\ state \in [Ctx -> {"New", "Running", "Parked", "Resolving", "Ready", "Cut"}]
  BY DEF Inv, TypeOK
<1> HIDE DEF ms, w, m
<1>6. heads' \in [Ctx -> Ctx] /\ \A c \in Ctx : heads[c] # Top.head => heads'[c] = heads[c]
  <2>1. heads' \in [Ctx -> Ctx]
    BY <1>4, <1>5, UnionIntoType
  <2> QED BY <2>1, <1>2, <1>4 DEF UnionInto
<1>7. parked' \in Seq(Ctx) /\ Range(parked') = Range(parked) \cup ms
  BY <1>2, <1>4, <1>5, RangeOfConcat DEF ms
<1>8. /\ walk' \in [Ctx -> Walk \cup {None}]
      /\ \A c \in Ctx : walk[c] \in Walk => walk'[c] \in Walk
  BY <1>3, <1>5
<1>9. /\ state' \in [Ctx -> {"New", "Running", "Parked", "Resolving", "Ready", "Cut"}]
      /\ \A c \in ms : state'[c] = "Parked"
      /\ \A c \in Ctx \ ms : state'[c] = state[c]
  BY <1>2, <1>4, <1>5
<1>10. \A c \in Ctx : state'[c] = "Running" <=> state[c] = "Running"
  BY <1>2, <1>9
<1>11. GroupsFit(state', heads', parked', Below)
  <2>1. /\ Below \in Seq(Frame) /\ GroupsFit(state, heads, parked, Below)
        /\ \A i \in DOMAIN Below : Below[i].kind = "resolve" => Below[i].head # Top.head
    BY <1>1, ResolveBelow
  <2>2. ASSUME NEW c \in Range(parked') PROVE state'[c] = "Parked"
    <3>1. CASE c \in ms
      BY <3>1, <1>9
    <3>2. CASE c \notin ms
      <4>1. c \in Range(parked)
        BY <3>2, <1>7
      <4>2. c \in Ctx
        BY <4>1, <1>5, SeqType DEF Range
      <4> QED BY <4>1, <4>2, <3>2, <2>1, <1>9 DEF GroupsFit
    <3> QED BY <3>1, <3>2
  <2>3. ASSUME NEW i \in DOMAIN Below, Below[i].kind = "resolve",
               NEW c \in Range(Below[i].members)
        PROVE  state'[c] = "Resolving" /\ heads'[c] = Below[i].head
    <3>1. c \in Ctx
      BY <2>1, <2>3, MembersIn
    <3>2. state[c] = "Resolving" /\ heads[c] = Below[i].head /\ heads[c] # Top.head
      BY <2>1, <2>3 DEF GroupsFit
    <3>3. c \notin ms
      BY <3>2, <1>2
    <3> QED BY <3>1, <3>2, <3>3, <1>6, <1>9
  <2> QED BY <2>1, <2>2, <2>3 DEF GroupsFit
<1>12. SlotsFit(state', heads', walk', current', result')
  <2> SUFFICES ASSUME NEW c \in Ctx
               PROVE  /\ state'[c] = "Running" => heads'[c] = c
                      /\ state'[c] \in {"Parked", "Resolving"} =>
                            walk'[c] \in Walk /\ current'[c] \in FunctionResult
                      /\ state'[c] \in {"Ready", "Cut"} => result'[c] \in FunctionResult
    BY DEF SlotsFit
  <2>1. CASE c \in ms
    BY <2>1, <1>2, <1>8, <1>9
  <2>2. CASE c \notin ms
    <3>1. state'[c] = state[c] /\ c # Top.head
      BY <2>2, <1>2, <1>9
    <3>2. state[c] = "Running" => heads[c] = c
      BY DEF Inv, SlotsFit
    <3>3. state'[c] = "Running" => heads'[c] = c
      BY <3>1, <3>2, <1>6
    <3> QED BY <3>1, <3>3, <1>8 DEF Inv, SlotsFit
  <2> QED BY <2>1, <2>2
<1> QED BY <1>5, <1>6, <1>7, <1>8, <1>9, <1>10, <1>11, <1>12

(* Running slots and stack agree when neither changes.                     *)
LEMMA StackKept ==
  ASSUME Inv, stack' = stack, depth' = depth,
         \A c \in Ctx : state'[c] = "Running" <=> state[c] = "Running"
  PROVE  StackMatches'
  BY DEF Inv, StackMatches

(* keep_cut leaves every note a note.                                      *)
LEMMA KeepCutType ==
  ASSUME NEW rd \in [Ctx -> Note], NEW ms, NEW cut \in Cut \cup {None}
  PROVE  KeepCut(rd, ms, cut) \in [Ctx -> Note]
<1>1. \A c \in Ctx : Noted(rd[c], IsCut(cut)) \in Note
  BY IsCutType, NotedType
<1> QED BY <1>1 DEF KeepCut

(* A fixpoint that read a walk below it parks its members and preserves    *)
(* Inv.                                                                    *)
LEMMA MergedStep ==
  ASSUME Inv, Merged
  PROVE  Inv'
<1> DEFINE r == fixpoint.read
           head == stack[r.lowest + 1]
           rd == KeepCut(read, Range(Top.members), r.cut)
<1>1. /\ MemberOver /\ r.lowest # NoDepth /\ KeepsResolved /\ ParkAll(head)
      /\ Return(Below, rd, Top.outer, stack, DependsOn(r.lowest), None)
      /\ UNCHANGED <<prog, depth, result, current, stack, counters, expired>>
  BY DEF Merged
<1>2. Top.kind = "resolve"
  BY <1>1 DEF MemberOver, Replays
<1>3. r \in Note /\ r.lowest \in Nat /\ r.lowest < Len(stack) /\ r.cut \in Cut \cup {None}
  BY <1>1, <1>2, ResolveOnTop DEF NoteAt, Note
<1>4. head \in Ctx
  <2>1. r.lowest + 1 \in 1..Len(stack)
    BY <1>3, TopFrame
  <2> QED BY <2>1, TopFrame, SeqType
<1>5. NoteAt(DependsOn(r.lowest), Len(stack))
  BY <1>3, TopFrame, DependsOnType
<1>6. rd \in [Ctx -> Note]
  BY <1>3, TopFrame, KeepCutType
<1> HIDE DEF head, rd, r
<1>7. /\ heads' \in [Ctx -> Ctx] /\ parked' \in Seq(Ctx)
      /\ state' \in [Ctx -> {"New", "Running", "Parked", "Resolving", "Ready", "Cut"}]
      /\ walk' \in [Ctx -> Walk \cup {None}]
      /\ current' \in [Ctx -> FunctionResult \cup {None}]
      /\ result' \in [Ctx -> FunctionResult \cup {None}]
      /\ \A c \in Ctx : state'[c] = "Running" <=> state[c] = "Running"
      /\ GroupsFit(state', heads', parked', Below)
      /\ SlotsFit(state', heads', walk', current', result')
  BY <1>1, <1>4, ParkAllType
<1>8. StackMatches'
  BY <1>1, <1>7, StackKept
<1>9. /\ Below \in Seq(Frame) /\ FramesFit(Below, stack, Top.outer)
      /\ CallersWait(Below) /\ Waits(Below[Len(Below)])
      /\ Top.outer \in Fixpoint \cup {None}
  BY <1>2, ResolveBelow
<1>10. UNCHANGED <<prog, depth, counters, expired>> /\ stack' = stack
  BY <1>1
<1> QED BY <1>1, <1>5, <1>6, <1>7, <1>8, <1>9, <1>10, TopFrame, AfterAnswer

(* A fixpoint that read another group's member parks its members and       *)
(* preserves Inv.                                                          *)
LEMMA JoinedStep ==
  ASSUME Inv, Joined
  PROVE  Inv'
<1> DEFINE r == fixpoint.read
           m == ReadGroupMember(Top.head, state', heads', current, Top.outer, stack)
           rd == KeepCut(read, Range(Top.members), r.cut)
<1>1. /\ MemberOver /\ r.joins # None /\ KeepsResolved /\ ParkAll(r.joins)
      /\ Return(Below, rd, Top.outer, stack, m.note, m.got)
      /\ UNCHANGED <<prog, depth, result, current, stack, counters, expired>>
  BY DEF Joined
<1>2. Top.kind = "resolve"
  BY <1>1 DEF MemberOver, Replays
<1>3. r \in Note /\ r.joins \in Ctx /\ r.cut \in Cut \cup {None}
  BY <1>1, <1>2, ResolveOnTop DEF NoteAt, Note
<1>4. rd \in [Ctx -> Note]
  BY <1>3, TopFrame, KeepCutType
<1>5. /\ heads' \in [Ctx -> Ctx] /\ parked' \in Seq(Ctx)
      /\ state' \in [Ctx -> {"New", "Running", "Parked", "Resolving", "Ready", "Cut"}]
      /\ walk' \in [Ctx -> Walk \cup {None}]
      /\ current' \in [Ctx -> FunctionResult \cup {None}]
      /\ result' \in [Ctx -> FunctionResult \cup {None}]
      /\ \A c \in Ctx : state'[c] = "Running" <=> state[c] = "Running"
      /\ GroupsFit(state', heads', parked', Below)
      /\ SlotsFit(state', heads', walk', current', result')
  BY <1>1, <1>3, ParkAllType
<1>6. NoteAt(m.note, Len(stack)) /\ m.got \in (SUBSET V) \cup {None}
  <2>1. Top.head \in Ctx /\ current[Top.head] \in FunctionResult
    BY <1>2, ResolveOnTop
  <2>2. state'[heads'[Top.head]] = "Running" =>
           depth[heads'[Top.head]] \in Nat /\ depth[heads'[Top.head]] < Len(stack)
    <3>1. heads'[Top.head] \in Ctx
      BY <2>1, <1>5
    <3> QED BY <3>1, <1>5, RunningDepth
  <2> QED BY <2>1, <2>2, <1>5, TopFrame, GroupReadType
<1> HIDE DEF m, rd, r
<1>8. StackMatches'
  BY <1>1, <1>5, StackKept
<1>9. /\ Below \in Seq(Frame) /\ FramesFit(Below, stack, Top.outer)
      /\ CallersWait(Below) /\ Waits(Below[Len(Below)])
      /\ Top.outer \in Fixpoint \cup {None}
  BY <1>2, ResolveBelow
<1>10. UNCHANGED <<prog, depth, counters, expired>> /\ stack' = stack
  BY <1>1
<1> QED BY <1>1, <1>4, <1>5, <1>6, <1>8, <1>9, <1>10, TopFrame, AfterAnswer

(* Who joined the group during the round, and who is left parked.          *)
LEMMA JoinersType ==
  ASSUME Inv, Top.kind = "resolve"
  PROVE  /\ Joiners \in Seq(Ctx) /\ Left(parked, heads, Top.head) \in Seq(Ctx)
         /\ Range(Joiners) \subseteq Ctx
         /\ \A c \in Range(Joiners) : state[c] = "Parked" /\ heads[c] = Top.head
                                      /\ walk[c] \in Walk
         /\ \A c \in Range(Left(parked, heads, Top.head)) :
               c \in Ctx /\ state[c] = "Parked" /\ heads[c] # Top.head
<1>1. parked \in Seq(Ctx) /\ heads \in [Ctx -> Ctx] /\ Top.head \in Ctx
  BY ResolveOnTop DEF Inv, TypeOK
<1>2. \A c \in Range(parked) : c \in Ctx /\ state[c] = "Parked"
  BY <1>1, SeqType DEF Inv, GroupsFit, Range
<1>3. \A c \in Range(parked) : walk[c] \in Walk
  BY <1>2 DEF Inv, SlotsFit
<1>4. /\ Joiners \in Seq(Ctx) /\ Left(parked, heads, Top.head) \in Seq(Ctx)
      /\ Range(Joiners) = {c \in Range(parked) : heads[c] = Top.head}
      /\ Range(Left(parked, heads, Top.head)) = {c \in Range(parked) : heads[c] # Top.head}
  BY ZenonT(30), <1>1, TakenLeft DEF Joiners
<1> QED BY <1>2, <1>3, <1>4

(* Overwriting the last element is popping and pushing.                    *)
LEMMA SetIsAppend ==
  ASSUME NEW T, NEW s \in Seq(T), s # <<>>, NEW e \in T
  PROVE  [s EXCEPT ![Len(s)] = e] = Append(SubSeq(s, 1, Len(s) - 1), e)
<1>1. PICK n \in Nat : n = Len(s) - 1 /\ Len(s) = n + 1
  <2>1. Len(s) \in Nat /\ Len(s) >= 1
    BY SeqType
  <2> QED BY <2>1
<1>2. PICK t \in Seq(T) : t = SubSeq(s, 1, Len(s) - 1)
  BY FrontType
<1>3. Len(t) = n /\ \A i \in 1..n : t[i] = s[i]
  BY <1>1, <1>2, FrontType
<1>4. PICK u \in Seq(T) : u = Append(t, e)
  BY AppendType
<1>5. DOMAIN u = 1..(n + 1) /\ Len(u) = n + 1 /\ u[n + 1] = e /\ \A i \in 1..n : u[i] = t[i]
  BY <1>3, <1>4, AppendType
<1>6. PICK v \in Seq(T) : v = [s EXCEPT ![Len(s)] = e]
  BY ExceptInSeq
<1>7. DOMAIN s = 1..(n + 1)
  BY <1>1, SeqType
<1>8. DOMAIN v = 1..(n + 1) /\ v[n + 1] = e /\ \A i \in 1..n : v[i] = s[i]
  BY <1>1, <1>6, <1>7
<1>9. Len(v) = n + 1
  BY <1>1, <1>8, SeqType
<1>10. \A i \in 1..(n + 1) : u[i] = v[i]
  <2> TAKE i \in 1..(n + 1)
  <2>1. i \in 1..n \/ i = n + 1
    OBVIOUS
  <2> QED BY <2>1, <1>3, <1>5, <1>8
<1>11. u = v
  BY <1>5, <1>9, <1>10
<1> QED BY <1>2, <1>4, <1>6, <1>11

(* Starting another round, with who joined, preserves Inv.                 *)
LEMMA NextRoundStep ==
  ASSUME Inv, NextRound
  PROVE  Inv'
<1> DEFINE ms == Top.members \o Joiners
           new == Range(Joiners)
           now == walk[ms[1]].resolved
           fr == [Top EXCEPT !.members = ms, !.round = @ + 1, !.changed = FALSE,
                             !.at = 1, !.pc = 1, !.now = now]
<1>1. /\ RoundOver /\ parked' = Left(parked, heads, Top.head)
      /\ FromRoundZero(new, walk) /\ SetTop(fr)
      /\ UNCHANGED <<prog, depth, result, read, heads, stack, fixpoint, counters, expired>>
  BY DEF NextRound
<1>2. Top.kind = "resolve"
  BY <1>1 DEF RoundOver
<1>3. /\ Top \in ResolveFrame /\ Top.base = Len(stack) /\ Height(Top) = Len(stack)
      /\ Top.head \in Ctx /\ Top.members \in Seq(Ctx) /\ Range(Top.members) \subseteq Ctx
      /\ Top.head \in Range(Top.members)
      /\ \A c \in Range(Top.members) :
            /\ state[c] = "Resolving" /\ heads[c] = Top.head
            /\ walk[c] \in Walk /\ current[c] \in FunctionResult
  BY <1>2, ResolveOnTop
<1>4. /\ fixpoint \in Fixpoint /\ fixpoint # None
      /\ fixpoint.head = Top.head /\ fixpoint.base = Len(stack)
      /\ fixpoint.read.lowest = NoDepth \/ fixpoint.read.lowest < fixpoint.base
  BY <1>2, ResolveOnTop DEF NoteAt
<1>5. /\ Joiners \in Seq(Ctx) /\ parked' \in Seq(Ctx) /\ new \subseteq Ctx
      /\ \A c \in new : state[c] = "Parked" /\ heads[c] = Top.head /\ walk[c] \in Walk
      /\ \A c \in Range(parked') : c \in Ctx /\ state[c] = "Parked" /\ heads[c] # Top.head
  BY <1>1, <1>2, JoinersType
<1>6. ms \in Seq(Ctx) /\ Range(ms) = Range(Top.members) \cup new
  BY <1>3, <1>5, RangeOfConcat
<1> HIDE DEF ms, new
<1>7. /\ current' \in [Ctx -> FunctionResult \cup {None}]
      /\ walk' \in [Ctx -> Walk \cup {None}]
      /\ state' \in [Ctx -> {"New", "Running", "Parked", "Resolving", "Ready", "Cut"}]
      /\ \A c \in new : /\ state'[c] = "Resolving"
                        /\ current'[c] \in FunctionResult /\ walk'[c] \in Walk
      /\ \A c \in Ctx \ new : /\ state'[c] = state[c]
                              /\ current'[c] = current[c] /\ walk'[c] = walk[c]
  BY <1>1, <1>5, FromRoundZeroType
<1>8. now \in Seq(SUBSET V)
  <2>1. DOMAIN ms = 1..Len(ms) /\ Len(ms) \in Nat
    BY <1>6, SeqType
  <2>2. PICK i \in DOMAIN ms : ms[i] = Top.head
    <3>1. Top.head \in Range(ms)
      BY <1>3, <1>6
    <3> QED BY <3>1 DEF Range
  <2>3. 1 \in DOMAIN ms
    BY <2>1, <2>2
  <2>4. ms[1] \in Range(ms)
    BY <2>3 DEF Range
  <2>5. ms[1] \in Range(Top.members) \cup new
    BY <2>4, <1>6
  <2>6. walk[ms[1]] \in Walk
    BY <2>5, <1>3, <1>5
  <2> QED BY <2>6, WalkFields
<1> HIDE DEF now
<1>9. fr \in ResolveFrame
  <2>1. Top.round + 1 \in Nat /\ 1 \in Nat \ {0}
    BY <1>3, ResolveFrameType
  <2> QED BY <1>3, <1>6, <1>8, <2>1 DEF ResolveFrame
<1>10. /\ fr \in Frame /\ fr.kind = "resolve" /\ fr.base = Len(stack) /\ Height(fr) = Len(stack)
       /\ fr.head = Top.head /\ fr.outer = Top.outer /\ fr.members = ms
  BY <1>3, <1>9 DEF Frame, Height, ResolveFrame
<1> HIDE DEF fr
<1>11. /\ Below \in Seq(Frame) /\ FramesFit(Below, stack, Top.outer) /\ Below # <<>>
       /\ CallersWait(Below) /\ Waits(Below[Len(Below)])
       /\ GroupsFit(state, heads, parked, Below)
       /\ \A i \in DOMAIN Below : Below[i].kind = "resolve" => Below[i].head # Top.head
  BY <1>2, ResolveBelow
<1>12. ctl' = Append(Below, fr)
  BY <1>1, <1>10, TopFrame, SetIsAppend DEF SetTop, Below
<1>13. ctl' \in Seq(Frame) /\ FramesFit(ctl', stack, fixpoint)
  <2>1. Len(stack) <= Len(stack) /\ \A i \in 1..Len(stack) : stack[i] = stack[i]
    BY TopFrame
  <2> QED BY <1>4, <1>10, <1>11, <1>12, <2>1, TopFrame, PushFrames
<1>14. CallersWait(ctl')
  BY <1>10, <1>11, <1>12, PushCallers
<1>15. GroupsFit(state', heads', parked', ctl')
  <2>1. \A c \in Range(parked') : state'[c] = "Parked"
    BY <1>5, <1>7
  <2>2. ASSUME NEW i \in DOMAIN Below, Below[i].kind = "resolve",
               NEW c \in Range(Below[i].members)
        PROVE  state'[c] = "Resolving" /\ heads'[c] = Below[i].head
    <3>1. c \in Ctx
      BY <1>11, <2>2, MembersIn
    <3>2. state[c] = "Resolving" /\ heads[c] = Below[i].head
      BY <1>11, <2>2 DEF GroupsFit
    <3>3. c \notin new
      BY <3>2, <1>5
    <3> QED BY <3>1, <3>2, <3>3, <1>1, <1>7
  <2>3. GroupsFit(state', heads', parked', Below)
    BY <2>1, <2>2, <1>11 DEF GroupsFit
  <2>4. ASSUME NEW c \in Range(fr.members)
        PROVE  state'[c] = "Resolving" /\ heads'[c] = fr.head
    <3>1. c \in Range(Top.members) \cup new
      BY <1>6, <1>10
    <3>2. CASE c \in new
      BY <3>2, <1>1, <1>5, <1>7, <1>10
    <3>3. CASE c \notin new
      BY <3>1, <3>3, <1>1, <1>3, <1>7, <1>10
    <3> QED BY <3>2, <3>3
  <2>5. fr.head \in Range(fr.members)
    BY <1>3, <1>6, <1>10
  <2>6. \A i \in DOMAIN Below : Below[i].kind = "resolve" => Below[i].head # fr.head
    BY <1>10, <1>11
  <2> QED BY <1>9, <1>11, <1>12, <2>3, <2>4, <2>5, <2>6, PushResolveGroups
<1>16. SlotsFit(state', heads', walk', current', result')
  <2> SUFFICES ASSUME NEW c \in Ctx
               PROVE  /\ state'[c] = "Running" => heads'[c] = c
                      /\ state'[c] \in {"Parked", "Resolving"} =>
                            walk'[c] \in Walk /\ current'[c] \in FunctionResult
                      /\ state'[c] \in {"Ready", "Cut"} => result'[c] \in FunctionResult
    BY DEF SlotsFit
  <2>1. CASE c \in new
    BY <2>1, <1>7
  <2>2. CASE c \notin new
    BY <2>2, <1>1, <1>7 DEF Inv, SlotsFit
  <2> QED BY <2>1, <2>2
<1>17. StackMatches'
  <2>1. \A c \in Ctx : state'[c] = "Running" <=> state[c] = "Running"
    <3> TAKE c \in Ctx
    <3>1. c \in new \/ c \in Ctx \ new
      OBVIOUS
    <3> QED BY <3>1, <1>5, <1>7
  <2> QED BY <2>1, <1>1, StackKept
<1>18. TypeOK'
  BY <1>1, <1>5, <1>7, <1>13 DEF Inv, TypeOK, counters
<1> QED BY <1>1, <1>13, <1>14, <1>15, <1>16, <1>17, <1>18 DEF Inv

(* The cut a group settles with.                                           *)
LEMMA FirstCutType ==
  ASSUME NEW ms \in Seq(Ctx), read \in [Ctx -> Note]
  PROVE  FirstCut(ms) \in Cut \cup {None}
<1> DEFINE cuts == {i \in DOMAIN ms : read[ms[i]].cut # None}
           first == CHOOSE i \in cuts : \A j \in cuts : i <= j
<1>1. DOMAIN ms = 1..Len(ms) /\ Len(ms) \in Nat /\ \A i \in 1..Len(ms) : ms[i] \in Ctx
  BY SeqType
<1>2. CASE cuts = {}
  BY <1>2 DEF FirstCut
<1>3. CASE cuts # {}
  <2>1. cuts \in SUBSET Nat
    BY <1>1
  <2> HIDE DEF cuts
  <2>2. \E i \in cuts : \A j \in cuts : i <= j
    BY <1>3, <2>1, Smallest
  <2>3. first \in cuts
    BY <2>2
  <2> HIDE DEF first
  <2>4. first \in 1..Len(ms)
    BY <2>3, <1>1 DEF cuts
  <2>5. read[ms[first]] \in Note
    BY <2>4, <1>1
  <2>6. read[ms[first]].cut \in Cut \cup {None}
    BY <2>5 DEF Note
  <2> QED BY <1>3, <2>6 DEF FirstCut, cuts, first
<1> QED BY <1>2, <1>3

(* Storing a group's summaries preserves Inv.                              *)
LEMMA SettleStep ==
  ASSUME Inv, Settle
  PROVE  Inv'
<1> DEFINE seq == Top.members \o Joiners
           ms == Range(seq)
           new == Range(Joiners)
           cut == IF fixpoint.read.cut # None THEN fixpoint.read.cut ELSE FirstCut(seq)
           last(c) == IF c \in new THEN RoundZero(walk[c]) ELSE current[c]
           res(c) == [last(c) EXCEPT !.capped = Capped(Top), !.cut = cut]
           rd == [c \in Ctx |-> IF c \in ms THEN [read[c] EXCEPT !.cut = cut] ELSE read[c]]
<1>1. /\ RoundOver /\ parked' = Left(parked, heads, Top.head)
      /\ result' = [c \in Ctx |-> IF c \in ms THEN res(c) ELSE result[c]]
      /\ current' = [c \in Ctx |-> IF c \in ms THEN None ELSE current[c]]
      /\ walk' = [c \in Ctx |-> IF c \in ms THEN None ELSE walk[c]]
      /\ state' = [c \in Ctx |-> IF c \notin ms THEN state[c]
                                 ELSE IF cut = None THEN "Ready" ELSE "Cut"]
      /\ Return(Below, rd, Top.outer, stack, IsCut(cut), res(Top.head).returns)
      /\ UNCHANGED <<prog, depth, heads, stack, counters, expired>>
  BY DEF Settle
<1>2. Top.kind = "resolve"
  BY <1>1 DEF RoundOver
<1>3. /\ Top \in ResolveFrame /\ Top.head \in Ctx
      /\ Top.members \in Seq(Ctx) /\ Range(Top.members) \subseteq Ctx
      /\ Top.head \in Range(Top.members)
      /\ \A c \in Range(Top.members) :
            state[c] = "Resolving" /\ heads[c] = Top.head /\ current[c] \in FunctionResult
      /\ fixpoint.read \in Note
  BY <1>2, ResolveOnTop DEF NoteAt
<1>4. /\ Joiners \in Seq(Ctx) /\ parked' \in Seq(Ctx) /\ new \subseteq Ctx
      /\ \A c \in new : state[c] = "Parked" /\ heads[c] = Top.head /\ walk[c] \in Walk
      /\ \A c \in Range(parked') : c \in Ctx /\ state[c] = "Parked" /\ heads[c] # Top.head
  BY <1>1, <1>2, JoinersType
<1>5. seq \in Seq(Ctx) /\ ms = Range(Top.members) \cup new
  BY <1>3, <1>4, RangeOfConcat
<1>6. cut \in Cut \cup {None}
  <2>1. fixpoint.read.cut \in Cut \cup {None}
    BY <1>3 DEF Note
  <2>2. FirstCut(seq) \in Cut \cup {None}
    BY <1>5, TopFrame, FirstCutType
  <2> HIDE DEF seq
  <2> QED BY <2>1, <2>2
<1> HIDE DEF cut, ms, new, seq
<1>7. ASSUME NEW c \in ms PROVE res(c) \in FunctionResult
  <2>1. last(c) \in FunctionResult
    <3>1. CASE c \in new
      BY <3>1, <1>4, RoundZeroType
    <3>2. CASE c \notin new
      BY <3>2, <1>3, <1>5
    <3> QED BY <3>1, <3>2
  <2>2. Capped(Top) \in BOOLEAN
    BY DEF Capped
  <2> HIDE DEF last
  <2> QED BY <2>1, <2>2, <1>6 DEF FunctionResult
<1> HIDE DEF res
<1>8. ms \subseteq Ctx /\ Top.head \in ms
      /\ \A c \in ms : state[c] \in {"Parked", "Resolving"} /\ heads[c] = Top.head
  BY <1>3, <1>4, <1>5
<1>9. /\ result \in [Ctx -> FunctionResult \cup {None}]
      /\ current \in [Ctx -> FunctionResult \cup {None}]
      /\ walk \in [Ctx -> Walk \cup {None}]
      /\ state \in [Ctx -> {"New", "Running", "Parked", "Resolving", "Ready", "Cut"}]
      /\ heads \in [Ctx -> Ctx]
  BY DEF Inv, TypeOK
<1>10. /\ result' \in [Ctx -> FunctionResult \cup {None}]
       /\ \A c \in ms : result'[c] \in FunctionResult
       /\ \A c \in Ctx \ ms : result'[c] = result[c]
  BY <1>1, <1>7, <1>8, <1>9
<1>11. /\ current' \in [Ctx -> FunctionResult \cup {None}] /\ walk' \in [Ctx -> Walk \cup {None}]
       /\ \A c \in Ctx \ ms : current'[c] = current[c] /\ walk'[c] = walk[c]
  BY <1>1, <1>9
<1>12. /\ state' \in [Ctx -> {"New", "Running", "Parked", "Resolving", "Ready", "Cut"}]
       /\ \A c \in ms : state'[c] \in {"Ready", "Cut"}
       /\ \A c \in Ctx \ ms : state'[c] = state[c]
  BY <1>1, <1>8, <1>9
<1>13. rd \in [Ctx -> Note]
  <2>1. \A c \in Ctx : [read[c] EXCEPT !.cut = cut] \in Note
    BY <1>6, TopFrame DEF Note
  <2> QED BY <2>1, TopFrame
<1>14. NoteAt(IsCut(cut), Len(stack)) /\ res(Top.head).returns \in (SUBSET V) \cup {None}
  BY <1>6, <1>7, <1>8, TopFrame, IsCutType, ReturnsType DEF NoteAt
<1> HIDE DEF rd
<1>15. /\ Below \in Seq(Frame) /\ FramesFit(Below, stack, Top.outer)
       /\ CallersWait(Below) /\ Waits(Below[Len(Below)])
       /\ GroupsFit(state, heads, parked, Below)
       /\ Top.outer \in Fixpoint \cup {None}
       /\ \A i \in DOMAIN Below : Below[i].kind = "resolve" => Below[i].head # Top.head
  BY <1>2, ResolveBelow
<1>16. GroupsFit(state', heads', parked', Below)
  <2>1. ASSUME NEW c \in Range(parked') PROVE state'[c] = "Parked"
    <3>1. c \in Ctx /\ state[c] = "Parked" /\ c \notin ms
      BY <1>4, <1>8
    <3> QED BY <3>1, <1>12
  <2>2. ASSUME NEW i \in DOMAIN Below, Below[i].kind = "resolve",
               NEW c \in Range(Below[i].members)
        PROVE  state'[c] = "Resolving" /\ heads'[c] = Below[i].head
    <3>1. c \in Ctx
      BY <1>15, <2>2, MembersIn
    <3>2. state[c] = "Resolving" /\ heads[c] = Below[i].head /\ heads[c] # Top.head
      BY <1>15, <2>2 DEF GroupsFit
    <3>3. c \notin ms
      BY <3>2, <1>8
    <3> QED BY <3>1, <3>2, <3>3, <1>1, <1>12
  <2> QED BY <2>1, <2>2, <1>15 DEF GroupsFit
<1>17. SlotsFit(state', heads', walk', current', result')
  <2> SUFFICES ASSUME NEW c \in Ctx
               PROVE  /\ state'[c] = "Running" => heads'[c] = c
                      /\ state'[c] \in {"Parked", "Resolving"} =>
                            walk'[c] \in Walk /\ current'[c] \in FunctionResult
                      /\ state'[c] \in {"Ready", "Cut"} => result'[c] \in FunctionResult
    BY DEF SlotsFit
  <2>1. CASE c \in ms
    BY <2>1, <1>10, <1>12
  <2>2. CASE c \notin ms
    BY <2>2, <1>1, <1>10, <1>11, <1>12 DEF Inv, SlotsFit
  <2> QED BY <2>1, <2>2
<1>18. StackMatches'
  <2>1. \A c \in Ctx : state'[c] = "Running" <=> state[c] = "Running"
    <3> TAKE c \in Ctx
    <3>1. c \in ms \/ c \in Ctx \ ms
      OBVIOUS
    <3> QED BY <3>1, <1>8, <1>12
  <2> QED BY <2>1, <1>1, StackKept
<1>19. heads' \in [Ctx -> Ctx]
  BY <1>1, <1>9
<1>20. UNCHANGED <<prog, depth, counters, expired>> /\ stack' = stack
  BY <1>1
<1>21. Return(Below, rd, Top.outer, stack, IsCut(cut), res(Top.head).returns)
  BY <1>1
<1> QED BY <1>4, <1>10, <1>11, <1>12, <1>13, <1>14, <1>15, <1>16, <1>17, <1>18, <1>19, <1>20,
           <1>21, TopFrame, AfterAnswer

-----------------------------------------------------------------------------
(* The invariant.                                                          *)

(* solve starts in a state of Inv.                                         *)
LEMMA InitInv == Init => Inv
<1> SUFFICES ASSUME Init PROVE Inv
  OBVIOUS
<1>1. PICK f \in Entries :
         ctl = <<[kind |-> "solve", base |-> 0, ctx |-> Key(f, {}), answered |-> FALSE]>>
  BY DEF Init
<1> DEFINE fr == [kind |-> "solve", base |-> 0, ctx |-> Key(f, {}), answered |-> FALSE]
<1>2. Key(f, {}) \in Ctx
  BY ProgramAssumption, KeyType
<1>3. fr \in SolveFrame
  BY <1>2 DEF SolveFrame
<1>4. fr \in Frame /\ fr.kind = "solve" /\ Height(fr) = 0
  BY <1>3 DEF Frame, Height
<1> HIDE DEF fr
<1>5. ctl = <<fr>>
  BY <1>1 DEF fr
<1>6. ctl \in Seq(Frame) /\ Len(ctl) = 1 /\ DOMAIN ctl = 1..1 /\ ctl[1] = fr /\ ctl # <<>>
  BY <1>4, <1>5
<1>7. /\ prog \in Programs
      /\ state = [c \in Ctx |-> "New"] /\ depth = [c \in Ctx |-> 0]
      /\ result = [c \in Ctx |-> None] /\ current = [c \in Ctx |-> None]
      /\ read = [c \in Ctx |-> Nothing] /\ walk = [c \in Ctx |-> None]
      /\ heads = [c \in Ctx |-> c] /\ parked = <<>> /\ stack = <<>> /\ fixpoint = None
      /\ perFunc = [g \in Func |-> 0] /\ walks = 0 /\ expired = FALSE
  BY DEF Init
<1>8. TypeOK
  <2>1. /\ state \in [Ctx -> {"New", "Running", "Parked", "Resolving", "Ready", "Cut"}]
        /\ depth \in [Ctx -> Nat] /\ heads \in [Ctx -> Ctx]
    BY <1>7
  <2>2. /\ result \in [Ctx -> FunctionResult \cup {None}]
        /\ current \in [Ctx -> FunctionResult \cup {None}]
        /\ walk \in [Ctx -> Walk \cup {None}]
    BY <1>7
  <2>3. read \in [Ctx -> Note]
    BY <1>7, NothingType
  <2>4. parked \in Seq(Ctx) /\ stack \in Seq(Ctx) /\ fixpoint \in Fixpoint \cup {None}
    BY <1>7
  <2>5. perFunc \in [Func -> Nat] /\ walks \in Nat /\ expired \in BOOLEAN
    BY <1>7
  <2> QED BY <1>6, <1>7, <2>1, <2>2, <2>3, <2>4, <2>5 DEF TypeOK
<1>9. Range(stack) = {} /\ Range(parked) = {} /\ DOMAIN stack = {} /\ Len(stack) = 0
  BY <1>7 DEF Range
<1>10. StackMatches
  BY <1>7, <1>9 DEF StackMatches
<1>11. FramesFit(ctl, stack, fixpoint)
  BY <1>4, <1>6, <1>7, <1>9 DEF FramesFit, FixpointAt
<1>12. CallersWait(ctl)
  BY <1>6 DEF CallersWait
<1>13. GroupsFit(state, heads, parked, ctl)
  BY <1>4, <1>6, <1>9 DEF GroupsFit
<1>14. SlotsFit(state, heads, walk, current, result)
  BY <1>7 DEF SlotsFit
<1> QED BY <1>8, <1>10, <1>11, <1>12, <1>13, <1>14 DEF Inv

(* Inv looks at nothing of the clock but that it is a boolean.             *)
LEMMA UnchangedInv ==
  ASSUME Inv, UNCHANGED <<prog, slots, heads, parked, stack, fixpoint, counters, ctl>>,
         expired' \in BOOLEAN
  PROVE  Inv'
<1>1. /\ TypeOK' /\ StackMatches' /\ FramesFit(ctl, stack, fixpoint)' /\ CallersWait(ctl)'
      /\ GroupsFit(state, heads, parked, ctl)'
      /\ SlotsFit(state, heads, walk, current, result)'
  BY DEF Inv, TypeOK, StackMatches, slots, counters
<1> QED BY <1>1 DEF Inv

(* Every step of the solver, and of the clock, preserves Inv.              *)
LEMMA NextInv == Inv /\ [Next]_vars => Inv'
<1> SUFFICES ASSUME Inv, [Next]_vars PROVE Inv'
  OBVIOUS
<1>1. CASE Get
  BY <1>1, GetReadyStep, GetRunningStep, GetGroupMemberStep, GetCutStep, GetWalkStep DEF Get
<1>2. CASE WalkStep
  BY <1>2, DeferCallStep, StartCallStep, FinishCallStep, ParkInCycleStep, ParkInGroupStep,
     FinishAloneStep DEF WalkStep
<1>3. CASE FixpointStep
  BY <1>3, ResolveGroupStep, ReplayCallStep, ReplayDoneStep, NextMemberStep, MergedStep,
     JoinedStep, NextRoundStep, SettleStep DEF FixpointStep
<1>4. CASE DeadlinePasses
  BY <1>4, UnchangedInv DEF DeadlinePasses
<1>5. CASE UNCHANGED vars
  <2>1. expired' \in BOOLEAN
    BY <1>5 DEF vars, Inv, TypeOK
  <2> QED BY <1>5, <2>1, UnchangedInv DEF vars
<1> QED BY <1>1, <1>2, <1>3, <1>4, <1>5 DEF Next, Thread, Finished

(* The call stack, the solver's stack, the slots, the parked list and the  *)
(* fixpoints of solver.rs fit together in every state of every run.        *)
THEOREM Invariance == Spec => []Inv
<1>1. Init => Inv
  BY InitInv
<1>2. Inv /\ [Next]_vars => Inv'
  BY NextInv
<1> QED BY <1>1, <1>2, PTL DEF Spec

(* Every variable keeps its type.  None of the `expect`s and indexings of  *)
(* solver.rs and defer.rs that the types stand for can fail: a replayed    *)
(* member has its walk, an operation's value its place, `lowest` a context *)
(* on the stack.                                                           *)
THEOREM TypeCorrect == Spec => []TypeOK
<1>1. Inv => TypeOK
  BY DEF Inv
<1> QED BY <1>1, Invariance, PTL

(* A slot says Running(d) exactly while its walk is at place d of          *)
(* solver.stack.                                                           *)
THEOREM RunningIsOnStack == Spec => []StackMatches
<1>1. Inv => StackMatches
  BY DEF Inv
<1> QED BY <1>1, Invariance, PTL

(* In a state of Inv the top of solver.stack and the fixpoint are those    *)
(* of the frame that asks.                                                 *)
LEMMA InvReader == Inv => ReaderIsTheAsker
<1> SUFFICES ASSUME Inv PROVE ReaderIsTheAsker
  OBVIOUS
<1>1. CASE Top.kind = "resolve"
  BY <1>1, ResolveOnTop DEF ReaderIsTheAsker, ReaderIsFixpoint
<1>2. CASE Top.kind = "walk"
  <2>1. stack # <<>> /\ stack[Len(stack)] = Top.ctx /\ Top.base = Len(stack) - 1
    BY <1>2, TopFrame, PopWalk DEF Top
  <2>2. ~ReaderIsFixpoint(fixpoint, stack)
    <3> SUFFICES ASSUME fixpoint # None PROVE fixpoint.base # Len(stack)
      BY DEF ReaderIsFixpoint
    <3>1. PICK i \in 1..Len(ctl) : ctl[i].kind = "resolve" /\ fixpoint.base = ctl[i].base
      BY TopFrame DEF FramesFit, FixpointAt
    <3>2. i # Len(ctl)
      BY <3>1, <1>2, TopFrame
    <3>3. i \in DOMAIN ctl /\ i < Len(ctl) /\ ctl[i] \in Frame
      BY <3>1, <3>2, TopFrame, SeqType
    <3>4. Height(ctl[i]) <= Top.base
      BY <3>3, TopFrame DEF FramesFit
    <3>5. Height(ctl[i]) = ctl[i].base
      BY <3>1, <3>3, HeightType
    <3> QED BY <3>1, <3>4, <3>5, <2>1, TopFrame
  <2> QED BY <1>2, <2>1, <2>2 DEF ReaderIsTheAsker
<1>3. CASE Top.kind = "solve"
  <2>1. Len(ctl) = 1
    BY <1>3, TopFrame DEF FramesFit
  <2>2. FixpointAt(ctl, 1, fixpoint) /\ ctl[1].kind = "solve"
    BY <1>3, <2>1, TopFrame DEF FramesFit
  <2>3. fixpoint = None
    BY <2>2 DEF FixpointAt
  <2> QED BY <1>3, <2>3 DEF ReaderIsTheAsker, ReaderIsFixpoint
<1> QED BY <1>1, <1>2, <1>3, TopFrame, FrameType

(* reader_depends_on, reader_joins and reader_is_cut tell the walk or the  *)
(* fixpoint that asked, and no other, however walks and fixpoints nest.    *)
THEOREM ReaderIsRight == Spec => []ReaderIsTheAsker
<1>1. Inv => ReaderIsTheAsker
  BY InvReader
<1> QED BY <1>1, Invariance, PTL

-----------------------------------------------------------------------------
(* Finished summaries.                                                     *)

StaysReady(c) ==
    state[c] = "Ready" => state'[c] = "Ready" /\ result'[c] = result[c]

(* A walk that is over withdraws no finished summary: it parks, finishes   *)
(* or resolves contexts that ran or were parked.                           *)
LEMMA ReadyKeptByWalks ==
  ASSUME Inv, WalkOver, NEW c \in Ctx
  PROVE  /\ \A head : Park(Top.ctx, WalkDone, head) /\ result' = result => StaysReady(c)
         /\ FinishAlone => StaysReady(c)
         /\ ResolveGroup => StaysReady(c)
<1>1. /\ Top.ctx \in Ctx /\ state[Top.ctx] = "Running" /\ heads[Top.ctx] = Top.ctx
  BY WalkOverType
<1>2. /\ state \in [Ctx -> {"New", "Running", "Parked", "Resolving", "Ready", "Cut"}]
      /\ result \in [Ctx -> FunctionResult \cup {None}]
      /\ parked \in Seq(Ctx) /\ heads \in [Ctx -> Ctx]
  BY DEF Inv, TypeOK
<1>3. ASSUME NEW head, Park(Top.ctx, WalkDone, head), result' = result PROVE StaysReady(c)
  BY <1>1, <1>2, <1>3 DEF Park, StaysReady
<1>4. ASSUME FinishAlone PROVE StaysReady(c)
  BY <1>1, <1>2, <1>4 DEF FinishAlone, StaysReady
<1>5. ASSUME ResolveGroup PROVE StaysReady(c)
  <2> DEFINE ps == Append(parked, Top.ctx)
             ms == Taken(ps, heads, Top.ctx)
  <2>1. ps \in Seq(Ctx) /\ Range(ps) = Range(parked) \cup {Top.ctx}
    BY <1>1, <1>2, AppendType, RangeOfAppend
  <2> HIDE DEF ps
  <2>2. Range(ms) = {d \in Range(ps) : heads[d] = Top.ctx}
    <3>1. \A h \in Ctx : Range(Taken(ps, heads, h)) = {d \in Range(ps) : heads[d] = h}
      BY ZenonT(30), <1>2, <2>1, TakenLeft
    <3> QED BY <1>1, <3>1
  <2>3. \A d \in Range(parked) : state[d] = "Parked"
    BY DEF Inv, GroupsFit
  <2>4. state[c] = "Ready" => c \notin Range(ms)
    <3>1. ASSUME c \in Range(ms) PROVE state[c] # "Ready"
      <4>1. c \in Range(parked) \/ c = Top.ctx
        BY <2>1, <2>2, <3>1
      <4> QED BY <1>1, <2>3, <4>1
    <3> QED BY <3>1
  <2>5. /\ state' = [d \in Ctx |-> IF d \in Range(ms) THEN "Resolving" ELSE state[d]]
        /\ result' = result
    BY <1>5 DEF ResolveGroup, FromRoundZero, ps
  <2> HIDE DEF ms
  <2> QED BY <2>4, <2>5 DEF StaysReady
<1> QED BY <1>3, <1>4, <1>5

(* A fixpoint that stops, goes on or settles withdraws no finished         *)
(* summary: its members were not finished.                                 *)
LEMMA ReadyKeptByFixpoints ==
  ASSUME Inv, Top.kind = "resolve", NEW c \in Ctx
  PROVE  /\ \A head : ParkAll(head) /\ result' = result => StaysReady(c)
         /\ NextRound => StaysReady(c)
         /\ Settle => StaysReady(c)
<1>1. /\ Top.members \in Seq(Ctx) /\ \A d \in Range(Top.members) : state[d] = "Resolving"
  BY ResolveOnTop
<1>2. Joiners \in Seq(Ctx) /\ \A d \in Range(Joiners) : state[d] = "Parked"
  BY JoinersType
<1>3. ASSUME NEW head, ParkAll(head), result' = result PROVE StaysReady(c)
  BY <1>1, <1>3 DEF ParkAll, StaysReady
<1>4. ASSUME NextRound PROVE StaysReady(c)
  BY <1>2, <1>4 DEF NextRound, FromRoundZero, StaysReady
<1>5. ASSUME Settle PROVE StaysReady(c)
  <2>1. Range(Top.members \o Joiners) = Range(Top.members) \cup Range(Joiners)
    BY <1>1, <1>2, RangeOfConcat
  <2>2. state[c] = "Ready" => c \notin Range(Top.members \o Joiners)
    BY <1>1, <1>2, <2>1
  <2> DEFINE ms == Range(Top.members \o Joiners)
  <2>3. c \notin ms => state'[c] = state[c]
    BY <1>5 DEF Settle
  <2>4. c \notin ms => result'[c] = result[c]
    BY <1>5 DEF Settle
  <2> QED BY <2>2, <2>3, <2>4 DEF StaysReady
<1> QED BY <1>3, <1>4, <1>5

(* With reuse, no step changes a finished summary.                         *)
LEMMA ReadyKept ==
  ASSUME Reuse, Inv, [Next]_vars, NEW c \in Ctx
  PROVE  StaysReady(c)
<1>1. CASE state' = state /\ result' = result
  BY <1>1 DEF StaysReady
<1>2. CASE GetWalk
  <2>1. state' = [state EXCEPT ![Wanted(Top)] = "Running"] /\ result' = result
    BY <1>2 DEF GetWalk
  <2>2. state[Wanted(Top)] # "Ready"
    BY <1>2 DEF GetWalk, MustWalk
  <2>3. state \in [Ctx -> {"New", "Running", "Parked", "Resolving", "Ready", "Cut"}]
    BY DEF Inv, TypeOK
  <2> QED BY <2>1, <2>2, <2>3 DEF StaysReady
<1>3. CASE Get
  BY <1>1, <1>2, <1>3 DEF Get, GetReady, GetRunning, GetGroupMember, GetCut, slots
<1>4. CASE ParkInCycle \/ ParkInGroup
  <2>1. WalkOver /\ result' = result /\ \E head : Park(Top.ctx, WalkDone, head)
    BY <1>4 DEF ParkInCycle, ParkInGroup
  <2> QED BY <2>1, ReadyKeptByWalks
<1>5. CASE FinishAlone \/ ResolveGroup
  <2>1. WalkOver
    BY <1>5 DEF FinishAlone, ResolveGroup
  <2> QED BY <2>1, <1>5, ReadyKeptByWalks
<1>6. CASE Merged \/ Joined
  <2>1. Top.kind = "resolve" /\ result' = result /\ \E head : ParkAll(head)
    BY <1>6 DEF Merged, Joined, MemberOver, Replays
  <2> QED BY <2>1, ReadyKeptByFixpoints
<1>7. CASE NextRound \/ Settle
  <2>1. Top.kind = "resolve"
    BY <1>7 DEF NextRound, Settle, RoundOver
  <2> QED BY <2>1, <1>7, ReadyKeptByFixpoints
<1>8. CASE DeferCall \/ StartCall \/ FinishCall \/ ReplayCall \/ ReplayDone \/ NextMember
  BY <1>1, <1>8 DEF DeferCall, StartCall, FinishCall, ReplayCall, ReplayDone, NextMember, slots
<1>9. CASE DeadlinePasses \/ UNCHANGED vars
  BY <1>1, <1>9 DEF DeadlinePasses, vars, slots
<1> QED BY <1>3, <1>4, <1>5, <1>6, <1>7, <1>8, <1>9
        DEF Next, Thread, WalkStep, FixpointStep, Finished

(* A summary that can be reused is never changed and never withdrawn, when *)
(* summaries are reused at all: no later merge, join, restart, limit or    *)
(* round reaches it.                                                       *)
THEOREM ReadySummariesStay ==
  ASSUME Reuse
  PROVE  Spec => ReadyIsFinal
<1>1. Inv /\ [Next]_vars =>
         [\A c \in Ctx : state[c] = "Ready" =>
             state'[c] = "Ready" /\ result'[c] = result[c]]_vars
  BY ReadyKept DEF StaysReady
<1> QED BY <1>1, Invariance, PTL DEF Spec, ReadyIsFinal

-----------------------------------------------------------------------------
(***************************************************************************)
(* The limits.                                                             *)
(***************************************************************************)

(* The counters are within the limits, and count every context with a slot *)
(* at least once.                                                          *)
Counted ==
    /\ Len(stack) <= MaxStack
    /\ walks <= MaxContexts
    /\ IsFiniteSet(Known) /\ Cardinality(Known) <= walks
    /\ \A f \in Func : /\ perFunc[f] <= ContextsPerFunc
                       /\ IsFiniteSet(KnownOf(f)) /\ Cardinality(KnownOf(f)) <= perFunc[f]

-----------------------------------------------------------------------------
(* Only the start of a walk gives a context its slot.                      *)
StaysKnown == /\ \A c \in Ctx : state'[c] = "New" <=> state[c] = "New"
              /\ Len(stack') <= Len(stack)
              /\ UNCHANGED counters

(* A walk that ends, to be parked or to get its summary, gives no slot.    *)
LEMMA KnownByWalks ==
  ASSUME Inv, WalkOver, ParkInCycle \/ ParkInGroup \/ FinishAlone \/ ResolveGroup
  PROVE  StaysKnown
<1>1. /\ Top.ctx \in Ctx /\ state[Top.ctx] = "Running" /\ heads[Top.ctx] = Top.ctx
      /\ Len(Under) \in Nat /\ Len(Under) = Len(stack) - 1
  BY WalkOverType
<1>2. /\ state \in [Ctx -> {"New", "Running", "Parked", "Resolving", "Ready", "Cut"}]
      /\ parked \in Seq(Ctx) /\ heads \in [Ctx -> Ctx] /\ Len(stack) \in Nat
  BY TopFrame DEF Inv, TypeOK
<1>3. stack' = Under /\ UNCHANGED counters
  BY DEF ParkInCycle, ParkInGroup, FinishAlone, ResolveGroup
<1>4. CASE ParkInCycle \/ ParkInGroup
  <2>1. state' = [state EXCEPT ![Top.ctx] = "Parked"]
    BY <1>4 DEF ParkInCycle, ParkInGroup, Park
  <2> QED BY <1>1, <1>2, <1>3, <2>1 DEF StaysKnown
<1>5. CASE FinishAlone
  <2>1. \/ state' = [state EXCEPT ![Top.ctx] = "Ready"]
        \/ state' = [state EXCEPT ![Top.ctx] = "Cut"]
    BY <1>5 DEF FinishAlone
  <2> QED BY <1>1, <1>2, <1>3, <2>1 DEF StaysKnown
<1>6. CASE ResolveGroup
  <2> DEFINE ps == Append(parked, Top.ctx)
             ms == Taken(ps, heads, Top.ctx)
  <2>1. ps \in Seq(Ctx) /\ Range(ps) = Range(parked) \cup {Top.ctx}
    BY <1>1, <1>2, AppendType, RangeOfAppend
  <2> HIDE DEF ps
  <2>2. Range(ms) = {d \in Range(ps) : heads[d] = Top.ctx}
    <3>1. \A h \in Ctx : Range(Taken(ps, heads, h)) = {d \in Range(ps) : heads[d] = h}
      BY <1>2, <2>1, TakenLeft
    <3> QED BY <1>1, <3>1
  <2>3. \A d \in Range(ms) : state[d] \in {"Parked", "Running"}
    BY <1>1, <2>1, <2>2 DEF Inv, GroupsFit
  <2>4. state' = [d \in Ctx |-> IF d \in Range(ms) THEN "Resolving" ELSE state[d]]
    BY <1>6 DEF ResolveGroup, FromRoundZero, ps
  <2> HIDE DEF ms
  <2> QED BY <1>1, <1>2, <1>3, <2>3, <2>4 DEF StaysKnown
<1> QED BY <1>4, <1>5, <1>6

(* A fixpoint that ends, or parks with its group, gives no slot.           *)
LEMMA KnownByFixpoints ==
  ASSUME Inv, Merged \/ Joined \/ NextRound \/ Settle
  PROVE  StaysKnown
<1>1. Top.kind = "resolve"
  BY DEF Merged, Joined, MemberOver, Replays, NextRound, Settle, RoundOver
<1>2. /\ Top.members \in Seq(Ctx) /\ \A d \in Range(Top.members) : state[d] = "Resolving"
  BY <1>1, ResolveOnTop
<1>3. Joiners \in Seq(Ctx) /\ \A d \in Range(Joiners) : state[d] = "Parked"
  BY <1>1, JoinersType
<1>4. stack' = stack /\ UNCHANGED counters /\ Len(stack) \in Nat
  BY TopFrame DEF Merged, Joined, NextRound, Settle
<1>5. CASE Merged \/ Joined
  <2>1. state' = [c \in Ctx |-> IF c \in Range(Top.members) THEN "Parked" ELSE state[c]]
    BY <1>5 DEF Merged, Joined, ParkAll
  <2> QED BY <1>2, <1>4, <2>1 DEF StaysKnown
<1>6. CASE NextRound
  <2>1. state' = [c \in Ctx |-> IF c \in Range(Joiners) THEN "Resolving" ELSE state[c]]
    BY <1>6 DEF NextRound, FromRoundZero
  <2> QED BY <1>3, <1>4, <2>1 DEF StaysKnown
<1>7. CASE Settle
  <2>1. Range(Top.members \o Joiners) = Range(Top.members) \cup Range(Joiners)
    BY <1>2, <1>3, RangeOfConcat
  <2> DEFINE ms == Range(Top.members \o Joiners)
  <2>2. \A c \in ms : state[c] \in {"Resolving", "Parked"}
    BY <1>2, <1>3, <2>1
  <2>3. \A c \in Ctx : IF c \in ms THEN state'[c] \in {"Ready", "Cut"} ELSE state'[c] = state[c]
    BY <1>7 DEF Settle
  <2> HIDE DEF ms
  <2> QED BY <1>4, <2>2, <2>3 DEF StaysKnown
<1> QED BY <1>5, <1>6, <1>7

(* The operations of a body, the answers and the clock give no slot.       *)
LEMMA KnownByOthers ==
  ASSUME Inv, [Next]_vars, ~GetWalk
  PROVE  StaysKnown
<1>1. Len(stack) \in Nat
  BY TopFrame
<1>2. CASE UNCHANGED <<state, stack, counters>>
  BY <1>1, <1>2 DEF StaysKnown
<1>3. CASE Get
  BY <1>2, <1>3 DEF Get, GetReady, GetRunning, GetGroupMember, GetCut, slots
<1>4. CASE ParkInCycle \/ ParkInGroup \/ FinishAlone \/ ResolveGroup
  BY <1>4, KnownByWalks DEF ParkInCycle, ParkInGroup, FinishAlone, ResolveGroup
<1>5. CASE Merged \/ Joined \/ NextRound \/ Settle
  BY <1>5, KnownByFixpoints
<1>6. CASE DeferCall \/ StartCall \/ FinishCall \/ ReplayCall \/ ReplayDone \/ NextMember
  BY <1>2, <1>6 DEF DeferCall, StartCall, FinishCall, ReplayCall, ReplayDone, NextMember, slots
<1>7. CASE DeadlinePasses \/ UNCHANGED vars
  BY <1>2, <1>7 DEF DeadlinePasses, vars, slots
<1> QED BY <1>3, <1>4, <1>5, <1>6, <1>7
        DEF Next, Thread, WalkStep, FixpointStep, Finished

-----------------------------------------------------------------------------
(* No walk is on the solver's stack twice.                                 *)
LEMMA StackDistinct == Inv => IsInjective(stack)
<1> SUFFICES ASSUME Inv,
                    NEW i \in DOMAIN stack, NEW j \in DOMAIN stack, stack[i] = stack[j]
             PROVE  i = j
  BY DEF IsInjective
<1>1. i \in Int /\ j \in Int
  BY TopFrame, SeqType
<1>2. depth[stack[i]] = i - 1 /\ depth[stack[j]] = j - 1
  BY DEF Inv, StackMatches
<1> QED BY <1>1, <1>2

(* A walk that starts is counted, whether or not its context is new.       *)
LEMMA CountedByGetWalk ==
  ASSUME Inv, Counted, GetWalk
  PROVE  Counted'
<1> DEFINE c == Wanted(Top)
<1>1. c \in Ctx /\ c.func \in Func
  BY WantedType, CtxType DEF GetWalk
<1>2. /\ state \in [Ctx -> {"New", "Running", "Parked", "Resolving", "Ready", "Cut"}]
      /\ perFunc \in [Func -> Nat] /\ walks \in Nat /\ stack \in Seq(Ctx) /\ Len(stack) \in Nat
  BY TopFrame DEF Inv, TypeOK
<1>3. Len(stack) < MaxStack /\ walks < MaxContexts /\ perFunc[c.func] < ContextsPerFunc
  <2>1. CostLimit(c) = None
    BY DEF GetWalk
  <2>2. None \notin {"Stack", "Contexts", "ContextsPerFunc"}
    BY CutAssumption DEF Cut
  <2> QED BY <1>1, <1>2, <2>1, <2>2, LimitAssumption DEF CostLimit
<1>4. /\ stack' = Append(stack, c) /\ walks' = walks + 1
      /\ perFunc' = [perFunc EXCEPT ![c.func] = @ + 1]
      /\ state' = [state EXCEPT ![c] = "Running"]
  BY DEF GetWalk
<1>5. Len(stack') <= MaxStack /\ walks' <= MaxContexts
  <2>1. Len(stack') = Len(stack) + 1
    BY <1>1, <1>2, <1>4, AppendType
  <2> QED BY <1>2, <1>3, <1>4, <2>1, LimitAssumption
<1>6. Known' = Known \cup {c}
  BY <1>1, <1>2, <1>4 DEF Known
<1>7. IsFiniteSet(Known') /\ Cardinality(Known') <= walks'
  <2>1. /\ IsFiniteSet(Known \cup {c})
        /\ Cardinality(Known \cup {c}) =
             IF c \in Known THEN Cardinality(Known) ELSE Cardinality(Known) + 1
    BY FS_AddElement DEF Counted
  <2>2. Cardinality(Known) \in Nat /\ Cardinality(Known) <= walks
    BY FS_CardinalityType DEF Counted
  <2> QED BY <1>2, <1>4, <1>6, <2>1, <2>2
<1>8. ASSUME NEW f \in Func
      PROVE  /\ perFunc'[f] <= ContextsPerFunc
             /\ IsFiniteSet(KnownOf(f)') /\ Cardinality(KnownOf(f)') <= perFunc'[f]
  <2>1. perFunc[f] \in Nat /\ perFunc[f] <= ContextsPerFunc /\ IsFiniteSet(KnownOf(f))
        /\ Cardinality(KnownOf(f)) <= perFunc[f] /\ Cardinality(KnownOf(f)) \in Nat
    BY <1>2, FS_CardinalityType DEF Counted
  <2>2. CASE f = c.func
    <3>1. KnownOf(f)' = KnownOf(f) \cup {c}
      BY <1>1, <1>6, <2>2 DEF KnownOf
    <3>2. /\ IsFiniteSet(KnownOf(f) \cup {c})
          /\ Cardinality(KnownOf(f) \cup {c}) =
               IF c \in KnownOf(f) THEN Cardinality(KnownOf(f)) ELSE Cardinality(KnownOf(f)) + 1
      BY <2>1, FS_AddElement
    <3>3. perFunc'[f] = perFunc[f] + 1
      BY <1>1, <1>2, <1>4, <2>2
    <3> QED BY <1>3, <2>1, <2>2, <3>1, <3>2, <3>3, LimitAssumption
  <2>3. CASE f # c.func
    <3>1. KnownOf(f)' = KnownOf(f) /\ perFunc'[f] = perFunc[f]
      BY <1>1, <1>2, <1>4, <1>6, <2>3 DEF KnownOf
    <3> QED BY <2>1, <3>1
  <2> QED BY <2>2, <2>3
<1> QED BY <1>5, <1>7, <1>8 DEF Counted

(* Every step keeps the counts: only a walk gives a slot, and counts it.   *)
LEMMA CountedNext == Inv /\ Counted /\ [Next]_vars => Counted'
<1> SUFFICES ASSUME Inv, Counted, [Next]_vars PROVE Counted'
  OBVIOUS
<1>1. CASE GetWalk
  BY <1>1, CountedByGetWalk
<1>2. CASE ~GetWalk
  <2>1. StaysKnown
    BY <1>2, KnownByOthers
  <2>2. Len(stack) \in Nat /\ Len(stack') \in Nat
    <3>1. Inv'
      BY NextInv
    <3>2. stack' \in Seq(Ctx)
      BY <3>1 DEF Inv, TypeOK
    <3> QED BY <3>2, TopFrame, SeqType
  <2>3. Len(stack') <= MaxStack
    BY <2>1, <2>2, LimitAssumption DEF StaysKnown, Counted
  <2>4. Known' = Known
    BY <2>1 DEF StaysKnown, Known
  <2>5. \A f \in Func : KnownOf(f)' = KnownOf(f)
    BY <2>4 DEF KnownOf
  <2> QED BY <2>1, <2>3, <2>4, <2>5 DEF StaysKnown, Counted, counters
<1> QED BY <1>1, <1>2

(* Nothing has a slot to begin with, and nothing is counted.               *)
LEMMA InitCounted == Init => Counted
<1> SUFFICES ASSUME Init PROVE Counted
  OBVIOUS
<1>1. Known = {} /\ \A f \in Func : KnownOf(f) = {}
  BY DEF Init, Known, KnownOf
<1>2. Len(stack) = 0 /\ walks = 0 /\ \A f \in Func : perFunc[f] = 0
  BY DEF Init
<1>3. IsFiniteSet(Known) /\ Cardinality(Known) = 0
  BY <1>1, FS_EmptySet
<1>4. \A f \in Func : IsFiniteSet(KnownOf(f)) /\ Cardinality(KnownOf(f)) = 0
  BY <1>1, FS_EmptySet
<1> QED BY <1>2, <1>3, <1>4, LimitAssumption DEF Counted

(* No program makes the solver keep more walks open, or more contexts in   *)
(* all or of one function, than max_stack, max_contexts and                *)
(* contexts_per_func allow, however often cut contexts are walked again.   *)
THEOREM LimitsHold == Spec => []WithinLimits
<1>1. Init => Counted
  BY InitCounted
<1>2. Inv /\ Counted /\ [Next]_vars => Counted'
  BY CountedNext
<1>3. Inv /\ Counted => WithinLimits
  <2> SUFFICES ASSUME Inv, Counted PROVE WithinLimits
    OBVIOUS
  <2>1. walks \in Nat /\ \A f \in Func : perFunc[f] \in Nat
    BY DEF Inv, TypeOK
  <2>2. Cardinality(Known) <= MaxContexts
    BY <2>1, FS_CardinalityType, LimitAssumption DEF Counted
  <2>3. ASSUME NEW f \in Func PROVE Cardinality(KnownOf(f)) <= ContextsPerFunc
    <3>1. /\ perFunc[f] \in Nat /\ perFunc[f] <= ContextsPerFunc
          /\ Cardinality(KnownOf(f)) \in Nat /\ Cardinality(KnownOf(f)) <= perFunc[f]
      BY <2>1, FS_CardinalityType DEF Counted
    <3> QED BY <3>1, LimitAssumption
  <2> QED BY <2>2, <2>3 DEF WithinLimits, Counted
<1> QED BY <1>1, <1>2, <1>3, Invariance, PTL DEF Spec

-----------------------------------------------------------------------------
(* A context is walked once, as long as no limit but the deadline stops a  *)
(* call: what is walked again was cut.                                     *)

(* No cut is kept anywhere: in a slot, in what a walk or a fixpoint met.   *)
Uncut(fx) == fx # None => fx.read.cut = None
OutersUncut(cs) == \A i \in DOMAIN cs : cs[i].kind = "resolve" => Uncut(cs[i].outer)
NoCut ==
    /\ \A c \in Ctx : state[c] # "Cut" /\ read[c].cut = None
    /\ Uncut(fixpoint)
    /\ OutersUncut(ctl)

(* Every walk so far was of a new context.                                 *)
WalkedNew ==
    /\ IsFiniteSet(Known) /\ walks = Cardinality(Known)
    /\ \A f \in Func : perFunc[f] = Cardinality(KnownOf(f))

(* No limit but the deadline stops a call.                                 *)
LimitsSpare ==
    Asks(Top) /\ MustWalk(Wanted(Top)) /\ ~expired => CostLimit(Wanted(Top)) = None

(* An answer that tells of no cut leaves none behind.                      *)
LEMMA UncutAfterReturn ==
  ASSUME NEW cs \in Seq(Frame), NEW stk \in Seq(Ctx), NEW fx \in Fixpoint \cup {None},
         FramesFit(cs, stk, fx), CallersWait(cs), Waits(cs[Len(cs)]),
         NEW rd \in [Ctx -> Note], NEW n, NoteAt(n, Len(stk)),
         NEW got \in (SUBSET V) \cup {None},
         Return(cs, rd, fx, stk, n, got),
         n.cut = None, \A c \in Ctx : rd[c].cut = None, Uncut(fx), OutersUncut(cs),
         \A c \in Ctx : state'[c] # "Cut"
  PROVE  NoCut'
<1>1. /\ ctl' \in Seq(Frame) /\ Len(ctl') = Len(cs)
      /\ \A i \in 1..Len(cs) : SameShape(cs[i], ctl'[i])
  BY ReturnType
<1>2. OutersUncut(ctl')
  <2>1. DOMAIN cs = 1..Len(cs) /\ DOMAIN ctl' = 1..Len(cs)
    BY <1>1, SeqType
  <2> QED BY <1>1, <2>1 DEF OutersUncut, SameShape
<1>3. read' = ReadsTold(rd, fx, stk, n) /\ fixpoint' = FixpointTold(fx, stk, n)
  BY DEF Return
<1>4. \A m \in Note : m.cut = None => Noted(m, n).cut = None
  BY DEF Noted
<1>5. \A c \in Ctx : read'[c].cut = None
  <2> SUFFICES ASSUME NEW c \in Ctx PROVE read'[c].cut = None
    OBVIOUS
  <2>1. read'[c] = rd[c] \/ read'[c] = Noted(rd[c], n)
    BY <1>3 DEF ReadsTold
  <2> QED BY <1>4, <2>1
<1>6. Uncut(fixpoint')
  <2>1. CASE fixpoint' = fx
    BY <2>1 DEF Uncut
  <2>2. CASE fixpoint' # fx
    <3>1. fx # None /\ fixpoint' = [fx EXCEPT !.read = Noted(fx.read, n)]
      BY <1>3, <2>2 DEF FixpointTold, ReaderIsFixpoint
    <3>2. fx \in Fixpoint /\ fx.read \in Note /\ fx.read.cut = None
      BY <3>1 DEF Fixpoint, Uncut
    <3>3. fixpoint'.read = Noted(fx.read, n)
      BY <3>1, <3>2 DEF Fixpoint
    <3> QED BY <1>4, <3>2, <3>3 DEF Uncut
  <2> QED BY <2>1, <2>2
<1> QED BY <1>2, <1>5, <1>6 DEF NoCut

(* A step that changes the top frame and a walk's slot or a member's.      *)
LEMMA UncutAfterTop ==
  ASSUME Inv, NoCut, Inv', NEW fr, ctl' = [ctl EXCEPT ![Len(ctl)] = fr],
         fr.kind = Top.kind, Top.kind = "resolve" => fr.outer = Top.outer,
         \A c \in Ctx : state'[c] # "Cut", UNCHANGED <<read, fixpoint>>
  PROVE  NoCut'
<1>1. ctl \in Seq(Frame) /\ Top = ctl[Len(ctl)]
  BY TopFrame
<1>2. DOMAIN ctl' = DOMAIN ctl
  BY <1>1
<1>3. ASSUME NEW i \in DOMAIN ctl, ctl'[i].kind = "resolve" PROVE Uncut(ctl'[i].outer)
  <2>1. CASE i = Len(ctl)
    <3>1. ctl'[i] = fr
      BY <1>1, <2>1, <1>3
    <3> QED BY <1>1, <1>3, <2>1, <3>1 DEF NoCut, OutersUncut
  <2>2. CASE i # Len(ctl)
    <3>1. ctl'[i] = ctl[i]
      BY <1>1, <2>2, <1>3
    <3> QED BY <1>3, <3>1 DEF NoCut, OutersUncut
  <2> QED BY <2>1, <2>2
<1>4. OutersUncut(ctl')
  BY <1>2, <1>3 DEF OutersUncut
<1> QED BY <1>4 DEF NoCut

(* Where nothing was cut, the frames below a frame that leaves keep none.  *)
LEMMA UncutBelow ==
  ASSUME Inv, NoCut, Top.kind # "solve"
  PROVE  OutersUncut(Below) /\ (Top.kind = "resolve" => Uncut(Top.outer))
<1>1. /\ Below \in Seq(Frame) /\ Len(Below) = Len(ctl) - 1 /\ Len(ctl) \in DOMAIN ctl
      /\ \A i \in 1..(Len(ctl) - 1) : Below[i] = ctl[i]
  BY TopFrame, HasBelow DEF Top, Below
<1>2. DOMAIN Below = 1..(Len(ctl) - 1) /\ DOMAIN ctl = 1..Len(ctl) /\ Len(ctl) \in Nat
  BY <1>1, TopFrame, SeqType
<1>3. \A i \in DOMAIN Below : i \in DOMAIN ctl /\ Below[i] = ctl[i]
  BY <1>1, <1>2
<1>4. Top = ctl[Len(ctl)]
  BY DEF Top
<1> QED BY <1>1, <1>3, <1>4 DEF NoCut, OutersUncut

(* An answer to the frame on top.                                          *)
LEMMA UncutAfterRead ==
  ASSUME Inv, NoCut, Asks(Top), NEW n, NoteAt(n, Len(stack)), n.cut = None,
         NEW got \in (SUBSET V) \cup {None},
         Return(ctl, read, fixpoint, stack, n, got), UNCHANGED state
  PROVE  NoCut'
<1>1. /\ ctl \in Seq(Frame) /\ stack \in Seq(Ctx) /\ fixpoint \in Fixpoint \cup {None}
      /\ FramesFit(ctl, stack, fixpoint) /\ CallersWait(ctl) /\ read \in [Ctx -> Note]
      /\ Waits(ctl[Len(ctl)])
  BY TopFrame, WantedType
<1> QED BY <1>1, UncutAfterReturn DEF NoCut

(* get: an answer that no limit stopped.                                   *)
LEMMA UncutByGet ==
  ASSUME Inv, NoCut, GetReady \/ GetRunning \/ GetGroupMember, Inv'
  PROVE  NoCut'
<1> DEFINE c == Wanted(Top)
<1>1. Asks(Top) /\ c \in Ctx /\ Waits(Top) /\ state' = state
  BY WantedType DEF GetReady, GetRunning, GetGroupMember, slots
<1>2. CASE GetReady
  <2> DEFINE got == result[c].returns
             fr == Answered(Top, got)
  <2>1. ctl' = Answer(ctl, got) /\ UNCHANGED <<read, fixpoint>> /\ state[c] = "Ready"
    BY <1>2 DEF GetReady, slots
  <2>2. got \in (SUBSET V) \cup {None}
    <3>1. result[c] \in FunctionResult
      BY <1>1, <2>1 DEF Inv, SlotsFit
    <3> QED BY <3>1, ReturnsType
  <2> HIDE DEF got
  <2>3. SameShape(Top, fr)
    BY <1>1, <2>2, TopFrame, AnsweredType
  <2>4. ctl' = [ctl EXCEPT ![Len(ctl)] = fr]
    BY <2>1 DEF Answer, Top
  <2> HIDE DEF fr, c
  <2>5. fr.kind = Top.kind /\ (Top.kind = "resolve" => fr.outer = Top.outer)
    BY <2>3 DEF SameShape
  <2>6. \A d \in Ctx : state'[d] # "Cut"
    BY <1>1 DEF NoCut
  <2> QED BY <2>1, <2>4, <2>5, <2>6, UncutAfterTop
<1>3. CASE GetRunning
  <2> DEFINE d == depth[c]
  <2>1. state[c] = "Running" /\ Return(ctl, read, fixpoint, stack, DependsOn(d), None)
    BY <1>3 DEF GetRunning
  <2>2. d \in Nat /\ d < Len(stack)
    BY <1>1, <2>1, RunningDepth
  <2> HIDE DEF d, c
  <2>3. NoteAt(DependsOn(d), Len(stack)) /\ DependsOn(d).cut = None
    BY <2>2, TopFrame, DependsOnType DEF DependsOn, Nothing
  <2> QED BY <1>1, <2>1, <2>3, UncutAfterRead
<1>4. CASE GetGroupMember
  <2> DEFINE m == ReadGroupMember(c, state, heads, current, fixpoint, stack)
  <2>1. state[c] \in {"Parked", "Resolving"} /\ Return(ctl, read, fixpoint, stack, m.note, m.got)
    BY <1>4 DEF GetGroupMember
  <2>2. heads \in [Ctx -> Ctx] /\ current[c] \in FunctionResult /\ Len(stack) \in Nat
    BY <1>1, <2>1, TopFrame DEF Inv, TypeOK, SlotsFit
  <2>3. NoteAt(m.note, Len(stack)) /\ m.got \in (SUBSET V) \cup {None}
    <3>1. state[heads[c]] = "Running" => depth[heads[c]] \in Nat /\ depth[heads[c]] < Len(stack)
      <4>1. heads[c] \in Ctx
        BY <1>1, <2>2
      <4> QED BY <4>1, RunningDepth
    <3> QED BY <1>1, <2>2, <3>1, GroupReadType
  <2>4. m.note.cut = None
    BY DEF ReadGroupMember, DependsOn, Joins, Nothing
  <2> HIDE DEF m, c
  <2> QED BY <1>1, <2>1, <2>3, <2>4, UncutAfterRead
<1> QED BY <1>2, <1>3, <1>4

(* get: a walk starts with nothing read.                                   *)
LEMMA UncutByGetWalk ==
  ASSUME Inv, NoCut, GetWalk, Inv'
  PROVE  NoCut'
<1> DEFINE c == Wanted(Top)
<1>1. c \in Ctx
  BY WantedType DEF GetWalk
<1>2. PICK fr : ctl' = Append(ctl, fr) /\ fr.kind = "walk"
  BY DEF GetWalk
<1>3. state' = [state EXCEPT ![c] = "Running"] /\ read' = [read EXCEPT ![c] = Nothing]
      /\ fixpoint' = fixpoint
  BY DEF GetWalk
<1> HIDE DEF c
<1>4. \A d \in Ctx : state'[d] # "Cut" /\ read'[d].cut = None
  <2>1. state \in [Ctx -> {"New", "Running", "Parked", "Resolving", "Ready", "Cut"}]
        /\ read \in [Ctx -> Note]
    BY DEF Inv, TypeOK
  <2> QED BY <1>1, <1>3, <2>1 DEF NoCut, Nothing
<1>5. OutersUncut(ctl')
  <2>1. PICK n \in Nat : n = Len(ctl)
    BY TopFrame
  <2>2. /\ ctl' \in Seq(Frame) /\ ctl \in Seq(Frame)
    BY TopFrame DEF Inv, TypeOK
  <2>3. DOMAIN ctl = 1..n /\ DOMAIN ctl' = 1..(n + 1) /\ ctl'[n + 1] = fr
        /\ \A i \in 1..n : ctl'[i] = ctl[i]
    BY <1>2, <2>1, <2>2
  <2>4. ASSUME NEW i \in DOMAIN ctl', ctl'[i].kind = "resolve" PROVE Uncut(ctl'[i].outer)
    <3>1. i # n + 1
      BY <1>2, <2>3, <2>4
    <3>2. i \in DOMAIN ctl /\ ctl'[i] = ctl[i]
      BY <2>3, <3>1
    <3> QED BY <2>4, <3>2 DEF NoCut, OutersUncut
  <2> QED BY <2>4 DEF OutersUncut
<1>6. Uncut(fixpoint')
  BY <1>3 DEF NoCut
<1> QED BY <1>4, <1>5, <1>6 DEF NoCut

(* A walk that ends hands on no cut it did not meet.                       *)
LEMMA UncutByWalks ==
  ASSUME Inv, NoCut, ParkInCycle \/ ParkInGroup \/ FinishAlone
  PROVE  NoCut'
<1> DEFINE c == Top.ctx
           r == read[c]
<1>1. WalkOver /\ Top.kind = "walk"
  BY DEF ParkInCycle, ParkInGroup, FinishAlone, WalkOver
<1>2. /\ c \in Ctx /\ state[c] = "Running" /\ heads[c] = c /\ WalkDone \in Walk
      /\ Under \in Seq(Ctx) /\ Len(Under) \in Nat
      /\ state \in [Ctx -> {"New", "Running", "Parked", "Resolving", "Ready", "Cut"}]
  BY <1>1, WalkOverType DEF Inv, TypeOK
<1>3. /\ r \in Note /\ r.lowest \in Nat /\ r.cut = None /\ read \in [Ctx -> Note]
      /\ fixpoint \in Fixpoint \cup {None}
  BY <1>2, TopFrame DEF Note, NoCut
<1>4. /\ Below \in Seq(Frame) /\ FramesFit(Below, Under, fixpoint)
      /\ CallersWait(Below) /\ Waits(Below[Len(Below)]) /\ OutersUncut(Below)
  BY <1>1, WalkOverBelow, UncutBelow
<1>5. \A d \in Ctx : state'[d] # "Cut"
  <2>1. \A d \in Ctx : state[d] # "Cut"
    BY DEF NoCut
  <2>2. CASE ParkInCycle \/ ParkInGroup
    <3>1. state' = [state EXCEPT ![c] = "Parked"]
      BY <2>2 DEF ParkInCycle, ParkInGroup, Park
    <3> QED BY <1>2, <2>1, <3>1
  <2>3. CASE FinishAlone
    <3>1. state' = [state EXCEPT ![c] = IF r.cut = None THEN "Ready" ELSE "Cut"]
      BY <2>3 DEF FinishAlone
    <3> QED BY <1>2, <1>3, <2>1, <3>1
  <2> QED BY <2>2, <2>3
<1>6. \E n, got : /\ NoteAt(n, Len(Under)) /\ n.cut = None /\ got \in (SUBSET V) \cup {None}
                  /\ Return(Below, read, fixpoint, Under, n, got)
  <2>1. CASE ParkInCycle
    <3>1. PICK n : n = [r EXCEPT !.cut = None] /\ Return(Below, read, fixpoint, Under, n, None)
      BY <2>1 DEF ParkInCycle
    <3>2. n \in Note /\ n.lowest = r.lowest /\ n.cut = None
      BY <1>3, <3>1 DEF Note
    <3>3. r.lowest < Len(Under)
      BY <2>1 DEF ParkInCycle
    <3>4. NoteAt(n, Len(Under))
      BY <3>2, <3>3 DEF NoteAt
    <3> QED BY <3>1, <3>2, <3>4
  <2>2. CASE ParkInGroup
    <3> DEFINE m == ReadGroupMember(c, state', heads', current', fixpoint, Under)
    <3>1. /\ r.joins # None /\ Park(c, WalkDone, r.joins)
          /\ Return(Below, read, fixpoint, Under, m.note, m.got)
      BY <2>2 DEF ParkInGroup
    <3>2. r.joins \in Ctx
      BY <1>3, <3>1 DEF Note
    <3>3. /\ heads' \in [Ctx -> Ctx] /\ current'[c] \in FunctionResult
          /\ \A d \in Ctx : state'[d] = "Running" <=> state[d] = "Running" /\ d # c
      BY <1>1, <3>1, <3>2, ParkType
    <3>4. state'[heads'[c]] = "Running" =>
             depth[heads'[c]] \in Nat /\ depth[heads'[c]] < Len(Under)
      <4>1. heads'[c] \in Ctx
        BY <1>2, <3>3
      <4> QED BY <1>1, <3>3, <4>1, WalkOverType
    <3>5. NoteAt(m.note, Len(Under)) /\ m.got \in (SUBSET V) \cup {None}
      BY <1>2, <3>3, <3>4, GroupReadType
    <3>6. m.note.cut = None
      BY DEF ReadGroupMember, DependsOn, Joins, Nothing
    <3> HIDE DEF m
    <3> QED BY <3>1, <3>5, <3>6
  <2>3. CASE FinishAlone
    <3> DEFINE res == [RoundZero(WalkDone) EXCEPT !.cut = r.cut]
    <3>1. Return(Below, read, fixpoint, Under, IsCut(r.cut), res.returns)
      BY <2>3 DEF FinishAlone
    <3>2. res.returns \in (SUBSET V) \cup {None}
      BY <1>2, RoundZeroType DEF FunctionResult
    <3>3. NoteAt(IsCut(r.cut), Len(Under)) /\ IsCut(r.cut).cut = None
      BY <1>2, <1>3, IsCutType DEF IsCut, Nothing
    <3> HIDE DEF res
    <3> QED BY <3>1, <3>2, <3>3
  <2> QED BY <2>1, <2>2, <2>3
<1>7. PICK n, got : /\ NoteAt(n, Len(Under)) /\ n.cut = None /\ got \in (SUBSET V) \cup {None}
                    /\ Return(Below, read, fixpoint, Under, n, got)
  BY <1>6
<1>8. Uncut(fixpoint) /\ \A d \in Ctx : read[d].cut = None
  BY DEF NoCut
<1> QED BY <1>2, <1>3, <1>4, <1>5, <1>7, <1>8, UncutAfterReturn

(* A fixpoint that starts has read nothing, and keeps the one it suspends. *)
LEMMA UncutByResolveGroup ==
  ASSUME Inv, NoCut, ResolveGroup, Inv'
  PROVE  NoCut'
<1> DEFINE c == Top.ctx
<1>1. WalkOver /\ Top.kind = "walk" /\ read' = read
  BY DEF ResolveGroup, WalkOver
<1>2. PICK fr : ctl' = Append(Below, fr) /\ fr.outer = fixpoint
  BY DEF ResolveGroup
<1>3. Uncut(fixpoint')
  BY DEF ResolveGroup, Uncut, Nothing
<1>4. \A d \in Ctx : state'[d] # "Cut"
  <2>1. PICK S : state' = [d \in Ctx |-> IF d \in S THEN "Resolving" ELSE state[d]]
    BY DEF ResolveGroup, FromRoundZero
  <2> QED BY <2>1 DEF NoCut
<1>5. OutersUncut(ctl')
  <2>1. PICK n \in Nat : n = Len(Below)
    BY <1>1, WalkOverBelow, SeqType
  <2>2. Below \in Seq(Frame) /\ ctl' \in Seq(Frame)
    BY <1>1, WalkOverBelow DEF Inv, TypeOK
  <2>3. DOMAIN Below = 1..n /\ DOMAIN ctl' = 1..(n + 1) /\ ctl'[n + 1] = fr
        /\ \A i \in 1..n : ctl'[i] = Below[i]
    BY <1>2, <2>1, <2>2
  <2>4. OutersUncut(Below) /\ Uncut(fixpoint)
    BY <1>1, UncutBelow DEF NoCut
  <2>5. ASSUME NEW i \in DOMAIN ctl', ctl'[i].kind = "resolve" PROVE Uncut(ctl'[i].outer)
    <3>1. CASE i = n + 1
      BY <1>2, <2>3, <2>4, <3>1
    <3>2. CASE i # n + 1
      <4>1. i \in DOMAIN Below /\ ctl'[i] = Below[i]
        BY <2>3, <3>2
      <4> QED BY <2>4, <2>5, <4>1 DEF OutersUncut
    <3> QED BY <3>1, <3>2
  <2> QED BY <2>5 DEF OutersUncut
<1>6. \A d \in Ctx : read'[d].cut = None
  BY <1>1 DEF NoCut
<1> QED BY <1>3, <1>4, <1>5, <1>6 DEF NoCut

(* A step inside a body, a replay or a round.                              *)
LEMMA UncutByTop ==
  ASSUME Inv, NoCut, Inv',
         \/ DeferCall \/ StartCall \/ FinishCall
         \/ ReplayCall \/ ReplayDone \/ NextMember \/ NextRound
  PROVE  NoCut'
<1>1. UNCHANGED <<read, fixpoint>>
  BY DEF DeferCall, StartCall, FinishCall, ReplayCall, ReplayDone, NextMember, NextRound, slots
<1>2. \A d \in Ctx : state'[d] # "Cut"
  <2>1. \A d \in Ctx : state[d] # "Cut"
    BY DEF NoCut
  <2>2. CASE state' = state
    BY <2>1, <2>2
  <2>3. CASE NextRound
    BY <2>1, <2>3 DEF NextRound, FromRoundZero
  <2> QED BY <2>2, <2>3
          DEF DeferCall, StartCall, FinishCall, ReplayCall, ReplayDone, NextMember, slots
<1>3. CASE Top.kind = "walk"
  <2>1. Top \in WalkFrame
    BY <1>3, TopFrame, FrameType
  <2>2. \E fr : fr.kind = "walk" /\ ctl' = [ctl EXCEPT ![Len(ctl)] = fr]
    <3>1. CASE DeferCall
      <4> DEFINE w == [Top.w EXCEPT !.deferred = Append(@, [op |-> "Call", site |-> Len(Top.vals) + 1,
                                                   callee |-> Callee, arg |-> Arg]),
                                    !.calls = Append(@, {})]
                 v == Append(Top.vals, [known |-> {}, pending |-> {Len(Top.w.deferred) + 1}])
      <4>1. SetTop([Top EXCEPT !.w = w, !.vals = v])
        BY <2>1, <3>1, WalkFrameType DEF DeferCall, SetTop, WalkFrame, Walk
      <4> HIDE DEF w, v
      <4> QED BY <2>1, <4>1 DEF SetTop, WalkFrame
    <3>2. CASE StartCall
      <4>1. PICK s : SetTop([Top EXCEPT !.site = s])
        BY <3>2 DEF StartCall
      <4> QED BY <2>1, <4>1 DEF SetTop, WalkFrame
    <3>3. CASE FinishCall
      <4> DEFINE w == [Top.w EXCEPT !.calls = Append(@, Top.site.targets)]
                 v == Append(Top.vals, Top.site.out)
      <4>1. SetTop([Top EXCEPT !.w = w, !.vals = v, !.site = None])
        BY <2>1, <3>3, WalkFrameType DEF FinishCall, SetTop, WalkFrame, Walk
      <4> HIDE DEF w, v
      <4> QED BY <2>1, <4>1 DEF SetTop, WalkFrame
    <3> QED BY <1>3, <3>1, <3>2, <3>3
            DEF ReplayCall, ReplayDone, NextMember, NextRound, HasOp, Replays, MemberOver, RoundOver
  <2> QED BY <1>1, <1>2, <1>3, <2>2, UncutAfterTop
<1>4. CASE Top.kind = "resolve"
  <2>1. Top \in ResolveFrame
    BY <1>4, TopFrame, FrameType
  <2>2. \E fr : fr.kind = "resolve" /\ fr.outer = Top.outer /\ ctl' = [ctl EXCEPT ![Len(ctl)] = fr]
    <3>1. CASE ReplayCall
      <4>1. PICK s : SetTop([Top EXCEPT !.site = s])
        BY <3>1 DEF ReplayCall
      <4> QED BY <2>1, <4>1 DEF SetTop, ResolveFrame
    <3>2. CASE ReplayDone
      <4> DEFINE v == Top.site.out.known
      <4>1. SetTop(OpDone(Top, v))
        BY <3>2 DEF ReplayDone
      <4>2. PICK now : OpDone(Top, v) = [Top EXCEPT !.now = now, !.pc = Top.pc + 1, !.site = None]
        BY <2>1 DEF OpDone, ResolveFrame
      <4> HIDE DEF v
      <4> QED BY <2>1, <4>1, <4>2 DEF SetTop, ResolveFrame
    <3>3. CASE NextMember
      <4> DEFINE m == Member(Top)
                 changed == Top.changed \/ FinishRound(walk[m], Top.now).returns # current[m].returns
                 now == IF Top.at < Len(Top.members)
                        THEN walk[Top.members[Top.at + 1]].resolved ELSE <<>>
      <4>1. SetTop([Top EXCEPT !.changed = changed, !.at = Top.at + 1, !.pc = 1, !.now = now])
        BY <2>1, <3>3 DEF NextMember, SetTop, ResolveFrame
      <4> HIDE DEF changed, now
      <4> QED BY <2>1, <4>1 DEF SetTop, ResolveFrame
    <3>4. CASE NextRound
      <4> DEFINE ms == Top.members \o Joiners
                 now == walk[ms[1]].resolved
      <4>1. SetTop([Top EXCEPT !.members = ms, !.round = Top.round + 1, !.changed = FALSE,
                               !.at = 1, !.pc = 1, !.now = now])
        BY <2>1, <3>4 DEF NextRound, SetTop, ResolveFrame
      <4> HIDE DEF ms, now
      <4> QED BY <2>1, <4>1 DEF SetTop, ResolveFrame
    <3> QED BY <1>4, <3>1, <3>2, <3>3, <3>4 DEF DeferCall, StartCall, FinishCall, AtSite
  <2> QED BY <1>1, <1>2, <1>4, <2>2, UncutAfterTop
<1> QED BY <1>3, <1>4
        DEF DeferCall, StartCall, FinishCall, AtSite, ReplayCall, ReplayDone, NextMember, NextRound,
            HasOp, Replays, MemberOver, RoundOver

(* A fixpoint that stops or settles hands on no cut it did not meet.       *)
LEMMA UncutByFixpoints ==
  ASSUME Inv, NoCut, Merged \/ Joined \/ Settle
  PROVE  NoCut'
<1> DEFINE r == fixpoint.read
<1>1. Top.kind = "resolve"
  BY DEF Merged, Joined, MemberOver, Replays, Settle, RoundOver
<1>2. /\ Below \in Seq(Frame) /\ FramesFit(Below, stack, Top.outer)
      /\ CallersWait(Below) /\ Waits(Below[Len(Below)])
      /\ Top.outer \in Fixpoint \cup {None} /\ OutersUncut(Below) /\ Uncut(Top.outer)
  BY <1>1, ResolveBelow, UncutBelow
<1>3. /\ r \in Note /\ r.lowest \in Nat /\ r.cut = None /\ NoteAt(r, Len(stack))
      /\ \A c \in Ctx : state[c] # "Cut" /\ read[c].cut = None
      /\ read \in [Ctx -> Note] /\ stack \in Seq(Ctx) /\ Len(stack) \in Nat
  BY <1>1, ResolveOnTop, TopFrame DEF NoCut, Uncut, Note, NoteAt
<1>4. CASE Merged \/ Joined
  <2>1. PICK rd : rd = KeepCut(read, Range(Top.members), None)
    OBVIOUS
  <2>2. rd \in [Ctx -> Note] /\ \A c \in Ctx : rd[c].cut = None
    <3>1. rd \in [Ctx -> Note]
      BY <1>3, <2>1, KeepCutType
    <3>2. \A n \in Note : n.cut = None => Noted(n, IsCut(None)).cut = None
      BY DEF Noted, IsCut, Nothing
    <3> QED BY <1>3, <2>1, <3>1, <3>2 DEF KeepCut
  <2>3. \A c \in Ctx : state'[c] # "Cut"
    <3>1. state' = [c \in Ctx |-> IF c \in Range(Top.members) THEN "Parked" ELSE state[c]]
      BY <1>4 DEF Merged, Joined, ParkAll
    <3> QED BY <1>3, <3>1
  <2>4. \E n, got : /\ NoteAt(n, Len(stack)) /\ n.cut = None /\ got \in (SUBSET V) \cup {None}
                    /\ Return(Below, rd, Top.outer, stack, n, got)
    <3>1. CASE Merged
      <4>1. r.lowest # NoDepth /\ Return(Below, rd, Top.outer, stack, DependsOn(r.lowest), None)
        BY <1>3, <2>1, <3>1 DEF Merged
      <4>2. r.lowest < Len(stack)
        BY <1>3, <4>1 DEF NoteAt
      <4>3. NoteAt(DependsOn(r.lowest), Len(stack)) /\ DependsOn(r.lowest).cut = None
        BY <1>3, <4>2, DependsOnType DEF DependsOn, Nothing
      <4> QED BY <4>1, <4>3
    <3>2. CASE Joined
      <4> DEFINE m == ReadGroupMember(Top.head, state', heads', current, Top.outer, stack)
      <4>1. /\ MemberOver /\ r.joins # None /\ KeepsResolved /\ ParkAll(r.joins)
            /\ current' = current /\ result' = result
            /\ Return(Below, rd, Top.outer, stack, m.note, m.got)
        BY <1>3, <2>1, <3>2 DEF Joined
      <4>2. r.joins \in Ctx
        BY <1>3, <4>1 DEF Note
      <4>3. /\ heads' \in [Ctx -> Ctx]
            /\ \A c \in Ctx : state'[c] = "Running" <=> state[c] = "Running"
        BY <4>1, <4>2, ParkAllType
      <4>4. Top.head \in Ctx /\ current[Top.head] \in FunctionResult
        BY <1>1, ResolveOnTop
      <4>5. state'[heads'[Top.head]] = "Running" =>
               depth[heads'[Top.head]] \in Nat /\ depth[heads'[Top.head]] < Len(stack)
        <5>1. heads'[Top.head] \in Ctx
          BY <4>3, <4>4
        <5> QED BY <4>3, <5>1, RunningDepth
      <4>6. NoteAt(m.note, Len(stack)) /\ m.got \in (SUBSET V) \cup {None}
        BY <1>3, <4>3, <4>4, <4>5, GroupReadType
      <4>7. m.note.cut = None
        BY DEF ReadGroupMember, DependsOn, Joins, Nothing
      <4> HIDE DEF m
      <4> QED BY <4>1, <4>6, <4>7
    <3> QED BY <1>4, <3>1, <3>2
  <2> QED BY <1>2, <1>3, <2>2, <2>3, <2>4, UncutAfterReturn
<1>5. CASE Settle
  <2> DEFINE seq == Top.members \o Joiners
             ms == Range(seq)
             new == Range(Joiners)
             last(c) == IF c \in new THEN RoundZero(walk[c]) ELSE current[c]
             res(c) == [last(c) EXCEPT !.capped = Capped(Top), !.cut = None]
             rd == [c \in Ctx |-> IF c \in ms THEN [read[c] EXCEPT !.cut = None] ELSE read[c]]
             got == res(Top.head).returns
  <2>1. Top.members \in Seq(Ctx) /\ Joiners \in Seq(Ctx) /\ seq \in Seq(Ctx)
    BY <1>1, ResolveOnTop, JoinersType, RangeOfConcat
  <2>2. FirstCut(seq) = None
    <3> HIDE DEF seq
    <3>1. \A i \in DOMAIN seq : seq[i] \in Ctx
      BY <2>1, SeqType
    <3>2. {i \in DOMAIN seq : read[seq[i]].cut # None} = {}
      BY <1>3, <3>1
    <3> QED BY <3>2 DEF FirstCut
  <2>3. /\ Return(Below, rd, Top.outer, stack, IsCut(None), got)
        /\ \A c \in Ctx : state'[c] = IF c \notin ms THEN state[c] ELSE "Ready"
    <3>1. (IF r.cut # None THEN r.cut ELSE FirstCut(seq)) = None
      BY <1>3, <2>2
    <3> QED BY <1>5, <3>1 DEF Settle
  <2>4. rd \in [Ctx -> Note] /\ \A c \in Ctx : rd[c].cut = None
    <3>1. \A c \in Ctx : [read[c] EXCEPT !.cut = None] \in Note
                         /\ [read[c] EXCEPT !.cut = None].cut = None
      BY <1>3 DEF Note
    <3> HIDE DEF ms
    <3> QED BY <1>3, <3>1
  <2>5. got \in (SUBSET V) \cup {None}
    <3>1. /\ Top.head \in Ctx /\ Top.head \in Range(Top.members)
          /\ state[Top.head] = "Resolving" /\ current[Top.head] \in FunctionResult
      BY <1>1, ResolveOnTop
    <3>2. last(Top.head) = current[Top.head]
      BY <1>1, <3>1, JoinersType
    <3>3. got = current[Top.head].returns
      <4> HIDE DEF last
      <4> QED BY <3>1, <3>2 DEF FunctionResult
    <3> HIDE DEF got
    <3> QED BY <3>1, <3>3, ReturnsType
  <2>6. NoteAt(IsCut(None), Len(stack)) /\ IsCut(None).cut = None
    BY <1>3, IsCutType DEF IsCut, Nothing
  <2>7. \A c \in Ctx : state'[c] # "Cut"
    BY <1>3, <2>3
  <2> HIDE DEF rd, got, ms, seq
  <2> QED BY <1>2, <1>3, <2>3, <2>4, <2>5, <2>6, <2>7, UncutAfterReturn
<1> QED BY <1>4, <1>5

(* The deadline stays passed.                                              *)
LEMMA ExpiredStays == expired /\ [Next]_vars => expired'
<1> SUFFICES ASSUME expired, [Next]_vars PROVE expired'
  OBVIOUS
<1>1. CASE Get
  BY <1>1 DEF Get, GetReady, GetRunning, GetGroupMember, GetCut, GetWalk
<1>2. CASE WalkStep
  BY <1>2 DEF WalkStep, DeferCall, StartCall, FinishCall, ParkInCycle, ParkInGroup, FinishAlone
<1>3. CASE FixpointStep
  BY <1>3 DEF FixpointStep, ResolveGroup, ReplayCall, ReplayDone, NextMember, Merged, Joined,
              NextRound, Settle
<1>4. CASE DeadlinePasses \/ Finished \/ UNCHANGED vars
  BY <1>4 DEF DeadlinePasses, Finished, vars
<1> QED BY <1>1, <1>2, <1>3, <1>4 DEF Next, Thread

(* Until the deadline passes nothing is cut, while the limits spare the    *)
(* calls.                                                                  *)
LEMMA UncutNext ==
  Inv /\ (NoCut \/ expired) /\ LimitsSpare /\ [Next]_vars => (NoCut \/ expired)'
<1> SUFFICES ASSUME Inv, NoCut \/ expired, LimitsSpare, [Next]_vars PROVE NoCut' \/ expired'
  OBVIOUS
<1>1. CASE expired
  BY <1>1, ExpiredStays
<1>2. CASE ~expired
  <2>0. NoCut /\ Inv'
    BY <1>2, NextInv
  <2>1. CASE Get
    <3>1. ~GetCut
      BY <1>2 DEF GetCut, LimitsSpare
    <3> QED BY <2>0, <2>1, <3>1, UncutByGet, UncutByGetWalk DEF Get
  <2>2. CASE WalkStep
    BY <2>0, <2>2, UncutByWalks, UncutByTop DEF WalkStep
  <2>3. CASE FixpointStep
    BY <2>0, <2>3, UncutByResolveGroup, UncutByTop, UncutByFixpoints DEF FixpointStep
  <2>4. CASE DeadlinePasses
    BY <2>4 DEF DeadlinePasses
  <2>5. CASE Finished \/ UNCHANGED vars
    BY <2>0, <2>5 DEF Finished, vars, slots, NoCut
  <2> QED BY <2>1, <2>2, <2>3, <2>4, <2>5 DEF Next, Thread
<1> QED BY <1>1, <1>2

(* A context that is walked is new, where nothing was cut: it gets its     *)
(* slot and is counted once.                                               *)
LEMMA WalkedNewNext ==
  ASSUME Reuse
  PROVE  Inv /\ (NoCut \/ expired) /\ WalkedNew /\ [Next]_vars => WalkedNew'
<1> SUFFICES ASSUME Inv, NoCut \/ expired, WalkedNew, [Next]_vars PROVE WalkedNew'
  OBVIOUS
<1>1. CASE GetWalk
  <2> DEFINE c == Wanted(Top)
  <2>1. c \in Ctx /\ c.func \in Func /\ MustWalk(c)
    BY <1>1, WantedType, CtxType DEF GetWalk
  <2>2. ~expired
    <3>1. CostLimit(c) = None
      BY <1>1 DEF GetWalk
    <3>2. None \notin {"Stack", "Contexts", "ContextsPerFunc", "Deadline"}
      BY CutAssumption DEF Cut
    <3> QED BY <3>1, <3>2 DEF CostLimit
  <2>3. state[c] = "New"
    BY <2>1, <2>2 DEF NoCut, MustWalk
  <2>4. /\ walks' = walks + 1 /\ perFunc' = [perFunc EXCEPT ![c.func] = @ + 1]
        /\ state' = [state EXCEPT ![c] = "Running"]
    BY <1>1 DEF GetWalk
  <2>5. /\ state \in [Ctx -> {"New", "Running", "Parked", "Resolving", "Ready", "Cut"}]
        /\ perFunc \in [Func -> Nat]
    BY DEF Inv, TypeOK
  <2> HIDE DEF c
  <2>6. Known' = Known \cup {c} /\ c \notin Known
    BY <2>1, <2>3, <2>4, <2>5 DEF Known
  <2>7. IsFiniteSet(Known') /\ walks' = Cardinality(Known')
    <3>1. IsFiniteSet(Known \cup {c}) /\ Cardinality(Known \cup {c}) = Cardinality(Known) + 1
      BY <2>6, FS_AddElement DEF WalkedNew
    <3> QED BY <2>4, <2>6, <3>1 DEF WalkedNew
  <2>8. ASSUME NEW f \in Func PROVE perFunc'[f] = Cardinality(KnownOf(f)')
    <3>1. perFunc[f] = Cardinality(KnownOf(f)) /\ IsFiniteSet(KnownOf(f))
      BY FS_Subset DEF WalkedNew, KnownOf
    <3>2. CASE f = c.func
      <4>1. KnownOf(f)' = KnownOf(f) \cup {c} /\ c \notin KnownOf(f)
        BY <2>6, <3>2 DEF KnownOf
      <4>2. Cardinality(KnownOf(f) \cup {c}) = Cardinality(KnownOf(f)) + 1
        BY <3>1, <4>1, FS_AddElement
      <4>3. perFunc'[f] = perFunc[f] + 1
        BY <2>4, <2>5, <3>2
      <4> QED BY <3>1, <4>1, <4>2, <4>3
    <3>3. CASE f # c.func
      <4>1. KnownOf(f)' = KnownOf(f) /\ perFunc'[f] = perFunc[f]
        BY <2>1, <2>4, <2>5, <2>6, <3>3 DEF KnownOf
      <4> QED BY <3>1, <4>1
    <3> QED BY <3>2, <3>3
  <2> QED BY <2>7, <2>8 DEF WalkedNew
<1>2. CASE ~GetWalk
  <2>1. StaysKnown
    BY <1>2, KnownByOthers
  <2>2. Known' = Known
    BY <2>1 DEF StaysKnown, Known
  <2>3. \A f \in Func : KnownOf(f)' = KnownOf(f)
    BY <2>2 DEF KnownOf
  <2> QED BY <2>1, <2>2, <2>3 DEF StaysKnown, WalkedNew, counters
<1> QED BY <1>1, <1>2

(* solve starts with nothing cut and nothing walked.                       *)
LEMMA InitWalkedNew == Init => NoCut /\ WalkedNew
<1> SUFFICES ASSUME Init PROVE NoCut /\ WalkedNew
  OBVIOUS
<1>1. NoCut
  <2>1. \A c \in Ctx : state[c] = "New" /\ read[c] = Nothing
    BY DEF Init
  <2>2. OutersUncut(ctl)
    BY DEF Init, OutersUncut
  <2>3. Uncut(fixpoint)
    BY DEF Init, Uncut
  <2> QED BY <2>1, <2>2, <2>3 DEF NoCut, Nothing
<1>2. Known = {} /\ \A f \in Func : KnownOf(f) = {}
  BY DEF Init, Known, KnownOf
<1>3. walks = 0 /\ \A f \in Func : perFunc[f] = 0
  BY DEF Init
<1> QED BY <1>1, <1>2, <1>3, FS_EmptySet DEF WalkedNew

(* Every context is walked once, in every program and however often its    *)
(* group is merged, joined or restarted, whenever the deadline passes, as  *)
(* long as no other limit stops a call before it.                          *)
THEOREM WalkedOnceIfSpared ==
  ASSUME Reuse
  PROVE  Spec /\ []LimitsSpare => []WalkedOnce
<1>1. Init => Inv /\ (NoCut \/ expired) /\ WalkedNew
  BY InitInv, InitWalkedNew
<1>2. Inv /\ (NoCut \/ expired) /\ WalkedNew /\ LimitsSpare /\ [Next]_vars
        => (Inv /\ (NoCut \/ expired) /\ WalkedNew)'
  BY NextInv, UncutNext, WalkedNewNext
<1>3. WalkedNew => WalkedOnce
  BY DEF WalkedNew, WalkedOnce, Known
<1> QED BY <1>1, <1>2, <1>3, PTL DEF Spec

(* Limits no program of this size reaches: no smaller than the number of   *)
(* contexts there are.                                                     *)
LargeLimits ==
    /\ Reuse /\ IsFiniteSet(Ctx)
    /\ Cardinality(Ctx) <= MaxStack
    /\ Cardinality(Ctx) <= MaxContexts
    /\ Cardinality(Ctx) <= ContextsPerFunc

(* A new context finds room under such limits: the walks open and the      *)
(* contexts counted are other contexts, each once.                         *)
LEMMA LargeLimitsSpare ==
  LargeLimits /\ Inv /\ (NoCut \/ expired) /\ WalkedNew => LimitsSpare
<1> DEFINE c == Wanted(Top)
<1> SUFFICES ASSUME LargeLimits, Inv, NoCut, WalkedNew, Asks(Top), MustWalk(c), ~expired
             PROVE  CostLimit(c) = None
  BY DEF LimitsSpare
<1>1. c \in Ctx /\ c.func \in Func
  BY WantedType, CtxType
<1>2. state[c] = "New"
  BY <1>1 DEF NoCut, MustWalk, LargeLimits
<1> HIDE DEF c
<1>3. Known \subseteq Ctx \ {c} /\ IsFiniteSet(Ctx) /\ IsFiniteSet(Known)
  BY <1>1, <1>2 DEF Known, WalkedNew, LargeLimits
<1>4. /\ Cardinality(Known) \in Nat /\ Cardinality(Ctx) \in Nat
      /\ Cardinality(Known) < Cardinality(Ctx)
  <2>1. IsFiniteSet(Ctx \ {c}) /\ Cardinality(Ctx \ {c}) = Cardinality(Ctx) - 1
    BY <1>1, <1>3, FS_RemoveElement
  <2>2. Cardinality(Known) <= Cardinality(Ctx \ {c})
    BY <1>3, <2>1, FS_Subset
  <2>3. Cardinality(Known) \in Nat /\ Cardinality(Ctx) \in Nat
    BY <1>3, FS_CardinalityType
  <2> QED BY <2>1, <2>2, <2>3
<1>5. walks < MaxContexts
  BY <1>4, LimitAssumption DEF WalkedNew, LargeLimits
<1>6. perFunc[c.func] < ContextsPerFunc
  <2>1. KnownOf(c.func) \in SUBSET Known
    BY DEF KnownOf
  <2>2. IsFiniteSet(KnownOf(c.func)) /\ Cardinality(KnownOf(c.func)) <= Cardinality(Known)
    BY <1>3, <2>1, FS_Subset
  <2>3. Cardinality(KnownOf(c.func)) \in Nat /\ perFunc[c.func] = Cardinality(KnownOf(c.func))
    BY <1>1, <2>2, FS_CardinalityType DEF WalkedNew
  <2> QED BY <1>4, <2>2, <2>3, LimitAssumption DEF LargeLimits
<1>7. Len(stack) < MaxStack
  <2>1. PICK n \in Nat : n = Len(stack) /\ DOMAIN stack = 1..n
    BY TopFrame, SeqType
  <2>2. \A i \in 1..n : stack[i] \in Known
    <3> TAKE i \in 1..n
    <3>1. stack[i] \in Ctx /\ stack[i] \in Range(stack)
      BY <2>1, TopFrame, SeqType DEF Range
    <3>2. state[stack[i]] = "Running"
      BY <3>1 DEF Inv, StackMatches
    <3> QED BY <3>1, <3>2 DEF Known
  <2>3. stack \in [1..n -> Known]
    <3>1. stack \in [1..n -> Ctx]
      BY <2>1, TopFrame
    <3> QED BY <2>2, <3>1
  <2>4. stack \in Injection(1..n, Known)
    BY <2>1, <2>3, StackDistinct DEF Injection, IsInjective
  <2>5. Cardinality(1..n) <= Cardinality(Known)
    BY <1>3, <2>4, FS_Injection
  <2>6. Cardinality(1..n) = n
    <3>1. Cardinality(1..n) = IF 1 > n THEN 0 ELSE n - 1 + 1
      BY FS_Interval
    <3> QED BY <3>1
  <2> QED BY <1>4, <2>1, <2>5, <2>6, LimitAssumption DEF LargeLimits
<1>8. walks \in Nat /\ perFunc[c.func] \in Nat /\ Len(stack) \in Nat
  BY <1>1, TopFrame DEF Inv, TypeOK
<1> QED BY <1>5, <1>6, <1>7, <1>8, LimitAssumption DEF CostLimit

(* Limits as large as the number of contexts spare every call, whatever    *)
(* the program and whenever the deadline passes: each context is walked    *)
(* once.                                                                   *)
THEOREM WalkedOnceUnderLargeLimits ==
  ASSUME LargeLimits
  PROVE  Spec => []WalkedOnce
<1>1. Init => Inv /\ (NoCut \/ expired) /\ WalkedNew
  BY InitInv, InitWalkedNew
<1>2. Inv /\ (NoCut \/ expired) /\ WalkedNew /\ [Next]_vars
        => (Inv /\ (NoCut \/ expired) /\ WalkedNew)'
  BY NextInv, LargeLimitsSpare, UncutNext, WalkedNewNext DEF LargeLimits
<1>3. WalkedNew => WalkedOnce
  BY DEF WalkedNew, WalkedOnce, Known
<1> QED BY <1>1, <1>2, <1>3, PTL DEF Spec
=============================================================================
