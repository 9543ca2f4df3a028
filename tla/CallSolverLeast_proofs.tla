------------------------ MODULE CallSolverLeast_proofs ------------------------
(***************************************************************************)
(* The proofs that the equations of a program have a least solution; that, *)
(* as CallSolver leaves nothing out (CallSolverClosed_proofs) and makes    *)
(* nothing up (CallSolverBounds_proofs), its summaries are that solution   *)
(* and its edges the calls of it; and that it implements SummaryStore.     *)
(***************************************************************************)
EXTENDS CallSolverClosed_proofs

-----------------------------------------------------------------------------
(* Least bounds.                                                           *)

(* The values vals hold no more than us.                                   *)
Less(vals, us) ==
    DOMAIN vals = DOMAIN us /\ \A i \in DOMAIN vals : vals[i].known \subseteq us[i].known

(* Context k is c, or c with an argument that may hold less.               *)
UnderCtx(k, c) == k.func = c.func /\ k.arg \subseteq c.arg

(* An expression has no more values where its sites have none.             *)
LEMMA EvalLess ==
  ASSUME NEW vals, NEW us, Less(vals, us), NEW c, NEW d, c.arg \subseteq d.arg, NEW e
  PROVE  Eval(e, c, vals).known \subseteq Eval(e, d, us).known
<1>1. \A i \in e.sites \cap DOMAIN vals : i \in e.sites \cap DOMAIN us
                                          /\ vals[i].known \subseteq us[i].known
  BY DEF Less
<1>2. UNION {vals[i].known : i \in e.sites \cap DOMAIN vals}
        \subseteq UNION {us[i].known : i \in e.sites \cap DOMAIN us}
  BY <1>1
<1> QED BY <1>2 DEF Eval

(* Nor have the callees and the argument of a site.                        *)
LEMMA SiteLess ==
  ASSUME NEW vals \in Seq(Value), NEW us \in Seq(Value), Less(vals, us),
         NEW i \in DOMAIN vals, NEW p, NEW c, NEW d, UnderCtx(c, d)
  PROVE  /\ CalleeOf(p, c, vals, i).known \subseteq CalleeOf(p, d, us, i).known
         /\ ArgOf(p, c, vals, i).known \subseteq ArgOf(p, d, us, i).known
<1>1. Less(Before(vals, i), Before(us, i))
  <2>1. i \in DOMAIN us
    BY DEF Less
  <2>2. /\ DOMAIN Before(vals, i) = 1..(i - 1)
        /\ \A k \in 1..(i - 1) : Before(vals, i)[k] = vals[k]
    BY BeforeType
  <2>3. /\ DOMAIN Before(us, i) = 1..(i - 1)
        /\ \A k \in 1..(i - 1) : Before(us, i)[k] = us[k]
    BY <2>1, BeforeType
  <2>4. \A k \in 1..(i - 1) : k \in DOMAIN vals
    BY SeqType
  <2>5. \A k \in 1..(i - 1) : vals[k].known \subseteq us[k].known
    BY <2>4 DEF Less
  <2> QED BY <2>2, <2>3, <2>5 DEF Less
<1>2. c.func = d.func /\ c.arg \subseteq d.arg
  BY DEF UnderCtx
<1> QED BY <1>1, <1>2, EvalLess DEF CalleeOf, ArgOf

(* The answers within X account for the calls of a site if they hold no    *)
(* more than X, and the reverse.                                           *)
LEMMA SiteAccounted ==
  ASSUME NEW p, NEW S, NEW c, NEW vals, NEW i, NEW X,
         CalleeOf(p, c, vals, i).known \subseteq V, ArgOf(p, c, vals, i).known \subseteq V
  PROVE  SiteValue(p, S, c, Before(vals, i), i) \subseteq X
           <=> Accounted(CalleeOf(p, c, vals, i).known, ArgOf(p, c, vals, i).known, X,
                         {d \in Ctx : S[d] \subseteq X})
<1>1. PICK callees, arg, D : /\ callees = CalleeOf(p, c, vals, i).known
                             /\ arg = ArgOf(p, c, vals, i).known
                             /\ D = {d \in Ctx : S[d] \subseteq X}
  OBVIOUS
<1>2. SiteCtxs(p, c, Before(vals, i), i) = Keys(callees, arg)
  BY <1>1 DEF SiteCtxs, Keys, CalleeOf, ArgOf
<1>3. SiteValue(p, S, c, Before(vals, i), i)
        = (callees \cap {Unknown})
             \cup (IF arg = {} THEN {} ELSE UNION {S[d] : d \in Keys(callees, arg)})
  BY <1>1, <1>2 DEF SiteValue, CalleeOf, ArgOf
<1>4. \A d \in Keys(callees, arg) : d \in Ctx
  BY <1>1, KeyType DEF Keys
<1>5. UNION {S[d] : d \in Keys(callees, arg)} \subseteq X <=> Keys(callees, arg) \subseteq D
  BY <1>1, <1>4
<1>6. SiteValue(p, S, c, Before(vals, i), i) \subseteq X <=> Accounted(callees, arg, X, D)
  BY <1>3, <1>5 DEF Accounted
<1> QED BY <1>1, <1>6

(* Fewer callees with less of an argument are accounted for by what        *)
(* answers under what answered.                                            *)
LEMMA AccountedLess ==
  ASSUME NEW callees, NEW arg \in SUBSET V, NEW X, NEW E, Accounted(callees, arg, X, E),
         NEW few, few \subseteq callees, NEW less, less \subseteq arg,
         NEW D, \A e \in E, k \in Ctx : UnderCtx(k, e) => k \in D
  PROVE  Accounted(few, less, X, D)
<1> SUFFICES ASSUME less # {}, NEW f \in few \cap Func PROVE Key(f, less) \in D
  BY DEF Accounted, Keys
<1>1. Key(f, arg) \in E
  BY DEF Accounted, Keys
<1>2. Key(f, less) \in Ctx
  BY KeyType
<1>3. UnderCtx(Key(f, less), Key(f, arg))
  BY DEF UnderCtx, Key
<1> QED BY <1>1, <1>2, <1>3

(* What a site of a context calls, and with what, are values.              *)
LEMMA CallOfType ==
  ASSUME NEW p \in [Func -> Body], NEW c \in Ctx, NEW vals \in Seq(Value),
         DOMAIN vals = DOMAIN p[c.func].sites, NEW i \in DOMAIN vals
  PROVE  CalleeOf(p, c, vals, i) \in Value /\ ArgOf(p, c, vals, i) \in Value
<1>1. p[c.func].sites \in Seq(CallSite)
  <2>1. p[c.func] \in Body
    BY CtxType
  <2> QED BY <2>1 DEF Body
<1>2. p[c.func].sites[i] \in CallSite
  BY <1>1
<1>3. p[c.func].sites[i].callee \in Expr /\ p[c.func].sites[i].arg \in Expr
  BY <1>2 DEF CallSite
<1>4. Before(vals, i) \in Seq(Value)
  <2>1. Len(vals) \in Nat /\ DOMAIN vals = 1..Len(vals) /\ i \in 1..Len(vals)
    BY SeqType
  <2>2. i - 1 \in 0..Len(vals)
    BY <2>1
  <2> QED BY <2>1, <2>2 DEF Before
<1> QED BY <1>3, <1>4, EvalType DEF CalleeOf, ArgOf

(* What answered for more values accounts for a site that has fewer.       *)
LEMMA AnswersSuffice ==
  ASSUME NEW p \in [Func -> Body], NEW S, NEW c \in Ctx, NEW d \in Ctx, UnderCtx(c, d),
         NEW vals \in Seq(Value), DOMAIN vals = DOMAIN p[c.func].sites,
         NEW us \in Seq(Value), Less(vals, us), NEW i \in DOMAIN vals,
         NEW X, NEW E,
         Accounted(CalleeOf(p, d, us, i).known, ArgOf(p, d, us, i).known, X, E),
         \A e \in E, k \in Ctx : UnderCtx(k, e) => S[k] \subseteq X
  PROVE  SiteValue(p, S, c, Before(vals, i), i) \subseteq X
<1>1. DOMAIN us = DOMAIN p[d.func].sites /\ i \in DOMAIN us
  <2>1. c.func = d.func
    BY DEF UnderCtx
  <2>2. DOMAIN vals = DOMAIN us
    BY DEF Less
  <2> QED BY <2>1, <2>2
<1>2. /\ CalleeOf(p, c, vals, i) \in Value /\ ArgOf(p, c, vals, i) \in Value
      /\ ArgOf(p, d, us, i) \in Value
  BY <1>1, CallOfType
<1>3. PICK callees, arg, few, less : /\ callees = CalleeOf(p, d, us, i).known
                                     /\ arg = ArgOf(p, d, us, i).known
                                     /\ few = CalleeOf(p, c, vals, i).known
                                     /\ less = ArgOf(p, c, vals, i).known
  OBVIOUS
<1>4. few \subseteq V /\ less \subseteq V /\ arg \in SUBSET V
  BY <1>2, <1>3 DEF Value
<1>5. few \subseteq callees /\ less \subseteq arg
  BY <1>3, SiteLess
<1>6. Accounted(callees, arg, X, E)
  BY <1>3
<1>7. PICK D : D = {k \in Ctx : S[k] \subseteq X}
  OBVIOUS
<1>8. \A e \in E, k \in Ctx : UnderCtx(k, e) => k \in D
  BY <1>7
<1>9. Accounted(few, less, X, D)
  BY <1>4, <1>5, <1>6, <1>8, AccountedLess
<1>10. Accounted(CalleeOf(p, c, vals, i).known, ArgOf(p, c, vals, i).known, X,
                 {k \in Ctx : S[k] \subseteq X})
  BY <1>3, <1>7, <1>9
<1>11. /\ CalleeOf(p, c, vals, i).known \subseteq V
       /\ ArgOf(p, c, vals, i).known \subseteq V
  BY <1>3, <1>4
<1> QED BY <1>10, <1>11, SiteAccounted

(* In D, the answers R account for every call of the values U.             *)
CallsAccounted(p, D, R, d, us) ==
    \A i \in DOMAIN us :
        Accounted(CalleeOf(p, d, us, i).known, ArgOf(p, d, us, i).known, us[i].known,
                  {e \in D : R[e] \subseteq us[i].known})
Accounts(p, D, R, U) ==
    \A d \in D :
        /\ U[d] \in Seq(Value) /\ DOMAIN U[d] = DOMAIN p[d.func].sites
        /\ CallsAccounted(p, D, R, d, U[d])
        /\ Eval(p[d.func].rets, d, U[d]).known \subseteq R[d]

(* The bound S, W without what the answers of D above a context lack.      *)
LessS(S, D, R) ==
    [c \in Ctx |-> {v \in S[c] : \A d \in D : UnderCtx(c, d) => v \in R[d]}]
LessW(W, D, U) ==
    [c \in Ctx |-> [i \in DOMAIN W[c] |->
        [known   |-> {v \in W[c][i].known : \A d \in D : UnderCtx(c, d) => v \in U[d][i].known},
         pending |-> {}]]]

(* Those are sequences of values.                                          *)
LEMMA LessWType ==
  ASSUME NEW W \in [Ctx -> Seq(Value)], NEW D, NEW U
  PROVE  /\ LessW(W, D, U) \in [Ctx -> Seq(Value)]
         /\ \A c \in Ctx : /\ DOMAIN LessW(W, D, U)[c] = DOMAIN W[c]
                           /\ Less(LessW(W, D, U)[c], W[c])
<1> SUFFICES ASSUME NEW c \in Ctx
             PROVE  /\ LessW(W, D, U)[c] \in Seq(Value)
                    /\ DOMAIN LessW(W, D, U)[c] = DOMAIN W[c]
                    /\ Less(LessW(W, D, U)[c], W[c])
  BY DEF LessW
<1> DEFINE few(i) == {v \in W[c][i].known :
                         \A d \in D : UnderCtx(c, d) => v \in U[d][i].known}
<1>1. PICK f : f = LessW(W, D, U)[c]
  OBVIOUS
<1>2. f = [i \in DOMAIN W[c] |-> [known |-> few(i), pending |-> {}]]
  BY <1>1 DEF LessW
<1>3. \A i \in DOMAIN W[c] : W[c][i] \in Value
  OBVIOUS
<1>4. \A i \in DOMAIN W[c] : W[c][i].known \subseteq V
  BY <1>3 DEF Value
<1>5. \A i \in DOMAIN W[c] : few(i) \subseteq W[c][i].known
  OBVIOUS
<1> HIDE DEF few
<1>6. \A i \in DOMAIN W[c] : [known |-> few(i), pending |-> {}] \in Value
  BY <1>4, <1>5 DEF Value
<1>7. PICK n \in Nat : DOMAIN W[c] = 1..n
  BY SeqType
<1>8. f \in [1..n -> Value]
  BY <1>2, <1>6, <1>7
<1>9. f \in Seq(Value)
  BY <1>8
<1>10. DOMAIN f = DOMAIN W[c] /\ \A i \in DOMAIN f : f[i].known \subseteq W[c][i].known
  BY <1>2, <1>5
<1> QED BY <1>1, <1>9, <1>10 DEF Less

(* What D accounts for is less than what D has.                            *)
LEMMA LessUnder ==
  ASSUME NEW p, NEW S, NEW W, BoundOf(p, S, W), NEW D, NEW R, NEW U, Accounts(p, D, R, U),
         NEW c \in Ctx, NEW d \in D, UnderCtx(c, d)
  PROVE  Less(LessW(W, D, U)[c], U[d])
<1>1. DOMAIN U[d] = DOMAIN p[d.func].sites /\ DOMAIN W[c] = DOMAIN p[c.func].sites
  BY DEF Accounts, BoundOf, Bounds
<1>2. c.func = d.func
  BY DEF UnderCtx
<1>3. DOMAIN LessW(W, D, U)[c] = DOMAIN W[c]
  BY DEF LessW
<1>4. \A i \in DOMAIN W[c] : LessW(W, D, U)[c][i].known \subseteq U[d][i].known
  BY DEF LessW
<1> QED BY <1>1, <1>2, <1>3, <1>4 DEF Less

(* A site that has no more values than those of a bound has none but those *)
(* the bound gives it.                                                     *)
LEMMA SiteUnderBound ==
  ASSUME NEW p, NEW T, NEW X, BoundOf(p, T, X),
         NEW S, \A c \in Ctx : S[c] \subseteq T[c],
         NEW c \in Ctx, NEW vals \in Seq(Value), Less(vals, X[c]), NEW i \in DOMAIN vals
  PROVE  SiteValue(p, S, c, Before(vals, i), i) \subseteq X[c][i].known
<1>1. /\ p \in [Func -> Body] /\ X \in [Ctx -> Seq(Value)] /\ Bounds(p, T, X)
      /\ T \in [Ctx -> SUBSET V]
  BY DEF BoundOf
<1>2. X[c] \in Seq(Value) /\ DOMAIN X[c] = DOMAIN p[c.func].sites
  BY <1>1 DEF Bounds
<1>3. i \in DOMAIN X[c] /\ DOMAIN vals = DOMAIN p[c.func].sites
  BY <1>2 DEF Less
<1>4. PICK K, E : K = X[c][i].known /\ E = {d \in Ctx : T[d] \subseteq K}
  OBVIOUS
<1>5. SiteValue(p, T, c, Before(X[c], i), i) \subseteq K
  BY <1>1, <1>3, <1>4 DEF Bounds
<1>6. CalleeOf(p, c, X[c], i) \in Value /\ ArgOf(p, c, X[c], i) \in Value
  BY <1>1, <1>2, <1>3, CallOfType
<1>7. CalleeOf(p, c, X[c], i).known \subseteq V /\ ArgOf(p, c, X[c], i).known \subseteq V
  BY <1>6 DEF Value
<1>8. Accounted(CalleeOf(p, c, X[c], i).known, ArgOf(p, c, X[c], i).known, K, E)
  <2>1. SiteValue(p, T, c, Before(X[c], i), i) \subseteq K
          <=> Accounted(CalleeOf(p, c, X[c], i).known, ArgOf(p, c, X[c], i).known, K,
                        {d \in Ctx : T[d] \subseteq K})
    BY <1>7, SiteAccounted
  <2> QED BY <1>4, <1>5, <2>1
<1>9. ASSUME NEW e \in E, NEW k \in Ctx, UnderCtx(k, e) PROVE S[k] \subseteq K
  <2>1. e \in Ctx /\ T[e] \subseteq K
    BY <1>4
  <2>2. T[k] \subseteq T[e]
    BY <1>1, <1>9, <2>1 DEF Bounds, UnderCtx
  <2> QED BY <2>1, <2>2
<1>10. UnderCtx(c, c)
  BY DEF UnderCtx
<1>11. SiteValue(p, S, c, Before(vals, i), i) \subseteq K
  BY <1>1, <1>2, <1>3, <1>8, <1>9, <1>10, AnswersSuffice
<1> QED BY <1>4, <1>11

(* The site values of what is left of a bound are left.                    *)
LEMMA LessSites ==
  ASSUME NEW p, NEW S, NEW W, BoundOf(p, S, W), NEW D, D \subseteq Ctx, NEW R, NEW U,
         Accounts(p, D, R, U), NEW T, NEW X, T = LessS(S, D, R), X = LessW(W, D, U),
         NEW c \in Ctx, NEW i \in DOMAIN X[c]
  PROVE  SiteValue(p, T, c, Before(X[c], i), i) \subseteq X[c][i].known
<1>1. /\ p \in [Func -> Body] /\ W \in [Ctx -> Seq(Value)] /\ Bounds(p, S, W)
      /\ S \in [Ctx -> SUBSET V]
  BY DEF BoundOf
<1>2. /\ X[c] \in Seq(Value) /\ W[c] \in Seq(Value) /\ DOMAIN X[c] = DOMAIN W[c]
      /\ Less(X[c], W[c])
  BY <1>1, LessWType
<1>3. DOMAIN W[c] = DOMAIN p[c.func].sites /\ i \in DOMAIN W[c]
  BY <1>1, <1>2 DEF Bounds
<1>4. \A d \in Ctx : T[d] \subseteq S[d]
  BY DEF LessS
<1>5. SiteValue(p, T, c, Before(X[c], i), i) \subseteq W[c][i].known
  BY <1>2, <1>4, SiteUnderBound
<1>6. ASSUME NEW d \in D, UnderCtx(c, d)
      PROVE  SiteValue(p, T, c, Before(X[c], i), i) \subseteq U[d][i].known
  <2>1. PICK K, E : K = U[d][i].known /\ E = {e \in D : R[e] \subseteq K}
    OBVIOUS
  <2>2. U[d] \in Seq(Value) /\ Less(X[c], U[d])
    BY <1>6, LessUnder DEF Accounts
  <2>3. i \in DOMAIN U[d]
    BY <2>2 DEF Less
  <2>4. Accounted(CalleeOf(p, d, U[d], i).known, ArgOf(p, d, U[d], i).known, K, E)
    <3>1. CallsAccounted(p, D, R, d, U[d])
      BY DEF Accounts
    <3> QED BY <2>1, <2>3, <3>1 DEF CallsAccounted
  <2>5. ASSUME NEW e \in E, NEW k \in Ctx, UnderCtx(k, e) PROVE T[k] \subseteq K
    <3>1. e \in D /\ R[e] \subseteq K
      BY <2>1
    <3>2. T[k] \subseteq R[e]
      BY <2>5, <3>1 DEF LessS
    <3> QED BY <3>1, <3>2
  <2>6. SiteValue(p, T, c, Before(X[c], i), i) \subseteq K
    <3>1. d \in Ctx
      OBVIOUS
    <3> QED BY <1>1, <1>2, <1>3, <1>6, <2>2, <2>4, <2>5, <3>1, AnswersSuffice
  <2> QED BY <2>1, <2>6
<1>7. X[c][i].known = {v \in W[c][i].known : \A d \in D : UnderCtx(c, d) => v \in U[d][i].known}
  BY <1>3 DEF LessW
<1> QED BY <1>5, <1>6, <1>7

(* So are its summaries: what is left of a bound is a bound.               *)
LEMMA LessIsBound ==
  ASSUME NEW p, NEW S, NEW W, BoundOf(p, S, W), NEW D, D \subseteq Ctx, NEW R, NEW U,
         Accounts(p, D, R, U)
  PROVE  BoundOf(p, LessS(S, D, R), LessW(W, D, U))
<1>1. PICK T, X : T = LessS(S, D, R) /\ X = LessW(W, D, U)
  OBVIOUS
<1>2. /\ p \in [Func -> Body] /\ W \in [Ctx -> Seq(Value)] /\ Bounds(p, S, W)
      /\ S \in [Ctx -> SUBSET V]
  BY DEF BoundOf
<1>3. T \in [Ctx -> SUBSET V] /\ X \in [Ctx -> Seq(Value)]
  <2>1. X \in [Ctx -> Seq(Value)]
    BY <1>1, <1>2, LessWType
  <2>2. \A c \in Ctx : S[c] \subseteq V
    BY <1>2
  <2>3. T \in [Ctx -> SUBSET V]
    BY <1>1, <2>2 DEF LessS
  <2> QED BY <2>1, <2>3
<1>4. \A c \in Ctx : T[c] = {v \in S[c] : \A d \in D : UnderCtx(c, d) => v \in R[d]}
  BY <1>1 DEF LessS
<1>5. ASSUME NEW c \in Ctx, NEW d \in Ctx, c.func = d.func, c.arg \subseteq d.arg
      PROVE  T[c] \subseteq T[d]
  <2>1. S[c] \subseteq S[d]
    BY <1>2, <1>5 DEF Bounds
  <2>2. \A e \in D : UnderCtx(d, e) => UnderCtx(c, e)
    BY <1>5 DEF UnderCtx
  <2> QED BY <1>4, <2>1, <2>2
<1>6. ASSUME NEW c \in Ctx
      PROVE  /\ DOMAIN X[c] = DOMAIN p[c.func].sites
             /\ \A i \in DOMAIN X[c] : SiteValue(p, T, c, Before(X[c], i), i) \subseteq X[c][i].known
             /\ Eval(p[c.func].rets, c, X[c]).known \subseteq T[c]
  <2>1. DOMAIN X[c] = DOMAIN W[c] /\ Less(X[c], W[c])
    BY <1>1, <1>2, LessWType
  <2>2. DOMAIN W[c] = DOMAIN p[c.func].sites /\ Eval(p[c.func].rets, c, W[c]).known \subseteq S[c]
    BY <1>2 DEF Bounds
  <2>3. Eval(p[c.func].rets, c, X[c]).known \subseteq S[c]
    BY <2>1, <2>2, EvalLess
  <2>4. ASSUME NEW d \in D, UnderCtx(c, d)
        PROVE  Eval(p[c.func].rets, c, X[c]).known \subseteq R[d]
    <3>1. c.func = d.func /\ c.arg \subseteq d.arg
      BY <2>4 DEF UnderCtx
    <3>2. Less(X[c], U[d])
      BY <1>1, <2>4, LessUnder
    <3>3. Eval(p[d.func].rets, d, U[d]).known \subseteq R[d]
      BY DEF Accounts
    <3>4. Eval(p[c.func].rets, c, X[c]).known \subseteq Eval(p[c.func].rets, d, U[d]).known
      BY <3>1, <3>2, EvalLess
    <3> QED BY <3>1, <3>3, <3>4
  <2>5. \A i \in DOMAIN X[c] : SiteValue(p, T, c, Before(X[c], i), i) \subseteq X[c][i].known
    BY <1>1, LessSites
  <2> QED BY <1>4, <2>1, <2>2, <2>3, <2>4, <2>5
<1>7. Bounds(p, T, X)
  BY <1>5, <1>6 DEF Bounds
<1> QED BY <1>1, <1>2, <1>3, <1>7 DEF BoundOf

(* S and W are a bound of the program p, and the least one.                *)
LeastBound(p, S, W) ==
    /\ BoundOf(p, S, W)
    /\ \A T \in [Ctx -> SUBSET V], X \in [Ctx -> Seq(Value)] :
          Bounds(p, T, X) => AtMost(S, W, T, X)

(* What every bound has.                                                   *)
InEveryS(p, c, v) ==
    \A T \in [Ctx -> SUBSET V], X \in [Ctx -> Seq(Value)] : Bounds(p, T, X) => v \in T[c]
InEveryW(p, c, i, v) ==
    \A T \in [Ctx -> SUBSET V], X \in [Ctx -> Seq(Value)] :
        Bounds(p, T, X) => v \in X[c][i].known
MeetAt(p, c, i) == {v \in V : InEveryW(p, c, i, v)}
MeetS(p) == [c \in Ctx |-> {v \in V : InEveryS(p, c, v)}]
MeetW(p) ==
    [c \in Ctx |-> [i \in DOMAIN p[c.func].sites |->
        [known |-> MeetAt(p, c, i), pending |-> {}]]]

(* It is summaries and values.                                             *)
LEMMA MeetType ==
  ASSUME NEW p \in [Func -> Body]
  PROVE  /\ MeetS(p) \in [Ctx -> SUBSET V] /\ MeetW(p) \in [Ctx -> Seq(Value)]
         /\ \A c \in Ctx : DOMAIN MeetW(p)[c] = DOMAIN p[c.func].sites
<1>1. MeetS(p) \in [Ctx -> SUBSET V]
  BY DEF MeetS
<1>2. ASSUME NEW c \in Ctx
      PROVE  MeetW(p)[c] \in Seq(Value) /\ DOMAIN MeetW(p)[c] = DOMAIN p[c.func].sites
  <2>1. PICK f : f = MeetW(p)[c]
    OBVIOUS
  <2>2. f = [i \in DOMAIN p[c.func].sites |-> [known |-> MeetAt(p, c, i), pending |-> {}]]
    BY <2>1 DEF MeetW
  <2>3. \A i \in DOMAIN p[c.func].sites : MeetAt(p, c, i) \subseteq V
    BY DEF MeetAt
  <2>4. \A i \in DOMAIN p[c.func].sites : [known |-> MeetAt(p, c, i), pending |-> {}] \in Value
    BY <2>3 DEF Value
  <2>5. p[c.func] \in Body
    BY CtxType
  <2>6. p[c.func].sites \in Seq(CallSite)
    BY <2>5 DEF Body
  <2>7. PICK n \in Nat : DOMAIN p[c.func].sites = 1..n
    BY <2>6, SeqType
  <2>8. f \in [1..n -> Value]
    BY <2>2, <2>4, <2>7
  <2>9. f \in Seq(Value)
    BY <2>8
  <2> QED BY <2>1, <2>2, <2>9
<1>3. MeetW(p) = [c \in Ctx |-> MeetW(p)[c]]
  BY DEF MeetW
<1> QED BY <1>1, <1>2, <1>3

(* It is at most each of them.                                             *)
LEMMA MeetAtMost ==
  ASSUME NEW p \in [Func -> Body], NEW T \in [Ctx -> SUBSET V], NEW X \in [Ctx -> Seq(Value)],
         Bounds(p, T, X)
  PROVE  AtMost(MeetS(p), MeetW(p), T, X)
<1> SUFFICES ASSUME NEW c \in Ctx
             PROVE  /\ MeetS(p)[c] \subseteq T[c]
                    /\ \A i \in DOMAIN MeetW(p)[c] : MeetW(p)[c][i].known \subseteq X[c][i].known
  BY DEF AtMost
<1>1. MeetS(p)[c] \subseteq T[c]
  <2>1. \A v \in V : InEveryS(p, c, v) => v \in T[c]
    BY DEF InEveryS
  <2> QED BY <2>1 DEF MeetS
<1>2. DOMAIN MeetW(p)[c] = DOMAIN p[c.func].sites
  BY DEF MeetW
<1>3. \A i \in DOMAIN p[c.func].sites : MeetW(p)[c][i].known = MeetAt(p, c, i)
  BY DEF MeetW
<1>4. \A i \in DOMAIN p[c.func].sites : MeetAt(p, c, i) \subseteq X[c][i].known
  BY DEF InEveryW, MeetAt
<1> QED BY <1>1, <1>2, <1>3, <1>4

(* A site has values only, when its callees have.                          *)
LEMMA SiteInV ==
  ASSUME NEW p \in [Func -> Body], NEW S \in [Ctx -> SUBSET V], NEW c \in Ctx,
         NEW vals \in Seq(Value), DOMAIN vals = DOMAIN p[c.func].sites, NEW i \in DOMAIN vals
  PROVE  SiteValue(p, S, c, Before(vals, i), i) \subseteq V
<1>1. CalleeOf(p, c, vals, i) \in Value /\ ArgOf(p, c, vals, i) \in Value
  BY CallOfType
<1>2. PICK callees, arg : /\ callees = CalleeOf(p, c, vals, i).known
                          /\ arg = ArgOf(p, c, vals, i).known
  OBVIOUS
<1>3. callees \subseteq V /\ arg \in SUBSET V
  BY <1>1, <1>2 DEF Value
<1>4. PICK D : D = {d \in Ctx : S[d] \subseteq V}
  OBVIOUS
<1>5. \A d \in Ctx : d \in D
  BY <1>4
<1>6. Keys(callees, arg) \subseteq D
  BY <1>3, <1>5, KeyType DEF Keys
<1>7. Accounted(callees, arg, V, D)
  BY <1>3, <1>6 DEF Accounted
<1>8. SiteValue(p, S, c, Before(vals, i), i) \subseteq V
        <=> Accounted(CalleeOf(p, c, vals, i).known, ArgOf(p, c, vals, i).known, V,
                      {d \in Ctx : S[d] \subseteq V})
  BY <1>2, <1>3, SiteAccounted
<1> QED BY <1>2, <1>4, <1>7, <1>8

(* What every bound has is a bound: the least one.                         *)
LEMMA MeetIsLeast ==
  ASSUME NEW p \in [Func -> Body]
  PROVE  LeastBound(p, MeetS(p), MeetW(p))
<1>1. PICK S, W : S = MeetS(p) /\ W = MeetW(p)
  OBVIOUS
<1>2. /\ S \in [Ctx -> SUBSET V] /\ W \in [Ctx -> Seq(Value)]
      /\ \A c \in Ctx : DOMAIN W[c] = DOMAIN p[c.func].sites
  BY <1>1, MeetType
<1>3. \A T \in [Ctx -> SUBSET V], X \in [Ctx -> Seq(Value)] :
         Bounds(p, T, X) => AtMost(S, W, T, X)
  BY <1>1, MeetAtMost
<1>4. ASSUME NEW T \in [Ctx -> SUBSET V], NEW X \in [Ctx -> Seq(Value)], Bounds(p, T, X),
             NEW c \in Ctx
      PROVE  /\ S[c] \subseteq T[c] /\ Less(W[c], X[c])
  <2>1. S[c] \subseteq T[c] /\ \A i \in DOMAIN W[c] : W[c][i].known \subseteq X[c][i].known
    BY <1>3, <1>4 DEF AtMost
  <2>2. DOMAIN X[c] = DOMAIN p[c.func].sites
    BY <1>4 DEF Bounds
  <2> QED BY <1>2, <2>1, <2>2 DEF Less
<1>5. \A c \in Ctx, v \in V : InEveryS(p, c, v) => v \in S[c]
  BY <1>1 DEF MeetS
<1>6. ASSUME NEW c \in Ctx, NEW i \in DOMAIN W[c], NEW v \in V, InEveryW(p, c, i, v)
      PROVE  v \in W[c][i].known
  <2>1. MeetW(p)[c][i].known = MeetAt(p, c, i)
    <3>1. \A k \in DOMAIN p[c.func].sites : MeetW(p)[c][k].known = MeetAt(p, c, k)
      BY DEF MeetW
    <3>2. i \in DOMAIN p[c.func].sites
      BY <1>2
    <3> QED BY <3>1, <3>2
  <2> QED BY <1>1, <1>6, <2>1 DEF MeetAt
<1>7. ASSUME NEW c \in Ctx, NEW d \in Ctx, c.func = d.func, c.arg \subseteq d.arg
      PROVE  S[c] \subseteq S[d]
  <2> SUFFICES ASSUME NEW v \in S[c] PROVE v \in S[d]
    OBVIOUS
  <2>1. v \in V
    BY <1>2
  <2>2. ASSUME NEW T \in [Ctx -> SUBSET V], NEW X \in [Ctx -> Seq(Value)], Bounds(p, T, X)
        PROVE  v \in T[d]
    <3>1. T[c] \subseteq T[d]
      BY <1>7, <2>2 DEF Bounds
    <3> QED BY <1>4, <2>2, <3>1
  <2>3. InEveryS(p, d, v)
    BY <2>2 DEF InEveryS
  <2> QED BY <1>5, <2>1, <2>3
<1>8. ASSUME NEW c \in Ctx, NEW i \in DOMAIN W[c]
      PROVE  SiteValue(p, S, c, Before(W[c], i), i) \subseteq W[c][i].known
  <2>1. PICK K : K = SiteValue(p, S, c, Before(W[c], i), i)
    OBVIOUS
  <2>2. W[c] \in Seq(Value) /\ DOMAIN W[c] = DOMAIN p[c.func].sites
    BY <1>2
  <2>3. K \subseteq V
    BY <1>2, <2>1, <2>2, SiteInV
  <2>4. ASSUME NEW T \in [Ctx -> SUBSET V], NEW X \in [Ctx -> Seq(Value)], Bounds(p, T, X)
        PROVE  K \subseteq X[c][i].known
    <3>1. BoundOf(p, T, X)
      BY <2>4 DEF BoundOf
    <3>2. Less(W[c], X[c]) /\ \A k \in Ctx : S[k] \subseteq T[k]
      BY <1>4, <2>4
    <3> QED BY <2>1, <2>2, <3>1, <3>2, SiteUnderBound
  <2>5. \A v \in K : InEveryW(p, c, i, v)
    BY <2>4 DEF InEveryW
  <2>6. \A v \in K : v \in W[c][i].known
    BY <1>6, <2>3, <2>5
  <2> QED BY <2>1, <2>6
<1>9. ASSUME NEW c \in Ctx PROVE Eval(p[c.func].rets, c, W[c]).known \subseteq S[c]
  <2>1. PICK K : K = Eval(p[c.func].rets, c, W[c]).known
    OBVIOUS
  <2>2. K \subseteq V
    <3>1. p[c.func] \in Body
      BY CtxType
    <3>2. p[c.func].rets \in Expr
      BY <3>1 DEF Body
    <3>3. Eval(p[c.func].rets, c, W[c]) \in Value
      BY <1>2, <3>2, EvalType
    <3> QED BY <2>1, <3>3 DEF Value
  <2>3. ASSUME NEW T \in [Ctx -> SUBSET V], NEW X \in [Ctx -> Seq(Value)], Bounds(p, T, X)
        PROVE  K \subseteq T[c]
    <3>1. Less(W[c], X[c])
      BY <1>4, <2>3
    <3>2. K \subseteq Eval(p[c.func].rets, c, X[c]).known
      BY <2>1, <3>1, EvalLess
    <3>3. Eval(p[c.func].rets, c, X[c]).known \subseteq T[c]
      BY <2>3 DEF Bounds
    <3> QED BY <3>2, <3>3
  <2>4. \A v \in K : InEveryS(p, c, v)
    BY <2>3 DEF InEveryS
  <2> QED BY <1>5, <2>1, <2>2, <2>4
<1>10. Bounds(p, S, W)
  BY <1>2, <1>7, <1>8, <1>9 DEF Bounds
<1>11. BoundOf(p, S, W)
  BY <1>2, <1>10 DEF BoundOf
<1> QED BY <1>1, <1>3, <1>11 DEF LeastBound

(* It has no more than any summaries that account for every call.          *)
LEMMA LeastAtMost ==
  ASSUME NEW p, NEW S, NEW W, LeastBound(p, S, W), NEW T, NEW X, Accounts(p, Ctx, T, X)
  PROVE  AtMost(S, W, T, X)
<1>1. BoundOf(p, S, W)
  BY DEF LeastBound
<1>2. PICK Q, Y : Q = LessS(S, Ctx, T) /\ Y = LessW(W, Ctx, X)
  OBVIOUS
<1>3. BoundOf(p, Q, Y)
  BY <1>1, <1>2, LessIsBound
<1>4. AtMost(S, W, Q, Y)
  BY <1>3 DEF LeastBound, BoundOf
<1>5. ASSUME NEW c \in Ctx
      PROVE  S[c] \subseteq T[c] /\ \A i \in DOMAIN W[c] : W[c][i].known \subseteq X[c][i].known
  <2>1. UnderCtx(c, c)
    BY DEF UnderCtx
  <2>2. Q[c] \subseteq T[c]
    BY <1>2, <2>1 DEF LessS
  <2>3. \A i \in DOMAIN W[c] : Y[c][i].known \subseteq X[c][i].known
    BY <1>2, <2>1 DEF LessW
  <2> QED BY <1>4, <2>2, <2>3 DEF AtMost
<1> QED BY <1>5 DEF AtMost

(* A solution accounts for every call.                                     *)
LEMMA SolutionAccounts ==
  ASSUME NEW p \in [Func -> Body], NEW T, NEW X \in [Ctx -> Seq(Value)], Solves(p, T, X)
  PROVE  Accounts(p, Ctx, T, X)
<1> SUFFICES ASSUME NEW c \in Ctx
             PROVE  /\ X[c] \in Seq(Value) /\ DOMAIN X[c] = DOMAIN p[c.func].sites
                    /\ CallsAccounted(p, Ctx, T, c, X[c])
                    /\ Eval(p[c.func].rets, c, X[c]).known \subseteq T[c]
  BY DEF Accounts
<1>1. /\ DOMAIN X[c] = DOMAIN p[c.func].sites
      /\ \A i \in DOMAIN X[c] : X[c][i].known = SiteValue(p, T, c, Before(X[c], i), i)
      /\ T[c] = Eval(p[c.func].rets, c, X[c]).known
  BY DEF Solves
<1>2. ASSUME NEW i \in DOMAIN X[c]
      PROVE  Accounted(CalleeOf(p, c, X[c], i).known, ArgOf(p, c, X[c], i).known, X[c][i].known,
                       {e \in Ctx : T[e] \subseteq X[c][i].known})
  <2>1. CalleeOf(p, c, X[c], i) \in Value /\ ArgOf(p, c, X[c], i) \in Value
    BY <1>1, CallOfType
  <2>2. CalleeOf(p, c, X[c], i).known \subseteq V /\ ArgOf(p, c, X[c], i).known \subseteq V
    BY <2>1 DEF Value
  <2>3. SiteValue(p, T, c, Before(X[c], i), i) \subseteq X[c][i].known
    BY <1>1
  <2> QED BY <2>2, <2>3, SiteAccounted
<1>3. CallsAccounted(p, Ctx, T, c, X[c])
  BY <1>2 DEF CallsAccounted
<1> QED BY <1>1, <1>3

(* What the equations give when calls answer the least bound.              *)
OnceS(p, W) == [c \in Ctx |-> Eval(p[c.func].rets, c, W[c]).known]
OnceW(p, S, W) ==
    [c \in Ctx |-> [i \in DOMAIN W[c] |->
        [known |-> SiteValue(p, S, c, Before(W[c], i), i), pending |-> {}]]]

(* It is values, no more than those of the bound.                          *)
LEMMA OnceType ==
  ASSUME NEW p, NEW S, NEW W, BoundOf(p, S, W), NEW c \in Ctx
  PROVE  /\ OnceW(p, S, W)[c] \in Seq(Value) /\ DOMAIN OnceW(p, S, W)[c] = DOMAIN p[c.func].sites
         /\ Less(OnceW(p, S, W)[c], W[c]) /\ OnceS(p, W)[c] \subseteq S[c]
         /\ \A i \in DOMAIN W[c] :
               OnceW(p, S, W)[c][i].known = SiteValue(p, S, c, Before(W[c], i), i)
<1>1. /\ p \in [Func -> Body] /\ W \in [Ctx -> Seq(Value)] /\ Bounds(p, S, W)
      /\ S \in [Ctx -> SUBSET V]
  BY DEF BoundOf
<1>2. /\ W[c] \in Seq(Value) /\ DOMAIN W[c] = DOMAIN p[c.func].sites
      /\ \A i \in DOMAIN W[c] : SiteValue(p, S, c, Before(W[c], i), i) \subseteq W[c][i].known
      /\ Eval(p[c.func].rets, c, W[c]).known \subseteq S[c]
  BY <1>1 DEF Bounds
<1>3. PICK f : f = OnceW(p, S, W)[c]
  OBVIOUS
<1>4. /\ DOMAIN f = DOMAIN W[c]
      /\ \A i \in DOMAIN W[c] :
            f[i] = [known |-> SiteValue(p, S, c, Before(W[c], i), i), pending |-> {}]
      /\ f = [i \in DOMAIN f |-> f[i]]
  BY <1>3 DEF OnceW
<1>5. ASSUME NEW i \in DOMAIN W[c]
      PROVE  f[i].known = SiteValue(p, S, c, Before(W[c], i), i) /\ f[i] \in Value
  <2>1. PICK K : K = SiteValue(p, S, c, Before(W[c], i), i)
    OBVIOUS
  <2>2. f[i] = [known |-> K, pending |-> {}]
    BY <1>4, <2>1
  <2>3. K \subseteq V
    BY <1>1, <1>2, <2>1, SiteInV
  <2>4. f[i].known = K /\ f[i] \in Value
    BY <2>2, <2>3 DEF Value
  <2> QED BY <2>1, <2>4
<1>6. \A i \in DOMAIN W[c] : f[i] \in Value
  BY <1>5
<1>7. PICK n \in Nat : DOMAIN W[c] = 1..n
  BY <1>2, SeqType
<1>8. f \in [1..n -> Value]
  BY <1>4, <1>6, <1>7
<1>9. f \in Seq(Value)
  BY <1>8
<1>10. Less(f, W[c])
  BY <1>2, <1>4, <1>5 DEF Less
<1>11. OnceS(p, W)[c] \subseteq S[c]
  BY <1>2 DEF OnceS
<1> QED BY <1>2, <1>3, <1>4, <1>5, <1>9, <1>10, <1>11

(* It accounts for every call.                                             *)
LEMMA OnceAccounts ==
  ASSUME NEW p, NEW S, NEW W, BoundOf(p, S, W)
  PROVE  Accounts(p, Ctx, OnceS(p, W), OnceW(p, S, W))
<1>1. PICK T, X : T = OnceS(p, W) /\ X = OnceW(p, S, W)
  OBVIOUS
<1>2. /\ p \in [Func -> Body] /\ W \in [Ctx -> Seq(Value)] /\ Bounds(p, S, W)
      /\ S \in [Ctx -> SUBSET V]
  BY DEF BoundOf
<1> SUFFICES ASSUME NEW c \in Ctx
             PROVE  /\ X[c] \in Seq(Value) /\ DOMAIN X[c] = DOMAIN p[c.func].sites
                    /\ CallsAccounted(p, Ctx, T, c, X[c])
                    /\ Eval(p[c.func].rets, c, X[c]).known \subseteq T[c]
  BY <1>1 DEF Accounts
<1>3. /\ X[c] \in Seq(Value) /\ DOMAIN X[c] = DOMAIN p[c.func].sites
      /\ Less(X[c], W[c]) /\ \A d \in Ctx : T[d] \subseteq S[d]
      /\ \A i \in DOMAIN W[c] : X[c][i].known = SiteValue(p, S, c, Before(W[c], i), i)
  BY <1>1, OnceType
<1>4. W[c] \in Seq(Value) /\ DOMAIN W[c] = DOMAIN X[c]
  BY <1>2, <1>3 DEF Less
<1>5. ASSUME NEW i \in DOMAIN X[c]
      PROVE  Accounted(CalleeOf(p, c, X[c], i).known, ArgOf(p, c, X[c], i).known, X[c][i].known,
                       {e \in Ctx : T[e] \subseteq X[c][i].known})
  <2>1. PICK K : K = X[c][i].known
    OBVIOUS
  <2>2. K = SiteValue(p, S, c, Before(W[c], i), i)
    BY <1>3, <1>4, <2>1
  <2>3. CalleeOf(p, c, W[c], i) \in Value /\ ArgOf(p, c, W[c], i) \in Value
    BY <1>2, <1>3, <1>4, CallOfType
  <2>4. CalleeOf(p, c, W[c], i).known \subseteq V /\ ArgOf(p, c, W[c], i).known \in SUBSET V
    BY <2>3 DEF Value
  <2>5. SiteValue(p, S, c, Before(W[c], i), i) \subseteq K
          <=> Accounted(CalleeOf(p, c, W[c], i).known, ArgOf(p, c, W[c], i).known, K,
                        {d \in Ctx : S[d] \subseteq K})
    BY <2>4, SiteAccounted
  <2>6. PICK callees, arg, few, less, E, D :
          /\ callees = CalleeOf(p, c, W[c], i).known /\ arg = ArgOf(p, c, W[c], i).known
          /\ few = CalleeOf(p, c, X[c], i).known /\ less = ArgOf(p, c, X[c], i).known
          /\ E = {d \in Ctx : S[d] \subseteq K} /\ D = {d \in Ctx : T[d] \subseteq K}
    OBVIOUS
  <2>7. Accounted(callees, arg, K, E)
    BY <2>2, <2>5, <2>6
  <2>8. few \subseteq callees /\ less \subseteq arg
    <3>1. UnderCtx(c, c)
      BY DEF UnderCtx
    <3> QED BY <1>3, <1>4, <2>6, <3>1, SiteLess
  <2>9. ASSUME NEW e \in E, NEW k \in Ctx, UnderCtx(k, e) PROVE k \in D
    <3>1. e \in Ctx /\ S[e] \subseteq K
      BY <2>6
    <3>2. S[k] \subseteq S[e]
      BY <1>2, <2>9, <3>1 DEF Bounds, UnderCtx
    <3>3. T[k] \subseteq S[k]
      BY <1>3
    <3> QED BY <2>6, <3>1, <3>2, <3>3
  <2>10. arg \in SUBSET V
    BY <2>4, <2>6
  <2>11. Accounted(few, less, K, D)
    BY <2>7, <2>8, <2>9, <2>10, AccountedLess
  <2> QED BY <2>1, <2>6, <2>11
<1>6. CallsAccounted(p, Ctx, T, c, X[c])
  BY <1>5 DEF CallsAccounted
<1>7. Eval(p[c.func].rets, c, X[c]).known \subseteq T[c]
  <2>1. T[c] = Eval(p[c.func].rets, c, W[c]).known
    BY <1>1 DEF OnceS
  <2> QED BY <1>3, <2>1, EvalLess
<1> QED BY <1>3, <1>6, <1>7

(* The least bound is a solution, and the least one.                       *)
LEMMA LeastBoundSolves ==
  ASSUME NEW p, NEW S, NEW W, LeastBound(p, S, W)
  PROVE  IsLeastSolution(p, S, W)
<1>1. BoundOf(p, S, W)
  BY DEF LeastBound
<1>2. p \in [Func -> Body] /\ Bounds(p, S, W) /\ S \in [Ctx -> SUBSET V]
  BY <1>1 DEF BoundOf
<1>3. AtMost(S, W, OnceS(p, W), OnceW(p, S, W))
  BY <1>1, OnceAccounts, LeastAtMost
<1>4. ASSUME NEW c \in Ctx
      PROVE  /\ DOMAIN W[c] = DOMAIN p[c.func].sites
             /\ \A i \in DOMAIN W[c] : W[c][i].known = SiteValue(p, S, c, Before(W[c], i), i)
             /\ S[c] = Eval(p[c.func].rets, c, W[c]).known
  <2>1. /\ DOMAIN W[c] = DOMAIN p[c.func].sites
        /\ \A i \in DOMAIN W[c] : SiteValue(p, S, c, Before(W[c], i), i) \subseteq W[c][i].known
        /\ Eval(p[c.func].rets, c, W[c]).known \subseteq S[c]
    BY <1>2 DEF Bounds
  <2>2. PICK T, X : T = OnceS(p, W) /\ X = OnceW(p, S, W)
    OBVIOUS
  <2>3. S[c] \subseteq T[c] /\ \A i \in DOMAIN W[c] : W[c][i].known \subseteq X[c][i].known
    BY <1>3, <2>2 DEF AtMost
  <2>4. \A i \in DOMAIN W[c] : X[c][i].known = SiteValue(p, S, c, Before(W[c], i), i)
    BY <1>1, <2>2, OnceType
  <2>5. T[c] = Eval(p[c.func].rets, c, W[c]).known
    BY <2>2 DEF OnceS
  <2>6. ASSUME NEW i \in DOMAIN W[c]
        PROVE  W[c][i].known = SiteValue(p, S, c, Before(W[c], i), i)
    <3>1. PICK K : K = SiteValue(p, S, c, Before(W[c], i), i)
      OBVIOUS
    <3>2. K \subseteq W[c][i].known /\ W[c][i].known \subseteq X[c][i].known /\ X[c][i].known = K
      BY <2>1, <2>3, <2>4, <3>1
    <3>3. W[c][i].known = K
      BY <3>2
    <3> QED BY <3>1, <3>3
  <2>7. S[c] = Eval(p[c.func].rets, c, W[c]).known
    BY <2>1, <2>3, <2>5
  <2> QED BY <2>1, <2>6, <2>7
<1>5. Solves(p, S, W)
  BY <1>4 DEF Solves
<1>6. ASSUME NEW T \in [Ctx -> SUBSET V], NEW X \in [Ctx -> Seq(Value)], Solves(p, T, X)
      PROVE  AtMost(S, W, T, X)
  BY <1>2, <1>6, SolutionAccounts, LeastAtMost
<1> QED BY <1>5, <1>6 DEF IsLeastSolution

(* The equations of every program have a least solution: summaries and     *)
(* call values that solve them, with no more in any of them than any other *)
(* solution has.                                                           *)
THEOREM LeastSolutionExists ==
  ASSUME NEW p \in [Func -> Body]
  PROVE  \E S \in [Ctx -> SUBSET V], W \in [Ctx -> Seq(Value)] : IsLeastSolution(p, S, W)
<1>1. IsLeastSolution(p, MeetS(p), MeetW(p))
  BY MeetIsLeast, LeastBoundSolves
<1>2. MeetS(p) \in [Ctx -> SUBSET V] /\ MeetW(p) \in [Ctx -> Seq(Value)]
  BY MeetType
<1> QED BY <1>1, <1>2

(* It is the least bound.                                                  *)
LEMMA LeastUnique ==
  ASSUME NEW p, NEW S, NEW W, LeastBound(p, S, W),
         NEW T \in [Ctx -> SUBSET V], NEW X \in [Ctx -> Seq(Value)], IsLeastSolution(p, T, X),
         NEW c \in Ctx
  PROVE  S[c] = T[c] /\ Less(W[c], X[c]) /\ Less(X[c], W[c])
<1>1. IsLeastSolution(p, S, W)
  BY LeastBoundSolves
<1>2. S \in [Ctx -> SUBSET V] /\ W \in [Ctx -> Seq(Value)]
  BY DEF LeastBound, BoundOf
<1>3. Solves(p, S, W) /\ Solves(p, T, X)
  BY <1>1 DEF IsLeastSolution
<1>4. AtMost(S, W, T, X)
  BY <1>1, <1>3 DEF IsLeastSolution
<1>5. AtMost(T, X, S, W)
  BY <1>2, <1>3 DEF IsLeastSolution
<1>6. DOMAIN W[c] = DOMAIN p[c.func].sites /\ DOMAIN X[c] = DOMAIN p[c.func].sites
  BY <1>3 DEF Solves
<1>7. S[c] \subseteq T[c] /\ T[c] \subseteq S[c]
  BY <1>4, <1>5 DEF AtMost
<1>8. /\ \A i \in DOMAIN W[c] : W[c][i].known \subseteq X[c][i].known
      /\ \A i \in DOMAIN X[c] : X[c][i].known \subseteq W[c][i].known
  BY <1>4, <1>5 DEF AtMost
<1> QED BY <1>6, <1>7, <1>8 DEF Less

(* Sites with the same values before them make the same calls.             *)
LEMMA SameCalls ==
  ASSUME NEW vals \in Seq(Value), NEW us \in Seq(Value), Less(vals, us), Less(us, vals),
         NEW i \in DOMAIN vals, NEW p, NEW c
  PROVE  /\ CalleeOf(p, c, vals, i).known = CalleeOf(p, c, us, i).known
         /\ ArgOf(p, c, vals, i).known = ArgOf(p, c, us, i).known
<1>1. UnderCtx(c, c)
  BY DEF UnderCtx
<1>2. i \in DOMAIN us
  BY DEF Less
<1>3. /\ CalleeOf(p, c, vals, i).known \subseteq CalleeOf(p, c, us, i).known
      /\ ArgOf(p, c, vals, i).known \subseteq ArgOf(p, c, us, i).known
  BY <1>1, SiteLess
<1>4. /\ CalleeOf(p, c, us, i).known \subseteq CalleeOf(p, c, vals, i).known
      /\ ArgOf(p, c, us, i).known \subseteq ArgOf(p, c, vals, i).known
  BY <1>1, <1>2, SiteLess
<1> QED BY <1>3, <1>4

-----------------------------------------------------------------------------
(* What the finished summaries are.                                        *)

(* The contexts that have one, and what they hold.                         *)
ReadyIn(st) == {c \in Ctx : st[c] = "Ready"}
ReturnsOf(res) == [c \in Ctx |-> res[c].returns]

(* They account for every call.                                            *)
LEMMA ReadyAccounts ==
  ASSUME NEW p, NEW st, NEW res, NEW U,
         \A c \in ReadyIn(st) : U[c] \in Seq(Value) /\ Closed(p, st, res, c, U[c])
  PROVE  Accounts(p, ReadyIn(st), ReturnsOf(res), U)
<1>1. PICK D, R : D = ReadyIn(st) /\ R = ReturnsOf(res)
  OBVIOUS
<1>2. \A c \in D : c \in Ctx /\ st[c] = "Ready" /\ R[c] = res[c].returns
  BY <1>1 DEF ReadyIn, ReturnsOf
<1>3. ASSUME NEW X PROVE Finals(st, res, X) = {e \in D : R[e] \subseteq X}
  <2>1. \A e \in Ctx : e \in D <=> st[e] = "Ready"
    BY <1>1 DEF ReadyIn
  <2> QED BY <1>2, <2>1 DEF Finals
<1>4. ASSUME NEW c \in D
      PROVE  /\ U[c] \in Seq(Value) /\ DOMAIN U[c] = DOMAIN p[c.func].sites
             /\ CallsAccounted(p, D, R, c, U[c])
             /\ Eval(p[c.func].rets, c, U[c]).known \subseteq R[c]
  <2>1. U[c] \in Seq(Value) /\ Closed(p, st, res, c, U[c])
    BY <1>1
  <2>2. DOMAIN U[c] = DOMAIN p[c.func].sites
        /\ Eval(p[c.func].rets, c, U[c]).known \subseteq res[c].returns
    BY <2>1 DEF Closed
  <2>3. \A i \in DOMAIN U[c] :
           Accounted(CalleeOf(p, c, U[c], i).known, ArgOf(p, c, U[c], i).known, U[c][i].known,
                     Finals(st, res, U[c][i].known))
    BY <2>1 DEF Closed
  <2>4. ASSUME NEW i \in DOMAIN U[c]
        PROVE  Accounted(CalleeOf(p, c, U[c], i).known, ArgOf(p, c, U[c], i).known,
                         U[c][i].known, {e \in D : R[e] \subseteq U[c][i].known})
    <3>1. Finals(st, res, U[c][i].known) = {e \in D : R[e] \subseteq U[c][i].known}
      BY <1>3
    <3> QED BY <2>3, <3>1
  <2>5. CallsAccounted(p, D, R, c, U[c])
    BY <2>4 DEF CallsAccounted
  <2> QED BY <1>2, <2>1, <2>2, <2>5
<1> QED BY <1>1, <1>4 DEF Accounts

(* Closed and below every bound, they are what the least bound has.        *)
LEMMA ReadyIsLeastBound ==
  ASSUME NEW p, NEW st, NEW res, NEW S, NEW W, LeastBound(p, S, W), NEW U,
         \A c \in ReadyIn(st) : U[c] \in Seq(Value) /\ Closed(p, st, res, c, U[c]),
         NEW c \in ReadyIn(st), res[c].returns \subseteq S[c]
  PROVE  res[c].returns = S[c] /\ Less(W[c], U[c]) /\ Less(U[c], W[c])
<1>1. PICK D, R : D = ReadyIn(st) /\ R = ReturnsOf(res)
  OBVIOUS
<1>2. PICK Q, Y : Q = LessS(S, D, R) /\ Y = LessW(W, D, U)
  OBVIOUS
<1>3. BoundOf(p, S, W) /\ c \in Ctx /\ c \in D /\ D \subseteq Ctx
  BY <1>1 DEF LeastBound, ReadyIn
<1>4. Accounts(p, D, R, U)
  BY <1>1, ReadyAccounts
<1>5. BoundOf(p, Q, Y)
  BY <1>2, <1>3, <1>4, LessIsBound
<1>6. AtMost(S, W, Q, Y)
  BY <1>5 DEF LeastBound, BoundOf
<1>7. UnderCtx(c, c)
  BY DEF UnderCtx
<1>8. S[c] \subseteq res[c].returns
  <2>1. S[c] \subseteq Q[c]
    BY <1>3, <1>6 DEF AtMost
  <2>2. Q[c] \subseteq R[c]
    BY <1>2, <1>3, <1>7 DEF LessS
  <2>3. R[c] = res[c].returns
    BY <1>1, <1>3 DEF ReturnsOf
  <2> QED BY <2>1, <2>2, <2>3
<1>9. /\ DOMAIN U[c] = DOMAIN p[c.func].sites /\ SitesBelow(p, c, U[c])
  BY DEF Closed
<1>10. DOMAIN W[c] = DOMAIN U[c]
  BY <1>3, <1>9 DEF BoundOf, Bounds
<1>11. Less(U[c], W[c])
  <2>1. \A i \in DOMAIN U[c] : U[c][i].known \subseteq W[c][i].known
    BY <1>3, <1>9 DEF SitesBelow, BoundOf
  <2> QED BY <1>10, <2>1 DEF Less
<1>12. Less(W[c], U[c])
  <2>1. \A i \in DOMAIN W[c] : W[c][i].known \subseteq Y[c][i].known
    BY <1>3, <1>6 DEF AtMost
  <2>2. \A i \in DOMAIN W[c] : Y[c][i].known \subseteq U[c][i].known
    BY <1>2, <1>3, <1>7 DEF LessW
  <2> QED BY <1>10, <2>1, <2>2 DEF Less
<1> QED BY <1>8, <1>11, <1>12

(* Less is transitive.                                                     *)
LEMMA LessTrans ==
  ASSUME NEW vals, NEW us, NEW ws, Less(vals, us), Less(us, ws)
  PROVE  Less(vals, ws)
BY DEF Less

(* Their call sites have the values of the least solution.                 *)
LEMMA ReadySites ==
  ASSUME Inv, ReadyIsClosed, ReadyBelowBounds,
         NEW T \in [Ctx -> SUBSET V], NEW X \in [Ctx -> Seq(Value)],
         IsLeastSolution(prog, T, X), NEW c \in Ctx, state[c] = "Ready"
  PROVE  /\ result[c].returns = T[c]
         /\ \E us \in Seq(Value) :
               Closed(prog, state, result, c, us) /\ Less(X[c], us) /\ Less(us, X[c])
<1>1. PICK p, st, res : p = prog /\ st = state /\ res = result
  OBVIOUS
<1>2. p \in [Func -> Body]
  BY <1>1, ProgramAssumption DEF Inv, TypeOK
<1>3. PICK S, W : S = MeetS(p) /\ W = MeetW(p)
  OBVIOUS
<1>4. LeastBound(p, S, W)
  BY <1>2, <1>3, MeetIsLeast
<1>5. PICK U : \A d \in ReadyIn(st) : U[d] \in Seq(Value) /\ Closed(p, st, res, d, U[d])
  <2>1. \A d \in ReadyIn(st) : \E vals \in Seq(Value) : Closed(p, st, res, d, vals)
    BY <1>1 DEF ReadyIsClosed, ReadyIn
  <2> DEFINE U == [d \in ReadyIn(st) |-> CHOOSE vals \in Seq(Value) : Closed(p, st, res, d, vals)]
  <2>2. \A d \in ReadyIn(st) : U[d] \in Seq(Value) /\ Closed(p, st, res, d, U[d])
    BY <2>1
  <2> QED BY <2>2
<1>6. c \in ReadyIn(st)
  BY <1>1 DEF ReadyIn
<1>7. res[c].returns \subseteq S[c]
  <2>1. S \in [Ctx -> SUBSET V] /\ W \in [Ctx -> Seq(Value)] /\ Bounds(p, S, W)
    BY <1>4 DEF LeastBound, BoundOf
  <2> QED BY <1>1, <2>1 DEF ReadyBelowBounds
<1>8. res[c].returns = S[c] /\ Less(W[c], U[c]) /\ Less(U[c], W[c])
  BY <1>4, <1>5, <1>6, <1>7, ReadyIsLeastBound
<1>9. S[c] = T[c] /\ Less(W[c], X[c]) /\ Less(X[c], W[c])
  BY <1>1, <1>4, LeastUnique
<1>10. Less(X[c], U[c]) /\ Less(U[c], X[c])
  BY <1>8, <1>9, LessTrans
<1>11. U[c] \in Seq(Value) /\ Closed(p, st, res, c, U[c])
  BY <1>5, <1>6
<1> QED BY <1>1, <1>8, <1>9, <1>10, <1>11

(* So they are the least solution of the equations.                        *)
LEMMA ReadyLeast ==
  ASSUME Inv, ReadyIsClosed, ReadyBelowBounds
  PROVE  ReadyIsLeast
<1> SUFFICES ASSUME NEW T \in [Ctx -> SUBSET V], NEW X \in [Ctx -> Seq(Value)],
                    IsLeastSolution(prog, T, X), NEW c \in Ctx, state[c] = "Ready"
             PROVE  /\ result[c].returns = T[c]
                    /\ result[c].calls
                         = [i \in DOMAIN X[c] |-> SiteCtxs(prog, c, Before(X[c], i), i)]
  BY DEF ReadyIsLeast
<1>1. PICK p, st, res : p = prog /\ st = state /\ res = result
  OBVIOUS
<1>2. res[c].returns = T[c]
  BY <1>1, ReadySites
<1>3. PICK us \in Seq(Value) : Closed(p, st, res, c, us) /\ Less(X[c], us) /\ Less(us, X[c])
  BY <1>1, ReadySites
<1>4. PICK vals, calls : vals = X[c] /\ vals \in Seq(Value) /\ calls = res[c].calls
  OBVIOUS
<1>5. /\ DOMAIN calls = DOMAIN us
      /\ \A i \in DOMAIN us : calls[i] = Keys(CalleeOf(p, c, us, i).known,
                                               ArgOf(p, c, us, i).known)
  BY <1>3, <1>4 DEF Closed
<1>6. Less(vals, us) /\ Less(us, vals) /\ DOMAIN vals = DOMAIN us
  BY <1>3, <1>4 DEF Less
<1>7. ASSUME NEW i \in DOMAIN vals PROVE calls[i] = SiteCtxs(p, c, Before(vals, i), i)
  <2>1. calls[i] = Keys(CalleeOf(p, c, us, i).known, ArgOf(p, c, us, i).known)
    BY <1>5, <1>6
  <2>2. /\ CalleeOf(p, c, vals, i).known = CalleeOf(p, c, us, i).known
        /\ ArgOf(p, c, vals, i).known = ArgOf(p, c, us, i).known
    BY <1>4, <1>6, SameCalls
  <2>3. SiteCtxs(p, c, Before(vals, i), i)
          = Keys(CalleeOf(p, c, vals, i).known, ArgOf(p, c, vals, i).known)
    BY DEF SiteCtxs, Keys, CalleeOf, ArgOf
  <2> QED BY <2>1, <2>2, <2>3
<1>8. calls \in Seq(SUBSET Ctx)
  <2>1. result[c] \in FunctionResult
    BY DEF Inv, SlotsFit
  <2> QED BY <1>1, <1>4, <2>1 DEF FunctionResult
<1>9. calls = [i \in DOMAIN vals |-> SiteCtxs(p, c, Before(vals, i), i)]
  BY <1>5, <1>6, <1>7, <1>8
<1> QED BY <1>1, <1>2, <1>4, <1>9

(* As long as no fixpoint gives up, every finished summary is the least    *)
(* solution of the program's equations, neither more nor less, and its     *)
(* edges are exactly the calls its body makes there: whatever the order    *)
(* the contexts are asked for in, the groups they are parked in and the    *)
(* number of rounds of each.                                               *)
THEOREM SummariesAreLeast ==
  ASSUME Reuse
  PROVE  Spec /\ []RoundsSuffice => []ReadyIsLeast
<1>1. Inv /\ ReadyIsClosed /\ ReadyBelowBounds => ReadyIsLeast
  BY ReadyLeast
<1> QED BY <1>1, Invariance, NothingLeftOut, NothingMadeUp, PTL

-----------------------------------------------------------------------------
(* The store of summaries.                                                 *)

(* The least solution is one.                                              *)
LEMMA LeastIsLeast ==
  ASSUME NEW p \in [Func -> Body]
  PROVE  /\ Least(p).S \in [Ctx -> SUBSET V] /\ Least(p).W \in [Ctx -> Seq(Value)]
         /\ IsLeastSolution(p, Least(p).S, Least(p).W)
<1>1. PICK S \in [Ctx -> SUBSET V], W \in [Ctx -> Seq(Value)] : IsLeastSolution(p, S, W)
  BY LeastSolutionExists
<1>2. PICK l : l = [S |-> S, W |-> W]
  OBVIOUS
<1>3. l \in [S: [Ctx -> SUBSET V], W: [Ctx -> Seq(Value)]] /\ l.S = S /\ l.W = W
  BY <1>2
<1>4. IsLeastSolution(p, l.S, l.W)
  BY <1>1, <1>3
<1>5. /\ Least(p) \in [S: [Ctx -> SUBSET V], W: [Ctx -> Seq(Value)]]
      /\ IsLeastSolution(p, Least(p).S, Least(p).W)
  BY <1>3, <1>4 DEF Least
<1> QED BY <1>5

(* What a finished summary holds.                                          *)
LEMMA ReadyCorrect ==
  ASSUME Inv, ReadyIsLeast
  PROVE  ReadyIsRight
<1> SUFFICES ASSUME NEW c \in Ctx, state[c] = "Ready" PROVE Summaries[c] = Answers[prog][c]
  BY DEF ReadyIsRight
<1>1. PICK p, S, W : p = prog /\ S = Least(p).S /\ W = Least(p).W
  OBVIOUS
<1>2. p \in Programs /\ p \in [Func -> Body]
  BY <1>1, ProgramAssumption DEF Inv, TypeOK
<1>3. S \in [Ctx -> SUBSET V] /\ W \in [Ctx -> Seq(Value)] /\ IsLeastSolution(prog, S, W)
  BY <1>1, <1>2, LeastIsLeast
<1>4. /\ result[c].returns = S[c]
      /\ result[c].calls = [i \in DOMAIN W[c] |-> SiteCtxs(prog, c, Before(W[c], i), i)]
  BY <1>3 DEF ReadyIsLeast
<1>5. Summaries[c] = [returns |-> result[c].returns, calls |-> result[c].calls]
  BY DEF Summaries
<1>6. PICK calls : calls = [i \in Sites(p, c) |-> CallsAt(p, c, i)]
  OBVIOUS
<1>7. result[c].calls = calls
  BY <1>1, <1>4, <1>6 DEF Sites, CallsAt
<1>8. Answers[p][c] = [returns |-> S[c], calls |-> calls]
  BY <1>1, <1>2, <1>6 DEF Answers
<1> QED BY <1>1, <1>4, <1>5, <1>7, <1>8

(* The calls it makes have theirs.                                         *)
LEMMA ReadyCallsReady ==
  ASSUME Inv, ReadyIsClosed, ReadyBelowBounds
  PROVE  CallsAreFinal
<1> SUFFICES ASSUME NEW c \in Ctx, state[c] = "Ready", NEW d \in Made[prog][c]
             PROVE  d \in Ctx /\ state[d] = "Ready"
  BY DEF CallsAreFinal
<1>1. PICK p, st, res, X : p = prog /\ st = state /\ res = result /\ X = Least(p).W
  OBVIOUS
<1>2. p \in Programs /\ p \in [Func -> Body]
  BY <1>1, ProgramAssumption DEF Inv, TypeOK
<1>3. Least(p).S \in [Ctx -> SUBSET V] /\ X \in [Ctx -> Seq(Value)]
      /\ IsLeastSolution(p, Least(p).S, X)
  BY <1>1, <1>2, LeastIsLeast
<1>4. PICK i \in DOMAIN X[c] : d \in CallsAt(p, c, i) /\ MadeAt(p, c, i)
  <2>1. Made[p][c] = UNION {CallsAt(p, c, i) : i \in {i \in Sites(p, c) : MadeAt(p, c, i)}}
    BY <1>2 DEF Made
  <2> QED BY <1>1, <2>1 DEF Sites
<1>5. PICK us \in Seq(Value) : Closed(p, st, res, c, us) /\ Less(X[c], us) /\ Less(us, X[c])
  BY <1>1, <1>2, <1>3, ReadySites
<1>6. i \in DOMAIN us
  BY <1>5 DEF Less
<1>7. PICK callees, arg : /\ callees = CalleeOf(p, c, us, i).known
                          /\ arg = ArgOf(p, c, us, i).known
  OBVIOUS
<1>8. /\ CalleeOf(p, c, X[c], i).known = callees /\ ArgOf(p, c, X[c], i).known = arg
  BY <1>3, <1>5, <1>7, SameCalls
<1>9. d \in Keys(callees, arg)
  BY <1>1, <1>4, <1>8 DEF CallsAt, SiteCtxs, Keys, CalleeOf, ArgOf
<1>10. arg # {}
  BY <1>1, <1>4, <1>8 DEF MadeAt, ArgAt, ArgOf
<1>11. Accounted(callees, arg, us[i].known, Finals(st, res, us[i].known))
  BY <1>5, <1>6, <1>7 DEF Closed
<1>12. d \in Finals(st, res, us[i].known)
  BY <1>9, <1>10, <1>11 DEF Accounted
<1> QED BY <1>1, <1>12 DEF Finals

(* If every call is made, they are all its edges.                          *)
LEMMA EdgesReady ==
  ASSUME Inv, ReadyIsRight, CallsAreFinal, EveryCallIsMade(prog)
  PROVE  CutsAreMarked
<1> SUFFICES ASSUME NEW c \in Ctx, state[c] = "Ready",
                    NEW i \in DOMAIN result[c].calls, NEW d \in result[c].calls[i]
             PROVE  state[d] = "Ready"
  BY DEF CutsAreMarked
<1>1. PICK p, calls : p = prog /\ calls = [k \in Sites(p, c) |-> CallsAt(p, c, k)]
  OBVIOUS
<1>2. p \in Programs
  BY <1>1 DEF Inv, TypeOK
<1>3. result[c].calls = calls
  <2>1. Summaries[c] = Answers[p][c]
    BY <1>1 DEF ReadyIsRight
  <2>2. Summaries[c].calls = result[c].calls
    BY DEF Summaries
  <2>3. Answers[p][c].calls = calls
    BY <1>1, <1>2 DEF Answers
  <2> QED BY <2>1, <2>2, <2>3
<1>4. i \in Sites(p, c) /\ d \in CallsAt(p, c, i)
  BY <1>1, <1>3
<1>5. MadeAt(p, c, i)
  BY <1>1, <1>4 DEF EveryCallIsMade
<1>6. d \in Made[p][c]
  BY <1>2, <1>4, <1>5 DEF Made
<1> QED BY <1>1, <1>6 DEF CallsAreFinal

(* Nothing is stored at the start.                                         *)
LEMMA InitStore == Init => Store!StoreInit
<1> SUFFICES ASSUME Init PROVE Store!StoreInit
  OBVIOUS
<1>1. prog \in Programs /\ \A c \in Ctx : state[c] # "Ready"
  BY DEF Init
<1>2. {c \in Ctx : state[c] = "Ready"} = {}
  BY <1>1
<1>3. Summaries = [c \in {} |-> Answers[prog][c]]
  BY <1>2 DEF Summaries
<1> QED BY <1>1, <1>3 DEF Store!StoreInit

(* What a step stores is right, and waits for nothing.                     *)
LEMMA StepStores ==
  ASSUME Reuse, Inv, ReadyIsRight', CallsAreFinal', [Next]_vars
  PROVE  [Store!StoreNext]_<<prog, Summaries>>
<1>1. PICK here, after, G : /\ here = {c \in Ctx : state[c] = "Ready"}
                            /\ after = {c \in Ctx : state'[c] = "Ready"}
                            /\ G = after \ here
  OBVIOUS
<1>2. PICK old, new : old = Summaries /\ new = Summaries'
  OBVIOUS
<1>3. /\ old = [c \in here |-> [returns |-> result[c].returns, calls |-> result[c].calls]]
      /\ new = [c \in after |-> [returns |-> result'[c].returns, calls |-> result'[c].calls]]
  BY <1>1, <1>2 DEF Summaries
<1>4. \A c \in here : c \in after /\ result'[c] = result[c]
  <2>1. \A c \in Ctx : StaysReady(c)
    BY ReadyKept
  <2> QED BY <1>1, <2>1 DEF StaysReady
<1>5. \A c \in here : new[c] = old[c]
  BY <1>3, <1>4
<1>6. after = G \cup here /\ G \subseteq Ctx \ here
  BY <1>1, <1>4
<1>7. prog' = prog
  BY SameProgram
<1>8. \A c \in after : new[c] = Answers[prog][c] /\ Made[prog][c] \subseteq after
  <2>1. \A c \in after : new[c] = Answers[prog][c]
    BY <1>1, <1>2, <1>7 DEF ReadyIsRight
  <2>2. \A c \in after : Made[prog][c] \subseteq after
    BY <1>1, <1>7 DEF CallsAreFinal
  <2> QED BY <2>1, <2>2
<1>9. CASE G = {}
  <2>1. new = old
    BY <1>3, <1>4, <1>6, <1>9
  <2> QED BY <1>2, <1>7, <2>1
<1>10. CASE G # {}
  <2>1. DOMAIN new \ DOMAIN old = G /\ DOMAIN old = here
    BY <1>1, <1>3
  <2>2. new = [c \in G \cup here |-> IF c \in G THEN Answers[prog][c] ELSE old[c]]
    BY <1>3, <1>5, <1>6, <1>8
  <2>3. \A c \in G : Made[prog][c] \subseteq G \cup here
    BY <1>6, <1>8
  <2>4. Store!Publish(G)
    BY <1>2, <1>6, <1>7, <1>10, <2>1, <2>2, <2>3 DEF Store!Publish, Store!Stored
  <2> QED BY <1>2, <2>1, <2>4 DEF Store!StoreNext, Store!Stored
<1> QED BY <1>9, <1>10

(* As long as no fixpoint gives up, every call a finished summary makes    *)
(* there, with an argument that has a value, leads to a finished summary.  *)
THEOREM CallsFinal ==
  ASSUME Reuse
  PROVE  Spec /\ []RoundsSuffice => []CallsAreFinal
<1>1. Inv /\ ReadyIsClosed /\ ReadyBelowBounds => CallsAreFinal
  BY ReadyCallsReady
<1> QED BY <1>1, Invariance, NothingLeftOut, NothingMadeUp, PTL

(* So a cut is never lost: if every call of the programs has an argument   *)
(* with a value, a summary that is not marked cut reads only summaries     *)
(* that are not.  The run `outside` is about a program where one has none. *)
THEOREM CutsMarked ==
  ASSUME Reuse, \A p \in Programs : EveryCallIsMade(p)
  PROVE  Spec /\ []RoundsSuffice => []CutsAreMarked
<1>1. Inv /\ ReadyIsLeast /\ CallsAreFinal => CutsAreMarked
  <2> SUFFICES ASSUME Inv, ReadyIsLeast, CallsAreFinal PROVE CutsAreMarked
    OBVIOUS
  <2>1. EveryCallIsMade(prog)
    BY DEF Inv, TypeOK
  <2> QED BY <2>1, ReadyCorrect, EdgesReady
<1> QED BY <1>1, Invariance, SummariesAreLeast, CallsFinal, PTL

(* The solver implements the store of summaries, as long as no fixpoint    *)
(* gives up: each step stores nothing or a whole group, with the least     *)
(* solution of its equations, once all the calls it makes are there.       *)
THEOREM SolverIsStore ==
  ASSUME Reuse
  PROVE  Spec /\ []RoundsSuffice => Store!StoreSpec
<1>1. Init => Store!StoreInit
  BY InitStore
<1>2. Inv /\ ReadyIsRight' /\ CallsAreFinal' /\ [Next]_vars
        => [Store!StoreNext]_<<prog, Summaries>>
  BY StepStores
<1>3. Inv /\ ReadyIsLeast => ReadyIsRight
  BY ReadyCorrect
<1> QED BY <1>1, <1>2, <1>3, Invariance, SummariesAreLeast, CallsFinal, PTL
        DEF Spec, Store!StoreSpec, Store!storeVars

=============================================================================
