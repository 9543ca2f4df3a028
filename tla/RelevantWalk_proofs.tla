------------------------- MODULE RelevantWalk_proofs -------------------------
(***************************************************************************)
(* The proofs that relevant_params flags every parameter a walk can use,   *)
(* and exactly those that flow to a sink, for every body, every number of  *)
(* parameters and every path.                                              *)
(***************************************************************************)
EXTENDS RelevantWalk, FiniteSetTheorems, WellFoundedInduction, TLAPS

(* A body is a sequence of statements, each with its fields.               *)
LEMMA BodyType ==
  ASSUME TypeOK
  PROVE  /\ body \in Seq(Stmt) /\ Len(body) \in Nat /\ DOMAIN body = 1..Len(body)
         /\ \A j \in DOMAIN body : body[j] \in Stmt
<1>1. body \in Seq(Stmt)
  BY BodyAssumption DEF TypeOK
<1> QED BY <1>1

(* The names a statement names are names of the body.                      *)
LEMMA StmtNames ==
  ASSUME NEW s \in Stmt, NEW esc
  PROVE  /\ s.value.names \subseteq Name /\ s.value.named \subseteq Name
         /\ SinkNames(s, esc) \subseteq Name /\ Declares(s) \subseteq Name
         /\ \A ts \in SUBSET s.to : TargetNames(ts) \subseteq Name
<1>1. s.value \in Expr /\ s.to \subseteq Target
  BY DEF Stmt
<1>2. s.value.names \subseteq Name /\ s.value.named \subseteq Name
  BY <1>1 DEF Expr
<1>3. \A ts \in SUBSET s.to : TargetNames(ts) \subseteq Name
  BY <1>1 DEF Target, TargetNames
<1>4. {t \in s.to : Stores(t)} \in SUBSET s.to
  OBVIOUS
<1>5. SinkNames(s, esc) \subseteq Name
  BY <1>2, <1>3, <1>4 DEF SinkNames
<1>6. Declares(s) \subseteq Name
  BY <1>3 DEF Declares
<1> QED BY <1>2, <1>3, <1>5, <1>6

(* What names hold are parameters.                                         *)
LEMMA ParamsOfType ==
  ASSUME NEW h \in [Name -> SUBSET Params], NEW ns \in SUBSET Name
  PROVE  ParamsOf(h, ns) \in SUBSET Params
BY DEF ParamsOf

(* A visit keeps the types, and only adds.                                 *)
LEMMA VisitType ==
  ASSUME NEW s \in Stmt, NEW esc, NEW h \in [Name -> SUBSET Params],
         NEW r \in SUBSET Params
  PROVE  /\ Grown(h, s, esc) \in [Name -> SUBSET Params]
         /\ \A n \in Name : h[n] \subseteq Grown(h, s, esc)[n]
         /\ Marked(h, r, s, esc) \in SUBSET Params
<1>1. ParamsOf(h, s.value.names) \in SUBSET Params
      /\ ParamsOf(h, SinkNames(s, esc)) \in SUBSET Params
  BY StmtNames, ParamsOfType
<1>2. Grown(h, s, esc) \in [Name -> SUBSET Params]
      /\ \A n \in Name : h[n] \subseteq Grown(h, s, esc)[n]
  BY <1>1 DEF Grown
<1>3. Marked(h, r, s, esc) \in SUBSET Params
  BY <1>1 DEF Marked
<1> QED BY <1>2, <1>3

(* The names declared before the next statement.                           *)
LEMMA DeclaredStep ==
  ASSUME NEW k \in Nat, k >= 1
  PROVE  DeclaredBefore(k + 1) = DeclaredBefore(k) \cup Declares(body[k])
<1>1. 1..(k + 1 - 1) = (1..(k - 1)) \cup {k}
  OBVIOUS
<1> QED BY <1>1 DEF DeclaredBefore

(* No name is declared before the first statement.                         *)
LEMMA DeclaredFirst == DeclaredBefore(1) = {}
<1>1. 1..(1 - 1) = {}
  OBVIOUS
<1> QED BY <1>1 DEF DeclaredBefore

(* Every parameter holds itself, and nothing is flagged, to begin with.    *)
LEMMA StartInv == WalkInit => RelevantInv
<1> SUFFICES ASSUME WalkInit PROVE RelevantInv
  OBVIOUS
<1> USE DEF WalkInit, Init
<1>1. body \in Seq(Stmt) /\ Len(body) \in Nat
  BY BodyAssumption
<1>2. TypeOK
  <2>1. at \in 1..(Len(body) + 1)
    BY <1>1
  <2>2. \A n \in Name : {n} \cap Params \in SUBSET Params
    OBVIOUS
  <2>3. holds \in [Name -> SUBSET Params] /\ env \in [Name -> SUBSET Params]
    BY <2>2
  <2> QED BY <2>1, <2>3 DEF TypeOK
<1>3. 1..(at - 1) = {} /\ escapes = DeclaredBefore(at)
  BY DeclaredFirst
<1>4. \A p \in Params : p \in holds[p]
  BY BodyAssumption
<1> QED BY <1>2, <1>3, <1>4 DEF RelevantInv, NothingMissed

(* A visit in a pass that found nothing finds its statement quiet.         *)
LEMMA VisitStep ==
  ASSUME RelevantInv, Visit, UNCHANGED walkVars
  PROVE  RelevantInv'
<1> DEFINE s == body[at]
<1>1. TypeOK /\ ~done /\ at \in 1..Len(body) /\ at \in DOMAIN body /\ at \in Nat /\ at >= 1
      /\ s \in Stmt
  BY BodyType DEF RelevantInv, Visit, TypeOK
<1>2. /\ holds' = Grown(holds, s, escapes) /\ relevant' = Marked(holds, relevant, s, escapes)
      /\ escapes' = escapes \cup Declares(s) /\ at' = at + 1 /\ body' = body /\ done' = done
      /\ changed' = (changed \/ holds' # holds \/ relevant' # relevant)
  BY DEF Visit, Changes
<1>3. env' = env /\ free' = free /\ seen' = seen
  BY DEF walkVars
<1>4. /\ holds' \in [Name -> SUBSET Params] /\ relevant' \in SUBSET Params
      /\ \A n \in Name : holds[n] \subseteq holds'[n]
      /\ Declares(s) \subseteq Name
  BY <1>1, <1>2, VisitType, StmtNames DEF TypeOK
<1>5. TypeOK'
  <2>1. Len(body) \in Nat
    BY <1>1, BodyType
  <2> QED BY <1>1, <1>2, <1>3, <1>4, <2>1 DEF TypeOK
<1>6. escapes = DeclaredBefore(at) /\ (~changed => \A j \in 1..(at - 1) : Quiet(j))
      /\ env = [n \in Name |-> {n} \cap Params] /\ free = {} /\ seen = {}
  BY <1>1 DEF RelevantInv
<1>7. escapes' = DeclaredBefore(at + 1)
  BY <1>1, <1>2, <1>6, DeclaredStep
<1>8. (\A k : DeclaredBefore(k)' = DeclaredBefore(k))
  BY <1>2 DEF DeclaredBefore
<1>9. ASSUME ~changed' PROVE \A j \in 1..(at' - 1) : Quiet(j)'
  <2>1. ~changed /\ holds' = holds /\ relevant' = relevant
    BY <1>2, <1>9
  <2>2. Quiet(at)
    BY <1>2, <1>6, <2>1 DEF Quiet
  <2>3. 1..(at' - 1) = (1..(at - 1)) \cup {at}
    BY <1>1, <1>2
  <2>4. \A j \in 1..(at' - 1) : Quiet(j)
    BY <1>6, <2>1, <2>2, <2>3
  <2> QED BY <1>2, <1>8, <2>1, <2>4 DEF Quiet
<1>10. \A p \in Params : p \in holds'[p]
  BY <1>4, BodyAssumption DEF RelevantInv
<1>11. \A n \in Name : env'[n] \subseteq holds'[n] \cup relevant'
  <2>1. \A n \in Name : env[n] \subseteq holds'[n]
    BY <1>6, <1>10, BodyAssumption
  <2> QED BY <1>3, <2>1
<1>12. free' = {} /\ seen' = {}
  BY <1>3, <1>6
<1> QED
  <2>1. ~done' /\ escapes' = DeclaredBefore(at)'
    BY <1>1, <1>2, <1>7 DEF DeclaredBefore
  <2> QED BY <1>3, <1>5, <1>6, <1>9, <1>10, <1>11, <1>12, <2>1 DEF RelevantInv, NothingMissed

(* A pass that found nothing leaves every statement quiet.                 *)
LEMMA EndPassStep ==
  ASSUME RelevantInv, EndPass, UNCHANGED walkVars
  PROVE  RelevantInv'
<1>1. /\ TypeOK /\ ~done /\ at \in 1..(Len(body) + 1) /\ at > Len(body)
      /\ Len(body) \in Nat /\ DOMAIN body = 1..Len(body)
  BY BodyType DEF RelevantInv, EndPass, TypeOK
<1>2. body' = body /\ holds' = holds /\ relevant' = relevant
      /\ env' = env /\ free' = free /\ seen' = seen
  BY DEF EndPass, walkVars
<1>3. \A j : Quiet(j)' = Quiet(j)
  BY <1>2 DEF Quiet, DeclaredBefore
<1>4. CASE Enough
  <2>1. done' /\ escapes' = escapes /\ changed' = changed /\ at' = at
    BY <1>4 DEF EndPass
  <2>2. TypeOK'
    BY <1>1, <1>2, <2>1 DEF TypeOK
  <2>3. relevant = Params \/ \A j \in DOMAIN body : Quiet(j)
    <3>1. at - 1 = Len(body)
      BY <1>1
    <3> QED BY <1>1, <1>4, <3>1 DEF RelevantInv, Enough
  <2> QED BY <1>2, <1>3, <2>1, <2>2, <2>3 DEF RelevantInv, NothingMissed
<1>5. CASE ~Enough
  <2>1. ~done' /\ escapes' = {} /\ changed' = FALSE /\ at' = 1
    BY <1>5 DEF EndPass, EscapesAgain
  <2>2. TypeOK'
    <3>1. at' \in 1..(Len(body') + 1)
      BY <1>1, <1>2, <2>1
    <3>2. done' \in BOOLEAN
      BY <1>5 DEF EndPass
    <3> QED BY <1>1, <1>2, <2>1, <3>1, <3>2 DEF TypeOK
  <2>3. escapes' = DeclaredBefore(at)' /\ 1..(at' - 1) = {}
    <3>1. DeclaredBefore(1)' = {}
      <4>1. 1..(1 - 1) = {}
        OBVIOUS
      <4> QED BY <4>1 DEF DeclaredBefore
    <3> QED BY <2>1, <3>1 DEF DeclaredBefore
  <2> QED BY <1>1, <1>2, <2>1, <2>2, <2>3 DEF RelevantInv, NothingMissed
<1> QED BY <1>4, <1>5

(* In a quiet statement, names that flow hold what they are given, and     *)
(* what is sunk is flagged.                                                *)
LEMMA QuietMeans ==
  ASSUME NEW j, body[j] \in Stmt, Quiet(j),
         holds \in [Name -> SUBSET Params]
  PROVE  /\ \A n \in FlowNames(body[j]) \cap Name :
               ParamsOf(holds, body[j].value.names) \subseteq holds[n] \cup relevant
         /\ ParamsOf(holds, SinkNames(body[j], DeclaredBefore(j))) \subseteq relevant
<1> DEFINE s == body[j]
           esc == DeclaredBefore(j)
<1>1. ParamsOf(holds, SinkNames(s, esc)) \subseteq relevant
  BY DEF Quiet, Marked
<1>2. ASSUME NEW n \in FlowNames(s) \cap Name
      PROVE  ParamsOf(holds, s.value.names) \subseteq holds[n] \cup relevant
  <2>1. CASE n \in esc
    <3>1. s.value.names \subseteq SinkNames(s, esc)
      BY <2>1 DEF SinkNames, SinksValue
    <3> QED BY <1>1, <3>1 DEF ParamsOf
  <2>2. CASE n \notin esc
    <3>1. Grown(holds, s, esc)[n] = holds[n] \cup ParamsOf(holds, s.value.names)
      BY <2>2 DEF Grown
    <3> QED BY <3>1 DEF Quiet
  <2> QED BY <2>1, <2>2
<1> QED BY <1>1, <1>2

(* A statement of the walk uses flagged parameters only, and gives names   *)
(* values they are known to hold.                                          *)
LEMMA WalkStmtStep ==
  ASSUME RelevantInv, WalkStmt
  PROVE  RelevantInv'
<1>1. TypeOK /\ done
  BY DEF RelevantInv, WalkStmt
<1>2. body' = body /\ holds' = holds /\ relevant' = relevant /\ escapes' = escapes
      /\ changed' = changed /\ at' = at /\ done' = done
  BY DEF WalkStmt, passVars
<1>3. \A j : Quiet(j)' = Quiet(j)
  BY <1>2 DEF Quiet, DeclaredBefore
<1> DEFINE after(s) == [n \in Name |-> IF n \in BoundFromTy(s) THEN {}
                                   ELSE IF n \in BoundTo(s) \cup s.value.named
                                        THEN ValueOf(s.value)
                                   ELSE env[n]]
           closed(s) == free \cup (IF s.kind = "def" THEN s.value.names ELSE {})
           receivers(s) == TargetNames({t \in s.to : t.kind = "attribute"})
           uses(s) == seen \cup LooksAt(s.value)
                      \cup (IF s.kind = "return" THEN ValueOf(s.value) ELSE {})
                      \cup (IF s.kind = "def" THEN ParamsOf(env, s.value.names) ELSE {})
                      \cup (IF s.kind = "assign" /\ receivers(s) # {} THEN ValueOf(s.value) ELSE {})
                      \cup (IF Flows(s) THEN ParamsOf(env, receivers(s)) ELSE {})
                      \cup ParamsOf(after(s), closed(s))
<1>4. PICK i \in DOMAIN body :
         /\ env' = after(body[i]) /\ free' = closed(body[i]) /\ seen' = uses(body[i])
  BY DEF WalkStmt
<1> DEFINE s == body[i]
           vs == ParamsOf(env, s.value.names)
<1>5. s \in Stmt /\ s.value.names \subseteq Name /\ s.value.named \subseteq Name
      /\ receivers(s) \subseteq Name
  <2>1. s \in Stmt
    BY <1>1, BodyType
  <2>2. {t \in s.to : t.kind = "attribute"} \in SUBSET s.to
    OBVIOUS
  <2> QED BY <2>1, <2>2, StmtNames
<1>6. ValueOf(s.value) \subseteq vs /\ LooksAt(s.value) \subseteq vs
  BY DEF ValueOf, LooksAt
<1>7. vs \in SUBSET Params /\ ParamsOf(env, receivers(s)) \in SUBSET Params
  BY <1>1, <1>5, ParamsOfType DEF TypeOK
<1>8. env' \in [Name -> SUBSET Params] /\ free' \in SUBSET Name
  BY <1>1, <1>4, <1>5, <1>6, <1>7 DEF TypeOK
<1>9. seen' \in SUBSET Params
  <2>1. ParamsOf(after(s), closed(s)) \in SUBSET Params
    BY <1>4, <1>8, ParamsOfType
  <2> HIDE DEF after, closed, receivers
  <2> QED BY <1>1, <1>4, <1>6, <1>7, <2>1 DEF TypeOK
<1>10. TypeOK'
  BY <1>1, <1>2, <1>8, <1>9 DEF TypeOK
<1>11. CASE relevant = Params
  BY <1>1, <1>2, <1>3, <1>8, <1>9, <1>10, <1>11 DEF RelevantInv, NothingMissed, TypeOK
<1>12. CASE relevant # Params
  <2>1. Quiet(i) /\ holds \in [Name -> SUBSET Params]
    BY <1>1, <1>4, <1>12 DEF RelevantInv, TypeOK
  <2>2. /\ \A n \in FlowNames(s) \cap Name :
              ParamsOf(holds, s.value.names) \subseteq holds[n] \cup relevant
        /\ ParamsOf(holds, SinkNames(s, DeclaredBefore(i))) \subseteq relevant
    BY <1>5, <2>1, QuietMeans
  <2>3. \A n \in Name : env[n] \subseteq holds[n] \cup relevant
    BY DEF RelevantInv
  <2>4. vs \subseteq ParamsOf(holds, s.value.names) \cup relevant
    BY <1>5, <2>3 DEF ParamsOf
  <2>5. SinksValue(s, DeclaredBefore(i)) =>
           vs \subseteq relevant /\ ParamsOf(holds, s.value.names) \subseteq relevant
    BY <2>2, <2>4 DEF SinkNames, ParamsOf
  <2>6. \A n \in Name : env'[n] \subseteq holds[n] \cup relevant
    <3> SUFFICES ASSUME NEW n \in Name, n \in BoundTo(s) \cup s.value.named
                 PROVE  vs \subseteq holds[n] \cup relevant
      BY <1>4, <1>6, <2>3
    <3>1. n \in FlowNames(s) \cap Name
      BY DEF BoundTo, FlowNames, Flows, Stores, TargetNames
    <3> QED BY <2>2, <2>4, <3>1
  <2>7. \A n \in free' : holds[n] \subseteq relevant
    <3>1. CASE s.kind = "def"
      <4>1. ParamsOf(holds, s.value.names) \subseteq relevant
        BY <2>5, <3>1 DEF SinksValue
      <4>2. \A n \in s.value.names : holds[n] \subseteq relevant
        BY <4>1 DEF ParamsOf
      <4> QED BY <1>4, <3>1, <4>2 DEF RelevantInv
    <3>2. CASE s.kind # "def"
      BY <1>4, <3>2 DEF RelevantInv
    <3> QED BY <3>1, <3>2
  <2>8. ParamsOf(after(s), closed(s)) \subseteq relevant
    <3>1. \A n \in free' : env'[n] \subseteq relevant
      BY <1>8, <2>6, <2>7
    <3> QED BY <1>4, <3>1 DEF ParamsOf
  <2>9. LooksAt(s.value) \subseteq relevant
    <3>1. CASE s.value.kind \in {"call", "attribute", "nested"}
      BY <1>6, <2>5, <3>1 DEF SinksValue
    <3>2. CASE s.value.kind \notin {"call", "attribute", "nested"}
      BY <3>2 DEF LooksAt
    <3> QED BY <3>1, <3>2
  <2>10. s.kind \in {"return", "def"} => vs \subseteq relevant
    BY <2>5 DEF SinksValue
  <2>11. s.kind = "assign" /\ receivers(s) # {} => vs \subseteq relevant
    <3> SUFFICES ASSUME s.kind = "assign", receivers(s) # {} PROVE vs \subseteq relevant
      OBVIOUS
    <3>1. \E t \in s.to : Stores(t)
      BY DEF TargetNames, Stores
    <3>2. SinksValue(s, DeclaredBefore(i))
      BY <3>1 DEF SinksValue, Flows
    <3> QED BY <2>5, <3>2
  <2>12. Flows(s) => ParamsOf(env, receivers(s)) \subseteq relevant
    <3> SUFFICES ASSUME Flows(s) PROVE ParamsOf(env, receivers(s)) \subseteq relevant
      OBVIOUS
    <3>1. receivers(s) \subseteq SinkNames(s, DeclaredBefore(i))
      BY DEF SinkNames, TargetNames, Stores
    <3>2. ParamsOf(holds, receivers(s)) \subseteq relevant
      BY <2>2, <3>1 DEF ParamsOf
    <3> HIDE DEF receivers
    <3> QED BY <1>5, <2>3, <3>2 DEF ParamsOf
  <2>13. seen' \subseteq relevant
    <3>1. seen \subseteq relevant
      BY DEF RelevantInv, NothingMissed
    <3> HIDE DEF after, closed, receivers
    <3> QED BY <1>4, <1>6, <2>8, <2>9, <2>10, <2>11, <2>12, <3>1
  <2>14. \A j \in DOMAIN body : Quiet(j)
    BY <1>1, <1>12 DEF RelevantInv
  <2>15. \A p \in Params : p \in holds[p]
    BY DEF RelevantInv
  <2> QED BY <1>1, <1>2, <1>3, <1>10, <2>6, <2>7, <2>13, <2>14, <2>15
          DEF RelevantInv, NothingMissed
<1> QED BY <1>11, <1>12

(* Every step of the passes and of the walk preserves the invariant.       *)
LEMMA StepInv == RelevantInv /\ [WalkNext]_allVars => RelevantInv'
<1> SUFFICES ASSUME RelevantInv, [WalkNext]_allVars PROVE RelevantInv'
  OBVIOUS
<1>1. CASE Visit /\ UNCHANGED walkVars
  BY <1>1, VisitStep
<1>2. CASE EndPass /\ UNCHANGED walkVars
  BY <1>2, EndPassStep
<1>3. CASE WalkStmt
  BY <1>3, WalkStmtStep
<1>4. CASE UNCHANGED allVars
  <2>1. /\ body' = body /\ holds' = holds /\ relevant' = relevant /\ escapes' = escapes
        /\ changed' = changed /\ at' = at /\ done' = done
        /\ env' = env /\ free' = free /\ seen' = seen
    BY <1>4 DEF allVars, passVars, walkVars
  <2>2. DeclaredBefore(at)' = DeclaredBefore(at) /\ \A j : Quiet(j)' = Quiet(j)
    BY <2>1 DEF Quiet, DeclaredBefore
  <2>3. TypeOK'
    BY <2>1 DEF RelevantInv, TypeOK
  <2> QED BY <2>1, <2>2, <2>3 DEF RelevantInv, NothingMissed
<1> QED BY <1>1, <1>2, <1>3, <1>4 DEF WalkNext, Pass, Walked

(* Passes and walk keep to the invariant from start to end.                *)
THEOREM RelevantInvariance == WalkSpec => []RelevantInv
BY StartInv, StepInv, PTL DEF WalkSpec

(* A parameter that relevant_params does not flag is one whose value no    *)
(* path of the walk uses: callers that differ in it may share one summary. *)
THEOREM NoParameterMissed == WalkSpec => []NothingMissed
<1>1. RelevantInv => NothingMissed
  BY DEF RelevantInv
<1> QED BY <1>1, RelevantInvariance, PTL

-----------------------------------------------------------------------------
(***************************************************************************)
(* The flags are exact.                                                    *)
(***************************************************************************)

(* A non-empty set of numbers has a least element.                         *)
LEMMA SmallestIn ==
  ASSUME NEW S \in SUBSET Nat, S # {}
  PROVE  \E n \in S : \A m \in S : n <= m
<1> DEFINE R == OpToRel(<, Nat)
<1>1. IsWellFoundedOn(R, Nat)
  BY NatLessThanWellFounded
<1>2. PICK n \in S : \A m \in S : ~(<<m, n>> \in R)
  <2> HIDE DEF R
  <2> QED BY <1>1, WFMin
<1>3. ASSUME NEW m \in S PROVE n <= m
  <2>1. <<m, n>> \notin R
    BY <1>2
  <2>2. ~(m < n)
    BY <1>2, <2>1 DEF OpToRel
  <2> QED BY <2>2
<1> QED BY <1>2, <1>3

(* The names p reaches by at most k flows, for each k up to n.             *)
Chain(p, n, g) == g = [k \in 0..n |-> IF k = 0 THEN {p} ELSE FlowsTo(g[k - 1])]

(* There are such names for each k.                                        *)
LEMMA ChainExists ==
  ASSUME NEW p, NEW n \in Nat
  PROVE  \E g : Chain(p, n, g)
<1> DEFINE Bad == {i \in Nat : ~\E g : Chain(p, i, g)}
<1>1. SUFFICES ASSUME Bad # {} PROVE FALSE
  OBVIOUS
<1>2. PICK i \in Bad : \A m \in Bad : i <= m
  <2>1. Bad \in SUBSET Nat
    OBVIOUS
  <2> HIDE DEF Bad
  <2> QED BY <1>1, <2>1, SmallestIn
<1>3. i \in Nat /\ ~\E g : Chain(p, i, g)
  OBVIOUS
<1>4. CASE i = 0
  <2>1. PICK g : g = [k \in 0..0 |-> {p}]
    OBVIOUS
  <2>2. g = [k \in 0..0 |-> IF k = 0 THEN {p} ELSE FlowsTo(g[k - 1])]
    BY <2>1
  <2> QED BY <1>3, <1>4, <2>2 DEF Chain
<1>5. CASE i # 0
  <2>1. i - 1 \in Nat /\ i - 1 \notin Bad
    BY <1>2, <1>3, <1>5
  <2>2. PICK g : Chain(p, i - 1, g)
    BY <2>1
  <2>3. PICK h : h = [k \in 0..i |-> IF k = i THEN FlowsTo(g[i - 1]) ELSE g[k]]
    OBVIOUS
  <2>4. ASSUME NEW k \in 0..i
        PROVE  h[k] = IF k = 0 THEN {p} ELSE FlowsTo(h[k - 1])
    <3>1. CASE k = i
      BY <1>3, <1>5, <2>3, <3>1
    <3>2. CASE k # i
      <4>1. k \in 0..(i - 1) /\ k <= i /\ h[k] = g[k]
        BY <1>3, <2>3, <3>2
      <4>2. g[k] = IF k = 0 THEN {p} ELSE FlowsTo(g[k - 1])
        BY <2>2, <4>1 DEF Chain
      <4>3. k # 0 => h[k - 1] = g[k - 1]
        BY <1>3, <2>3, <3>2
      <4> QED BY <4>1, <4>2, <4>3
    <3> QED BY <3>1, <3>2
  <2>5. h = [k \in 0..i |-> IF k = 0 THEN {p} ELSE FlowsTo(h[k - 1])]
    BY <2>3, <2>4
  <2> QED BY <1>3, <2>5 DEF Chain
<1> QED BY <1>4, <1>5

(* Reached is the last of them.                                            *)
LEMMA ReachedIsLast ==
  ASSUME NEW p, Len(body) \in Nat
  PROVE  \E g : Chain(p, Len(body), g) /\ Reached(p) = g[Len(body)]
<1> DEFINE f == CHOOSE g : g = [k \in 0..Len(body) |-> IF k = 0 THEN {p} ELSE FlowsTo(g[k - 1])]
<1>1. \E g : g = [k \in 0..Len(body) |-> IF k = 0 THEN {p} ELSE FlowsTo(g[k - 1])]
  BY ChainExists DEF Chain
<1>2. f = [k \in 0..Len(body) |-> IF k = 0 THEN {p} ELSE FlowsTo(f[k - 1])]
  BY <1>1, Zenon
<1>3. Reached(p) = f[Len(body)]
  BY DEF Reached
<1> QED
  <2> HIDE DEF f
  <2> QED BY <1>2, <1>3 DEF Chain


(* The statements that read a name of S, and the names they flow to.       *)
Readers(S) == {j \in DOMAIN body : body[j].value.names \cap S # {}}
Given(S) == UNION {FlowNames(body[j]) \ DeclaredBefore(j) : j \in Readers(S)}

(* A flow adds what the readers give.                                      *)
LEMMA FlowsAdd ==
  ASSUME NEW S
  PROVE  FlowsTo(S) = S \cup Given(S) /\ S \subseteq FlowsTo(S)
BY DEF FlowsTo, Given, Readers

(* Sets with the same readers, one in the other, add the same.             *)
LEMMA SameReaders ==
  ASSUME NEW S, Readers(FlowsTo(S)) = Readers(S)
  PROVE  FlowsTo(FlowsTo(S)) = FlowsTo(S)
<1>1. Given(FlowsTo(S)) = Given(S)
  BY DEF Given
<1> QED BY <1>1, FlowsAdd

(* A flow loses no reader.                                                 *)
LEMMA MoreReaders ==
  ASSUME NEW S
  PROVE  Readers(S) \subseteq Readers(FlowsTo(S))
BY FlowsAdd DEF Readers

(* As long as flows add something, each adds a reader.                     *)
LEMMA ReadersGrow ==
  ASSUME NEW p, NEW n \in Nat, n = Len(body), DOMAIN body = 1..n, NEW g, Chain(p, n, g)
  PROVE  \A k \in 0..n : FlowsTo(g[k]) = g[k] \/ Cardinality(Readers(g[k])) >= k + 1
<1> DEFINE Grows(k) == FlowsTo(g[k]) = g[k] \/ Cardinality(Readers(g[k])) >= k + 1
           Bad == {k \in 0..n : ~Grows(k)}
<1>1. SUFFICES ASSUME Bad # {} PROVE FALSE
  OBVIOUS
<1>2. PICK k \in Bad : \A m \in Bad : k <= m
  <2>1. Bad \in SUBSET Nat
    OBVIOUS
  <2> HIDE DEF Bad
  <2> QED BY <1>1, <2>1, SmallestIn
<1>3. k \in 0..n /\ FlowsTo(g[k]) # g[k] /\ ~(Cardinality(Readers(g[k])) >= k + 1)
  OBVIOUS
<1>4. ASSUME NEW S
      PROVE  IsFiniteSet(Readers(S)) /\ Cardinality(Readers(S)) \in Nat
  <2>1. IsFiniteSet(1..n)
    BY FS_Interval
  <2>2. Readers(S) \subseteq 1..n
    BY DEF Readers
  <2> QED BY <2>1, <2>2, FS_Subset, FS_CardinalityType
<1>5. CASE k = 0
  <2>1. Readers(g[0]) # {}
    <3>1. SUFFICES ASSUME Readers(g[k]) = {} PROVE FALSE
      BY <1>5
    <3>2. Given(g[k]) = {}
      BY <3>1 DEF Given
    <3>3. FlowsTo(g[k]) = g[k]
      BY <3>2, FlowsAdd
    <3> QED BY <1>3, <3>3
  <2>2. Cardinality(Readers(g[0])) # 0
    BY <2>1, <1>4, FS_EmptySet
  <2> QED BY <1>3, <1>4, <1>5, <2>2
<1>6. CASE k # 0
  <2>1. k - 1 \in 0..n /\ k - 1 \notin Bad
    BY <1>2, <1>3, <1>6
  <2>2. g[k] = FlowsTo(g[k - 1])
    BY <1>3, <1>6 DEF Chain
  <2>3. FlowsTo(g[k - 1]) # g[k - 1]
    BY <1>3, <2>2
  <2>4. Cardinality(Readers(g[k - 1])) >= k
    <3>1. Grows(k - 1)
      BY <2>1
    <3> QED BY <1>3, <2>3, <3>1
  <2>5. Readers(g[k - 1]) # Readers(g[k]) /\ Readers(g[k - 1]) \subseteq Readers(g[k])
    BY <1>3, <2>2, SameReaders, MoreReaders
  <2>6. Cardinality(Readers(g[k - 1])) < Cardinality(Readers(g[k]))
    BY <1>4, <2>5, FS_Subset
  <2> QED BY <1>3, <1>4, <2>4, <2>6
<1> QED BY <1>5, <1>6

(* What is reached is closed under flows: as many steps as there are       *)
(* statements are enough.                                                  *)
LEMMA ReachedClosed ==
  ASSUME NEW p, Len(body) \in Nat, DOMAIN body = 1..Len(body)
  PROVE  FlowsTo(Reached(p)) = Reached(p)
<1>1. PICK n \in Nat : n = Len(body)
  OBVIOUS
<1>2. PICK g : Chain(p, n, g) /\ Reached(p) = g[n]
  BY <1>1, ReachedIsLast
<1>3. FlowsTo(g[n]) = g[n] \/ Cardinality(Readers(g[n])) >= n + 1
  <2>1. DOMAIN body = 1..n /\ n \in 0..n
    BY <1>1
  <2> QED BY <1>1, <1>2, <2>1, ReadersGrow
<1>4. IsFiniteSet(1..n) /\ Cardinality(1..n) = n
  BY FS_Interval
<1>5. Readers(g[n]) \subseteq 1..n
  BY <1>1 DEF Readers
<1>6. Cardinality(Readers(g[n])) <= n /\ Cardinality(Readers(g[n])) \in Nat
  BY <1>4, <1>5, FS_Subset, FS_CardinalityType
<1> QED BY <1>1, <1>2, <1>3, <1>6

(* The first of them is p.                                                 *)
LEMMA ReachedSelf ==
  ASSUME NEW p, Len(body) \in Nat
  PROVE  p \in Reached(p)
<1>1. PICK n \in Nat : n = Len(body)
  OBVIOUS
<1>2. PICK g : Chain(p, n, g) /\ Reached(p) = g[n]
  BY <1>1, ReachedIsLast
<1> DEFINE Bad == {k \in 0..n : p \notin g[k]}
<1>3. SUFFICES ASSUME Bad # {} PROVE FALSE
  BY <1>1, <1>2
<1>4. PICK k \in Bad : \A m \in Bad : k <= m
  <2>1. Bad \in SUBSET Nat
    OBVIOUS
  <2> HIDE DEF Bad
  <2> QED BY <1>3, <2>1, SmallestIn
<1>5. k \in 0..n /\ p \notin g[k] /\ g[0] = {p} /\ k # 0
  BY <1>2 DEF Chain
<1>6. k - 1 \in 0..n /\ k - 1 \notin Bad
  BY <1>4, <1>5
<1>7. g[k] = FlowsTo(g[k - 1])
  BY <1>2, <1>5 DEF Chain
<1> QED BY <1>5, <1>6, <1>7, FlowsAdd

(* What is reached is in every set that has p and is closed under flows.   *)
LEMMA ReachedLeast ==
  ASSUME NEW p, Len(body) \in Nat, NEW S, p \in S, Given(S) \subseteq S
  PROVE  Reached(p) \subseteq S
<1>1. PICK n \in Nat : n = Len(body)
  OBVIOUS
<1>2. PICK g : Chain(p, n, g) /\ Reached(p) = g[n]
  BY <1>1, ReachedIsLast
<1> DEFINE Bad == {k \in 0..n : ~(g[k] \subseteq S)}
<1>3. SUFFICES ASSUME Bad # {} PROVE FALSE
  BY <1>1, <1>2
<1>4. PICK k \in Bad : \A m \in Bad : k <= m
  <2>1. Bad \in SUBSET Nat
    OBVIOUS
  <2> HIDE DEF Bad
  <2> QED BY <1>3, <2>1, SmallestIn
<1>5. k \in 0..n /\ ~(g[k] \subseteq S) /\ g[0] = {p} /\ k # 0
  BY <1>2 DEF Chain
<1>6. k - 1 \in 0..n /\ k - 1 \notin Bad
  BY <1>4, <1>5
<1>7. g[k] = g[k - 1] \cup Given(g[k - 1])
  <2>1. g[k] = FlowsTo(g[k - 1])
    BY <1>2, <1>5 DEF Chain
  <2> QED BY <2>1, FlowsAdd
<1>8. g[k - 1] \subseteq S
  BY <1>6
<1>9. Given(g[k - 1]) \subseteq Given(S)
  BY <1>8 DEF Given, Readers
<1> QED BY <1>5, <1>7, <1>8, <1>9

-----------------------------------------------------------------------------
(* What a name holds has reached it, and what is flagged reaches a sink.   *)
Sound == /\ \A n \in Name : \A p \in holds[n] : n \in Reached(p)
         /\ \A p \in relevant : Reached(p) \cap SunkAnywhere # {}

(* The references look at the body alone.                                  *)
LEMMA SameBody ==
  ASSUME body' = body
  PROVE  (\A p : Reached(p)' = Reached(p)) /\ SunkAnywhere' = SunkAnywhere
BY DEF Reached, FlowsTo, SunkAnywhere, DeclaredBefore

(* To begin with a parameter is held by its own name.                      *)
LEMMA StartSound == WalkInit => Sound
<1> SUFFICES ASSUME WalkInit PROVE Sound
  OBVIOUS
<1>1. Len(body) \in Nat
  BY BodyAssumption DEF WalkInit, Init
<1>2. ASSUME NEW n \in Name, NEW p \in holds[n] PROVE n \in Reached(p)
  <2>1. p = n
    BY DEF WalkInit, Init
  <2> QED BY <1>1, <2>1, ReachedSelf
<1> QED BY <1>2 DEF Sound, WalkInit, Init

(* A visit hands on what has reached the names it reads.                   *)
LEMMA VisitSound ==
  ASSUME RelevantInv, Sound, Visit
  PROVE  Sound'
<1> DEFINE s == body[at]
           esc == DeclaredBefore(at)
<1>1. TypeOK /\ ~done /\ at \in DOMAIN body /\ escapes = esc
      /\ Len(body) \in Nat /\ DOMAIN body = 1..Len(body) /\ s \in Stmt
  BY BodyType DEF RelevantInv, Visit, TypeOK
<1>2. body' = body /\ holds' = Grown(holds, s, esc) /\ relevant' = Marked(holds, relevant, s, esc)
  BY <1>1 DEF Visit
<1>3. s.value.names \subseteq Name /\ SinkNames(s, esc) \subseteq Name
  BY <1>1, StmtNames
<1>4. ASSUME NEW n \in Name, NEW p \in holds'[n] PROVE n \in Reached(p)
  <2>1. CASE p \in holds[n]
    BY <2>1 DEF Sound
  <2>2. CASE p \notin holds[n]
    <3>1. n \in FlowNames(s) \ esc /\ p \in ParamsOf(holds, s.value.names)
      BY <1>2, <2>2 DEF Grown
    <3>2. PICK m \in s.value.names : p \in holds[m]
      BY <3>1 DEF ParamsOf
    <3>3. m \in Reached(p)
      BY <1>3, <3>2 DEF Sound
    <3>4. n \in Given(Reached(p))
      BY <1>1, <3>1, <3>2, <3>3 DEF Given, Readers
    <3> QED BY <1>1, <3>4, FlowsAdd, ReachedClosed
  <2> QED BY <2>1, <2>2
<1>5. ASSUME NEW p \in relevant' PROVE Reached(p) \cap SunkAnywhere # {}
  <2>1. CASE p \in relevant
    BY <2>1 DEF Sound
  <2>2. CASE p \notin relevant
    <3>1. PICK m \in SinkNames(s, esc) : p \in holds[m]
      BY <1>2, <2>2 DEF Marked, ParamsOf
    <3>2. m \in Reached(p)
      BY <1>3, <3>1 DEF Sound
    <3>3. m \in SunkAnywhere
      BY <1>1, <3>1 DEF SunkAnywhere
    <3> QED BY <3>2, <3>3
  <2> QED BY <2>1, <2>2
<1> QED BY <1>2, <1>4, <1>5, SameBody DEF Sound

(* No other step changes what is held or flagged.                          *)
LEMMA StepSound == RelevantInv /\ Sound /\ [WalkNext]_allVars => Sound'
<1> SUFFICES ASSUME RelevantInv, Sound, [WalkNext]_allVars PROVE Sound'
  OBVIOUS
<1>1. CASE Visit
  BY <1>1, VisitSound
<1>2. CASE ~Visit
  <2>1. body' = body /\ holds' = holds /\ relevant' = relevant
    BY <1>2 DEF WalkNext, Pass, EndPass, WalkStmt, Walked, allVars, passVars
  <2> QED BY <2>1, SameBody DEF Sound
<1> QED BY <1>1, <1>2

(* When the passes are done, what reaches a sink is flagged.               *)
LEMMA DoneComplete ==
  ASSUME RelevantInv, done, NEW p \in Params, Reached(p) \cap SunkAnywhere # {}
  PROVE  p \in relevant
<1>1. TypeOK /\ body \in Seq(Stmt) /\ Len(body) \in Nat /\ \A j \in DOMAIN body : body[j] \in Stmt
  BY BodyType DEF RelevantInv
<1>2. CASE relevant = Params
  BY <1>2
<1>3. CASE relevant # Params
  <2>1. \A j \in DOMAIN body : Quiet(j)
    BY <1>3 DEF RelevantInv
  <2> DEFINE S == {n \in Name : p \in holds[n]}
  <2>2. Given(S) \subseteq S
    <3> SUFFICES ASSUME NEW j \in Readers(S), NEW n \in FlowNames(body[j]) \ DeclaredBefore(j)
                 PROVE  n \in S
      BY Zenon DEF Given
    <3>1. j \in DOMAIN body /\ body[j] \in Stmt /\ Quiet(j)
      BY <1>1, <2>1 DEF Readers
    <3>2. n \in Name
      <4>1. {t \in body[j].to : ~Stores(t)} \in SUBSET body[j].to
        OBVIOUS
      <4> QED BY <3>1, <4>1, StmtNames DEF FlowNames
    <3>3. p \in ParamsOf(holds, body[j].value.names)
      BY DEF Readers, ParamsOf
    <3>4. Grown(holds, body[j], DeclaredBefore(j))[n]
             = holds[n] \cup ParamsOf(holds, body[j].value.names)
      BY <3>2 DEF Grown
    <3>5. Grown(holds, body[j], DeclaredBefore(j)) = holds
      BY <3>1 DEF Quiet
    <3> QED BY <3>2, <3>3, <3>4, <3>5
  <2>3. p \in S
    BY BodyAssumption DEF RelevantInv
  <2>4. Reached(p) \subseteq S
    <3> HIDE DEF S
    <3> QED BY <1>1, <2>2, <2>3, ReachedLeast
  <2>5. PICK m \in Reached(p), j \in DOMAIN body : m \in SinkNames(body[j], DeclaredBefore(j))
    BY DEF SunkAnywhere
  <2>6. p \in ParamsOf(holds, SinkNames(body[j], DeclaredBefore(j)))
    BY <2>4, <2>5 DEF ParamsOf
  <2>7. Marked(holds, relevant, body[j], DeclaredBefore(j)) = relevant
    BY <2>1, <2>5 DEF Quiet
  <2> QED BY <2>6, <2>7 DEF Marked
<1> QED BY <1>2, <1>3

(* relevant_params flags exactly the parameters that reach a sink through  *)
(* flows, in whatever order the statements stand: a pass never stops too   *)
(* early, and what only a condition reads splits no key.                   *)
THEOREM FlagsAreExact == WalkSpec => []ExactlyWhatFlows
<1>1. RelevantInv /\ Sound => ExactlyWhatFlows
  BY DoneComplete DEF Sound, ExactlyWhatFlows
<1>2. WalkSpec => []Sound
  BY RelevantInvariance, StartSound, StepSound, PTL DEF WalkSpec
<1> QED BY <1>1, <1>2, RelevantInvariance, PTL

=============================================================================
