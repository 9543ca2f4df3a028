------------------------ MODULE CallSolverInvariant -------------------------
(***************************************************************************)
(* The inductive invariant of CallSolver: how the thread's call stack, the *)
(* solver's stack, the current fixpoint, the slots and the parked list fit *)
(* together between two steps.                                             *)
(***************************************************************************)
EXTENDS CallSolver

(* The height of the solver's stack while `fr` is the running frame.       *)
Height(fr) == IF fr.kind = "walk" THEN fr.base + 1 ELSE fr.base

(* fx is the fixpoint of the innermost resolve_group among the first n     *)
(* frames, and it has been told of no walk above the one it runs in.       *)
FixpointAt(cs, n, fx) ==
    \/ fx = None /\ \A i \in 1..n : cs[i].kind # "resolve"
    \/ \E i \in 1..n :
         /\ cs[i].kind = "resolve"
         /\ \A j \in (i + 1)..n : cs[j].kind # "resolve"
         /\ fx # None
         /\ fx.base = cs[i].base /\ fx.head = cs[i].head
         /\ fx.read.lowest = NoDepth \/ fx.read.lowest < fx.base

(* The frames stand on one another: `solve` at the bottom, each frame at   *)
(* the height its caller left, each walk at its own place in the stack.    *)
FramesFit(cs, stk, fx) ==
    /\ cs # <<>>
    /\ \A i \in DOMAIN cs : cs[i].kind = "solve" <=> i = 1
    /\ \A i \in DOMAIN cs : i < Len(cs) => cs[i + 1].base = Height(cs[i])
    /\ \A i, j \in DOMAIN cs : i < j => Height(cs[i]) <= cs[j].base
    /\ \A i \in DOMAIN cs : cs[i].kind = "walk" =>
          cs[i].base < Len(stk) /\ stk[cs[i].base + 1] = cs[i].ctx
    /\ Len(stk) = Height(cs[Len(cs)])
    /\ FixpointAt(cs, Len(cs), fx)
    /\ \A i \in DOMAIN cs : cs[i].kind = "resolve" =>
          FixpointAt(cs, i - 1, cs[i].outer)

(* A frame that is not on top waits for the answer of a call it asked for. *)
Waits(fr) ==
    \/ fr.kind = "solve"
    \/ InSite(fr) /\ fr.site.todo # {}
    \/ fr.kind = "resolve" /\ fr.site = None
CallersWait(cs) == \A i \in DOMAIN cs : i < Len(cs) => Waits(cs[i])

(* What is parked is marked so; a fixpoint's members are marked so and are *)
(* under its head, which is one of them; no two fixpoints share a head.    *)
GroupsFit(st, hs, ps, cs) ==
    /\ \A c \in Range(ps) : st[c] = "Parked"
    /\ \A i \in DOMAIN cs : cs[i].kind = "resolve" =>
          /\ cs[i].head \in Range(cs[i].members)
          /\ \A c \in Range(cs[i].members) : st[c] = "Resolving" /\ hs[c] = cs[i].head
    /\ \A i, j \in DOMAIN cs :
          cs[i].kind = "resolve" /\ cs[j].kind = "resolve" /\ i # j
            => cs[i].head # cs[j].head

(* A running walk heads its own group; what waits has a walk to replay and *)
(* a summary to read; what is done has a result.                           *)
SlotsFit(st, hs, wk, cur, res) ==
    \A c \in Ctx :
      /\ st[c] = "Running" => hs[c] = c
      /\ st[c] \in {"Parked", "Resolving"} => wk[c] \in Walk /\ cur[c] \in FunctionResult
      /\ st[c] \in {"Ready", "Cut"} => res[c] \in FunctionResult

(* The inductive invariant, which implies TypeOK, StackMatches and         *)
(* ReaderIsTheAsker.                                                       *)
Inv ==
    /\ TypeOK
    /\ StackMatches
    /\ FramesFit(ctl, stack, fixpoint)
    /\ CallersWait(ctl)
    /\ GroupsFit(state, heads, parked, ctl)
    /\ SlotsFit(state, heads, walk, current, result)

=============================================================================
