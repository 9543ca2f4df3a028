------------------------- MODULE CallSolverWaiters --------------------------
(***************************************************************************)
(* Who waits in CallSolver, and for whom: the second half of its inductive *)
(* invariant.  A context that waits is parked once, or a member of one     *)
(* fixpoint; its group's head is a fixpoint in progress, or a walk in      *)
(* progress that some reader above it will tell.                           *)
(***************************************************************************)
EXTENDS CallSolverInvariant

Waiting == {"Parked", "Resolving"}

(* What waits is in its list, once.                                        *)
ListsFit(st, ps, cs) ==
    /\ IsInjective(ps)
    /\ \A i \in DOMAIN cs : cs[i].kind = "resolve" => IsInjective(cs[i].members)
    /\ \A c \in Ctx : st[c] = "Parked" => c \in Range(ps)
    /\ \A c \in Ctx : st[c] = "Resolving" =>
          \E i \in DOMAIN cs : cs[i].kind = "resolve" /\ c \in Range(cs[i].members)

(* A fixpoint is told things while it replays an operation, and only then: *)
(* it starts each member having read nothing from outside its group.       *)
Quiet(n) == n.lowest = NoDepth /\ n.joins = None
ReplaysFit(cs, fx) ==
    /\ \A i \in DOMAIN cs : cs[i].kind = "resolve" /\ cs[i].at > Len(cs[i].members) =>
          i = Len(cs) /\ cs[i].pc = 1 /\ cs[i].site = None
    /\ LET top == cs[Len(cs)] IN
       top.kind = "resolve" /\ top.pc = 1 /\ top.site = None => Quiet(fx.read)

(* The head of a fixpoint among the first n frames.                        *)
HeadAmong(cs, n, h) == \E i \in 1..n : cs[i].kind = "resolve" /\ cs[i].head = h

(* A reader that joins a group joins one whose fixpoint is in progress     *)
(* below it; a fixpoint that read nothing further down joins another one   *)
(* than itself.                                                            *)
FixpointJoins(cs, n, fx) ==
    fx # None /\ fx.read.joins # None =>
        /\ HeadAmong(cs, n, fx.read.joins)
        /\ fx.read.lowest = NoDepth => fx.read.joins # fx.head
WalkJoins(cs, i, n) ==
    n.joins # None =>
        \E j \in DOMAIN cs : cs[j].kind = "resolve" /\ cs[j].head = n.joins /\ cs[j].base < i
JoinsFit(cs, stk, rd, fx) ==
    /\ FixpointJoins(cs, Len(cs), fx)
    /\ \A i \in DOMAIN cs : cs[i].kind = "resolve" => FixpointJoins(cs, i - 1, cs[i].outer)
    /\ \A i \in DOMAIN stk : WalkJoins(cs, i, rd[stk[i]])

(* Some reader, not yet down at depth k, was told of that walk or of one   *)
(* further down: it will not end alone, and hands on what it was told.     *)
FixpointTells(fx, k) == fx # None /\ k < fx.base /\ fx.read.lowest <= k
Told(cs, stk, rd, fx, k) ==
    \/ \E i \in DOMAIN stk : k < i /\ rd[stk[i]].lowest <= k
    \/ FixpointTells(fx, k)
    \/ \E i \in DOMAIN cs : cs[i].kind = "resolve" /\ FixpointTells(cs[i].outer, k)

(* Every group that waits has a head that will resolve it.                 *)
Headed(cs, stk, rd, fx, h) ==
    \/ HeadAmong(cs, Len(cs), h)
    \/ \E i \in DOMAIN stk : stk[i] = h /\ Told(cs, stk, rd, fx, i - 1)
HeadsFit(st, hs, cs, stk, rd, fx) ==
    \A c \in Ctx : st[c] \in Waiting => Headed(cs, stk, rd, fx, hs[c])

(* Inductive together with Inv and WithinLimits.                           *)
WaitersInv ==
    /\ ctl[1].base = 0
    /\ ListsFit(state, parked, ctl)
    /\ ReplaysFit(ctl, fixpoint)
    /\ JoinsFit(ctl, stack, read, fixpoint)
    /\ HeadsFit(state, heads, ctl, stack, read, fixpoint)

=============================================================================
