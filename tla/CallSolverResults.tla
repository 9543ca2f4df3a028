------------------------- MODULE CallSolverResults --------------------------
(***************************************************************************)
(* The summaries CallSolver computes, against the least solution of the    *)
(* program's equations, and CallSolver as an implementation of             *)
(* SummaryStore.                                                           *)
(***************************************************************************)
EXTENDS CallSolver, LeastSolutions

Solution == [p \in Programs |-> LeastSolution(p)]
Solved == Solution[prog]

(* A summary that can be reused holds exactly what its function may        *)
(* return, whichever entry, order, merge or join it was computed under,    *)
(* and whatever limit fired elsewhere: rule 3 of the design.               *)
ReadyIsLeastSolution ==
    \A c \in Ctx : state[c] = "Ready" /\ ~result[c].capped =>
        result[c].returns = Solved[c]

(* Its call edges are those of the last round: every call the function may *)
(* make and none that only an early round made.                            *)
EdgesAreExact ==
    Done => \A c \in Ctx : state[c] = "Ready" /\ ~result[c].capped =>
        result[c].calls = Edges(prog, Solved, c)

(* An unfinished summary is at most its final value (12-recursion.md): a   *)
(* late joiner, a nested fixpoint or a restart never overshoots.           *)
NeverAbove ==
    \A c \in Ctx : current[c] # None => current[c].returns \subseteq Solved[c]

(* A summary a limit made incomplete still accounts for every value: it    *)
(* holds it, or says Unknown.                                              *)
CutsSayUnknown ==
    \A c \in Ctx : state[c] = "Cut" =>
        Solved[c] \subseteq result[c].returns \/ Unknown \in result[c].returns

(* A group stopped by max_rounds still accounts for every value: "one last *)
(* round runs with `Unknown` added to every deferred operation's result"   *)
(* (12-recursion.md).                                                      *)
CappedSayUnknown ==
    \A c \in Ctx : result[c] # None /\ result[c].capped =>
        Solved[c] \subseteq result[c].returns \/ Unknown \in result[c].returns

(* Groups are stored whole, each with the least solution of its equations  *)
(* and the calls it makes there, once all it calls is there.               *)
SolutionSummaries ==
    [p \in Programs |-> [c \in Ctx |->
        [returns |-> Solution[p][c], calls |-> Edges(p, Solution[p], c)]]]
SolutionCalls == [p \in Programs |-> [c \in Ctx |-> MadeCalls(p, Solution[p], c)]]
SolutionStore == INSTANCE SummaryStore WITH
    Contexts <- Ctx, Correct <- SolutionSummaries, Needs <- SolutionCalls,
    program <- prog, summary <- Summaries
ImplementsStore == SolutionStore!StoreSpec

=============================================================================
