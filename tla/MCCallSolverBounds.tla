------------------------- MODULE MCCallSolverBounds -------------------------
(* The least solution that TLC computes is a solution, and one of the      *)
(* bounds, of each program's equations, so that the theorems about every   *)
(* bound and about the least solution speak of what the runs check; and    *)
(* the programs of `groups` are of the kind CutsMarked is about.           *)
EXTENDS MCCallSolver, CallSolverClosed

LeastSites(p) == [c \in Ctx |-> SiteValues(p, Solution[p], c)]

ASSUME LeastSolutionIsABound ==
    \A p \in Programs : Bounds(p, Solution[p], LeastSites(p))

ASSUME LeastSolutionSolves ==
    \A p \in Programs : Solves(p, Solution[p], LeastSites(p))

ASSUME EveryArgumentHasAValue ==
    \A p \in Programs : \A c \in Ctx : \A i \in DOMAIN LeastSites(p)[c] :
        ArgAt(p, LeastSites(p), c, i) # {}

=============================================================================
