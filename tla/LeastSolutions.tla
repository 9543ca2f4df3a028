--------------------------- MODULE LeastSolutions ---------------------------
(***************************************************************************)
(* The least solution of a program's equations.                            *)
(***************************************************************************)
EXTENDS CallEquations

(* The equations are solved again and again, from R on, until they hold.   *)
RECURSIVE LeastFrom(_, _)
LeastFrom(p, R) ==
    LET S == [c \in Ctx |-> Returns(p, R, c)] IN
    IF S = R THEN R ELSE LeastFrom(p, S)

LeastSolution(p) == LeastFrom(p, [c \in Ctx |-> {}])

=============================================================================
