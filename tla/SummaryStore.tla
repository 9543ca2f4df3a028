---------------------------- MODULE SummaryStore ----------------------------
(***************************************************************************)
(* What the solver promises its callers (rule 3 of the design): summaries  *)
(* appear a whole group at a time, each the right one; a summary is never  *)
(* changed or withdrawn, and never waits on one that is not there.         *)
(***************************************************************************)
CONSTANTS Programs, Contexts,
          Correct, \* for each program, the right summary of each context
          Needs    \* and the contexts whose summaries that is made of

VARIABLES program,
          summary  \* the summaries that are there, a function on their contexts
storeVars == <<program, summary>>

Stored == DOMAIN summary

StoreInit ==
    /\ program \in Programs
    /\ summary = [c \in {} |-> Correct[program][c]]

(* The group G is stored.  Everything it needs is in it or was stored.     *)
Publish(G) ==
    /\ G # {} /\ G \subseteq Contexts \ Stored
    /\ \A c \in G : Needs[program][c] \subseteq G \cup Stored
    /\ summary' = [c \in G \cup Stored |-> IF c \in G THEN Correct[program][c] ELSE summary[c]]
    /\ UNCHANGED program

(* G is the set of contexts that become stored.                            *)
StoreNext == Publish(DOMAIN summary' \ Stored)

StoreSpec == StoreInit /\ [][StoreNext]_storeVars

=============================================================================
