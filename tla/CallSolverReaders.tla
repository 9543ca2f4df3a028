------------------------- MODULE CallSolverReaders --------------------------
(***************************************************************************)
(* What the readers of CallSolver were told: a walk that deferred an       *)
(* operation knows that it reads something unfinished, and some reader in  *)
(* progress knows of every cut.                                            *)
(***************************************************************************)
EXTENDS CallSolverWaiters

(* A walk that deferred an operation was told of a walk or of a group      *)
(* under it; a value is pending on a deferred operation only.              *)
Reads(n, h) == n.lowest <= h \/ n.joins # None
WalkTold(fr, n) ==
    /\ fr.w.deferred # <<>> => Reads(n, fr.base)
    /\ \A k \in DOMAIN fr.vals : fr.vals[k].pending # {} => fr.w.deferred # <<>>
    /\ fr.site # None /\ fr.site.out.pending # {} => fr.w.deferred # <<>>
WalksTold(cs, rd) ==
    \A i \in DOMAIN cs : cs[i].kind = "walk" => WalkTold(cs[i], rd[cs[i].ctx])

(* A walk in progress, a fixpoint in progress or a waiting context read a  *)
(* cut.                                                                    *)
FixpointCut(fx) == fx # None /\ fx.read.cut # None
CutRead(st, cs, stk, rd, fx) ==
    \/ \E i \in DOMAIN stk : rd[stk[i]].cut # None
    \/ FixpointCut(fx)
    \/ \E i \in DOMAIN cs : cs[i].kind = "resolve" /\ FixpointCut(cs[i].outer)
    \/ \E c \in Ctx : st[c] \in Waiting /\ rd[c].cut # None

(* The second frame is the walk of the entry, or its group's fixpoint; when *)
(* it has answered the request is over.                                    *)
EntryFits(cs) ==
    /\ 2 \in DOMAIN cs =>
          cs[1].ctx = IF cs[2].kind = "walk" THEN cs[2].ctx ELSE cs[2].head
    /\ cs[1].answered => Len(cs) = 1

(* A cut context leads to the entry: through a reader, or it is there.     *)
CutsTold ==
    \A c \in Ctx : state[c] = "Cut" =>
        \/ CutRead(state, ctl, stack, read, fixpoint)
        \/ ctl[1].answered /\ state[ctl[1].ctx] = "Cut"

(* Inductive together with Inv.                                            *)
ReadersInv ==
    /\ WalksTold(ctl, read)
    /\ EntryFits(ctl)
    /\ CutsTold

=============================================================================
