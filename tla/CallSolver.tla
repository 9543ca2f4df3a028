----------------------------- MODULE CallSolver -----------------------------
(***************************************************************************)
(* The summary-mode solver: interp/solver.rs, with the call evaluation     *)
(* that drives it (interp/call.rs, interp/defer.rs) and the summaries it   *)
(* stores (interp/summary.rs, interp/key.rs).                              *)
(*                                                                         *)
(* `get` answers a call with the summary of a context, a function with     *)
(* what its parameter holds.  A context is walked once; a call back into a *)
(* running walk is pending, and every walk that waits on a pending value   *)
(* is parked under the head of its cycle and resolved by rounds of         *)
(* replays.  The code is one recursive thread: `ctl` is its call stack,    *)
(* one frame for `solve`, one for each walk in progress and one for each   *)
(* resolve_group in progress.                                              *)
(*                                                                         *)
(* A definition called Mutant_X is X with one plausible slip in it.  No    *)
(* other definition uses it: it is there to be put in X's place, to see    *)
(* that the properties notice.                                             *)
(***************************************************************************)
EXTENDS CallBodies, Functions, FiniteSets

CONSTANTS Programs,         \* the programs checked: a body for each function
          Entries,          \* the entry functions a request may name
          MaxRounds,        \* limits.max_rounds
          MaxStack,         \* limits.max_stack
          MaxContexts,      \* limits.max_contexts
          ContextsPerFunc,  \* limits.contexts_per_func
          HasDeadline,      \* limits.deadline is set
          Reuse,            \* limits.reuse
          None              \* Option::None

ASSUME ProgramAssumption ==
    /\ Entries \subseteq Func
    /\ Programs \subseteq [Func -> Body]
ASSUME LimitAssumption ==
    /\ MaxRounds \in Nat
    /\ MaxStack \in Nat
    /\ MaxContexts \in Nat
    /\ ContextsPerFunc \in Nat
    /\ HasDeadline \in BOOLEAN
    /\ Reuse \in BOOLEAN

-----------------------------------------------------------------------------
Cut == {"Stack", "Contexts", "ContextsPerFunc", "Deadline"}

DeferredOp ==
    [op: {"Apply"}, ctx: Ctx] \cup
    [op: {"Call"}, site: Nat, callee: Value, arg: Value]

(* A walk: `calls[i]` is the edge of call site i, `resolved[d]` the value   *)
(* of deferred operation d in the latest round.                            *)
Walk == [deferred: Seq(DeferredOp), resolved: Seq(SUBSET V),
         calls: Seq(SUBSET Ctx), rets: Value]

FunctionResult == [calls: Seq(SUBSET Ctx), returns: SUBSET V,
                   capped: BOOLEAN, cut: Cut \cup {None}]

(* usize::MAX: no running context was read.                                *)
NoDepth == MaxStack

(* What a reader (a walk, or a fixpoint replaying) met below it.           *)
Note == [lowest: Nat, joins: Ctx \cup {None}, cut: Cut \cup {None}]
Nothing == [lowest |-> NoDepth, joins |-> None, cut |-> None]

(* The walk or fixpoint keeps the smallest depth and the first of the rest. *)
Noted(old, n) ==
    [lowest |-> IF n.lowest < old.lowest THEN n.lowest ELSE old.lowest,
     joins  |-> IF old.joins = None THEN n.joins ELSE old.joins,
     cut    |-> IF old.cut = None THEN n.cut ELSE old.cut]

Fixpoint == [head: Ctx, base: Nat, read: Note]
ASSUME CutAssumption == None \notin Cut

(* call_values in progress at one site: the callees still to be called.    *)
SiteCall == [todo: SUBSET Func, arg: SUBSET V, out: Value, targets: SUBSET Ctx]

ASSUME NoneAssumption ==    \* None is told apart from every Some
    /\ None \notin Ctx
    /\ \A vs \in SUBSET V : vs # None
    /\ None \notin Fixpoint
    /\ None \notin SiteCall
    /\ None \notin Walk
    /\ None \notin FunctionResult

SolveFrame == [kind: {"solve"}, base: Nat, ctx: Ctx, answered: BOOLEAN]
WalkFrame == [kind: {"walk"}, base: Nat, ctx: Ctx, w: Walk, vals: Seq(Value),
              site: SiteCall \cup {None}]
ResolveFrame == [kind: {"resolve"}, base: Nat, head: Ctx, members: Seq(Ctx),
                 round: Nat, changed: BOOLEAN, at: Nat \ {0}, pc: Nat \ {0},
                 now: Seq(SUBSET V), site: SiteCall \cup {None},
                 outer: Fixpoint \cup {None}]
Frame == SolveFrame \cup WalkFrame \cup ResolveFrame

VARIABLES
    prog,      \* the program: constant through a behaviour
    state,     \* slot.state of each context
    depth,     \* the depth in State::Running
    result,    \* slot.result
    current,   \* slot.current
    read,      \* slot.lowest, slot.joins and slot.cut
    walk,      \* slot.walk
    heads,     \* Heads, fully compressed: heads[c] is find(c)
    parked,    \* solver.parked
    stack,     \* solver.stack
    fixpoint,  \* solver.fixpoint
    perFunc,   \* solver.per_func
    walks,     \* solver.stats.walks
    expired,   \* the deadline has passed
    ctl        \* the thread's call stack

slots == <<state, depth, result, current, read, walk>>
counters == <<perFunc, walks>>
vars == <<prog, slots, heads, parked, stack, fixpoint, counters, expired, ctl>>

-----------------------------------------------------------------------------
(* Walks and summaries.                                                    *)

(* Every pending value replaced by what it resolved to.                    *)
Substitute(v, now) ==
    v.known \cup UNION {now[d] : d \in v.pending \cap DOMAIN now}

NoValues(w) == [d \in 1..Len(w.deferred) |-> {}]

FinishRound(w, now) ==
    [calls |-> w.calls, returns |-> Substitute(w.rets, now),
     capped |-> FALSE, cut |-> None]

(* A callee that is pending, or a project callee given a pending argument. *)
NeedsDefer(callee, arg) ==
    \/ callee.pending # {}
    \/ arg.pending # {} /\ callee.known \cap Func # {}

(* call_values before its first callee.  Unknown asks ty, which answers    *)
(* Unknown: the fallback of a deferred call is the same answer.            *)
StartSite(callees, arg) ==
    [todo |-> callees \cap Func, arg |-> arg, targets |-> {},
     out |-> [known |-> callees \cap {Unknown}, pending |-> {}]]

(* Callees are called in definition order.                                 *)
NextCallee(s) == CHOOSE f \in s.todo : \A g \in s.todo : f <= g

(* The first callee of the site has answered v.                            *)
Mutant_SiteAnswered(s, v) ==      \* no edge while the answer is pending
    LET f == NextCallee(s) IN
    [s EXCEPT !.todo = @ \ {f}, !.out = Join(@, v),
              !.targets = IF v.pending = {} THEN @ \cup {Key(f, s.arg)} ELSE @]

SiteAnswered(s, v) ==
    LET f == NextCallee(s) IN
    [s EXCEPT !.todo = @ \ {f}, !.out = Join(@, v),
              !.targets = @ \cup {Key(f, s.arg)}]

-----------------------------------------------------------------------------
(* The union-find and the reader.                                          *)

(* The groups of every context in ms go under h's.                         *)
Mutant_UnionInto(hs, ms, h) ==    \* what is parked under ms does not follow
    [c \in Ctx |-> IF c \in ms THEN hs[h] ELSE hs[c]]

UnionInto(hs, ms, h) ==
    [c \in Ctx |-> IF \E m \in ms : hs[c] = hs[m] THEN hs[h] ELSE hs[c]]

(* The reader is the fixpoint that replays at this stack depth, if any,    *)
(* else the walk on top of the stack.                                      *)
Mutant_ReaderIsFixpoint(fx, stk) == fx # None    \* even under a walk above it

ReaderIsFixpoint(fx, stk) == fx # None /\ fx.base = Len(stk)

FixpointTold(fx, stk, n) ==
    IF ReaderIsFixpoint(fx, stk) THEN [fx EXCEPT !.read = Noted(@, n)] ELSE fx

ReadsTold(rd, fx, stk, n) ==
    IF ~ReaderIsFixpoint(fx, stk) /\ stk # <<>>
    THEN [rd EXCEPT ![stk[Len(stk)]] = Noted(@, n)]
    ELSE rd

Mutant_DependsOn(d) == [Nothing EXCEPT !.lowest = d - 1]
DependsOn(d) == [Nothing EXCEPT !.lowest = d]
Mutant_Joins(h) == Nothing        \* a walk on top of a fixpoint is not told
Joins(h) == [Nothing EXCEPT !.joins = h]
IsCut(k) == [Nothing EXCEPT !.cut = k]

(* A read of a parked or resolving context: what the reader is told, and   *)
(* what it gets (None is Got::Pending).                                    *)
ReadGroupMember(c, st, hs, cur, fx, stk) ==
    LET h == hs[c] IN
    IF st[h] = "Running"
    THEN [note |-> DependsOn(depth[h]), got |-> None]
    ELSE IF ReaderIsFixpoint(fx, stk) /\ hs[fx.head] = h
    THEN [note |-> Nothing, got |-> cur[c].returns]
    ELSE [note |-> Joins(h), got |-> None]
-----------------------------------------------------------------------------
(* Frames and answers.                                                     *)

Top == ctl[Len(ctl)]
Below == SubSeq(ctl, 1, Len(ctl) - 1)

Member(fr) == fr.members[fr.at]
Replays(fr) == fr.kind = "resolve" /\ fr.at <= Len(fr.members)
Op(fr) == walk[Member(fr)].deferred[fr.pc]
HasOp(fr) == Replays(fr) /\ fr.pc <= Len(walk[Member(fr)].deferred)

InSite(fr) == fr.kind # "solve" /\ fr.site # None
Asks(fr) ==
    \/ fr.kind = "solve" /\ ~fr.answered
    \/ InSite(fr) /\ fr.site.todo # {}
    \/ HasOp(fr) /\ fr.site = None /\ Op(fr).op = "Apply"

Wanted(fr) ==
    IF fr.kind = "solve" THEN fr.ctx
    ELSE IF InSite(fr) THEN Key(NextCallee(fr.site), fr.site.arg)
    ELSE Op(fr).ctx

Capped(fr) == fr.round > MaxRounds

(* The value of a replayed operation; the last round allowed adds Unknown. *)
Mutant_OpDone(fr, v) ==           \* retried until it has a value
    [fr EXCEPT !.now[fr.pc] = v, !.pc = IF v = {} THEN @ ELSE @ + 1, !.site = None]

OpDone(fr, v) ==
    [fr EXCEPT !.now[fr.pc] = IF Capped(fr) THEN v \cup {Unknown} ELSE v,
               !.pc = @ + 1, !.site = None]

(* The rest of call_project, once `get` has answered.  A call that has an  *)
(* argument with no value is never made.  In a walk a pending answer is    *)
(* deferred; in a replay the solver has flagged the reader.                *)
Mutant_CallAnswered(fr, got) ==   \* a call with no value is made, and never deferred
    [fr EXCEPT !.site = SiteAnswered(@, [known |-> IF got = None THEN {} ELSE got,
                                         pending |-> {}])]

CallAnswered(fr, got) ==
    LET known(S) == [fr EXCEPT !.site =
                        SiteAnswered(@, [known |-> S, pending |-> {}])]
    IN  IF fr.site.arg = {} THEN known({})
        ELSE IF got # None THEN known(got)
        ELSE IF fr.kind = "resolve" THEN known({})
        ELSE [fr EXCEPT
                !.w.deferred = Append(@, [op |-> "Apply", ctx |-> Wanted(fr)]),
                !.site = SiteAnswered(@, [known |-> {},
                                          pending |-> {Len(fr.w.deferred) + 1}])]

Answered(fr, got) ==
    IF fr.kind = "solve" THEN [fr EXCEPT !.answered = TRUE]
    ELSE IF InSite(fr) THEN CallAnswered(fr, got)
    ELSE OpDone(fr, IF got = None THEN {} ELSE got)

(* The caller's frame continues with the answer.                           *)
Answer(cs, got) == [cs EXCEPT ![Len(cs)] = Answered(@, got)]

(* The reader below is told n, then gets its answer.                       *)
Return(cs, rd, fx, stk, n, got) ==
    /\ read' = ReadsTold(rd, fx, stk, n)
    /\ fixpoint' = FixpointTold(fx, stk, n)
    /\ ctl' = Answer(cs, got)

-----------------------------------------------------------------------------
Init ==
    /\ prog \in Programs
    /\ state = [c \in Ctx |-> "New"]
    /\ depth = [c \in Ctx |-> 0]
    /\ result = [c \in Ctx |-> None]
    /\ current = [c \in Ctx |-> None]
    /\ read = [c \in Ctx |-> Nothing]
    /\ walk = [c \in Ctx |-> None]
    /\ heads = [c \in Ctx |-> c]
    /\ parked = <<>>
    /\ stack = <<>>
    /\ fixpoint = None
    /\ perFunc = [f \in Func |-> 0]
    /\ walks = 0
    /\ expired = FALSE
    /\ \E f \in Entries :
         ctl = <<[kind |-> "solve", base |-> 0, ctx |-> Key(f, {}), answered |-> FALSE]>>

(* get: answered from the slot.                                            *)
GetReady ==
    LET c == Wanted(Top) IN
    /\ Asks(Top)
    /\ Reuse
    /\ state[c] = "Ready"
    /\ ctl' = Answer(ctl, result[c].returns)
    /\ UNCHANGED <<prog, slots, heads, parked, stack, fixpoint, counters, expired>>

(* get: a recursive call.                                                  *)
GetRunning ==
    LET c == Wanted(Top) IN
    /\ Asks(Top)
    /\ state[c] = "Running"
    /\ Return(ctl, read, fixpoint, stack, DependsOn(depth[c]), None)
    /\ UNCHANGED <<prog, state, depth, result, current, walk, heads, parked,
                   stack, counters, expired>>

(* get: a context that waits for its group.                                *)
GetGroupMember ==
    LET c == Wanted(Top)
        m == ReadGroupMember(c, state, heads, current, fixpoint, stack) IN
    /\ Asks(Top)
    /\ state[c] \in {"Parked", "Resolving"}
    /\ Return(ctl, read, fixpoint, stack, m.note, m.got)
    /\ UNCHANGED <<prog, state, depth, result, current, walk, heads, parked,
                   stack, counters, expired>>

Mutant_MustWalk(c) == state[c] \in {"New", "Cut", "Ready", "Parked"}

MustWalk(c) == state[c] \in {"New", "Cut"} \/ (state[c] = "Ready" /\ ~Reuse)

(* The first cost limit that fires for a context about to be walked.       *)
Mutant_CostLimit(c) ==      \* one too many of a function
    IF Len(stack) >= MaxStack THEN "Stack"
    ELSE IF walks >= MaxContexts THEN "Contexts"
    ELSE IF perFunc[c.func] > ContextsPerFunc THEN "ContextsPerFunc"
    ELSE IF expired THEN "Deadline"
    ELSE None
CostLimit(c) ==
    IF Len(stack) >= MaxStack THEN "Stack"
    ELSE IF walks >= MaxContexts THEN "Contexts"
    ELSE IF perFunc[c.func] >= ContextsPerFunc THEN "ContextsPerFunc"
    ELSE IF expired THEN "Deadline"
    ELSE None

(* FunctionResult::cut: the answer of a call a limit stopped.              *)
Mutant_CutReturns == {}
CutReturns == {Unknown}

(* get: a cost limit fires.  The answer is not stored.                     *)
GetCut ==
    LET c == Wanted(Top) IN
    /\ Asks(Top)
    /\ MustWalk(c)
    /\ CostLimit(c) # None
    /\ Return(ctl, read, fixpoint, stack, IsCut(CostLimit(c)), CutReturns)
    /\ UNCHANGED <<prog, state, depth, result, current, walk, heads, parked,
                   stack, counters, expired>>

(* get: the walk starts.                                                   *)
GetWalk ==
    LET c == Wanted(Top) IN
    /\ Asks(Top)
    /\ MustWalk(c)
    /\ CostLimit(c) = None
    /\ heads' = [heads EXCEPT ![c] = c]
    /\ state' = [state EXCEPT ![c] = "Running"]
    /\ depth' = [depth EXCEPT ![c] = Len(stack)]
    /\ read' = [read EXCEPT ![c] = Nothing]
    /\ stack' = Append(stack, c)
    /\ perFunc' = [perFunc EXCEPT ![c.func] = @ + 1]
    /\ walks' = walks + 1
    /\ ctl' = Append(ctl, [kind |-> "walk", base |-> Len(stack), ctx |-> c,
                           w |-> [deferred |-> <<>>, resolved |-> <<>>,
                                  calls |-> <<>>, rets |-> NoValue],
                           vals |-> <<>>, site |-> None])
    /\ UNCHANGED <<prog, result, current, walk, parked, fixpoint, expired>>

(* The deadline passes, whatever the thread is doing.                      *)
DeadlinePasses ==
    /\ HasDeadline
    /\ ~expired
    /\ expired' = TRUE
    /\ UNCHANGED <<prog, slots, heads, parked, stack, fixpoint, counters, ctl>>

-----------------------------------------------------------------------------
(* Walking a body.                                                         *)

BodyOf(fr) == prog[fr.ctx.func]
AtSite == Top.kind = "walk" /\ Top.site = None /\ Len(Top.vals) < Len(BodyOf(Top).sites)
SiteNow == BodyOf(Top).sites[Len(Top.vals) + 1]
Callee == Eval(SiteNow.callee, Top.ctx, Top.vals)
Arg == Eval(SiteNow.arg, Top.ctx, Top.vals)
SetTop(fr) == ctl' = [ctl EXCEPT ![Len(ctl)] = fr]

(* eval_call: a call that can't be keyed yet.  Its edge keeps its place.   *)
DeferCall ==
    /\ AtSite
    /\ NeedsDefer(Callee, Arg)
    /\ SetTop([Top EXCEPT
         !.w.deferred = Append(@, [op |-> "Call", site |-> Len(Top.vals) + 1,
                                   callee |-> Callee, arg |-> Arg]),
         !.w.calls = Append(@, {}),
         !.vals = Append(@, [known |-> {}, pending |-> {Len(Top.w.deferred) + 1}])])
    /\ UNCHANGED <<prog, slots, heads, parked, stack, fixpoint, counters, expired>>

(* eval_call: call_values starts.                                          *)
StartCall ==
    /\ AtSite
    /\ ~NeedsDefer(Callee, Arg)
    /\ SetTop([Top EXCEPT !.site = StartSite(Callee.known, Arg.known)])
    /\ UNCHANGED <<prog, slots, heads, parked, stack, fixpoint, counters, expired>>

(* call_values: every callee has answered.                                 *)
FinishCall ==
    /\ Top.kind = "walk" /\ InSite(Top) /\ Top.site.todo = {}
    /\ SetTop([Top EXCEPT !.w.calls = Append(@, Top.site.targets),
                          !.vals = Append(@, Top.site.out), !.site = None])
    /\ UNCHANGED <<prog, slots, heads, parked, stack, fixpoint, counters, expired>>

(* The walk is over: its context, what it read, the stack without it.      *)
WalkOver == Top.kind = "walk" /\ Top.site = None /\ Len(Top.vals) = Len(BodyOf(Top).sites)
Under == SubSeq(stack, 1, Len(stack) - 1)
WalkDone == [Top.w EXCEPT !.rets = Eval(BodyOf(Top).rets, Top.ctx, Top.vals)]
RoundZero(w) == FinishRound(w, NoValues(w))

(* park: the walk is kept, under `head`, with a summary to read at once.   *)
Mutant_Park(c, w, head) ==        \* the slot stays Running
    /\ current' = [current EXCEPT ![c] = IF @ = None THEN RoundZero(w) ELSE @]
    /\ heads' = UnionInto(heads, {c}, head)
    /\ walk' = [walk EXCEPT ![c] = w]
    /\ state' = state
    /\ parked' = Append(parked, c)

Park(c, w, head) ==
    /\ current' = [current EXCEPT ![c] = IF @ = None THEN RoundZero(w) ELSE @]
    /\ heads' = UnionInto(heads, {c}, head)
    /\ walk' = [walk EXCEPT ![c] = w]
    /\ state' = [state EXCEPT ![c] = "Parked"]
    /\ parked' = Append(parked, c)

(* In a cycle whose head is further down the stack.                        *)
ParkInCycle ==
    LET c == Top.ctx
        r == read[c] IN
    /\ WalkOver
    /\ r.lowest < Len(Under)
    /\ Park(c, WalkDone, heads[stack[r.lowest + 1]])
    /\ stack' = Under
    /\ Return(Below, read, fixpoint, Under, [r EXCEPT !.cut = None], None)
    /\ UNCHANGED <<prog, depth, result, counters, expired>>

(* First reached during a fixpoint, it calls back into the group: it joins. *)
ParkInGroup ==
    LET c == Top.ctx
        r == read[c]
        m == ReadGroupMember(c, state', heads', current', fixpoint, Under) IN
    /\ WalkOver
    /\ r.lowest >= Len(Under)
    /\ r.joins # None
    /\ Park(c, WalkDone, r.joins)
    /\ stack' = Under
    /\ Return(Below, read, fixpoint, Under, m.note, m.got)
    /\ UNCHANGED <<prog, depth, result, counters, expired>>

(* A walk that waited on nothing: its summary is final.                    *)
FinishAlone ==
    LET c == Top.ctx
        r == read[c]
        res == [RoundZero(WalkDone) EXCEPT !.cut = r.cut] IN
    /\ WalkOver
    /\ r.lowest > Len(Under)
    /\ r.joins = None
    /\ state' = [state EXCEPT ![c] = IF r.cut = None THEN "Ready" ELSE "Cut"]
    /\ result' = [result EXCEPT ![c] = res]
    /\ stack' = Under
    /\ Return(Below, read, fixpoint, Under, IsCut(r.cut), res.returns)
    /\ UNCHANGED <<prog, depth, current, walk, heads, parked, counters, expired>>

-----------------------------------------------------------------------------
(* The fixpoint over a group.                                              *)

(* Those of ps that are in S, in their order.                              *)
Kept(ps, S) ==
    LET upTo[i \in 0..Len(ps)] ==
            IF i = 0 THEN <<>>
            ELSE IF ps[i] \in S THEN Append(upTo[i - 1], ps[i]) ELSE upTo[i - 1]
    IN upTo[Len(ps)]

Group(hs, head) == {c \in Ctx : hs[c] = head}
Taken(ps, hs, head) == Kept(ps, Group(hs, head))
Mutant_Left(ps, hs, head) == ps   \* taken, and not removed
Left(ps, hs, head) == Kept(ps, Ctx \ Group(hs, head))

(* resolving_from_round0, for every context of ms; ws are their walks.     *)
FromRoundZero(ms, ws) ==
    /\ current' = [c \in Ctx |-> IF c \in ms THEN RoundZero(ws[c]) ELSE current[c]]
    /\ walk' = [c \in Ctx |-> IF c \in ms THEN [ws[c] EXCEPT !.resolved = NoValues(ws[c])]
                                          ELSE walk[c]]
    /\ state' = [c \in Ctx |-> IF c \in ms THEN "Resolving" ELSE state[c]]

(* The head of a cycle: its group's fixpoint starts.                       *)
ResolveGroup ==
    LET c == Top.ctx
        r == read[c]
        ps == Append(parked, c)
        ms == Taken(ps, heads, c)
        ws == [walk EXCEPT ![c] = WalkDone] IN
    /\ WalkOver
    /\ r.lowest = Len(Under)
    /\ r.joins = None
    /\ stack' = Under
    /\ parked' = Left(ps, heads, c)
    /\ FromRoundZero(Range(ms), ws)
    /\ fixpoint' = [head |-> c, base |-> Len(Under), read |-> Nothing]
    /\ ctl' = Append(Below,
         [kind |-> "resolve", base |-> Len(Under), head |-> c, members |-> ms,
          round |-> 1, changed |-> FALSE, at |-> 1, pc |-> 1,
          now |-> NoValues(ws[ms[1]]), site |-> None, outer |-> fixpoint])
    /\ UNCHANGED <<prog, depth, result, read, heads, counters, expired>>

(* replay: a deferred call is made, with the values resolved so far.       *)
ReplayCall ==
    /\ HasOp(Top) /\ Top.site = None /\ Op(Top).op = "Call"
    /\ SetTop([Top EXCEPT !.site = StartSite(Substitute(Op(Top).callee, Top.now),
                                             Substitute(Op(Top).arg, Top.now))])
    /\ UNCHANGED <<prog, slots, heads, parked, stack, fixpoint, counters, expired>>

(* replay: the deferred call has its value, and refills its edge.          *)
ReplayDone ==
    /\ HasOp(Top) /\ InSite(Top) /\ Top.site.todo = {}
    /\ walk' = [walk EXCEPT ![Member(Top)].calls[Op(Top).site] = Top.site.targets]
    /\ SetTop(OpDone(Top, Top.site.out.known))
    /\ UNCHANGED <<prog, state, depth, result, current, read, heads, parked,
                   stack, fixpoint, counters, expired>>

(* The operations of a member are done.  read: what the fixpoint met.      *)
MemberOver ==
    /\ Replays(Top)
    /\ Top.site = None
    /\ Top.pc > Len(walk[Member(Top)].deferred)
KeepsResolved == walk' = [walk EXCEPT ![Member(Top)].resolved = Top.now]

(* Nothing further down was reached: the member's summary of this round.   *)
NextMember ==
    LET m == Member(Top)
        next == FinishRound(walk[m], Top.now) IN
    /\ MemberOver
    /\ fixpoint.read.lowest = NoDepth
    /\ fixpoint.read.joins = None
    /\ KeepsResolved
    /\ current' = [current EXCEPT ![m] = next]
    /\ SetTop([Top EXCEPT
         !.changed = @ \/ next.returns # current[m].returns,
         !.at = @ + 1, !.pc = 1,
         !.now = IF Top.at < Len(Top.members)
                 THEN walk[Top.members[Top.at + 1]].resolved ELSE <<>>])
    /\ UNCHANGED <<prog, state, depth, result, read, heads, parked, stack,
                   fixpoint, counters, expired>>

(* A cut an operation hit stays with the members while they wait.          *)
KeepCut(rd, ms, cut) ==
    [c \in Ctx |-> IF c \in ms THEN Noted(rd[c], IsCut(cut)) ELSE rd[c]]

(* park_all: the fixpoint stops, every member goes under `head`.           *)
ParkAll(head) ==
    LET ms == Range(Top.members) IN
    /\ heads' = UnionInto(heads, ms, head)
    /\ state' = [c \in Ctx |-> IF c \in ms THEN "Parked" ELSE state[c]]
    /\ parked' = parked \o Top.members

(* A replay reached a context running further down: a bigger cycle.        *)
Merged ==
    LET r == fixpoint.read IN
    /\ MemberOver
    /\ r.lowest # NoDepth
    /\ KeepsResolved
    /\ ParkAll(stack[r.lowest + 1])
    /\ Return(Below, KeepCut(read, Range(Top.members), r.cut), Top.outer, stack,
              DependsOn(r.lowest), None)
    /\ UNCHANGED <<prog, depth, result, current, stack, counters, expired>>

(* A replay reached an outer group in its fixpoint: the group joins it.    *)
Joined ==
    LET r == fixpoint.read
        m == ReadGroupMember(Top.head, state', heads', current, Top.outer, stack) IN
    /\ MemberOver
    /\ r.lowest = NoDepth
    /\ r.joins # None
    /\ KeepsResolved
    /\ ParkAll(r.joins)
    /\ Return(Below, KeepCut(read, Range(Top.members), r.cut), Top.outer, stack,
              m.note, m.got)
    /\ UNCHANGED <<prog, depth, result, current, stack, counters, expired>>

RoundOver == Top.kind = "resolve" /\ Top.at > Len(Top.members)
Joiners == Taken(parked, heads, Top.head)
Mutant_RoundChanged == Top.changed    \* who joined is not counted
Mutant_RoundSame == TRUE              \* summaries compared in order
RoundChanged == Top.changed \/ Joiners # <<>>

(* The contexts that joined during the round start from round 0.           *)
NextRound ==
    LET ms == Top.members \o Joiners IN
    /\ RoundOver
    /\ RoundChanged /\ ~Capped(Top)
    /\ parked' = Left(parked, heads, Top.head)
    /\ FromRoundZero(Range(Joiners), walk)
    /\ SetTop([Top EXCEPT !.members = ms, !.round = @ + 1, !.changed = FALSE,
                          !.at = 1, !.pc = 1, !.now = walk[ms[1]].resolved])
    /\ UNCHANGED <<prog, depth, result, read, heads, stack, fixpoint, counters, expired>>

(* The first cut a member read, in member order.                           *)
Mutant_FirstCut(ms) == None
FirstCut(ms) ==
    LET cuts == {i \in DOMAIN ms : read[ms[i]].cut # None} IN
    IF cuts = {} THEN None
    ELSE read[ms[CHOOSE i \in cuts : \A j \in cuts : i <= j]].cut

(* The group is final: every member's last summary is its result.          *)
Settle ==
    LET seq == Top.members \o Joiners
        ms == Range(seq)
        new == Range(Joiners)
        cut == IF fixpoint.read.cut # None THEN fixpoint.read.cut ELSE FirstCut(seq)
        last(c) == IF c \in new THEN RoundZero(walk[c]) ELSE current[c]
        res(c) == [last(c) EXCEPT !.capped = Capped(Top), !.cut = cut] IN
    /\ RoundOver
    /\ ~RoundChanged \/ Capped(Top)
    /\ parked' = Left(parked, heads, Top.head)
    /\ result' = [c \in Ctx |-> IF c \in ms THEN res(c) ELSE result[c]]
    /\ current' = [c \in Ctx |-> IF c \in ms THEN None ELSE current[c]]
    /\ walk' = [c \in Ctx |-> IF c \in ms THEN None ELSE walk[c]]
    /\ state' = [c \in Ctx |-> IF c \notin ms THEN state[c]
                               ELSE IF cut = None THEN "Ready" ELSE "Cut"]
    /\ Return(Below,
              [c \in Ctx |-> IF c \in ms THEN [read[c] EXCEPT !.cut = cut] ELSE read[c]],
              Top.outer, stack, IsCut(cut), res(Top.head).returns)
    /\ UNCHANGED <<prog, depth, heads, stack, counters, expired>>

-----------------------------------------------------------------------------
Done == Len(ctl) = 1 /\ ctl[1].answered
Finished == Done /\ UNCHANGED vars

Get == GetReady \/ GetRunning \/ GetGroupMember \/ GetCut \/ GetWalk
WalkStep ==
    \/ DeferCall \/ StartCall \/ FinishCall
    \/ ParkInCycle \/ ParkInGroup \/ FinishAlone
FixpointStep ==
    \/ ResolveGroup \/ ReplayCall \/ ReplayDone
    \/ NextMember \/ Merged \/ Joined \/ NextRound \/ Settle

Thread == Get \/ WalkStep \/ FixpointStep
Next == Thread \/ DeadlinePasses \/ Finished

Spec == Init /\ [][Next]_vars

(* The thread runs as long as it has something to do.                      *)
FairSpec == Spec /\ WF_vars(Thread)

-----------------------------------------------------------------------------
(* Properties of the solver's own bookkeeping.                             *)

TypeOK ==
    /\ prog \in Programs
    /\ state \in [Ctx -> {"New", "Running", "Parked", "Resolving", "Ready", "Cut"}]
    /\ depth \in [Ctx -> Nat]
    /\ result \in [Ctx -> FunctionResult \cup {None}]
    /\ current \in [Ctx -> FunctionResult \cup {None}]
    /\ read \in [Ctx -> Note]
    /\ walk \in [Ctx -> Walk \cup {None}]
    /\ heads \in [Ctx -> Ctx]
    /\ parked \in Seq(Ctx)
    /\ stack \in Seq(Ctx)
    /\ fixpoint \in Fixpoint \cup {None}
    /\ perFunc \in [Func -> Nat]
    /\ walks \in Nat
    /\ expired \in BOOLEAN
    /\ ctl \in Seq(Frame)

(* A context is Running exactly while its walk is on the stack, and its    *)
(* slot's depth is its place there: a recursive read notes the right walk. *)
StackMatches ==
    /\ \A c \in Ctx : state[c] = "Running" <=> c \in Range(stack)
    /\ \A i \in DOMAIN stack : depth[stack[i]] = i - 1

(* reader_depends_on, reader_joins and reader_is_cut find the reader by    *)
(* comparing fixpoint.base with the stack's length: that is the fixpoint   *)
(* exactly when an operation of it is being replayed, and otherwise the    *)
(* walk that asked.                                                        *)
ReaderIsTheAsker ==
    /\ ReaderIsFixpoint(fixpoint, stack) <=> Top.kind = "resolve"
    /\ Top.kind = "resolve" => fixpoint.head = Top.head
    /\ Top.kind = "walk" => stack # <<>> /\ stack[Len(stack)] = Top.ctx

(* A context that waits has its walk and a summary to read, is held in one *)
(* place only (the parked list, or one fixpoint's members), and its group's *)
(* head is a walk in progress or a fixpoint in progress: none of the       *)
(* `expect`s of the solver fires, and no waiting context is forgotten.     *)
Fixpoints == {i \in DOMAIN ctl : ctl[i].kind = "resolve"}
Holders(c) ==
    {<<0, j>> : j \in {j \in DOMAIN parked : parked[j] = c}} \cup
    UNION {{<<i, j>> : j \in {j \in DOMAIN ctl[i].members : ctl[i].members[j] = c}} :
               i \in Fixpoints}
WaitersAreHeld ==
    \A c \in Ctx :
      /\ state[c] \in {"Parked", "Resolving"} =>
           /\ walk[c] # None /\ current[c] # None
           /\ \E h \in Holders(c) :
                 Holders(c) = {h} /\ (state[c] = "Parked" <=> h[1] = 0)
           /\ \/ state[heads[c]] = "Running"
              \/ \E i \in Fixpoints : ctl[i].head = heads[c]
      /\ state[c] \notin {"Parked", "Resolving"} => Holders(c) = {}

(* finish_alone's debug_assert: a walk that read nothing unfinished waits  *)
(* for nothing.                                                            *)
FinishesAlone ==
    WalkOver /\ read[Top.ctx].lowest > Len(Under) /\ read[Top.ctx].joins = None
AloneDefersNothing == FinishesAlone => Top.w.deferred = <<>>

(* settle's debug_assert: no member of a group that settles waited on a    *)
(* context outside it.  The code does not keep to it.                      *)
Settles == RoundOver /\ (~RoundChanged \/ Capped(Top))
NobodyWaitsOutside ==
    Settles => \A c \in Range(Top.members \o Joiners) :
       \A d \in Range(walk[c].deferred) :
          d.op = "Apply" => heads[d.ctx] = heads[Top.head]

(* Every context is walked once, however often its group is merged, joined *)
(* or restarted, unless a limit other than the deadline cut it.            *)
WalkedOnce == walks = Cardinality({c \in Ctx : state[c] # "New"})

(* When `solve` returns nothing is parked, running or resolving: whatever  *)
(* was walked has its summary, and the entry too, unless a limit cut it.   *)
NothingLeftWaiting ==
    Done => /\ parked = <<>> /\ stack = <<>> /\ fixpoint = None
            /\ \A c \in Ctx : state[c] \in {"New", "Ready", "Cut"}

(* A summary that can be reused never changes and is never withdrawn.      *)
ReadyIsFinal ==
    [][\A c \in Ctx : state[c] = "Ready" =>
          state'[c] = "Ready" /\ result'[c] = result[c]]_vars

(* The summaries that can be reused.                                       *)
Summaries ==
    [c \in {c \in Ctx : state[c] = "Ready"} |->
        [returns |-> result[c].returns, calls |-> result[c].calls]]

(* A cut is never lost: a summary that is not marked cut reads only        *)
(* summaries that are not.                                                 *)
CutsAreMarked ==
    \A c \in Ctx : state[c] = "Ready" =>
        \A i \in DOMAIN result[c].calls : \A d \in result[c].calls[i] :
            state[d] = "Ready"

(* The entry is marked cut if anything it led to is, by whatever way.      *)
EntryIsMarked ==
    Done /\ state[ctl[1].ctx] = "Ready" => \A c \in Ctx : state[c] # "Cut"

(* What the limits promise, although a context that was cut is walked, and  *)
(* counted, again: no more contexts of a function or in all have a slot,    *)
(* and no more walks are open, than they allow.                            *)
Known == {c \in Ctx : state[c] # "New"}
KnownOf(f) == {c \in Known : c.func = f}
WithinLimits ==
    /\ Len(stack) <= MaxStack
    /\ Cardinality(Known) <= MaxContexts
    /\ \A f \in Func : Cardinality(KnownOf(f)) <= ContextsPerFunc

(* No cycle needs more rounds than max_rounds.                             *)
RoundsSuffice == \A i \in Fixpoints : ~Capped(ctl[i])

(* The request ends.                                                       *)
Terminates == <>Done

=============================================================================
