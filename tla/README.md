# A verification project for the call-tree analyser

The repository is a static analyser for Python written in Rust on top of ruff's
parser and ty's type inference (both vendored). Its core logic is an abstract
interpreter, `src/src/interp/`, which finds the functions a given entry function
may call, and what they may return, by walking their bodies. Around it are small
tools that number nodes, inject ids into source files, print attributes and
method resolution orders.

This project models the interpreter's **summary-mode solver**: the part where
recursion, reuse, nested fixpoints, limits and a deadline meet; the **walker** that
both modes share, statement by statement, with closures, keys, summaries, argument
binding, objects and the two ways to a tree, beside what Python does; the analysis that
decides which parameters a summary depends on; and the injection of ids into source
files. TLC checks them on families of small programs and files, and TLAPS proves the
solver's bookkeeping, who waits in it for whom, what its readers are told, its limits, that its finished summaries are exactly the least solution of the
program's equations, and the parameter analysis, for every program; and that concurrent injections never mix two texts, nor report one that was not on disk after their write.

Paths below are relative to `src/src/` unless they start with `plan/` or
`experience/`, which are the repository's design documents.

## 1. Inventory

| component | source | state it keeps | operations | hard behaviour | what makes it correct |
|---|---|---|---|---|---|
| summary-mode solver | `interp/solver.rs` | one slot per context, union-find of heads, parked list, stack, current fixpoint, counters | `get`, `park`, `resolve_group`, `park_all`, `settle`, `finish_alone`, `cost_limit`, readers | re-entrant recursion in which a fixpoint may start another, merge into a bigger cycle or join a group further down; contexts first met in a round; limits that fire anywhere | every reusable summary is the least solution of its equations; a cut is never lost; nobody who waits is forgotten; it ends |
| deferred operations | `interp/defer.rs` | operations and their values in each `Walk` | `defer`, `replay`, `substitute` | operations read earlier results of the same round and later ones of the last | a replay ends with the edge and the value of the call |
| call evaluation | `interp/call.rs` | none of its own | `eval_call`, `needs_defer`, `call_values`, `call_project`; inline mode: `inline_node`, `call_function`, `construct` | a call with a pending callee or argument; one site, many callees | each site has one edge, with every callee |
| summaries | `interp/summary.rs` | `FunctionResult` | `finish_round`, `cut`, `to_svals`, `resolve` | closures that leave their context, hold themselves or each other; depth limit | a summary means the same to every caller |
| context keys | `interp/key.rs` | interners of contexts and fingerprints | `key`, `materialize` | closures nested in keys are cut at `fp_depth`, `Back(k)` inside | a key says all that its walk reads; keys are finitely many |
| body walker, environment | `interp/walk.rs`, `interp/env.rs` | activations, environments, defaults, the walk's returns and call edges | statements, expressions, branch joins, loops, lookup through runs | joins after early exits; closures that read a run's variables while they change | what a name holds covers every path Python may take |
| binding | `interp/bind.rs` | none | `eval_arguments`, `bind_parameters`, `default_value` | splats, defaults, keywords, receivers, decorators | a parameter gets the values Python gives it |
| relevant parameters | `interp/relevant.rs` | memo per function | taint fixpoint over assignments | what it misses is dropped from keys | no parameter that a call or a return reads is missed |
| members, classes | `interp/member.rs` | attributes per object, in the environment | `eval_attribute`, `bind_attribute`, properties, constructors | several receivers, objects whose identity is a site and a run | an attribute holds what was last written, or may have been |
| call tree, rendering | `interp/tree.rs`, `interp/render.rs` | a tree under construction | unfold the summary graph, with marks | several contexts of one function at one site | the same tree as inline mode's |
| entry, options, inline mode | `interp/mod.rs` | options, statistics | `call_tree`, `solve`, `inline_tree` | recursion, guarded by names on the path | no call missed, none made up |
| values | `interp/value.rs` | interned objects and receivers | `lift`, `dedup` | | |
| fixtures | `interp/fixture.rs` | none | test harness | | |
| injection | `inject.rs`, `edit.rs`, `scan.rs`, `defs.rs`, `bin/inject.rs` | the revision and the text the database knows, planned edits | insert ids, rewrite files | the text in the database against the file on disk; edits that shift each other; indentation copied from one-liners, decorators, closing quotes | the file still parses, means the same, has a key for every def; the report is the outline of a text that was on disk after the write |
| positions | `positions.rs`, `lines.rs`, `nodes.rs`, `check_positions.rs`, `show.rs` | none | conversions, display | | |
| semantic queries | `db.rs`, `sem.rs`, `qname.rs`, `attrs.rs`, `mro.rs` | salsa's | queries | | |
| command line | `main.rs`, `lib.rs`, `bin/` | none | | | |
| ruff and ty | `vendor/` | | | | third party |

**How they interact.** `solve` (`mod.rs`) asks the solver for the entry's
context. `Solver::get` answers from the slot or walks the body (`walk.rs`), whose
calls go through `eval_call` (`call.rs`) back into `get`, for the callee's
context that `key.rs` makes. Everything is a call on one thread: shared state is
the `Solver` that every frame borrows, and what makes it hard is not
concurrency but re-entrance. Between two lines of `get` or `resolve_group` any
number of walks and fixpoints may have started, ended, merged or joined, and
the outer frame goes on with slots, heads, parked list and `fixpoint` as they
are then. The clock is the only other actor: the deadline may pass
between any two steps.

The things that are hard to test are listed in `PROJECT.json` under `hazards`,
each at its line, with the properties that would notice.

## 2. What the solver does

A *context* is a function and a fingerprint of its relevant arguments. `get(c)`:

* **Ready**: the stored summary (unless reuse is off).
* **Running**: a recursive call. The reader notes the depth of the walk it
  depends on and gets a *pending* value, one that is found later.
* **Parked / Resolving**: the context waits for its group. If the reader is the
  group's own fixpoint it gets the current approximation, else it is told which
  walk, or which group, it now waits on.
* otherwise the **cost limits** are asked, then the body is walked. A walk that
  depended on a walk below it is *parked* under the head of that cycle; one that
  reached a group being resolved is parked under that group; one that only
  depended on itself is the head, and `resolve_group` replays the deferred operations of
  everything parked under it, round after round, until nothing changes and nobody joined.
  A replay is an ordinary call: it may walk new contexts, start an inner
  fixpoint, or discover that the group is part of a bigger cycle (`Merged`) or
  of an outer group (`Joined`), and then the fixpoint stops and parks everyone.

## 3. The modules

| module | models | code |
|---|---|---|
| `CallBodies` | values, bodies, contexts, keys, expressions | `value.rs`, `walk.rs`, `key.rs` |
| `CallSolver` | the solver, the evaluation of calls, deferred operations; its own invariants | `solver.rs`, `call.rs`, `defer.rs`, `summary.rs` |
| `CallEquations`, `LeastSolutions` | the reference: an equation for each context, and their least solution; no walk, no order | what `walk.rs` and `call.rs` compute when every call is answered |
| `SummaryStore` | the abstract specification: summaries appear a whole group at a time, each the right one, once everything it needs is there, and never change | what `get` promises |
| `CallSolverResults` | the results of `CallSolver` against `CallEquations`; the refinement of `SummaryStore` | |
| `CallSolverInvariant` | the inductive invariant | |
| `CallSolver_proofs` | lemmas about the operators, theorems and proofs; among them that the limits hold, and that nothing is walked twice unless a limit fires | |
| `CallSolverWaiters` | who waits, and for whom: the second half of the inductive invariant | |
| `CallSolverWaiters_proofs` | the proofs that what waits is held and will be resolved, and that nothing is left at the end | |
| `CallSolverReaders` | what the readers were told: a further part of the inductive invariant | |
| `CallSolverReaders_proofs` | the proofs that a walk that ends alone deferred nothing, and that no cut is lost on its way to the entry | |
| `CallSolverBounds` | what bounds the equations of a program, and that all the solver has found stays below: a further part of the inductive invariant | |
| `CallSolverBounds_proofs` | the proof that no finished summary holds more than the equations allow | |
| `CallSolverClosed` | that every call made so far is accounted for, the last part of the inductive invariant; the least solution without recursion, and the refinement of `SummaryStore` with it | |
| `CallSolverClosed_proofs` | the proof that finished summaries leave nothing out | |
| `CallSolverLeast_proofs` | the proofs that finished summaries are the least solution, that what they call is finished, and that the solver implements the store | |
| `MCCallSolver` | the programs and constants of the runs | |
| `MCCallSolverBounds` | the same for `groups`; evaluates there that the least solution TLC computes is a solution and a bound, and that every call has an argument with a value | |
| `PyText` | programs as syntax trees, their scopes and free variables | `sem.rs` |
| `WalkEnvs` | values, environments, joins, the lookup of a name | `value.rs`, `env.rs`, `walk.rs` |
| `ContextKeys` | fingerprints, keys, summary values, and what is rebuilt from them | `key.rs`, `summary.rs` |
| `ArgBinding` | what the parameters of a call hold | `bind.rs` |
| `BodyWalk` | the walker in both modes, calls, objects, the inline tree, the summary graph, the rendered tree | `walk.rs`, `call.rs`, `member.rs`, `summary.rs`, `render.rs`, `mod.rs` |
| `PyRuns` | the reference: every run Python may make of a program. External: no code of the repository | Python |
| `CallTrees` | a request in both modes beside Python's runs; what the trees owe them and each other | `mod.rs` (`call_tree`) |
| `MCCallTrees` | the families of programs of the runs `bodies` and `breaks` | |
| `RelevantParams` | the passes of `relevant_params`, a statement at a time, and what they ought to find | `relevant.rs` |
| `RelevantWalk` | what a walk of the same body learns of its parameters: composes with the above, which runs first | `walk.rs`, `env.rs`, `key.rs` (`materialize`) |
| `RelevantWalk_proofs` | theorems and proofs | |
| `MCRelevant` | the bodies of the run `relevant` | |
| `IdEdits` | texts, how they are read, where an id goes and what is inserted there | `edit.rs`, `defs.rs`, `scan.rs` |
| `Inject` | processes that inject ids into a file, and an editor that saves it | `inject.rs`, `bin/inject.rs` |
| `Inject_proofs` | theorems and proofs | |
| `MCInject` | the files of the runs `keys`, `race`, `oldmac` | |

The families meet in a key. `CallBodies` makes a context of a function and what
its *relevant* parameters hold (`Relevant` is a constant there); `RelevantWalk` shows that
leaving out the others is sound; `ContextKeys` has the keys in full, closures and all.
`CallSolver` has recursion and none of the walker's detail, `BodyWalk` all of the detail, in
programs in which no context is called again while it is walked (inline mode does recurse there, up
to its guard). Injection is a program of its own.

### State of the solver

| variable | code |
|---|---|
| `state`, `depth`, `result`, `current`, `walk` | the fields of `Slot`; `depth` is the one in `State::Running` |
| `read` | `slot.lowest`, `slot.joins`, `slot.cut` |
| `heads` | `Heads`: `heads[c]` is `find(c)` |
| `parked`, `stack`, `fixpoint`, `perFunc`, `walks` | the fields of `Solver` (`walks` is `stats.walks`) |
| `expired` | `started.elapsed() > deadline` |
| `ctl` | the thread's call stack: a frame for `solve`, for each walk and for each `resolve_group` in progress |
| `prog` | the program; it never changes |

`ctl` is what makes the recursion explicit. A frame holds the local variables
of the Rust function and where it is: a walk's call sites answered so far; a
fixpoint's round, member, operation, and the fixpoint it will put back
(`outer`). A walk or a `resolve_group` that returns does it in one step: the code
from its last call to its own return, and what the caller then does with the answer, is
sequential and touches nothing else, so the step ends where the next call of `get` begins.

### Actions of the solver

| action | code |
|---|---|
| `GetReady`, `GetRunning`, `GetGroupMember`, `GetCut`, `GetWalk` | the paths of `get` up to `walk_context` |
| `DeferCall`, `StartCall`, `FinishCall` | `eval_call`, `call_values` |
| `ParkInCycle`, `ParkInGroup`, `FinishAlone`, `ResolveGroup` | the paths of `get` after `walk_context` |
| `ReplayCall`, `ReplayDone` | one deferred operation in `replay` |
| `NextMember`, `Merged`, `Joined`, `NextRound`, `Settle` | `resolve_group`, `settle`, `park_all`, and the return to the caller |
| `DeadlinePasses` | the clock |
| `Finished` | `solve` has its answer: the system stops |

A definition named `Mutant_X` is `X` with a plausible slip in it. No other
definition uses it. Put in the place of `X`, it shows that a property notices.

### State and actions of `RelevantParams` and `RelevantWalk`

`holds`, `relevant`, `escapes` and `changed` are the fields of `Taint`; `at` is the
statement the visitor is at, `done` says that `relevant_params` has returned. `Visit` is
`visit_stmt` with `visit_expr` on the statement's expressions, `EndPass` the end of the
`loop`. In the walk, `env` is `Env`, seen as the parameters whose value a
name has; `free` are the names that closures made so far read; `seen` are the parameters
whose value was called, looked into, returned, stored or captured. `WalkStmt` is
`walk_stmt` on any statement of the function.

### State and actions of `IdEdits` and `Inject`

A text is a sequence of tokens (a newline of one of three kinds, four spaces, a tab, a quote, a
header up to its colon, a statement, a word), and an offset the index of one. `Read` is a
text as the database has it: whether it parses, its statements with their levels, its defs. `Defs`
gives what `DefScanner` and `doc_slot` read of each def: where it starts, where its body
starts, the closing quotes of its docstring's literals, and its key. `IdEdit`,
`PlanIds` and `Apply` are the functions of `edit.rs`.

`run[r]` is a process: `revision` is what its database knows of the file, `source` what `source_text` has cached
(while `cached`), `edits` is the plan, `out` the new text, `report` the keys in `InjectReport::defs`. `Open` is
`db.rs`'s `open`; `Refuse` and `Plan` are `inject_ids` up to the write, which looks at the file once; `Truncate` and `Write` are the two
halves of `fs::write`. What follows the write is three steps, with the other processes and the editor between any two: `Sync` is `File::sync_path`, which drops the cached
text if the disk has another revision; `Reread` is the `source_text` that `definitions` asks for, which reads the disk only if no text is cached; `Report` makes the outline of the text
that was read. `Fail` is a write that returns an error,
or a process killed. `Save` is the world's. `disk` is the file and `revision` its revision. `held[r]` is nobody's: a history, for `ReportIsCurrent`, of the texts on disk since `r`'s write.

### State and actions of the tree modules

`CallTrees` takes a program through `call_tree` twice: `WalkInline` is `inline_tree`;
`SolveEntry` is `solve`, which leaves the graph of contexts; `RenderGraph` is `render`;
`RunPython` is the world's answer. Each of the first three is one call of the code that runs to its end
on one thread and shares nothing, so each is one step; what happens inside is in `BodyWalk`'s operators, which
carry the record `w`:

| field of `w` | code |
|---|---|
| `func`, `act`, `rets`, `exits`, `kids`, `calls` | the fields of `Frame` |
| `acts`, `defs`, `origins`, `recvs` | `activations`, `defaults`, `origins`, `values` of `Walk` |
| `env`, `live` | the `Option<Env>` that statements hand on; `None` is `~live` |
| `v`, `vs` | what `eval` returns |
| `path` | `Solver::path` |
| `graph`, `ctxs` | the summaries in `Solver::slots`, the interned contexts |
| `open` | nobody's: it records the sites at which an unknown value was called, for the properties |

`PyRuns` runs the same program by Python's rules: frames with cells that closures share, default
values made by the `def` statement, argument errors, exceptions before any statement of a `try` body, objects
with identity. It shares with the walker the syntax of `PyText` and no more: it has
configurations, one for each way the tests may go, where the walker has sets of values.

### Abstractions

* **Programs of `CallSolver`.** A body is its call sites in order and what it returns; an
  expression is the constants, parameter and earlier calls it may come from,
  which is what the walker's environments reduce to after joins. Every
  function has one parameter, and reads no variable after a deferred call, so the
  environment kept with an operation is not modelled.
* **Values of `CallSolver`** are project functions and `Unknown`. Classes, modules and ty's answers
  are `Unknown`. `WalkEnvs` tells closures, objects and lifted types apart.
* **Programs of `BodyWalk`** are syntax trees whose function and class names are unique and bound by
  their `def` alone, so that ty's answer for a name is that `def`. ty knows literals, functions and
  classes, and nothing of what is not annotated; unions and aliases among its types do not occur.
  Numbers, strings and tests are one expression, `data`. The elements of a starred or `**` argument are data or a function of the module;
  a target of an unpacking is a name, a subscript or another unpacking, and ty knows nothing of the names among them.
* **Keys of `BodyWalk`** take for relevant the parameters read in the body or in a function nested in it. That is
  coarser than `relevant_params`, whose own passes are `RelevantParams`; a finer set gives fewer contexts.
* **Recursion in summary mode** is left to `CallSolver`: `Solve` walks a context that is not in the graph. A program in which
  a context is called again while it is walked would not end there, and the families have none.
* **What the documents give up** is left out of the families, but for the run `breaks`, and is not checked: a loop's second time round
  (`experience/12-call-tree/01-functions/09-branches-and-loops.md`, decision 3), the middle of a `try` body (decision 4: a handler starts before the body or
  after it), `nonlocal`, and variables that change after a closure was handed over in summary mode (`02-function-summaries/07-closures-across-a-summary.md`).
* **Heads.** The union-find is kept fully compressed. `reset` on a context that was
  walked before may in the code carry along stale children; in the model they keep their old
  head. Both are contexts already settled, whose head nobody reads until they
  are reset themselves, so no reader can tell.
* **Equality of summaries** is equality of sets (`same_svals`).
* **Bodies of `RelevantParams`** are sequences of simple statements and headers, in
  source order, those of nested functions included: the visitor goes into every
  block. An expression is its kind and the names in it; the visitor
  reads all the names below a node, so deeper nesting adds no case. The
  targets of a statement have kinds as `flow` tells them apart.
* **The walk** takes the statements in any order, any number of times, and may stop
  anywhere. This covers every branch, loop, handler and early exit, and all
  their joins, since a join holds what one of its arms holds. A closure
  reads the environment when it is called and when its free names are
  written into a key, so its names count as read at every later moment. Statements of
  nested functions are visited by the passes and not walked: they are another context's.
* **Python's grammar** in `IdEdits` is its lines: indentation, string literals over
  several lines, backslashes, decorators, blocks and their inline bodies. A
  class is a def; every other block is `if`. Whether an expression is well formed does not
  depend on where an id goes.
* **The file of `Inject`** gets a new revision with every change, the two halves of `fs::write` included, and can always be read. In the code the revision is the
  file's modification time (`File::sync_path`), so this is that two changes never have the same time; `ReportIsCurrent` rests on it.
* **Ids** are model values, minted in order: `Uuid::new_v4` never gives one twice.
* **A notebook** is its code cells, as `source_text` joins them; its JSON is not modelled, because no action writes it.
* `stats` other than `walks`, the path kept for messages and the render order are left out.

## 4. Runs

| run | states | question |
|---|---|---|
| `values` | 132 153 | programs of three functions, of direct calls in every shape of cycle, and of cycles that call, pass on and return the results of calls: contexts first met in a round, fixpoints that nest, merge and join. The inductive invariant; everybody who waits is held in one place, under a head that is alive; a walk that finishes alone waits for nothing; the rounds suffice; approximations never above the solution, edges and summaries exact at the end |
| `groups` | 5 250 | the six recursion groups of the repository's own fixture (`experience/12-call-tree/02-function-summaries`), from each function, with a deadline that passes at any step or never: types, stack and readers fit; nothing is walked twice; what the deadline spoiled is marked, a marked summary says `Unknown` when it misses a value, nothing stays parked; what is reusable never changes, and the solver implements `SummaryStore`; the request ends |
| `noreuse` | 1 621 | the same without a deadline and with reuse off: ready contexts walked again in the middle of fixpoints give the same summaries |
| `limits` | 60 172 | `values` with a stack of two walks and two walks per function: limits that fire at one place and not another, cut contexts walked again; the stack and the contexts stay within the limits; who read a cut is marked cut, and so is the entry; a marked summary says `Unknown`; what is not cut is the least solution |
| `relevant` | 157 356 | every body of up to three statements out of 25: the passes end, flag exactly the parameters that flow to a sink, and the walk uses no other by any path |
| `bodies` | 29 035 | 5 807 programs in both modes, beside every run Python may make of them: no call is missed by either tree, no call is made up, the two trees agree, a key comes back from the walk it starts, keys are finitely many |
| `keys` | 45 621 | files of one or two items of 19 kinds and of three out of seven, at every nesting: one-liners, decorators, docstrings in one or two literals whose closing quotes stand alone or not, docstrings that end in a colon, in `ID:`, or have an id. What is written parses, keeps every statement at its level, has a key for every def and the file's own line endings. The offsets and the keys reported have their types |
| `race` | 240 038 | two processes inject into one file while writes fail and an editor saves twice, once perhaps in the middle of a block: no edit lands in a text it was not planned for; what a run that wrote reports is the outline of a text the disk held after its write, and not of the one the database had cached |
| `breaks`, `capped`, `oldmac`, `outside` | to the counterexample | the four findings below |

**Bounds.** `MaxRounds` (32), `MaxStack` (256), `MaxContexts` (50 000) and
`ContextsPerFunc` (64) have the code's defaults except where a run is about the limit itself:
`limits` sets `MaxStack = 2, ContextsPerFunc = 2`,
`capped` sets `MaxRounds = 1`. With the defaults no run meets one, and
`RoundsSuffice` says so of the rounds. The model has no other bound: it ends by
itself. The programs are the bound that matters. Three functions are enough for a
cycle within a cycle, for a cycle entered in the middle, for a group met from a
fixpoint's replay, and for a chain into a finished group; function 3 has a relevant
parameter, so that there are up to 15 contexts of it, found during rounds. A
group's `Joined` and `Merged` endings, late joiners, and restarts all happen (each
is an action, and each fires). `groups` adds the larger shapes that the authors
thought of, with seven functions.

`relevant` has two parameters and two locals. Its 25 statements have each kind of statement, target and
expression, `:=`, names declared global (by the function and by a nested one), parameters
assigned to, and flows in both directions between the locals. Three statements
are enough for a chain in the worst order, which needs a pass per link, and for
a name to be declared global before, between or after what flows into it.

`bodies` has the programs of five families. *Control*: `f = a`, a statement of every kind with up to two blocks
that assign `f`, call it, return or raise, then `f()`; `f` is also a target, alone or unpacked beside a subscript that calls it, of an assignment, a `for` and a `with`. *Captures*: a nested function that reads, returns or defaults to
a variable of the run around it, which assigns it before, between and after calls, by name and through a function it is passed to. *Makers*: functions that return closures over
their argument, nested up to four deep with `FpDepth = 2` (the code's default), so that closures are kept, cut and nested in keys, in
parameters, captured values and defaults, and closures that hold themselves and each other. *Binding*: five parameter
lists by all arguments that fit, positional, keyword, default, starred, `**` and empty; a `**` argument only where it finds no default to replace (see below). *Objects*: two objects of a class with an initialiser, methods, a class method and a property, built by a call or by a function,
written through one name or one of two. `Deep = 8` is the height at which Python's run raises `RecursionError`, above any path
the walker's guard lets through; in `PyRuns` a loop's body runs at most once, which is the documents' own limit, above.

`keys` has all pairs of items because a slot depends on the def, on what it is nested in and on
what follows; three items give two siblings in a class, and three levels. `race` needs two
processes and one save for every order of two reads and two writes; `MaxSaves` is 2 so that a save can fall on each
side of a write. Six ids are more than any run mints. `MaxSaves` and `Uuids` are the only bounds; revisions are as many as writes and saves.

**Fairness.** `groups` assumes weak fairness of `Thread`, the disjunction of all the
solver's actions, and nothing of the clock. The code is one thread that never blocks:
as long as a call is in progress its next step is taken. `relevant` assumes it of the
passes, which are an ordinary loop, and not of the walk. Nothing in the
code makes the deadline pass, so it may or may not.

**Deadlock** is checked in every run. The only ways to stop are `Finished` in `CallSolver` and in `CallTrees` (the request has been answered), `Walked` in
`RelevantWalk` and `Ended` in `Inject`.

### Findings

* `breaks`. `break` and `continue` are passed over and the rest of the block is walked. The documents say that this "can only add
  calls" (`experience/12-call-tree/01-functions/09-branches-and-loops.md:190`), but what the rest of the block assigns
  replaces what held at the `break`: `f = b; break` before `f = c` loses `b`.
* `capped`. When `max_rounds` stops a group, contexts that joined during that very
  round are taken into it after the replays and settled at once, with the values
  they had at round 0 and no `Unknown`. The documents say the last round
  adds `Unknown` to every deferred operation, and that this keeps the result sound
  (`plan/03-call-tree/12-recursion.md:188`).
* `oldmac`. `line_prefix` looks for `\n` alone. With bare CR line endings a nested def is taken for
  a one-liner at top level, and its body is indented by four spaces
  (`experience/10-lossless-edits/03-object-edit.md:185`, `:347`).
* `outside`. `settle` asserts that no member waited on a context outside its group (`solver.rs:423-435`), because
  "Every `Pending` answer puts the reader into the target's group" (`plan/03-call-tree/13-solver-and-limits.md:178`).
  A call with an argument that holds no value still asks `get` (`call.rs:340-343`), its caller is told, and defers nothing;
  and a walk keeps the first group it joins (`solver.rs:461-468`). Together they let a caller settle with a group nested in
  another while the context it called waits for both: 5 calls 4, the head of its group, and then 7 with what a function that
  only raises returns; 7 calls 3, the head of the outer group, and 4, and is parked under 3. 5 has no operation that would
  lead its group to 3, so group 4 settles, and when 3 settles its member 7 has waited on 4. A debug build panics there. In a
  release build the summary of 5 is final before that of 7, to which it has an edge. For this program `CutsAreMarked`
  fails too: 5 is `Ready` while 7 is parked, and if 3 makes one call more, a deadline can cut 7 later. No more than that goes wrong, for any program: the call
  to 7 is never made, so 5 takes nothing of it. The
  entry is marked even then (`EntryIsMarkedCut`), the summaries' values and edges are right (`SummariesAreLeast`), and the store, which waits for the calls that
  are made, is implemented (`SolverIsStore`). With `max_rounds` below what a group needs the assertion
  fails more simply, as in `capped`: late joiners are settled without a replay, whatever they wait for.

Met while modelling too, with no run about it; the families of `bodies` leave out what would show the first five, that of `keys` the sixth:

* A `**` argument at a call is evaluated and dropped (`bind.rs:74-79`): `has_splat` is not set, so a parameter that no other argument fills
  keeps its default. `plan/03-call-tree/06-binding-arguments.md:41` and `experience/12-call-tree/01-functions/08-star-args-and-splats.md:102` say that `**x` sets it, which
  makes every parameter `Unknown`. With `def callee(p=a): p()`, Python may call something else in `callee(**d)`; the tree shows `a` and no `Unknown`, so `CallsShown` fails. Without a default the parameter is
  `Unknown`, as `bodies` has it.
* An attribute among the targets of an unpacking (`x.a, y = ...`) is read and not set (`walk.rs:373`): a property's getter is shown for its setter.
* A returned closure is read when its function's walk ends (`summary.rs:122`), with what the walk assigned last. After
  `if c: return g`, `f = b`, a `g` returned early has `b` for `f`, and not what `f` was at its `return`;
  `02-function-summaries/07-closures-across-a-summary.md:249` says the variables "never change again" by then, which
  holds of the last path only.
* `finally` is not walked when the body and every handler end early (`walk.rs:188`: `Env::join(arms)?`), nor for an
  exception that nothing catches.
* A name bound by `:=` is seen by closures from the next statement on, not from the next expression (`walk.rs:96`).
* A one-liner continued after a backslash, without a docstring, has a body that starts its line: `id_edit` takes it for a
  block (`edit.rs:104`), and the file no longer parses, against `03-object-edit.md:347`.
* Two callees of one function at a site, closures of two runs, give two nodes in inline mode and one in summary mode
  (`call.rs:103` says one per function). `ModesAgree` compares paths, which are the same.
* `needs_defer` defers a call when any argument is pending; `plan/03-call-tree/12-recursion.md:182` says only when its
  key would read it. Costs rounds, not correctness.
* What `inject` writes is the text it read, with its ids: a save that falls between the read and the write is lost
  (`inject.rs:129`; `Write` in `Inject` does the same).
* `per_func` counts walks, so a cut context that is reached again is counted again, where
  `plan/03-call-tree/13-solver-and-limits.md:22` speaks of "contexts created this request". `WithinLimits` says what does hold.

## 5. Proofs

TLAPS checks, for every program, entry and value of the limits, with and without reuse and a deadline:

| theorem | says |
|---|---|
| `Invariance` | `Spec => []Inv` |
| `TypeCorrect` | `Spec => []TypeOK` |
| `RunningIsOnStack` | `Spec => []StackMatches`: a slot is `Running(d)` exactly while its context is at place `d` of the stack |
| `ReaderIsRight` | `Spec => []ReaderIsTheAsker`: `reader_depends_on`, `reader_joins` and `reader_is_cut` tell the frame that asked |
| `LimitsHold` | `Spec => []WithinLimits`: the stack, the contexts and the contexts of each function stay within the limits |
| `WaitersHeld` | `Spec => []WaitersAreHeld`: what waits has a walk and a summary, is in one list once, and its head is in progress |
| `NothingWaitsAtTheEnd` | `Spec => []NothingLeftWaiting`: when `solve` returns every context that was walked has its summary |
| `WaitersInvariance` | `Spec => [](Inv /\ WaitersInv)` |
| `NothingDeferredAlone` | `Spec => []AloneDefersNothing`, the assertion of `finish_alone`: a walk that read nothing unfinished deferred nothing |
| `EntryIsMarkedCut` | `Spec => []EntryIsMarked`: the entry's summary is marked cut if any context was cut and stayed so |
| `ReadersInvariance` | `Spec => [](Inv /\ ReadersInv)` |
| `WalkedOnceIfSpared` | with reuse, `Spec /\ []LimitsSpare => []WalkedOnce`: as long as no limit but the deadline stops a call, every context is walked once |
| `WalkedOnceUnderLargeLimits` | with reuse and limits no smaller than the number of contexts, `Spec => []WalkedOnce` |
| `NothingMadeUp` | `Spec /\ []RoundsSuffice => []ReadyBelowBounds`: a finished summary that is not marked cut holds no value above any bound of the program's equations, so none above their least solution |
| `BoundsInvariance` | `Spec /\ []RoundsSuffice => [](LinksInv /\ BoundsInv)` |
| `SummariesAreLeast` | with reuse, `Spec /\ []RoundsSuffice => []ReadyIsLeast`: a finished summary that is not marked cut *is* the least solution of the program's equations, and its edges are the calls its body makes there |
| `LeastSolutionExists` | the equations of every program have a least solution |
| `NothingLeftOut` | with reuse, `Spec /\ []RoundsSuffice => []ReadyIsClosed`: there are values for the call sites of a finished summary, below every bound, by which every callee is accounted for by a finished summary and has an edge |
| `CallsFinal` | with reuse, `Spec /\ []RoundsSuffice => []CallsAreFinal`: the calls a finished summary makes lead to finished summaries |
| `CutsMarked` | with reuse, and if every call of the programs has an argument with a value, `Spec /\ []RoundsSuffice => []CutsAreMarked`: who read a cut is marked cut |
| `SolverIsStore` | with reuse, `Spec /\ []RoundsSuffice => Store!StoreSpec`: the solver implements `SummaryStore` |
| `ClosedInvariance` | with reuse, `Spec /\ []RoundsSuffice => []ClosedInv` |
| `ReadySummariesStay` | with reuse, `Spec => ReadyIsFinal`: no step changes or withdraws a finished summary |
| `RelevantInvariance` | `WalkSpec => []RelevantInv`, for every body, any names and any parameters |
| `NoParameterMissed` | `WalkSpec => []NothingMissed`: a parameter that is not flagged is one whose value no path of the walk uses |
| `FlagsAreExact` | `WalkSpec => []ExactlyWhatFlows`: the flags are those of the parameters that flow to a sink, for every body, any names and any parameters |
| `TextsNeverMix` | `Spec /\ []StillParses => []NeverMixed`, for any processes, texts, saves and failures: the file is empty or a text somebody saved, with keys |
| `ReportsAreCurrent` | `Spec => []ReportIsCurrent`, for any processes, texts, saves and failures: a run that wrote reports the outline of a text that was on disk after its write, never of the one it planned on |

**Assumptions.** `FuncAssumption` (functions are numbered by definition order,
`Unknown` is none of them), `ProgramAssumption`, `LimitAssumption` (the limits are
natural numbers), `NoneAssumption` (`None` is not a fixpoint, a site, a walk, a summary, a context or a set of values: an `Option`'s `None` is no `Some`) and `CutAssumption` (nor a kind of cut); for `RelevantWalk`, `BodyAssumption` (parameters are names, bodies are sequences of statements). Sets of functions and
programs may be infinite.

**The solver's invariant.** None of these properties is inductive. A step that pops a
frame uses what was true when it was pushed, so `Inv` describes the whole call stack:

* `FramesFit`: each frame stands at the height its caller left (`base`), each
  walk's context is at its own place in `solver.stack`, and `fixpoint`, like each
  `outer` kept in a frame, describes the innermost `resolve_group` below. This is why a
  fixpoint that ends puts the right one back, and why `base = Len(stack)` holds only
  in its own replays. It also bounds the depths a fixpoint was told of by its `base`,
  so that `stack[lowest]` is there when it merges.
* `CallersWait`: a frame that is not on top waits for an answer, so the answer has a place to go.
* `GroupsFit`: the parked list holds only parked contexts; the members of a fixpoint
  in progress are resolving, under its head; no two fixpoints share a head. The last
  is why a `Settle`, `Merged` or `Joined` that takes one group's members away
  leaves every other fixpoint's members alone.
* `SlotsFit`: a running walk is the head of its own group (`reset`), which is why the
  group `ResolveGroup` takes is no other fixpoint's; what waits has a walk and a
  summary; what is done has a result: the `unwrap`s of `solver.rs`.
* `StackMatches` and `TypeOK`, which the others need: a running context has a
  depth below the reader's height.

`CallSolver_proofs` begins with what the operators return and how the call stack keeps its
shape when a frame is answered, pushed or popped; `take_parked`'s filter is shown to keep
exactly the group by induction on the parked list, with a well-founded minimum.
Then it has one lemma per action, and combines them.

**The limits.** `cost_limit` compares counters, and `WithinLimits` speaks of contexts. What joins the two is `Counted`, an
invariant on top of `Inv`: the contexts that have a slot are finitely many, no more than `walks`, and those of a function no more
than its count in `perFunc`. Only the start of a walk gives a context its slot, and it raises both counters, after `cost_limit` has looked at
them; every other step gives none (`StaysKnown`), since fixpoints settle and park only contexts that are known.

**Who waits.** `WaitersAreHeld` says that a waiting context's head is in progress, and looks no further than the state it is in. A head
that is a *walk* in progress must not end alone: its waiters would stay in the parked list for good. `finish_alone` is chosen by what the walk's own slot
was told, and what makes that right is spread over the whole call stack. `WaitersInv` says how:

* `ListsFit`: the parked list and each fixpoint's members are without repetition, and every waiting context is in one of them.
* `HeadsFit`: a waiting context's head is the head of a fixpoint in progress, or a walk at some depth `k` of the stack, and then somebody
  was *told* (`Told`): a walk above `k`, or a fixpoint that runs above `k`, current or put aside as an `outer`, has noted a depth of at most `k`. Whoever was told parks instead of finishing,
  or merges instead of settling, and hands the note down, until the walk at `k` itself is reached: it then has the note in its own slot and starts the fixpoint.
* `JoinsFit`: a group a reader was told to join is that of a fixpoint in progress below the reader, so that `ParkInGroup` and `Joined` park under a head that is
  still to be resolved, and a fixpoint joins another one than itself.
* `ReplaysFit`: a fixpoint starts each member having read nothing outside its group, and a round that is over is on top.

It is inductive together with `Inv`, and with `Counted` (a walk is at a depth below `NoDepth`, which is what a slot has that read no running walk). The hard
steps are those that pop a frame: the note of the frame that goes away is the reason why some waiters are safe, and the proof follows it into the frame below, through `ReadsTold` when a
walk is the reader and through `FixpointTold` when a fixpoint is.

**What readers were told.** An answer that is not final, and a cut, must reach the walk that will publish what was made of it. `ReadersInv` follows them:

* `WalksTold`: a walk that deferred an operation has in its own slot a note of what it reads, a walk at its own depth or below or a group; and a value is pending
  only if the walk deferred something. The note and the pending value reach the walk in one step, but by two ways: the value is the answer, the note is put by
  `reader_depends_on` or `reader_joins` in whatever slot or fixpoint is the reader then. That this is the walk that asked is `ReaderIsTheAsker`, and what makes it so after
  fixpoints have come and gone is `Inv`. So a walk whose slot has no note is in nobody's cycle and deferred nothing: `NothingDeferredAlone`.
* `CutsTold`: for each cut context somebody between it and the entry knows of a cut: a walk in progress, a fixpoint in progress, current or put aside as
  an `outer`, or a context that waits; or the entry itself has been answered and is cut. It is not always who first asked: each frame that ends hands its note to the frame
  below, a group that merges or joins leaves it with its members, and a context that waits gives it up only when its group settles, to the reader below.
* `EntryFits`: the second frame is the walk of the entry or its group's fixpoint, and when the entry is answered no other frame is left. That is where the notes end up.

The hard steps are again those that pop a frame, since the only note of a cut may be the one that goes. When `solve` has returned nothing waits and
nothing is in progress (`NothingWaitsAtTheEnd`), so the note can only be the entry's own: `EntryIsMarkedCut`.

**Nothing is made up.** The least solution is a recursive definition, which the prover cannot open. What makes it least, that it is below every other
solution, needs no recursion: `Bounds(p, S, W)` says that `S` holds for each context at least what its equation gives when calls answer `S`, with call sites worth `W`, and
that it grows with the argument. `BoundsInv` says, for *every* such `S` and `W`, that all the solver has found so far is below: finished
summaries; the approximations, walks and replayed values of what waits; the walks and replays in progress. The least solution is one of
these bounds, because equations only add values (TLC evaluates it in `MCCallSolverBounds`, for each program of `groups`): no finished summary is above it. What makes the invariant inductive:

* `Fits`: a value with pending operations is below `T` when what is known is, and when the `Ceiling` of each operation is: for a read of a context's summary the bound of that context, for a deferred
  call the bound of its call site. A replay that puts found values in for pending ones (`Substitute`) then stays below, in whatever order the rounds take them.
* `Spoiled`: a group in which somebody read a cut may hold `Unknown` that no call gives, and so may a walk that read one. They are left out, because `settle` marks the whole group
  cut: `CutsTold`'s notes, which park, merge and join hand on, are what says that a group that settles as `Ready` was never spoiled.
* `LinksInv`: a frame that is not on top asked for exactly the context that the frame above works on. The answer it gets is then the answer to its own question, below the bound at that
  call site, although any number of fixpoints may have come and gone between the question and the answer.
* `RoundsSuffice`: in its last round allowed, a fixpoint adds `Unknown` to everything; the theorem leaves these out (the run `capped` is about them).

**Nothing is left out.** The other half: a finished summary holds no *less* than the least solution. `ReadyIsClosed` says it without the solution: there are values for the context's call
sites such that every callee at a site is accounted for (`Accounted`) by a context that is finished and whose summary is within the site's value, there is an edge for each,
and the summary has what the body returns of them. `ClosedInv` says what of this holds of a context at each stage of its life:

* `WaiterClosed`: a walk that waits has values, some of them pending, for its sites, each either a deferred call of exactly that callee and argument (`Deferred`), or called, every callee
  accounted for by a finished summary or by an `Apply` the value is pending on (`Called`). A walk in progress (`WalkClosed`) has this of the sites it has passed, and of the callees it has taken at the site it is at (`SiteOpen`).
* `RoundClosed`: in a round that has changed nothing so far, each member already replayed is settled (`OpSettled`): its operations' values account for every callee, by finished summaries and by
  the approximations of its own group. That is what a last round leaves behind: each approximation was read after the member had its turn in the last round or before it in this one, and is the same in both.
* `Disturbed`: unless somebody outside the group was read, a running walk, another group or a cut, the fixpoint ends `Done`, and the answers a replay did not get were such reads. A round of a fixpoint that was told of any is
  not its last, or settles as cut, so nothing is said of it. That the note reaches the right fixpoint, current or put aside as an `outer`, is once more `ReadersInv`.
* Nothing is said of a context that has read a cut (`read[c].cut`): it settles with its group as cut.

When a fixpoint settles, the members' own approximations are the finished summaries, all at once, and putting the values found in for the pending ones
(`Substitute`) makes `WaiterClosed` into `Closed`. What was accounted for by a finished summary stays so, because that summary does (`ReadySummariesStay`): hence the hypothesis `Reuse`.

**The least solution, without recursion.** `IsLeastSolution(p, S, W)` says that summaries `S` and site values `W` solve the equations and are below all that do. It exists: the meet of everything that bounds
the equations (`Bounds`) is a bound, and the values its equations give are a bound again and so no less (`LeastSolutionExists`). An argument's values are part of a context's name, and a bigger argument names *another* context: what makes the equations
monotone is that a bound's summary grows with the argument, which `Bounds` asks for and which narrowing a bound keeps.
Now let `S` be least. `NothingMadeUp` puts a finished summary below `S`. For the other direction lower `S`, at each context of a function, to what finished contexts of that function with the same or a bigger argument have: by `ReadyIsClosed` that
is still a bound (`LessIsBound`), so nothing was lowered (`SummariesAreLeast`). The same lemma, with any solution for the finished contexts, shows that the least bound is below every solution. The induction over calls, which this prover cannot make, is in the word *least*.

Equality gives the rest. The site values of a finished summary are those of `S`, so a call it makes in the least solution is one that `ReadyIsClosed` accounts for, by a finished summary (`CallsFinal`). If all its calls have an argument with a value it has edges to
no other, and none of those is cut (`CutsMarked`); else `outside` is the counterexample. And when a step makes contexts finished, they are a set that needs nothing but itself and what was stored, each with the right summary, and `ReadySummariesStay` says that
the rest stays: this is `Publish`, and every other step stutters (`SolverIsStore`).

**Walked once.** A walk that was cut is walked again when it is reached again, so `WalkedOnce` is true only while nothing is cut. `NoCut` says that no
slot, no walk and no fixpoint, current or `outer`, has noted a cut; it holds until the deadline passes, if no other limit fires, and once it has passed `cost_limit` starts
no walk. `WalkedNew` counts: `walks` and `perFunc` are the numbers of contexts that have a slot. Under `LargeLimits` the counts
themselves show that no limit fires before the deadline, since a new context is one that was not yet counted. `Reuse` is an assumption the code makes too: without reuse a context is walked at every call.

**Injection.** `NeverMixed` rests on what a process carries from its read to its write: `ReadKnown` says that what a run read, and is going to write over, parses and is a text
somebody saved, as far as its statements go. `Plan` reads it off the disk, where `NeverMixed` says so; `Truncate` and `Write` use that text as the base of the edits,
and not what the disk holds by then. That a text with its own edits still parses with the same statements is `StillParses`, an assumption of the theorem, state by state, which
TLC checks in `keys` over all the files of `MCInject`: it is a fact about folds over tokens, which the prover cannot do by induction.

`ReportIsCurrent` speaks of a run that has returned, and what makes it true happened three steps earlier, with any number of writes and saves between. `CurrentRun` follows one run through them: from
`Truncate` to `Sync` the revision it knows is behind the disk's, so `Sync` drops the cached text, whoever else wrote meanwhile; what `Reread` then finds on disk is in the history, as the last
of the texts put there since the run's own (`text \in h`); and a text put there by somebody else adds to the history and takes nothing out, so what was read stays in it until the report is made.
Nothing is assumed of `apply`: the theorem holds of whatever a run writes.

**The invariant of `RelevantWalk`.** That no flag is missing when the passes return says
nothing of a walk in another order. What does is that each statement is then
`Quiet`: a visit of it, with the names that were declared global by then, would change
nothing. A pass whose `changed` is still false has left only quiet statements behind
(`holds` and `relevant` have not changed since it visited them, and `escapes` is rebuilt by each pass in
the same order), so the pass that ends the loop leaves all of them quiet, or every
parameter is flagged. In the walk it follows, a statement at a time, that a name's
value is covered by its `holds` or by the flags, and that the names closures read hold only flagged
parameters.

`FlagsAreExact` compares the passes with `Reached`, which follows flows for as many steps as the body has statements. That this is enough is a counting argument: as long as
a step adds a name, another statement reads one (`ReadersGrow`), and there are no more than that. So what is reached is closed under flows: what a name
holds has reached it (`Sound`, an invariant of its own); and when all statements are quiet the names that hold `p` are closed too, and so have all that `p` reaches. `Reached` is a recursive function over
numbers: that it exists, and what holds of all its values, is proved with smallest counterexamples.

**Only model-checked.** `RoundsSuffice`, the hypothesis of the theorems on values, is about the default limit and the programs of the runs. It is false of `capped`. No proof by counting is
in sight: a round may shrink what the one before it found, when a bigger argument names another context, which starts from nothing. `ReadyIsLeastSolution`, `EdgesAreExact`, `NeverAbove` and `ImplementsStore` compute the least
solution by recursion, which is out of the prover's reach: `SummariesAreLeast`, `NothingMadeUp` and `SolverIsStore` are their counterparts with `IsLeastSolution` for it. That the two are the same is not proved; TLC
evaluates, for the programs of `groups`, that the computed one is a solution and a bound, and it is below every bound because its iterates, which start from nothing, are. The theorems about what is left out assume reuse; without it (`noreuse`) `NothingMadeUp` is what is proved of the values.
Only checked, too, are what cut summaries say (`CutsSayUnknown`), and liveness under fairness
(`Terminates`, `Finishes`).
`IdEdits` reads texts with folds over their tokens, so what holds of its results is checked and not proved. The walker
is recursive over syntax trees and over nested values, in `BodyWalk` as in the code, so everything `bodies` checks is checked and not
proved.

## 6. Not modelled, and the plan

In this order:

1. `NobodyWaitsOutside` is false in general (`outside`); what may hold of every program is that it is true as long as `RoundsSuffice` holds
   and every call that is made has an argument with a value. The proof would need, on top of `WaitersInv` and `ClosedInv`, that the group of what a waiting
   context leads to is its own or below it, or else leads out of itself in every round to come; whether rounds that call other contexts than the one before keep to that is open. `NothingLeftOut` without reuse:
   what a walk read may then be walked again before the walk is over, with the same summary. And `CutsSayUnknown` for every program, which needs `ClosedInv` of the groups it now leaves alone, those that read a cut.
2. `Heads`: the union-find as an array of parents with path compression, resets and stale
   children, implementing the fully compressed heads of `CallSolver` on every
   context that waits; proofs that unions never make a cycle and that `find` ends at a root.
3. `BodyWalk` on top of `CallSolver`'s deferred values, so that one program has both recursion and closures.

Left out for good: positions and display (pure conversions with no state), what else `sem.rs`, `db.rs`, `mro.rs`, `attrs.rs` and `qname.rs` ask (thin
wrappers around ty), the marks of cut contexts in a rendered tree (which contexts are cut is checked in `CallSolver`), modules as receivers, the command line, fixtures, and the vendored code.
