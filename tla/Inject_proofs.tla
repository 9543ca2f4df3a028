--------------------------- MODULE Inject_proofs ----------------------------
(***************************************************************************)
(* Proofs about the runs of inject_ids: whatever runs there are, whatever  *)
(* they read and whoever saves meanwhile, a write never mixes two texts,   *)
(* and what a run that wrote returns is the outline of a text the disk     *)
(* held after its write.  What Python makes of a text stays closed here:   *)
(* only that Read keeps the text it was given is used, and, for            *)
(* NeverMixed, that what a run writes parses (StillParses, which TLC       *)
(* checks over the texts of MCInject).                                     *)
(***************************************************************************)
EXTENDS Inject, TLAPS

(* A process has the fields that its start gives it.                       *)
IsRun(x) == x = [pc |-> x.pc, write |-> x.write, revision |-> x.revision,
                 cached |-> x.cached, source |-> x.source, edits |-> x.edits,
                 out |-> x.out, report |-> x.report]
RunsFit == DOMAIN run = Runs /\ \A r \in Runs : IsRun(run[r])

(* A run that is to write, or is writing, read a text that parses and that *)
(* somebody saved, with keys or without.                                   *)
ReadKnown ==
    \A r \in Runs : run[r].pc \in {"planned", "truncated"} =>
        /\ Read(run[r].source).parses
        /\ Outline(Read(run[r].source)) \in KnownOutlines

InjectInv == RunsFit /\ ReadKnown /\ NeverMixed

-----------------------------------------------------------------------------
(* The database hands out the text it read.                                *)
LEMMA ReadText == ASSUME NEW t PROVE Read(t).text = t
BY DEF Read, ParsedText, ParsedTokens, ParsedHeads, ParsedLines, Parsed

(* Whether a text parses is yes or no.                                     *)
LEMMA ParsesYesOrNo == ASSUME NEW t PROVE Read(t).parses \in BOOLEAN
<1>1. ASSUME NEW os, NEW layout PROVE Parses(os, layout) \in BOOLEAN
  BY DEF Parses
<1> QED BY <1>1 DEF Read, ParsedText, ParsedTokens, ParsedHeads, ParsedLines, Parsed

(* Two texts of one shape that both parse have one outline.                *)
LEMMA SameOutline ==
  ASSUME NEW t, NEW u, SameShape(Read(t), Read(u)), Read(u).parses
  PROVE  Outline(Read(t)) = Outline(Read(u))
<1>1. Read(t).parses = TRUE /\ Read(u).parses = TRUE
  BY ParsesYesOrNo DEF SameShape
<1>2. Read(t).shape = Read(u).shape
  BY DEF SameShape
<1> QED BY <1>1, <1>2 DEF Outline

(* The texts somebody may save, and the empty one, are known.              *)
LEMMA SavedIsKnown ==
  ASSUME NEW t \in {<<>>} \cup Texts \cup Saved
  PROVE  Outline(Read(t)) \in KnownOutlines
BY DEF KnownOutlines

-----------------------------------------------------------------------------
(* What one process does leaves the others, and its own fields, in place.  *)
LEMMA StepKeepsRuns ==
  ASSUME RunsFit, NEW r \in Runs, Step(r)
  PROVE  /\ RunsFit'
         /\ \A q \in Runs \ {r} : run'[q] = run[q]
<1>1. DOMAIN run = Runs /\ IsRun(run[r])
  BY DEF RunsFit
<1>2. SUFFICES DOMAIN run' = Runs /\ IsRun(run'[r]) /\ \A q \in Runs \ {r} : run'[q] = run[q]
  BY DEF RunsFit
<1>3. CASE Refuse(r)
  BY <1>1, <1>3 DEF Refuse, IsRun
<1>4. CASE Plan(r)
  <2>1. PICK src \in {Read(disk)} :
          \E edits \in {IF file = "project" THEN PlanIds(src, minted) ELSE <<>>} :
             Planned(r, src, edits, edits # <<>> /\ run[r].write)
    BY <1>4 DEF Plan
  <2>2. PICK edits : Planned(r, src, edits, edits # <<>> /\ run[r].write)
    BY <2>1
  <2> QED BY <1>1, <2>2 DEF Planned, IsRun
<1>5. CASE Truncate(r)
  BY <1>1, <1>5 DEF Truncate, IsRun
<1>6. CASE Write(r)
  BY <1>1, <1>6 DEF Write, IsRun
<1>7. CASE Report(r)
  BY <1>1, <1>7 DEF Report, IsRun
<1>8. CASE Fail(r)
  BY <1>1, <1>8 DEF Fail, IsRun
<1>9. CASE Open(r)
  BY <1>1, <1>9 DEF Open, IsRun
<1>10. CASE Sync(r)
  BY <1>1, <1>10 DEF Sync, IsRun
<1>11. CASE Reread(r)
  BY <1>1, <1>11 DEF Reread, IsRun
<1> QED BY <1>3, <1>4, <1>5, <1>6, <1>7, <1>8, <1>9, <1>10, <1>11 DEF Step

(* A run plans only on a text that parses, and on what the disk holds.     *)
LEMMA PlanReadsDisk ==
  ASSUME RunsFit, NeverMixed, NEW r \in Runs, Plan(r), run'[r].pc = "planned"
  PROVE  Read(run'[r].source).parses /\ Outline(Read(run'[r].source)) \in KnownOutlines
<1>1. /\ DOMAIN run = Runs /\ IsRun(run[r]) /\ Read(disk).text = disk
  BY ReadText DEF RunsFit
<1>2. PICK edits \in {IF file = "project" THEN PlanIds(Read(disk), minted) ELSE <<>>} :
        Planned(r, Read(disk), edits, edits # <<>> /\ run[r].write)
  BY DEF Plan
<1>3. file = "project" => Read(disk).parses
  BY DEF Plan
<1>4. /\ run'[r].source = disk
      /\ run'[r].pc = IF edits # <<>> /\ run[r].write THEN "planned" ELSE "reported"
  BY <1>1, <1>2 DEF Planned, IsRun
<1>5. edits # <<>>
  BY <1>4
<1>6. file = "project"
  BY <1>2, <1>5
<1> QED BY <1>3, <1>4, <1>6 DEF NeverMixed

(* What a run writes over the empty file has the outline of what it read.  *)
LEMMA WriteIsKnown ==
  ASSUME RunsFit, ReadKnown, StillParses, NEW r \in Runs, Write(r)
  PROVE  Outline(Read(disk')) \in KnownOutlines
<1>1. run[r].pc = "truncated" /\ disk' = run[r].out
  BY DEF Write, Put
<1>2. Read(run[r].source).parses /\ Outline(Read(run[r].source)) \in KnownOutlines
  BY <1>1 DEF ReadKnown
<1>3. SameShape(Read(run[r].out), Read(run[r].source))
  BY <1>1 DEF StillParses, Writing
<1>4. Outline(Read(run[r].out)) = Outline(Read(run[r].source))
  BY <1>2, <1>3, SameOutline
<1> QED BY <1>1, <1>2, <1>4

(* One process: what it is to write stays what somebody saved.             *)
LEMMA StepKeepsKnown ==
  ASSUME InjectInv, StillParses, NEW r \in Runs, Step(r)
  PROVE  InjectInv'
<1>1. RunsFit /\ ReadKnown /\ NeverMixed
  BY DEF InjectInv
<1>2. RunsFit' /\ \A q \in Runs \ {r} : run'[q] = run[q]
  BY <1>1, StepKeepsRuns
<1>3. DOMAIN run = Runs /\ IsRun(run[r])
  BY <1>1 DEF RunsFit
<1>4. ASSUME run'[r].pc \in {"planned", "truncated"} =>
               /\ Read(run'[r].source).parses
               /\ Outline(Read(run'[r].source)) \in KnownOutlines
      PROVE  ReadKnown'
  BY <1>1, <1>2, <1>4 DEF ReadKnown, KnownOutlines
<1>5. CASE Refuse(r)
  <2>1. run'[r].pc = "refused" /\ disk' = disk
    BY <1>3, <1>5 DEF Refuse, Unchanged, IsRun
  <2> QED BY <1>1, <1>2, <1>4, <2>1 DEF InjectInv, NeverMixed, KnownOutlines
<1>6. CASE Plan(r)
  <2>1. ReadKnown'
    <3>1. run'[r].pc \in {"planned", "reported"}
      <4>1. PICK edits : Planned(r, Read(disk), edits, edits # <<>> /\ run[r].write)
        BY <1>6 DEF Plan
      <4> QED BY <1>3, <4>1 DEF Planned, IsRun
    <3> QED BY <1>1, <1>4, <1>6, <3>1, PlanReadsDisk
  <2>2. disk' = disk
    BY <1>6 DEF Plan, Unchanged
  <2> QED BY <1>1, <1>2, <2>1, <2>2 DEF InjectInv, NeverMixed, KnownOutlines
<1>7. CASE Truncate(r)
  <2>1. /\ run[r].pc = "planned" /\ disk' = <<>>
        /\ run'[r].source = run[r].source
    BY <1>3, <1>7 DEF Truncate, Put, IsRun
  <2>2. ReadKnown'
    BY <1>1, <1>4, <2>1 DEF ReadKnown
  <2>3. NeverMixed'
    <3>1. Outline(Read(disk')) \in KnownOutlines
      BY <2>1, SavedIsKnown
    <3> QED BY <3>1 DEF NeverMixed, KnownOutlines
  <2> QED BY <1>2, <2>2, <2>3 DEF InjectInv
<1>8. CASE Write(r)
  <2>1. run'[r].pc = "written"
    BY <1>3, <1>8 DEF Write, IsRun
  <2>2. Outline(Read(disk')) \in KnownOutlines
    BY <1>1, <1>8, WriteIsKnown
  <2> QED BY <1>2, <1>4, <2>1, <2>2 DEF InjectInv, NeverMixed, KnownOutlines
<1>9. CASE Report(r)
  <2>1. run'[r].pc = "reported" /\ disk' = disk
    BY <1>3, <1>9 DEF Report, Unchanged, IsRun
  <2> QED BY <1>1, <1>2, <1>4, <2>1 DEF InjectInv, NeverMixed, KnownOutlines
<1>10. CASE Fail(r)
  <2>1. run'[r].pc = "failed" /\ disk' = disk
    BY <1>3, <1>10 DEF Fail, Unchanged, IsRun
  <2> QED BY <1>1, <1>2, <1>4, <2>1 DEF InjectInv, NeverMixed, KnownOutlines
<1>11. CASE Open(r) \/ Sync(r) \/ Reread(r)
  <2>1. run'[r].pc \in {"opened", "synced", "reread"} /\ disk' = disk
    BY <1>3, <1>11 DEF Open, Sync, Reread, Unchanged, IsRun
  <2> QED BY <1>1, <1>2, <1>4, <2>1 DEF InjectInv, NeverMixed, KnownOutlines
<1> QED BY <1>5, <1>6, <1>7, <1>8, <1>9, <1>10, <1>11 DEF Step

(* Nothing has been read, and the disk holds a text of the start.          *)
LEMMA InjectInit == Init => InjectInv
<1> SUFFICES ASSUME Init PROVE InjectInv
  OBVIOUS
<1>1. run \in [Runs -> {NewRun(w) : w \in BOOLEAN}] /\ disk \in Texts
  BY DEF Init
<1>2. ASSUME NEW r \in Runs PROVE IsRun(run[r]) /\ run[r].pc = "start"
  <2>1. PICK w \in BOOLEAN : run[r] = NewRun(w)
    BY <1>1
  <2> QED BY <2>1 DEF NewRun, IsRun
<1>3. RunsFit
  BY <1>1, <1>2 DEF RunsFit
<1>4. ReadKnown
  BY <1>2 DEF ReadKnown
<1>5. NeverMixed
  BY <1>1, SavedIsKnown DEF NeverMixed
<1> QED BY <1>3, <1>4, <1>5 DEF InjectInv

(* Every step, of a run or of an editor, keeps the invariant.              *)
LEMMA InjectNext == InjectInv /\ StillParses /\ [Next]_vars => InjectInv'
<1> SUFFICES ASSUME InjectInv, StillParses, [Next]_vars PROVE InjectInv'
  OBVIOUS
<1>1. CASE \E r \in Runs : Step(r)
  BY <1>1, StepKeepsKnown
<1>2. CASE Save
  <2>1. PICK t \in Saved : disk' = t
    BY <1>2 DEF Save, Put
  <2>2. Outline(Read(disk')) \in KnownOutlines
    BY <2>1, SavedIsKnown
  <2>3. run' = run
    BY <1>2 DEF Save
  <2> QED BY <2>2, <2>3 DEF InjectInv, RunsFit, ReadKnown, NeverMixed, KnownOutlines
<1>3. CASE UNCHANGED vars
  <2>1. run' = run /\ disk' = disk
    BY <1>3 DEF vars
  <2> QED BY <2>1 DEF InjectInv, RunsFit, ReadKnown, NeverMixed, KnownOutlines
<1> QED BY <1>1, <1>2, <1>3 DEF Next, Ended

(* Whatever runs and editors do, and whatever fails, the file holds a text *)
(* somebody saved, with keys, or is empty in the middle of a write, as     *)
(* long as what each run writes parses as what it read: no edits are ever  *)
(* applied to another text than the one they were planned on.              *)
THEOREM TextsNeverMix == Spec /\ []StillParses => []NeverMixed
<1>1. InjectInv => NeverMixed
  BY DEF InjectInv
<1> QED BY <1>1, InjectInit, InjectNext, PTL DEF Spec

-----------------------------------------------------------------------------
(* A run x, the texts h held since its write, the text on disk and its     *)
(* revision.  Before the write there is no history.  From emptying the     *)
(* file until it tells the database, the database is behind the disk; so   *)
(* the old text is dropped then, and what is read next is what the disk    *)
(* holds, one of the texts it has held.                                    *)
CurrentRun(x, h, text, rev) ==
    /\ x.revision \in 0..rev
    /\ x.pc \in {"start", "opened", "planned", "truncated"} => h = {}
    /\ x.pc \in {"truncated", "written"} => x.revision < rev
    /\ h # {} => text \in h
    /\ x.pc \in {"written", "synced", "reread"} => h # {}
    /\ x.pc = "synced" => x.cached = FALSE
    /\ x.pc = "reread" => x.source \in h
    /\ x.pc = "reported" /\ h # {} => \E t \in h : x.report = ReportOf(t)

ReportInv == /\ RunsFit /\ revision \in Nat /\ DOMAIN held = Runs
             /\ \A r \in Runs : CurrentRun(run[r], held[r], disk, revision)

(* Somebody else gives the file a text: the history has it too.            *)
LEMMA PutKeepsRun ==
  ASSUME NEW x, NEW h, NEW text, NEW rev \in Nat, NEW t, CurrentRun(x, h, text, rev)
  PROVE  CurrentRun(x, IF h = {} THEN {} ELSE h \cup {t}, t, rev + 1)
<1>1. x.revision \in 0..(rev + 1) /\ (x.revision < rev => x.revision < rev + 1)
  BY DEF CurrentRun
<1>2. CASE h = {}
  BY <1>1, <1>2 DEF CurrentRun
<1>3. CASE h # {}
  BY <1>1, <1>3 DEF CurrentRun
<1> QED BY <1>2, <1>3

(* A run that reads, plans, is refused or stops: no text of the disk's     *)
(* changes, and nothing is reported of a write.                            *)
LEMMA ReadingKeepsRun ==
  ASSUME ReportInv, NEW r \in Runs, Open(r) \/ Refuse(r) \/ Plan(r) \/ Fail(r)
  PROVE  CurrentRun(run'[r], held[r], disk, revision)
<1>1. /\ DOMAIN run = Runs /\ IsRun(run[r]) /\ revision \in Nat
      /\ CurrentRun(run[r], held[r], disk, revision)
  BY DEF ReportInv, RunsFit
<1>2. CASE Open(r)
  <2>1. run[r].pc = "start" /\ run'[r].pc = "opened" /\ run'[r].revision = revision
    BY <1>1, <1>2 DEF Open, IsRun
  <2> QED BY <1>1, <2>1 DEF CurrentRun
<1>3. CASE Refuse(r)
  <2>1. run'[r].pc = "refused" /\ run'[r].revision = run[r].revision
    BY <1>1, <1>3 DEF Refuse, IsRun
  <2> QED BY <1>1, <2>1 DEF CurrentRun
<1>4. CASE Plan(r)
  <2>1. PICK edits : Planned(r, Read(disk), edits, edits # <<>> /\ run[r].write)
    BY <1>4 DEF Plan
  <2>2. /\ run[r].pc = "opened" /\ run'[r].revision = run[r].revision
        /\ run'[r].pc \in {"planned", "reported"}
    BY <1>1, <1>4, <2>1 DEF Plan, Planned, IsRun
  <2> QED BY <1>1, <2>2 DEF CurrentRun
<1>5. CASE Fail(r)
  <2>1. run'[r].pc = "failed" /\ run'[r].revision = run[r].revision
    BY <1>1, <1>5 DEF Fail, IsRun
  <2> QED BY <1>1, <2>1 DEF CurrentRun
<1> QED BY <1>2, <1>3, <1>4, <1>5

(* The write leaves the database behind the disk, whoever writes next.     *)
LEMMA WritingKeepsRun ==
  ASSUME ReportInv, NEW r \in Runs, Truncate(r) \/ Write(r)
  PROVE  CurrentRun(run'[r], held'[r], disk', revision')
<1>1. /\ DOMAIN run = Runs /\ IsRun(run[r]) /\ revision \in Nat /\ DOMAIN held = Runs
      /\ CurrentRun(run[r], held[r], disk, revision)
  BY DEF ReportInv, RunsFit
<1>2. CASE Truncate(r)
  <2>1. /\ run[r].pc = "planned" /\ run'[r].pc = "truncated"
        /\ run'[r].revision = run[r].revision /\ revision' = revision + 1
    BY <1>1, <1>2 DEF Truncate, Put, IsRun
  <2>2. held[r] = {} /\ held'[r] = {}
    BY <1>1, <1>2, <2>1 DEF Truncate, AlsoHeld, CurrentRun
  <2>3. run'[r].revision \in 0..revision' /\ run'[r].revision < revision'
    BY <1>1, <2>1 DEF CurrentRun
  <2> QED BY <2>1, <2>2, <2>3 DEF CurrentRun
<1>3. CASE Write(r)
  <2>1. /\ run[r].pc = "truncated" /\ run'[r].pc = "written" /\ disk' = run[r].out
        /\ run'[r].revision = run[r].revision /\ revision' = revision + 1
    BY <1>1, <1>3 DEF Write, Put, IsRun
  <2>2. held'[r] = {run[r].out}
    BY <1>1, <1>3 DEF Write, AlsoHeld
  <2>3. run'[r].revision \in 0..revision' /\ run'[r].revision < revision'
    BY <1>1, <2>1 DEF CurrentRun
  <2> QED BY <2>1, <2>2, <2>3 DEF CurrentRun
<1> QED BY <1>2, <1>3

(* The database is told, drops the old text, reads the disk and reports.   *)
LEMMA SyncingKeepsRun ==
  ASSUME ReportInv, NEW r \in Runs, Sync(r) \/ Reread(r) \/ Report(r)
  PROVE  CurrentRun(run'[r], held[r], disk, revision)
<1>1. /\ DOMAIN run = Runs /\ IsRun(run[r]) /\ revision \in Nat
      /\ CurrentRun(run[r], held[r], disk, revision)
  BY DEF ReportInv, RunsFit
<1>2. CASE Sync(r)
  <2>1. run[r].pc = "written" /\ run'[r].pc = "synced" /\ run'[r].revision = revision
    BY <1>1, <1>2 DEF Sync, IsRun
  <2>2. Outdated(r)
    BY <1>1, <2>1 DEF CurrentRun, Outdated
  <2>3. run'[r].cached = FALSE
    BY <1>1, <1>2, <2>2 DEF Sync, IsRun
  <2> QED BY <1>1, <2>1, <2>3 DEF CurrentRun
<1>3. CASE Reread(r)
  <2>1. run[r].pc = "synced" /\ run'[r].pc = "reread" /\ run'[r].revision = run[r].revision
    BY <1>1, <1>3 DEF Reread, IsRun
  <2>2. run[r].cached = FALSE
    BY <1>1, <2>1 DEF CurrentRun
  <2>3. run'[r].source = disk
    BY <1>1, <1>3, <2>2 DEF Reread, IsRun
  <2> QED BY <1>1, <2>1, <2>3 DEF CurrentRun
<1>4. CASE Report(r)
  <2>1. /\ run[r].pc = "reread" /\ run'[r].pc = "reported"
        /\ run'[r].revision = run[r].revision /\ run'[r].report = ReportOf(run[r].source)
    BY <1>1, <1>4 DEF Report, IsRun
  <2> QED BY <1>1, <2>1 DEF CurrentRun
<1> QED BY <1>2, <1>3, <1>4

(* A step of one run keeps what is known of every run.                     *)
LEMMA StepKeepsReports == ASSUME ReportInv, NEW r \in Runs, Step(r) PROVE ReportInv'
<1>1. /\ RunsFit /\ revision \in Nat /\ DOMAIN held = Runs
      /\ \A q \in Runs : CurrentRun(run[q], held[q], disk, revision)
  BY DEF ReportInv
<1>2. RunsFit' /\ \A q \in Runs \ {r} : run'[q] = run[q]
  BY <1>1, StepKeepsRuns
<1>3. CASE Truncate(r) \/ Write(r)
  <2>1. PICK t : Put(t) /\ (held' = AlsoHeld(t) \/ held' = [AlsoHeld(t) EXCEPT ![r] = {t}])
    BY <1>3 DEF Truncate, Write
  <2>2. /\ revision' = revision + 1 /\ disk' = t /\ DOMAIN held' = Runs
        /\ \A q \in Runs \ {r} : held'[q] = IF held[q] = {} THEN {} ELSE held[q] \cup {t}
    BY <2>1 DEF Put, AlsoHeld
  <2>3. ASSUME NEW q \in Runs PROVE CurrentRun(run'[q], held'[q], disk', revision')
    <3>1. CASE q = r
      BY <1>3, <3>1, WritingKeepsRun
    <3>2. CASE q # r
      <4>1. CurrentRun(run[q], IF held[q] = {} THEN {} ELSE held[q] \cup {t}, t, revision + 1)
        BY <1>1, PutKeepsRun
      <4>2. /\ run'[q] = run[q] /\ revision' = revision + 1 /\ disk' = t
            /\ held'[q] = IF held[q] = {} THEN {} ELSE held[q] \cup {t}
        BY <1>2, <2>2, <3>2
      <4> QED BY <4>1, <4>2
    <3> QED BY <3>1, <3>2
  <2> QED BY <1>1, <1>2, <2>2, <2>3 DEF ReportInv
<1>4. CASE ~(Truncate(r) \/ Write(r))
  <2>1. disk' = disk /\ revision' = revision /\ held' = held
    BY <1>4 DEF Step, Open, Refuse, Plan, Sync, Reread, Report, Fail, Unchanged
  <2>2. CurrentRun(run'[r], held[r], disk, revision)
    BY <1>4, ReadingKeepsRun, SyncingKeepsRun DEF Step
  <2>3. ASSUME NEW q \in Runs PROVE CurrentRun(run'[q], held'[q], disk', revision')
    BY <1>1, <1>2, <2>1, <2>2
  <2> QED BY <1>1, <1>2, <2>1, <2>3 DEF ReportInv
<1> QED BY <1>3, <1>4

(* Nobody has written yet.                                                 *)
LEMMA ReportInit == Init => ReportInv
<1> SUFFICES ASSUME Init PROVE ReportInv
  OBVIOUS
<1>1. /\ RunsFit /\ revision = 0 /\ held = [r \in Runs |-> {}]
      /\ run \in [Runs -> {NewRun(w) : w \in BOOLEAN}]
  BY InjectInit DEF InjectInv, Init
<1>2. ASSUME NEW r \in Runs PROVE CurrentRun(run[r], held[r], disk, revision)
  <2>1. PICK w \in BOOLEAN : run[r] = NewRun(w)
    BY <1>1
  <2>2. run[r].pc = "start" /\ run[r].revision = 0
    BY <2>1 DEF NewRun
  <2> QED BY <1>1, <2>2 DEF CurrentRun
<1> QED BY <1>1, <1>2 DEF ReportInv

(* Every step, of a run or of an editor, keeps what is known of the runs.  *)
LEMMA ReportNext == ReportInv /\ [Next]_vars => ReportInv'
<1> SUFFICES ASSUME ReportInv, [Next]_vars PROVE ReportInv'
  OBVIOUS
<1>1. /\ RunsFit /\ revision \in Nat /\ DOMAIN held = Runs
      /\ \A q \in Runs : CurrentRun(run[q], held[q], disk, revision)
  BY DEF ReportInv
<1>2. CASE \E r \in Runs : Step(r)
  BY <1>2, StepKeepsReports
<1>3. CASE Save
  <2>1. PICK t \in Saved : Put(t) /\ held' = AlsoHeld(t)
    BY <1>3 DEF Save
  <2>2. /\ revision' = revision + 1 /\ disk' = t /\ run' = run
        /\ held' = [q \in Runs |-> IF held[q] = {} THEN {} ELSE held[q] \cup {t}]
    BY <1>3, <2>1 DEF Put, AlsoHeld, Save
  <2>3. ASSUME NEW q \in Runs PROVE CurrentRun(run'[q], held'[q], disk', revision')
    BY <1>1, <2>2, PutKeepsRun
  <2> QED BY <1>1, <2>2, <2>3 DEF ReportInv, RunsFit
<1>4. CASE UNCHANGED vars
  BY <1>1, <1>4 DEF vars, ReportInv, RunsFit
<1> QED BY <1>2, <1>3, <1>4 DEF Next, Ended

(* What a run that wrote returns is the outline of a text the disk held    *)
(* after its write, whatever other runs and editors write in between, and  *)
(* never of the text it planned on: by its own write the revision it knows *)
(* is behind the disk's, so telling the database drops the text it read.   *)
THEOREM ReportsAreCurrent == Spec => []ReportIsCurrent
<1>1. ReportInv => ReportIsCurrent
  BY DEF ReportInv, ReportIsCurrent, CurrentRun
<1> QED BY <1>1, ReportInit, ReportNext, PTL DEF Spec
=============================================================================
