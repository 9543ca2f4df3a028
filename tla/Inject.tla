------------------------------- MODULE Inject -------------------------------
(***************************************************************************)
(* inject_ids (inject.rs), as the command `inject` runs it (bin/inject.rs):*)
(* a process with a database of its own reads one file, plans, writes,     *)
(* tells the database and reports the defs.  Several may run on the same   *)
(* file, and somebody may save it from an editor meanwhile.                *)
(***************************************************************************)
EXTENDS IdEdits

CONSTANTS Runs,      \* the processes
          Texts,     \* what the file may hold to begin with
          Saved,     \* what an editor may save
          MaxSaves,  \* how often
          Failures   \* processes may be killed and writes may fail

VARIABLES
    file,      \* what kind of file it is: in the project, outside, not Python
    disk,      \* the text on disk
    revision,  \* how often it has changed
    minted,    \* how many ids have been minted
    saves,     \* how often an editor has saved
    run,       \* the processes
    held       \* history: the texts the disk has held since each one's write
vars == <<file, disk, revision, minted, saves, run, held>>

(* `revision` is what the database knows of the file and `source` the text *)
(* it has read, while `cached`; `out` is what the process writes, `report` *)
(* the keys of the defs it returns.                                        *)
NewRun(write) == [pc |-> "start", write |-> write, revision |-> 0, cached |-> FALSE,
                  source |-> <<>>, edits |-> <<>>, out |-> <<>>, report |-> <<>>]
ReportOf(t) == Keys(Read(t).defs)

Init ==
    /\ file \in {"project", "outside", "notebook"}
    /\ disk \in Texts
    /\ revision = 0
    /\ minted = 0
    /\ saves = 0
    /\ run \in [Runs -> {NewRun(w) : w \in BOOLEAN}]
    /\ held = [r \in Runs |-> {}]

Unchanged == UNCHANGED <<disk, revision, held>>
(* The file gets a text, and with it another revision.                     *)
Put(t) == disk' = t /\ revision' = revision + 1
AlsoHeld(t) == [r \in Runs |-> IF held[r] = {} THEN {} ELSE held[r] \cup {t}]

(* open (db.rs): the database learns of the file, and has not read it.     *)
Open(r) ==
    /\ run[r].pc = "start"
    /\ run' = [run EXCEPT ![r].pc = "opened", ![r].revision = revision]
    /\ Unchanged /\ UNCHANGED <<file, minted, saves>>

(* Not this project's, or it does not parse.                               *)
Refuse(r) ==
    /\ run[r].pc = "opened"
    /\ file = "outside" \/ (file = "project" /\ ~Read(disk).parses)
    /\ run' = [run EXCEPT ![r].pc = "refused"]
    /\ Unchanged /\ UNCHANGED <<file, minted, saves>>

(* The defs of the text that was read: nothing to do, or a dry run.        *)
Planned(r, src, edits, writes) ==
    /\ run' = [run EXCEPT ![r].pc = IF writes THEN "planned" ELSE "reported",
                          ![r].cached = TRUE, ![r].source = src.text, ![r].edits = edits,
                          ![r].report = IF writes THEN <<>> ELSE Keys(src.defs)]
    /\ minted' = minted + Len(edits)
Plan(r) ==
    /\ run[r].pc = "opened" /\ file # "outside"
    /\ \E src \in {Read(disk)} :
          /\ file = "project" => src.parses
          /\ \E edits \in {IF file = "project" THEN PlanIds(src, minted) ELSE <<>>} :
                Planned(r, src, edits, edits # <<>> /\ run[r].write)
    /\ Unchanged /\ UNCHANGED <<file, saves>>

(* The text the edits are applied to.                                      *)
Mutant_Base(r) == IF Len(disk) < Len(run[r].source) THEN run[r].source ELSE disk
Base(r) == run[r].source

(* fs::write empties the file, then fills it.                              *)
Truncate(r) ==
    /\ run[r].pc = "planned"
    /\ Put(<<>>) /\ held' = AlsoHeld(<<>>)
    /\ run' = [run EXCEPT ![r].pc = "truncated", ![r].out = Apply(Base(r), run[r].edits)]
    /\ UNCHANGED <<file, minted, saves>>

Write(r) ==
    /\ run[r].pc = "truncated"
    /\ Put(run[r].out) /\ held' = [AlsoHeld(run[r].out) EXCEPT ![r] = {run[r].out}]
    /\ run' = [run EXCEPT ![r].pc = "written"]
    /\ UNCHANGED <<file, minted, saves>>

(* Does the database know another revision than the disk's?                *)
Mutant_Outdated(r) == run[r].revision > revision
Outdated(r) == run[r].revision # revision

(* File::sync_path: another revision drops the text that was read.         *)
Sync(r) ==
    /\ run[r].pc = "written"
    /\ run' = [run EXCEPT ![r].pc = "synced", ![r].revision = revision,
                          ![r].cached = @ /\ ~Outdated(r)]
    /\ Unchanged /\ UNCHANGED <<file, minted, saves>>

(* definitions, after the write: source_text reads the disk as it is by    *)
(* now, or has the text, ...                                               *)
Reread(r) ==
    /\ run[r].pc = "synced"
    /\ run' = [run EXCEPT ![r].pc = "reread", ![r].cached = TRUE,
                          ![r].source = IF run[r].cached THEN @ ELSE disk]
    /\ Unchanged /\ UNCHANGED <<file, minted, saves>>

(* ... and the outline is of that.                                         *)
Report(r) ==
    /\ run[r].pc = "reread"
    /\ run' = [run EXCEPT ![r].pc = "reported", ![r].report = ReportOf(run[r].source)]
    /\ Unchanged /\ UNCHANGED <<file, minted, saves>>

Finished == {"refused", "reported", "failed"}

(* Killed, or fs::write returns an error.                                  *)
Fail(r) ==
    /\ Failures /\ run[r].pc \notin {"start"} \cup Finished
    /\ run' = [run EXCEPT ![r].pc = "failed"]
    /\ Unchanged /\ UNCHANGED <<file, minted, saves>>

Save ==
    /\ saves < MaxSaves
    /\ \E t \in Saved : Put(t) /\ held' = AlsoHeld(t)
    /\ saves' = saves + 1
    /\ UNCHANGED <<file, minted, run>>

Ended == /\ \A r \in Runs : run[r].pc \in Finished
         /\ UNCHANGED vars

Step(r) == \/ Open(r) \/ Refuse(r) \/ Plan(r) \/ Truncate(r) \/ Write(r) \/ Sync(r)
           \/ Reread(r) \/ Report(r) \/ Fail(r)
Next ==
    \/ \E r \in Runs : Step(r)
    \/ Save
    \/ Ended

Spec == Init /\ [][Next]_vars

-----------------------------------------------------------------------------
TextType(t) == t \in Seq(Blank \cup Quote \cup Header \cup Colon \cup Range(Uuids)
                         \cup {"at", "continue", "stmt", "w", "k"})
Writing(r) == run[r].pc = "truncated"
TypeOK ==
    /\ file \in {"project", "outside", "notebook"}
    /\ TextType(disk)
    /\ revision \in Nat
    /\ minted \in 0..Len(Uuids)
    /\ saves \in 0..MaxSaves
    /\ \A r \in Runs :
          /\ run[r].pc \in {"start", "opened", "planned", "truncated", "written", "synced",
                            "reread"} \cup Finished
          /\ run[r].write \in BOOLEAN /\ run[r].cached \in BOOLEAN
          /\ run[r].revision \in 0..revision
          /\ \A t \in held[r] : TextType(t)
          /\ TextType(run[r].source) /\ TextType(run[r].out)
          /\ Writing(r) \/ run[r].pc = "planned"
                => \A i \in DOMAIN run[r].edits : run[r].edits[i].at \in DOMAIN run[r].source
          /\ \A i \in DOMAIN run[r].report :
                run[r].report[i] \in {{}} \cup {{id} : id \in {"w", "k"} \cup Range(Uuids)}

SameShape(new, old) == new.parses /\ new.shape = old.shape

(* What a run writes parses, and has the statements of what it read, each  *)
(* at its level: no line of id_edit is indented too little or lands        *)
(* between a decorator and its def.                                        *)
StillParses ==
    \A r \in Runs : Writing(r) => SameShape(Read(run[r].out), Read(run[r].source))

KeysAdded(new, old) ==
    /\ DOMAIN new = DOMAIN old
    /\ \A i \in DOMAIN new :
          IF old[i] # {} THEN new[i] = old[i]
          ELSE new[i] # {} /\ \A j \in DOMAIN new \ {i} : new[j] # new[i]

(* In what a run writes the reader finds a key for every def: the old one  *)
(* where there was one, else one no other def has.  So a second run makes  *)
(* no edit (scan.rs id_from_body, edit.rs plan_ids).                       *)
EveryDefKeyed ==
    \A r \in Runs : Writing(r) => KeysAdded(ReportOf(run[r].out), ReportOf(run[r].source))

Stranded(t) ==
    {i \in DOMAIN t : /\ t[i] \in Indent /\ i < Len(t) /\ t[i + 1] \in Newline
                      /\ IndentOf(t, i + 1) # <<>>
                      /\ i + 1 - Len(IndentOf(t, i + 1)) \in {1} \cup
                           {j + 1 : j \in {j \in DOMAIN t : t[j] \in Newline}}}

(* A run writes the line endings of the file, and leaves no indentation    *)
(* behind on a line of its own.                                            *)
LooksTheSame ==
    \A r \in Runs : Writing(r) =>
        /\ Range(run[r].out) \cap Newline \subseteq Range(run[r].source)
        /\ Stranded(run[r].source) = {} => Stranded(run[r].out) = {}

Outline(src) == [parses |-> src.parses, shape |-> src.shape]
KnownOutlines == {Outline(Read(t)) : t \in {<<>>} \cup Texts \cup Saved}

(* The file is empty, in the middle of a write, or it is a whole text that *)
(* somebody saved, with keys: edits planned on one text are never applied  *)
(* to another, whatever two runs and an editor do.                         *)
NeverMixed == Outline(Read(disk)) \in KnownOutlines

(* What a run that wrote returns is the outline of a text the disk has     *)
(* held since its write: its own, or one somebody put there after it, and  *)
(* never the text it had read to plan on, which the database had cached    *)
(* (inject.rs, InjectReport::defs).                                        *)
ReportIsCurrent ==
    \A r \in Runs : run[r].pc = "reported" /\ held[r] # {}
                      => \E t \in held[r] : run[r].report = ReportOf(t)

=============================================================================
