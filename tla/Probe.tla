------------------------------- MODULE Probe -------------------------------
(***************************************************************************)
(* internal/probe with the execution (internal/execute) and the checks      *)
(* (internal/check) it runs: the probe stages of several acquisitions of    *)
(* one daemon.  Every stage takes its candidates in order and gives the     *)
(* i-th the directory <work root>/probes/<i>, whoever else is in it.        *)
(*                                                                         *)
(* A file's content is the acquisition that wrote it.  A directory appears  *)
(* with MkdirAll; os.RemoveAll first removes the entries it finds, then the *)
(* directory if nothing was added.  The provider's program is external: it  *)
(* reads the fixtures, writes its output if all are there, and may leave a  *)
(* child behind that keeps its output pipes open.  Such a child writes no   *)
(* file after the program has ended.                                        *)
(*                                                                         *)
(* Jobs whose plans do not fit the candidates are left to Screening, which  *)
(* shows that no acquisition has one: the only structural error of Run.     *)
(***************************************************************************)
EXTENDS Naturals, Sequences

CONSTANTS
  Probers,    \* acquisitions, one probe stage each
  Jobs,       \* bound: the sequences of plans they come with
  Most,       \* bound: the most candidates of a job
  Files,      \* names of files below a workdir
  NoFile,     \* no file is asked for
  BadName,    \* a fixture's name that is blank, absolute or escapes
  Process,    \* a check's subject that is no file
  NoOne,
  MaxFaults   \* bound: disk errors and deaths of the daemon

Plans ==
  [template : BOOLEAN,                    \* an input keeps a template
   fixtures : Seq(Files \cup {BadName}),
   sound    : BOOLEAN,                    \* every check fits its predicate
   level    : 0..3, method : {"execute", "contract"},
   rendered : BOOLEAN,                    \* no argument lacks its input
   output   : Files \cup {NoFile},        \* what the program writes itself
   stdout   : Files \cup {NoFile},        \* where its stdout is captured
   checks   : Seq(Files \cup {Process})]

ASSUME ProbeAssumption ==
  /\ NoOne \notin Probers /\ NoFile \notin Files /\ BadName \notin Files
  /\ Process \notin Files /\ MaxFaults \in Nat
  /\ Most \in Nat /\ Jobs \subseteq Seq(Plans) /\ \A j \in Jobs : Len(j) <= Most

VARIABLES
  dirs,     \* the workdirs that exist
  files,    \* [Candidates -> [Files -> who wrote the file that is there]]
  pc,       \* [Probers -> the step it is at]
  job,      \* [Probers -> its plans]
  at,       \* [Probers -> the candidate it probes]
  pos,      \* [Probers -> the fixture or check that is next]
  canceled, \* [Probers -> its context is canceled]
  held,     \* [Probers -> a child of its program holds the pipes]
  wrote,    \* [Probers -> the files this probe has written]
  seen,     \* [Probers -> whose files this probe's program and checks read]
  lost,     \* [Probers -> a file or directory of this probe had gone]
  met,      \* [Probers -> who was in the workdir during this probe]
  left,     \* [Candidates -> who left the workdir without removing it]
  records,  \* [Probers -> its probe records]
  faults

world == <<dirs, files>>
own == <<wrote, seen, lost>>
vars == <<world, pc, job, at, pos, canceled, held, own, met, left, records, faults>>

Candidates == 1..Most

Reasons == {"verify_checks_passed", "contract_evidence_recorded",
            "verification_level_l0", "verification_plan_invalid",
            "execution_failed", "execution_timeout", "verification_failed",
            "probe_materialize_failed"}

\* The steps between the MkdirAll of the workdir and the end of its RemoveAll.
InWorkdir == {"fixtures", "write", "execute", "running", "killed", "exited", "check",
              "entries", "rmdir"}
Active == InWorkdir \cup {"prepare"}
Empty == [f \in Files |-> NoOne]

\* The acquisitions that are in the i-th workdir.
In(i) == {p \in Probers : pc[p] \in InWorkdir /\ at[p] = i}
Plan(p) == job[p][at[p]]
Mine(p) == files[at[p]]

Records == [index : Candidates, reason : Reasons, seen : SUBSET Probers,
            lost : BOOLEAN, met : SUBSET Probers, left : SUBSET Probers]

TypeOK ==
  /\ dirs \subseteq Candidates
  /\ files \in [Candidates -> [Files -> Probers \cup {NoOne}]]
  /\ pc \in [Probers -> Active \cup {"idle", "done", "orphan", "dead"}]
  /\ job \in [Probers -> Jobs]
  /\ at \in [Probers -> Nat \ {0}]
  /\ \A p \in Probers : pc[p] \in Active \cup {"orphan"} => at[p] \in DOMAIN job[p]
  /\ pos \in [Probers -> Nat \ {0}]
  /\ canceled \in [Probers -> BOOLEAN] /\ held \in [Probers -> BOOLEAN]
  /\ wrote \in [Probers -> SUBSET Files] /\ seen \in [Probers -> SUBSET Probers]
  /\ lost \in [Probers -> BOOLEAN] /\ met \in [Probers -> SUBSET Probers]
  /\ left \in [Candidates -> SUBSET Probers]
  /\ records \in [Probers -> Seq(Records)]
  /\ faults \in Nat

Init ==
  /\ dirs = {} /\ files = [i \in Candidates |-> Empty]
  /\ pc = [p \in Probers |-> "idle"] /\ job \in [Probers -> Jobs]
  /\ at = [p \in Probers |-> 1] /\ pos = [p \in Probers |-> 1]
  /\ canceled = [p \in Probers |-> FALSE] /\ held = [p \in Probers |-> FALSE]
  /\ wrote = [p \in Probers |-> {}] /\ seen = [p \in Probers |-> {}]
  /\ lost = [p \in Probers |-> FALSE] /\ met = [p \in Probers |-> {}]
  /\ left = [i \in Candidates |-> {}]
  /\ records = [p \in Probers |-> <<>>] /\ faults = 0

----------------------------------------------------------------------------
(* Steps common to the stages *)

Step(p, from, to) == pc[p] = from /\ pc' = [pc EXCEPT ![p] = to]

Fault == faults < MaxFaults /\ faults' = faults + 1

\* The next candidate, or the end of the stage.
Continue(p) ==
  /\ at' = [at EXCEPT ![p] = @ + 1]
  /\ pc' = [pc EXCEPT ![p] = IF at[p] < Len(job[p]) THEN "prepare" ELSE "done"]

\* The record of this probe, with what it rests on.
AddRecord(p, reason, read, gone) ==
  records' = [records EXCEPT ![p] = Append(@,
    [index |-> at[p], reason |-> reason, seen |-> read, lost |-> gone,
     met |-> met[p], left |-> left[at[p]]])]

\* The probe is over: the deferred cleanup runs.
Record(p, from, reason) ==
  /\ Step(p, from, "entries")
  /\ AddRecord(p, reason, seen[p], lost[p])
  /\ UNCHANGED <<world, job, at, pos, canceled, held, own, met, left>>

\* It ends because its workdir, or a file it has written, is not there.
RecordGone(p, from, reason) ==
  /\ Step(p, from, "entries")
  /\ lost' = [lost EXCEPT ![p] = TRUE]
  /\ AddRecord(p, reason, seen[p], TRUE)
  /\ UNCHANGED <<world, job, at, pos, canceled, held, wrote, seen, met, left>>

\* os.WriteFile below the workdir.
Write(p, f) ==
  /\ files' = [files EXCEPT ![at[p]][f] = p]
  /\ wrote' = [wrote EXCEPT ![p] = @ \cup {f}]

\* Of some files: those the probe has written and that are not there.
Missing(p, fs) == {f \in fs \cap wrote[p] : Mine(p)[f] = NoOne}
Owners(p, fs) == {Mine(p)[f] : f \in fs \cap Files} \ {NoOne}

\* It ends with a step that reads files of the workdir.
RecordRead(p, from, reason, read) ==
  /\ Step(p, from, "entries")
  /\ seen' = [seen EXCEPT ![p] = @ \cup Owners(p, read)]
  /\ lost' = [lost EXCEPT ![p] = @ \/ Missing(p, read) # {}]
  /\ AddRecord(p, reason, seen'[p], lost'[p])
  /\ UNCHANGED <<world, job, at, pos, canceled, held, wrote, met, left>>

----------------------------------------------------------------------------
(* prepareWorkDir and Materialize *)

\* The handler of the acquisition calls Run; no plan, no probe.
Start(p) ==
  /\ Step(p, "idle", IF job[p] = <<>> THEN "done" ELSE "prepare")
  /\ UNCHANGED <<world, job, at, pos, canceled, held, own, met, left, records, faults>>

Prepare(p) ==
  /\ Step(p, "prepare", "fixtures")
  /\ dirs' = dirs \cup {at[p]}
  /\ met' = [q \in Probers |-> IF q = p THEN In(at[p])
                               ELSE IF q \in In(at[p]) THEN met[q] \cup {p} ELSE met[q]]
  /\ pos' = [pos EXCEPT ![p] = 1]
  /\ wrote' = [wrote EXCEPT ![p] = {}] /\ seen' = [seen EXCEPT ![p] = {}]
  /\ lost' = [lost EXCEPT ![p] = FALSE]
  /\ UNCHANGED <<files, job, at, canceled, held, left, records, faults>>

\* Without a workdir there is nothing to clean.
PrepareFails(p) ==
  /\ pc[p] = "prepare" /\ Fault
  /\ Continue(p)
  /\ records' = [records EXCEPT ![p] = Append(@,
       [index |-> at[p], reason |-> "probe_materialize_failed", seen |-> {},
        lost |-> FALSE, met |-> {}, left |-> left[at[p]]])]
  /\ UNCHANGED <<world, job, pos, canceled, held, own, met, left>>

Fixtures(p) == Plan(p).fixtures
Written(p) == pos[p] > Len(Fixtures(p))

\* The directory of the next fixture: above it is the workdir itself.
FixtureDir(p) ==
  /\ Step(p, "fixtures", "write")
  /\ ~Plan(p).template /\ ~Written(p) /\ Fixtures(p)[pos[p]] # BadName
  /\ dirs' = dirs \cup {at[p]}
  /\ UNCHANGED <<files, job, at, pos, canceled, held, own, met, left, records, faults>>

WriteFixture(p) ==
  /\ Step(p, "write", "fixtures") /\ at[p] \in dirs
  /\ Write(p, Fixtures(p)[pos[p]])
  /\ pos' = [pos EXCEPT ![p] = @ + 1]
  /\ UNCHANGED <<dirs, job, at, canceled, held, seen, lost, met, left, records, faults>>

MaterializeFails(p) ==
  \/ /\ Record(p, "fixtures", "probe_materialize_failed") /\ UNCHANGED faults
     /\ Plan(p).template \/ (~Written(p) /\ Fixtures(p)[pos[p]] = BadName)
  \/ /\ RecordGone(p, "write", "probe_materialize_failed") /\ UNCHANGED faults
     /\ at[p] \notin dirs
  \/ Record(p, "write", "probe_materialize_failed") /\ Fault

----------------------------------------------------------------------------
(* runTarget and executeAndCheck *)

\* checker.Validate.
Valid(plan) ==
  IF plan.method = "contract" THEN plan.level <= 1
  ELSE plan.sound /\ (plan.level > 0 => plan.checks # <<>>)

Materialized(p) == pc[p] = "fixtures" /\ ~Plan(p).template /\ Written(p)
Executes(p) == Valid(Plan(p)) /\ Plan(p).level > 0 /\ Plan(p).method = "execute"

\* The plan alone settles the probe.
Settle(p) ==
  /\ Materialized(p) /\ ~Executes(p)
  /\ Record(p, "fixtures",
       IF ~Valid(Plan(p)) THEN "verification_plan_invalid"
       ELSE IF Plan(p).level = 0 THEN "verification_level_l0"
       ELSE "contract_evidence_recorded")
  /\ UNCHANGED faults

BeginExecute(p) ==
  /\ Materialized(p) /\ Executes(p)
  /\ Step(p, "fixtures", "execute")
  /\ UNCHANGED <<world, job, at, pos, canceled, held, own, met, left, records, faults>>

\* Whatever goes wrong in an execution, its error is that of executeCtx once
\* that has ended, be it canceled or out of time.
ExecutionReasons == {"execution_failed", "execution_timeout"}

\* RenderArgs or the start of the process refuses; a program may be missing.
ExecuteRefused(p) ==
  /\ \E reason \in ExecutionReasons : Record(p, "execute", reason)
  /\ UNCHANGED faults

Given(p) == {Fixtures(p)[n] : n \in DOMAIN Fixtures(p)}
Complete(p) == \A f \in Given(p) : Mine(p)[f] # NoOne

\* External: the program reads what it was given.
Execute(p) ==
  /\ Step(p, "execute", IF Complete(p) THEN "running" ELSE "exited")
  /\ Plan(p).rendered /\ ~canceled[p]
  /\ seen' = [seen EXCEPT ![p] = @ \cup Owners(p, Given(p))]
  /\ lost' = [lost EXCEPT ![p] = @ \/ Missing(p, Given(p)) # {}]
  /\ \E h \in BOOLEAN : held' = [held EXCEPT ![p] = h /\ Complete(p)]
  /\ pos' = [pos EXCEPT ![p] = 1]
  /\ UNCHANGED <<world, job, at, canceled, wrote, met, left, records, faults>>

\* External: it writes its output, if the directory is there, and exits; with
\* the daemon gone it does so all the same.
Exit(p) ==
  /\ Step(p, "running", "exited") \/ Step(p, "orphan", "dead")
  /\ IF Plan(p).output # NoFile /\ at[p] \in dirs
     THEN Write(p, Plan(p).output)
     ELSE UNCHANGED <<files, wrote>>
  /\ lost' = [lost EXCEPT ![p] = @ \/ (Plan(p).output # NoFile /\ at[p] \notin dirs)]
  /\ UNCHANGED <<dirs, job, at, pos, canceled, held, seen, met, left, records, faults>>

\* The timer of executeCtx or the cancel kills the program, not its children.
Kill(p) ==
  /\ Step(p, "running", "killed")
  /\ UNCHANGED <<world, job, at, pos, canceled, held, own, met, left, records, faults>>

\* External: the child ends, or closes what it inherited.
ChildExits(p) ==
  /\ held[p]
  /\ held' = [held EXCEPT ![p] = FALSE]
  /\ UNCHANGED <<world, pc, job, at, pos, canceled, own, met, left, records, faults>>

\* A timeout waits for the context as well.
Mut_Reap(p) ==
  /\ ~held[p] /\ canceled[p]
  /\ \/ Record(p, "killed", "execution_timeout")
     \/ Record(p, "killed", "execution_failed")
  /\ UNCHANGED faults

\* cmd.Run returns when the pipes are closed.
Reap(p) ==
  /\ ~held[p]
  /\ \/ Record(p, "killed", "execution_timeout")
     \/ canceled[p] /\ Record(p, "killed", "execution_failed")
  /\ UNCHANGED faults

\* writeStdoutTarget: the file, but not its directory.
Capture(p) ==
  /\ Step(p, "exited", "check") /\ ~held[p]
  /\ \/ Plan(p).stdout = NoFile /\ UNCHANGED <<files, wrote>>
     \/ at[p] \in dirs /\ Plan(p).stdout # NoFile /\ Write(p, Plan(p).stdout)
  /\ UNCHANGED <<dirs, job, at, pos, canceled, held, seen, lost, met, left, records, faults>>

CaptureFails(p) ==
  /\ pc[p] = "exited" /\ ~held[p] /\ Plan(p).stdout # NoFile
  /\ \E reason \in ExecutionReasons :
       \/ at[p] \notin dirs /\ RecordGone(p, "exited", reason) /\ UNCHANGED faults
       \/ Record(p, "exited", reason) /\ Fault

\* A program that failed: executeCtx has ended by the time its pipes close.
ExitTooLate(p) ==
  /\ ~held[p]
  /\ \/ Record(p, "exited", "execution_timeout")
     \/ canceled[p] /\ Record(p, "exited", "execution_failed")
  /\ UNCHANGED faults

Checks(p) == Plan(p).checks
Subject(p) == Checks(p)[pos[p]]
Checked(p) == pos[p] > Len(Checks(p))

\* One check that holds: of the process, or of a file that is there.
CheckHolds(p) ==
  /\ pc[p] = "check" /\ ~canceled[p] /\ ~Checked(p)
  /\ Subject(p) # Process => Mine(p)[Subject(p)] # NoOne
  /\ pos' = [pos EXCEPT ![p] = @ + 1]
  /\ seen' = [seen EXCEPT ![p] = @ \cup Owners(p, {Subject(p)})]
  /\ UNCHANGED <<world, pc, job, at, canceled, held, wrote, lost, met, left, records, faults>>

\* A canceled context, or a predicate that does not hold of what it reads.
CheckFails(p) ==
  /\ pc[p] = "check" /\ ~Checked(p)
  /\ \/ canceled[p] /\ Record(p, "check", "verification_failed")
     \/ RecordRead(p, "check", "verification_failed", {Subject(p)})
  /\ UNCHANGED faults

Pass(p) ==
  /\ Record(p, "check", "verify_checks_passed")
  /\ Checked(p)
  /\ UNCHANGED faults

----------------------------------------------------------------------------
(* Cleanup, cancel and death *)

\* Only the fixtures are removed.
Mut_RemoveFixtures(p) ==
  /\ Step(p, "entries", "rmdir")
  /\ files' = [files EXCEPT ![at[p]] =
                [f \in Files |-> IF f \in Given(p) THEN NoOne ELSE @[f]]]
  /\ UNCHANGED <<dirs, job, at, pos, canceled, held, own, met, left, records, faults>>

\* The workdirs of all candidates are emptied.
Mut_RemoveProbes(p) ==
  /\ Step(p, "entries", "rmdir")
  /\ files' = [i \in Candidates |-> Empty]
  /\ UNCHANGED <<dirs, job, at, pos, canceled, held, own, met, left, records, faults>>

\* os.RemoveAll: the entries, then the directory if it stayed empty.
RemoveEntries(p) ==
  /\ Step(p, "entries", "rmdir")
  /\ files' = [files EXCEPT ![at[p]] = Empty]
  /\ UNCHANGED <<dirs, job, at, pos, canceled, held, own, met, left, records, faults>>

\* The directory stays.
Mut_RemoveDir(p) ==
  /\ pc[p] = "rmdir" /\ Continue(p)
  /\ UNCHANGED <<world, job, pos, canceled, held, own, met, left, records, faults>>

RemoveDir(p) ==
  /\ pc[p] = "rmdir" /\ Continue(p)
  /\ dirs' = IF Mine(p) = Empty THEN dirs \ {at[p]} ELSE dirs
  /\ UNCHANGED <<files, job, pos, canceled, held, own, met, left, records, faults>>

\* An entry cannot be removed: the error is dropped.
RemoveFails(p) ==
  /\ pc[p] = "entries" /\ Fault /\ Continue(p)
  /\ left' = [left EXCEPT ![at[p]] = @ \cup {p}]
  /\ UNCHANGED <<world, job, pos, canceled, held, own, met, records>>

\* The client of the acquisition has gone.
Cancel(p) ==
  /\ pc[p] \in Active /\ ~canceled[p]
  /\ canceled' = [canceled EXCEPT ![p] = TRUE]
  /\ UNCHANGED <<world, pc, job, at, pos, held, own, met, left, records, faults>>

\* The daemon dies; programs that run go on.
Crash ==
  /\ Fault
  /\ \E p \in Probers : pc[p] \in Active
  /\ pc' = [p \in Probers |-> IF pc[p] = "running" THEN "orphan"
                              ELSE IF pc[p] \in Active THEN "dead" ELSE pc[p]]
  /\ left' = [i \in Candidates |-> left[i] \cup In(i)]
  /\ UNCHANGED <<world, job, at, pos, canceled, held, own, met, records>>

----------------------------------------------------------------------------

\* Run of one acquisition, without what others decide.
ProbeStep(p) ==
  \/ Prepare(p) \/ PrepareFails(p) \/ FixtureDir(p) \/ WriteFixture(p)
  \/ MaterializeFails(p) \/ Settle(p) \/ BeginExecute(p) \/ ExecuteRefused(p)
  \/ Execute(p) \/ Exit(p) \/ Kill(p) \/ Reap(p) \/ Capture(p) \/ CaptureFails(p)
  \/ ExitTooLate(p) \/ CheckHolds(p) \/ CheckFails(p) \/ Pass(p)
  \/ RemoveEntries(p) \/ RemoveDir(p) \/ RemoveFails(p)

Next ==
  \/ \E p \in Probers : Start(p) \/ ProbeStep(p) \/ ChildExits(p) \/ Cancel(p)
  \/ Crash

Spec == Init /\ [][Next]_vars

\* The scheduler runs every goroutine, and executeCtx ends a program that hangs.
RunFair == Spec /\ \A p \in Probers : WF_vars(ProbeStep(p))

\* And the children that programs leave behind end some day.
FairSpec == RunFair /\ \A p \in Probers : WF_vars(ChildExits(p))

----------------------------------------------------------------------------
(* Properties *)

\* What a probe's program or checks read was written by the probe itself, by
\* one that was in the workdir at the same time, or by one that left it behind
\* (a death of the daemon, a RemoveAll that failed): a probe that is alone in
\* a clean workdir rests on nothing but its own files.
ForeignOnlyByOverlap ==
  \A p \in Probers : \A n \in DOMAIN records[p] :
    LET r == records[p][n] IN r.seen \subseteq {p} \cup r.met \cup r.left

\* A probe misses something it has written, or the directory to write it to,
\* only if another was in the workdir meanwhile.
LossOnlyByOverlap ==
  \A p \in Probers : \A n \in DOMAIN records[p] :
    records[p][n].lost => records[p][n].met # {}

\* A workdir is gone once nobody is in it, whatever the order in which the
\* removals and the creations of its users interleave, unless it was left.
WorkdirsGone == \A i \in dirs : In(i) # {} \/ left[i] # {}

\* A stage that has ended has one record for each candidate, in their order,
\* also after a cancel: promote finds a candidate's probe by its index.
OneRecordEach ==
  \A p \in Probers :
    /\ \A n \in DOMAIN records[p] : records[p][n].index = n
    /\ pc[p] = "done" => Len(records[p]) = Len(job[p])

\* A stage ends, unless the daemon dies.
Finishes == \A p \in Probers : pc[p] = "prepare" ~> pc[p] \in {"done", "dead"}

\* "create isolated workdir" (docs/cal-release-v1/cal-module-probe.md:14): no
\* probe rests on the files of another.
IsolatedWorkdir ==
  \A p \in Probers : \A n \in DOMAIN records[p] : records[p][n].seen \subseteq {p}

\* "Options controls probe runtime bounds" (internal/probe/request.go:43): a
\* program that the timeout has killed ends its execution.
RuntimeBounded == \A p \in Probers : pc[p] = "killed" ~> pc[p] # "killed"
=============================================================================
