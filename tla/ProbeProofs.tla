---------------------------- MODULE ProbeProofs ----------------------------
(***************************************************************************)
(* For any number of acquisitions, jobs, candidates and files, whatever     *)
(* fails and however often the daemon dies: the invariants of Probe.        *)
(***************************************************************************)
EXTENDS Probe, TLAPS

\* A fixture that is about to be written has a name; a stage begins with the
\* first candidate.
Named ==
  \A p \in Probers :
    /\ pc[p] = "write" =>
         pos[p] \in DOMAIN Fixtures(p) /\ Fixtures(p)[pos[p]] \in Files
    /\ pc[p] = "idle" => at[p] = 1

Types == TypeOK /\ Named

LEMMA PlanTypes ==
  ASSUME TypeOK, NEW p \in Probers, pc[p] \in Active \cup {"orphan"}
  PROVE  /\ Plan(p) \in Plans /\ at[p] \in Candidates /\ at[p] <= Len(job[p])
         /\ Fixtures(p) \in Seq(Files \cup {BadName})
         /\ Checks(p) \in Seq(Files \cup {Process})
         /\ Plan(p).output \in Files \cup {NoFile}
         /\ Plan(p).stdout \in Files \cup {NoFile}
<1>1. job[p] \in Jobs /\ at[p] \in DOMAIN job[p]
  BY DEF TypeOK
<1>2. job[p] \in Seq(Plans) /\ Len(job[p]) <= Most /\ Most \in Nat
  BY <1>1, ProbeAssumption
<1>3. Plan(p) \in Plans /\ at[p] \in 1..Len(job[p])
  BY <1>1, <1>2 DEF Plan
<1> QED
  BY <1>2, <1>3 DEF Plans, Candidates, Fixtures, Checks

LEMMA AddRecordTypes ==
  ASSUME TypeOK, NEW p \in Probers, NEW reason \in Reasons, NEW read \in SUBSET Probers,
         NEW gone \in BOOLEAN, pc[p] \in Active, AddRecord(p, reason, read, gone)
  PROVE  records' \in [Probers -> Seq(Records)]
<1> DEFINE r == [index |-> at[p], reason |-> reason, seen |-> read, lost |-> gone,
                 met |-> met[p], left |-> left[at[p]]]
<1>1. r \in Records
  BY PlanTypes DEF TypeOK, Records
<1>2. Append(records[p], r) \in Seq(Records)
  BY <1>1 DEF TypeOK
<1> QED
  BY <1>2 DEF TypeOK, AddRecord

LEMMA NamedKept ==
  ASSUME Types, UNCHANGED job,
         \A q \in Probers :
           /\ pc'[q] = "write" => pc[q] = "write" /\ at'[q] = at[q] /\ pos'[q] = pos[q]
           /\ pc'[q] = "idle" => pc[q] = "idle" /\ at'[q] = at[q]
  PROVE  Named'
BY DEF Types, Named, Fixtures, Plan

LEMMA RecordTypes ==
  ASSUME Types, NEW p \in Probers, NEW from, NEW reason, pc[p] \in Active,
         reason \in Reasons, Record(p, from, reason) \/ RecordGone(p, from, reason),
         faults' \in Nat
  PROVE  Types'
<1>1. records' \in [Probers -> Seq(Records)]
  <2>1. AddRecord(p, reason, seen[p], lost[p]) \/ AddRecord(p, reason, seen[p], TRUE)
    BY DEF Record, RecordGone
  <2>2. TypeOK /\ seen[p] \in SUBSET Probers /\ lost[p] \in BOOLEAN
    BY DEF Types, TypeOK
  <2> QED
    BY <2>1, <2>2, AddRecordTypes
<1>2. pc' = [pc EXCEPT ![p] = "entries"]
  BY DEF Record, RecordGone, Step
<1>3. Named'
  BY <1>2, NamedKept DEF Record, RecordGone, Types, TypeOK
<1>4. lost' \in [Probers -> BOOLEAN]
  BY DEF Types, TypeOK, Record, RecordGone, own
<1> QED
  BY <1>1, <1>2, <1>3, <1>4
     DEF Types, TypeOK, Record, RecordGone, Active, InWorkdir, world, own

LEMMA OwnersTypes ==
  ASSUME TypeOK, NEW p \in Probers, pc[p] \in Active, NEW fs
  PROVE  Owners(p, fs) \in SUBSET Probers
BY PlanTypes DEF TypeOK, Owners, Mine

LEMMA RecordReadTypes ==
  ASSUME Types, NEW p \in Probers, NEW from, NEW reason \in Reasons, NEW read,
         pc[p] \in Active, RecordRead(p, from, reason, read), faults' \in Nat
  PROVE  Types'
<1>1. /\ seen' = [seen EXCEPT ![p] = @ \cup Owners(p, read)]
      /\ lost' = [lost EXCEPT ![p] = @ \/ Missing(p, read) # {}]
      /\ Owners(p, read) \in SUBSET Probers
  BY OwnersTypes DEF RecordRead, Types
<1>2. seen' \in [Probers -> SUBSET Probers] /\ lost' \in [Probers -> BOOLEAN]
  BY <1>1 DEF Types, TypeOK
<1>3. records' \in [Probers -> Seq(Records)]
  BY <1>2, AddRecordTypes DEF RecordRead, Types
<1>4. pc' = [pc EXCEPT ![p] = "entries"]
  BY DEF RecordRead, Step
<1>5. Named'
  BY <1>4, NamedKept DEF RecordRead, Types, TypeOK
<1> QED
  BY <1>2, <1>3, <1>4, <1>5 DEF Types, TypeOK, RecordRead, Active, InWorkdir, world

LEMMA ContinueTypes ==
  ASSUME Types, NEW p \in Probers, pc[p] \in Active, Continue(p),
         UNCHANGED <<job, pos>>
  PROVE  /\ pc' \in [Probers -> Active \cup {"idle", "done", "orphan", "dead"}]
         /\ at' \in [Probers -> Nat \ {0}]
         /\ \A q \in Probers : pc'[q] \in Active \cup {"orphan"} => at'[q] \in DOMAIN job'[q]
         /\ Named'
<1>1. at[p] \in Nat \ {0} /\ at[p] <= Len(job[p]) /\ job[p] \in Seq(Plans)
  BY PlanTypes, ProbeAssumption DEF Types, TypeOK
<1>2. at[p] < Len(job[p]) => at[p] + 1 \in DOMAIN job[p]
  <2>1. DOMAIN job[p] = 1..Len(job[p]) /\ Len(job[p]) \in Nat
    BY <1>1
  <2> QED
    BY <1>1, <2>1
<1>3. at' \in [Probers -> Nat \ {0}]
  BY <1>1 DEF Types, TypeOK, Continue
<1>4. pc' \in [Probers -> Active \cup {"idle", "done", "orphan", "dead"}]
  BY DEF Types, TypeOK, Continue, Active, InWorkdir
<1>5. ASSUME NEW q \in Probers
      PROVE  /\ pc'[q] \in Active \cup {"orphan"} => at'[q] \in DOMAIN job'[q]
             /\ pc'[q] = "write" =>
                  pos'[q] \in DOMAIN Fixtures(q)' /\ Fixtures(q)'[pos'[q]] \in Files
             /\ pc'[q] = "idle" => at'[q] = 1
  <2>1. CASE q = p
    BY <2>1, <1>1, <1>2 DEF Types, TypeOK, Continue, Active, InWorkdir
  <2>2. CASE q # p
    BY <2>2 DEF Types, TypeOK, Named, Continue, Fixtures, Plan
  <2> QED
    BY <2>1, <2>2
<1> QED
  BY <1>3, <1>4, <1>5 DEF Named

LEMMA FaultTypes == ASSUME TypeOK, Fault PROVE faults' \in Nat
BY DEF TypeOK, Fault

LEMMA WriteTypes ==
  ASSUME TypeOK, NEW p \in Probers, at[p] \in Candidates, NEW f \in Files, Write(p, f)
  PROVE  /\ files' \in [Candidates -> [Files -> Probers \cup {NoOne}]]
         /\ wrote' \in [Probers -> SUBSET Files]
<1>1. [files[at[p]] EXCEPT ![f] = p] \in [Files -> Probers \cup {NoOne}]
  BY DEF TypeOK
<1> QED
  BY <1>1 DEF TypeOK, Write

LEMMA InitTypes == Init => Types
<1> SUFFICES ASSUME Init PROVE Types
  OBVIOUS
<1>1. pos \in [Probers -> Nat \ {0}] /\ at \in [Probers -> Nat \ {0}]
  BY DEF Init
<1> QED
  BY <1>1 DEF Init, Types, TypeOK, Named, Empty, Active, InWorkdir

\* Every step keeps the types.
LEMMA NextTypes == Types /\ [Next]_vars => Types'
<1> SUFFICES ASSUME Types, [Next]_vars PROVE Types'
  OBVIOUS
<1> USE DEF Types, TypeOK, Active, InWorkdir, Reasons
<1>1. CASE UNCHANGED vars
  BY <1>1 DEF vars, world, own, Named, Fixtures, Plan
<1>2. ASSUME NEW p \in Probers, Start(p) PROVE Types'
  <2>1. job[p] # <<>> => at[p] \in DOMAIN job[p]
    BY <1>2, ProbeAssumption DEF Start, Step, Named
  <2> QED
    BY <1>2, <2>1 DEF Start, Step, Named, Fixtures, Plan, world, own
<1>3. ASSUME NEW p \in Probers, Prepare(p) PROVE Types'
  BY <1>3, PlanTypes DEF Prepare, Step, Named, Fixtures, Plan, world, own, In
<1>4. ASSUME NEW p \in Probers, PrepareFails(p) PROVE Types'
  <2> DEFINE r == [index |-> at[p], reason |-> "probe_materialize_failed", seen |-> {},
                   lost |-> FALSE, met |-> {}, left |-> left[at[p]]]
  <2>1. r \in Records
    BY <1>4, PlanTypes DEF PrepareFails, Records
  <2>2. records' \in [Probers -> Seq(Records)]
    <3>1. Append(records[p], r) \in Seq(Records)
      BY <2>1
    <3> QED
      BY <1>4, <3>1 DEF PrepareFails
  <2> QED
    BY <1>4, <2>2, ContinueTypes DEF PrepareFails, Fault, world, own
<1>5. ASSUME NEW p \in Probers, FixtureDir(p) PROVE Types'
  <2>1. /\ Fixtures(p) \in Seq(Files \cup {BadName}) /\ at[p] \in Candidates
        /\ pos[p] \in DOMAIN Fixtures(p)
    BY <1>5, PlanTypes DEF FixtureDir, Step, Written
  <2> QED
    BY <1>5, <2>1 DEF FixtureDir, Step, Named, Fixtures, Plan, world, own
<1>6. ASSUME NEW p \in Probers, WriteFixture(p) PROVE Types'
  BY <1>6, PlanTypes DEF WriteFixture, Write, Step, Named, Fixtures, Plan, world, own
<1>7. ASSUME NEW p \in Probers, MaterializeFails(p) PROVE Types'
  <2>1. CASE Record(p, "fixtures", "probe_materialize_failed") /\ UNCHANGED faults
    BY <2>1, RecordTypes DEF Record, Step
  <2>2. CASE RecordGone(p, "write", "probe_materialize_failed") /\ UNCHANGED faults
    BY <2>2, RecordTypes DEF RecordGone, Step
  <2>3. CASE Record(p, "write", "probe_materialize_failed") /\ Fault
    BY <2>3, RecordTypes, FaultTypes DEF Record, Step
  <2> QED
    BY <1>7, <2>1, <2>2, <2>3 DEF MaterializeFails
<1>8. ASSUME NEW p \in Probers, Settle(p) PROVE Types'
  <2> DEFINE reason == IF ~Valid(Plan(p)) THEN "verification_plan_invalid"
                       ELSE IF Plan(p).level = 0 THEN "verification_level_l0"
                       ELSE "contract_evidence_recorded"
  <2>1. reason \in Reasons
    OBVIOUS
  <2>2. Record(p, "fixtures", reason) /\ UNCHANGED faults
    BY <1>8 DEF Settle
  <2> HIDE DEF reason
  <2> QED
    BY <2>1, <2>2, RecordTypes DEF Record, Step
<1>9. ASSUME NEW p \in Probers, BeginExecute(p) \/ Kill(p) PROVE Types'
  <2>1. Named'
    BY <1>9, NamedKept DEF BeginExecute, Kill, Step
  <2> QED
    BY <1>9, <2>1 DEF BeginExecute, Kill, Step, world, own
<1>10. ASSUME NEW p \in Probers, ExecuteRefused(p) PROVE Types'
  BY <1>10, RecordTypes DEF ExecuteRefused, ExecutionReasons, Record, Step
<1>11. ASSUME NEW p \in Probers, Execute(p) PROVE Types'
  <2>1. Owners(p, Given(p)) \in SUBSET Probers
    BY <1>11, OwnersTypes DEF Execute, Step
  <2> QED
    <3>1. Named'
      BY <1>11, NamedKept DEF Execute, Step
    <3>2. held' \in [Probers -> BOOLEAN] /\ lost' \in [Probers -> BOOLEAN]
      BY <1>11 DEF Execute
    <3>3. /\ seen' \in [Probers -> SUBSET Probers] /\ pos' \in [Probers -> Nat \ {0}]
          /\ pc' \in [Probers -> Active \cup {"idle", "done", "orphan", "dead"}]
      BY <1>11, <2>1 DEF Execute, Step
    <3> QED
      BY <1>11, <3>1, <3>2, <3>3 DEF Execute, Step, world
<1>12. ASSUME NEW p \in Probers, Exit(p) PROVE Types'
  <2>1. /\ files' \in [Candidates -> [Files -> Probers \cup {NoOne}]]
        /\ wrote' \in [Probers -> SUBSET Files]
    <3>1. at[p] \in Candidates /\ Plan(p).output \in Files \cup {NoFile}
      BY <1>12, PlanTypes DEF Exit, Step
    <3>2. CASE UNCHANGED <<files, wrote>>
      BY <3>2
    <3>3. CASE Plan(p).output # NoFile /\ Write(p, Plan(p).output)
      BY <3>1, <3>3, WriteTypes
    <3> QED
      BY <1>12, <3>2, <3>3 DEF Exit
  <2>2. pc' \in [Probers -> Active \cup {"idle", "done", "orphan", "dead"}]
    BY <1>12 DEF Exit, Step
  <2>3. lost' \in [Probers -> BOOLEAN]
    BY <1>12 DEF Exit
  <2> QED
    <3>1. Named'
      BY <1>12, NamedKept DEF Exit, Step
    <3> QED
      BY <1>12, <2>1, <2>2, <2>3, <3>1 DEF Exit, Step
<1>13. ASSUME NEW p \in Probers, ChildExits(p) \/ Cancel(p) PROVE Types'
  BY <1>13 DEF ChildExits, Cancel, Named, Fixtures, Plan, world, own
<1>14. ASSUME NEW p \in Probers, Reap(p) PROVE Types'
  BY <1>14, RecordTypes DEF Reap, Record, Step
<1>15. ASSUME NEW p \in Probers, Capture(p) PROVE Types'
  <2>1. Named'
    BY <1>15, NamedKept DEF Capture, Step
  <2>2. /\ files' \in [Candidates -> [Files -> Probers \cup {NoOne}]]
        /\ wrote' \in [Probers -> SUBSET Files]
    <3>1. at[p] \in Candidates /\ Plan(p).stdout \in Files \cup {NoFile}
      BY <1>15, PlanTypes DEF Capture, Step
    <3>2. CASE UNCHANGED <<files, wrote>>
      BY <3>2
    <3>3. CASE Plan(p).stdout # NoFile /\ Write(p, Plan(p).stdout)
      BY <3>1, <3>3, WriteTypes
    <3> QED
      BY <1>15, <3>2, <3>3 DEF Capture
  <2> QED
    BY <1>15, <2>1, <2>2 DEF Capture, Step
<1>16. ASSUME NEW p \in Probers, CaptureFails(p) PROVE Types'
  BY <1>16, RecordTypes, FaultTypes DEF CaptureFails, ExecutionReasons
<1>17. ASSUME NEW p \in Probers, ExitTooLate(p) PROVE Types'
  BY <1>17, RecordTypes DEF ExitTooLate, Record, Step
<1>18. ASSUME NEW p \in Probers, CheckHolds(p) PROVE Types'
  <2>1. Owners(p, {Subject(p)}) \in SUBSET Probers
    BY <1>18, OwnersTypes DEF CheckHolds
  <2> QED
    <3>1. Named'
      BY <1>18, NamedKept DEF CheckHolds
    <3>2. seen' = [seen EXCEPT ![p] = @ \cup Owners(p, {Subject(p)})]
      BY <1>18 DEF CheckHolds
    <3>3. seen' \in [Probers -> SUBSET Probers]
      BY <2>1, <3>2
    <3>4. pos' = [pos EXCEPT ![p] = @ + 1]
      BY <1>18 DEF CheckHolds
    <3>5. pos' \in [Probers -> Nat \ {0}]
      BY <3>4
    <3> QED
      BY <1>18, <3>1, <3>3, <3>5 DEF CheckHolds, world
<1>19. ASSUME NEW p \in Probers, CheckFails(p) PROVE Types'
  BY <1>19, RecordTypes, RecordReadTypes DEF CheckFails
<1>20. ASSUME NEW p \in Probers, Pass(p) PROVE Types'
  BY <1>20, RecordTypes DEF Pass, Record, Step
<1>21. ASSUME NEW p \in Probers, RemoveEntries(p) PROVE Types'
  BY <1>21, PlanTypes DEF RemoveEntries, Empty, Step, Named, Fixtures, Plan, world, own
<1>22. ASSUME NEW p \in Probers, RemoveDir(p) PROVE Types'
  BY <1>22, ContinueTypes DEF RemoveDir, world, own
<1>23. ASSUME NEW p \in Probers, RemoveFails(p) PROVE Types'
  <2>1. left' \in [Candidates -> SUBSET Probers]
    BY <1>23, PlanTypes DEF RemoveFails
  <2> QED
    BY <1>23, <2>1, ContinueTypes, FaultTypes DEF RemoveFails, world, own
<1>24. CASE Crash
  <2>1. Named'
    BY <1>24, NamedKept DEF Crash
  <2> QED
    BY <1>24, <2>1, FaultTypes DEF Crash, In, world, own
<1> QED
  BY <1>1, <1>2, <1>3, <1>4, <1>5, <1>6, <1>7, <1>8, <1>9, <1>10, <1>11, <1>12, <1>13,
     <1>14, <1>15, <1>16, <1>17, <1>18, <1>19, <1>20, <1>21, <1>22, <1>23, <1>24
     DEF Next, ProbeStep

\* Every variable of Probe keeps its type.
THEOREM TypeCorrect == Spec => []TypeOK
<1>1. Types => TypeOK
  BY DEF Types
<1> QED
  BY <1>1, InitTypes, NextTypes, PTL DEF Spec

----------------------------------------------------------------------------
(* What a step does to the workdirs *)

Working == InWorkdir \ {"entries", "rmdir"}

\* Something of its own is not there.
Gone(p) == at[p] \notin dirs \/ \E f \in wrote[p] : Mine(p)[f] = NoOne

\* Nobody enters or leaves, and what a probe learns it learns from its workdir.
Stay ==
  /\ UNCHANGED <<at, left, met>>
  /\ \A p \in Probers :
       /\ pc'[p] \in InWorkdir <=> pc[p] \in InWorkdir
       /\ pc'[p] \in Working => pc[p] \in Working
       /\ pc'[p] = "orphan" => pc[p] = "orphan"
       /\ seen'[p] = seen[p] \/ (pc[p] \in Working /\
            \A o \in seen'[p] \ seen[p] : o # NoOne /\ \E f \in Files : Mine(p)[f] = o)
       /\ lost'[p] => lost[p] \/ pc[p] \notin Working \/ Gone(p)

\* A record is made from what the probe has seen.
Recorded ==
  \/ UNCHANGED records
  \/ \E p \in Probers, reason \in Reasons, gone \in BOOLEAN :
       /\ pc[p] \in Working
       /\ gone => lost[p] \/ Gone(p)
       /\ AddRecord(p, reason, seen'[p], gone)

Quiet ==
  /\ Stay /\ Recorded /\ UNCHANGED <<dirs, files, wrote>>
  /\ \A p \in Probers : pc'[p] = "rmdir" => pc[p] = "rmdir"

Puts(p) ==
  /\ Stay /\ UNCHANGED <<dirs, records>> /\ at[p] \in dirs
  /\ pc[p] \in Working \cup {"orphan"}
  /\ \A q \in Probers : pc'[q] = "rmdir" => pc[q] = "rmdir"
  /\ \E f \in Files : Write(p, f)

LEMMA QuietUnless ==
  ASSUME Types, NEW p \in Probers, UNCHANGED <<dirs, files, wrote, at, left, met, records>>,
         NEW to, pc' = [pc EXCEPT ![p] = to],
         pc[p] \in Working => to \in Working \cup {"entries"},
         pc[p] \notin InWorkdir => to \notin InWorkdir \cup {"orphan"},
         pc[p] \notin {"entries", "rmdir"},
         seen' = seen \/ (pc[p] \in Working /\ \E fs :
            seen' = [seen EXCEPT ![p] = @ \cup Owners(p, fs)]),
         lost' = lost \/ \E fs, b : lost' = [lost EXCEPT ![p] = @ \/ b] /\ (b => Gone(p))
  PROVE  Quiet
<1>1. \A q \in Probers : pc'[q] = IF q = p THEN to ELSE pc[q]
  BY DEF Types, TypeOK
<1>2. \A q \in Probers : lost'[q] => lost[q] \/ Gone(q)
  BY DEF Types, TypeOK
<1>3. ASSUME NEW q \in Probers, seen'[q] # seen[q]
      PROVE  pc[q] \in Working /\ \A o \in seen'[q] \ seen[q] :
               o # NoOne /\ \E f \in Files : Mine(q)[f] = o
  <2>1. PICK fs : pc[p] \in Working /\ seen' = [seen EXCEPT ![p] = @ \cup Owners(p, fs)]
    BY <1>3
  <2>2. q = p /\ seen'[p] = seen[p] \cup Owners(p, fs)
    BY <1>3, <2>1 DEF Types, TypeOK
  <2> QED
    BY <2>1, <2>2 DEF Owners
<1> QED
  BY <1>1, <1>2, <1>3 DEF Quiet, Stay, Recorded, Working, InWorkdir

LEMMA RecordQuiet ==
  ASSUME Types, NEW p \in Probers, NEW from, from \in Working, NEW reason \in Reasons,
         \/ Record(p, from, reason)
         \/ RecordGone(p, from, reason) /\ Gone(p)
  PROVE  Quiet
<1>1. /\ pc[p] \in Working /\ \A q \in Probers : pc'[q] = IF q = p THEN "entries" ELSE pc[q]
  BY DEF Types, TypeOK, Record, RecordGone, Step
<1>2. Recorded
  <2>1. lost[p] \in BOOLEAN /\ TRUE \in BOOLEAN /\ seen'[p] = seen[p]
    BY DEF Types, TypeOK, Record, RecordGone, own
  <2>2. CASE Record(p, from, reason)
    BY <1>1, <2>1, <2>2 DEF Recorded, Record
  <2>3. CASE RecordGone(p, from, reason) /\ Gone(p)
    BY <1>1, <2>1, <2>3 DEF Recorded, RecordGone
  <2> QED
    BY <2>2, <2>3
<1>3. \A q \in Probers : lost'[q] => lost[q] \/ Gone(q)
  BY DEF Types, TypeOK, Record, RecordGone, own
<1> QED
  BY <1>1, <1>2, <1>3
     DEF Quiet, Stay, Record, RecordGone, Working, InWorkdir, world, own

LEMMA MissingGone ==
  ASSUME NEW p \in Probers, NEW fs, Missing(p, fs) # {} PROVE Gone(p)
BY DEF Missing, Gone

LEMMA ReadQuiet ==
  ASSUME Types, NEW p \in Probers, NEW from \in Working, NEW reason \in Reasons, NEW read,
         RecordRead(p, from, reason, read)
  PROVE  Quiet
<1>1. pc[p] \in Working /\ \A q \in Probers : pc'[q] = IF q = p THEN "entries" ELSE pc[q]
  BY DEF Types, TypeOK, RecordRead, Step
<1>2. \A q \in Probers : lost'[q] => lost[q] \/ (q = p /\ Gone(p))
  BY MissingGone DEF Types, TypeOK, RecordRead
<1>3. \A q \in Probers :
        seen'[q] = IF q = p THEN seen[p] \cup Owners(p, read) ELSE seen[q]
  BY DEF Types, TypeOK, RecordRead
<1>4. \A o \in Owners(p, read) : o # NoOne /\ \E f \in Files : Mine(p)[f] = o
  BY DEF Owners
<1>5. lost'[p] \in BOOLEAN
  BY DEF Types, TypeOK, RecordRead
<1>6. Recorded
  BY <1>1, <1>2, <1>5 DEF Recorded, RecordRead
<1>7. Stay
  BY <1>1, <1>2, <1>3, <1>4 DEF Stay, RecordRead, Working, InWorkdir
<1> QED
  BY <1>1, <1>6, <1>7 DEF Quiet, RecordRead, Working, InWorkdir, world

\* Every step is one of these, for all that the invariants below ask.
LEMMA Kinds ==
  ASSUME Types, [Next]_vars
  PROVE  \/ Quiet \/ Crash
         \/ \E p \in Probers :
              \/ Prepare(p) \/ PrepareFails(p) \/ FixtureDir(p) \/ Puts(p)
              \/ RemoveEntries(p) \/ RemoveDir(p) \/ RemoveFails(p)
<1> USE DEF Working, InWorkdir
<1>1. CASE UNCHANGED vars
  BY <1>1 DEF vars, world, own, Quiet, Stay, Recorded
<1>2. ASSUME NEW p \in Probers, Start(p) PROVE Quiet
  <2>1. pc[p] = "idle" /\ \E to \in {"done", "prepare"} : pc' = [pc EXCEPT ![p] = to]
    BY <1>2 DEF Start, Step
  <2> QED
    BY <1>2, <2>1, QuietUnless DEF Start, world, own
<1>3. ASSUME NEW p \in Probers, WriteFixture(p) PROVE Puts(p)
  <2>1. Fixtures(p)[pos[p]] \in Files
    BY <1>3 DEF WriteFixture, Step, Types, Named
  <2>2. \A q \in Probers : pc'[q] = IF q = p THEN "fixtures" ELSE pc[q]
    BY <1>3 DEF WriteFixture, Step, Types, TypeOK
  <2> QED
    BY <1>3, <2>1, <2>2 DEF WriteFixture, Step, Puts, Stay
<1>4. ASSUME NEW p \in Probers, MaterializeFails(p) PROVE Quiet
  BY <1>4, RecordQuiet DEF MaterializeFails, Gone, Reasons
<1>5. ASSUME NEW p \in Probers, Settle(p) PROVE Quiet
  <2>1. \E reason \in Reasons : Record(p, "fixtures", reason)
    BY <1>5 DEF Settle, Reasons
  <2> QED
    BY <2>1, RecordQuiet
<1>6. ASSUME NEW p \in Probers, BeginExecute(p) \/ Kill(p) PROVE Quiet
  <2>1. /\ pc[p] \in Working \ {"entries"}
        /\ \E to \in {"execute", "killed"} : pc' = [pc EXCEPT ![p] = to]
    BY <1>6 DEF BeginExecute, Kill, Step
  <2> QED
    BY <1>6, <2>1, QuietUnless DEF BeginExecute, Kill, world, own
<1>7. ASSUME NEW p \in Probers, ExecuteRefused(p) PROVE Quiet
  BY <1>7, RecordQuiet DEF ExecuteRefused, ExecutionReasons, Reasons
<1>8. ASSUME NEW p \in Probers, Execute(p) PROVE Quiet
  <2>1. /\ pc[p] = "execute"
        /\ \E to \in {"running", "exited"} : pc' = [pc EXCEPT ![p] = to]
    BY <1>8 DEF Execute, Step
  <2>2. \E b : lost' = [lost EXCEPT ![p] = @ \/ b] /\ (b => Gone(p))
    BY <1>8, MissingGone DEF Execute
  <2>3. seen' = [seen EXCEPT ![p] = @ \cup Owners(p, Given(p))]
    BY <1>8 DEF Execute
  <2>4. UNCHANGED <<dirs, files, wrote, at, left, met, records>>
    BY <1>8 DEF Execute, world
  <2> QED
    BY <2>1, <2>2, <2>3, <2>4, QuietUnless
<1>9. ASSUME NEW p \in Probers, Exit(p) PROVE Quiet \/ Puts(p)
  <2>1. \/ pc[p] = "running" /\ pc' = [pc EXCEPT ![p] = "exited"]
        \/ pc[p] = "orphan" /\ pc' = [pc EXCEPT ![p] = "dead"]
    BY <1>9 DEF Exit, Step
  <2>2. Plan(p).output \in Files \cup {NoFile}
    BY <2>1, PlanTypes DEF Types, Active
  <2>3. \E b : lost' = [lost EXCEPT ![p] = @ \/ b] /\ (b => Gone(p))
    BY <1>9 DEF Exit, Gone
  <2>4. UNCHANGED <<dirs, seen, at, left, met, records>>
    BY <1>9 DEF Exit
  <2>5. CASE UNCHANGED <<files, wrote>>
    BY <2>1, <2>3, <2>4, <2>5, QuietUnless
  <2>6. CASE Plan(p).output # NoFile /\ at[p] \in dirs /\ Write(p, Plan(p).output)
    <3>1. \A q \in Probers : pc'[q] = IF q = p THEN pc'[p] ELSE pc[q]
      BY <2>1 DEF Types, TypeOK
    <3>2. pc'[p] \in {"exited", "dead"} /\ (pc'[p] = "exited" <=> pc[p] = "running")
      BY <2>1 DEF Types, TypeOK
    <3>3. \A q \in Probers : lost'[q] => lost[q] \/ Gone(q)
      BY <2>3 DEF Types, TypeOK
    <3> QED
      BY <2>1, <2>2, <2>4, <2>6, <3>1, <3>2, <3>3 DEF Puts, Stay
  <2> QED
    BY <1>9, <2>5, <2>6 DEF Exit
<1>10. ASSUME NEW p \in Probers, ChildExits(p) \/ Cancel(p) PROVE Quiet
  BY <1>10 DEF ChildExits, Cancel, Quiet, Stay, Recorded, world, own
<1>11. ASSUME NEW p \in Probers, Reap(p) PROVE Quiet
  BY <1>11, RecordQuiet DEF Reap, Reasons
<1>12. ASSUME NEW p \in Probers, Capture(p) PROVE Quiet \/ Puts(p)
  <2>1. pc[p] = "exited" /\ pc' = [pc EXCEPT ![p] = "check"]
    BY <1>12 DEF Capture, Step
  <2>2. Plan(p).stdout \in Files \cup {NoFile}
    BY <2>1, PlanTypes DEF Types, Active
  <2>3. UNCHANGED <<dirs, seen, lost, at, left, met, records>>
    BY <1>12 DEF Capture
  <2>4. CASE UNCHANGED <<files, wrote>>
    BY <2>1, <2>3, <2>4, QuietUnless
  <2>5. CASE Plan(p).stdout # NoFile /\ at[p] \in dirs /\ Write(p, Plan(p).stdout)
    <3>1. \A q \in Probers : pc'[q] = IF q = p THEN "check" ELSE pc[q]
      BY <2>1 DEF Types, TypeOK
    <3> QED
      BY <2>1, <2>2, <2>3, <2>5, <3>1 DEF Puts, Stay
  <2> QED
    BY <1>12, <2>4, <2>5 DEF Capture
<1>13. ASSUME NEW p \in Probers, CaptureFails(p) PROVE Quiet
  BY <1>13, RecordQuiet DEF CaptureFails, ExecutionReasons, Gone, Reasons
<1>14. ASSUME NEW p \in Probers, ExitTooLate(p) PROVE Quiet
  BY <1>14, RecordQuiet DEF ExitTooLate, Reasons
<1>15. ASSUME NEW p \in Probers, CheckHolds(p) PROVE Quiet
  <2>1. pc[p] = "check" /\ pc' = [pc EXCEPT ![p] = "check"]
    BY <1>15 DEF CheckHolds, Types, TypeOK
  <2>2. seen' = [seen EXCEPT ![p] = @ \cup Owners(p, {Subject(p)})]
    BY <1>15 DEF CheckHolds
  <2>3. UNCHANGED <<dirs, files, wrote, at, left, met, records, lost>>
    BY <1>15 DEF CheckHolds, world
  <2> QED
    BY <2>1, <2>2, <2>3, QuietUnless
<1>16. ASSUME NEW p \in Probers, CheckFails(p) PROVE Quiet
  BY <1>16, RecordQuiet, ReadQuiet DEF CheckFails, Reasons
<1>17. ASSUME NEW p \in Probers, Pass(p) PROVE Quiet
  BY <1>17, RecordQuiet DEF Pass, Reasons
<1> QED
  BY <1>1, <1>2, <1>3, <1>4, <1>5, <1>6, <1>7, <1>8, <1>9, <1>10, <1>11, <1>12, <1>13,
     <1>14, <1>15, <1>16, <1>17 DEF Next, ProbeStep

----------------------------------------------------------------------------
(* The inductive invariant *)

\* A file belongs to one that is in the workdir or was left there.
Owned ==
  \A i \in Candidates : \A f \in Files : files[i][f] # NoOne =>
    i \in dirs /\ files[i][f] \in In(i) \cup left[i]
Orphaned == \A p \in Probers : pc[p] = "orphan" => p \in left[at[p]]
\* Who removes the directory has removed its own files.
Cleared == \A p \in Probers : pc[p] = "rmdir" => \A f \in Files : Mine(p)[f] # p
\* Two in one workdir have met.
Acquainted ==
  \A p, q \in Probers :
    p # q /\ pc[p] \in InWorkdir /\ pc[q] \in InWorkdir /\ at[p] = at[q] => q \in met[p]
SeenKnown ==
  \A p \in Probers : pc[p] \in Working => seen[p] \subseteq {p} \cup met[p] \cup left[at[p]]
AloneKeeps ==
  \A p \in Probers : pc[p] \in Working /\ met[p] = {} => ~Gone(p) /\ ~lost[p]

Workdirs == Owned /\ Orphaned /\ Cleared /\ WorkdirsGone
Sharing == Acquainted /\ SeenKnown /\ AloneKeeps
Verdicts == ForeignOnlyByOverlap /\ LossOnlyByOverlap
IInv == Types /\ Workdirs /\ Sharing /\ Verdicts

\* Where one works, its candidate is one.
LEMMA Places ==
  ASSUME Types, NEW p \in Probers, pc[p] \in InWorkdir \cup {"prepare", "orphan"}
  PROVE  at[p] \in Candidates
BY PlanTypes DEF Types, Active

\* What was read comes from the workdir's people, whom one has met.
LEMMA ReadKnown ==
  ASSUME IInv, Stay, NEW p \in Probers, pc[p] \in Working
  PROVE  seen'[p] \subseteq {p} \cup met[p] \cup left[at[p]]
<1>1. at[p] \in Candidates
  BY Places DEF IInv, Working
<1>2. ASSUME NEW o \in seen'[p] \ seen[p] PROVE o \in {p} \cup met[p] \cup left[at[p]]
  <2>1. o # NoOne /\ \E f \in Files : files[at[p]][f] = o
    BY <1>2 DEF Stay, Mine
  <2>2. o \in In(at[p]) \cup left[at[p]]
    BY <1>1, <2>1 DEF IInv, Workdirs, Owned
  <2> QED
    BY <2>2 DEF In, IInv, Sharing, Acquainted, Working
<1> QED
  BY <1>2 DEF IInv, Sharing, SeenKnown

LEMMA Appended ==
  ASSUME NEW s \in Seq(Records), NEW e, NEW n \in DOMAIN Append(s, e)
  PROVE  \/ n \in DOMAIN s /\ Append(s, e)[n] = s[n]
         \/ n = Len(s) + 1 /\ Append(s, e)[n] = e
<1>1. DOMAIN s = 1..Len(s) /\ Len(s) \in Nat /\ DOMAIN Append(s, e) = 1..(Len(s) + 1)
  OBVIOUS
<1> QED
  BY <1>1

LEMMA SameVerdicts == ASSUME IInv, UNCHANGED records PROVE Verdicts'
BY DEF IInv, Verdicts, ForeignOnlyByOverlap, LossOnlyByOverlap

LEMMA RecordedVerdicts ==
  ASSUME IInv, Stay, Recorded PROVE Verdicts'
<1>1. CASE UNCHANGED records
  BY <1>1, SameVerdicts
<1>2. ASSUME NEW p \in Probers, NEW reason \in Reasons, NEW gone \in BOOLEAN,
             pc[p] \in Working, gone => lost[p] \/ Gone(p),
             AddRecord(p, reason, seen'[p], gone)
      PROVE  Verdicts'
  <2> DEFINE r == [index |-> at[p], reason |-> reason, seen |-> seen'[p], lost |-> gone,
                   met |-> met[p], left |-> left[at[p]]]
  <2>1. r.seen \subseteq {p} \cup r.met \cup r.left /\ (r.lost => r.met # {})
    BY <1>2, ReadKnown DEF IInv, Sharing, AloneKeeps
  <2>2. records' = [records EXCEPT ![p] = Append(@, r)]
    BY <1>2 DEF AddRecord
  <2>3. records \in [Probers -> Seq(Records)]
    BY DEF IInv, Types, TypeOK
  <2> HIDE DEF r
  <2>4. ASSUME NEW q \in Probers, NEW n \in DOMAIN records'[q]
        PROVE  \/ records'[q][n] = r /\ q = p
               \/ n \in DOMAIN records[q] /\ records'[q][n] = records[q][n]
    <3>1. CASE q = p
      <4>1. records'[q] = Append(records[q], r) /\ records[q] \in Seq(Records)
        BY <2>2, <2>3, <3>1
      <4>2. n \in DOMAIN Append(records[q], r)
        BY <4>1
      <4> QED
        BY <3>1, <4>1, <4>2, Appended
    <3>2. CASE q # p
      BY <2>2, <2>3, <3>2
    <3> QED
      BY <3>1, <3>2
  <2> QED
    BY <2>1, <2>4 DEF IInv, Verdicts, ForeignOnlyByOverlap, LossOnlyByOverlap
<1> QED
  BY <1>1, <1>2 DEF Recorded

LEMMA StayIn == ASSUME Stay, NEW i PROVE In(i)' = In(i)
BY DEF Stay, In

LEMMA StaySharing ==
  ASSUME IInv, Stay, \A p \in Probers : pc[p] \in Working /\ ~Gone(p) => ~Gone(p)'
  PROVE  Sharing'
<1>1. Acquainted'
  BY DEF IInv, Sharing, Acquainted, Stay
<1>2. SeenKnown'
  BY ReadKnown DEF SeenKnown, Stay
<1>3. AloneKeeps'
  BY DEF IInv, Sharing, AloneKeeps, Stay
<1> QED
  BY <1>1, <1>2, <1>3 DEF Sharing

LEMMA QuietKeeps == ASSUME IInv, Types', Quiet PROVE IInv'
<1>1. Workdirs'
  BY StayIn DEF IInv, Workdirs, Owned, Orphaned, Cleared, WorkdirsGone, Quiet, Stay, Mine
<1>2. Sharing'
  BY StaySharing DEF Quiet, Stay, Gone, Mine
<1> QED
  BY <1>1, <1>2, RecordedVerdicts DEF IInv, Quiet

LEMMA PutsKeeps == ASSUME IInv, Types', NEW p \in Probers, Puts(p) PROVE IInv'
<1>1. PICK f \in Files : Write(p, f)
  BY DEF Puts
<1>2. at[p] \in Candidates
  BY Places DEF IInv, Puts, Working
<1>3. \A i \in Candidates : \A g \in Files :
        files'[i][g] = IF i = at[p] /\ g = f THEN p ELSE files[i][g]
  BY <1>1, <1>2 DEF Write, IInv, Types, TypeOK
<1>4. p \in In(at[p]) \cup left[at[p]]
  BY DEF Puts, In, IInv, Workdirs, Orphaned, Working
<1>5. Owned'
  BY <1>3, <1>4, StayIn DEF IInv, Workdirs, Owned, Puts, Stay
<1>6. Orphaned' /\ WorkdirsGone'
  BY StayIn DEF IInv, Workdirs, Orphaned, WorkdirsGone, Puts, Stay
<1>7. Cleared'
  <2> SUFFICES ASSUME NEW q \in Probers, pc'[q] = "rmdir", NEW g \in Files
               PROVE  files'[at[q]][g] # q
    BY DEF Cleared, Mine, Puts, Stay
  <2>1. pc[q] = "rmdir" /\ q # p /\ at[q] \in Candidates
    BY Places DEF Puts, Working, InWorkdir, IInv
  <2> QED
    BY <1>3, <2>1 DEF IInv, Workdirs, Cleared, Mine
<1>8. ASSUME NEW q \in Probers, pc[q] \in Working, ~Gone(q) PROVE ~Gone(q)'
  <2>1. at[q] \in Candidates /\ at'[q] = at[q] /\ dirs' = dirs
    BY <1>8, Places DEF IInv, Working, Puts, Stay
  <2>2. wrote'[q] \subseteq IF q = p THEN wrote[q] \cup {f} ELSE wrote[q]
    BY <1>1 DEF Write, IInv, Types, TypeOK
  <2>3. wrote'[q] \subseteq Files /\ p # NoOne
    BY ProbeAssumption DEF Types, TypeOK
  <2> QED
    BY <1>3, <1>8, <2>1, <2>2, <2>3 DEF Gone, Mine
<1>9. Sharing'
  BY <1>8, StaySharing DEF Puts
<1> QED
  BY <1>5, <1>6, <1>7, <1>9, SameVerdicts DEF IInv, Workdirs, Puts

LEMMA PrepareKeeps == ASSUME IInv, Types', NEW p \in Probers, Prepare(p) PROVE IInv'
<1>1. /\ \A q \in Probers : pc'[q] = IF q = p THEN "fixtures" ELSE pc[q]
      /\ pc[p] = "prepare" /\ at[p] \in Candidates
  BY Places DEF Prepare, Step, IInv, Types, TypeOK
<1>2. \A i : In(i)' = IF i = at[p] THEN In(i) \cup {p} ELSE In(i)
  BY <1>1 DEF In, Prepare, InWorkdir
<1>3. /\ met'[p] = In(at[p]) /\ \A q \in Probers : q # p => met[q] \subseteq met'[q]
      /\ \A q \in In(at[p]) : p \in met'[q]
  BY <1>1 DEF Prepare, In, InWorkdir
<1>4. /\ \A q \in Probers : q # p => wrote'[q] = wrote[q] /\ seen'[q] = seen[q] /\ lost'[q] = lost[q]
      /\ wrote'[p] = {} /\ seen'[p] = {} /\ ~lost'[p] /\ dirs' = dirs \cup {at[p]}
  BY DEF Prepare, IInv, Types, TypeOK
<1>5. UNCHANGED <<files, at, left, records>>
  BY DEF Prepare
<1>6. Workdirs'
  <2>1. Owned' /\ Orphaned'
    BY <1>1, <1>2, <1>4, <1>5 DEF IInv, Workdirs, Owned, Orphaned
  <2>2. Cleared'
    BY <1>1, <1>5 DEF IInv, Workdirs, Cleared, Mine
  <2>3. WorkdirsGone'
    BY <1>2, <1>4, <1>5 DEF IInv, Workdirs, WorkdirsGone
  <2> QED
    BY <2>1, <2>2, <2>3 DEF Workdirs
<1>7. Sharing'
  <2>1. Acquainted'
    BY <1>1, <1>3, <1>5 DEF IInv, Sharing, Acquainted, In
  <2>2. SeenKnown'
    BY <1>1, <1>3, <1>4, <1>5 DEF IInv, Sharing, SeenKnown, Working
  <2>3. AloneKeeps'
    <3> SUFFICES ASSUME NEW q \in Probers, pc'[q] \in Working, met'[q] = {}
                 PROVE  ~Gone(q)' /\ ~lost'[q]
      BY DEF AloneKeeps
    <3>1. CASE q = p
      BY <1>4, <1>5, <3>1 DEF Gone
    <3>2. CASE q # p
      BY <1>1, <1>3, <1>4, <1>5, <3>2 DEF Gone, Mine, IInv, Sharing, AloneKeeps
    <3> QED
      BY <3>1, <3>2
  <2> QED
    BY <2>1, <2>2, <2>3 DEF Sharing
<1> QED
  BY <1>5, <1>6, <1>7, SameVerdicts DEF IInv

\* One leaves for its next candidate, or never came in.
LEMMA ContinueSharing ==
  ASSUME IInv, NEW p \in Probers, Continue(p), UNCHANGED <<wrote, seen, lost, met>>,
         \A q \in Probers : q # p /\ pc[q] \in Working /\ met[q] = {} => ~Gone(q)',
         \A i \in Candidates : left[i] \subseteq left'[i]
  PROVE  /\ Sharing' /\ \A i : In(i)' = In(i) \ {p}
         /\ \A q \in Probers : q # p => pc'[q] = pc[q] /\ at'[q] = at[q]
         /\ pc'[p] \in {"prepare", "done"}
<1>1. /\ \A q \in Probers : q # p => pc'[q] = pc[q] /\ at'[q] = at[q]
      /\ pc'[p] \in {"prepare", "done"}
  BY DEF Continue, IInv, Types, TypeOK
<1>2. \A i : In(i)' = In(i) \ {p}
  BY <1>1 DEF In, InWorkdir
<1>3. Acquainted'
  BY <1>1 DEF IInv, Sharing, Acquainted, InWorkdir
<1>4. SeenKnown'
  BY <1>1, Places DEF IInv, Sharing, SeenKnown, Working, InWorkdir
<1>5. AloneKeeps'
  BY <1>1 DEF IInv, Sharing, AloneKeeps, Working, InWorkdir
<1> QED
  BY <1>1, <1>2, <1>3, <1>4, <1>5 DEF Sharing

LEMMA PrepareFailsKeeps ==
  ASSUME IInv, Types', NEW p \in Probers, PrepareFails(p) PROVE IInv'
<1>1. UNCHANGED <<dirs, files, wrote, seen, lost, met, left>> /\ Continue(p) /\ pc[p] = "prepare"
  BY DEF PrepareFails, world, own
<1>2. \A q \in Probers : q # p => at'[q] = at[q]
  BY <1>1 DEF Continue, IInv, Types, TypeOK
<1>3. \A q \in Probers : q # p /\ pc[q] \in Working /\ met[q] = {} => ~Gone(q)'
  BY <1>1, <1>2 DEF Gone, Mine, IInv, Sharing, AloneKeeps
<1>4. /\ Sharing' /\ \A i : In(i)' = In(i) \ {p}
      /\ \A q \in Probers : q # p => pc'[q] = pc[q] /\ at'[q] = at[q]
      /\ pc'[p] \in {"prepare", "done"}
  BY <1>1, <1>3, ContinueSharing
<1>5. \A i : In(i)' = In(i)
  BY <1>1, <1>4 DEF In, InWorkdir
<1>6. Workdirs'
  BY <1>1, <1>4, <1>5 DEF IInv, Workdirs, Owned, Orphaned, Cleared, WorkdirsGone, Mine
<1>7. Verdicts'
  <2> DEFINE r == [index |-> at[p], reason |-> "probe_materialize_failed", seen |-> {},
                   lost |-> FALSE, met |-> {}, left |-> left[at[p]]]
  <2>1. records' = [records EXCEPT ![p] = Append(@, r)] /\ r.seen = {} /\ ~r.lost
    BY DEF PrepareFails
  <2>2. records \in [Probers -> Seq(Records)]
    BY DEF IInv, Types, TypeOK
  <2> HIDE DEF r
  <2>3. ASSUME NEW q \in Probers, NEW n \in DOMAIN records'[q]
        PROVE  \/ records'[q][n] = r
               \/ n \in DOMAIN records[q] /\ records'[q][n] = records[q][n]
    <3>1. CASE q = p
      <4>1. records'[q] = Append(records[q], r) /\ records[q] \in Seq(Records)
        BY <2>1, <2>2, <3>1
      <4>2. n \in DOMAIN Append(records[q], r)
        BY <4>1
      <4> QED
        BY <4>1, <4>2, Appended
    <3>2. CASE q # p
      BY <2>1, <2>2, <3>2
    <3> QED
      BY <3>1, <3>2
  <2> QED
    BY <2>1, <2>3 DEF IInv, Verdicts, ForeignOnlyByOverlap, LossOnlyByOverlap
<1> QED
  BY <1>4, <1>6, <1>7 DEF IInv

LEMMA FixtureDirKeeps ==
  ASSUME IInv, Types', NEW p \in Probers, FixtureDir(p) PROVE IInv'
<1>1. /\ pc[p] = "fixtures" /\ \A q \in Probers : pc'[q] = IF q = p THEN "write" ELSE pc[q]
      /\ dirs' = dirs \cup {at[p]} /\ UNCHANGED <<files, at, met, wrote, seen, lost, left, records>>
  BY DEF FixtureDir, Step, own, IInv, Types, TypeOK
<1>2. \A i : In(i)' = In(i)
  BY <1>1 DEF In, InWorkdir
<1>3. Workdirs'
  <2>1. p \in In(at[p])
    BY <1>1 DEF In, InWorkdir
  <2> QED
    BY <1>1, <1>2, <2>1 DEF IInv, Workdirs, Owned, Orphaned, Cleared, WorkdirsGone, Mine
<1>4. Sharing'
  BY <1>1 DEF IInv, Sharing, Acquainted, SeenKnown, AloneKeeps, Gone, Mine, Working, InWorkdir
<1> QED
  BY <1>1, <1>3, <1>4, SameVerdicts DEF IInv

\* Whoever works in a workdir that another clears has met that other.
LEMMA OthersMet ==
  ASSUME IInv, NEW p \in Probers, pc[p] \in InWorkdir,
         NEW q \in Probers, q # p, pc[q] \in Working, met[q] = {}
  PROVE  at[q] # at[p]
BY DEF IInv, Sharing, Acquainted, Working

LEMMA RemoveEntriesKeeps ==
  ASSUME IInv, Types', NEW p \in Probers, RemoveEntries(p) PROVE IInv'
<1>1. /\ pc[p] = "entries" /\ \A q \in Probers : pc'[q] = IF q = p THEN "rmdir" ELSE pc[q]
      /\ UNCHANGED <<dirs, at, met, wrote, seen, lost, left, records>>
      /\ at[p] \in Candidates
  BY Places DEF RemoveEntries, Step, own, IInv, Types, TypeOK, InWorkdir
<1>2. \A i : In(i)' = In(i)
  BY <1>1 DEF In, InWorkdir
<1>3. \A i \in Candidates : \A f \in Files :
        files'[i][f] = IF i = at[p] THEN NoOne ELSE files[i][f]
  BY <1>1 DEF RemoveEntries, Empty, IInv, Types, TypeOK
<1>4. Workdirs'
  <2>1. Owned'
    BY <1>1, <1>2, <1>3 DEF IInv, Workdirs, Owned
  <2>2. Orphaned' /\ WorkdirsGone'
    BY <1>1, <1>2 DEF IInv, Workdirs, Orphaned, WorkdirsGone
  <2>3. Cleared'
    <3> SUFFICES ASSUME NEW q \in Probers, pc'[q] = "rmdir", NEW f \in Files
                 PROVE  files'[at[q]][f] # q
      BY <1>1 DEF Cleared, Mine
    <3>1. at[q] \in Candidates /\ q # NoOne
      BY <1>1, Places, ProbeAssumption DEF IInv, InWorkdir
    <3> QED
      BY <1>1, <1>3, <3>1 DEF IInv, Workdirs, Cleared, Mine
  <2> QED
    BY <2>1, <2>2, <2>3 DEF Workdirs
<1>5. ASSUME NEW q \in Probers, pc'[q] \in Working, met[q] = {}
      PROVE  ~Gone(q)' /\ ~lost[q]
  <2>1. pc[q] \in Working /\ q # p
    BY <1>1, <1>5 DEF Working
  <2>2. at[q] # at[p] /\ at[q] \in Candidates
    BY <1>1, <1>5, <2>1, OthersMet, Places DEF InWorkdir, Working, IInv
  <2>3. ~Gone(q) /\ ~lost[q] /\ wrote[q] \subseteq Files
    BY <1>5, <2>1 DEF IInv, Sharing, AloneKeeps, Types, TypeOK
  <2> QED
    BY <1>1, <1>3, <2>2, <2>3 DEF Gone, Mine
<1>6. Sharing'
  BY <1>1, <1>5 DEF IInv, Sharing, Acquainted, SeenKnown, AloneKeeps, Working, InWorkdir
<1> QED
  BY <1>1, <1>4, <1>6, SameVerdicts DEF IInv

LEMMA RemoveDirKeeps ==
  ASSUME IInv, Types', NEW p \in Probers, RemoveDir(p) PROVE IInv'
<1>1. /\ pc[p] = "rmdir" /\ Continue(p) /\ at[p] \in Candidates
      /\ UNCHANGED <<files, met, wrote, seen, lost, left, records>>
      /\ dirs' = IF Mine(p) = Empty THEN dirs \ {at[p]} ELSE dirs
  BY Places DEF RemoveDir, own, IInv, InWorkdir
<1>2. \A q \in Probers : q # p /\ pc[q] \in Working /\ met[q] = {} => ~Gone(q)'
  <2> SUFFICES ASSUME NEW q \in Probers, q # p, pc[q] \in Working, met[q] = {}
               PROVE  ~Gone(q)'
    OBVIOUS
  <2>1. at[q] # at[p] /\ at'[q] = at[q]
    BY <1>1, OthersMet DEF InWorkdir, Continue, IInv, Types, TypeOK
  <2> QED
    BY <1>1, <2>1 DEF Gone, Mine, IInv, Sharing, AloneKeeps
<1>3. /\ Sharing' /\ \A i : In(i)' = In(i) \ {p}
      /\ \A q \in Probers : q # p => pc'[q] = pc[q] /\ at'[q] = at[q]
      /\ pc'[p] \in {"prepare", "done"}
  BY <1>1, <1>2, ContinueSharing
<1>4. \A f \in Files : files[at[p]][f] # p
  BY <1>1 DEF IInv, Workdirs, Cleared, Mine
<1>5. Owned'
  <2> SUFFICES ASSUME NEW i \in Candidates, NEW f \in Files, files[i][f] # NoOne
               PROVE  i \in dirs' /\ files[i][f] \in In(i)' \cup left[i]
    BY <1>1 DEF Owned
  <2>1. i \in dirs /\ files[i][f] \in In(i) \cup left[i]
    BY DEF IInv, Workdirs, Owned
  <2>2. i = at[p] => Mine(p) # Empty /\ files[i][f] # p
    BY <1>4 DEF Mine, Empty
  <2>3. i # at[p] => p \notin In(i)
    BY DEF In
  <2> QED
    BY <1>1, <1>3, <2>1, <2>2, <2>3
<1>6. Orphaned' /\ Cleared'
  BY <1>1, <1>3 DEF IInv, Workdirs, Orphaned, Cleared, Mine
<1>7. WorkdirsGone'
  <2> SUFFICES ASSUME NEW i \in dirs' PROVE In(i)' # {} \/ left[i] # {}
    BY <1>1 DEF WorkdirsGone
  <2>1. CASE i # at[p]
    BY <1>1, <1>3, <2>1 DEF IInv, Workdirs, WorkdirsGone, In
  <2>2. CASE i = at[p]
    <3>1. PICK f \in Files : files[i][f] # NoOne
      <4>1. Mine(p) # Empty /\ files[i] \in [Files -> Probers \cup {NoOne}]
        BY <1>1, <2>2 DEF IInv, Types, TypeOK
      <4> QED
        BY <2>2, <4>1 DEF Mine, Empty
    <3> QED
      BY <1>1, <1>5, <2>2, <3>1 DEF Owned
  <2> QED
    BY <2>1, <2>2
<1> QED
  BY <1>1, <1>3, <1>5, <1>6, <1>7, SameVerdicts DEF IInv, Workdirs

LEMMA RemoveFailsKeeps ==
  ASSUME IInv, Types', NEW p \in Probers, RemoveFails(p) PROVE IInv'
<1>1. /\ pc[p] = "entries" /\ Continue(p) /\ at[p] \in Candidates
      /\ UNCHANGED <<dirs, files, met, wrote, seen, lost, records>>
      /\ left' = [left EXCEPT ![at[p]] = @ \cup {p}]
  BY Places DEF RemoveFails, world, own, IInv, InWorkdir
<1>2. /\ \A i \in Candidates : left[i] \subseteq left'[i]
      /\ p \in left'[at[p]]
  BY <1>1 DEF IInv, Types, TypeOK
<1>3. \A q \in Probers : q # p /\ pc[q] \in Working /\ met[q] = {} => ~Gone(q)'
  BY <1>1 DEF Gone, Mine, Continue, IInv, Sharing, AloneKeeps, Types, TypeOK
<1>4. /\ Sharing' /\ \A i : In(i)' = In(i) \ {p}
      /\ \A q \in Probers : q # p => pc'[q] = pc[q] /\ at'[q] = at[q]
      /\ pc'[p] \in {"prepare", "done"}
  BY <1>1, <1>2, <1>3, ContinueSharing
<1>5. \A i \in Candidates : In(i) \cup left[i] \subseteq In(i)' \cup left'[i]
  BY <1>2, <1>4 DEF In
<1>6. Owned'
  BY <1>1, <1>5 DEF IInv, Workdirs, Owned
<1>7. Orphaned'
  <2> SUFFICES ASSUME NEW q \in Probers, pc'[q] = "orphan" PROVE q \in left'[at'[q]]
    BY DEF Orphaned
  <2>1. pc[q] = "orphan" /\ at'[q] = at[q] /\ at[q] \in Candidates
    BY <1>4, Places DEF IInv
  <2> QED
    BY <1>2, <2>1 DEF IInv, Workdirs, Orphaned
<1>8. Cleared' /\ WorkdirsGone'
  <2>1. Cleared'
    BY <1>1, <1>4 DEF IInv, Workdirs, Cleared, Mine
  <2>2. WorkdirsGone'
    <3>1. dirs \subseteq Candidates
      BY DEF IInv, Types, TypeOK
    <3> QED
      BY <1>1, <1>2, <1>5, <3>1 DEF IInv, Workdirs, WorkdirsGone
  <2> QED
    BY <2>1, <2>2
<1> QED
  BY <1>1, <1>4, <1>6, <1>7, <1>8, SameVerdicts DEF IInv, Workdirs

LEMMA CrashKeeps == ASSUME IInv, Types', Crash PROVE IInv'
<1>1. /\ \A p \in Probers : pc'[p] \notin InWorkdir
      /\ \A p \in Probers : pc'[p] = "orphan" => pc[p] \in {"orphan", "running"}
  BY DEF Crash, Active, InWorkdir, IInv, Types, TypeOK
<1>2. UNCHANGED <<dirs, files, at, records>>
  BY DEF Crash, world
<1>3. \A i \in Candidates : left'[i] = left[i] \cup In(i)
  BY DEF Crash
<1>4. Owned' /\ WorkdirsGone'
  BY <1>2, <1>3 DEF IInv, Workdirs, Owned, WorkdirsGone, Types, TypeOK
<1>5. Orphaned'
  <2> SUFFICES ASSUME NEW p \in Probers, pc'[p] = "orphan" PROVE p \in left'[at[p]]
    BY <1>2 DEF Orphaned
  <2>1. pc[p] \in {"orphan", "running"} /\ at[p] \in Candidates
    BY <1>1, Places DEF IInv, InWorkdir
  <2> QED
    BY <1>3, <2>1 DEF IInv, Workdirs, Orphaned, In, InWorkdir
<1>6. Cleared' /\ Sharing'
  BY <1>1 DEF Cleared, Sharing, Acquainted, SeenKnown, AloneKeeps, Working, InWorkdir
<1> QED
  BY <1>2, <1>4, <1>5, <1>6, SameVerdicts DEF IInv, Workdirs

LEMMA InitIInv == Init => IInv
<1> SUFFICES ASSUME Init PROVE IInv
  OBVIOUS
<1>1. Workdirs /\ Sharing
  BY DEF Init, Workdirs, Owned, Orphaned, Cleared, WorkdirsGone, Sharing, Acquainted,
     SeenKnown, AloneKeeps, Empty, Working, InWorkdir
<1>2. Verdicts
  BY DEF Init, Verdicts, ForeignOnlyByOverlap, LossOnlyByOverlap
<1> QED
  BY <1>1, <1>2, InitTypes DEF IInv

LEMMA NextIInv == IInv /\ [Next]_vars => IInv'
<1> SUFFICES ASSUME IInv, [Next]_vars PROVE IInv'
  OBVIOUS
<1>1. Types'
  BY NextTypes DEF IInv
<1> QED
  BY <1>1, Kinds, QuietKeeps, CrashKeeps, PrepareKeeps, PrepareFailsKeeps, FixtureDirKeeps,
     PutsKeeps, RemoveEntriesKeeps, RemoveDirKeeps, RemoveFailsKeeps DEF IInv

LEMMA Invariant == Spec => []IInv
BY InitIInv, NextIInv, PTL DEF Spec

\* What a probe's program and checks read was written by the probe, by one
\* that shared its workdir, or by one that left the workdir behind.
THEOREM ForeignNeedsOverlap == Spec => []ForeignOnlyByOverlap
<1>1. IInv => ForeignOnlyByOverlap
  BY DEF IInv, Verdicts
<1> QED
  BY <1>1, Invariant, PTL

\* A probe alone in its workdir loses nothing it has written.
THEOREM LossNeedsOverlap == Spec => []LossOnlyByOverlap
<1>1. IInv => LossOnlyByOverlap
  BY DEF IInv, Verdicts
<1> QED
  BY <1>1, Invariant, PTL

\* A workdir that nobody is in and nobody left is gone.
THEOREM NoWorkdirKept == Spec => []WorkdirsGone
<1>1. IInv => WorkdirsGone
  BY DEF IInv, Workdirs
<1> QED
  BY <1>1, Invariant, PTL

----------------------------------------------------------------------------
(* One record for each candidate *)

\* How many records a stage has made where it stands.
Made(p) == IF pc[p] \in {"entries", "rmdir"} THEN at[p] ELSE at[p] - 1

Counted ==
  \A p \in Probers :
    /\ \A n \in DOMAIN records[p] : records[p][n].index = n
    /\ pc[p] \in Active \cup {"idle"} => Len(records[p]) = Made(p)
    /\ pc[p] = "done" => Len(records[p]) = Len(job[p])

\* A step that makes no record and stays at its candidate.
LEMMA CountedUnless ==
  ASSUME Types, Counted, UNCHANGED <<records, at, job>>,
         \A q \in Probers :
           \/ pc'[q] = pc[q] \/ pc'[q] \in {"dead", "orphan"}
           \/ pc'[q] \in Active \ {"entries", "rmdir"} /\ pc[q] \in Active \ {"entries", "rmdir"}
           \/ pc'[q] = "rmdir" /\ pc[q] = "entries"
  PROVE  Counted'
BY DEF Counted, Made, Types, TypeOK, Active, InWorkdir

\* The record that is made is that of the candidate at hand.
LEMMA AddCounts ==
  ASSUME Types, Counted, NEW p \in Probers, pc[p] \in Active \ {"entries", "rmdir"},
         NEW r, r.index = at[p], records' = [records EXCEPT ![p] = Append(@, r)]
  PROVE  /\ \A q \in Probers : \A n \in DOMAIN records'[q] : records'[q][n].index = n
         /\ Len(records'[p]) = at[p]
         /\ \A q \in Probers : q # p => records'[q] = records[q]
<1>1. /\ records[p] \in Seq(Records) /\ Len(records[p]) = at[p] - 1 /\ at[p] \in Nat
      /\ records'[p] = Append(records[p], r)
      /\ \A q \in Probers : q # p => records'[q] = records[q]
  BY DEF Types, TypeOK, Counted, Made
<1>2. ASSUME NEW n \in DOMAIN records'[p] PROVE records'[p][n].index = n
  <2>1. \/ n \in DOMAIN records[p] /\ records'[p][n] = records[p][n]
        \/ n = Len(records[p]) + 1 /\ records'[p][n] = r
    BY <1>1, <1>2, Appended
  <2> QED
    BY <1>1, <2>1 DEF Counted
<1> QED
  BY <1>1, <1>2 DEF Counted

LEMMA RecordCounts ==
  ASSUME Types, Counted, NEW p \in Probers, NEW from \in Working, NEW reason,
         \/ Record(p, from, reason) \/ RecordGone(p, from, reason)
         \/ \E read : RecordRead(p, from, reason, read)
  PROVE  Counted'
<1>1. /\ pc[p] \in Active \ {"entries", "rmdir"} /\ UNCHANGED <<at, job>>
      /\ \A q \in Probers : pc'[q] = IF q = p THEN "entries" ELSE pc[q]
  BY DEF Record, RecordGone, RecordRead, Step, Working, Active, InWorkdir, Types, TypeOK
<1>2. PICK r : r.index = at[p] /\ records' = [records EXCEPT ![p] = Append(@, r)]
  BY DEF Record, RecordGone, RecordRead, AddRecord
<1>3. /\ \A q \in Probers : \A n \in DOMAIN records'[q] : records'[q][n].index = n
      /\ Len(records'[p]) = at[p]
      /\ \A q \in Probers : q # p => records'[q] = records[q]
  BY <1>1, <1>2, AddCounts
<1>4. \A q \in Probers : q # p => UNCHANGED <<records[q], pc[q]>>
  BY <1>1, <1>3
<1>5. ASSUME NEW q \in Probers
      PROVE  /\ pc'[q] \in Active \cup {"idle"} => Len(records'[q]) = Made(q)'
             /\ pc'[q] = "done" => Len(records'[q]) = Len(job'[q])
  <2>1. CASE q = p
    BY <1>1, <1>3, <2>1 DEF Made
  <2>2. CASE q # p
    BY <1>1, <1>4, <2>2 DEF Counted, Made
  <2> QED
    BY <2>1, <2>2
<1> QED
  BY <1>3, <1>5 DEF Counted

LEMMA ContinueCounts ==
  ASSUME Types, Counted, NEW p \in Probers, pc[p] \in Active, Continue(p), UNCHANGED job,
         \A q \in Probers : \A n \in DOMAIN records'[q] : records'[q][n].index = n,
         Len(records'[p]) = at[p], \A q \in Probers : q # p => records'[q] = records[q]
  PROVE  Counted'
<1>1. /\ at[p] \in Nat /\ at[p] <= Len(job[p]) /\ Len(job[p]) \in Nat
  BY PlanTypes, ProbeAssumption DEF Types, TypeOK
<1>2. /\ \A q \in Probers : q # p => pc'[q] = pc[q] /\ at'[q] = at[q]
      /\ at'[p] = at[p] + 1
      /\ pc'[p] = IF at[p] < Len(job[p]) THEN "prepare" ELSE "done"
  BY DEF Continue, Types, TypeOK
<1> QED
  BY <1>1, <1>2 DEF Counted, Made

LEMMA NextCounted ==
  ASSUME Types, Counted, [Next]_vars PROVE Counted'
<1> USE DEF Active, InWorkdir, Working, Types, TypeOK
<1>1. CASE UNCHANGED vars
  BY <1>1 DEF vars, Counted, Made
<1>2. ASSUME NEW p \in Probers, Start(p) PROVE Counted'
  <2>1. /\ pc[p] = "idle" /\ at[p] = 1 /\ UNCHANGED <<records, at, job>>
        /\ \A q \in Probers : pc'[q] = IF q = p THEN pc'[p] ELSE pc[q]
        /\ pc'[p] = IF job[p] = <<>> THEN "done" ELSE "prepare"
    BY <1>2 DEF Start, Step, Named
  <2> QED
    BY <2>1 DEF Counted, Made
<1>3. ASSUME NEW p \in Probers,
             Prepare(p) \/ FixtureDir(p) \/ WriteFixture(p) \/ BeginExecute(p) \/ Kill(p)
             \/ Execute(p) \/ Exit(p) \/ Capture(p) \/ RemoveEntries(p)
      PROVE  Counted'
  <2>1. UNCHANGED <<records, at, job>>
    BY <1>3 DEF Prepare, FixtureDir, WriteFixture, BeginExecute, Kill, Execute, Exit, Capture,
       RemoveEntries
  <2>2. \/ pc[p] = "entries" /\ pc' = [pc EXCEPT ![p] = "rmdir"]
        \/ pc[p] = "orphan" /\ pc' = [pc EXCEPT ![p] = "dead"]
        \/ pc[p] \in Working \cup {"prepare"} /\ \E to \in Working : pc' = [pc EXCEPT ![p] = to]
    BY <1>3 DEF Prepare, FixtureDir, WriteFixture, BeginExecute, Kill, Execute, Exit, Capture,
       RemoveEntries, Step
  <2> QED
    BY <2>1, <2>2, CountedUnless
<1>4. ASSUME NEW p \in Probers, ChildExits(p) \/ Cancel(p) \/ CheckHolds(p) PROVE Counted'
  BY <1>4 DEF ChildExits, Cancel, CheckHolds, Counted, Made
<1>5. ASSUME NEW p \in Probers,
             \/ MaterializeFails(p) \/ Settle(p) \/ ExecuteRefused(p) \/ Reap(p)
             \/ CaptureFails(p) \/ ExitTooLate(p) \/ CheckFails(p) \/ Pass(p)
      PROVE  Counted'
  <2>1. \E from \in Working : \E reason :
          \/ Record(p, from, reason) \/ RecordGone(p, from, reason)
          \/ \E read : RecordRead(p, from, reason, read)
    BY <1>5 DEF MaterializeFails, Settle, ExecuteRefused, Reap, CaptureFails, ExitTooLate,
       CheckFails, Pass
  <2> QED
    BY <2>1, RecordCounts
<1>6. ASSUME NEW p \in Probers, PrepareFails(p) PROVE Counted'
  <2>1. PICK r : r.index = at[p] /\ records' = [records EXCEPT ![p] = Append(@, r)]
    BY <1>6 DEF PrepareFails
  <2> QED
    BY <1>6, <2>1, AddCounts, ContinueCounts DEF PrepareFails
<1>7. ASSUME NEW p \in Probers, RemoveDir(p) \/ RemoveFails(p) PROVE Counted'
  <2>1. UNCHANGED <<records, job>> /\ Len(records[p]) = at[p]
    BY <1>7 DEF RemoveDir, RemoveFails, Counted, Made
  <2> QED
    BY <1>7, <2>1, ContinueCounts DEF RemoveDir, RemoveFails, Counted
<1>8. CASE Crash
  BY <1>8, CountedUnless DEF Crash
<1> QED
  BY <1>1, <1>2, <1>3, <1>4, <1>5, <1>6, <1>7, <1>8 DEF Next, ProbeStep

\* A stage that has ended has one record for each candidate, in their order.
THEOREM EachRecorded == Spec => []OneRecordEach
<1>1. Init => Types /\ Counted
  <2>1. ASSUME Init, NEW p \in Probers
        PROVE pc[p] = "idle" /\ at[p] = 1 /\ records[p] = <<>>
    BY <2>1 DEF Init
  <2>2. ASSUME Init, NEW p \in Probers PROVE Made(p) = 0 /\ Len(records[p]) = 0
    BY <2>1, <2>2 DEF Made
  <2>3. ASSUME Init, NEW p \in Probers
        PROVE /\ \A n \in DOMAIN records[p] : records[p][n].index = n
              /\ pc[p] = "done" => Len(records[p]) = Len(job[p])
              /\ pc[p] \in Active \cup {"idle"} => Len(records[p]) = Made(p)
    <3>1. DOMAIN records[p] = {} /\ pc[p] = "idle"
      BY <2>1, <2>3
    <3>2. Len(records[p]) = Made(p)
      BY <2>2, <2>3
    <3> QED
      BY <3>1, <3>2
  <2>4. Init => Counted
    BY <2>3, Zenon DEF Counted
  <2> QED
    BY <2>4, InitTypes
<1>2. Types /\ Counted /\ [Next]_vars => (Types /\ Counted)'
  BY NextTypes, NextCounted
<1>3. Counted => OneRecordEach
  BY DEF Counted, OneRecordEach
<1> QED
  BY <1>1, <1>2, <1>3, PTL DEF Spec
=============================================================================
