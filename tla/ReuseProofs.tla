---------------------------- MODULE ReuseProofs ----------------------------
(***************************************************************************)
(* For any number of calls, promotions, capabilities, bindings and inputs,  *)
(* whatever a model selects and whatever fails: the invariants of Reuse.    *)
(***************************************************************************)
EXTENDS Reuse, TLAPS

\* What TypeOK leaves to the records' being records.
Shapes ==
  /\ catalog \in [Capabilities -> Seq(Promoted)]
  /\ merge \in [Promoters -> [cap : Capabilities \cup {0}, saved : Seq(Promoted),
                              at : {"idle", "read", "saved"}]]
  /\ \A p \in Promoters : merge[p].at = "read" => merge[p].cap \in Capabilities
  /\ unread \in [Calls -> SUBSET Capabilities]
  /\ listed \in [Calls -> [Capabilities -> Seq(Promoted)]]
  /\ got \in [Calls -> Seq(Promoted)]
  /\ \A c \in Calls : pc[c] \in {"idle", "list"} => got[c] = <<>>

Types == TypeOK /\ Shapes

LEMMA RequestTypes ==
  ASSUME TypeOK, NEW c \in Calls
  PROVE  /\ ask[c].use \in BOOLEAN /\ ask[c].intent \in [Capabilities -> Nat]
         /\ ask[c].cap \in Capabilities /\ ask[c].binding \in Bindings \cup {0}
         /\ ask[c].provider \in Nat /\ ask[c].inputs \in SUBSET Names
         /\ ask[c].verify \in BOOLEAN /\ ask[c].min \in 0..3
BY ReuseAssumption DEF TypeOK

\* A record stays one when a binding is merged into it.
LEMMA MergedIsRecord ==
  ASSUME NEW b \in Promoted, NEW s, IsRecord(CapOf[b.id], s)
  PROVE  IsRecord(CapOf[b.id], Merged(s, b))
<1> DEFINE k == CapOf[b.id]
<1>1. s \in Seq(Promoted) /\ DOMAIN s = 1..Len(s) /\ Len(s) \in Nat
  BY DEF IsRecord
<1>2. \A i \in DOMAIN s : s[i] \in Promoted
  BY <1>1
<1>3. CASE \E i \in DOMAIN s : s[i].id = b.id
  <2> DEFINE m == [i \in DOMAIN s |-> IF s[i].id = b.id THEN b ELSE s[i]]
  <2>1. Merged(s, b) = m
    BY <1>3 DEF Merged
  <2>2. m \in [1..Len(s) -> Promoted]
    BY <1>1, <1>2
  <2>3. m \in Seq(Promoted)
    BY <1>1, <2>2
  <2>4. \A i \in DOMAIN m : i \in DOMAIN s /\ m[i].id = s[i].id
    OBVIOUS
  <2>5. \A i, j \in DOMAIN m :
          CapOf[m[i].id] = k /\ (m[i].id = m[j].id => i = j)
    BY <2>4 DEF IsRecord
  <2> HIDE DEF m
  <2> QED
    BY <2>1, <2>3, <2>5 DEF IsRecord
<1>4. CASE ~ \E i \in DOMAIN s : s[i].id = b.id
  <2> DEFINE a == Append(s, b)
  <2>1. Merged(s, b) = a
    BY <1>4 DEF Merged
  <2>2. a \in Seq(Promoted) /\ DOMAIN a = 1..(Len(s) + 1)
    BY <1>1
  <2>3. a[Len(s) + 1] = b /\ \A i \in DOMAIN s : a[i] = s[i]
    BY <1>1
  <2>4. \A i \in DOMAIN a : i \in DOMAIN s \/ i = Len(s) + 1
    BY <1>1, <2>2
  <2> HIDE DEF a
  <2>5. \A i, j \in DOMAIN a :
          CapOf[a[i].id] = k /\ (a[i].id = a[j].id => i = j)
    BY <1>4, <2>3, <2>4 DEF IsRecord
  <2> QED
    BY <2>1, <2>2, <2>5 DEF IsRecord
<1> QED
  BY <1>3, <1>4

LEMMA CandidateTypes ==
  ASSUME Types, NEW c \in Calls, NEW b \in Candidates(c)
  PROVE  /\ b \in Promoted /\ b.id \in Bindings /\ CapOf[b.id] \in Capabilities
         /\ ProviderOf[b.id] \in Nat \ {0} /\ Required[b.id] \in SUBSET Names
         /\ b \in ToSet(listed[c][CapOf[b.id]])
         /\ b.level >= MinLevel(c) /\ ask[c].intent[CapOf[b.id]] > 0
         /\ ask[c].provider \in {0, ProviderOf[b.id]}
<1>1. PICK k \in Capabilities : b \in ToSet(listed[c][k])
  BY DEF Candidates
<1>2. PICK i \in DOMAIN listed[c][k] : b = listed[c][k][i]
  BY <1>1 DEF ToSet
<1>3. IsRecord(k, listed[c][k])
  BY DEF Types, TypeOK
<1>4. b \in Promoted /\ CapOf[b.id] = k
  BY <1>2, <1>3 DEF IsRecord
<1> QED
  BY <1>1, <1>4, ReuseAssumption DEF Promoted, Candidates

LEMMA InitTypes == Init => Types
<1> SUFFICES ASSUME Init PROVE Types
  OBVIOUS
<1>1. ask \in Asks /\ \A c \in Calls :
        /\ ask[c].cap \in Capabilities /\ ask[c].binding \in Bindings \cup {0}
        /\ ask[c].provider \in Nat /\ ask[c].inputs \in SUBSET Names
  BY ReuseAssumption DEF Init
<1>2. \A k : IsRecord(k, <<>>)
  BY DEF IsRecord
<1>3. catalog \in [Capabilities -> Seq(Promoted)]
  BY ReuseAssumption DEF Init
<1> QED
  BY <1>1, <1>2, <1>3, ReuseAssumption
     DEF Init, Types, TypeOK, Shapes, Plan, Run, Idle, NoBinding, Codes, Working

RunRecords == [status : {"none", "succeeded", "failed"}, verified : BOOLEAN, code : Codes]
Steps == {"idle", "list", "returned"} \cup Working

LEMMA FinishTypes ==
  ASSUME TypeOK, NEW c \in Calls, NEW status \in {"succeeded", "failed"},
         NEW verified \in BOOLEAN, NEW code \in Codes, Finish(c, status, verified, code)
  PROVE  /\ record' \in [Calls -> RunRecords] /\ pc' \in [Calls -> Steps]
         /\ \A d \in Calls : pc'[d] \in {"idle", "list"} => pc'[d] = pc[d]
<1>1. Run(status, verified, code) \in RunRecords
  BY DEF Run, RunRecords
<1>2. record \in [Calls -> RunRecords] /\ pc \in [Calls -> Steps]
  BY DEF TypeOK, RunRecords, Steps
<1>3. "record" \in Steps
  BY DEF Steps, Working
<1> QED
  BY <1>1, <1>2, <1>3 DEF Finish

LEMMA CodesThere ==
  {"none", "capability_not_found", "binding_not_found", "invalid_run_input",
   "execution_failed", "verification_failed"} \subseteq Codes
BY DEF Codes

\* The types by the variables they speak of.
WorldTypes ==
  /\ DOMAIN catalog = Capabilities
  /\ \A k \in Capabilities : IsRecord(k, catalog[k])
  /\ \A p \in Promoters : merge[p].at = "read" => IsRecord(merge[p].cap, merge[p].saved)
  /\ llm \in BOOLEAN
  /\ catalog \in [Capabilities -> Seq(Promoted)]
  /\ merge \in [Promoters -> [cap : Capabilities \cup {0}, saved : Seq(Promoted),
                              at : {"idle", "read", "saved"}]]
  /\ \A p \in Promoters : merge[p].at = "read" => merge[p].cap \in Capabilities

FormTypes ==
  /\ ask \in Asks
  /\ \A c \in Calls : \A k \in Capabilities : IsRecord(k, listed[c][k])
  /\ unread \in [Calls -> SUBSET Capabilities]
  /\ listed \in [Calls -> [Capabilities -> Seq(Promoted)]]

ClockTypes ==
  clock \in 0..Instants /\ useAt \in [Calls -> 0..clock] /\ runAt \in [Calls -> 0..clock]

PlanTypes ==
  /\ plan \in [Calls -> [cap : Capabilities, binding : Bindings \cup {0},
                         provider : Nat, inputs : SUBSET Names]]
  /\ \A c \in Calls : IsRecord(plan[c].cap, got[c])
  /\ got \in [Calls -> Seq(Promoted)]

StepTypes ==
  /\ pc \in [Calls -> Steps]
  /\ \A c \in Calls : pc[c] \in {"idle", "list"} => got[c] = <<>>

RunTypes ==
  /\ bound \in [Calls -> Promoted \cup {NoBinding}]
  /\ exit \in [Calls -> {"none", "started", "zero", "nonzero", "error"}]
  /\ record \in [Calls -> RunRecords]
  /\ reply \in [Calls -> {"none", "error", "unselected", "run"}]

FileTypes ==
  /\ artifact \in [1..Instants -> Calls \cup {NoCall}]
  /\ checked \in [Calls -> Calls \cup {NoCall}]
  /\ runs \in [1..Instants -> Calls \cup {NoCall}]

LEMMA TypesSplit ==
  Types <=> /\ WorldTypes /\ FormTypes /\ ClockTypes /\ PlanTypes
            /\ StepTypes /\ RunTypes /\ FileTypes
BY DEF Types, TypeOK, Shapes, WorldTypes, FormTypes, ClockTypes, PlanTypes, StepTypes,
       RunTypes, FileTypes, RunRecords, Steps

\* The types of what a step leaves alone.
LEMMA TypesKept ==
  ASSUME Types
  PROVE  /\ UNCHANGED world => WorldTypes'
         /\ UNCHANGED <<ask, unread, listed>> => FormTypes'
         /\ UNCHANGED <<clock, useAt, runAt>> => ClockTypes'
         /\ UNCHANGED <<plan, got>> => PlanTypes'
         /\ UNCHANGED <<bound, exit, record, reply>> => RunTypes'
         /\ UNCHANGED files => FileTypes'
<1>1. UNCHANGED world => WorldTypes'
  BY TypesSplit DEF WorldTypes, world
<1>2. UNCHANGED <<ask, unread, listed>> => FormTypes'
  BY TypesSplit DEF FormTypes
<1>3. UNCHANGED <<clock, useAt, runAt>> => ClockTypes'
  BY TypesSplit DEF ClockTypes
<1>4. UNCHANGED <<plan, got>> => PlanTypes'
  BY TypesSplit DEF PlanTypes
<1>5. UNCHANGED <<bound, exit, record, reply>> => RunTypes'
  BY TypesSplit DEF RunTypes
<1>6. UNCHANGED files => FileTypes'
  BY TypesSplit DEF FileTypes, files
<1> QED
  BY <1>1, <1>2, <1>3, <1>4, <1>5, <1>6

LEMMA TypesJoin ==
  ASSUME WorldTypes', FormTypes', ClockTypes', PlanTypes', StepTypes', RunTypes', FileTypes'
  PROVE  Types'
BY DEF Types, TypeOK, Shapes, WorldTypes, FormTypes, ClockTypes, PlanTypes, StepTypes,
       RunTypes, FileTypes, RunRecords, Steps

LEMMA StepsKept ==
  ASSUME Types, pc' \in [Calls -> Steps], UNCHANGED got,
         \A d \in Calls : pc'[d] \in {"idle", "list"} => pc[d] \in {"idle", "list"}
  PROVE  StepTypes'
BY TypesSplit DEF StepTypes

LEMMA NowTypes == ASSUME NEW t \in Now PROVE t \in 1..Instants /\ (clock \in Nat => clock <= t)
BY ReuseAssumption DEF Now

\* The clock goes on to t, and the call takes it for its use or its run.
LEMMA InstantTypes ==
  ASSUME Types, NEW c \in Calls, NEW t \in Now, clock' = t,
         \/ useAt' = [useAt EXCEPT ![c] = t] /\ UNCHANGED runAt
         \/ runAt' = [runAt EXCEPT ![c] = t] /\ UNCHANGED useAt
  PROVE  ClockTypes'
<1>1. clock \in 0..Instants /\ useAt \in [Calls -> 0..clock] /\ runAt \in [Calls -> 0..clock]
  BY TypesSplit DEF ClockTypes
<1>2. clock \in Nat /\ t \in 1..Instants /\ clock <= t
  BY <1>1, NowTypes, ReuseAssumption
<1>3. t \in 0..Instants /\ t \in 0..t /\ 0..clock \subseteq 0..t
  BY <1>2, ReuseAssumption
<1>4. useAt \in [Calls -> 0..t]
  BY <1>1, <1>3
<1>5. runAt \in [Calls -> 0..t]
  BY <1>1, <1>3
<1>6. useAt' \in [Calls -> 0..t]
  BY <1>3, <1>4
<1>7. runAt' \in [Calls -> 0..t]
  BY <1>3, <1>5
<1> QED
  BY <1>3, <1>6, <1>7 DEF ClockTypes

LEMMA BeginTypes == ASSUME Types, NEW c \in Calls, Begin(c) PROVE Types'
<1>1. UNCHANGED <<world, ask, unread, listed, plan, got, bound, exit, record, reply, files>>
  BY DEF Begin, runVars
<1>2. ClockTypes'
  <2>1. PICK t \in Now :
          /\ clock' = t
          /\ \/ useAt' = [useAt EXCEPT ![c] = t] /\ UNCHANGED runAt
             \/ runAt' = [runAt EXCEPT ![c] = t] /\ UNCHANGED useAt
    BY DEF Begin
  <2> QED
    BY <2>1, InstantTypes
<1>3. StepTypes'
  <2>1. PICK to \in {"list", "resolve"} : pc[c] = "idle" /\ pc' = [pc EXCEPT ![c] = to]
    BY DEF Begin, Step
  <2>2. pc \in [Calls -> Steps] /\ to \in Steps
    BY TypesSplit DEF StepTypes, Steps, Working
  <2>3. pc' \in [Calls -> Steps]
    BY <2>1, <2>2
  <2>4. \A d \in Calls : pc'[d] \in {"idle", "list"} => pc[d] \in {"idle", "list"}
    BY <2>1, <2>2
  <2> QED
    BY <1>1, <2>3, <2>4, StepsKept
<1>4. WorldTypes' /\ FormTypes' /\ PlanTypes' /\ RunTypes' /\ FileTypes'
  BY <1>1, TypesKept
<1> QED
  BY <1>2, <1>3, <1>4, TypesJoin

LEMMA StartRunTypes ==
  ASSUME Types, NEW c \in Calls, NEW b \in Candidates(c),
         NEW patch \in SUBSET Required[b.id], StartRun(c, b, patch)
  PROVE  Types'
<1> DEFINE new == Plan(CapOf[b.id], b.id, ProviderOf[b.id], Planned(c, b, patch))
<1>1. /\ UNCHANGED <<world, ask, unread, listed, got, bound, exit, record, reply, files>>
      /\ pc[c] = "list" /\ pc' = [pc EXCEPT ![c] = "resolve"]
      /\ plan' = [plan EXCEPT ![c] = new]
  BY DEF StartRun, Step, runVars
<1>2. ClockTypes'
  <2>1. PICK t \in Now :
          clock' = t /\ runAt' = [runAt EXCEPT ![c] = t] /\ UNCHANGED useAt
    BY DEF StartRun
  <2> QED
    BY <2>1, InstantTypes
<1>3. StepTypes'
  <2>1. pc \in [Calls -> Steps] /\ "resolve" \in Steps
    BY TypesSplit DEF StepTypes, Steps, Working
  <2>2. pc' \in [Calls -> Steps]
    BY <1>1, <2>1
  <2>3. \A d \in Calls : pc'[d] \in {"idle", "list"} => pc[d] \in {"idle", "list"}
    BY <1>1, <2>1
  <2> QED
    BY <1>1, <2>2, <2>3, StepsKept
<1>4. PlanTypes'
  <2>1. Planned(c, b, patch) \in SUBSET Names
    BY CandidateTypes, RequestTypes, ReuseAssumption DEF Planned, Types
  <2>2. new \in [cap : Capabilities, binding : Bindings \cup {0},
                provider : Nat, inputs : SUBSET Names]
    BY <2>1, CandidateTypes DEF Plan
  <2>3. got[c] = <<>>
    BY <1>1, TypesSplit DEF StepTypes
  <2>4. IsRecord(new.cap, got[c])
    BY <2>3 DEF IsRecord
  <2> HIDE DEF new
  <2>5. /\ plan \in [Calls -> [cap : Capabilities, binding : Bindings \cup {0},
                                provider : Nat, inputs : SUBSET Names]]
        /\ \A d \in Calls : IsRecord(plan[d].cap, got[d])
        /\ got \in [Calls -> Seq(Promoted)]
    BY TypesSplit DEF PlanTypes
  <2>6. plan' \in [Calls -> [cap : Capabilities, binding : Bindings \cup {0},
                            provider : Nat, inputs : SUBSET Names]]
    BY <1>1, <2>2, <2>5
  <2>7. \A d \in Calls : IsRecord(plan'[d].cap, got'[d])
    BY <1>1, <2>4, <2>5
  <2> QED
    BY <1>1, <2>5, <2>6, <2>7 DEF PlanTypes
<1>5. WorldTypes' /\ FormTypes' /\ RunTypes' /\ FileTypes'
  BY <1>1, TypesKept
<1> QED
  BY <1>2, <1>3, <1>4, <1>5, TypesJoin

LEMMA CommandTypes ==
  ASSUME Types, NEW c \in Calls, Exits(c) \/ ExecuteFails(c) PROVE Types'
<1>1. UNCHANGED <<world, clock, ask, unread, listed, useAt, plan, runAt, got, bound,
                  reply, checked, runs>>
  BY DEF Exits, ExecuteFails, useVars
<1>2. FileTypes'
  <2>1. MadeUp(c) # 0 => MadeUp(c) \in 1..Instants
    BY TypesSplit, ReuseAssumption DEF MadeUp, ClockTypes
  <2>2. \/ UNCHANGED artifact
        \/ MadeUp(c) # 0 /\ artifact' = [artifact EXCEPT ![MadeUp(c)] = c]
    BY DEF Exits, ExecuteFails, Leaves
  <2>3. artifact \in [1..Instants -> Calls \cup {NoCall}]
    BY TypesSplit DEF FileTypes
  <2>4. artifact' \in [1..Instants -> Calls \cup {NoCall}]
    BY <2>1, <2>2, <2>3
  <2> QED
    BY <1>1, <2>4, TypesSplit DEF FileTypes
<1>3. /\ record' \in [Calls -> RunRecords] /\ pc' \in [Calls -> Steps]
      /\ \A d \in Calls : pc'[d] \in {"idle", "list"} => pc[d] \in {"idle", "list"}
  <2>1. \/ pc' = [pc EXCEPT ![c] = "verify"] /\ UNCHANGED record
        \/ Finish(c, "succeeded", FALSE, "none")
        \/ Finish(c, "failed", FALSE, "execution_failed")
    BY DEF Exits, ExecuteFails
  <2>2. CASE pc' = [pc EXCEPT ![c] = "verify"] /\ UNCHANGED record
    <3>1. record \in [Calls -> RunRecords] /\ pc \in [Calls -> Steps] /\ "verify" \in Steps
      BY TypesSplit DEF RunTypes, StepTypes, Steps, Working
    <3> QED
      BY <2>2, <3>1
  <2>3. TypeOK
    BY DEF Types
  <2> QED
    BY <2>1, <2>2, <2>3, FinishTypes, CodesThere
<1>4. RunTypes'
  <2>1. exit' = [exit EXCEPT ![c] = "zero"] \/ exit' = [exit EXCEPT ![c] = "nonzero"]
          \/ exit' = [exit EXCEPT ![c] = "error"]
    BY DEF Exits, ExecuteFails
  <2>2. exit' \in [Calls -> {"none", "started", "zero", "nonzero", "error"}]
    BY <2>1, TypesSplit DEF RunTypes
  <2> QED
    BY <1>1, <1>3, <2>2, TypesSplit DEF RunTypes
<1>5. WorldTypes' /\ FormTypes' /\ ClockTypes' /\ PlanTypes'
  BY <1>1, TypesKept
<1>6. StepTypes'
  BY <1>1, <1>3, StepsKept
<1> QED
  BY <1>2, <1>4, <1>5, <1>6, TypesJoin

\* What each step does to the types, for the call or the promotion that takes it.
LEMMA NextTypes == Types /\ [Next]_vars => Types'
<1> SUFFICES ASSUME Types, [Next]_vars PROVE Types'
  OBVIOUS
<1> USE DEF Types, TypeOK, Shapes, Working
<1>1. CASE UNCHANGED vars
  BY <1>1 DEF vars, world, useVars, runVars, files
<1>2. ASSUME NEW c \in Calls, Begin(c) PROVE Types'
  BY <1>2, BeginTypes
<1>3. ASSUME NEW c \in Calls, UseStep(c) PROVE Types'
  <2>1. CASE ListCapability(c)
    <3>1. PICK k \in unread[c] :
            /\ unread' = [unread EXCEPT ![c] = @ \ {k}]
            /\ listed' = [listed EXCEPT ![c][k] = catalog[k]]
      BY <2>1 DEF ListCapability
    <3>2. k \in Capabilities /\ IsRecord(k, catalog[k]) /\ catalog[k] \in Seq(Promoted)
      BY <3>1
    <3>3. listed' \in [Calls -> [Capabilities -> Seq(Promoted)]]
      BY <3>1, <3>2
    <3>4. \A d \in Calls : \A l \in Capabilities : IsRecord(l, listed'[d][l])
      BY <3>1, <3>2
    <3>5. unread' \in [Calls -> SUBSET Capabilities]
      BY <3>1
    <3> QED
      BY <2>1, <3>3, <3>4, <3>5 DEF ListCapability, world, runVars, files
  <2>2. ASSUME NEW b \in Candidates(c), NEW patch \in SUBSET Required[b.id],
               StartRun(c, b, patch)
        PROVE  Types'
    BY <2>2, StartRunTypes
  <2>3. CASE SelectLocal(c)
    BY <2>2, <2>3 DEF SelectLocal
  <2>4. CASE SelectLLM(c)
    BY <2>2, <2>4 DEF SelectLLM
  <2>5. CASE Unselected(c)
    BY <2>5 DEF Unselected, Return, world, useVars, runVars, files
  <2> QED
    BY <1>3, <2>1, <2>3, <2>4, <2>5 DEF UseStep
<1>4. ASSUME NEW c \in Calls, RunStep(c) \/ StoreFails(c) PROVE Types'
  <2> USE DEF Return, Step, world, useVars, runVars, files
  <2>1. CASE GetCapability(c)
    <3> DEFINE s == catalog[plan[c].cap]
    <3>1. IsRecord(plan[c].cap, s) /\ s \in Seq(Promoted)
      OBVIOUS
    <3>2. got' = [got EXCEPT ![c] = s] /\ got'[c] = s
      BY <2>1 DEF GetCapability
    <3>3. \A i \in DOMAIN s : s[i] \in Promoted
      BY <3>1
    <3>4. bound' \in [Calls -> Promoted \cup {NoBinding}]
      <4>1. UNCHANGED bound \/ \E i \in DOMAIN s : bound' = [bound EXCEPT ![c] = s[i]]
        BY <2>1, <3>2 DEF GetCapability
      <4> QED
        BY <3>3, <4>1
    <3>5. record' \in [Calls -> RunRecords]
      <4>1. CASE UNCHANGED record
        BY <4>1 DEF RunRecords
      <4>2. CASE \E code \in Codes : Finish(c, "failed", FALSE, code)
        BY <4>2, FinishTypes
      <4> QED
        BY <2>1, <4>1, <4>2, CodesThere DEF GetCapability
    <3>6. pc' \in [Calls -> {"idle", "list", "returned"} \cup Working]
          /\ pc'[c] \notin {"idle", "list"} /\ \A d \in Calls \ {c} : pc'[d] = pc[d]
      BY <2>1 DEF GetCapability, Finish
    <3>7. \A d \in Calls : IsRecord(plan'[d].cap, got'[d])
      BY <2>1, <3>1, <3>2 DEF GetCapability
    <3>8. \A d \in Calls : pc'[d] \in {"idle", "list"} => got'[d] = <<>>
      BY <3>2, <3>6
    <3> HIDE DEF s
    <3> QED
      <4>1. got' \in [Calls -> Seq(Promoted)]
        BY <3>1, <3>2
      <4> QED
        BY <2>1, <3>4, <3>5, <3>6, <3>7, <3>8, <4>1 DEF GetCapability, RunRecords
  <2>2. CASE GetProvider(c)
    <3>1. CASE Finish(c, "failed", FALSE, "invalid_run_input")
      BY <2>2, <3>1, FinishTypes, CodesThere DEF GetProvider, RunRecords, Steps
    <3>2. CASE pc' = [pc EXCEPT ![c] = "execute"] /\ UNCHANGED record
      BY <2>2, <3>2 DEF GetProvider
    <3> QED
      BY <2>2, <3>1, <3>2 DEF GetProvider
  <2>3. CASE Execute(c)
    BY <2>3 DEF Execute
  <2>4. CASE ExecuteRefused(c)
    <3>1. Finish(c, "failed", FALSE, "execution_failed")
      BY <2>4 DEF ExecuteRefused
    <3> QED
      BY <2>4, <3>1, FinishTypes, CodesThere DEF ExecuteRefused, RunRecords, Steps
  <2>5. CASE Check(c)
    <3>1. MadeUp(c) # 0 => MadeUp(c) \in 1..Instants
      BY ReuseAssumption DEF MadeUp
    <3>2. checked' \in [Calls -> Calls \cup {NoCall}]
      BY <2>5, <3>1 DEF Check
    <3>3. Finish(c, "succeeded", TRUE, "none")
      BY <2>5 DEF Check
    <3> QED
      BY <2>5, <3>2, <3>3, FinishTypes, CodesThere DEF Check, RunRecords, Steps
  <2>6. CASE CheckFails(c)
    <3>1. Finish(c, "failed", FALSE, "verification_failed")
      BY <2>6 DEF CheckFails
    <3> QED
      BY <2>6, <3>1, FinishTypes, CodesThere DEF CheckFails, RunRecords, Steps
  <2>7. CASE Save(c)
    BY <2>7 DEF Save
  <2>8. CASE StoreFails(c)
    BY <2>8 DEF StoreFails, ListFails, GetFails, SaveFails
  <2> QED
    BY <1>4, <2>1, <2>2, <2>3, <2>4, <2>5, <2>6, <2>7, <2>8 DEF RunStep
<1>5. ASSUME NEW c \in Calls, Exits(c) \/ ExecuteFails(c) PROVE Types'
  BY <1>5, CommandTypes
<1>6. ASSUME NEW p \in Promoters, ReadCapability(p) PROVE Types'
  <2>1. PICK b \in Promotable :
          merge' = [merge EXCEPT ![p] =
            [cap |-> CapOf[b.id], saved |-> Merged(catalog[CapOf[b.id]], b), at |-> "read"]]
    BY <1>6 DEF ReadCapability
  <2>2. b \in Promoted /\ CapOf[b.id] \in Capabilities
    BY ReuseAssumption DEF Promoted
  <2>3. IsRecord(CapOf[b.id], Merged(catalog[CapOf[b.id]], b))
    BY <2>2, MergedIsRecord
  <2>4. Merged(catalog[CapOf[b.id]], b) \in Seq(Promoted)
    BY <2>3 DEF IsRecord
  <2>5. /\ merge' \in [Promoters -> [cap : Capabilities \cup {0}, saved : Seq(Promoted),
                                    at : {"idle", "read", "saved"}]]
        /\ \A q \in Promoters : merge'[q].at = "read" =>
             merge'[q].cap \in Capabilities /\ IsRecord(merge'[q].cap, merge'[q].saved)
    BY <2>1, <2>2, <2>3, <2>4
  <2> QED
    BY <1>6, <2>5 DEF ReadCapability, useVars, runVars, files
<1>7. ASSUME NEW p \in Promoters, SaveCapability(p) PROVE Types'
  <2> DEFINE done == [Idle EXCEPT !.at = "saved"]
  <2>1. /\ catalog' = [catalog EXCEPT ![merge[p].cap] = merge[p].saved]
        /\ merge' = [merge EXCEPT ![p] = done]
    BY <1>7 DEF SaveCapability
  <2>5. /\ done \in [cap : Capabilities \cup {0}, saved : Seq(Promoted),
                    at : {"idle", "read", "saved"}]
        /\ done.at = "saved"
    <3>1. Idle \in [cap : Capabilities \cup {0}, saved : Seq(Promoted),
                   at : {"idle", "read", "saved"}]
      BY DEF Idle
    <3> QED
      BY <3>1
  <2> HIDE DEF done
  <2>2. merge[p].cap \in Capabilities /\ IsRecord(merge[p].cap, merge[p].saved)
        /\ merge[p].saved \in Seq(Promoted)
    BY <1>7 DEF SaveCapability
  <2>3. catalog' \in [Capabilities -> Seq(Promoted)]
        /\ \A k \in Capabilities : IsRecord(k, catalog'[k])
    BY <2>1, <2>2
  <2>4. /\ merge' \in [Promoters -> [cap : Capabilities \cup {0}, saved : Seq(Promoted),
                                    at : {"idle", "read", "saved"}]]
        /\ \A q \in Promoters : merge'[q].at = "read" => q # p /\ merge'[q] = merge[q]
    BY <2>1, <2>5
  <2> QED
    BY <1>7, <2>3, <2>4 DEF SaveCapability, useVars, runVars, files
<1> QED
  BY <1>1, <1>2, <1>3, <1>4, <1>5, <1>6, <1>7 DEF Next

\* The catalog, what calls have read of it, and all the rest keep their types.
THEOREM TypeCorrect == Spec => []TypeOK
<1>1. Spec => []Types
  BY InitTypes, NextTypes, PTL DEF Spec
<1> QED
  BY <1>1, PTL DEF Types
----------------------------------------------------------------------------
(* What is true of a call at each of its steps *)

\* Which of its variables are set.
Phase(c) ==
  /\ pc[c] = "idle" => useAt[c] = 0
  /\ pc[c] = "list" => ask[c].use
  /\ pc[c] \in {"idle", "list"} => runAt[c] = 0
  /\ pc[c] \in Working \/ exit[c] # "none" \/ record[c].status # "none" => runAt[c] # 0
  /\ pc[c] \in {"idle", "list", "resolve", "provider", "execute"} => exit[c] = "none"
  /\ pc[c] = "verify" => exit[c] \in {"zero", "nonzero"}
  /\ pc[c] \notin {"record", "returned"} =>
       record[c].status = "none" /\ record[c].code = "none" /\ ~record[c].verified
  /\ pc[c] = "record" => record[c].status # "none"
  /\ reply[c] # "none" => pc[c] = "returned"

\* A run asks for what its request does, a use for what it has selected.
Chosen(c) ==
  /\ ~ask[c].use => plan[c].provider = ask[c].provider
  /\ ask[c].use /\ runAt[c] # 0 =>
       /\ ask[c].intent[plan[c].cap] > 0
       /\ plan[c].binding # 0 /\ plan[c].provider = ProviderOf[plan[c].binding]
       /\ ask[c].provider \in {0, plan[c].provider}
       /\ Required[plan[c].binding] \subseteq plan[c].inputs
       /\ \E b \in ToSet(listed[c][plan[c].cap]) :
            b.id = plan[c].binding /\ b.level >= MinLevel(c)

\* What has been resolved is in the record read, eligible, and runs only if its
\* inputs are there.
Resolved(c) ==
  /\ pc[c] \in {"provider", "execute", "executing", "verify"} \/ exit[c] # "none" =>
       bound[c] \in ToSet(got[c]) /\ bound[c] \in Promoted /\ Eligible(c, bound[c])
  /\ pc[c] \in {"execute", "executing", "verify"} \/ exit[c] # "none" =>
       Satisfied(c, bound[c])

\* SelectionHolds and the first half of VerifiedOwnArtifact, of one call.
Recorded(c) ==
  /\ ask[c].use
     /\ record[c].code \in {"capability_not_found", "binding_not_found", "invalid_run_input"}
     => got[c] # listed[c][plan[c].cap]
  /\ record[c].verified => record[c].status = "succeeded" /\ exit[c] \in {"zero", "nonzero"}

CallInv(c) == Phase(c) /\ Chosen(c) /\ Resolved(c) /\ Recorded(c)

\* A step of another leaves a call alone.
Kept(c) ==
  /\ ask' = ask /\ pc'[c] = pc[c] /\ listed'[c] = listed[c] /\ useAt'[c] = useAt[c]
  /\ plan'[c] = plan[c] /\ runAt'[c] = runAt[c] /\ got'[c] = got[c] /\ bound'[c] = bound[c]
  /\ exit'[c] = exit[c] /\ record'[c] = record[c] /\ reply'[c] = reply[c]
  /\ checked'[c] = checked[c]

CallStep(c) ==
  Begin(c) \/ UseStep(c) \/ RunStep(c) \/ Exits(c) \/ ExecuteFails(c) \/ StoreFails(c)

LEMMA OthersKept ==
  ASSUME Types, NEW c \in Calls, CallStep(c), NEW d \in Calls, d # c
  PROVE  Kept(d)
<1> USE DEF Kept, Types, TypeOK, Shapes, Step, Return, Finish,
            world, useVars, runVars, files
<1>1. CASE Begin(c)
  BY <1>1 DEF Begin
<1>2. CASE ListCapability(c)
  BY <1>2 DEF ListCapability
<1>3. ASSUME NEW b, NEW patch, StartRun(c, b, patch) PROVE Kept(d)
  BY <1>3 DEF StartRun
<1>4. CASE SelectLocal(c) \/ SelectLLM(c)
  BY <1>3, <1>4 DEF SelectLocal, SelectLLM
<1>5. CASE Unselected(c)
  BY <1>5 DEF Unselected
<1>6. CASE GetCapability(c)
  BY <1>6 DEF GetCapability
<1>7. CASE GetProvider(c) \/ Execute(c) \/ ExecuteRefused(c)
  BY <1>7 DEF GetProvider, Execute, ExecuteRefused
<1>8. CASE Check(c) \/ CheckFails(c)
  BY <1>8 DEF Check, CheckFails
<1>9. CASE Save(c) \/ StoreFails(c)
  BY <1>9 DEF Save, StoreFails, ListFails, GetFails, SaveFails
<1>10. CASE Exits(c) \/ ExecuteFails(c)
  BY <1>10 DEF Exits, ExecuteFails
<1> QED
  BY <1>1, <1>2, <1>4, <1>5, <1>6, <1>7, <1>8, <1>9, <1>10 DEF CallStep, UseStep, RunStep

LEMMA KeptInv == ASSUME NEW c \in Calls, CallInv(c), Kept(c) PROVE CallInv(c)'
BY DEF Kept, CallInv, Phase, Chosen, Resolved, Recorded, Eligible, Satisfied, MinLevel, Working

\* A call that ends keeps what is true of it.
LEMMA EndInv ==
  ASSUME Types, NEW c \in Calls, CallInv(c), NEW how, Return(c, how),
         UNCHANGED <<ask, listed, useAt, plan, runAt, got, bound, exit, record>>
  PROVE  CallInv(c)'
BY DEF Types, TypeOK, Return, CallInv, Phase, Chosen, Resolved, Recorded,
       Eligible, Satisfied, MinLevel, Working

LEMMA BeginInv == ASSUME Types, NEW c \in Calls, CallInv(c), Begin(c) PROVE CallInv(c)'
<1>1. PICK t \in Now : IF ask[c].use
                      THEN useAt' = [useAt EXCEPT ![c] = t] /\ UNCHANGED runAt
                      ELSE runAt' = [runAt EXCEPT ![c] = t] /\ UNCHANGED useAt
  BY DEF Begin
<1>2. t # 0
  BY NowTypes
<1>3. /\ UNCHANGED <<ask, listed, plan, got, bound, exit, record, reply>>
      /\ pc[c] = "idle" /\ pc'[c] = IF ask[c].use THEN "list" ELSE "resolve"
  BY DEF Begin, Step, Types, TypeOK, world, runVars, files
<1>4. /\ ask[c].use => runAt'[c] = runAt[c]
      /\ ~ask[c].use => runAt'[c] = t
  BY <1>1 DEF Types, TypeOK
<1> QED
  BY <1>2, <1>3, <1>4
     DEF CallInv, Phase, Chosen, Resolved, Recorded, Eligible, Satisfied, MinLevel, Working

LEMMA UseInv == ASSUME Types, NEW c \in Calls, CallInv(c), UseStep(c) PROVE CallInv(c)'
<1>1. CASE ListCapability(c)
  BY <1>1 DEF ListCapability, Types, TypeOK, world, runVars, files,
     CallInv, Phase, Chosen, Resolved, Recorded, Eligible, Satisfied, MinLevel, Working
<1>2. ASSUME NEW b \in Candidates(c), NEW patch, StartRun(c, b, patch) PROVE CallInv(c)'
  <2>1. /\ plan'[c] = Plan(CapOf[b.id], b.id, ProviderOf[b.id], Planned(c, b, patch))
        /\ Required[b.id] \subseteq Planned(c, b, patch)
    BY <1>2 DEF StartRun, Types, TypeOK
  <2>2. /\ plan'[c].cap = CapOf[b.id] /\ plan'[c].binding = b.id
        /\ plan'[c].provider = ProviderOf[b.id] /\ Required[b.id] \subseteq plan'[c].inputs
    BY <2>1 DEF Plan
  <2>3. PICK t \in Now : runAt' = [runAt EXCEPT ![c] = t]
    BY <1>2 DEF StartRun
  <2>4. runAt'[c] = t /\ t # 0
    BY <2>3, NowTypes DEF Types, TypeOK
  <2>5. /\ UNCHANGED <<ask, listed, useAt, got, bound, exit, record, reply>>
        /\ pc[c] = "list" /\ pc'[c] = "resolve"
    BY <1>2 DEF StartRun, Step, Types, TypeOK, world, runVars, files
  <2>6. Phase(c)'
    BY <2>4, <2>5 DEF CallInv, Phase, Working
  <2>7. Chosen(c)'
    <3>1. ask[c].use /\ b.id # 0
      BY <2>5, CandidateTypes, ReuseAssumption DEF CallInv, Phase
    <3>2. MinLevel(c)' = MinLevel(c)
      BY <2>5 DEF MinLevel
    <3> QED
      BY <2>2, <2>5, <3>1, <3>2, CandidateTypes DEF Chosen
  <2>8. Resolved(c)' /\ Recorded(c)'
    BY <2>5 DEF CallInv, Phase, Resolved, Recorded
  <2> QED
    BY <2>6, <2>7, <2>8 DEF CallInv
<1>3. CASE SelectLocal(c) \/ SelectLLM(c)
  BY <1>2, <1>3 DEF SelectLocal, SelectLLM
<1>4. CASE Unselected(c)
  BY <1>4, EndInv DEF Unselected, useVars, runVars
<1> QED
  BY <1>1, <1>3, <1>4 DEF UseStep

\* A selection is turned down for the record that was read: with the one that
\* was listed it would have been eligible.
LEMMA ListedIsEligible ==
  ASSUME Types, NEW c \in Calls, Chosen(c), ask[c].use, runAt[c] # 0
  PROVE  \E i \in DOMAIN listed[c][plan[c].cap] : Eligible(c, listed[c][plan[c].cap][i])
<1>1. PICK b \in ToSet(listed[c][plan[c].cap]) : b.id = plan[c].binding /\ b.level >= MinLevel(c)
  BY DEF Chosen
<1>2. plan[c].provider = ProviderOf[plan[c].binding]
  BY DEF Chosen
<1> QED
  BY <1>1, <1>2 DEF Eligible, ToSet

LEMMA GetCapabilityInv ==
  ASSUME Types, NEW c \in Calls, CallInv(c), GetCapability(c) PROVE CallInv(c)'
<1> DEFINE s == catalog[plan[c].cap]
<1>1. /\ UNCHANGED <<ask, listed, useAt, plan, runAt, exit, reply>>
      /\ pc[c] = "resolve" /\ got'[c] = s
  BY DEF GetCapability, Types, TypeOK, Shapes, world, useVars, files
<1>2. IsRecord(plan[c].cap, s) /\ \A i \in DOMAIN s : s[i] \in Promoted
  BY DEF Types, TypeOK, IsRecord
<1>3. exit[c] = "none" /\ runAt[c] # 0
  BY <1>1 DEF CallInv, Phase, Working
<1>4. Chosen(c)'
  BY <1>1 DEF CallInv, Chosen, MinLevel
<1>5. ASSUME NEW i \in DOMAIN s, Resolves(c, got'[c], i), bound' = [bound EXCEPT ![c] = got'[c][i]],
             pc' = [pc EXCEPT ![c] = "provider"], UNCHANGED record
      PROVE  CallInv(c)'
  <2>1. bound'[c] = s[i] /\ Eligible(c, s[i]) /\ pc'[c] = "provider"
    BY <1>1, <1>5 DEF Types, TypeOK, Resolves
  <2>2. Eligible(c, bound[c])' /\ bound'[c] \in ToSet(s) /\ bound'[c] \in Promoted
    BY <2>1, <1>1, <1>2 DEF Eligible, MinLevel, ToSet
  <2>3. Phase(c)' /\ Resolved(c)' /\ Recorded(c)'
    BY <1>1, <1>3, <1>5, <2>1, <2>2 DEF CallInv, Phase, Resolved, Recorded, Working, Eligible, MinLevel
  <2> QED
    BY <1>4, <2>3 DEF CallInv
<1>6. ASSUME NEW code, Finish(c, "failed", FALSE, code), ~ \E i \in DOMAIN s : Eligible(c, s[i])
      PROVE  CallInv(c)'
  <2>1. record'[c].status = "failed" /\ ~record'[c].verified /\ pc'[c] = "record"
    BY <1>6 DEF Finish, Run, Types, TypeOK
  <2>2. Phase(c)' /\ Resolved(c)'
    BY <1>1, <1>3, <2>1 DEF CallInv, Phase, Resolved, Working
  <2>3. ask[c].use => got'[c] # listed[c][plan[c].cap]
    BY <1>1, <1>3, <1>6, ListedIsEligible DEF CallInv
  <2>4. Recorded(c)'
    BY <1>1, <2>1, <2>3 DEF Recorded
  <2> QED
    BY <1>4, <2>2, <2>4 DEF CallInv
<1> QED
  BY <1>1, <1>5, <1>6 DEF GetCapability

LEMMA GetProviderInv ==
  ASSUME Types, NEW c \in Calls, CallInv(c), GetProvider(c) PROVE CallInv(c)'
<1>1. /\ UNCHANGED <<ask, listed, useAt, plan, runAt, got, bound, exit, reply>>
      /\ pc[c] = "provider"
  BY DEF GetProvider, world, useVars, files
<1>2. Chosen(c)' /\ exit[c] = "none" /\ runAt[c] # 0 /\ Eligible(c, bound[c])
  BY <1>1 DEF CallInv, Phase, Chosen, Resolved, MinLevel, Working
<1>3. CASE Satisfied(c, bound[c]) /\ pc' = [pc EXCEPT ![c] = "execute"] /\ UNCHANGED record
  <2>1. pc'[c] = "execute"
    BY <1>3 DEF Types, TypeOK
  <2> QED
    BY <1>1, <1>2, <1>3, <2>1
       DEF CallInv, Phase, Resolved, Recorded, Eligible, Satisfied, MinLevel, Working
<1>4. CASE ~Satisfied(c, bound[c]) /\ Finish(c, "failed", FALSE, "invalid_run_input")
  <2>1. record'[c].status = "failed" /\ ~record'[c].verified /\ pc'[c] = "record"
    BY <1>4 DEF Finish, Run, Types, TypeOK
  <2>2. ~ask[c].use
    <3>1. SUFFICES ASSUME ask[c].use PROVE FALSE
      BY RequestTypes DEF Types
    <3>2. plan[c].binding = bound[c].id /\ Required[plan[c].binding] \subseteq plan[c].inputs
      BY <1>2, <3>1 DEF CallInv, Chosen, Eligible
    <3> QED
      BY <1>4, <3>2 DEF Satisfied
  <2> QED
    BY <1>1, <1>2, <2>1, <2>2 DEF CallInv, Phase, Resolved, Recorded, Working
<1> QED
  BY <1>3, <1>4 DEF GetProvider

\* What is still to be saved after an execution.
LEMMA FinishInv ==
  ASSUME Types, NEW c \in Calls, CallInv(c), pc[c] \in {"execute", "executing", "verify"},
         NEW status \in {"succeeded", "failed"}, NEW verified \in BOOLEAN,
         NEW code \in {"none", "execution_failed", "verification_failed"},
         Finish(c, status, verified, code),
         UNCHANGED <<ask, listed, useAt, plan, runAt, got, bound, reply>>,
         exit'[c] = exit[c] \/ (exit'[c] # "none" /\ pc[c] = "executing"),
         verified => status = "succeeded" /\ exit'[c] \in {"zero", "nonzero"}
  PROVE  CallInv(c)'
<1>1. /\ record'[c] = Run(status, verified, code) /\ pc'[c] = "record"
  BY DEF Finish, Types, TypeOK
<1>2. record'[c].status = status /\ record'[c].verified = verified /\ record'[c].code = code
  BY <1>1 DEF Run
<1> QED
  BY <1>1, <1>2 DEF CallInv, Phase, Chosen, Resolved, Recorded, Eligible, Satisfied, MinLevel, Working

LEMMA RunInv ==
  ASSUME Types, NEW c \in Calls, CallInv(c), RunStep(c) \/ StoreFails(c) PROVE CallInv(c)'
<1> USE DEF world, useVars, runVars, files
<1>1. CASE Execute(c)
  BY <1>1 DEF Execute, Step, Types, TypeOK, CallInv, Phase, Chosen, Resolved, Recorded,
              Eligible, Satisfied, MinLevel, Working
<1>2. CASE ExecuteRefused(c) \/ CheckFails(c)
  <2>1. /\ UNCHANGED <<ask, listed, useAt, plan, runAt, got, bound, reply>>
        /\ exit'[c] = exit[c] /\ pc[c] \in {"execute", "verify"}
        /\ \/ Finish(c, "failed", FALSE, "execution_failed")
           \/ Finish(c, "failed", FALSE, "verification_failed")
    BY <1>2 DEF ExecuteRefused, CheckFails
  <2> QED
    BY <2>1, FinishInv
<1>3. CASE Check(c)
  <2>1. /\ UNCHANGED <<ask, listed, useAt, plan, runAt, got, bound, reply>>
        /\ exit'[c] = exit[c] /\ pc[c] = "verify" /\ Finish(c, "succeeded", TRUE, "none")
    BY <1>3 DEF Check
  <2>2. exit'[c] \in {"zero", "nonzero"}
    BY <2>1 DEF CallInv, Phase
  <2> QED
    BY <2>1, <2>2, FinishInv
<1>5. CASE Save(c)
  BY <1>5, EndInv DEF Save
<1>6. CASE StoreFails(c)
  BY <1>6, EndInv DEF StoreFails, ListFails, GetFails, SaveFails
<1> QED
  BY <1>1, <1>2, <1>3, <1>5, <1>6, GetCapabilityInv, GetProviderInv DEF RunStep

LEMMA ExecutionInv ==
  ASSUME Types, NEW c \in Calls, CallInv(c), Exits(c) \/ ExecuteFails(c) PROVE CallInv(c)'
<1>1. /\ UNCHANGED <<ask, listed, useAt, plan, runAt, got, bound, reply>>
      /\ pc[c] = "executing"
  BY DEF Exits, ExecuteFails, world, useVars
<1>2. exit'[c] \in {"zero", "nonzero", "error"}
  BY DEF Exits, ExecuteFails, Types, TypeOK
<1>3. CASE pc' = [pc EXCEPT ![c] = "verify"] /\ UNCHANGED record /\ exit'[c] \in {"zero", "nonzero"}
  <2>1. pc'[c] = "verify"
    BY <1>3 DEF Types, TypeOK
  <2> QED
    BY <1>1, <1>3, <2>1 DEF CallInv, Phase, Chosen, Resolved, Recorded,
                            Eligible, Satisfied, MinLevel, Working
<1>4. CASE Finish(c, "succeeded", FALSE, "none") \/ Finish(c, "failed", FALSE, "execution_failed")
  BY <1>1, <1>2, <1>4, FinishInv
<1>5. CASE Exits(c)
  <2>1. PICK code \in {"zero", "nonzero"} :
          /\ exit' = [exit EXCEPT ![c] = code]
          /\ \/ pc' = [pc EXCEPT ![c] = "verify"] /\ UNCHANGED record
             \/ Finish(c, "succeeded", FALSE, "none")
             \/ Finish(c, "failed", FALSE, "execution_failed")
    BY <1>5 DEF Exits
  <2>2. exit'[c] = code
    BY <2>1 DEF Types, TypeOK
  <2> QED
    BY <1>3, <1>4, <2>1, <2>2
<1> QED
  BY <1>4, <1>5 DEF ExecuteFails

LEMMA InitCalls == Init => \A c \in Calls : CallInv(c)
<1> SUFFICES ASSUME Init, NEW c \in Calls PROVE CallInv(c)
  OBVIOUS
<1>1. /\ pc[c] = "idle" /\ useAt[c] = 0 /\ runAt[c] = 0 /\ exit[c] = "none" /\ reply[c] = "none"
      /\ record[c] = Run("none", FALSE, "none")
      /\ plan[c] = Plan(ask[c].cap, ask[c].binding, ask[c].provider, ask[c].inputs)
  BY DEF Init
<1> QED
  BY <1>1 DEF CallInv, Phase, Chosen, Resolved, Recorded, Run, Plan, Working

LEMMA NextCalls ==
  Types /\ (\A c \in Calls : CallInv(c)) /\ [Next]_vars => (\A c \in Calls : CallInv(c))'
<1> SUFFICES ASSUME Types, \A c \in Calls : CallInv(c), [Next]_vars, NEW d \in Calls
             PROVE  CallInv(d)'
  OBVIOUS
<1>1. CASE UNCHANGED vars \/ \E p \in Promoters : ReadCapability(p) \/ SaveCapability(p)
  BY <1>1, KeptInv DEF ReadCapability, SaveCapability, Kept, vars, world, useVars, runVars, files
<1>2. ASSUME NEW c \in Calls, CallStep(c) PROVE CallInv(d)'
  <2>1. CASE c # d
    BY <1>2, <2>1, OthersKept, KeptInv
  <2>2. CASE c = d
    BY <1>2, <2>2, BeginInv, UseInv, RunInv, ExecutionInv DEF CallStep
  <2> QED
    BY <2>1, <2>2
<1> QED
  BY <1>1, <1>2 DEF Next, CallStep

----------------------------------------------------------------------------
(* What calls leave for each other: records and artifacts *)

RunsInv ==
  \A c \in Calls : reply[c] = "run" =>
    /\ runAt[c] # 0 /\ record[c].status # "none"
    /\ runs[runAt[c]] = c \/ SameInstant(c, runAt)

\* A target is named after the instant of the use that wrote it, and of every
\* use that reads it.
ArtifactInv ==
  /\ \A t \in 1..Instants : artifact[t] # NoCall => useAt[artifact[t]] = t
  /\ \A c \in Calls : checked[c] \notin {c, NoCall} => useAt[c] # 0 /\ SameInstant(c, useAt)

IInv == Types /\ (\A c \in Calls : CallInv(c)) /\ RunsInv /\ ArtifactInv

\* An id once made is not made again.
LEMMA InstantsKept ==
  ASSUME IInv, NEW c \in Calls, CallStep(c), NEW d \in Calls
  PROVE  /\ runAt[d] # 0 => runAt'[d] = runAt[d]
         /\ useAt[d] # 0 => useAt'[d] = useAt[d]
<1>1. CASE d # c
  BY <1>1, OthersKept DEF IInv, Kept
<1>2. CASE d = c
  <2> USE DEF IInv, world, useVars, runVars, files
  <2>1. CASE Begin(c)
    BY <1>2, <2>1 DEF Begin, Step, CallInv, Phase
  <2>2. ASSUME NEW b, NEW patch, StartRun(c, b, patch)
        PROVE  runAt[c] = 0 /\ UNCHANGED useAt
    BY <2>2 DEF StartRun, Step, CallInv, Phase
  <2>3. CASE SelectLocal(c) \/ SelectLLM(c)
    BY <1>2, <2>2, <2>3 DEF SelectLocal, SelectLLM
  <2>4. CASE ListCapability(c) \/ Unselected(c)
    BY <1>2, <2>4 DEF ListCapability, Unselected
  <2>5. CASE RunStep(c)
    BY <1>2, <2>5 DEF RunStep, GetCapability, GetProvider, Execute, ExecuteRefused,
                      Check, CheckFails, Save, Step
  <2>6. CASE Exits(c) \/ ExecuteFails(c) \/ StoreFails(c)
    BY <1>2, <2>6 DEF Exits, ExecuteFails, StoreFails, ListFails, GetFails, SaveFails
  <2> QED
    BY <2>1, <2>3, <2>4, <2>5, <2>6 DEF CallStep, UseStep
<1> QED
  BY <1>1, <1>2

LEMMA SameInstantKept ==
  ASSUME IInv, NEW c \in Calls, CallStep(c), NEW d \in Calls
  PROVE  /\ runAt[d] # 0 /\ SameInstant(d, runAt) => SameInstant(d, runAt)'
         /\ useAt[d] # 0 /\ SameInstant(d, useAt) => SameInstant(d, useAt)'
BY InstantsKept DEF SameInstant

\* Only Save and Leaves change what calls share, and only Check what they read.
LEMMA SharedChanges ==
  ASSUME IInv, NEW c \in Calls, CallStep(c)
  PROVE  /\ \/ Save(c)
            \/ UNCHANGED runs /\ reply'[c] # "run"
         /\ \/ UNCHANGED artifact
            \/ MadeUp(c) # 0 /\ artifact' = [artifact EXCEPT ![MadeUp(c)] = c]
         /\ \/ UNCHANGED checked
            \/ /\ MadeUp(c) # 0 /\ artifact[MadeUp(c)] # NoCall
               /\ checked' = [checked EXCEPT ![c] = artifact[MadeUp(c)]]
<1> USE DEF world, useVars, runVars, files, IInv, Types, TypeOK, CallInv, Phase, Return
<1>1. CASE Begin(c)
  BY <1>1 DEF Begin, Step
<1>2. ASSUME NEW b, NEW patch, StartRun(c, b, patch)
      PROVE  UNCHANGED <<runs, reply, artifact, checked>> /\ pc[c] = "list"
  BY <1>2 DEF StartRun, Step
<1>3. CASE SelectLocal(c) \/ SelectLLM(c)
  BY <1>2, <1>3 DEF SelectLocal, SelectLLM
<1>4. CASE ListCapability(c) \/ Unselected(c)
  <2>1. CASE ListCapability(c)
    <3>1. UNCHANGED <<runs, reply, artifact, checked>> /\ pc[c] = "list"
      BY <2>1 DEF ListCapability
    <3>2. reply[c] # "run"
      BY <3>1
    <3> QED
      BY <3>1, <3>2
  <2>2. CASE Unselected(c)
    <3>1. UNCHANGED <<runs, artifact, checked>> /\ reply' = [reply EXCEPT ![c] = "unselected"]
      BY <2>2 DEF Unselected
    <3> QED
      BY <3>1
  <2> QED
    BY <1>4, <2>1, <2>2
<1>5. CASE GetCapability(c) \/ GetProvider(c) \/ Execute(c) \/ ExecuteRefused(c)
  <2>1. UNCHANGED <<runs, reply, artifact, checked>>
    BY <1>5 DEF GetCapability, GetProvider, Execute, ExecuteRefused
  <2>2. pc[c] \in {"resolve", "provider", "execute"}
    BY <1>5 DEF GetCapability, GetProvider, Execute, ExecuteRefused, Step
  <2>3. reply[c] # "run"
    BY <2>2
  <2> QED
    BY <2>1, <2>3
<1>6. CASE Check(c) \/ CheckFails(c) \/ Save(c)
  BY <1>6 DEF Check, CheckFails, Save
<1>7. CASE Exits(c) \/ ExecuteFails(c)
  BY <1>7 DEF Exits, ExecuteFails, Leaves
<1>8. CASE StoreFails(c)
  BY <1>8 DEF StoreFails, ListFails, GetFails, SaveFails
<1> QED
  BY <1>1, <1>3, <1>4, <1>5, <1>6, <1>7, <1>8 DEF CallStep, UseStep, RunStep

LEMMA NextShared ==
  ASSUME IInv, NEW c \in Calls, CallStep(c) PROVE RunsInv' /\ ArtifactInv'
<1>1. ASSUME NEW d \in Calls, reply'[d] = "run"
      PROVE  /\ runAt'[d] # 0 /\ record'[d].status # "none"
             /\ runs'[runAt'[d]] = d \/ SameInstant(d, runAt)'
  <2>1. CASE Save(c)
    <3>1. /\ runs' = [runs EXCEPT ![runAt[c]] = c] /\ UNCHANGED <<runAt, record>>
          /\ pc[c] = "record" /\ reply' = [reply EXCEPT ![c] = "run"]
      BY <2>1 DEF Save, Return, useVars, runVars
    <3>2. runAt[c] \in 1..Instants /\ record[c].status # "none"
      BY <3>1, ReuseAssumption DEF IInv, Types, TypeOK, CallInv, Phase, Working
    <3>3. runs'[runAt[c]] = c /\ \A t \in 1..Instants \ {runAt[c]} : runs'[t] = runs[t]
      BY <3>1, <3>2 DEF IInv, Types, TypeOK
    <3>4. CASE d = c
      BY <3>1, <3>2, <3>3, <3>4
    <3>5. CASE d # c /\ runAt[d] = runAt[c]
      <4>1. reply[d] = "run"
        BY <1>1, <3>1, <3>5 DEF IInv, Types, TypeOK
      <4> QED
        BY <3>1, <3>5, <4>1 DEF IInv, RunsInv, SameInstant
    <3>6. CASE d # c /\ runAt[d] # runAt[c]
      <4>1. reply[d] = "run"
        BY <1>1, <3>1, <3>6 DEF IInv, Types, TypeOK
      <4>2. runAt[d] \in 1..Instants
        BY <4>1, ReuseAssumption DEF IInv, RunsInv, Types, TypeOK
      <4> QED
        BY <3>1, <3>3, <3>6, <4>1, <4>2 DEF IInv, RunsInv, SameInstant
    <3> QED
      BY <3>4, <3>5, <3>6
  <2>2. CASE UNCHANGED runs /\ reply'[c] # "run"
    <3>1. d # c /\ Kept(d)
      BY <1>1, <2>2, OthersKept DEF IInv
    <3>2. /\ reply[d] = "run" /\ runAt'[d] = runAt[d] /\ record'[d] = record[d]
      BY <1>1, <3>1 DEF Kept
    <3> QED
      BY <2>2, <3>2, SameInstantKept DEF IInv, RunsInv
  <2> QED
    BY <2>1, <2>2, SharedChanges
<1>2. MadeUp(c) # 0 => MadeUp(c) = useAt[c] /\ useAt[c] \in 1..Instants
  BY ReuseAssumption DEF MadeUp, IInv, Types, TypeOK
<1>3. ASSUME NEW t \in 1..Instants, artifact'[t] # NoCall PROVE useAt'[artifact'[t]] = t
  <2>1. \/ artifact'[t] = artifact[t]
        \/ artifact'[t] = c /\ useAt[c] = t
    BY <1>2, SharedChanges DEF IInv, Types, TypeOK
  <2>2. artifact'[t] \in Calls /\ useAt[artifact'[t]] = t
    BY <1>3, <2>1 DEF IInv, ArtifactInv, Types, TypeOK
  <2> QED
    BY <2>2, InstantsKept
<1>4. ASSUME NEW d \in Calls, checked'[d] \notin {d, NoCall}
      PROVE  useAt'[d] # 0 /\ SameInstant(d, useAt)'
  <2>1. CASE checked'[d] = checked[d]
    BY <1>4, <2>1, SameInstantKept, InstantsKept DEF IInv, ArtifactInv
  <2>2. CASE checked'[d] # checked[d]
    <3>1. /\ d = c /\ MadeUp(c) # 0 /\ artifact[MadeUp(c)] # NoCall
          /\ checked'[c] = artifact[MadeUp(c)]
      BY <2>2, SharedChanges DEF IInv, Types, TypeOK
    <3>2. artifact[MadeUp(c)] \in Calls \ {c} /\ useAt[artifact[MadeUp(c)]] = useAt[c]
      BY <1>2, <1>4, <3>1 DEF IInv, ArtifactInv, Types, TypeOK
    <3>3. useAt[c] # 0 /\ SameInstant(c, useAt)
      BY <1>2, <3>1, <3>2 DEF SameInstant
    <3> QED
      BY <3>1, <3>3, SameInstantKept, InstantsKept
  <2> QED
    BY <2>1, <2>2
<1> QED
  BY <1>1, <1>3, <1>4 DEF RunsInv, ArtifactInv

LEMMA InitInv == Init => IInv
<1>1. Init => RunsInv /\ ArtifactInv
  BY DEF Init, RunsInv, ArtifactInv
<1> QED
  BY <1>1, InitTypes, InitCalls DEF IInv

LEMMA NextInv == IInv /\ [Next]_vars => IInv'
<1> SUFFICES ASSUME IInv, [Next]_vars PROVE IInv'
  OBVIOUS
<1>1. Types' /\ (\A c \in Calls : CallInv(c))'
  BY NextTypes, NextCalls DEF IInv
<1>2. CASE UNCHANGED vars \/ \E p \in Promoters : ReadCapability(p) \/ SaveCapability(p)
  BY <1>1, <1>2
     DEF IInv, RunsInv, ArtifactInv, SameInstant, ReadCapability, SaveCapability,
         vars, world, useVars, runVars, files
<1>3. CASE \E c \in Calls : CallStep(c)
  BY <1>1, <1>3, NextShared DEF IInv
<1> QED
  BY <1>2, <1>3 DEF Next, CallStep

----------------------------------------------------------------------------

\* No promotion, however it falls between the list and the get, makes a call run
\* what was not asked for, or not verified as far as was asked.
THEOREM RunsWhatWasAsked == Spec => []ExecutedAsAsked
<1>1. IInv => ExecutedAsAsked
  <2> SUFFICES ASSUME IInv, NEW c \in Calls, exit[c] # "none"
               PROVE  /\ bound[c] \in ToSet(got[c]) /\ bound[c].level >= MinLevel(c)
                      /\ Required[bound[c].id] \subseteq plan[c].inputs
                      /\ ask[c].provider \in {0, ProviderOf[bound[c].id]}
                      /\ ask[c].use =>
                           /\ ask[c].intent[plan[c].cap] > 0
                           /\ \E b \in ToSet(listed[c][plan[c].cap]) :
                                b.id = bound[c].id /\ b.level >= MinLevel(c)
    BY DEF ExecutedAsAsked
  <2>1. runAt[c] # 0 /\ Chosen(c)
    BY DEF IInv, CallInv, Phase
  <2>2. bound[c] \in ToSet(got[c]) /\ bound[c] \in Promoted
        /\ Eligible(c, bound[c]) /\ Satisfied(c, bound[c])
    BY DEF IInv, CallInv, Resolved
  <2>3. ask[c].use => plan[c].binding = bound[c].id
    BY <2>1, <2>2 DEF Chosen, Eligible
  <2>4. ask[c].provider \in {0, ProviderOf[bound[c].id]}
    BY <2>1, <2>2, <2>3 DEF Chosen, Eligible
  <2> QED
    BY <2>1, <2>2, <2>3, <2>4 DEF Chosen, Eligible, Satisfied
<1> QED
  BY <1>1, InitInv, NextInv, PTL DEF Spec

\* Where a selection is turned down, its capability has changed since it was listed.
THEOREM SelectionsHold == Spec => []SelectionHolds
<1>1. IInv => SelectionHolds
  BY DEF IInv, CallInv, Recorded, SelectionHolds
<1> QED
  BY <1>1, InitInv, NextInv, PTL DEF Spec

\* Every run that is answered with is on record, as long as ids differ.
THEOREM AnsweredRunsStored == Spec => []RunsAccounted
<1>1. IInv => RunsAccounted
  BY DEF IInv, RunsInv, RunsAccounted
<1> QED
  BY <1>1, InitInv, NextInv, PTL DEF Spec

\* A use is verified on what it made itself, as long as ids differ.
THEOREM VerifiedOnItsOwn == Spec => []VerifiedOwnArtifact
<1>1. IInv => VerifiedOwnArtifact
  BY DEF IInv, CallInv, Recorded, ArtifactInv, VerifiedOwnArtifact
<1> QED
  BY <1>1, InitInv, NextInv, PTL DEF Spec
=============================================================================
