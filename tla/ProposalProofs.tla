--------------------------- MODULE ProposalProofs ---------------------------
(***************************************************************************)
(* For any number of plans, workers and candidates, whatever the calls      *)
(* answer and whenever the deadlines fall: the semaphore holds, Run         *)
(* outlives its goroutines, and what it returns is what the capabilities    *)
(* found, merged, selected and accounted for as the properties say.         *)
(*                                                                         *)
(* The merge, the selection and the attempts are recursive functions over   *)
(* the slots and the candidates.  Counting is the induction on the natural  *)
(* numbers that the least element of a set of them gives, and Recursion is  *)
(* that the functions are what their equations say.                         *)
(***************************************************************************)
EXTENDS Proposal, FiniteSetTheorems, WellFoundedInduction, SequenceTheorems, TLAPS

\* The pipelines' data, without the answer made from it.
DataOK ==
  /\ step \in [Pipelines -> {"none", "binding", "evidence", "finishing", "done"}]
  /\ found \in [Pipelines -> Bound \cup {<<>>}]
  /\ work \in [Pipelines -> PipelineResults]
  /\ results \in [Pipelines -> PipelineResults]

\* Where the dispatching loop stands: nothing is started beyond it, and what it
\* has passed over is marked.
LoopInv ==
  /\ plans \in 0..MaxPlans /\ next \in 1..(MaxPlans + 1)
  /\ pc \in {"idle", "surface", "capability"} => next = 1 /\ plans = 0
  /\ next <= plans + 1
  /\ \A k \in Pipelines : k >= next => step[k] = "none"
  /\ \A k \in Pipelines : k < next /\ step[k] = "none" => results[k].err
  /\ pc = "returned" => next > plans /\ Busy = {}

\* A pipeline at its evidence calls has a candidate left to ask about.
PlaceInv ==
  \A k \in Pipelines :
    /\ step[k] \in {"none", "binding"} => work[k].cands = <<>>
    /\ step[k] = "evidence" => Place(k) \in DOMAIN found[k]

\* Tokens and counts are held by the busy pipelines and by nothing else.
CountInv ==
  /\ sem = Cardinality(Busy) /\ wg = sem
  /\ sem \in Nat /\ sem <= Concurrency

IInv == DataOK /\ LoopInv /\ PlaceInv /\ CountInv

\* The initial states satisfy the invariant.
LEMMA InitInv == Init => IInv
<1> SUFFICES ASSUME Init PROVE IInv
  OBVIOUS
<1> USE ProposalAssumption
<1>1. Empty \in PipelineResults
  BY DEF Empty, PipelineResults
<1>2. Busy = {}
  BY DEF Init, Busy
<1>3. Cardinality(Busy) = 0
  BY <1>2, FS_EmptySet
<1>4. DataOK
  BY <1>1 DEF Init, DataOK
<1>5. LoopInv
  BY DEF Init, LoopInv, Pipelines
<1>6. PlaceInv
  BY DEF Init, PlaceInv, Empty
<1>7. CountInv
  BY <1>3 DEF Init, CountInv
<1> QED
  BY <1>4, <1>5, <1>6, <1>7 DEF IInv

\* The calls of a pipeline are calls, whichever place they are for.
LEMMA CallType ==
  ASSUME NEW k \in Pipelines, NEW i \in Nat
  PROVE  Call("binding", k, 0) \in Calls /\ EvidenceCall(k, i) \in Calls
BY ProposalAssumption DEF Call, EvidenceCall, Calls, Pipelines

\* There are finitely many pipelines, so they can be counted.
LEMMA BusyFinite == IsFiniteSet(Busy)
<1>1. IsFiniteSet(Pipelines)
  BY FS_Interval, ProposalAssumption DEF Pipelines
<1> QED
  BY <1>1, FS_Subset DEF Busy

\* A pipeline that changes step while it is busy leaves the counts alone.
LEMMA StaysBusy ==
  ASSUME IInv, NEW k \in Pipelines, step[k] \in {"binding", "evidence"},
         NEW s \in {"evidence", "finishing"}, step' = [step EXCEPT ![k] = s],
         UNCHANGED control
  PROVE  Busy' = Busy /\ CountInv'
<1>1. Busy' = Busy
  BY DEF IInv, DataOK, Busy
<1> QED
  BY <1>1 DEF IInv, CountInv, control

\* Steps of Run and of the deadlines that no pipeline notices.
LEMMA QuietInv ==
  ASSUME IInv, UNCHANGED <<pipes, results, sem, wg>>, LoopInv'
  PROVE  IInv'
<1>1. Busy' = Busy
  BY DEF Busy, pipes
<1> QED
  BY <1>1 DEF IInv, DataOK, PlaceInv, Place, CountInv, pipes

\* A serial stage that fails ends Run before any pipeline was started.
LEMMA StageFailsInv ==
  ASSUME IInv, NEW call \in {Surface, Capability}, StageFails(call)
  PROVE  IInv'
<1>1. call.name \in {"surface", "capability"}
  BY DEF Surface, Capability, Call
<1>2. next = 1 /\ plans = 0
  BY <1>1 DEF IInv, LoopInv, StageFails
<1>3. Busy = {} /\ Busy' = Busy
  BY <1>2 DEF IInv, LoopInv, StageFails, Busy, Pipelines, pipes
<1>4. LoopInv'
  BY <1>2, <1>3 DEF IInv, LoopInv, StageFails, control, pipes
<1> QED
  BY <1>4, QuietInv DEF StageFails, control

\* The plans are known: the loop is before the first of them.
LEMMA CapabilityInv == ASSUME IInv, CapabilitySucceeds PROVE IInv'
<1>2. next = 1 /\ next' = 1 /\ plans' \in 1..MaxPlans /\ pc' = "pipelines"
  BY DEF IInv, LoopInv, CapabilitySucceeds
<1>3. \A k \in Pipelines : k >= 1 /\ ~(k < 1) /\ step[k] = "none"
  BY <1>2, ProposalAssumption DEF IInv, LoopInv, Pipelines
<1>4. UNCHANGED step
  BY DEF CapabilitySucceeds, pipes
<1>5. /\ \A k \in Pipelines : k >= next' => step'[k] = "none"
      /\ \A k \in Pipelines : ~(k < next')
  BY <1>2, <1>3, <1>4
<1>6. plans' \in 0..MaxPlans /\ next' \in 1..(MaxPlans + 1) /\ next' <= plans' + 1
  <2>1. \A n \in 1..MaxPlans : n \in 0..MaxPlans /\ 1 \in 1..(MaxPlans + 1) /\ 1 <= n + 1
    BY ProposalAssumption
  <2> QED
    BY <1>2, <2>1
<1>7. LoopInv'
  BY <1>2, <1>5, <1>6 DEF LoopInv
<1> QED
  BY <1>7, QuietInv DEF CapabilitySucceeds

\* A pipeline more is busy, and there was a token for it.
LEMMA DispatchInv == ASSUME IInv, Dispatch PROVE IInv'
<1> USE ProposalAssumption
<1>1. next \in Pipelines /\ plans \in Nat /\ next \in Nat
  BY DEF IInv, LoopInv, Dispatch, Dispatching, Pipelines
<1>2. step[next] = "none"
  BY <1>1 DEF IInv, LoopInv, Pipelines
<1>3. next \notin Busy /\ Busy' = Busy \cup {next}
  BY <1>1, <1>2 DEF IInv, DataOK, Dispatch, Busy
<1>4. Cardinality(Busy') = Cardinality(Busy) + 1
  BY <1>3, BusyFinite, FS_AddElement
<1>5. sem < Concurrency
  BY <1>1 DEF IInv, CountInv, Dispatch, Workers
<1>6. CountInv'
  BY <1>4, <1>5 DEF IInv, CountInv, Dispatch
<1>7. DataOK'
  BY <1>1 DEF IInv, DataOK, Dispatch
<1>8. LoopInv'
  BY <1>1 DEF IInv, DataOK, LoopInv, Dispatch, Dispatching, Pipelines
<1>9. PlaceInv'
  BY <1>1, <1>2 DEF IInv, DataOK, PlaceInv, Place, Dispatch
<1> QED
  BY <1>6, <1>7, <1>8, <1>9 DEF IInv

\* A plan passed over is marked in its slot.
LEMMA SkipInv == ASSUME IInv, Skip PROVE IInv'
<1> USE ProposalAssumption
<1>1. next \in Pipelines /\ next \in Nat
  BY DEF IInv, LoopInv, Skip, Dispatching, Pipelines
<1>2. Busy' = Busy
  BY DEF Skip, Busy, pipes
<1>3. /\ results' \in [Pipelines -> PipelineResults]
      /\ results'[next].err
      /\ \A k \in Pipelines : k # next => results'[k] = results[k]
  BY <1>1 DEF IInv, DataOK, Skip, PipelineResults
<1>4. DataOK'
  BY <1>3 DEF IInv, DataOK, Skip, pipes
<1>5. LoopInv'
  BY <1>1, <1>2, <1>3 DEF IInv, LoopInv, Skip, Dispatching, Pipelines, pipes
<1>6. PlaceInv'
  BY DEF IInv, PlaceInv, Place, Skip, pipes
<1>7. CountInv'
  BY <1>2 DEF IInv, CountInv, Skip
<1> QED
  BY <1>4, <1>5, <1>6, <1>7 DEF IInv

\* With the WaitGroup at zero no pipeline is busy.
LEMMA MergeInv == ASSUME IInv, Merge PROVE IInv'
<1>1. Cardinality(Busy) = 0
  BY DEF IInv, CountInv, Merge
<1>2. Busy = {}
  BY <1>1, BusyFinite, FS_EmptySet
<1>3. Busy' = Busy
  BY DEF Merge, Busy, pipes
<1>4. LoopInv'
  BY <1>2, <1>3 DEF IInv, LoopInv, Merge, control, pipes
<1> QED
  BY <1>4, QuietInv DEF Merge, control

----------------------------------------------------------------------------
(* One pipeline's steps *)

\* The loop is not concerned with what a busy pipeline does.
LEMMA PipelineLoopInv ==
  ASSUME IInv, NEW k \in Pipelines, k \in Busy,
         NEW s \in {"evidence", "finishing", "done"},
         step' = [step EXCEPT ![k] = s],
         UNCHANGED <<pc, plans, next>>,
         \A j \in Pipelines : j # k => results'[j] = results[j]
  PROVE  LoopInv'
<1>1. pc # "returned"
  BY DEF IInv, LoopInv
<1>2. k < next
  BY ProposalAssumption DEF IInv, LoopInv, Busy, Pipelines
<1>3. \A j \in Pipelines : step'[j] = IF j = k THEN s ELSE step[j]
  BY DEF IInv, DataOK
<1> QED
  BY <1>1, <1>2, <1>3, ProposalAssumption DEF IInv, LoopInv, Pipelines

\* A call that fails sends its pipeline to its end.
LEMMA PipelineFailsInv ==
  ASSUME IInv, NEW k \in Pipelines, step[k] \in {"binding", "evidence"},
         NEW call \in Calls, PipelineFails(k, call)
  PROVE  IInv'
<1>1. step' = [step EXCEPT ![k] = "finishing"] /\ UNCHANGED <<found, results, pc, control>>
  BY DEF PipelineFails, Ended
<1>2. work' \in [Pipelines -> PipelineResults]
  <2>1. work[k] \in PipelineResults /\ Append(work[k].attempts, call) \in Seq(Calls)
    BY DEF IInv, DataOK, PipelineResults
  <2> QED
    BY <2>1 DEF IInv, DataOK, PipelineFails, PipelineResults
<1>3. DataOK'
  BY <1>1, <1>2 DEF IInv, DataOK
<1>4. LoopInv'
  BY <1>1, PipelineLoopInv DEF Busy, control
<1>5. PlaceInv'
  BY <1>1 DEF IInv, DataOK, PlaceInv, Place, PipelineFails
<1>6. CountInv'
  BY <1>1, StaysBusy
<1> QED
  BY <1>3, <1>4, <1>5, <1>6 DEF IInv

\* A binding call comes back with a candidate to ask about first.
LEMMA BindingSucceedsInv ==
  ASSUME IInv, NEW k \in Pipelines, BindingSucceeds(k)
  PROVE  IInv'
<1>1. /\ step[k] = "binding" /\ step' = [step EXCEPT ![k] = "evidence"]
      /\ UNCHANGED <<results, pc, control>>
  BY DEF BindingSucceeds, Ended
<1>2. Call("binding", k, 0) \in Calls
  BY CallType
<1>3. work' \in [Pipelines -> PipelineResults]
  <2>1. work[k] \in PipelineResults
        /\ Append(work[k].attempts, Call("binding", k, 0)) \in Seq(Calls)
    BY <1>2 DEF IInv, DataOK, PipelineResults
  <2> QED
    BY <2>1 DEF IInv, DataOK, BindingSucceeds, PipelineResults
<1>4. DataOK'
  BY <1>1, <1>3 DEF IInv, DataOK, BindingSucceeds
<1>5. LoopInv'
  BY <1>1, PipelineLoopInv DEF Busy, control
<1>6. PlaceInv'
  <2>1. found'[k] \in Bound /\ \A j \in Pipelines : j # k => found'[j] = found[j]
    BY DEF IInv, DataOK, BindingSucceeds
  <2>2. work'[k].cands = work[k].cands
    BY DEF IInv, DataOK, BindingSucceeds, PipelineResults
  <2>3. \A j \in Pipelines : j # k => work'[j] = work[j] /\ step'[j] = step[j]
    BY DEF IInv, DataOK, BindingSucceeds
  <2>4. Place(k)' \in DOMAIN found'[k]
    <3>1. Place(k)' = 1
      BY <1>1, <2>2 DEF IInv, PlaceInv, Place
    <3>2. found'[k] \in Seq(Identities) /\ found'[k] # <<>>
      BY <2>1, ProposalAssumption
    <3> QED
      BY <3>1, <3>2
  <2> QED
    <3>1. step'[k] = "evidence"
      BY <1>1 DEF IInv, DataOK
    <3> QED
      BY <2>1, <2>3, <2>4, <3>1 DEF IInv, PlaceInv, Place
<1>7. CountInv'
  BY <1>1, StaysBusy
<1> QED
  BY <1>4, <1>5, <1>6, <1>7 DEF IInv

\* There is a next candidate to ask about, or the pipeline is at its end.
LEMMA EvidenceSucceedsInv ==
  ASSUME IInv, NEW k \in Pipelines, EvidenceSucceeds(k)
  PROVE  IInv'
<1> DEFINE i == Place(k)
           last == i = Len(found[k])
           s == IF last THEN "finishing" ELSE "evidence"
           c == [id |-> found[k][i], owner |-> k, nth |-> i]
           p == [index |-> i, owner |-> k, nth |-> i]
<1>1. /\ step[k] = "evidence" /\ step' = [step EXCEPT ![k] = s]
      /\ UNCHANGED <<found, results, pc, control>>
  BY DEF EvidenceSucceeds, Ended
<1>2. found[k] \in Seq(Identities) /\ i \in DOMAIN found[k]
  BY <1>1, ProposalAssumption DEF IInv, DataOK, PlaceInv
<1>3. work[k] \in PipelineResults
  BY DEF IInv, DataOK
<1>4. i \in Nat
  BY <1>2
<1>5. c \in Candidates /\ p \in ProbePlans /\ EvidenceCall(k, i) \in Calls
  BY <1>2, <1>4, CallType DEF Candidates, ProbePlans
<1>6. /\ Append(work[k].cands, c) \in Seq(Candidates)
      /\ Append(work[k].plans, p) \in Seq(ProbePlans)
      /\ Append(work[k].attempts, EvidenceCall(k, i)) \in Seq(Calls)
      /\ Len(Append(work[k].cands, c)) = i
  BY <1>3, <1>5 DEF PipelineResults, Place
<1> HIDE DEF c, p, i
<1>7. work' = [work EXCEPT ![k].cands = Append(@, c), ![k].plans = Append(@, p),
                           ![k].attempts = Append(@, EvidenceCall(k, i))]
  BY DEF EvidenceSucceeds, c, p, i
<1>8. /\ work' \in [Pipelines -> PipelineResults]
      /\ work'[k].cands = Append(work[k].cands, c)
      /\ \A j \in Pipelines : j # k => work'[j] = work[j]
  BY <1>3, <1>6, <1>7 DEF IInv, DataOK, PipelineResults
<1>9. DataOK'
  BY <1>1, <1>8 DEF IInv, DataOK
<1>10. LoopInv'
  BY <1>1, PipelineLoopInv DEF Busy, control
<1>11. PlaceInv'
  <2>1. ~last => i + 1 \in DOMAIN found[k]
    BY <1>2, <1>4
  <2>2. Place(k)' = i + 1
    BY <1>6, <1>8 DEF Place
  <2>3. step'[k] = s /\ \A j \in Pipelines : j # k => step'[j] = step[j]
    BY <1>1 DEF IInv, DataOK
  <2>4. ASSUME NEW j \in Pipelines, j # k
        PROVE  /\ step'[j] \in {"none", "binding"} => work'[j].cands = <<>>
               /\ step'[j] = "evidence" => Place(j)' \in DOMAIN found'[j]
    BY <1>1, <1>8, <2>3, <2>4 DEF IInv, PlaceInv, Place
  <2>5. /\ step'[k] \notin {"none", "binding"}
        /\ step'[k] = "evidence" => Place(k)' \in DOMAIN found'[k]
    BY <1>1, <2>1, <2>2, <2>3
  <2> QED
    BY <2>4, <2>5 DEF PlaceInv
<1>12. CountInv'
  BY <1>1, StaysBusy
<1> QED
  BY <1>9, <1>10, <1>11, <1>12 DEF IInv

\* A goroutine that ends gives its token and its count back.
LEMMA FinishInv == ASSUME IInv, NEW k \in Pipelines, Finish(k) PROVE IInv'
<1>1. step[k] = "finishing" /\ step' = [step EXCEPT ![k] = "done"]
  BY DEF Finish
<1>2. k \in Busy /\ Busy' = Busy \ {k}
  BY <1>1 DEF IInv, DataOK, Busy
<1>3. Cardinality(Busy') = Cardinality(Busy) - 1
  BY <1>2, BusyFinite, FS_RemoveElement
<1>4. Cardinality(Busy') \in Nat
  BY <1>2, BusyFinite, FS_RemoveElement, FS_CardinalityType
<1>5. CountInv'
  BY <1>3, <1>4, ProposalAssumption DEF IInv, CountInv, Finish
<1>6. DataOK'
  BY DEF IInv, DataOK, Finish
<1>7. LoopInv'
  <2>1. \A j \in Pipelines : j # k => results'[j] = results[j]
    BY DEF IInv, DataOK, Finish
  <2> QED
    BY <1>1, <1>2, <2>1, PipelineLoopInv DEF Finish
<1>8. PlaceInv'
  BY <1>1 DEF IInv, DataOK, PlaceInv, Place, Finish
<1> QED
  BY <1>5, <1>6, <1>7, <1>8 DEF IInv

----------------------------------------------------------------------------
(* The theorems *)

\* Every step keeps the invariant.
LEMMA StepInv == IInv /\ [Next]_vars => IInv'
<1> SUFFICES ASSUME IInv, [Next]_vars PROVE IInv'
  OBVIOUS
<1> USE DEF control
<1>1. CASE Begin
  <2>1. LoopInv'
    BY <1>1 DEF IInv, LoopInv, Begin, pipes, Busy
  <2> QED
    BY <1>1, <2>1, QuietInv DEF Begin
<1>2. CASE SurfaceSucceeds
  <2>1. LoopInv'
    BY <1>2 DEF IInv, LoopInv, SurfaceSucceeds, pipes, Busy
  <2> QED
    BY <1>2, <2>1, QuietInv DEF SurfaceSucceeds
<1>3. CASE StageFails(Surface) \/ StageFails(Capability)
  BY <1>3, StageFailsInv
<1>4. CASE CapabilitySucceeds
  BY <1>4, CapabilityInv
<1>5. CASE Dispatch
  BY <1>5, DispatchInv
<1>6. CASE Skip
  BY <1>6, SkipInv
<1>7. CASE Merge
  BY <1>7, MergeInv
<1>8. CASE Expire
  <2>1. LoopInv'
    BY <1>8 DEF IInv, LoopInv, Expire, pipes, Busy
  <2> QED
    BY <1>8, <2>1, QuietInv DEF Expire
<1>9. ASSUME NEW k \in Pipelines, Pipeline(k) PROVE IInv'
  <2>1. CASE BindingSucceeds(k)
    BY <2>1, BindingSucceedsInv
  <2>2. CASE BindingFails(k)
    BY <2>2, PipelineFailsInv, CallType DEF BindingFails
  <2>3. CASE EvidenceSucceeds(k)
    BY <2>3, EvidenceSucceedsInv
  <2>4. CASE EvidenceFails(k)
    <3>1. Place(k) \in Nat
      BY DEF IInv, DataOK, PipelineResults, Place
    <3> QED
      BY <2>4, <3>1, PipelineFailsInv, CallType DEF EvidenceFails
  <2>5. CASE Finish(k)
    BY <2>5, FinishInv
  <2> QED
    BY <1>9, <2>1, <2>2, <2>3, <2>4, <2>5 DEF Pipeline
<1>10. ASSUME NEW k \in Pipelines, ExpirePipeline(k) PROVE IInv'
  <2>1. UNCHANGED <<pc, control, step, found, work, results>>
    BY <1>10 DEF ExpirePipeline
  <2>2. Busy' = Busy
    BY <2>1 DEF Busy
  <2> QED
    BY <2>1, <2>2 DEF IInv, DataOK, LoopInv, PlaceInv, Place, CountInv
<1>11. CASE UNCHANGED vars
  <2>1. LoopInv'
    BY <1>11 DEF IInv, LoopInv, vars, pipes, Busy
  <2> QED
    BY <1>11, <2>1, QuietInv DEF vars
<1> QED
  BY <1>1, <1>2, <1>3, <1>4, <1>5, <1>6, <1>7, <1>8, <1>9, <1>10, <1>11
  DEF Next, Main

\* The invariant holds.
LEMMA Inductive == Spec => []IInv
BY InitInv, StepInv, PTL DEF Spec

\* The semaphore's channel bounds the pipelines at work (runCapabilityPipelines).
THEOREM ConcurrencyBounded == Spec => []WithinConcurrency
<1>1. IInv => WithinConcurrency
  BY DEF IInv, CountInv, WithinConcurrency
<1> QED
  BY <1>1, Inductive, PTL

\* wg.Wait is enough: no goroutine is left, and no slot unexplained, when the
\* slots are merged (runCapabilityPipelines, Run).
THEOREM MergesFinishedWork == Spec => []NoneOutlivesRun
<1>1. IInv => NoneOutlivesRun
  <2> SUFFICES ASSUME IInv, pc = "returned"
               PROVE  Busy = {} /\ \A k \in 1..plans : step[k] = "none" => results[k].err
    BY DEF NoneOutlivesRun
  <2> QED
    BY ProposalAssumption DEF IInv, LoopInv, Pipelines
<1> QED
  BY <1>1, Inductive, PTL
----------------------------------------------------------------------------
(* Types *)

\* The variables IInv does not speak of.
RestOK ==
  /\ pc \in {"idle", "surface", "capability", "pipelines", "returned"}
  /\ ctxDone \in BOOLEAN /\ limit \in Limits
  /\ expired \in [Pipelines -> BOOLEAN]
  /\ events \subseteq [call : Calls, status : {"started", "succeeded", "failed"}]
  /\ attempts \in Seq(Calls)
  /\ answer.code \in {"none", "ok", "stage_failed", "no_candidates", "select_failed"}

\* The calls of the serial stages are calls.
LEMMA SerialCalls == Surface \in Calls /\ Capability \in Calls
BY ProposalAssumption DEF Surface, Capability, Call, Calls

\* The events of calls are events.
LEMMA EvType ==
  ASSUME NEW call \in Calls, NEW status \in {"started", "succeeded", "failed"}
  PROVE  Ev(call, status) \in [call : Calls, status : {"started", "succeeded", "failed"}]
BY DEF Ev

\* A step of a pipeline whose calls are calls.
LEMMA EndedRest ==
  ASSUME RestOK, NEW k \in Pipelines, NEW call \in Calls,
         NEW status \in {"succeeded", "failed"},
         NEW next_call \in Calls, NEW started \in SUBSET {Ev(next_call, "started")},
         Ended(k, call, status, started)
  PROVE  RestOK'
<1>1. Ev(call, status) \in [call : Calls, status : {"started", "succeeded", "failed"}]
  BY EvType
<1>2. Ev(next_call, "started") \in [call : Calls, status : {"started", "succeeded", "failed"}]
  BY EvType
<1> QED
  BY <1>1, <1>2 DEF RestOK, Ended, control

\* Every step keeps the types of the other variables.
LEMMA RestStep == IInv /\ RestOK /\ [Next]_vars => RestOK'
<1> SUFFICES ASSUME IInv, RestOK, [Next]_vars PROVE RestOK'
  OBVIOUS
<1> USE DEF control, pipes
<1>s. /\ Ev(Surface, "started") \in [call : Calls, status : {"started", "succeeded", "failed"}]
      /\ Ev(Surface, "succeeded") \in [call : Calls, status : {"started", "succeeded", "failed"}]
      /\ Ev(Surface, "failed") \in [call : Calls, status : {"started", "succeeded", "failed"}]
      /\ Ev(Capability, "started") \in [call : Calls, status : {"started", "succeeded", "failed"}]
      /\ Ev(Capability, "succeeded") \in [call : Calls, status : {"started", "succeeded", "failed"}]
      /\ Ev(Capability, "failed") \in [call : Calls, status : {"started", "succeeded", "failed"}]
  BY SerialCalls, EvType
<1>1. CASE Begin
  BY <1>1, <1>s DEF RestOK, Begin
<1>2. CASE SurfaceSucceeds
  BY <1>2, <1>s, SerialCalls DEF RestOK, SurfaceSucceeds
<1>3. ASSUME NEW call \in {Surface, Capability}, StageFails(call) PROVE RestOK'
  BY <1>3, <1>s, SerialCalls DEF RestOK, StageFails, Answer
<1>4. CASE CapabilitySucceeds
  BY <1>4, <1>s, SerialCalls DEF RestOK, CapabilitySucceeds
<1>5. CASE Dispatch
  <2>1. next \in Pipelines
    BY <1>5, ProposalAssumption DEF IInv, LoopInv, Dispatch, Dispatching, Pipelines
  <2>2. Ev(Call("binding", next, 0), "started")
          \in [call : Calls, status : {"started", "succeeded", "failed"}]
    BY <2>1, CallType, EvType
  <2> QED
    BY <1>5, <2>2 DEF RestOK, Dispatch
<1>6. CASE Skip
  BY <1>6 DEF RestOK, Skip
<1>7. CASE Merge
  <2>1. answer'.code \in {"ok", "no_candidates", "select_failed"}
    BY <1>7 DEF Merge, Answer
  <2> QED
    BY <1>7, <2>1 DEF RestOK, Merge
<1>8. CASE Expire
  BY <1>8 DEF RestOK, Expire
<1>9. ASSUME NEW k \in Pipelines, Pipeline(k) PROVE RestOK'
  <2>1. Place(k) \in Nat /\ Place(k) + 1 \in Nat
    BY DEF IInv, DataOK, PipelineResults, Place
  <2>2. /\ Call("binding", k, 0) \in Calls /\ EvidenceCall(k, 1) \in Calls
        /\ EvidenceCall(k, Place(k)) \in Calls /\ EvidenceCall(k, Place(k) + 1) \in Calls
    BY <2>1, CallType
  <2>3. CASE BindingSucceeds(k)
    BY <2>2, <2>3, EndedRest DEF BindingSucceeds
  <2>4. CASE BindingFails(k)
    BY <2>2, <2>4, EndedRest DEF BindingFails, PipelineFails
  <2>5. CASE EvidenceSucceeds(k)
    <3>1. PICK started \in SUBSET {Ev(EvidenceCall(k, Place(k) + 1), "started")} :
            Ended(k, EvidenceCall(k, Place(k)), "succeeded", started)
      BY <2>5 DEF EvidenceSucceeds
    <3> QED
      BY <2>2, <3>1, EndedRest
  <2>6. CASE EvidenceFails(k)
    BY <2>2, <2>6, EndedRest DEF EvidenceFails, PipelineFails
  <2>7. CASE Finish(k)
    BY <2>7 DEF RestOK, Finish
  <2> QED
    BY <1>9, <2>3, <2>4, <2>5, <2>6, <2>7 DEF Pipeline
<1>10. ASSUME NEW k \in Pipelines, ExpirePipeline(k) PROVE RestOK'
  BY <1>10 DEF RestOK, ExpirePipeline
<1>11. CASE UNCHANGED vars
  BY <1>11 DEF RestOK, vars
<1> QED
  BY <1>1, <1>2, <1>3, <1>4, <1>5, <1>6, <1>7, <1>8, <1>9, <1>10, <1>11
  DEF Next, Main

\* Every variable of the proposal keeps its type, whatever the calls answer and
\* whenever the deadlines fall (Run, runCapabilityPipelines).
THEOREM TypeCorrect == Spec => []TypeOK
<1>1. Init => RestOK
  <2> SUFFICES ASSUME Init PROVE RestOK
    OBVIOUS
  <2>1. answer.code = "none"
    BY DEF Init, Answer
  <2>2. <<>> \in Seq(Calls)
    OBVIOUS
  <2> QED
    BY <2>1, <2>2 DEF Init, RestOK
<1>2. IInv /\ RestOK => TypeOK
  BY DEF IInv, DataOK, LoopInv, CountInv, RestOK, TypeOK
<1> QED
  BY <1>1, <1>2, InitInv, StepInv, RestStep, PTL DEF Spec

----------------------------------------------------------------------------
(* Induction on the natural numbers *)

\* The library's order of the natural numbers, as a set of pairs.
LEMMA LessThan == OpToRel(<, Nat) = {ss \in Nat \X Nat : ss[1] < ss[2]}
BY Zenon DEF OpToRel

\* A set of natural numbers that is not empty has a least member.
LEMMA Least ==
  ASSUME NEW T \in SUBSET Nat, T # {}
  PROVE  \E x \in T : \A y \in T : x <= y
<1> DEFINE R == {ss \in Nat \X Nat : ss[1] < ss[2]}
<1>1. IsWellFoundedOn(R, Nat)
  BY NatLessThanWellFounded, LessThan
<1>2. \E x \in T : \A y \in T : ~(<<y, x>> \in R)
  <2> HIDE DEF R
  <2> QED BY <1>1, WFMin
<1>3. \A x, y \in Nat : y < x => <<y, x>> \in R
  OBVIOUS
<1>4. PICK x \in T : \A y \in T : ~(<<y, x>> \in R)
  BY <1>2
<1> HIDE DEF R
<1>5. \A y \in T : ~(y < x)
  BY <1>3, <1>4
<1> QED BY <1>5

\* What holds of 0, and of n + 1 when it holds of n, holds of them all.
LEMMA Counting ==
  ASSUME NEW S, 0 \in S, \A n \in Nat : n \in S => n + 1 \in S
  PROVE  Nat \subseteq S
<1>1. SUFFICES ASSUME Nat \ S # {} PROVE FALSE
  OBVIOUS
<1>2. PICK x \in Nat \ S : \A y \in Nat \ S : x <= y
  BY <1>1, Least
<1>3. x # 0 /\ x - 1 \in Nat
  BY <1>2
<1>4. x - 1 \in S
  BY <1>2, <1>3
<1> QED BY <1>2, <1>3, <1>4

\* The same, up to a bound.
LEMMA CountingUpTo ==
  ASSUME NEW N \in Nat, NEW S, 0 \in S, \A n \in 1..N : n - 1 \in S => n \in S
  PROVE  \A n \in 0..N : n \in S
<1> DEFINE T == {n \in Nat : n <= N => n \in S}
<1>1. 0 \in T
  OBVIOUS
<1>2. ASSUME NEW n \in Nat, n \in T PROVE n + 1 \in T
  <2>1. n + 1 <= N => n \in S /\ n + 1 \in 1..N /\ (n + 1) - 1 = n
    BY <1>2
  <2> QED
    BY <2>1
<1>3. Nat \subseteq T
  <2> HIDE DEF T
  <2> QED
    BY <1>1, <1>2, Counting
<1> QED
  BY <1>3

\* A recursion of N steps over the values of X, and what it computes.
Steps(N, X) == [1..N -> [X -> X]]
Computes(f, N, X, base, Step) ==
  /\ f \in [0..N -> X] /\ f[0] = base
  /\ \A n \in 1..N : f[n] = Step[n][f[n - 1]]

\* There is a function that a recursion of N steps computes.
LEMMA Recursion ==
  ASSUME NEW N \in Nat, NEW X, NEW base \in X, NEW Step \in Steps(N, X)
  PROVE  \E f : Computes(f, N, X, base, Step)
<1> DEFINE S == {m \in Nat : \E f \in [0..m -> X] :
                   f[0] = base /\ \A n \in 1..m : f[n] = Step[n][f[n - 1]]}
<1>1. 0 \in S
  <2> DEFINE f == [i \in 0..0 |-> base]
  <2>1. f \in [0..0 -> X] /\ f[0] = base /\ \A n \in 1..0 : f[n] = Step[n][f[n - 1]]
    OBVIOUS
  <2> HIDE DEF f
  <2> QED
    BY <2>1
<1>2. ASSUME NEW m \in 1..N, m - 1 \in S PROVE m \in S
  <2>1. PICK f \in [0..(m - 1) -> X] :
          f[0] = base /\ \A n \in 1..(m - 1) : f[n] = Step[n][f[n - 1]]
    BY <1>2
  <2> DEFINE g == [i \in 0..m |-> IF i = m THEN Step[m][f[m - 1]] ELSE f[i]]
  <2>2. Step[m][f[m - 1]] \in X
    BY DEF Steps
  <2>3. g \in [0..m -> X]
    BY <2>2
  <2>4. g[0] = base
    BY <2>1
  <2>5. ASSUME NEW n \in 1..m PROVE g[n] = Step[n][g[n - 1]]
    <3>1. CASE n = m
      BY <3>1
    <3>2. CASE n # m
      <4>1. n \in 1..(m - 1) /\ n - 1 \in 0..(m - 1)
        BY <3>2
      <4> QED
        BY <3>2, <4>1, <2>1
    <3> QED
      BY <3>1, <3>2
  <2> HIDE DEF g
  <2>6. m \in Nat
    OBVIOUS
  <2> QED
    BY <2>3, <2>4, <2>5, <2>6
<1>3. N \in S
  <2> HIDE DEF S
  <2>1. \A n \in 0..N : n \in S
    BY <1>1, <1>2, CountingUpTo
  <2> QED
    BY <2>1
<1> QED
  BY <1>3 DEF Computes

----------------------------------------------------------------------------
(* The merge *)

\* The empty merge, and what merges are made of.
Blank == [cands |-> <<>>, plans |-> <<>>]
MergeResults == [cands : Seq(Candidates), plans : Seq(ProbePlans)]

\* Appending a pipeline to a merge is a merge.
LEMMA AppendPipelineType ==
  ASSUME NEW r \in MergeResults, NEW p \in PipelineResults
  PROVE  AppendPipeline(r, p) \in MergeResults
<1>1. /\ r.cands \in Seq(Candidates) /\ r.plans \in Seq(ProbePlans)
      /\ p.cands \in Seq(Candidates) /\ p.plans \in Seq(ProbePlans)
  BY DEF MergeResults, PipelineResults
<1> DEFINE moved == [i \in DOMAIN p.plans |-> [p.plans[i] EXCEPT !.index = @ + Len(r.cands)]]
<1>2. moved \in Seq(ProbePlans)
  <2>1. ASSUME NEW i \in 1..Len(p.plans)
        PROVE  [p.plans[i] EXCEPT !.index = @ + Len(r.cands)] \in ProbePlans
    <3>1. p.plans[i] \in ProbePlans /\ Len(r.cands) \in Nat
      BY <1>1
    <3> QED BY <3>1 DEF ProbePlans
  <2>2. DOMAIN p.plans = 1..Len(p.plans) /\ Len(p.plans) \in Nat
    BY <1>1
  <2>3. moved \in [1..Len(p.plans) -> ProbePlans]
    BY <2>1, <2>2
  <2> QED
    BY <2>2, <2>3, SeqDef
<1> HIDE DEF moved
<1>3. AppendPipeline(r, p) = [cands |-> r.cands \o p.cands, plans |-> r.plans \o moved]
  BY DEF AppendPipeline, moved
<1> QED
  BY <1>1, <1>2, <1>3 DEF MergeResults

\* MergedUpTo is what its equations say, and a merge at every slot.
LEMMA MergeRecursion ==
  ASSUME results \in [Pipelines -> PipelineResults]
  PROVE  /\ \A n \in 0..MaxPlans : MergedUpTo[n] \in MergeResults
         /\ MergedUpTo[0] = Blank
         /\ \A n \in Pipelines :
              MergedUpTo[n] = IF results[n].err THEN MergedUpTo[n - 1]
                              ELSE AppendPipeline(MergedUpTo[n - 1], results[n])
<1> DEFINE Step == [n \in 1..MaxPlans |-> [r \in MergeResults |->
                      IF results[n].err THEN r ELSE AppendPipeline(r, results[n])]]
           Body(f) == [n \in 0..MaxPlans |-> IF n = 0 THEN Blank
                         ELSE IF results[n].err THEN f[n - 1]
                         ELSE AppendPipeline(f[n - 1], results[n])]
<1>1. Blank \in MergeResults
  BY DEF Blank, MergeResults
<1>2. Step \in Steps(MaxPlans, MergeResults)
  BY AppendPipelineType DEF Pipelines, Steps
<1>3. MaxPlans \in Nat
  BY ProposalAssumption
<1>4. PICK f : Computes(f, MaxPlans, MergeResults, Blank, Step)
  <2> HIDE DEF Step, Body
  <2> QED
    BY <1>1, <1>2, <1>3, Recursion
<1>5. f = Body(f)
  <2>1. /\ f \in [0..MaxPlans -> MergeResults] /\ f[0] = Blank
        /\ \A n \in 1..MaxPlans : f[n] = Step[n][f[n - 1]]
    BY <1>4 DEF Computes
  <2>2. \A n \in 1..MaxPlans : f[n] = IF results[n].err THEN f[n - 1]
                                      ELSE AppendPipeline(f[n - 1], results[n])
    <3>1. \A n \in 1..MaxPlans : n - 1 \in 0..MaxPlans
      BY <1>3
    <3> QED
      BY <2>1, <3>1
  <2> QED
    BY <2>1, <2>2
<1>6. MergedUpTo = CHOOSE g : g = Body(g)
  BY Zenon DEF MergedUpTo, Blank
<1>7. MergedUpTo = Body(MergedUpTo)
  <2> HIDE DEF Body
  <2> QED
    BY <1>5, <1>6
<1>8. \A n \in 0..MaxPlans : MergedUpTo[n] = Body(MergedUpTo)[n]
  <2> HIDE DEF Body
  <2> QED
    BY <1>7
<1>9. MergedUpTo[0] = Blank
  BY <1>3, <1>8
<1>10. ASSUME NEW n \in Pipelines
      PROVE  MergedUpTo[n] = IF results[n].err THEN MergedUpTo[n - 1]
                             ELSE AppendPipeline(MergedUpTo[n - 1], results[n])
  <2>1. n \in 0..MaxPlans /\ n # 0
    BY <1>3 DEF Pipelines
  <2> QED
    BY <1>8, <2>1
<1>11. ASSUME NEW n \in 0..MaxPlans PROVE MergedUpTo[n] \in MergeResults
  <2> DEFINE S == {m \in 0..MaxPlans : MergedUpTo[m] \in MergeResults}
  <2>1. 0 \in S
    BY <1>1, <1>3, <1>9
  <2>2. ASSUME NEW m \in 1..MaxPlans, m - 1 \in S PROVE m \in S
    <3>1. m \in Pipelines /\ m \in 0..MaxPlans /\ MergedUpTo[m - 1] \in MergeResults
      BY <1>3, <2>2 DEF Pipelines
    <3> QED
      BY <1>10, <3>1, AppendPipelineType
  <2> HIDE DEF S
  <2>3. \A m \in 0..MaxPlans : m \in S
    BY <1>3, <2>1, <2>2, CountingUpTo
  <2> QED
    BY <2>3 DEF S
<1> QED
  BY <1>9, <1>10, <1>11

\* The candidate a pipeline made at a place of its own list, and its probe plan.
Cand(k, i) == [id |-> found[k][i], owner |-> k, nth |-> i]

\* The probe plan of candidate c at place i.
PlanOf(c, i) == [index |-> i, owner |-> c.owner, nth |-> c.nth]

\* Each candidate has its probe plan at its own place.
Planned(r) ==
  /\ Len(r.plans) = Len(r.cands)
  /\ \A i \in 1..Len(r.cands) : r.plans[i] = PlanOf(r.cands[i], i)

\* What a pipeline without an error leaves in its slot.
SlotWhole(k) ==
  ~results[k].err =>
    /\ Planned(results[k])
    /\ \A i \in 1..Len(results[k].cands) : results[k].cands[i] = Cand(k, i)

\* A candidate as the properties name it; the places of the slot of k.
Pair(c) == <<c.owner, c.nth>>
Places(k) == 1..Len(results[k].cands)

\* The candidates of the first n slots without an error, all of them, in order.
MergedRight(n) ==
  LET r == MergedUpTo[n] IN
  /\ Planned(r)
  /\ \A j \in 1..Len(r.cands) :
       \E k \in 1..n : /\ ~results[k].err
                       /\ \E i \in Places(k) : r.cands[j] = Cand(k, i)
  /\ \A i, j \in 1..Len(r.cands) : i < j => Before(Pair(r.cands[i]), Pair(r.cands[j]))
  /\ \A k \in 1..n : ~results[k].err =>
       \A i \in Places(k) : \E j \in 1..Len(r.cands) : r.cands[j] = Cand(k, i)

\* q is s and then t, element by element.
Joins(q, s, t) ==
  /\ Len(q) = Len(s) + Len(t)
  /\ \A i \in 1..Len(s) : i \in 1..Len(q) /\ q[i] = s[i]
  /\ \A i \in 1..Len(t) : Len(s) + i \in 1..Len(q) /\ q[Len(s) + i] = t[i]
  /\ \A j \in 1..Len(q) : j \in 1..Len(s) \/ \E i \in 1..Len(t) : j = Len(s) + i

\* Concatenation joins.
LEMMA Concatenated ==
  ASSUME NEW X, NEW s \in Seq(X), NEW t \in Seq(X)
  PROVE  s \o t \in Seq(X) /\ Joins(s \o t, s, t)
<1> DEFINE n == Len(s)
           m == Len(t)
           q == s \o t
<1>1. n \in Nat /\ m \in Nat
  OBVIOUS
<1>2. /\ q \in Seq(X) /\ Len(q) = n + m
      /\ \A i \in 1..(n + m) : q[i] = IF i <= n THEN s[i] ELSE t[i - n]
  BY ConcatProperties
<1> HIDE DEF n, m, q
<1>3. \A i \in 1..n : i \in 1..(n + m) /\ i <= n
  BY <1>1
<1>4. \A i \in 1..m : n + i \in 1..(n + m) /\ ~(n + i <= n) /\ (n + i) - n = i
  BY <1>1
<1>5. \A j \in 1..(n + m) : j \in 1..n \/ (j - n \in 1..m /\ j = n + (j - n))
  BY <1>1
<1>6. \A i \in 1..n : i \in 1..Len(q) /\ q[i] = s[i]
  BY <1>2, <1>3
<1>7. \A i \in 1..m : n + i \in 1..Len(q) /\ q[n + i] = t[i]
  BY <1>2, <1>4
<1>8. \A j \in 1..Len(q) : j \in 1..n \/ \E i \in 1..m : j = n + i
  BY <1>2, <1>5
<1> QED
  BY <1>2, <1>6, <1>7, <1>8 DEF Joins, n, m, q

\* A pipeline appended leaves each candidate with its plan at its own place: the
\* offset that appendPipeline adds is the right one.
LEMMA Appended ==
  ASSUME NEW r \in MergeResults, NEW p \in PipelineResults, Planned(r), Planned(p)
  PROVE  Planned(AppendPipeline(r, p)) /\ Joins(AppendPipeline(r, p).cands, r.cands, p.cands)
<1> DEFINE q == AppendPipeline(r, p)
           n == Len(r.cands)
           m == Len(p.cands)
           moved == [i \in DOMAIN p.plans |-> [p.plans[i] EXCEPT !.index = @ + n]]
<1>1. /\ r.cands \in Seq(Candidates) /\ r.plans \in Seq(ProbePlans)
      /\ p.cands \in Seq(Candidates) /\ p.plans \in Seq(ProbePlans)
  BY DEF MergeResults, PipelineResults
<1>2. n \in Nat /\ m \in Nat /\ Len(r.plans) = n /\ Len(p.plans) = m
  BY <1>1 DEF Planned
<1>3. DOMAIN p.plans = 1..m
  BY <1>1, <1>2
<1>4. \A i \in 1..m : moved[i] = PlanOf(p.cands[i], n + i)
  <2> SUFFICES ASSUME NEW i \in 1..m PROVE moved[i] = PlanOf(p.cands[i], n + i)
    OBVIOUS
  <2>1. p.plans[i] = [index |-> i, owner |-> p.cands[i].owner, nth |-> p.cands[i].nth]
    BY DEF Planned, PlanOf
  <2>2. moved[i] = [p.plans[i] EXCEPT !.index = @ + n]
    BY <1>3
  <2>3. moved[i] = [index |-> i + n, owner |-> p.cands[i].owner, nth |-> p.cands[i].nth]
    BY <2>1, <2>2
  <2>4. i + n = n + i
    BY <1>2
  <2> QED
    BY <2>3, <2>4 DEF PlanOf
<1>5. moved \in Seq(ProbePlans) /\ Len(moved) = m
  <2>1. \A i \in 1..m : moved[i] \in ProbePlans
    <3> SUFFICES ASSUME NEW i \in 1..m PROVE PlanOf(p.cands[i], n + i) \in ProbePlans
      BY <1>4
    <3>1. p.cands[i] \in Candidates /\ n + i \in Nat
      BY <1>1, <1>2
    <3> QED
      BY <3>1 DEF PlanOf, ProbePlans, Candidates
  <2>2. moved \in [1..m -> ProbePlans]
    BY <1>3, <2>1
  <2> HIDE DEF moved
  <2> QED
    BY <1>2, <2>2, SeqDef
<1>6. q.cands = r.cands \o p.cands /\ q.plans = r.plans \o moved
  BY DEF AppendPipeline
<1> HIDE DEF moved, q
<1>7. Joins(q.cands, r.cands, p.cands)
  BY <1>1, <1>6, Concatenated
<1>8. Joins(q.plans, r.plans, moved)
  BY <1>1, <1>5, <1>6, Concatenated
<1>9. /\ Len(q.cands) = n + m
      /\ \A i \in 1..n : q.cands[i] = r.cands[i]
      /\ \A i \in 1..m : q.cands[n + i] = p.cands[i]
      /\ \A j \in 1..Len(q.cands) : j \in 1..n \/ \E i \in 1..m : j = n + i
  BY <1>7 DEF Joins
<1>10. /\ Len(q.plans) = n + m
       /\ \A i \in 1..n : q.plans[i] = r.plans[i]
       /\ \A i \in 1..m : q.plans[n + i] = moved[i]
  BY <1>2, <1>5, <1>8 DEF Joins
<1> HIDE DEF n, m
<1>11. Planned(q)
  <2> SUFFICES ASSUME NEW j \in 1..Len(q.cands) PROVE q.plans[j] = PlanOf(q.cands[j], j)
    BY <1>9, <1>10 DEF Planned
  <2>1. CASE j \in 1..n
    BY <1>9, <1>10, <2>1 DEF Planned, n
  <2>2. ASSUME NEW i \in 1..m, j = n + i PROVE q.plans[j] = PlanOf(q.cands[j], j)
    BY <1>4, <1>9, <1>10, <2>2
  <2> QED
    BY <1>9, <2>1, <2>2
<1> QED
  BY <1>7, <1>11 DEF q

\* The merge of the first n slots is right, for every n.
LEMMA MergesRight ==
  ASSUME results \in [Pipelines -> PipelineResults], \A k \in Pipelines : SlotWhole(k)
  PROVE  \A n \in 0..MaxPlans : MergedRight(n)
<1> DEFINE S == {n \in 0..MaxPlans : MergedRight(n)}
<1>0. MaxPlans \in Nat
  BY ProposalAssumption
<1>1. 0 \in S
  <2>1. MergedUpTo[0] = Blank /\ 0 \in 0..MaxPlans
    BY <1>0, MergeRecursion
  <2> QED
    BY <2>1 DEF MergedRight, Planned, Blank
<1>2. ASSUME NEW n \in 1..MaxPlans, n - 1 \in S PROVE n \in S
  <2> DEFINE r == MergedUpTo[n - 1]
             q == MergedUpTo[n]
             p == results[n]
  <2>1. n \in Pipelines /\ n \in 0..MaxPlans /\ n - 1 \in 0..MaxPlans /\ n \in Nat
    BY <1>0 DEF Pipelines
  <2>2. r \in MergeResults /\ p \in PipelineResults
    BY <2>1, MergeRecursion
  <2>3. q = IF p.err THEN r ELSE AppendPipeline(r, p)
    BY <2>1, MergeRecursion
  <2>4. MergedRight(n - 1)
    BY <1>2
  <2>5. /\ Planned(r)
        /\ \A j \in 1..Len(r.cands) :
             \E k \in 1..(n - 1) : /\ ~results[k].err
                                   /\ \E i \in Places(k) : r.cands[j] = Cand(k, i)
        /\ \A i, j \in 1..Len(r.cands) : i < j => Before(Pair(r.cands[i]), Pair(r.cands[j]))
        /\ \A k \in 1..(n - 1) : ~results[k].err =>
             \A i \in Places(k) : \E j \in 1..Len(r.cands) : r.cands[j] = Cand(k, i)
    BY <2>4 DEF MergedRight
  <2>6. \A k \in 1..n : k \in 1..(n - 1) \/ k = n
    BY <2>1
  <2>7. \A k \in 1..(n - 1) : k \in 1..n
    BY <2>1
  <2>8. n \in 1..n
    BY <2>1
  <2>9. CASE p.err
    <3>1. q = r
      BY <2>3, <2>9
    <3> HIDE DEF q, r
    <3>2. MergedRight(n)
      BY <2>5, <2>6, <2>7, <2>9, <3>1 DEF MergedRight, q
    <3> QED
      BY <2>1, <3>2
  <2>10. CASE ~p.err
    <3>1. Planned(p) /\ \A i \in Places(n) : p.cands[i] = Cand(n, i)
      BY <2>1, <2>10 DEF SlotWhole, Places
    <3>2. q = AppendPipeline(r, p)
      BY <2>3, <2>10
    <3>3. /\ Planned(q)
          /\ \A i \in 1..Len(r.cands) : i \in 1..Len(q.cands) /\ q.cands[i] = r.cands[i]
          /\ \A i \in 1..Len(p.cands) : /\ Len(r.cands) + i \in 1..Len(q.cands)
                                        /\ q.cands[Len(r.cands) + i] = p.cands[i]
          /\ \A j \in 1..Len(q.cands) :
               j \in 1..Len(r.cands) \/ \E i \in 1..Len(p.cands) : j = Len(r.cands) + i
      <4> HIDE DEF q, r, p
      <4>1. Planned(q) /\ Joins(q.cands, r.cands, p.cands)
        BY <2>2, <2>5, <3>1, <3>2, Appended
      <4> QED
        BY <4>1 DEF Joins
    <3>4. Len(r.cands) \in Nat /\ Len(p.cands) \in Nat /\ Places(n) = 1..Len(p.cands)
      BY <2>2 DEF MergeResults, PipelineResults, Places
    <3> HIDE DEF q, r, p
    <3>5. \A j \in 1..Len(q.cands) :
            \E k \in 1..n : ~results[k].err /\ \E i \in Places(k) : q.cands[j] = Cand(k, i)
      <4> SUFFICES ASSUME NEW j \in 1..Len(q.cands)
                   PROVE  \E k \in 1..n : ~results[k].err /\ \E i \in Places(k) : q.cands[j] = Cand(k, i)
        OBVIOUS
      <4>1. CASE j \in 1..Len(r.cands)
        BY <2>5, <2>7, <3>3, <4>1
      <4>2. ASSUME NEW i \in 1..Len(p.cands), j = Len(r.cands) + i
            PROVE  ~results[n].err /\ \E h \in Places(n) : q.cands[j] = Cand(n, h)
        <5>1. q.cands[j] = p.cands[i] /\ i \in Places(n)
          BY <3>3, <3>4, <4>2
        <5>2. q.cands[j] = Cand(n, i)
          BY <3>1, <5>1
        <5> QED
          BY <2>10, <5>1, <5>2 DEF p
      <4> QED
        BY <2>8, <3>3, <4>1, <4>2
    <3>6. \A i, j \in 1..Len(q.cands) : i < j => Before(Pair(q.cands[i]), Pair(q.cands[j]))
      <4> SUFFICES ASSUME NEW i \in 1..Len(q.cands), NEW j \in 1..Len(q.cands), i < j
                   PROVE  Before(Pair(q.cands[i]), Pair(q.cands[j]))
        OBVIOUS
      <4>1. CASE j \in 1..Len(r.cands)
        <5>1. i \in 1..Len(r.cands)
          BY <3>4, <4>1
        <5> QED
          BY <2>5, <3>3, <4>1, <5>1
      <4>2. CASE i \in 1..Len(r.cands) /\ j \notin 1..Len(r.cands)
        <5>1. PICK k \in 1..(n - 1) : \E h \in Places(k) : q.cands[i] = Cand(k, h)
          <6>1. q.cands[i] = r.cands[i]
            BY <3>3, <4>2
          <6> QED
            BY <2>5, <4>2, <6>1
        <5>2. \E h \in Places(n) : q.cands[j] = Cand(n, h)
          <6>1. PICK h \in 1..Len(p.cands) : j = Len(r.cands) + h
            BY <3>3, <4>2
          <6>2. q.cands[j] = p.cands[h] /\ h \in Places(n)
            BY <3>3, <3>4, <6>1
          <6> QED
            BY <3>1, <6>2
        <5>3. q.cands[i].owner = k /\ q.cands[j].owner = n
          BY <5>1, <5>2 DEF Cand
        <5>4. k < n
          BY <2>1
        <5> QED
          BY <5>3, <5>4 DEF Before, Pair
      <4>3. CASE i \notin 1..Len(r.cands)
        <5>1. j \notin 1..Len(r.cands)
          BY <3>4, <4>3
        <5>2. PICK g \in Places(n) : i = Len(r.cands) + g
          BY <3>3, <3>4, <4>3
        <5>3. PICK h \in Places(n) : j = Len(r.cands) + h
          BY <3>3, <3>4, <5>1
        <5>4. q.cands[i] = Cand(n, g) /\ q.cands[j] = Cand(n, h)
          BY <3>1, <3>3, <3>4, <5>2, <5>3
        <5>5. Pair(q.cands[i]) = <<n, g>> /\ Pair(q.cands[j]) = <<n, h>>
          BY <5>4 DEF Cand, Pair
        <5>6. g < h
          BY <3>4, <5>2, <5>3
        <5> QED
          BY <5>5, <5>6 DEF Before
      <4> QED
        BY <4>1, <4>2, <4>3
    <3>7. \A k \in 1..n : ~results[k].err =>
            \A i \in Places(k) : \E j \in 1..Len(q.cands) : q.cands[j] = Cand(k, i)
      <4>3. ASSUME NEW k \in 1..(n - 1), ~results[k].err, NEW i \in Places(k)
            PROVE  \E j \in 1..Len(q.cands) : q.cands[j] = Cand(k, i)
        BY <2>5, <3>3, <4>3
      <4>4. ASSUME NEW i \in Places(n)
            PROVE  \E j \in 1..Len(q.cands) : q.cands[j] = Cand(n, i)
        BY <3>1, <3>3, <3>4, <4>4
      <4> QED
        BY <2>6, <4>3, <4>4
    <3>8. MergedRight(n)
      BY <3>3, <3>5, <3>6, <3>7 DEF MergedRight, q
    <3> QED
      BY <2>1, <3>8
  <2> QED
    BY <2>9, <2>10
<1> HIDE DEF S
<1>3. \A n \in 0..MaxPlans : n \in S
  BY <1>0, <1>1, <1>2, CountingUpTo
<1> QED
  BY <1>3 DEF S

----------------------------------------------------------------------------
(* The selection *)

\* What a sequence lists, each once, is as many as the sequence is long.
LEMMA Counted ==
  ASSUME NEW n \in Nat, NEW T, NEW g \in [1..n -> T],
         \A i, j \in 1..n : g[i] = g[j] => i = j,
         \A t \in T : \E i \in 1..n : g[i] = t
  PROVE  IsFiniteSet(T) /\ Cardinality(T) = n
<1>1. g \in Injection(1..n, T)
  BY DEF Injection, IsInjective
<1>2. g \in Surjection(1..n, T)
  BY DEF Surjection
<1>3. ExistsBijection(1..n, T)
  BY <1>1, <1>2 DEF ExistsBijection, Bijection
<1> QED
  BY <1>3, FS_CountingElements, FS_NatBijection

\* What Keep does with a candidate whose probe plan is at its own place.
LEMMA OnePlan ==
  ASSUME NEW M \in MergeResults, Planned(M), NEW i \in 1..Len(M.cands)
  PROVE  PlansOf(M, i) = {PlanOf(M.cands[i], i)}
<1>1. M.plans \in Seq(ProbePlans) /\ M.cands \in Seq(Candidates)
  BY DEF MergeResults
<1>2. DOMAIN M.plans = 1..Len(M.cands)
  BY <1>1 DEF Planned
<1>3. \A j \in 1..Len(M.cands) : M.plans[j] = PlanOf(M.cands[j], j)
  BY DEF Planned
<1>4. ASSUME NEW j \in 1..Len(M.cands) PROVE M.plans[j].index = j
  <2>1. M.plans[j] = [index |-> j, owner |-> M.cands[j].owner, nth |-> M.cands[j].nth]
    BY <1>3 DEF PlanOf
  <2> QED
    BY <2>1
<1>5. PlansOf(M, i) = {M.plans[i]}
  BY <1>2, <1>4 DEF PlansOf, ToSet
<1> QED
  BY <1>3, <1>5

\* Why Keep turns candidate i down, and what it adds otherwise.
Turned(M, s, i) ==
  \/ M.cands[i].id \notin Own
  \/ \E j \in 1..Len(s.cands) : CapOf[s.cands[j].id] = CapOf[M.cands[i].id]
  \/ limit > 0 /\ Len(s.cands) >= limit

Added(s, c) == [cands |-> Append(s.cands, c),
                plans |-> Append(s.plans, PlanOf(c, Len(s.cands) + 1))]

\* Keep says no more than Turned and Added.
LEMMA KeepIs ==
  ASSUME NEW M \in MergeResults, Planned(M), NEW i \in 1..Len(M.cands),
         NEW s \in MergeResults
  PROVE  /\ Keep(M, s, i) = IF Turned(M, s, i) THEN s ELSE Added(s, M.cands[i])
         /\ Keep(M, s, i) \in MergeResults
<1>1. PlansOf(M, i) = {PlanOf(M.cands[i], i)}
  BY OnePlan
<1>2. (CHOOSE p \in PlansOf(M, i) : TRUE) = PlanOf(M.cands[i], i)
  BY <1>1
<1>3. [PlanOf(M.cands[i], i) EXCEPT !.index = Len(s.cands) + 1]
        = PlanOf(M.cands[i], Len(s.cands) + 1)
  BY DEF PlanOf
<1>4. s.cands \in Seq(Candidates) /\ s.plans \in Seq(ProbePlans)
  BY DEF MergeResults
<1>5. DOMAIN s.cands = 1..Len(s.cands)
  BY <1>4
<1>6. ToSet(s.cands) = {s.cands[j] : j \in 1..Len(s.cands)}
  BY <1>5 DEF ToSet
<1>7. Keep(M, s, i) = IF Turned(M, s, i) THEN s ELSE Added(s, M.cands[i])
  <2>1. (\E t \in ToSet(s.cands) : CapOf[t.id] = CapOf[M.cands[i].id])
          <=> \E j \in 1..Len(s.cands) : CapOf[s.cands[j].id] = CapOf[M.cands[i].id]
    BY <1>6
  <2> QED
    BY <1>2, <1>3, <2>1 DEF Keep, Turned, Added
<1>8. M.cands[i] \in Candidates
  BY DEF MergeResults
<1>9. PlanOf(M.cands[i], Len(s.cands) + 1) \in ProbePlans
  <2>1. Len(s.cands) + 1 \in Nat
    BY <1>4
  <2> QED
    BY <1>8, <2>1 DEF PlanOf, Candidates, ProbePlans
<1>10. Added(s, M.cands[i]) \in MergeResults
  BY <1>4, <1>8, <1>9 DEF Added, MergeResults
<1> QED
  BY <1>7, <1>10

\* Selection is what its equations say, and a merge at every candidate.
LEMMA SelectRecursion ==
  ASSUME NEW M \in MergeResults, Planned(M)
  PROVE  /\ \A i \in 0..Len(M.cands) : Selection(M)[i] \in MergeResults
         /\ Selection(M)[0] = Blank
         /\ \A i \in 1..Len(M.cands) : Selection(M)[i] = Keep(M, Selection(M)[i - 1], i)
<1> DEFINE N == Len(M.cands)
           Step == [i \in 1..N |-> [s \in MergeResults |-> Keep(M, s, i)]]
           Body(f) == [i \in 0..N |-> IF i = 0 THEN Blank ELSE Keep(M, f[i - 1], i)]
           Kept == Selection(M)
<1>1. Blank \in MergeResults
  BY DEF Blank, MergeResults
<1>2. Step \in Steps(N, MergeResults)
  BY KeepIs DEF Steps
<1>3. N \in Nat
  BY DEF MergeResults
<1>4. PICK f : Computes(f, N, MergeResults, Blank, Step)
  <2> HIDE DEF N, Step, Body
  <2> QED
    BY <1>1, <1>2, <1>3, Recursion
<1>5. f = Body(f)
  <2>1. /\ f \in [0..N -> MergeResults] /\ f[0] = Blank
        /\ \A i \in 1..N : f[i] = Step[i][f[i - 1]]
    BY <1>4 DEF Computes
  <2>2. \A i \in 1..N : f[i] = Keep(M, f[i - 1], i)
    <3>1. \A i \in 1..N : i - 1 \in 0..N
      BY <1>3
    <3> QED
      BY <2>1, <3>1
  <2> QED
    BY <2>1, <2>2
<1>6. Kept = CHOOSE g : g = Body(g)
  BY Zenon DEF Selection, Blank
<1>7. Kept = Body(Kept)
  <2> HIDE DEF Body, Kept
  <2> QED
    BY <1>5, <1>6
<1>8. \A i \in 0..N : Kept[i] = Body(Kept)[i]
  <2> HIDE DEF Body, Kept
  <2> QED
    BY <1>7
<1> HIDE DEF N, Kept
<1>9. Kept[0] = Blank
  BY <1>3, <1>8
<1>10. ASSUME NEW i \in 1..N PROVE Kept[i] = Keep(M, Kept[i - 1], i)
  <2>1. i \in 0..N /\ i # 0
    BY <1>3
  <2> QED
    BY <1>8, <2>1
<1>11. ASSUME NEW n \in 0..N PROVE Kept[n] \in MergeResults
  <2> DEFINE S == {m \in 0..N : Kept[m] \in MergeResults}
  <2>1. 0 \in S
    BY <1>1, <1>3, <1>9
  <2>2. ASSUME NEW m \in 1..N, m - 1 \in S PROVE m \in S
    <3>1. m \in 0..N /\ Kept[m - 1] \in MergeResults
      BY <1>3, <2>2
    <3>2. Keep(M, Kept[m - 1], m) \in MergeResults
      BY <3>1, KeepIs DEF N
    <3> QED
      BY <1>10, <3>1, <3>2
  <2> HIDE DEF S
  <2>3. \A m \in 0..N : m \in S
    BY <1>3, <2>1, <2>2, CountingUpTo
  <2> QED
    BY <2>3 DEF S
<1> QED
  BY <1>9, <1>10, <1>11 DEF N, Kept

----------------------------------------------------------------------------
(* What is selected is what is wanted *)

\* The first of each capability, and those of them before f.
Firsts ==
  {f \in Sound : \A g \in Sound : Before(g, f) => CapOf[IdOf(g)] # CapOf[IdOf(f)]}
Earlier(f) == {g \in Firsts : Before(g, f)}

\* Wanted, in these words.
LEMMA WantedIs == Wanted = {f \in Firsts : limit = 0 \/ Cardinality(Earlier(f)) < limit}
BY DEF Wanted, Firsts, Earlier

\* M lists the candidates of the pipelines that did not fail, in order.
Lists(M) ==
  /\ M \in MergeResults /\ Planned(M)
  /\ \A i, j \in 1..Len(M.cands) : i < j => Before(Pair(M.cands[i]), Pair(M.cands[j]))
  /\ \A m \in 1..Len(M.cands) : /\ IdOf(Pair(M.cands[m])) = M.cands[m].id
                                /\ M.cands[m].id \in Own => Pair(M.cands[m]) \in Sound
  /\ \A f \in Sound : \E m \in 1..Len(M.cands) : Pair(M.cands[m]) = f

\* In a list in order, what is before is earlier.
LEMMA BeforeIsOrder ==
  ASSUME NEW M, Lists(M), NEW i \in 1..Len(M.cands), NEW j \in 1..Len(M.cands)
  PROVE  Before(Pair(M.cands[i]), Pair(M.cands[j])) => i < j
<1>1. Len(M.cands) \in Nat /\ M.cands[i] \in Candidates /\ M.cands[j] \in Candidates
  BY DEF Lists, MergeResults
<1>2. /\ M.cands[i].owner \in Nat /\ M.cands[i].nth \in Nat
      /\ M.cands[j].owner \in Nat /\ M.cands[j].nth \in Nat
  BY <1>1, ProposalAssumption DEF Candidates, Pipelines
<1> SUFFICES ASSUME Before(Pair(M.cands[i]), Pair(M.cands[j])), ~(i < j) PROVE FALSE
  OBVIOUS
<1>3. CASE i = j
  BY <1>2, <1>3 DEF Before, Pair
<1>4. CASE i # j
  <2>1. j < i
    BY <1>1, <1>4
  <2>2. Before(Pair(M.cands[j]), Pair(M.cands[i]))
    BY <2>1 DEF Lists
  <2> QED
    BY <1>2, <2>2 DEF Before, Pair
<1> QED
  BY <1>3, <1>4

\* The candidates kept of the first i are the wanted ones among them, and as long
\* as there is room for more, there is one of each capability that was met.
SelectedRight(M, i) ==
  LET s == Selection(M)[i] IN
  /\ Planned(s)
  /\ \A j, k \in 1..Len(s.cands) : j < k => Before(Pair(s.cands[j]), Pair(s.cands[k]))
  /\ \A j \in 1..Len(s.cands) :
       /\ Pair(s.cands[j]) \in Wanted
       /\ \E m \in 1..i : s.cands[j] = M.cands[m]
  /\ \A m \in 1..i : Pair(M.cands[m]) \in Wanted =>
       \E j \in 1..Len(s.cands) : s.cands[j] = M.cands[m]
  /\ limit = 0 \/ Len(s.cands) < limit =>
       \A m \in 1..i : M.cands[m].id \in Own =>
         \E j \in 1..Len(s.cands) : CapOf[s.cands[j].id] = CapOf[M.cands[m].id]

\* The candidates kept so far, as pairs, are as many as they are.
LEMMA KeptCounted ==
  ASSUME NEW s \in MergeResults,
         \A j, k \in 1..Len(s.cands) : j < k => Before(Pair(s.cands[j]), Pair(s.cands[k]))
  PROVE  /\ IsFiniteSet({Pair(s.cands[j]) : j \in 1..Len(s.cands)})
         /\ Cardinality({Pair(s.cands[j]) : j \in 1..Len(s.cands)}) = Len(s.cands)
<1> DEFINE n == Len(s.cands)
           T == {Pair(s.cands[j]) : j \in 1..n}
           g == [j \in 1..n |-> Pair(s.cands[j])]
<1>1. n \in Nat /\ \A j \in 1..n : s.cands[j] \in Candidates
  BY DEF MergeResults
<1>2. \A j \in 1..n : s.cands[j].owner \in Nat /\ s.cands[j].nth \in Nat
  BY <1>1, ProposalAssumption DEF Candidates, Pipelines
<1>3. \A j \in 1..n : ~Before(Pair(s.cands[j]), Pair(s.cands[j]))
  BY <1>2 DEF Before, Pair
<1>4. \A i, j \in 1..n : Pair(s.cands[i]) = Pair(s.cands[j]) => i = j
  <2> SUFFICES ASSUME NEW i \in 1..n, NEW j \in 1..n, Pair(s.cands[i]) = Pair(s.cands[j]), i # j
               PROVE  FALSE
    OBVIOUS
  <2>1. i < j \/ j < i
    BY <1>1
  <2> QED
    BY <1>3, <2>1
<1>5. g \in [1..n -> T] /\ \A i, j \in 1..n : g[i] = g[j] => i = j
  BY <1>4
<1>6. \A t \in T : \E i \in 1..n : g[i] = t
  OBVIOUS
<1> HIDE DEF n, T, g
<1>7. IsFiniteSet(T) /\ Cardinality(T) = n
  BY <1>1, <1>5, <1>6, Counted
<1> QED
  BY <1>7 DEF T, n

\* There are finitely many candidates to choose from.
LEMMA FirstsFinite == ASSUME NEW M, Lists(M) PROVE IsFiniteSet(Firsts)
<1> DEFINE n == Len(M.cands)
           T == {Pair(M.cands[j]) : j \in 1..n}
<1>1. IsFiniteSet(T)
  BY KeptCounted DEF Lists
<1>2. Firsts \subseteq T
  BY DEF Lists, Firsts
<1> QED
  BY <1>1, <1>2, FS_Subset

\* A candidate that is turned down is not wanted.
LEMMA TurnedUnwanted ==
  ASSUME limit \in Nat, NEW M, Lists(M), NEW i \in 1..Len(M.cands),
         NEW s \in MergeResults, Turned(M, s, i),
         \A j, k \in 1..Len(s.cands) : j < k => Before(Pair(s.cands[j]), Pair(s.cands[k])),
         \A j \in 1..Len(s.cands) :
           /\ Pair(s.cands[j]) \in Wanted
           /\ \E m \in 1..(i - 1) : s.cands[j] = M.cands[m]
  PROVE  Pair(M.cands[i]) \notin Wanted
<1> DEFINE f == Pair(M.cands[i])
<1>1. IdOf(f) = M.cands[i].id
  BY DEF Lists
<1>2. Len(M.cands) \in Nat /\ Len(s.cands) \in Nat
  BY DEF Lists, MergeResults
<1>3. ASSUME NEW j \in 1..Len(s.cands)
      PROVE  /\ Pair(s.cands[j]) \in Firsts /\ Pair(s.cands[j]) \in Sound
             /\ Before(Pair(s.cands[j]), f)
             /\ IdOf(Pair(s.cands[j])) = s.cands[j].id
  <2>1. PICK m \in 1..(i - 1) : s.cands[j] = M.cands[m]
    OBVIOUS
  <2>2. m \in 1..Len(M.cands) /\ m < i
    BY <1>2
  <2>3. Before(Pair(M.cands[m]), f) /\ IdOf(Pair(M.cands[m])) = M.cands[m].id
    BY <2>2 DEF Lists
  <2> QED
    BY <2>1, <2>3, WantedIs DEF Firsts
<1>4. CASE M.cands[i].id \notin Own
  <2>1. f \in Sound => IdOf(f) \in Own
    BY DEF Sound
  <2> QED
    BY <1>1, <1>4, <2>1, WantedIs DEF Firsts
<1>5. ASSUME NEW j \in 1..Len(s.cands), CapOf[s.cands[j].id] = CapOf[M.cands[i].id]
      PROVE  f \notin Wanted
  <2>1. f \notin Firsts
    BY <1>1, <1>3, <1>5 DEF Firsts
  <2> QED
    BY <2>1, WantedIs
<1>6. CASE limit > 0 /\ Len(s.cands) >= limit
  <2> DEFINE T == {Pair(s.cands[j]) : j \in 1..Len(s.cands)}
  <2>1. T \subseteq Earlier(f)
    BY <1>3 DEF Earlier
  <2>2. IsFiniteSet(Earlier(f))
    BY FirstsFinite, FS_Subset DEF Earlier
  <2>3. Cardinality(T) = Len(s.cands)
    BY KeptCounted
  <2> HIDE DEF T, f
  <2>4. Cardinality(T) <= Cardinality(Earlier(f)) /\ Cardinality(Earlier(f)) \in Nat
    BY <2>1, <2>2, FS_Subset, FS_CardinalityType
  <2>5. limit # 0 /\ ~(Cardinality(Earlier(f)) < limit)
    BY <1>2, <1>6, <2>3, <2>4
  <2> QED
    BY <2>5, WantedIs DEF f
<1> QED
  BY <1>4, <1>5, <1>6 DEF Turned

\* A candidate that is kept is wanted.
LEMMA KeptWanted ==
  ASSUME limit \in Nat, NEW M, Lists(M), NEW i \in 1..Len(M.cands),
         NEW s \in MergeResults, ~Turned(M, s, i),
         \A j, k \in 1..Len(s.cands) : j < k => Before(Pair(s.cands[j]), Pair(s.cands[k])),
         \A j \in 1..Len(s.cands) :
           /\ Pair(s.cands[j]) \in Wanted
           /\ \E m \in 1..(i - 1) : s.cands[j] = M.cands[m],
         \A m \in 1..(i - 1) : M.cands[m].id \in Own =>
           \E j \in 1..Len(s.cands) : CapOf[s.cands[j].id] = CapOf[M.cands[m].id]
  PROVE  Pair(M.cands[i]) \in Wanted
<1> DEFINE f == Pair(M.cands[i])
           T == {Pair(s.cands[j]) : j \in 1..Len(s.cands)}
<1>1. IdOf(f) = M.cands[i].id /\ f \in Sound
  BY DEF Lists, Turned
<1>2. Len(M.cands) \in Nat /\ Len(s.cands) \in Nat
  BY DEF Lists, MergeResults
\* What is earlier in Sound is met earlier, and its capability is there.
<1>3. ASSUME NEW g \in Sound, Before(g, f)
      PROVE  \E m \in 1..(i - 1) : /\ g = Pair(M.cands[m]) /\ m \in 1..Len(M.cands)
                                   /\ IdOf(g) = M.cands[m].id
                                   /\ \E j \in 1..Len(s.cands) :
                                        CapOf[s.cands[j].id] = CapOf[IdOf(g)]
  <2>1. PICK m \in 1..Len(M.cands) : Pair(M.cands[m]) = g
    BY DEF Lists
  <2>2. m < i
    BY <1>3, <2>1, BeforeIsOrder
  <2>3. m \in 1..(i - 1)
    BY <1>2, <2>2
  <2>4. IdOf(g) = M.cands[m].id
    BY <2>1 DEF Lists
  <2>5. IdOf(g) \in Own
    BY DEF Sound
  <2> QED
    BY <2>1, <2>3, <2>4, <2>5
<1>4. f \in Firsts
  <2> SUFFICES ASSUME NEW g \in Sound, Before(g, f), CapOf[IdOf(g)] = CapOf[IdOf(f)] PROVE FALSE
    BY <1>1 DEF Firsts
  <2>1. \E j \in 1..Len(s.cands) : CapOf[s.cands[j].id] = CapOf[M.cands[i].id]
    BY <1>1, <1>3
  <2> QED
    BY <2>1 DEF Turned
<1>5. CASE limit = 0
  BY <1>4, <1>5, WantedIs
<1>6. CASE limit # 0
  <2>1. Len(s.cands) < limit
    BY <1>2, <1>6 DEF Turned
  <2>2. ASSUME NEW g \in Earlier(f) PROVE g \in T
    <3>1. g \in Firsts /\ g \in Sound /\ Before(g, f)
      BY DEF Earlier, Firsts
    <3>2. PICK m \in 1..Len(M.cands), j \in 1..Len(s.cands) :
            /\ g = Pair(M.cands[m]) /\ IdOf(g) = M.cands[m].id
            /\ CapOf[s.cands[j].id] = CapOf[IdOf(g)]
      BY <1>3, <3>1
    <3>3. PICK h \in 1..(i - 1) : s.cands[j] = M.cands[h]
      OBVIOUS
    <3>4. h \in 1..Len(M.cands)
      BY <1>2
    <3> DEFINE p == Pair(M.cands[h])
    <3>5. p \in Firsts /\ p \in Sound /\ IdOf(p) = s.cands[j].id
      BY <3>3, <3>4, WantedIs DEF Firsts, Lists
    <3>6. ~Before(p, g) /\ ~Before(g, p)
      BY <3>1, <3>2, <3>5 DEF Firsts
    <3>7. m = h
      <4>1. m < h => Before(g, p)
        BY <3>2, <3>4 DEF Lists
      <4>2. h < m => Before(p, g)
        BY <3>2, <3>4 DEF Lists
      <4> QED
        BY <1>2, <3>4, <3>6, <4>1, <4>2
    <3> QED
      BY <3>2, <3>3, <3>7
  <2>3. Earlier(f) \subseteq T
    BY <2>2
  <2>4. IsFiniteSet(T) /\ Cardinality(T) = Len(s.cands)
    BY KeptCounted
  <2> HIDE DEF T, f
  <2>5. Cardinality(Earlier(f)) <= Cardinality(T) /\ Cardinality(Earlier(f)) \in Nat
    BY <2>3, <2>4, FS_Subset, FS_CardinalityType
  <2>6. Cardinality(Earlier(f)) < limit
    BY <1>2, <2>1, <2>4, <2>5
  <2> QED
    BY <1>4, <2>6, WantedIs DEF f
<1> QED
  BY <1>5, <1>6

\* The selection is right after every candidate.
LEMMA SelectsRight ==
  ASSUME limit \in Nat, NEW M, Lists(M)
  PROVE  \A i \in 0..Len(M.cands) : SelectedRight(M, i)
<1> DEFINE N == Len(M.cands)
           S == {i \in 0..N : SelectedRight(M, i)}
<1>0. N \in Nat /\ M \in MergeResults /\ Planned(M)
  BY DEF Lists, MergeResults
<1>1. 0 \in S
  <2>1. Selection(M)[0] = Blank /\ 0 \in 0..N
    BY <1>0, SelectRecursion
  <2> QED
    BY <2>1 DEF SelectedRight, Planned, Blank
<1>2. ASSUME NEW i \in 1..N, i - 1 \in S PROVE i \in S
  <2> DEFINE s == Selection(M)[i - 1]
             q == Selection(M)[i]
             c == M.cands[i]
             n == Len(s.cands)
  <2>1. i \in 0..N /\ i - 1 \in 0..N /\ i \in Nat
    BY <1>0
  <2>2. s \in MergeResults /\ q = Keep(M, s, i)
    BY <1>0, <2>1, SelectRecursion
  <2>3. SelectedRight(M, i - 1)
    BY <1>2
  <2> HIDE DEF N
  <2>4. /\ Planned(s)
        /\ \A j, k \in 1..n : j < k => Before(Pair(s.cands[j]), Pair(s.cands[k]))
        /\ \A j \in 1..n : /\ Pair(s.cands[j]) \in Wanted
                           /\ \E m \in 1..(i - 1) : s.cands[j] = M.cands[m]
        /\ \A m \in 1..(i - 1) : Pair(M.cands[m]) \in Wanted =>
             \E j \in 1..n : s.cands[j] = M.cands[m]
        /\ limit = 0 \/ n < limit =>
             \A m \in 1..(i - 1) : M.cands[m].id \in Own =>
               \E j \in 1..n : CapOf[s.cands[j].id] = CapOf[M.cands[m].id]
    BY <2>3 DEF SelectedRight
  <2>5. q = IF Turned(M, s, i) THEN s ELSE Added(s, c)
    BY <1>0, <2>2, KeepIs DEF N
  <2>6. \A m \in 1..i : m \in 1..(i - 1) \/ m = i
    BY <2>1
  <2>7. (\A m \in 1..(i - 1) : m \in 1..i) /\ i \in 1..i
    BY <2>1
  <2>8. n \in Nat
    BY <2>2 DEF MergeResults
  <2>9. CASE Turned(M, s, i)
    <3>1. q = s
      BY <2>5, <2>9
    <3>2. Pair(c) \notin Wanted
      <4> HIDE DEF s
      <4> QED
        BY <2>2, <2>4, <2>9, TurnedUnwanted DEF N
    <3>3. limit = 0 \/ n < limit =>
            (c.id \in Own => \E j \in 1..n : CapOf[s.cands[j].id] = CapOf[c.id])
      BY <2>8, <2>9 DEF Turned
    <3> HIDE DEF s, q, c
    <3>4. SelectedRight(M, i)
      <4>1. \A j \in 1..n : \E m \in 1..i : s.cands[j] = M.cands[m]
        BY <2>4, <2>7
      <4>2. \A m \in 1..i : Pair(M.cands[m]) \in Wanted => \E j \in 1..n : s.cands[j] = M.cands[m]
        BY <2>4, <2>6, <3>2 DEF c
      <4>3. limit = 0 \/ n < limit =>
              \A m \in 1..i : M.cands[m].id \in Own =>
                \E j \in 1..n : CapOf[s.cands[j].id] = CapOf[M.cands[m].id]
        BY <2>4, <2>6, <3>3 DEF c
      <4> QED
        BY <2>4, <3>1, <4>1, <4>2, <4>3 DEF SelectedRight, q
    <3> QED
      BY <2>1, <3>4
  <2>10. CASE ~Turned(M, s, i)
    <3>1. q = Added(s, c)
      BY <2>5, <2>10
    <3>2. limit = 0 \/ n < limit
      BY <2>8, <2>10 DEF Turned
    <3>3. Pair(c) \in Wanted
      <4> HIDE DEF s
      <4> QED
        BY <2>2, <2>4, <2>10, <3>2, KeptWanted DEF N
    <3>4. /\ Len(q.cands) = n + 1 /\ q.cands[n + 1] = c
          /\ \A j \in 1..n : q.cands[j] = s.cands[j]
      <4>1. s.cands \in Seq(Candidates) /\ q.cands = Append(s.cands, c)
        BY <2>2, <3>1 DEF MergeResults, Added
      <4> HIDE DEF s, q, c
      <4> QED
        BY <4>1
    <3>5. /\ Len(q.plans) = n + 1 /\ q.plans[n + 1] = PlanOf(c, n + 1)
          /\ \A j \in 1..n : q.plans[j] = s.plans[j]
      <4>1. /\ s.plans \in Seq(ProbePlans) /\ q.plans = Append(s.plans, PlanOf(c, n + 1))
            /\ Len(s.plans) = n
        <5>1. s.plans \in Seq(ProbePlans)
          BY <2>2 DEF MergeResults
        <5>2. q.plans = Append(s.plans, PlanOf(c, n + 1))
          BY <3>1 DEF Added
        <5>3. Len(s.plans) = n
          BY <2>4 DEF Planned
        <5> QED
          BY <5>1, <5>2, <5>3
      <4> HIDE DEF s, q, c, n
      <4> QED
        BY <4>1
    <3>6. \A j \in 1..(n + 1) : j \in 1..n \/ j = n + 1
      BY <2>8
    <3>7. (\A j \in 1..n : j \in 1..(n + 1)) /\ n + 1 \in 1..(n + 1)
      BY <2>8
    <3> HIDE DEF s, q, c
    <3>8. Planned(q)
      BY <2>4, <3>4, <3>5, <3>6 DEF Planned, n
    <3>9. ASSUME NEW j \in 1..n PROVE Before(Pair(s.cands[j]), Pair(c))
      <4>1. PICK m \in 1..(i - 1) : s.cands[j] = M.cands[m]
        BY <2>4
      <4>2. m \in 1..Len(M.cands) /\ i \in 1..Len(M.cands) /\ m < i
        BY <1>0 DEF N
      <4> QED
        BY <4>1, <4>2 DEF Lists, c
    <3> HIDE DEF n
    <3>10. \A j, k \in 1..(n + 1) : j < k => Before(Pair(q.cands[j]), Pair(q.cands[k]))
      <4> SUFFICES ASSUME NEW j \in 1..(n + 1), NEW k \in 1..(n + 1), j < k
                   PROVE  Before(Pair(q.cands[j]), Pair(q.cands[k]))
        OBVIOUS
      <4>1. j \in 1..n
        BY <2>8
      <4>2. CASE k \in 1..n
        BY <2>4, <3>4, <4>1, <4>2
      <4>3. CASE k = n + 1
        BY <3>4, <3>9, <4>1, <4>3
      <4> QED
        BY <3>6, <4>2, <4>3
    <3>11. ASSUME NEW j \in 1..(n + 1)
           PROVE  /\ Pair(q.cands[j]) \in Wanted
                  /\ \E m \in 1..i : q.cands[j] = M.cands[m]
      <4>1. CASE j \in 1..n
        BY <2>4, <2>7, <3>4, <4>1
      <4>2. CASE j = n + 1
        BY <2>7, <3>3, <3>4, <4>2 DEF c
      <4> QED
        BY <3>6, <4>1, <4>2
    <3>12. ASSUME NEW m \in 1..i, Pair(M.cands[m]) \in Wanted
           PROVE  \E j \in 1..(n + 1) : q.cands[j] = M.cands[m]
      <4>1. CASE m \in 1..(i - 1)
        BY <2>4, <3>4, <3>7, <3>12, <4>1
      <4>2. CASE m = i
        BY <3>4, <3>7, <4>2 DEF c
      <4> QED
        BY <2>6, <4>1, <4>2
    <3>13. ASSUME NEW m \in 1..i, M.cands[m].id \in Own
           PROVE  \E j \in 1..(n + 1) : CapOf[q.cands[j].id] = CapOf[M.cands[m].id]
      <4>1. CASE m \in 1..(i - 1)
        <5>1. PICK j \in 1..n : CapOf[s.cands[j].id] = CapOf[M.cands[m].id]
          BY <2>4, <3>2, <3>13, <4>1
        <5> QED
          BY <3>4, <3>7, <5>1
      <4>2. CASE m = i
        BY <3>4, <3>7, <4>2 DEF c
      <4> QED
        BY <2>6, <4>1, <4>2
    <3>14. SelectedRight(M, i)
      BY <3>4, <3>8, <3>10, <3>11, <3>12, <3>13 DEF SelectedRight, q
    <3> QED
      BY <2>1, <3>14
  <2> QED
    BY <2>9, <2>10
<1> HIDE DEF S, N
<1>3. \A i \in 0..N : i \in S
  BY <1>0, <1>1, <1>2, CountingUpTo
<1> QED
  BY <1>3 DEF S, N

----------------------------------------------------------------------------
(* What each pipeline has made, announced and left in its slot *)

\* The i-th call that pipeline k makes.
CallOf(k, i) == IF i = 1 THEN Call("binding", k, 0) ELSE EvidenceCall(k, i - 1)

\* The calls that ended; one more is under way or not; those announced so far.
Made(k) == Len(work[k].attempts)
Calling(k) == step[k] \in {"binding", "evidence"}
Opened(k) == Made(k) + (IF Calling(k) THEN 1 ELSE 0)

\* The result a pipeline builds: the candidates found, in order, each with its
\* plan, and all of them at the end unless a call failed.
WorkInv(k) ==
  /\ Planned(work[k])
  /\ Len(work[k].cands) <= Len(found[k])
  /\ \A i \in 1..Len(work[k].cands) : work[k].cands[i] = Cand(k, i)
  /\ \A i \in 1..Made(k) : work[k].attempts[i] = CallOf(k, i)
  /\ step[k] \in {"none", "binding"} => work[k] = Empty /\ found[k] = <<>>
  /\ step[k] = "evidence" => ~work[k].err /\ Made(k) = Place(k)
  /\ step[k] \in {"finishing", "done"} /\ ~work[k].err => Len(work[k].cands) = Len(found[k])

\* A slot is empty until the goroutine ends, and then holds its work.
SlotInv(k) ==
  /\ step[k] = "done" => results[k] = work[k]
  /\ step[k] # "done" => results[k].cands = <<>> /\ results[k].plans = <<>> /\ results[k].attempts = <<>>

\* The calls announced are those made, in order, and the one under way; the
\* others were closed once; one failed if and only if the work is marked.
EventInv(k) ==
  /\ \A e \in events : e.call.cap = k => \E i \in 1..Opened(k) : e.call = CallOf(k, i)
  /\ \A i \in 1..Opened(k) : Ev(CallOf(k, i), "started") \in events
  /\ \A i \in 1..Made(k) : \E st \in {"succeeded", "failed"} :
       /\ Ev(CallOf(k, i), st) \in events
       /\ \A e \in events : e.call = CallOf(k, i) => e.status \in {"started", st}
  /\ Calling(k) => \A e \in events : e.call = CallOf(k, Opened(k)) => e.status = "started"
  /\ FailedCall(k) <=> work[k].err

\* Where Run stands in its serial stages tells their events and attempts.
SerialInv ==
  /\ pc = "idle" => events = {} /\ attempts = <<>>
  /\ pc = "surface" => events = {Ev(Surface, "started")} /\ attempts = <<>>
  /\ pc = "capability" =>
       /\ events = {Ev(Surface, "started"), Ev(Surface, "succeeded"), Ev(Capability, "started")}
       /\ attempts = <<Surface>>
  /\ pc = "pipelines" =>
       /\ {e \in events : e.call.cap = 0}
            = {Ev(Surface, "started"), Ev(Surface, "succeeded"),
               Ev(Capability, "started"), Ev(Capability, "succeeded")}
       /\ attempts = <<Surface, Capability>>
  /\ pc # "returned" => answer.code = "none"

\* Every pipeline is as it should be.
PipesInv == \A k \in Pipelines : WorkInv(k) /\ SlotInv(k) /\ EventInv(k)

\* The calls of the pipelines are told apart by pipeline and by place.
LEMMA CallIs ==
  ASSUME NEW k, NEW i, NEW j, NEW h
  PROVE  /\ CallOf(k, i).cap = k
         /\ CallOf(k, i) = CallOf(h, j) => k = h
         /\ i \in Nat \ {0} /\ j \in Nat \ {0} /\ CallOf(k, i) = CallOf(h, j) => i = j
<1>1. \A n \in Nat \ {0} : CallOf(k, n) = [name |-> IF n = 1 THEN "binding" ELSE "evidence",
                                           cap |-> k, cand |-> n - 1]
  BY DEF CallOf, Call, EvidenceCall
<1>2. \A n \in Nat \ {0} : CallOf(h, n) = [name |-> IF n = 1 THEN "binding" ELSE "evidence",
                                           cap |-> h, cand |-> n - 1]
  BY DEF CallOf, Call, EvidenceCall
<1>3. CallOf(k, i).cap = k /\ CallOf(h, j).cap = h
  BY DEF CallOf, Call, EvidenceCall
<1>4. i \in Nat \ {0} /\ j \in Nat \ {0} /\ CallOf(k, i) = CallOf(h, j) => i = j
  <2> SUFFICES ASSUME i \in Nat \ {0}, j \in Nat \ {0}, CallOf(k, i) = CallOf(h, j) PROVE i = j
    OBVIOUS
  <2>1. CallOf(k, i).cand = i - 1 /\ CallOf(h, j).cand = j - 1
    BY <1>1, <1>2
  <2> QED
    BY <2>1
<1> QED
  BY <1>3, <1>4

\* An event is of its call, with its status.
LEMMA EvIs ==
  ASSUME NEW c, NEW st
  PROVE  Ev(c, st).call = c /\ Ev(c, st).status = st
BY DEF Ev

\* The calls announced are those made and the one under way.
LEMMA MadeIs ==
  ASSUME DataOK, NEW k \in Pipelines
  PROVE  Made(k) \in Nat /\ Opened(k) \in Nat /\ (Calling(k) => Opened(k) = Made(k) + 1)
         /\ (~Calling(k) => Opened(k) = Made(k))
<1>1. Made(k) \in Nat
  BY DEF DataOK, PipelineResults, Made
<1> QED
  BY <1>1 DEF Opened

\* Events of other calls than those of k are nothing to k.
LEMMA EventsElsewhere ==
  ASSUME NEW k \in Pipelines, EventInv(k), work'[k] = work[k], step'[k] = step[k],
         events \subseteq events', \A e \in events' : e.call.cap = k => e \in events
  PROVE  EventInv(k)'
<1>1. Made(k)' = Made(k) /\ Calling(k)' = Calling(k) /\ Opened(k)' = Opened(k)
  BY DEF Made, Calling, Opened
<1>2. \A i : CallOf(k, i).cap = k
  BY CallIs
<1>3. \A e \in events' : \A i : e.call = CallOf(k, i) => e \in events
  BY <1>2
<1>4. FailedCall(k)' <=> FailedCall(k)
  BY DEF FailedCall
<1>5. /\ \A e \in events' : e.call.cap = k => \E i \in 1..Opened(k) : e.call = CallOf(k, i)
      /\ \A i \in 1..Opened(k) : Ev(CallOf(k, i), "started") \in events'
  BY DEF EventInv
<1>6. ASSUME NEW i \in 1..Made(k)
      PROVE  \E st \in {"succeeded", "failed"} :
               /\ Ev(CallOf(k, i), st) \in events'
               /\ \A e \in events' : e.call = CallOf(k, i) => e.status \in {"started", st}
  <2>1. PICK st \in {"succeeded", "failed"} :
               /\ Ev(CallOf(k, i), st) \in events
               /\ \A e \in events : e.call = CallOf(k, i) => e.status \in {"started", st}
    BY DEF EventInv
  <2> QED
    BY <1>3, <2>1
<1>7. Calling(k) => \A e \in events' : e.call = CallOf(k, Opened(k)) => e.status = "started"
  BY <1>3 DEF EventInv
<1>8. FailedCall(k) <=> work[k].err
  BY DEF EventInv
<1> QED
  BY <1>1, <1>4, <1>5, <1>6, <1>7, <1>8 DEF EventInv

\* The call under way is answered, and the next one, if any, is announced.
LEMMA CallEnds ==
  ASSUME DataOK, DataOK', NEW k \in Pipelines, EventInv(k), WorkInv(k), Calling(k),
         NEW st \in {"succeeded", "failed"}, NEW more \in BOOLEAN,
         Made(k)' = Made(k) + 1, Calling(k)' <=> more,
         events' = events \cup {Ev(CallOf(k, Made(k) + 1), st)}
                     \cup (IF more THEN {Ev(CallOf(k, Made(k) + 2), "started")} ELSE {}),
         work'[k].err <=> st = "failed"
  PROVE  EventInv(k)'
<1> DEFINE m == Made(k)
           c == CallOf(k, m + 1)
           d == CallOf(k, m + 2)
<1>1. m \in Nat /\ Opened(k) = m + 1
  BY MadeIs
<1>2. Opened(k)' = IF more THEN m + 2 ELSE m + 1
  BY <1>1 DEF Opened
<1>3. /\ \A i : CallOf(k, i).cap = k
      /\ \A i \in 1..(m + 1) : CallOf(k, i) # d
      /\ \A i \in 1..m : CallOf(k, i) # c
      /\ c # d
  <2>1. \A i, j \in Nat \ {0} : CallOf(k, i) = CallOf(k, j) => i = j
    BY CallIs
  <2>2. m + 1 \in Nat \ {0} /\ m + 2 \in Nat \ {0} /\ m + 1 # m + 2
    BY <1>1
  <2>3. \A i \in 1..(m + 1) : i \in Nat \ {0} /\ i # m + 2
    BY <1>1
  <2>4. \A i \in 1..m : i \in Nat \ {0} /\ i # m + 1
    BY <1>1
  <2> QED
    BY <2>1, <2>2, <2>3, <2>4, CallIs
<1>4. /\ Ev(c, st).call = c /\ Ev(c, st).status = st
      /\ Ev(d, "started").call = d /\ Ev(d, "started").status = "started"
  BY EvIs
<1> HIDE DEF m, c, d
<1>5. \A e \in events' : e \in events \/ e = Ev(c, st) \/ (more /\ e = Ev(d, "started"))
  BY DEF m, c, d
<1>6. events \subseteq events' /\ Ev(c, st) \in events' /\ (more => Ev(d, "started") \in events')
  BY DEF m, c, d
<1>7. \A e \in events : e.call.cap = k => \E i \in 1..(m + 1) : e.call = CallOf(k, i)
  BY <1>1 DEF EventInv
<1>8. \A e \in events : e.call # d
  <2> SUFFICES ASSUME NEW e \in events, e.call = d PROVE FALSE
    OBVIOUS
  <2>1. e.call.cap = k
    BY <1>3 DEF d
  <2> QED
    BY <1>3, <1>7, <2>1
<1>9. \A e \in events : e.call = c => e.status = "started"
  BY <1>1 DEF EventInv, c, m
<1>10. \A e \in events' : e.call.cap = k => \E i \in 1..Opened(k)' : e.call = CallOf(k, i)
  <2> SUFFICES ASSUME NEW e \in events', e.call.cap = k
               PROVE  \E i \in 1..Opened(k)' : e.call = CallOf(k, i)
    OBVIOUS
  <2>1. \A i \in 1..(m + 1) : i \in 1..Opened(k)'
    BY <1>1, <1>2
  <2>2. m + 1 \in 1..(m + 1) /\ (more => m + 2 \in 1..Opened(k)')
    BY <1>1, <1>2
  <2>3. CASE e \in events
    BY <1>7, <2>1, <2>3
  <2>4. CASE e = Ev(c, st)
    BY <1>4, <2>1, <2>2, <2>4 DEF c
  <2>5. CASE more /\ e = Ev(d, "started")
    BY <1>4, <2>2, <2>5 DEF d
  <2> QED
    BY <1>5, <2>3, <2>4, <2>5
<1>11. \A i \in 1..Opened(k)' : Ev(CallOf(k, i), "started") \in events'
  <2>1. \A i \in 1..(m + 1) : Ev(CallOf(k, i), "started") \in events
    BY <1>1 DEF EventInv
  <2>2. \A i \in 1..Opened(k)' : i \in 1..(m + 1) \/ (more /\ i = m + 2)
    BY <1>1, <1>2
  <2> QED
    BY <1>6, <2>1, <2>2 DEF d
<1>12. ASSUME NEW i \in 1..(m + 1)
       PROVE  \E r \in {"succeeded", "failed"} :
               /\ Ev(CallOf(k, i), r) \in events'
               /\ \A e \in events' : e.call = CallOf(k, i) => e.status \in {"started", r}
  <2>1. CASE i \in 1..m
    <3>1. PICK r \in {"succeeded", "failed"} :
               /\ Ev(CallOf(k, i), r) \in events
               /\ \A e \in events : e.call = CallOf(k, i) => e.status \in {"started", r}
      BY <2>1 DEF EventInv, m
    <3>2. CallOf(k, i) # c /\ CallOf(k, i) # d
      BY <1>3, <2>1
    <3>3. \A e \in events' : e.call = CallOf(k, i) => e \in events
      BY <1>4, <1>5, <3>2
    <3> QED
      BY <1>6, <3>1, <3>3
  <2>2. CASE i = m + 1
    <3>1. CallOf(k, i) = c
      BY <2>2 DEF c
    <3>2. \A e \in events' : e.call = c => e.status \in {"started", st}
      BY <1>3, <1>4, <1>5, <1>9
    <3> QED
      BY <1>6, <3>1, <3>2
  <2> QED
    BY <1>1, <2>1, <2>2
<1>13. more => \A e \in events' : e.call = d => e.status = "started"
  BY <1>3, <1>4, <1>5, <1>8
<1>14. FailedCall(k)' <=> work'[k].err
  <2>1. ~work[k].err
    BY DEF WorkInv, Calling, Empty
  <2>2. \A e \in events : ~(e.call.cap = k /\ e.status = "failed")
    BY <2>1 DEF EventInv, FailedCall
  <2>3. c.cap = k
    BY <1>3 DEF c
  <2>4. FailedCall(k)' <=> st = "failed"
    BY <1>4, <1>5, <1>6, <2>2, <2>3 DEF FailedCall
  <2> QED
    BY <2>4
<1>15. Made(k)' = m + 1 /\ (Calling(k)' => more /\ CallOf(k, Opened(k)') = d)
  BY <1>2 DEF m, d
<1> QED
  BY <1>10, <1>11, <1>12, <1>13, <1>14, <1>15 DEF EventInv

----------------------------------------------------------------------------
(* The steps of the pipelines *)

\* What a pipeline that nobody touches knows of itself.
LEMMA Untouched ==
  ASSUME NEW k \in Pipelines, WorkInv(k), SlotInv(k),
         work'[k] = work[k], found'[k] = found[k], step'[k] = step[k],
         results'[k].cands = results[k].cands, results'[k].plans = results[k].plans,
         results'[k].attempts = results[k].attempts,
         step[k] = "done" => results'[k] = results[k]
  PROVE  WorkInv(k)' /\ SlotInv(k)'
<1>1. WorkInv(k)'
  BY DEF WorkInv, Planned, PlanOf, Cand, Made, CallOf, Place
<1>2. SlotInv(k)'
  BY DEF SlotInv
<1> QED
  BY <1>1, <1>2

\* Steps of Run that no pipeline notices: their events are of serial calls.
LEMMA QuietPipes ==
  ASSUME PipesInv, UNCHANGED <<step, found, work, results>>, events \subseteq events',
         \A e \in events' : e \in events \/ e.call.cap = 0
  PROVE  PipesInv'
<1> SUFFICES ASSUME NEW k \in Pipelines PROVE (WorkInv(k) /\ SlotInv(k) /\ EventInv(k))'
  BY DEF PipesInv
<1>1. k # 0
  BY ProposalAssumption DEF Pipelines
<1>2. EventInv(k)'
  BY <1>1, EventsElsewhere DEF PipesInv
<1> QED
  BY <1>2, Untouched DEF PipesInv

\* Before its first call ends a pipeline has nothing.
LEMMA EmptyWork ==
  ASSUME NEW k \in Pipelines, work'[k] = Empty, found'[k] = <<>>, step'[k] = "binding"
  PROVE  WorkInv(k)'
<1>1. /\ work'[k].cands = <<>> /\ work'[k].plans = <<>> /\ work'[k].attempts = <<>>
      /\ ~work'[k].err
  BY DEF Empty
<1>2. \A i \in 1..Len(<<>>) : FALSE
  OBVIOUS
<1>3. Planned(work[k])'
  BY <1>1, <1>2 DEF Planned
<1>4. Len(work'[k].cands) <= Len(found'[k])
  BY <1>1
<1>5. \A i \in 1..Len(work'[k].cands) : work'[k].cands[i] = Cand(k, i)'
  BY <1>1, <1>2
<1>6. \A i \in 1..Made(k)' : work'[k].attempts[i] = CallOf(k, i)'
  BY <1>1, <1>2 DEF Made
<1> QED
  BY <1>3, <1>4, <1>5, <1>6 DEF WorkInv

\* A pipeline that is started announces its first call.
LEMMA DispatchPipes == ASSUME IInv, IInv', PipesInv, Dispatch PROVE PipesInv'
<1>1. next \in Pipelines /\ step[next] = "none"
  BY ProposalAssumption DEF IInv, LoopInv, Dispatch, Dispatching, Pipelines
<1>2. /\ UNCHANGED <<found, work, results>>
      /\ step' = [step EXCEPT ![next] = "binding"]
      /\ events' = events \cup {Ev(Call("binding", next, 0), "started")}
  BY DEF Dispatch
<1>0. PICK k \in Pipelines : k = next
  BY <1>1
<1> DEFINE c == Call("binding", k, 0)
<1>3. c = CallOf(k, 1) /\ c.cap = k /\ Ev(c, "started").call = c
      /\ Ev(c, "started").status = "started"
  BY DEF CallOf, Call, Ev
<1>4. work[k] = Empty /\ found[k] = <<>> /\ SlotInv(k) /\ EventInv(k)
  BY <1>0, <1>1 DEF PipesInv, WorkInv
<1>5. step'[k] = "binding" /\ \A j \in Pipelines : j # k => step'[j] = step[j]
  BY <1>0, <1>1, <1>2 DEF IInv, DataOK
<1>6. k \in Pipelines /\ step[k] = "none" /\ work'[k] = Empty /\ found'[k] = <<>>
      /\ results'[k] = results[k] /\ events' = events \cup {Ev(c, "started")}
  BY <1>0, <1>1, <1>2, <1>4
<1> HIDE DEF c
<1>7. ASSUME NEW j \in Pipelines, j # k PROVE (WorkInv(j) /\ SlotInv(j) /\ EventInv(j))'
  <2>2. \A e \in events' : e.call.cap = j => e \in events
    BY <1>3, <1>6, <1>7
  <2>3. EventInv(j)'
    BY <1>2, <1>5, <1>7, <2>2, EventsElsewhere DEF PipesInv
  <2> QED
    BY <1>2, <1>5, <1>7, <2>3, Untouched DEF PipesInv
<1>8. WorkInv(k)'
  BY <1>5, <1>6, EmptyWork
<1>9. SlotInv(k)'
  BY <1>4, <1>5, <1>6 DEF SlotInv
<1>10. EventInv(k)'
  <2>1. Made(k) = 0 /\ Opened(k) = 0
    BY <1>4, <1>6 DEF Made, Opened, Calling, Empty
  <2>2. Made(k)' = 0 /\ Opened(k)' = 1
    BY <1>5, <1>6 DEF Made, Opened, Calling, Empty
  <2>3. \A e \in events : e.call.cap # k
    BY <1>4, <2>1 DEF EventInv
  <2>4. \A e \in events' : e.call.cap = k => e = Ev(c, "started")
    BY <1>6, <2>3
  <2>5. ~FailedCall(k)' /\ ~work'[k].err
    BY <1>3, <1>6, <2>4 DEF FailedCall, Empty
  <2>6. \A e \in events' : e.call = CallOf(k, 1) => e.status = "started"
    BY <1>3, <2>4
  <2>7. \A i \in 1..1 : i = 1
    OBVIOUS
  <2>8. 1 \in 1..1 /\ \A i \in 1..0 : FALSE
    OBVIOUS
  <2>9. Ev(CallOf(k, 1), "started") \in events'
    BY <1>3, <1>6
  <2>10. \A e \in events' : e.call.cap = k => e.call = CallOf(k, 1)
    BY <1>3, <2>4
  <2> QED
    BY <2>2, <2>5, <2>6, <2>7, <2>8, <2>9, <2>10 DEF EventInv
<1> QED
  BY <1>7, <1>8, <1>9, <1>10 DEF PipesInv

\* A plan passed over changes nothing but the mark in its slot.
LEMMA SkipPipes == ASSUME IInv, PipesInv, Skip PROVE PipesInv'
<1>1. next \in Pipelines /\ step[next] = "none"
  BY ProposalAssumption DEF IInv, LoopInv, Skip, Dispatching, Pipelines
<1>2. UNCHANGED <<step, found, work, events>> /\ results' = [results EXCEPT ![next].err = TRUE]
  BY DEF Skip, pipes
<1> SUFFICES ASSUME NEW k \in Pipelines PROVE (WorkInv(k) /\ SlotInv(k) /\ EventInv(k))'
  BY DEF PipesInv
<1>3. /\ results'[k].cands = results[k].cands /\ results'[k].plans = results[k].plans
      /\ results'[k].attempts = results[k].attempts
      /\ k # next => results'[k] = results[k]
  BY <1>1, <1>2 DEF IInv, DataOK, PipelineResults
<1>4. EventInv(k)'
  BY <1>2, EventsElsewhere DEF PipesInv
<1> QED
  BY <1>1, <1>2, <1>3, <1>4, Untouched DEF PipesInv

\* A call of pipeline k ends: the others are not concerned.
LEMMA OthersKeep ==
  ASSUME PipesInv, NEW k \in Pipelines, events \subseteq events',
         \A e \in events' : e \in events \/ e.call.cap = k,
         NEW j \in Pipelines, j # k, work'[j] = work[j], step'[j] = step[j],
         found'[j] = found[j], results'[j] = results[j]
  PROVE  (WorkInv(j) /\ SlotInv(j) /\ EventInv(j))'
<1>1. EventInv(j)'
  BY EventsElsewhere DEF PipesInv
<1> QED
  BY <1>1, Untouched DEF PipesInv

\* A call that fails marks the work and ends it.
LEMMA FailsPipes ==
  ASSUME IInv, IInv', PipesInv, NEW k \in Pipelines, Calling(k),
         PipelineFails(k, CallOf(k, Made(k) + 1))
  PROVE  PipesInv'
<1> DEFINE c == CallOf(k, Made(k) + 1)
           w == [work[k] EXCEPT !.err = TRUE, !.attempts = Append(@, c)]
<1>1. /\ step' = [step EXCEPT ![k] = "finishing"]
      /\ UNCHANGED <<found, results>>
      /\ events' = events \cup {Ev(c, "failed")} \cup {}
  BY DEF PipelineFails, Ended
<1>2. work' = [work EXCEPT ![k].err = TRUE, ![k].attempts = Append(@, c)]
  BY DEF PipelineFails
<1>3. work[k] \in PipelineResults /\ work[k].attempts \in Seq(Calls) /\ Made(k) \in Nat
  BY MadeIs DEF IInv, DataOK, PipelineResults
<1>4. work'[k] = w
  BY <1>2 DEF IInv, DataOK, PipelineResults
<1>5. /\ work'[k].cands = work[k].cands /\ work'[k].plans = work[k].plans
      /\ work'[k].err /\ work'[k].attempts = Append(work[k].attempts, c)
  BY <1>3, <1>4 DEF PipelineResults
<1>6. \A j \in Pipelines : j # k => work'[j] = work[j]
  BY <1>2 DEF IInv, DataOK
<1> HIDE DEF c, w
<1>7. step'[k] = "finishing" /\ found'[k] = found[k] /\ results'[k] = results[k]
  BY <1>1 DEF IInv, DataOK
<1>8. /\ Made(k)' = Made(k) + 1 /\ ~Calling(k)'
      /\ \A i \in 1..Made(k) : work'[k].attempts[i] = work[k].attempts[i]
      /\ work'[k].attempts[Made(k) + 1] = c
  BY <1>3, <1>5, <1>7 DEF Made, Calling
<1>9. EventInv(k)'
  <2>1. Calling(k)' <=> FALSE
    BY <1>8
  <2>2. events' = events \cup {Ev(c, "failed")}
                    \cup (IF FALSE THEN {Ev(CallOf(k, Made(k) + 2), "started")} ELSE {})
    BY <1>1
  <2> QED
    BY <1>5, <1>8, <2>1, <2>2, CallEnds DEF IInv, PipesInv, c
<1>10. WorkInv(k)'
  <2>1. WorkInv(k)
    BY DEF PipesInv
  <2>2. Planned(work[k])'
    BY <1>5, <2>1 DEF WorkInv, Planned, PlanOf
  <2>3. \A i \in 1..(Made(k) + 1) : work'[k].attempts[i] = CallOf(k, i)
    <3>1. \A i \in 1..Made(k) : work[k].attempts[i] = CallOf(k, i)
      BY <2>1 DEF WorkInv
    <3>2. ASSUME NEW i \in 1..Made(k) PROVE work'[k].attempts[i] = CallOf(k, i)
      <4>1. work[k].attempts[i] = CallOf(k, i) /\ work'[k].attempts[i] = work[k].attempts[i]
        BY <1>8, <3>1
      <4> QED
        BY <4>1
    <3>3. work'[k].attempts[Made(k) + 1] = CallOf(k, Made(k) + 1)
      BY <1>8 DEF c
    <3>4. \A i \in 1..(Made(k) + 1) : i \in 1..Made(k) \/ i = Made(k) + 1
      BY <1>3
    <3> QED
      BY <3>2, <3>3, <3>4
  <2>4. \A i \in 1..Len(work[k].cands) : work'[k].cands[i] = Cand(k, i)'
    BY <1>5, <1>7, <2>1 DEF WorkInv, Cand
  <2> QED
    BY <1>5, <1>7, <1>8, <2>1, <2>2, <2>3, <2>4 DEF WorkInv, CallOf
<1>11. SlotInv(k)'
  <2>1. step[k] # "done" /\ SlotInv(k)
    BY DEF PipesInv, Calling
  <2> QED
    BY <1>7, <2>1 DEF SlotInv
<1>12. ASSUME NEW j \in Pipelines, j # k PROVE (WorkInv(j) /\ SlotInv(j) /\ EventInv(j))'
  <2>1. work'[j] = work[j] /\ step'[j] = step[j] /\ found'[j] = found[j] /\ results'[j] = results[j]
    BY <1>1, <1>6, <1>12 DEF IInv, DataOK
  <2>2. events \subseteq events' /\ \A e \in events' : e \in events \/ e.call.cap = k
    BY <1>1, EvIs, CallIs DEF c
  <2> QED
    BY <1>12, <2>1, <2>2, OthersKeep
<1> QED
  BY <1>9, <1>10, <1>11, <1>12 DEF PipesInv

\* A binding call that succeeds brings the candidates.
LEMMA BindingPipes ==
  ASSUME IInv, IInv', PipesInv, NEW k \in Pipelines, BindingSucceeds(k)
  PROVE  PipesInv'
<1> DEFINE c == CallOf(k, 1)
<1>1. /\ step[k] = "binding" /\ step' = [step EXCEPT ![k] = "evidence"]
      /\ UNCHANGED results
      /\ events' = events \cup {Ev(c, "succeeded")} \cup {Ev(CallOf(k, 2), "started")}
  BY DEF BindingSucceeds, Ended, CallOf
<1>2. WorkInv(k) /\ SlotInv(k) /\ EventInv(k) /\ work[k] = Empty
  BY <1>1 DEF PipesInv, WorkInv
<1>3. /\ work' = [work EXCEPT ![k].attempts = Append(@, c)]
      /\ \E b \in Bound : found' = [found EXCEPT ![k] = b]
  BY DEF BindingSucceeds, CallOf
<1> HIDE DEF c
<1>4. /\ work'[k] = [work[k] EXCEPT !.attempts = Append(@, c)]
      /\ step'[k] = "evidence" /\ results'[k] = results[k]
      /\ found'[k] \in Bound
      /\ \A j \in Pipelines : j # k => work'[j] = work[j] /\ found'[j] = found[j]
                                       /\ step'[j] = step[j]
  BY <1>1, <1>3 DEF IInv, DataOK
<1>5. /\ work'[k].cands = <<>> /\ work'[k].plans = <<>> /\ ~work'[k].err
      /\ work'[k].attempts = <<c>>
  BY <1>2, <1>4 DEF Empty
<1>6. Made(k) = 0 /\ Calling(k) /\ Made(k)' = 1 /\ (Calling(k)' <=> TRUE) /\ Place(k)' = 1
  BY <1>1, <1>2, <1>4, <1>5 DEF Made, Calling, Empty, Place
<1>7. EventInv(k)'
  <2>1. events' = events \cup {Ev(CallOf(k, Made(k) + 1), "succeeded")}
                    \cup (IF TRUE THEN {Ev(CallOf(k, Made(k) + 2), "started")} ELSE {})
    BY <1>1, <1>6 DEF c
  <2>2. Made(k)' = Made(k) + 1
    BY <1>6
  <2> QED
    BY <1>2, <1>5, <1>6, <2>1, <2>2, CallEnds DEF IInv
<1>8. WorkInv(k)'
  <2>1. \A i \in 1..Len(<<>>) : FALSE
    OBVIOUS
  <2>2. Planned(work[k])'
    BY <1>5, <2>1 DEF Planned
  <2>3. \A i \in 1..1 : i = 1
    OBVIOUS
  <2>4. \A i \in 1..Made(k)' : work'[k].attempts[i] = CallOf(k, i)
    BY <1>5, <1>6, <2>3 DEF c
  <2>5. found'[k] \in Seq(Identities)
    BY <1>4, ProposalAssumption
  <2>6. Len(work'[k].cands) <= Len(found'[k])
    BY <1>5, <2>5
  <2> QED
    BY <1>4, <1>5, <1>6, <2>1, <2>2, <2>4, <2>6 DEF WorkInv
<1>9. SlotInv(k)'
  BY <1>1, <1>2, <1>4 DEF SlotInv
<1>10. ASSUME NEW j \in Pipelines, j # k PROVE (WorkInv(j) /\ SlotInv(j) /\ EventInv(j))'
  <2>1. work'[j] = work[j] /\ step'[j] = step[j] /\ found'[j] = found[j] /\ results'[j] = results[j]
    BY <1>1, <1>4, <1>10
  <2>2. events \subseteq events' /\ \A e \in events' : e \in events \/ e.call.cap = k
    BY <1>1, EvIs, CallIs DEF c
  <2> QED
    BY <1>10, <2>1, <2>2, OthersKeep
<1> QED
  BY <1>7, <1>8, <1>9, <1>10 DEF PipesInv

\* An evidence call that succeeds makes the candidate at its place, and its plan.
LEMMA EvidencePipes ==
  ASSUME IInv, IInv', PipesInv, NEW k \in Pipelines, EvidenceSucceeds(k)
  PROVE  PipesInv'
<1> DEFINE m == Made(k)
           c == CallOf(k, m + 1)
           last == m = Len(found[k])
           cand == Cand(k, m)
           plan == [index |-> m, owner |-> k, nth |-> m]
<1>1. step[k] = "evidence" /\ WorkInv(k) /\ SlotInv(k) /\ EventInv(k)
  BY DEF EvidenceSucceeds, PipesInv
<1>2. Made(k) = Place(k) /\ ~work[k].err
  BY <1>1 DEF WorkInv
<1>3. work[k] \in PipelineResults /\ found[k] \in Seq(Identities) /\ m \in Nat \ {0}
  <2>0. work \in [Pipelines -> PipelineResults] /\ found \in [Pipelines -> Bound \cup {<<>>}]
    BY DEF IInv, DataOK
  <2>1. work[k] \in PipelineResults /\ found[k] \in Bound \cup {<<>>}
    BY <2>0
  <2>3. <<>> \in Seq(Identities)
    OBVIOUS
  <2>2. found[k] \in Seq(Identities)
    BY <2>1, <2>3, ProposalAssumption
  <2> QED
    BY <1>2, <2>1, <2>2 DEF PipelineResults, Place
<1>4. EvidenceCall(k, m) = c /\ EvidenceCall(k, m + 1) = CallOf(k, m + 2)
  BY <1>3 DEF CallOf
<1>5. /\ UNCHANGED <<results, found>>
      /\ step' = [step EXCEPT ![k] = IF last THEN "finishing" ELSE "evidence"]
      /\ events' = events \cup {Ev(c, "succeeded")}
                     \cup (IF last THEN {} ELSE {Ev(CallOf(k, m + 2), "started")})
      /\ work' = [work EXCEPT ![k].cands = Append(@, cand), ![k].plans = Append(@, plan),
                              ![k].attempts = Append(@, c)]
  BY <1>2, <1>4 DEF EvidenceSucceeds, Ended, Cand
<1> HIDE DEF c, cand, plan
<1>6. /\ work'[k].cands = Append(work[k].cands, cand)
      /\ work'[k].plans = Append(work[k].plans, plan)
      /\ work'[k].attempts = Append(work[k].attempts, c)
      /\ ~work'[k].err
      /\ \A j \in Pipelines : j # k => work'[j] = work[j]
  BY <1>2, <1>3, <1>5 DEF IInv, DataOK, PipelineResults
<1>7. /\ step'[k] = IF last THEN "finishing" ELSE "evidence"
      /\ \A j \in Pipelines : j # k => step'[j] = step[j]
  BY <1>5 DEF IInv, DataOK
<1>8. /\ work[k].cands \in Seq(Candidates) /\ work[k].plans \in Seq(ProbePlans)
      /\ work[k].attempts \in Seq(Calls)
      /\ Len(work[k].cands) = m - 1 /\ Len(work[k].plans) = m - 1 /\ Len(work[k].attempts) = m
  <2>1. Len(work[k].plans) = Len(work[k].cands)
    BY <1>1 DEF WorkInv, Planned
  <2> QED
    BY <1>2, <1>3, <2>1 DEF PipelineResults, Place, Made
<1>9. Made(k)' = m + 1 /\ Place(k)' = m + 1 /\ Calling(k) /\ (Calling(k)' <=> ~last)
  <2>3. Made(k)' = m + 1
    BY <1>6, <1>8 DEF Made
  <2>4. Place(k)' = m - 1 + 1 + 1
    BY <1>3, <1>6, <1>8 DEF Place
  <2>1. Made(k)' = m + 1 /\ Place(k)' = m + 1
    BY <1>3, <2>3, <2>4
  <2>2. Calling(k) /\ (Calling(k)' <=> ~last)
    BY <1>1, <1>7 DEF Calling
  <2> QED
    BY <2>1, <2>2
<1>10. EventInv(k)'
  <2> DEFINE more == ~last
  <2>1. more \in BOOLEAN /\ (Calling(k)' <=> more)
    BY <1>9
  <2>2. events' = events \cup {Ev(CallOf(k, Made(k) + 1), "succeeded")}
                    \cup (IF more THEN {Ev(CallOf(k, Made(k) + 2), "started")} ELSE {})
    BY <1>5 DEF c
  <2>3. Made(k)' = Made(k) + 1
    BY <1>9
  <2> HIDE DEF more, m, last
  <2> QED
    BY <1>1, <1>6, <1>9, <2>1, <2>2, <2>3, CallEnds DEF IInv
<1>11. WorkInv(k)'
  <2> DEFINE cs == work[k].cands
             ps == work[k].plans
             ts == work[k].attempts
  <2>a. /\ cs \in Seq(Candidates) /\ ps \in Seq(ProbePlans) /\ ts \in Seq(Calls)
        /\ Len(cs) = m - 1 /\ Len(ps) = m - 1 /\ Len(ts) = m
    BY <1>8
  <2> HIDE DEF cs, ps, ts
  <2>b. /\ \A i \in 1..(m - 1) : Append(cs, cand)[i] = cs[i]
        /\ Append(cs, cand)[m] = cand /\ Len(Append(cs, cand)) = m
    BY <1>3, <2>a
  <2>c. /\ \A i \in 1..(m - 1) : Append(ps, plan)[i] = ps[i]
        /\ Append(ps, plan)[m] = plan /\ Len(Append(ps, plan)) = m
    BY <1>3, <2>a
  <2>d. /\ \A i \in 1..m : Append(ts, c)[i] = ts[i]
        /\ Append(ts, c)[m + 1] = c /\ Len(Append(ts, c)) = m + 1
    BY <1>3, <2>a
  <2>1. /\ \A i \in 1..(m - 1) : /\ work'[k].cands[i] = work[k].cands[i]
                                 /\ work'[k].plans[i] = work[k].plans[i]
        /\ \A i \in 1..m : work'[k].attempts[i] = work[k].attempts[i]
        /\ work'[k].cands[m] = cand /\ work'[k].plans[m] = plan
        /\ work'[k].attempts[m + 1] = c
        /\ Len(work'[k].cands) = m /\ Len(work'[k].plans) = m
        /\ Len(work'[k].attempts) = m + 1
    BY <1>6, <2>b, <2>c, <2>d DEF cs, ps, ts
  <2>2. \A i \in 1..m : i \in 1..(m - 1) \/ i = m
    BY <1>3
  <2>3. \A i \in 1..m : work'[k].cands[i] = Cand(k, i)
    BY <1>1, <1>8, <2>1, <2>2 DEF WorkInv, cand
  <2>4. ASSUME NEW i \in 1..m PROVE work'[k].plans[i] = PlanOf(work'[k].cands[i], i)
    <3>1. CASE i \in 1..(m - 1)
      BY <1>1, <1>8, <2>1, <3>1 DEF WorkInv, Planned, PlanOf
    <3>2. CASE i = m
      BY <2>1, <3>2 DEF plan, cand, Cand, PlanOf
    <3> QED
      BY <2>2, <3>1, <3>2
  <2>5. Planned(work[k])'
    BY <2>1, <2>4 DEF Planned, PlanOf
  <2>6. \A i \in 1..(m + 1) : i \in 1..m \/ i = m + 1
    BY <1>3
  <2>7. \A i \in 1..m : work'[k].attempts[i] = CallOf(k, i)
    BY <1>1, <2>1 DEF WorkInv
  <2>8. work'[k].attempts[m + 1] = CallOf(k, m + 1)
    BY <2>1 DEF c
  <2>9. \A i \in 1..(m + 1) : work'[k].attempts[i] = CallOf(k, i)
    BY <2>6, <2>7, <2>8
  <2>10. Place(k) \in DOMAIN found[k]
    BY <1>1 DEF IInv, PlaceInv
  <2>11. m <= Len(found[k]) /\ found'[k] = found[k]
    BY <1>2, <1>3, <1>5, <2>10
  <2>12. \A i \in 1..m : work'[k].cands[i] = Cand(k, i)'
    BY <2>3, <2>11 DEF Cand
  <2> QED
    BY <1>6, <1>7, <1>9, <2>1, <2>5, <2>9, <2>11, <2>12 DEF WorkInv
<1>12. SlotInv(k)'
  BY <1>1, <1>5, <1>7 DEF SlotInv
<1>13. ASSUME NEW j \in Pipelines, j # k PROVE (WorkInv(j) /\ SlotInv(j) /\ EventInv(j))'
  <2>1. work'[j] = work[j] /\ step'[j] = step[j] /\ found'[j] = found[j] /\ results'[j] = results[j]
    BY <1>5, <1>6, <1>7, <1>13
  <2>2. events \subseteq events' /\ \A e \in events' : e \in events \/ e.call.cap = k
    BY <1>5, EvIs, CallIs DEF c
  <2> QED
    BY <1>13, <2>1, <2>2, OthersKeep
<1> QED
  BY <1>10, <1>11, <1>12, <1>13 DEF PipesInv

\* The goroutine that ends leaves its work in its slot.
LEMMA FinishPipes ==
  ASSUME IInv, IInv', PipesInv, NEW k \in Pipelines, Finish(k)
  PROVE  PipesInv'
<1>1. /\ step[k] = "finishing" /\ UNCHANGED <<found, work, events>>
      /\ step' = [step EXCEPT ![k] = "done"] /\ results' = [results EXCEPT ![k] = work[k]]
  BY DEF Finish
<1>2. /\ step'[k] = "done" /\ results'[k] = work[k]
      /\ \A j \in Pipelines : j # k => step'[j] = step[j] /\ results'[j] = results[j]
  BY <1>1 DEF IInv, DataOK
<1>3. WorkInv(k) /\ EventInv(k)
  BY DEF PipesInv
<1>4. WorkInv(k)'
  BY <1>1, <1>2, <1>3 DEF WorkInv, Planned, PlanOf, Cand, Made
<1>5. SlotInv(k)'
  BY <1>1, <1>2 DEF SlotInv
<1>6. EventInv(k)'
  <2>1. Made(k)' = Made(k) /\ ~Calling(k) /\ ~Calling(k)' /\ Opened(k)' = Opened(k)
    BY <1>1, <1>2 DEF Made, Calling, Opened
  <2> QED
    BY <1>1, <1>3, <2>1 DEF EventInv, FailedCall
<1>7. ASSUME NEW j \in Pipelines, j # k PROVE (WorkInv(j) /\ SlotInv(j) /\ EventInv(j))'
  BY <1>1, <1>2, <1>7, OthersKeep
<1> QED
  BY <1>4, <1>5, <1>6, <1>7 DEF PipesInv

----------------------------------------------------------------------------
(* The whole invariant *)

\* Every step keeps the pipelines as they should be.
LEMMA PipesStep == IInv /\ IInv' /\ PipesInv /\ SerialInv /\ [Next]_vars => PipesInv'
<1> SUFFICES ASSUME IInv, IInv', PipesInv, SerialInv, [Next]_vars PROVE PipesInv'
  OBVIOUS
<1> USE DEF pipes
<1>s. \A st : Ev(Surface, st).call.cap = 0 /\ Ev(Capability, st).call.cap = 0
  BY DEF Ev, Surface, Capability, Call
<1>1. CASE Begin
  BY <1>1, <1>s, QuietPipes DEF Begin, SerialInv
<1>2. CASE SurfaceSucceeds
  BY <1>2, <1>s, QuietPipes DEF SurfaceSucceeds
<1>3. ASSUME NEW call \in {Surface, Capability}, StageFails(call) PROVE PipesInv'
  BY <1>3, <1>s, QuietPipes DEF StageFails
<1>4. CASE CapabilitySucceeds
  BY <1>4, <1>s, QuietPipes DEF CapabilitySucceeds
<1>5. CASE Dispatch
  BY <1>5, DispatchPipes
<1>6. CASE Skip
  BY <1>6, SkipPipes
<1>7. CASE Merge
  BY <1>7, QuietPipes DEF Merge
<1>8. CASE Expire
  BY <1>8, QuietPipes DEF Expire
<1>9. ASSUME NEW k \in Pipelines, Pipeline(k) PROVE PipesInv'
  <2>1. WorkInv(k) /\ Made(k) \in Nat
    BY MadeIs DEF IInv, PipesInv
  <2>2. CASE BindingSucceeds(k)
    BY <2>2, BindingPipes
  <2>3. CASE BindingFails(k)
    <3>1. step[k] = "binding" /\ work[k] = Empty
      BY <2>1, <2>3 DEF BindingFails, WorkInv
    <3>2. Made(k) = 0 /\ Calling(k)
      BY <3>1 DEF Made, Empty, Calling
    <3>3. Call("binding", k, 0) = CallOf(k, Made(k) + 1)
      BY <3>2 DEF CallOf
    <3> QED
      BY <2>3, <3>2, <3>3, FailsPipes DEF BindingFails
  <2>4. CASE EvidenceSucceeds(k)
    BY <2>4, EvidencePipes
  <2>5. CASE EvidenceFails(k)
    <3>1. step[k] = "evidence" /\ Made(k) = Place(k) /\ Calling(k)
      BY <2>1, <2>5 DEF EvidenceFails, WorkInv, Calling
    <3>2. Place(k) # 0
      BY <2>1, <3>1 DEF IInv, DataOK, PipelineResults, Place
    <3>3. EvidenceCall(k, Place(k)) = CallOf(k, Made(k) + 1)
      BY <2>1, <3>1, <3>2 DEF CallOf
    <3> QED
      BY <2>5, <3>1, <3>3, FailsPipes DEF EvidenceFails
  <2>6. CASE Finish(k)
    BY <2>6, FinishPipes
  <2> QED
    BY <1>9, <2>2, <2>3, <2>4, <2>5, <2>6 DEF Pipeline
<1>10. ASSUME NEW k \in Pipelines, ExpirePipeline(k) PROVE PipesInv'
  BY <1>10, QuietPipes DEF ExpirePipeline
<1>11. CASE UNCHANGED vars
  BY <1>11, QuietPipes DEF vars
<1> QED
  BY <1>1, <1>2, <1>3, <1>4, <1>5, <1>6, <1>7, <1>8, <1>9, <1>10, <1>11
  DEF Next, Main

\* The events of the pipelines' calls are no events of the serial stages.
LEMMA SerialKeeps ==
  ASSUME SerialInv, UNCHANGED <<pc, attempts, answer>>, pc \in {"pipelines", "returned"},
         events \subseteq events', \A e \in events' : e \in events \/ e.call.cap # 0
  PROVE  SerialInv'
BY DEF SerialInv

\* Two attempts, one appended to the other.
LEMMA AppendTwo == ASSUME NEW T, NEW a \in T, NEW b \in T PROVE Append(<<a>>, b) = <<a, b>>
<1>1. <<a>> \in Seq(T) /\ <<a, b>> \in Seq(T)
  OBVIOUS
<1>2. Append(<<a>>, b) \in Seq(T) /\ Len(Append(<<a>>, b)) = 2
  BY <1>1
<1>3. Len(<<a, b>>) = 2 /\ Append(<<a>>, b)[1] = a /\ Append(<<a>>, b)[2] = b
  BY <1>1
<1>4. \A i \in 1..2 : Append(<<a>>, b)[i] = <<a, b>>[i]
  <2>1. \A i \in 1..2 : i = 1 \/ i = 2
    OBVIOUS
  <2> QED
    BY <1>3, <2>1
<1> QED
  BY <1>1, <1>2, <1>3, <1>4, SeqEqual

\* Every step keeps what the serial stages announced and attempted.
LEMMA SerialStep == IInv /\ RestOK /\ PipesInv /\ SerialInv /\ [Next]_vars => SerialInv'
<1> SUFFICES ASSUME IInv, RestOK, PipesInv, SerialInv, [Next]_vars PROVE SerialInv'
  OBVIOUS
<1>s. /\ \A st : Ev(Surface, st).call.cap = 0 /\ Ev(Capability, st).call.cap = 0
      /\ Surface.name = "surface" /\ Capability.name = "capability"
  BY DEF Ev, Surface, Capability, Call
<1>0. \A k \in Pipelines : k # 0
  BY ProposalAssumption DEF Pipelines
<1>c. ASSUME NEW k \in Pipelines
      PROVE  /\ \A st : Ev(Call("binding", k, 0), st).call.cap # 0
             /\ \A st, i : Ev(EvidenceCall(k, i), st).call.cap # 0
             /\ step[k] # "none" => pc \in {"pipelines", "returned"}
  <2>1. step[k] # "none" => pc \notin {"idle", "surface", "capability"}
    BY ProposalAssumption DEF IInv, LoopInv, Pipelines
  <2>2. /\ \A st : Ev(Call("binding", k, 0), st).call.cap = k
        /\ \A st, i : Ev(EvidenceCall(k, i), st).call.cap = k
    BY DEF Ev, Call, EvidenceCall
  <2> QED
    BY <1>0, <2>1, <2>2 DEF RestOK
<1>1. CASE Begin
  BY <1>1 DEF SerialInv, Begin
<1>2. CASE SurfaceSucceeds
  BY <1>2 DEF SerialInv, SurfaceSucceeds
<1>3. ASSUME NEW call \in {Surface, Capability}, StageFails(call) PROVE SerialInv'
  <2>1. pc' = "returned"
    BY <1>3 DEF StageFails
  <2> QED
    BY <2>1 DEF SerialInv
<1>4. CASE CapabilitySucceeds
  <2>0. /\ pc = "capability" /\ pc' = "pipelines" /\ answer' = answer
        /\ attempts' = Append(attempts, Capability)
        /\ events' = events \cup {Ev(Capability, "succeeded")}
    BY <1>4 DEF CapabilitySucceeds
  <2>1. /\ attempts = <<Surface>> /\ answer.code = "none"
        /\ events = {Ev(Surface, "started"), Ev(Surface, "succeeded"), Ev(Capability, "started")}
    BY <2>0 DEF SerialInv
  <2>2. attempts' = <<Surface, Capability>>
    BY <2>0, <2>1, SerialCalls, AppendTwo
  <2>3. events' = {Ev(Surface, "started"), Ev(Surface, "succeeded"),
                   Ev(Capability, "started"), Ev(Capability, "succeeded")}
    BY <2>0, <2>1
  <2>4. {e \in events' : e.call.cap = 0} = events'
    BY <1>s, <2>3
  <2> QED
    BY <2>0, <2>1, <2>2, <2>3, <2>4 DEF SerialInv
<1>5. CASE Dispatch
  <2>1. next \in Pipelines /\ pc = "pipelines"
    BY <1>5, ProposalAssumption DEF IInv, LoopInv, Dispatch, Dispatching, Pipelines
  <2> QED
    BY <1>5, <1>c, <2>1, SerialKeeps DEF Dispatch
<1>6. CASE Skip
  BY <1>6, SerialKeeps DEF Skip, Dispatching
<1>7. CASE Merge
  BY <1>7 DEF SerialInv, Merge
<1>8. CASE Expire
  BY <1>8 DEF SerialInv, Expire
<1>9. ASSUME NEW k \in Pipelines, Pipeline(k) PROVE SerialInv'
  <2>1. pc \in {"pipelines", "returned"}
    BY <1>9, <1>c DEF Pipeline, BindingSucceeds, BindingFails, EvidenceSucceeds, EvidenceFails, Finish
  <2>2. CASE BindingSucceeds(k)
    BY <1>c, <2>1, <2>2, SerialKeeps DEF BindingSucceeds, Ended
  <2>3. CASE BindingFails(k)
    BY <1>c, <2>1, <2>3, SerialKeeps DEF BindingFails, PipelineFails, Ended
  <2>4. CASE EvidenceSucceeds(k)
    BY <1>c, <2>1, <2>4, SerialKeeps DEF EvidenceSucceeds, Ended
  <2>5. CASE EvidenceFails(k)
    BY <1>c, <2>1, <2>5, SerialKeeps DEF EvidenceFails, PipelineFails, Ended
  <2>6. CASE Finish(k)
    BY <2>1, <2>6, SerialKeeps DEF Finish
  <2> QED
    BY <1>9, <2>2, <2>3, <2>4, <2>5, <2>6 DEF Pipeline
<1>10. ASSUME NEW k \in Pipelines, ExpirePipeline(k) PROVE SerialInv'
  BY <1>10 DEF SerialInv, ExpirePipeline
<1>11. CASE UNCHANGED vars
  BY <1>11 DEF SerialInv, vars
<1> QED
  BY <1>1, <1>2, <1>3, <1>4, <1>5, <1>6, <1>7, <1>8, <1>9, <1>10, <1>11
  DEF Next, Main

\* When Run has returned there is nothing left that could take a step.
LEMMA ReturnedStops ==
  ASSUME IInv, pc = "returned", [Next]_vars
  PROVE  UNCHANGED vars
<1>1. \A k \in Pipelines : step[k] \notin {"binding", "evidence", "finishing"}
  BY DEF IInv, LoopInv, Busy
<1>2. Surface.name = "surface" /\ Capability.name = "capability"
  BY DEF Surface, Capability, Call
<1>3. ~Main /\ ~Expire
  BY <1>2 DEF Main, Begin, SurfaceSucceeds, CapabilitySucceeds, StageFails, Dispatch, Skip,
               Dispatching, Merge, Expire
<1>4. \A k \in Pipelines : ~Pipeline(k) /\ ~ExpirePipeline(k)
  BY <1>1 DEF Pipeline, BindingSucceeds, BindingFails, EvidenceSucceeds, EvidenceFails, Finish,
               ExpirePipeline
<1> QED
  BY <1>3, <1>4 DEF Next

\* The inductive invariant of what Run answers.
Whole == IInv /\ RestOK /\ PipesInv /\ SerialInv

\* It holds at first,
LEMMA WholeInit == Init => Whole
<1> SUFFICES ASSUME Init PROVE Whole
  OBVIOUS
<1>1. IInv
  BY InitInv
<1>2. RestOK
  <2>1. <<>> \in Seq(Calls) /\ answer.code = "none"
    BY DEF Init, Answer
  <2> QED
    BY <2>1 DEF Init, RestOK
<1>3. SerialInv
  BY DEF Init, SerialInv, Answer
<1>4. ASSUME NEW k \in Pipelines PROVE WorkInv(k) /\ SlotInv(k) /\ EventInv(k)
  <2>1. /\ work[k] = Empty /\ found[k] = <<>> /\ step[k] = "none" /\ results[k] = Empty
        /\ events = {}
    BY DEF Init
  <2>2. /\ Empty.cands = <<>> /\ Empty.plans = <<>> /\ Empty.attempts = <<>> /\ ~Empty.err
        /\ Len(<<>>) = 0
    BY DEF Empty
  <2>3. \A i \in 1..0 : FALSE
    OBVIOUS
  <2>4. Made(k) = 0 /\ Opened(k) = 0 /\ ~Calling(k)
    BY <2>1, <2>2 DEF Made, Opened, Calling
  <2>5. Planned(work[k])
    BY <2>1, <2>2, <2>3 DEF Planned
  <2>6. WorkInv(k)
    BY <2>1, <2>2, <2>3, <2>4, <2>5 DEF WorkInv
  <2>7. SlotInv(k)
    BY <2>1, <2>2 DEF SlotInv
  <2>8. EventInv(k)
    BY <2>1, <2>2, <2>3, <2>4 DEF EventInv, FailedCall
  <2> QED
    BY <2>6, <2>7, <2>8
<1> QED
  BY <1>1, <1>2, <1>3, <1>4 DEF Whole, PipesInv

\* and every step keeps it.
LEMMA WholeStep == Whole /\ [Next]_vars => Whole'
BY StepInv, RestStep, PipesStep, SerialStep DEF Whole

----------------------------------------------------------------------------
(* What Run answers *)

\* When Run merges, each planned pipeline is done or was never started, and its
\* slot says which.
LEMMA SlotsAtMerge ==
  ASSUME Whole, Merge, NEW k \in Pipelines
  PROVE  /\ SlotWhole(k) /\ results[k].attempts = work[k].attempts /\ ~Calling(k)
         /\ ~results[k].err => work[k] = results[k] \/ k > plans
         /\ work[k].err \/ found[k] = <<>>
              \/ (k <= plans /\ ~results[k].err /\ Len(results[k].cands) = Len(found[k]))
         /\ Len(results[k].cands) <= Len(found[k])
         /\ k \in 1..plans /\ ~results[k].err => ~work[k].err
         /\ k > plans => Made(k) = 0
<1>1. Busy = {}
  <2>1. Cardinality(Busy) = 0
    BY DEF Whole, IInv, CountInv, Merge
  <2> QED
    BY <2>1, BusyFinite, FS_EmptySet
<1>2. step[k] \in {"none", "done"} /\ ~Calling(k)
  BY <1>1 DEF Whole, IInv, DataOK, Busy, Calling
<1>3. /\ step[k] = "none" => k > plans \/ results[k].err
      /\ k > plans => step[k] = "none"
  BY ProposalAssumption DEF Whole, IInv, LoopInv, Merge, Pipelines
<1>4. WorkInv(k) /\ SlotInv(k)
  BY DEF Whole, PipesInv
<1>5. Empty.cands = <<>> /\ Empty.plans = <<>> /\ Empty.attempts = <<>> /\ ~Empty.err
      /\ Len(<<>>) = 0
  BY DEF Empty
<1>6. \A i \in 1..0 : FALSE
  OBVIOUS
<1>7. CASE step[k] = "none"
  <2>1. /\ results[k].cands = <<>> /\ results[k].plans = <<>> /\ results[k].attempts = <<>>
        /\ work[k] = Empty /\ found[k] = <<>> /\ (k > plans \/ results[k].err)
    BY <1>3, <1>4, <1>7 DEF WorkInv, SlotInv
  <2>2. SlotWhole(k)
    BY <1>5, <1>6, <2>1 DEF SlotWhole, Planned
  <2> QED
    BY <1>2, <1>3, <1>5, <1>7, <2>1, <2>2 DEF Made
<1>8. CASE step[k] = "done"
  <2>1. results[k] = work[k] /\ k <= plans
    BY <1>3, <1>4, <1>8, ProposalAssumption DEF SlotInv, Whole, IInv, LoopInv, Pipelines
  <2>2. SlotWhole(k)
    BY <1>4, <2>1 DEF WorkInv, SlotWhole, Planned, PlanOf
  <2>3. ~work[k].err => Len(work[k].cands) = Len(found[k])
    BY <1>4, <1>8 DEF WorkInv
  <2>4. Len(work[k].cands) <= Len(found[k])
    BY <1>4 DEF WorkInv
  <2>5. ~(k > plans)
    BY <2>1, ProposalAssumption DEF Whole, IInv, LoopInv, Pipelines
  <2> QED
    BY <1>2, <2>1, <2>2, <2>3, <2>4, <2>5
<1> QED
  BY <1>2, <1>7, <1>8

\* The merged result lists the candidates of the pipelines that did not fail.
LEMMA MergeLists == ASSUME Whole, Merge PROVE Lists(MergedUpTo[plans])
<1> DEFINE M == MergedUpTo[plans]
<1>1. plans \in 0..MaxPlans /\ results \in [Pipelines -> PipelineResults]
  BY DEF Whole, IInv, LoopInv, DataOK
<1>2. M \in MergeResults /\ MergedRight(plans)
  <2>1. \A k \in Pipelines : SlotWhole(k)
    BY SlotsAtMerge
  <2> QED
    BY <1>1, <2>1, MergeRecursion, MergesRight
<1>3. /\ Planned(M)
      /\ \A i, j \in 1..Len(M.cands) : i < j => Before(Pair(M.cands[i]), Pair(M.cands[j]))
      /\ \A m \in 1..Len(M.cands) :
           \E k \in 1..plans : ~results[k].err /\ \E i \in Places(k) : M.cands[m] = Cand(k, i)
      /\ \A k \in 1..plans : ~results[k].err =>
           \A i \in Places(k) : \E m \in 1..Len(M.cands) : M.cands[m] = Cand(k, i)
  BY <1>2 DEF MergedRight
<1> HIDE DEF M
<1>4. 1..plans \subseteq Pipelines
  BY <1>1, ProposalAssumption DEF Pipelines
<1>5. ASSUME NEW k \in Pipelines, NEW i
      PROVE  /\ Pair(Cand(k, i)) = <<k, i>> /\ IdOf(<<k, i>>) = Cand(k, i).id
             /\ IdOf(<<k, i>>) = found[k][i]
  BY DEF Pair, Cand, IdOf
<1>6. ASSUME NEW k \in Pipelines
      PROVE  /\ found[k] \in Seq(Identities) /\ DOMAIN found[k] = 1..Len(found[k])
             /\ Len(results[k].cands) \in Nat
             /\ FailedCall(k) <=> work[k].err
  <2>1. found[k] \in Bound \cup {<<>>} /\ results[k] \in PipelineResults
    BY DEF Whole, IInv, DataOK
  <2>2. <<>> \in Seq(Identities)
    OBVIOUS
  <2>3. found[k] \in Seq(Identities)
    BY <2>1, <2>2, ProposalAssumption
  <2>4. FailedCall(k) <=> work[k].err
    BY DEF Whole, PipesInv, EventInv
  <2> QED
    BY <2>1, <2>3, <2>4 DEF PipelineResults
<1>7. ASSUME NEW k \in Pipelines, NEW i \in DOMAIN found[k]
      PROVE  <<k, i>> \in Sound <=> ~FailedCall(k) /\ found[k][i] \in Own
  <2>1. <<k, i>> \in UNION {{<<h, j>> : j \in DOMAIN found[h]} : h \in Pipelines}
    OBVIOUS
  <2> QED
    BY <1>5, <2>1 DEF Sound
<1>8. ASSUME NEW m \in 1..Len(M.cands)
      PROVE  /\ IdOf(Pair(M.cands[m])) = M.cands[m].id
             /\ M.cands[m].id \in Own => Pair(M.cands[m]) \in Sound
  <2>1. PICK k \in 1..plans : ~results[k].err /\ \E i \in Places(k) : M.cands[m] = Cand(k, i)
    BY <1>3
  <2>2. PICK i \in Places(k) : M.cands[m] = Cand(k, i)
    BY <2>1
  <2>3. k \in Pipelines
    BY <1>4
  <2>4. Len(results[k].cands) <= Len(found[k]) /\ ~work[k].err
    BY <2>1, <2>3, SlotsAtMerge
  <2>5. i \in DOMAIN found[k]
    BY <1>6, <2>3, <2>4 DEF Places
  <2>6. /\ Pair(Cand(k, i)) = <<k, i>> /\ IdOf(<<k, i>>) = Cand(k, i).id
        /\ Cand(k, i).id = found[k][i]
    BY <1>5, <2>3
  <2>7. Cand(k, i).id \in Own => <<k, i>> \in Sound
    BY <1>6, <1>7, <2>3, <2>4, <2>5, <2>6
  <2> QED
    BY <2>2, <2>6, <2>7
<1>9. ASSUME NEW f \in Sound PROVE \E m \in 1..Len(M.cands) : Pair(M.cands[m]) = f
  <2>1. PICK k \in Pipelines : f \in {<<k, i>> : i \in DOMAIN found[k]}
    BY DEF Sound
  <2>2. PICK i \in DOMAIN found[k] : f = <<k, i>>
    BY <2>1
  <2>3. ~work[k].err
    BY <1>6, <1>7, <2>2
  <2>4. found[k] # <<>>
    BY <1>6
  <2>5. k <= plans /\ ~results[k].err /\ Len(results[k].cands) = Len(found[k])
    BY <2>3, <2>4, SlotsAtMerge
  <2>6. k \in 1..plans /\ i \in Places(k)
    BY <1>1, <1>6, <2>5, ProposalAssumption DEF Pipelines, Places
  <2>7. PICK m \in 1..Len(M.cands) : M.cands[m] = Cand(k, i)
    BY <1>3, <2>5, <2>6
  <2> QED
    BY <1>5, <2>2, <2>7
<1>10. Lists(M)
  BY <1>2, <1>3, <1>8, <1>9 DEF Lists
<1> QED
  BY <1>10 DEF M

\* The selection has nothing to refuse.
LEMMA NotRefused == ASSUME NEW M, Lists(M) PROVE ~SelectRefuses(M)
<1>1. M \in MergeResults /\ Planned(M)
  BY DEF Lists
<1>2. M.cands \in Seq(Candidates) /\ M.plans \in Seq(ProbePlans)
  BY <1>1 DEF MergeResults
<1>3. /\ DOMAIN M.cands = 1..Len(M.cands) /\ DOMAIN M.plans = 1..Len(M.cands)
      /\ \A i \in 1..Len(M.cands) : M.plans[i].index = i
  <2>1. Len(M.plans) = Len(M.cands)
        /\ \A i \in 1..Len(M.cands) : M.plans[i] = PlanOf(M.cands[i], i)
    BY <1>1 DEF Planned
  <2>2. \A i : PlanOf(M.cands[i], i).index = i
    BY DEF PlanOf
  <2>3. \A i \in 1..Len(M.cands) : M.plans[i].index = i
    BY <2>1, <2>2
  <2>4. DOMAIN M.cands = 1..Len(M.cands) /\ DOMAIN M.plans = 1..Len(M.cands)
    BY <1>2, <2>1
  <2> QED
    BY <2>3, <2>4
<1>4. \A p \in ToSet(M.plans) : p.index \in DOMAIN M.cands
  BY <1>3 DEF ToSet
<1>5. \A i \in DOMAIN M.cands : PlansOf(M, i) # {}
  BY <1>1, <1>3, OnePlan
<1> QED
  BY <1>3, <1>4, <1>5 DEF SelectRefuses

\* What Run answers when it merges.
LEMMA MergeAnswers ==
  ASSUME Whole, Merge
  PROVE  LET M == MergedUpTo[plans] s == Selection(M)[Len(M.cands)] IN
         /\ answer'.code \in {"ok", "no_candidates"}
         /\ answer'.code = "ok" => answer'.cands = s.cands /\ answer'.plans = s.plans
         /\ answer'.attempts = AttemptsUpTo[plans]
<1> DEFINE M == MergedUpTo[plans]
<1>1. ~SelectRefuses(M)
  BY MergeLists, NotRefused
<1> DEFINE code == IF M.cands = <<>> THEN "no_candidates"
                 ELSE IF SelectRefuses(M) THEN "select_failed" ELSE "ok"
           result == IF code = "ok" THEN Select(M) ELSE M
<1>2. answer' = Answer(code, result.cands, result.plans, AttemptsUpTo[plans])
  BY DEF Merge, MergedPipelines, AllAttempts
<1>3. code \in {"ok", "no_candidates"} /\ (code = "ok" => result = Select(M))
  BY <1>1
<1> HIDE DEF code, result
<1>4. answer'.code = code /\ answer'.cands = result.cands /\ answer'.plans = result.plans
      /\ answer'.attempts = AttemptsUpTo[plans]
  BY <1>2 DEF Answer
<1> QED
  BY <1>3, <1>4 DEF Select

\* And what it answers when a serial stage fails.
LEMMA StageFailsAnswers ==
  ASSUME NEW call \in {Surface, Capability}, StageFails(call)
  PROVE  answer'.code = "stage_failed" /\ pc' = "returned" /\ pc # "returned"
<1>1. call.name # "returned"
  BY DEF Surface, Capability, Call
<1> QED
  BY <1>1 DEF StageFails, Answer

\* Run returns by merging or because a stage failed, and then stands still.
LEMMA Outcomes ==
  ASSUME Whole, Whole', [Next]_vars
  PROVE  \/ UNCHANGED vars
         \/ pc' # "returned" /\ answer'.code = "none"
         \/ \E call \in {Surface, Capability} : StageFails(call)
         \/ Merge
<1>1. CASE pc = "returned"
  BY <1>1, ReturnedStops DEF Whole
<1>2. CASE pc' # "returned"
  BY <1>2 DEF Whole, SerialInv
<1>3. CASE pc # "returned" /\ pc' = "returned"
  <2>1. ~Begin /\ ~SurfaceSucceeds /\ ~CapabilitySucceeds
    BY <1>3 DEF Begin, SurfaceSucceeds, CapabilitySucceeds
  <2>2. ~Dispatch /\ ~Skip /\ ~Expire
    BY <1>3 DEF Dispatch, Skip, Expire
  <2>3. \A k \in Pipelines : ~Pipeline(k) /\ ~ExpirePipeline(k)
    BY <1>3 DEF Pipeline, BindingSucceeds, BindingFails, EvidenceSucceeds, EvidenceFails,
                PipelineFails, Ended, Finish, ExpirePipeline
  <2> QED
    BY <2>1, <2>2, <2>3 DEF Next, Main
<1> QED
  BY <1>1, <1>2, <1>3

\* What is wanted is settled by what was found, what failed and the limit.
LEMMA WantedKept ==
  ASSUME UNCHANGED <<found, events, limit>>
  PROVE  Wanted' = Wanted
<1>1. Sound' = Sound
  BY DEF Sound, FailedCall, IdOf
<1>2. \A f : IdOf(f)' = IdOf(f)
  BY DEF IdOf
<1>3. Firsts' = Firsts
  BY <1>1, <1>2 DEF Firsts
<1>4. \A f : Earlier(f)' = Earlier(f)
  BY <1>3 DEF Earlier
<1>5. Wanted' = {f \in Firsts' : limit' = 0 \/ Cardinality(Earlier(f)') < limit'}
  BY DEF Wanted, Firsts, Earlier
<1> QED
  BY <1>3, <1>4, <1>5, WantedIs

\* The answer is what the selection is at the end.
LEMMA AnswersRight ==
  ASSUME Whole, Merge
  PROVE  (ReturnsWantedInOrder /\ ProbePlansMatch)'
<1> DEFINE M == MergedUpTo[plans]
           s == Selection(M)[Len(M.cands)]
<1>1. Lists(M)
  BY MergeLists
<1> HIDE DEF M
<1>2. limit \in Nat
  BY ProposalAssumption DEF Whole, RestOK
<1>3. M \in MergeResults /\ Planned(M) /\ Len(M.cands) \in Nat
  BY <1>1 DEF Lists, MergeResults
<1>4. Len(M.cands) \in 0..Len(M.cands)
  BY <1>3
<1>5. s \in MergeResults /\ SelectedRight(M, Len(M.cands))
  BY <1>1, <1>2, <1>3, <1>4, SelectRecursion, SelectsRight
<1>6. /\ Planned(s)
      /\ \A j, k \in 1..Len(s.cands) : j < k => Before(Pair(s.cands[j]), Pair(s.cands[k]))
      /\ \A j \in 1..Len(s.cands) : Pair(s.cands[j]) \in Wanted
      /\ \A m \in 1..Len(M.cands) : Pair(M.cands[m]) \in Wanted =>
           \E j \in 1..Len(s.cands) : s.cands[j] = M.cands[m]
  BY <1>5 DEF SelectedRight
<1>7. \A f \in Wanted : \E j \in 1..Len(s.cands) : Pair(s.cands[j]) = f
  <2> SUFFICES ASSUME NEW f \in Wanted PROVE \E j \in 1..Len(s.cands) : Pair(s.cands[j]) = f
    OBVIOUS
  <2>1. f \in Sound
    BY DEF Wanted
  <2>2. PICK m \in 1..Len(M.cands) : Pair(M.cands[m]) = f
    BY <1>1, <2>1 DEF Lists
  <2>3. PICK j \in 1..Len(s.cands) : s.cands[j] = M.cands[m]
    BY <1>6, <2>2
  <2> QED
    BY <2>2, <2>3
<1>8. s.cands \in Seq(Candidates) /\ s.plans \in Seq(ProbePlans)
  BY <1>5 DEF MergeResults
<1> HIDE DEF s
<1>9. Wanted' = Wanted
  BY WantedKept DEF Merge, pipes, control
<1>10. /\ answer'.code \in {"ok", "no_candidates"}
       /\ answer'.code = "ok" => answer'.cands = s.cands /\ answer'.plans = s.plans
  BY MergeAnswers DEF M, s
<1>11. ReturnsWantedInOrder'
  <2> SUFFICES ASSUME answer'.code = "ok"
      PROVE LET made == [i \in DOMAIN answer'.cands |->
                           <<answer'.cands[i].owner, answer'.cands[i].nth>>] IN
              /\ ToSet(made) = Wanted
              /\ \A i, j \in DOMAIN made : i < j => Before(made[i], made[j])
    BY <1>9 DEF ReturnsWantedInOrder, Before
  <2> DEFINE made == [i \in DOMAIN answer'.cands |->
                        <<answer'.cands[i].owner, answer'.cands[i].nth>>]
  <2>1. DOMAIN made = 1..Len(s.cands) /\ \A i \in 1..Len(s.cands) : made[i] = Pair(s.cands[i])
    BY <1>8, <1>10 DEF Pair
  <2> HIDE DEF made
  <2>2. ToSet(made) = Wanted
    BY <1>6, <1>7, <2>1 DEF ToSet
  <2>3. \A i, j \in DOMAIN made : i < j => Before(made[i], made[j])
    BY <1>6, <2>1
  <2> QED
    BY <2>2, <2>3 DEF made
<1>12. ProbePlansMatch'
  <2> SUFFICES ASSUME answer'.code = "ok"
      PROVE  /\ Len(answer'.plans) = Len(answer'.cands)
             /\ \A i \in DOMAIN answer'.cands :
                  answer'.plans[i] = [index |-> i, owner |-> answer'.cands[i].owner,
                                      nth |-> answer'.cands[i].nth]
    BY <1>10 DEF ProbePlansMatch
  <2> QED
    BY <1>6, <1>8, <1>10 DEF Planned, PlanOf
<1> QED
  BY <1>11, <1>12

\* Every step keeps what is said of the answer.
LEMMA AnswerStep ==
  Whole /\ Whole' /\ [Next]_vars /\ ReturnsWantedInOrder /\ ProbePlansMatch
    => ReturnsWantedInOrder' /\ ProbePlansMatch'
<1> SUFFICES ASSUME Whole, Whole', [Next]_vars, ReturnsWantedInOrder, ProbePlansMatch
             PROVE  ReturnsWantedInOrder' /\ ProbePlansMatch'
  OBVIOUS
<1>1. CASE UNCHANGED vars
  <2>1. Wanted' = Wanted /\ answer' = answer
    BY <1>1, WantedKept DEF vars, pipes, control
  <2>2. ProbePlansMatch'
    BY <2>1 DEF ProbePlansMatch
  <2>3. ASSUME answer.code = "ok" PROVE ReturnsWantedInOrder'
    <3> DEFINE made == [i \in DOMAIN answer.cands |->
                          <<answer.cands[i].owner, answer.cands[i].nth>>]
    <3>1. ToSet(made) = Wanted /\ \A i, j \in DOMAIN made : i < j => Before(made[i], made[j])
      BY <2>3 DEF ReturnsWantedInOrder
    <3>2. made' = made
      BY <2>1
    <3> HIDE DEF made
    <3>3. ToSet(made') = Wanted' /\ \A i, j \in DOMAIN made' : i < j => Before(made'[i], made'[j])
      BY <2>1, <3>1, <3>2
    <3> QED
      BY <3>3 DEF ReturnsWantedInOrder, Before, made
  <2>4. answer.code # "ok" => ReturnsWantedInOrder'
    BY <2>1 DEF ReturnsWantedInOrder
  <2> QED
    BY <2>2, <2>3, <2>4
<1>2. CASE answer'.code \in {"none", "stage_failed"}
  BY <1>2 DEF ReturnsWantedInOrder, ProbePlansMatch
<1>3. CASE Merge
  BY <1>3, AnswersRight
<1> QED
  BY <1>1, <1>2, <1>3, Outcomes, StageFailsAnswers

----------------------------------------------------------------------------
(* The diagnostics *)

\* AttemptsUpTo is what its equations say, and a sequence of calls at every slot.
LEMMA AttemptsRecursion ==
  ASSUME results \in [Pipelines -> PipelineResults], attempts \in Seq(Calls)
  PROVE  /\ \A n \in 0..MaxPlans : AttemptsUpTo[n] \in Seq(Calls)
         /\ AttemptsUpTo[0] = attempts
         /\ \A n \in Pipelines : AttemptsUpTo[n] = AttemptsUpTo[n - 1] \o results[n].attempts
<1> DEFINE Step == [n \in 1..MaxPlans |-> [s \in Seq(Calls) |-> s \o results[n].attempts]]
           Body(f) == [n \in 0..MaxPlans |-> IF n = 0 THEN attempts
                                             ELSE f[n - 1] \o results[n].attempts]
<1>0. \A n \in 1..MaxPlans, s \in Seq(Calls) : s \o results[n].attempts \in Seq(Calls)
  <2> SUFFICES ASSUME NEW n \in 1..MaxPlans, NEW s \in Seq(Calls)
               PROVE  s \o results[n].attempts \in Seq(Calls)
    OBVIOUS
  <2>1. results[n].attempts \in Seq(Calls)
    BY DEF Pipelines, PipelineResults
  <2> QED
    BY <2>1
<1>2. Step \in Steps(MaxPlans, Seq(Calls))
  BY <1>0 DEF Steps
<1>3. MaxPlans \in Nat
  BY ProposalAssumption
<1>4. PICK f : Computes(f, MaxPlans, Seq(Calls), attempts, Step)
  <2> HIDE DEF Step, Body
  <2> QED
    BY <1>2, <1>3, Recursion
<1>5. f = Body(f)
  <2>1. /\ f \in [0..MaxPlans -> Seq(Calls)] /\ f[0] = attempts
        /\ \A n \in 1..MaxPlans : f[n] = Step[n][f[n - 1]]
    BY <1>4 DEF Computes
  <2>2. \A n \in 1..MaxPlans : f[n] = f[n - 1] \o results[n].attempts
    <3>1. \A n \in 1..MaxPlans : n - 1 \in 0..MaxPlans
      BY <1>3
    <3> QED
      BY <2>1, <3>1
  <2>3. \A n \in 0..MaxPlans : n = 0 \/ n \in 1..MaxPlans
    BY <1>3
  <2>4. \A n \in 0..MaxPlans : f[n] = IF n = 0 THEN attempts ELSE f[n - 1] \o results[n].attempts
    BY <2>1, <2>2, <2>3
  <2>5. f = [n \in 0..MaxPlans |-> f[n]]
    BY <2>1
  <2> QED
    BY <2>4, <2>5
<1>6. AttemptsUpTo = CHOOSE g : g = Body(g)
  BY Zenon DEF AttemptsUpTo
<1>7. AttemptsUpTo = Body(AttemptsUpTo)
  <2> HIDE DEF Body
  <2> QED
    BY <1>5, <1>6
<1>8. \A n \in 0..MaxPlans : AttemptsUpTo[n] = Body(AttemptsUpTo)[n]
  <2> HIDE DEF Body
  <2> QED
    BY <1>7
<1>9. AttemptsUpTo[0] = attempts
  BY <1>3, <1>8
<1>10. ASSUME NEW n \in Pipelines
       PROVE  AttemptsUpTo[n] = AttemptsUpTo[n - 1] \o results[n].attempts
  <2>1. n \in 0..MaxPlans /\ n # 0
    BY <1>3 DEF Pipelines
  <2> QED
    BY <1>8, <2>1
<1>11. ASSUME NEW n \in 0..MaxPlans PROVE AttemptsUpTo[n] \in Seq(Calls)
  <2> DEFINE S == {m \in 0..MaxPlans : AttemptsUpTo[m] \in Seq(Calls)}
  <2>1. 0 \in S
    BY <1>3, <1>9
  <2>2. ASSUME NEW m \in 1..MaxPlans, m - 1 \in S PROVE m \in S
    <3>1. m \in Pipelines /\ m \in 0..MaxPlans /\ AttemptsUpTo[m - 1] \in Seq(Calls)
      BY <1>3, <2>2 DEF Pipelines
    <3> QED
      BY <1>0, <1>10, <3>1
  <2> HIDE DEF S
  <2>3. \A m \in 0..MaxPlans : m \in S
    BY <1>3, <2>1, <2>2, CountingUpTo
  <2> QED
    BY <2>3 DEF S
<1> QED
  BY <1>9, <1>10, <1>11

\* The calls of the serial stages and those of the first n pipelines.
CallsTo(n) ==
  {Surface, Capability} \cup UNION {{CallOf(k, i) : i \in 1..Made(k)} : k \in 1..n}

\* s lists the members of T, each once.
Enumerates(s, T) ==
  /\ \A i \in 1..Len(s) : s[i] \in T
  /\ \A t \in T : \E i \in 1..Len(s) : s[i] = t
  /\ \A i, j \in 1..Len(s) : s[i] = s[j] => i = j

\* Two lists of different members, joined, list the members of both.
LEMMA JoinEnumerates ==
  ASSUME NEW s \in Seq(Calls), NEW t \in Seq(Calls), NEW q \in Seq(Calls), Joins(q, s, t),
         NEW S, NEW T, Enumerates(s, S), Enumerates(t, T), S \cap T = {}
  PROVE  Enumerates(q, S \cup T)
<1>1. Len(s) \in Nat /\ Len(t) \in Nat /\ Len(q) \in Nat
  OBVIOUS
<1>2. ASSUME NEW j \in 1..Len(q)
      PROVE  \/ j \in 1..Len(s) /\ q[j] = s[j] /\ q[j] \in S
             \/ \E i \in 1..Len(t) : j = Len(s) + i /\ q[j] = t[i] /\ q[j] \in T
  <2>1. CASE j \in 1..Len(s)
    BY <2>1 DEF Joins, Enumerates
  <2>2. CASE \E i \in 1..Len(t) : j = Len(s) + i
    <3>1. PICK i \in 1..Len(t) : j = Len(s) + i
      BY <2>2
    <3>2. q[j] = t[i] /\ t[i] \in T
      BY <3>1 DEF Joins, Enumerates
    <3> QED
      BY <3>1, <3>2
  <2> QED
    BY <2>1, <2>2 DEF Joins
<1>3. \A j \in 1..Len(q) : q[j] \in S \cup T
  BY <1>2
<1>4. ASSUME NEW c \in S \cup T PROVE \E j \in 1..Len(q) : q[j] = c
  <2>1. CASE c \in S
    BY <2>1 DEF Joins, Enumerates
  <2>2. CASE c \in T
    <3>1. PICK i \in 1..Len(t) : t[i] = c
      BY <2>2 DEF Enumerates
    <3>2. Len(s) + i \in 1..Len(q) /\ q[Len(s) + i] = c
      BY <3>1 DEF Joins
    <3> QED
      BY <3>2
  <2> QED
    BY <2>1, <2>2
<1>5. ASSUME NEW i \in 1..Len(q), NEW j \in 1..Len(q), q[i] = q[j] PROVE i = j
  <2>1. CASE i \in 1..Len(s) /\ q[i] = s[i] /\ q[i] \in S
    <3>1. j \in 1..Len(s) /\ q[j] = s[j]
      BY <1>2, <1>5, <2>1
    <3> QED
      BY <1>5, <2>1, <3>1 DEF Enumerates
  <2>2. CASE \E a \in 1..Len(t) : i = Len(s) + a /\ q[i] = t[a] /\ q[i] \in T
    <3>1. PICK a \in 1..Len(t) : i = Len(s) + a /\ q[i] = t[a] /\ q[i] \in T
      BY <2>2
    <3>2. PICK b \in 1..Len(t) : j = Len(s) + b /\ q[j] = t[b]
      BY <1>2, <1>5, <3>1
    <3>3. a = b
      BY <1>5, <3>1, <3>2 DEF Enumerates
    <3> QED
      BY <3>1, <3>2, <3>3
  <2> QED
    BY <1>2, <2>1, <2>2
<1> QED
  BY <1>3, <1>4, <1>5 DEF Enumerates

\* The diagnostics made the calls made, pipeline after pipeline.
LEMMA AttemptsRight ==
  ASSUME Whole, pc = "pipelines",
         \A k \in Pipelines : results[k].attempts = work[k].attempts
  PROVE  \A n \in 0..MaxPlans : Enumerates(AttemptsUpTo[n], CallsTo(n))
<1>1. /\ results \in [Pipelines -> PipelineResults] /\ attempts \in Seq(Calls)
      /\ attempts = <<Surface, Capability>> /\ MaxPlans \in Nat
  BY ProposalAssumption DEF Whole, IInv, DataOK, RestOK, SerialInv
<1>2. /\ \A n \in 0..MaxPlans : AttemptsUpTo[n] \in Seq(Calls)
      /\ AttemptsUpTo[0] = attempts
      /\ \A n \in Pipelines : AttemptsUpTo[n] = AttemptsUpTo[n - 1] \o results[n].attempts
  BY <1>1, AttemptsRecursion
<1>3. Surface.cap = 0 /\ Capability.cap = 0 /\ Surface # Capability
  <2>1. Surface.name = "surface" /\ Capability.name = "capability"
    BY DEF Surface, Capability, Call
  <2>2. Surface.cap = 0 /\ Capability.cap = 0
    BY DEF Surface, Capability, Call
  <2> QED
    BY <2>1, <2>2
<1> DEFINE S == {n \in 0..MaxPlans : Enumerates(AttemptsUpTo[n], CallsTo(n))}
<1>4. 0 \in S
  <2>1. CallsTo(0) = {Surface, Capability}
    <3>1. \A k \in 1..0 : FALSE
      OBVIOUS
    <3> QED
      BY <3>1 DEF CallsTo
  <2>2. Len(attempts) = 2 /\ attempts[1] = Surface /\ attempts[2] = Capability
    BY <1>1
  <2>3. \A i \in 1..2 : i = 1 \/ i = 2
    OBVIOUS
  <2>4. Enumerates(attempts, {Surface, Capability})
    <3>1. 1 \in 1..2 /\ 2 \in 1..2
      OBVIOUS
    <3> QED
      BY <1>3, <2>2, <2>3, <3>1 DEF Enumerates
  <2>5. Enumerates(AttemptsUpTo[0], CallsTo(0))
    BY <1>2, <2>1, <2>4
  <2> QED
    BY <1>1, <2>5
<1>5. ASSUME NEW n \in 1..MaxPlans, n - 1 \in S PROVE n \in S
  <2> DEFINE t == results[n].attempts
             T == {CallOf(n, i) : i \in 1..Made(n)}
  <2>1. n \in Pipelines /\ n \in 0..MaxPlans /\ n - 1 \in 0..MaxPlans /\ n \in Nat \ {0}
    BY <1>1 DEF Pipelines
  <2>2. t \in Seq(Calls) /\ Len(t) = Made(n) /\ Made(n) \in Nat
    BY <1>1, <2>1 DEF PipelineResults, Made
  <2>3. \A i \in 1..Made(n) : t[i] = CallOf(n, i)
    BY <2>1 DEF Whole, PipesInv, WorkInv
  <2>4. Enumerates(t, T)
    <3>1. \A i, j \in 1..Made(n) : CallOf(n, i) = CallOf(n, j) => i = j
      <4>1. \A i \in 1..Made(n) : i \in Nat \ {0}
        BY <2>2
      <4> QED
        BY <4>1, CallIs
    <3> HIDE DEF t
    <3> QED
      BY <2>2, <2>3, <3>1 DEF Enumerates
  <2>5. CallsTo(n) = CallsTo(n - 1) \cup T
    <3>1. 1..n = (1..(n - 1)) \cup {n}
      BY <2>1
    <3> QED
      BY <3>1 DEF CallsTo
  <2>6. CallsTo(n - 1) \cap T = {}
    <3>1. \A i : CallOf(n, i).cap = n
      BY CallIs
    <3>2. \A k \in 1..(n - 1) : k # n
      BY <2>1
    <3>3. \A k, i : CallOf(k, i).cap = k
      BY CallIs
    <3>4. \A c \in CallsTo(n - 1) : c.cap # n
      BY <1>3, <2>1, <3>2, <3>3 DEF CallsTo
    <3> QED
      BY <3>1, <3>4
  <2>7. Joins(AttemptsUpTo[n], AttemptsUpTo[n - 1], t)
    BY <1>2, <2>1, <2>2, Concatenated
  <2>8. Enumerates(AttemptsUpTo[n - 1], CallsTo(n - 1))
    BY <1>5
  <2> HIDE DEF t, T
  <2>9. Enumerates(AttemptsUpTo[n], CallsTo(n - 1) \cup T)
    BY <1>2, <2>1, <2>2, <2>4, <2>6, <2>7, <2>8, JoinEnumerates
  <2> QED
    BY <2>1, <2>5, <2>9
<1> HIDE DEF S
<1>6. \A n \in 0..MaxPlans : n \in S
  BY <1>1, <1>4, <1>5, CountingUpTo
<1> QED
  BY <1>6 DEF S

\* The calls that events are about.
CallsIn(E) == {e.call : e \in E}

\* Each event belongs to a call that was started and ended, once each.
Paired(E) ==
  \A e \in E : \E st \in {"succeeded", "failed"} :
    {d \in E : d.call = e.call} = {Ev(e.call, "started"), Ev(e.call, st)}

\* Events in pairs and an enumeration of their calls are what the diagnostics
\* promise.
LEMMA Diagnosed ==
  ASSUME NEW made \in Seq(Calls), NEW E, Enumerates(made, CallsIn(E)), Paired(E)
  PROVE  /\ \A e \in E : Cardinality({d \in E : d.call = e.call}) = 2
         /\ ToSet(made) = CallsIn(E)
         /\ Len(made) = Cardinality(ToSet(made))
<1>1. ASSUME NEW e \in E PROVE Cardinality({d \in E : d.call = e.call}) = 2
  <2>1. PICK st \in {"succeeded", "failed"} :
          {d \in E : d.call = e.call} = {Ev(e.call, "started"), Ev(e.call, st)}
    BY DEF Paired
  <2>2. Ev(e.call, "started") # Ev(e.call, st)
    <3>1. Ev(e.call, "started").status = "started" /\ Ev(e.call, st).status = st
      BY EvIs
    <3> QED
      BY <3>1
  <2>3. Cardinality({Ev(e.call, "started"), Ev(e.call, st)}) = 2
    <3> DEFINE a == Ev(e.call, "started")
               b == Ev(e.call, st)
               g == [i \in 1..2 |-> IF i = 1 THEN a ELSE b]
               T == {a, b}
    <3>1. a # b
      BY <2>2
    <3> HIDE DEF a, b
    <3>2. g \in [1..2 -> T] /\ g[1] = a /\ g[2] = b
      OBVIOUS
    <3>3. \A i \in 1..2 : i = 1 \/ i = 2
      OBVIOUS
    <3>4. /\ \A i, j \in 1..2 : g[i] = g[j] => i = j
          /\ \A t \in T : \E i \in 1..2 : g[i] = t
      BY <3>1, <3>2, <3>3
    <3> HIDE DEF g, T
    <3>5. Cardinality(T) = 2
      BY <3>2, <3>4, Counted
    <3> QED
      BY <3>5 DEF a, b, T
  <2> QED
    BY <2>1, <2>3
<1>2. DOMAIN made = 1..Len(made) /\ Len(made) \in Nat
  OBVIOUS
<1>3. ToSet(made) = CallsIn(E)
  BY <1>2 DEF ToSet, Enumerates
<1>4. Len(made) = Cardinality(ToSet(made))
  <2>1. made \in [1..Len(made) -> ToSet(made)]
    BY <1>2 DEF ToSet
  <2>2. /\ \A i, j \in 1..Len(made) : made[i] = made[j] => i = j
        /\ \A t \in ToSet(made) : \E i \in 1..Len(made) : made[i] = t
    BY <1>3 DEF Enumerates
  <2> QED
    BY <1>2, <2>1, <2>2, Counted
<1> QED
  BY <1>1, <1>3, <1>4

\* The calls of the serial stages differ, and are of no capability.
LEMMA SerialApart ==
  /\ Surface # Capability /\ Surface.cap = 0 /\ Capability.cap = 0
  /\ Surface.name = "surface" /\ Capability.name = "capability"
<1>1. /\ Surface.name = "surface" /\ Capability.name = "capability"
      /\ Surface.cap = 0 /\ Capability.cap = 0
  BY DEF Surface, Capability, Call
<1> QED
  BY <1>1

\* When Run merges, the calls that were announced are those that were attempted,
\* and each was closed.
LEMMA EventsAtMerge ==
  ASSUME Whole, Merge
  PROVE  CallsIn(events) = CallsTo(plans) /\ Paired(events)
<1>1. /\ {e \in events : e.call.cap = 0}
           = {Ev(Surface, "started"), Ev(Surface, "succeeded"),
              Ev(Capability, "started"), Ev(Capability, "succeeded")}
      /\ plans \in 0..MaxPlans /\ MaxPlans \in Nat
      /\ \A e \in events : e.call.cap \in 0..MaxPlans
      /\ \A e \in events : e = Ev(e.call, e.status)
  <2>1. pc = "pipelines"
    BY DEF Merge
  <2>2. \A e \in events : e \in [call : Calls, status : {"started", "succeeded", "failed"}]
    BY DEF Whole, RestOK
  <2>3. \A e \in events : e.call.cap \in 0..MaxPlans /\ e = Ev(e.call, e.status)
    BY <2>2 DEF Calls, Ev
  <2> QED
    BY <2>1, <2>3, ProposalAssumption DEF Whole, SerialInv, IInv, LoopInv
<1>2. \A c, st : Ev(c, st).call = c /\ Ev(c, st).status = st
  BY EvIs
<1>3. ASSUME NEW e \in events, e.call.cap # 0
      PROVE  \E k \in 1..plans : \E i \in 1..Made(k) : e.call = CallOf(k, i)
  <2> DEFINE k == e.call.cap
  <2>1. k \in Pipelines
    BY <1>1, <1>3 DEF Pipelines
  <2>2. ~Calling(k) /\ (k > plans => Made(k) = 0) /\ Made(k) \in Nat
    BY <2>1, SlotsAtMerge, MadeIs DEF Whole, IInv
  <2>3. Opened(k) = Made(k)
    BY <2>1, <2>2, MadeIs DEF Whole, IInv
  <2>4. \E i \in 1..Opened(k) : e.call = CallOf(k, i)
    BY <2>1 DEF Whole, PipesInv, EventInv
  <2>5. \A i \in 1..0 : FALSE
    OBVIOUS
  <2>6. k \in 1..plans
    BY <1>1, <2>1, <2>2, <2>3, <2>4, <2>5 DEF Pipelines
  <2> QED
    BY <2>3, <2>4, <2>6
<1>4. ASSUME NEW k \in 1..plans, NEW i \in 1..Made(k)
      PROVE  /\ Ev(CallOf(k, i), "started") \in events
             /\ \E st \in {"succeeded", "failed"} :
                  /\ Ev(CallOf(k, i), st) \in events
                  /\ \A e \in events : e.call = CallOf(k, i) => e.status \in {"started", st}
  <2>1. k \in Pipelines
    BY <1>1, <1>4 DEF Pipelines
  <2>2. EventInv(k) /\ Opened(k) = Made(k)
    BY <2>1, SlotsAtMerge, MadeIs DEF Whole, IInv, PipesInv
  <2> QED
    BY <2>2 DEF EventInv
<1>5. /\ Ev(Surface, "started") \in events /\ Ev(Surface, "succeeded") \in events
      /\ Ev(Capability, "started") \in events /\ Ev(Capability, "succeeded") \in events
  BY <1>1
<1>6. \A e \in events : e.call.cap = 0 =>
        \/ e = Ev(Surface, "started") \/ e = Ev(Surface, "succeeded")
        \/ e = Ev(Capability, "started") \/ e = Ev(Capability, "succeeded")
  BY <1>1
<1>7. CallsIn(events) = CallsTo(plans)
  <2>1. ASSUME NEW c \in CallsIn(events) PROVE c \in CallsTo(plans)
    <3>1. PICK e \in events : c = e.call
      BY DEF CallsIn
    <3>2. CASE c.cap = 0
      BY <1>2, <1>6, <3>1, <3>2 DEF CallsTo
    <3>3. CASE c.cap # 0
      <4>1. PICK k \in 1..plans : \E i \in 1..Made(k) : c = CallOf(k, i)
        BY <1>3, <3>1, <3>3
      <4> QED
        BY <4>1 DEF CallsTo
    <3> QED
      BY <3>2, <3>3
  <2>2. ASSUME NEW c \in CallsTo(plans) PROVE c \in CallsIn(events)
    <3>1. CASE c \in {Surface, Capability}
      BY <1>2, <1>5, <3>1 DEF CallsIn
    <3>2. CASE c \in UNION {{CallOf(k, i) : i \in 1..Made(k)} : k \in 1..plans}
      <4>1. PICK k \in 1..plans : c \in {CallOf(k, i) : i \in 1..Made(k)}
        BY <3>2
      <4>2. PICK i \in 1..Made(k) : c = CallOf(k, i)
        BY <4>1
      <4>3. Ev(c, "started") \in events /\ Ev(c, "started").call = c
        BY <1>2, <1>4, <4>2
      <4> QED
        BY <4>3 DEF CallsIn
    <3> QED
      BY <3>1, <3>2 DEF CallsTo
  <2> QED
    BY <2>1, <2>2
<1>8. ASSUME NEW e \in events
      PROVE  \E st \in {"succeeded", "failed"} :
               {d \in events : d.call = e.call} = {Ev(e.call, "started"), Ev(e.call, st)}
  <2>1. CASE e.call.cap = 0
    <3>1. e.call \in {Surface, Capability}
      BY <1>2, <1>6, <2>1
    <3>2. Ev(e.call, "started") \in events /\ Ev(e.call, "succeeded") \in events
      BY <1>5, <3>1
    <3>3. \A d \in events : d.call = e.call =>
            d = Ev(e.call, "started") \/ d = Ev(e.call, "succeeded")
      BY <1>2, <1>6, <2>1, <3>1, SerialApart
    <3>4. {d \in events : d.call = e.call} = {Ev(e.call, "started"), Ev(e.call, "succeeded")}
      BY <1>2, <3>2, <3>3
    <3> QED
      BY <3>4
  <2>2. CASE e.call.cap # 0
    <3>1. PICK k \in 1..plans : \E i \in 1..Made(k) : e.call = CallOf(k, i)
      BY <1>3, <2>2
    <3>2. PICK i \in 1..Made(k) : e.call = CallOf(k, i)
      BY <3>1
    <3>3. PICK st \in {"succeeded", "failed"} :
            /\ Ev(e.call, st) \in events
            /\ \A d \in events : d.call = e.call => d.status \in {"started", st}
      BY <1>4, <3>2
    <3>4. Ev(e.call, "started") \in events
      BY <1>4, <3>2
    <3>5. \A d \in events : d.call = e.call => d = Ev(e.call, "started") \/ d = Ev(e.call, st)
      BY <1>1, <3>3
    <3>6. {d \in events : d.call = e.call} = {Ev(e.call, "started"), Ev(e.call, st)}
      BY <1>2, <3>3, <3>4, <3>5
    <3> QED
      BY <3>6
  <2> QED
    BY <2>1, <2>2
<1> QED
  BY <1>7, <1>8 DEF Paired

\* The diagnostics are right when Run merges,
LEMMA MergeDiagnosed == ASSUME Whole, Merge PROVE DiagnosticsMatchProgress'
<1>1. plans \in 0..MaxPlans /\ pc = "pipelines" /\ events' = events
  BY DEF Whole, IInv, LoopInv, Merge
<1>2. answer'.attempts = AttemptsUpTo[plans] /\ answer'.attempts \in Seq(Calls)
  BY <1>1, MergeAnswers, AttemptsRecursion DEF Whole, IInv, DataOK, RestOK
<1>3. Enumerates(answer'.attempts, CallsIn(events'))
  BY <1>1, <1>2, AttemptsRight, SlotsAtMerge, EventsAtMerge
<1>4. Paired(events')
  BY <1>1, EventsAtMerge
<1> QED
  BY <1>2, <1>3, <1>4, Diagnosed DEF DiagnosticsMatchProgress, CallsIn

\* and when a serial stage fails.
LEMMA StageFailsDiagnosed ==
  ASSUME Whole, NEW call \in {Surface, Capability}, StageFails(call)
  PROVE  DiagnosticsMatchProgress'
<1>1. /\ pc = call.name /\ answer'.attempts = Append(attempts, call)
      /\ events' = events \cup {Ev(call, "failed")}
  BY DEF StageFails, Answer
<1>2. \A c, st : Ev(c, st).call = c /\ Ev(c, st).status = st
  BY EvIs
<1>3. CASE call = Surface
  <2>1. events' = {Ev(Surface, "started"), Ev(Surface, "failed")} /\ attempts = <<>>
    BY <1>1, <1>3, SerialApart DEF Whole, SerialInv
  <2>2. /\ answer'.attempts \in Seq(Calls) /\ Len(answer'.attempts) = 1
        /\ answer'.attempts[1] = Surface
    BY <1>1, <1>3, <2>1, SerialCalls
  <2>3. Paired(events')
    BY <1>2, <2>1 DEF Paired
  <2>4. CallsIn(events') = {Surface}
    BY <1>2, <2>1 DEF CallsIn
  <2>5. Enumerates(answer'.attempts, {Surface})
    <3>1. 1 \in 1..1 /\ \A i \in 1..1 : i = 1
      OBVIOUS
    <3> QED
      BY <2>2, <3>1 DEF Enumerates
  <2> QED
    BY <2>2, <2>3, <2>4, <2>5, Diagnosed DEF DiagnosticsMatchProgress, CallsIn
<1>4. CASE call = Capability
  <2>1. /\ events' = {Ev(Surface, "started"), Ev(Surface, "succeeded"),
                      Ev(Capability, "started"), Ev(Capability, "failed")}
        /\ attempts = <<Surface>>
    BY <1>1, <1>4, SerialApart DEF Whole, SerialInv
  <2>2. /\ answer'.attempts \in Seq(Calls) /\ Len(answer'.attempts) = 2
        /\ answer'.attempts[1] = Surface /\ answer'.attempts[2] = Capability
    BY <1>1, <1>4, <2>1, SerialCalls
  <2>3. Paired(events')
    <3>1. {d \in events' : d.call = Surface} = {Ev(Surface, "started"), Ev(Surface, "succeeded")}
      BY <1>2, <2>1, SerialApart
    <3>2. {d \in events' : d.call = Capability} = {Ev(Capability, "started"), Ev(Capability, "failed")}
      BY <1>2, <2>1, SerialApart
    <3>3. \A e \in events' : e.call = Surface \/ e.call = Capability
      BY <1>2, <2>1
    <3> QED
      BY <3>1, <3>2, <3>3 DEF Paired
  <2>4. CallsIn(events') = {Surface, Capability}
    BY <1>2, <2>1 DEF CallsIn
  <2>5. Enumerates(answer'.attempts, {Surface, Capability})
    <3>1. 1 \in 1..2 /\ 2 \in 1..2 /\ \A i \in 1..2 : i = 1 \/ i = 2
      OBVIOUS
    <3> QED
      BY <2>2, <3>1, SerialApart DEF Enumerates
  <2> QED
    BY <2>2, <2>3, <2>4, <2>5, Diagnosed DEF DiagnosticsMatchProgress, CallsIn
<1> QED
  BY <1>3, <1>4

\* Every step keeps what is said of the diagnostics.
LEMMA DiagnosticsStep ==
  Whole /\ Whole' /\ [Next]_vars /\ DiagnosticsMatchProgress => DiagnosticsMatchProgress'
<1> SUFFICES ASSUME Whole, Whole', [Next]_vars, DiagnosticsMatchProgress
             PROVE  DiagnosticsMatchProgress'
  OBVIOUS
<1>1. CASE UNCHANGED vars
  <2>1. events' = events /\ answer' = answer /\ pc' = pc
    BY <1>1 DEF vars
  <2> QED
    BY <2>1 DEF DiagnosticsMatchProgress
<1>2. CASE pc' # "returned"
  BY <1>2 DEF DiagnosticsMatchProgress
<1>3. CASE Merge
  BY <1>3, MergeDiagnosed
<1> QED
  BY <1>1, <1>2, <1>3, Outcomes, StageFailsDiagnosed

----------------------------------------------------------------------------
(* The answer *)

\* Whatever the order in which the pipelines finish, fail or expire, Run returns the
\* first candidate of each capability among those that did not fail, in the order of
\* the plans (runCapabilityPipelines, appendPipeline, selectResult).
THEOREM ReturnsWanted == Spec => []ReturnsWantedInOrder
<1>1. Init => ReturnsWantedInOrder /\ ProbePlansMatch
  BY DEF Init, Answer, ReturnsWantedInOrder, ProbePlansMatch
<1> QED
  BY <1>1, WholeInit, WholeStep, AnswerStep, PTL DEF Spec

\* Every candidate returned has its own probe plan at its own index, and the
\* selection never refuses a merge (appendPipeline, selectResult).
THEOREM PlansMatched == Spec => []ProbePlansMatch
<1>1. Init => ReturnsWantedInOrder /\ ProbePlansMatch
  BY DEF Init, Answer, ReturnsWantedInOrder, ProbePlansMatch
<1> QED
  BY <1>1, WholeInit, WholeStep, AnswerStep, PTL DEF Spec

\* Each step announced is closed once and listed once in the diagnostics, however
\* Run ends (progress events, Result.Attempts).
THEOREM DiagnosticsComplete == Spec => []DiagnosticsMatchProgress
<1>1. Init => DiagnosticsMatchProgress
  BY DEF Init, DiagnosticsMatchProgress
<1> QED
  BY <1>1, WholeInit, WholeStep, DiagnosticsStep, PTL DEF Spec
=============================================================================
