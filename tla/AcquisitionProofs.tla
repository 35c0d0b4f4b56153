-------------------------- MODULE AcquisitionProofs --------------------------
(***************************************************************************)
(* For any number of acquisitions, candidates and capabilities: the types   *)
(* of Acquisition, what its traces and replies say, and what may and may    *)
(* not happen to the catalog when promotions overlap.                       *)
(***************************************************************************)
EXTENDS Acquisition, TLAPS

USE DEF outside, work, daemon

\* How far the stages of one acquisition have filled its work: nothing is probed
\* before the proposal, nothing is a target before it was probed, and a save
\* under way is that of a target promote accepted.
Early == {"idle", "load", "start", "catalog", "observe", "proposal"}

WorkInv ==
  \A a \in Acqs :
    /\ pc[a] \in Early => probes[a] = <<>>
    /\ pc[a] \in Early \cup {"probe"} => todo[a] = {}
    /\ Len(probes[a]) <= Len(cands[a])
    /\ todo[a] \subseteq DOMAIN probes[a]
    /\ pc[a] = "save" => \E i \in todo[a] : Current(a, i) /\ ~Rejected(a, i)

LEMMA TypeInit == Init => TypeOK
<1> SUFFICES ASSUME Init PROVE TypeOK
  OBVIOUS
<1>1. /\ ctxDone \in [Acqs -> BOOLEAN] /\ held \in [Acqs -> BOOLEAN]
      /\ ctxErr \in [Acqs -> BOOLEAN]
      /\ faults \in [Acqs -> BOOLEAN]
      /\ litter \in BOOLEAN /\ crashed \in BOOLEAN
  BY Zenon DEF Init
<1>2. catalog \in SUBSET Bindings
  BY AcquisitionAssumption DEF Init
<1>3. /\ cands \in [Acqs -> Seq(Bindings)]
      /\ probes \in [Acqs -> Seq(BOOLEAN)]
  <2>1. <<>> \in Seq(Bindings) /\ <<>> \in Seq(BOOLEAN)
    OBVIOUS
  <2> QED
    BY <2>1, Zenon DEF Init
<1> QED
  BY <1>1, <1>2, <1>3 DEF Init, TypeOK, Event, Trace, Stages

\* One value of a function replaced by another of its range.
LEMMA Update ==
  ASSUME NEW D, NEW S, NEW f \in [D -> S], NEW x, NEW v \in S
  PROVE  [f EXCEPT ![x] = v] \in [D -> S]
  OBVIOUS

\* A stage error, whatever the stage.
LEMMA StageFailsType ==
  ASSUME TypeOK, NEW a \in Acqs, NEW from, NEW stage \in Stages,
         NEW status \in {"failed", "canceled"}, NEW isCtxErr \in BOOLEAN,
         StageFails(a, from, stage, status, isCtxErr), UNCHANGED work
  PROVE  TypeOK'
<1>1. ctxErr' \in [Acqs -> BOOLEAN]
  BY Update, Zenon DEF StageFails, TypeOK
<1> QED
  BY <1>1 DEF StageFails, TypeOK, Goto, Emit, Event

LEMMA StatusOf ==
  ASSUME NEW a, NEW isCtxErr
  PROVE  ProgressStatus(a, isCtxErr) \in {"failed", "canceled"}
  BY DEF ProgressStatus

LEMMA CommandType ==
  ASSUME TypeOK, NEW a \in Acqs, NEW begins \in BOOLEAN, Command(a, begins)
  PROVE  held' \in [Acqs -> BOOLEAN]
<1>1. PICK h \in BOOLEAN : held' = [held EXCEPT ![a] = begins /\ ~ctxDone[a] /\ h]
  BY Zenon DEF Command
<1>2. (begins /\ ~ctxDone[a] /\ h) \in BOOLEAN
  OBVIOUS
<1> QED
  BY <1>1, <1>2, Update, Zenon DEF TypeOK

LEMMA TypeStep ==
  ASSUME TypeOK, WorkInv, NEW a \in Acqs, Step(a)
  PROVE  TypeOK'
<1> USE DEF Goto, Emit, Event, Trace, Stages, Terminal
<1>1. CASE Load(a)
  BY <1>1 DEF Load, TypeOK
<1>2. CASE LoadFails(a)
  BY <1>2 DEF LoadFails, Return, ProgressStatus, TypeOK
<1>3. CASE StartTrace(a)
  BY <1>3 DEF StartTrace, TypeOK
<1>4. CASE StartTraceFails(a)
  BY <1>4 DEF StartTraceFails, Return, TypeOK
<1>5. CASE ListCapabilities(a)
  <2>1. held' \in [Acqs -> BOOLEAN]
    BY <1>5, CommandType, Zenon DEF ListCapabilities
  <2> QED
    BY <1>5, <2>1 DEF ListCapabilities, Enter, TypeOK
<1>6. CASE CatalogCanceled(a) \/ ListCapabilitiesFails(a)
  <2>1. "catalog" \in Stages /\ TRUE \in BOOLEAN /\ FALSE \in BOOLEAN
    OBVIOUS
  <2> QED
    BY <1>6, <2>1, StageFailsType DEF CatalogCanceled, ListCapabilitiesFails
<1>7. CASE Observe(a)
  BY <1>7 DEF Observe, Enter, TypeOK
<1>8. CASE ObserveFails(a) \/ ProposeFails(a) \/ ProbeInvalid(a)
  <2>1. {"observe", "proposal", "probe"} \subseteq Stages /\ FALSE \in BOOLEAN
    OBVIOUS
  <2>2. CASE ObserveFails(a)
    BY <2>1, <2>2, StageFailsType, StatusOf DEF ObserveFails, Fails
  <2>3. CASE ProposeFails(a)
    <3>1. PICK isCtxErr \in BOOLEAN : Fails(a, "proposal", isCtxErr)
      BY <2>3 DEF ProposeFails
    <3> QED
      BY <2>1, <2>3, <3>1, StageFailsType, StatusOf DEF ProposeFails, Fails
  <2>4. CASE ProbeInvalid(a)
    BY <2>1, <2>4, StageFailsType, StatusOf DEF ProbeInvalid, Fails
  <2> QED
    BY <1>8, <2>2, <2>3, <2>4
<1>9. CASE Propose(a)
  <2>1. PICK p \in Proposals :
          cands' = [cands EXCEPT ![a] = p] /\ Command(a, Executed(p, 1))
    BY <1>9, Zenon DEF Propose
  <2>2. Executed(p, 1) \in BOOLEAN
    BY DEF Executed
  <2>3. held' \in [Acqs -> BOOLEAN]
    BY <2>1, <2>2, CommandType, Zenon
  <2>4. cands' \in [Acqs -> Seq(Bindings)]
    BY <2>1, AcquisitionAssumption DEF TypeOK
  <2> QED
    BY <1>9, <2>3, <2>4 DEF Propose, Enter, TypeOK
<1>10. CASE ProbePasses(a) \/ ProbeFails(a)
  <2>1. PICK passed \in BOOLEAN : Probed(a, passed)
    BY <1>10 DEF ProbePasses, ProbeFails
  <2>2. Append(probes[a], passed) \in Seq(BOOLEAN)
    BY DEF TypeOK
  <2>3. probes' \in [Acqs -> Seq(BOOLEAN)]
    BY <2>1, <2>2, Update, Zenon DEF Probed, TypeOK
  <2>4. Executed(cands[a], Len(probes[a]) + 2) \in BOOLEAN
    BY DEF Executed
  <2>5. held' \in [Acqs -> BOOLEAN]
    BY <2>1, <2>4, CommandType, Zenon DEF Probed
  <2> QED
    BY <2>1, <2>3, <2>5 DEF Probed, TypeOK
<1>11. CASE ProbeDone(a)
  BY <1>11 DEF ProbeDone, Enter, Targets, TypeOK
<1>12. CASE \/ PromoteCanceled(a) \/ PromoteRejected(a) \/ GetCapabilityFails(a)
            \/ SaveCapabilityFails(a)
  <2>1. PICK from \in {"promote", "save"}, isCtxErr \in BOOLEAN :
          PromoteStops(a, from, isCtxErr)
    BY <1>12 DEF PromoteCanceled, PromoteRejected, GetCapabilityFails,
                 SaveCapabilityFails
  <2>2. "promote" \in Stages
    OBVIOUS
  <2> QED
    BY <2>1, <2>2, StageFailsType, StatusOf DEF PromoteStops
<1>13. CASE GetCapability(a)
  BY <1>13 DEF GetCapability, OfCapability, TypeOK
<1>14. CASE SaveCapability(a)
  <2>1. PICK i \in todo[a] :
          /\ catalog' = (catalog \ OfCapability(catalog, cands[a][i]))
                          \cup Merge(read[a], cands[a][i])
          /\ todo' = [todo EXCEPT ![a] = @ \ {i}]
          /\ promos' = [promos EXCEPT ![a] = @ \cup {i}]
          /\ saved' = [saved EXCEPT ![a] = @ \cup {i}]
    BY <1>14 DEF SaveCapability
  <2>2. cands[a][i] \in Bindings
    BY <2>1 DEF WorkInv, TypeOK
  <2>3. catalog' \subseteq Bindings
    BY <2>1, <2>2 DEF Merge, TypeOK
  <2> QED
    BY <1>14, <2>1, <2>3 DEF SaveCapability, TypeOK
<1>15. CASE PromoteDone(a)
  BY <1>15 DEF PromoteDone, TypeOK
<1>16. CASE Complete(a)
  BY <1>16 DEF Complete, Return, TypeOK
<1>17. CASE CompleteCanceled(a) \/ CompleteFails(a) \/ TerminateFails(a)
  BY <1>17 DEF CompleteCanceled, CompleteFails, TerminateFails, TraceWriteFails, Return, TypeOK
<1>18. CASE Terminate(a)
  BY <1>18 DEF Terminate, Return, TypeOK
<1> QED
  BY <1>1, <1>2, <1>3, <1>4, <1>5, <1>6, <1>7, <1>8, <1>9, <1>10, <1>11, <1>12,
     <1>13, <1>14, <1>15, <1>16, <1>17, <1>18 DEF Step

LEMMA TypeOther ==
  ASSUME TypeOK, Crash \/ \E a \in Acqs : Begin(a) \/ Cancel(a)
  PROVE  TypeOK'
<1>1. CASE \E a \in Acqs : Begin(a)
  BY <1>1 DEF Begin, Goto, Emit, Event, Stages, TypeOK
<1>2. CASE \E a \in Acqs : Cancel(a)
  <2>1. ctxDone' \in [Acqs -> BOOLEAN]
    BY <1>2, Update, Zenon DEF Cancel, TypeOK
  <2> QED
    BY <1>2, <2>1 DEF Cancel, TypeOK
<1>3. CASE Crash
  <2>1. litter' \in BOOLEAN /\ crashed' \in BOOLEAN
    BY <1>3, Zenon DEF Crash
  <2>2. pc' \in [Acqs -> {"idle", "returned", "dead"}]
    BY <1>3 DEF Crash, Running, TypeOK
  <2> QED
    BY <1>3, <2>1, <2>2 DEF Crash, TypeOK
<1> QED
  BY <1>1, <1>2, <1>3

----------------------------------------------------------------------------
(* The work of an acquisition *)

\* A step that leaves the work alone and goes to a later stage.
LEMMA QuietWork ==
  ASSUME TypeOK, WorkInv, NEW a \in Acqs, NEW from, NEW to, Goto(a, from, to),
         UNCHANGED work, to \notin {"save", "probe"}, to \in Early => from \in Early
  PROVE  WorkInv'
<1>1. pc[a] = from /\ pc'[a] = to /\ \A b \in Acqs : b # a => pc'[b] = pc[b]
  BY DEF Goto, TypeOK
<1>2. UNCHANGED <<cands, probes, todo, read, promos>>
  OBVIOUS
<1> SUFFICES ASSUME NEW b \in Acqs PROVE WorkInv!(b)'
  BY DEF WorkInv
<1>3. WorkInv!(b)
  BY DEF WorkInv
<1>4. CASE b = a
  BY <1>1, <1>2, <1>3, <1>4
<1>5. CASE b # a
  <2>1. pc'[b] = pc[b]
    BY <1>1, <1>5
  <2> QED
    BY <1>2, <1>3, <2>1 DEF Current, Rejected
<1> QED
  BY <1>4, <1>5

LEMMA WorkInit == Init => WorkInv
<1> SUFFICES ASSUME Init, NEW a \in Acqs PROVE WorkInv!(a)
  BY DEF WorkInv
<1>1. pc[a] = "idle" /\ cands[a] = <<>> /\ probes[a] = <<>> /\ todo[a] = {}
  BY DEF Init
<1>2. Len(probes[a]) <= Len(cands[a])
  BY <1>1
<1> QED
  BY <1>1, <1>2

LEMMA WorkStep ==
  ASSUME TypeOK, WorkInv, NEW a \in Acqs, Step(a)
  PROVE  WorkInv'
<1>1. CASE \/ Load(a) \/ LoadFails(a) \/ StartTrace(a) \/ StartTraceFails(a)
  <2>1. UNCHANGED work /\ \E to \in {"start", "catalog", "returned"} :
                            Goto(a, "load", to) \/ Goto(a, "start", to)
    BY <1>1 DEF Load, LoadFails, StartTrace, StartTraceFails, Return
  <2> QED
    BY <2>1, QuietWork DEF Early
<1>2. CASE \/ ListCapabilities(a) \/ CatalogCanceled(a) \/ ListCapabilitiesFails(a)
           \/ Observe(a)
  <2>1. UNCHANGED work /\ \E to \in {"observe", "proposal", "terminate"} :
                            Goto(a, "catalog", to) \/ Goto(a, "observe", to)
    BY <1>2
    DEF ListCapabilities, CatalogCanceled, ListCapabilitiesFails, Observe, Enter,
        StageFails
  <2> QED
    BY <2>1, QuietWork DEF Early
<1>3. CASE \/ ObserveFails(a) \/ ProposeFails(a) \/ ProbeInvalid(a)
           \/ PromoteCanceled(a) \/ PromoteRejected(a) \/ GetCapabilityFails(a)
           \/ SaveCapabilityFails(a)
  <2>1. UNCHANGED work /\ \E from : Goto(a, from, "terminate")
    BY <1>3
    DEF ObserveFails, ProposeFails, ProbeInvalid, PromoteCanceled, PromoteRejected,
        GetCapabilityFails, SaveCapabilityFails, PromoteStops, Fails, StageFails
  <2> QED
    BY <2>1, QuietWork DEF Early
<1>4. CASE \/ PromoteDone(a) \/ Complete(a) \/ CompleteCanceled(a)
           \/ CompleteFails(a) \/ Terminate(a) \/ TerminateFails(a)
  <2>1. UNCHANGED work /\ \E from : \/ Goto(a, from, "complete")
                                   \/ Goto(a, from, "returned")
    BY <1>4
    DEF PromoteDone, Complete, CompleteCanceled, CompleteFails, Terminate,
        TerminateFails, TraceWriteFails, Return
  <2> QED
    BY <2>1, QuietWork DEF Early
<1>5. CASE Propose(a)
  BY <1>5, AcquisitionAssumption
  DEF Propose, Enter, Goto, WorkInv, TypeOK, Current, Rejected, Early
<1>6. CASE ProbePasses(a) \/ ProbeFails(a)
  <2>1. PICK passed \in BOOLEAN : Probed(a, passed)
    BY <1>6 DEF ProbePasses, ProbeFails
  <2>2. /\ Len(Append(probes[a], passed)) = Len(probes[a]) + 1
        /\ DOMAIN probes[a] \subseteq DOMAIN Append(probes[a], passed)
    BY DEF TypeOK
  <2>3. /\ probes'[a] = Append(probes[a], passed)
        /\ \A b \in Acqs \ {a} : probes'[b] = probes[b]
    BY <2>1 DEF Probed, TypeOK
  <2>4. Len(probes[a]) \in Nat /\ Len(cands[a]) \in Nat
    BY DEF TypeOK
  <2>5. pc[a] = "probe" /\ Len(probes[a]) < Len(cands[a]) /\ UNCHANGED <<pc, cands, todo>>
    BY <2>1 DEF Probed
  <2> QED
    BY <2>2, <2>3, <2>4, <2>5 DEF WorkInv, Current, Rejected, Early
<1>7. CASE ProbeDone(a)
  BY <1>7
  DEF ProbeDone, Enter, Goto, Targets, WorkInv, TypeOK, Current, Rejected, Early
<1>8. CASE GetCapability(a)
  BY <1>8 DEF GetCapability, Goto, WorkInv, TypeOK, Current, Rejected, Early
<1>9. CASE SaveCapability(a)
  BY <1>9 DEF SaveCapability, Goto, WorkInv, TypeOK, Current, Rejected, Early
<1> QED
  BY <1>1, <1>2, <1>3, <1>4, <1>5, <1>6, <1>7, <1>8, <1>9 DEF Step

LEMMA WorkOther ==
  ASSUME TypeOK, WorkInv, Crash \/ \E a \in Acqs : Begin(a) \/ Cancel(a)
  PROVE  WorkInv'
<1>1. CASE \E a \in Acqs : Begin(a)
  BY <1>1, QuietWork DEF Begin, Early
<1>2. CASE \E a \in Acqs : Cancel(a)
  BY <1>2 DEF Cancel, WorkInv, Current, Rejected
<1>3. CASE Crash
  BY <1>3 DEF Crash, Running, WorkInv, TypeOK, Current, Rejected, Early
<1> QED
  BY <1>1, <1>2, <1>3

----------------------------------------------------------------------------
(* Traces, events and replies *)

Traced == {"catalog", "observe", "proposal", "probe", "promote", "save",
           "complete", "terminate"}

\* What the trace in the store may be at each step, and what is known by then
\* of the event the client saw last.
TraceInv ==
  \A a \in Acqs :
    /\ promos[a] = saved[a]
    /\ pc[a] \in {"idle", "load", "start"} => trace[a].status = "none"
    /\ pc[a] \in Traced => trace[a].status = "running"
    /\ trace[a].status \in Terminal =>
         pc[a] = "returned" /\ trace[a].promotions = saved[a]
    /\ pc[a] = "returned" =>
         IF reply[a] = "error" THEN trace[a].status \in {"none", "running"}
                               ELSE trace[a].status = reply[a]

EventInv ==
  \A a \in Acqs :
    /\ last[a].status \in {"failed", "canceled"} =>
         pc[a] \in {"terminate", "returned", "dead"}
    /\ pc[a] = "terminate" /\ last[a].status = "canceled" =>
         ContextDone(a, ctxErr[a])
    /\ pc[a] = "returned" /\ trace[a].status = "running"
         /\ last[a].status \in {"failed", "canceled"} => faults[a]
    /\ last[a].status = "canceled" /\ trace[a].status \in Terminal =>
         trace[a].status = "canceled"

LEMMA TraceInit == Init => TraceInv /\ EventInv
  BY DEF Init, TraceInv, EventInv, Trace, Event, Terminal, Traced

\* A step between stages that writes neither trace nor reply.
LEMMA QuietTrace ==
  ASSUME TypeOK, TraceInv, NEW a \in Acqs, NEW from, NEW to, Goto(a, from, to),
         UNCHANGED <<promos, saved, trace, reply>>, from # "returned", to # "returned",
         to \in {"idle", "load", "start"} => from \in {"idle", "load", "start"},
         to \in Traced => from \in Traced
  PROVE  TraceInv'
  BY DEF Goto, TraceInv, TypeOK, Terminal, Traced

LEMMA TraceStep ==
  ASSUME TypeOK, TraceInv, NEW a \in Acqs, Step(a)
  PROVE  TraceInv'
<1>1. CASE \/ Load(a) \/ ListCapabilities(a) \/ CatalogCanceled(a)
           \/ ListCapabilitiesFails(a) \/ Observe(a) \/ ObserveFails(a)
  BY <1>1, QuietTrace
  DEF Load, ListCapabilities, CatalogCanceled, ListCapabilitiesFails, Observe,
      ObserveFails, Enter, Fails, StageFails, Traced
<1>2. CASE \/ Propose(a) \/ ProposeFails(a) \/ ProbeInvalid(a) \/ ProbeDone(a)
           \/ GetCapability(a) \/ PromoteDone(a)
  BY <1>2, QuietTrace
  DEF Propose, ProposeFails, ProbeInvalid, ProbeDone, GetCapability, PromoteDone,
      Enter, Fails, StageFails, Traced
<1>3. CASE \/ PromoteCanceled(a) \/ PromoteRejected(a) \/ GetCapabilityFails(a)
           \/ SaveCapabilityFails(a)
  BY <1>3, QuietTrace
  DEF PromoteCanceled, PromoteRejected, GetCapabilityFails, SaveCapabilityFails,
      PromoteStops, StageFails, Traced
<1>4. CASE ProbePasses(a) \/ ProbeFails(a)
  BY <1>4 DEF ProbePasses, ProbeFails, Probed, TraceInv
<1>5. CASE StartTrace(a)
  BY <1>5 DEF StartTrace, Goto, Trace, TraceInv, TypeOK, Terminal, Traced
<1>6. CASE SaveCapability(a)
  <2>1. PICK i \in todo[a] : /\ promos' = [promos EXCEPT ![a] = @ \cup {i}]
                             /\ saved' = [saved EXCEPT ![a] = @ \cup {i}]
    BY <1>6 DEF SaveCapability
  <2>2. Goto(a, "save", "promote") /\ UNCHANGED <<trace, reply>>
    BY <1>6 DEF SaveCapability
  <2>3. /\ pc[a] = "save" /\ pc'[a] = "promote"
        /\ promos'[a] = promos[a] \cup {i} /\ saved'[a] = saved[a] \cup {i}
        /\ \A b \in Acqs : b # a =>
             pc'[b] = pc[b] /\ promos'[b] = promos[b] /\ saved'[b] = saved[b]
    BY <2>1, <2>2 DEF Goto, TypeOK
  <2> SUFFICES ASSUME NEW b \in Acqs PROVE TraceInv!(b)'
    BY DEF TraceInv
  <2>4. TraceInv!(b)
    BY DEF TraceInv
  <2>5. CASE b = a
    BY <2>2, <2>3, <2>4, <2>5 DEF Terminal, Traced
  <2>6. CASE b # a
    BY <2>2, <2>3, <2>4, <2>6
  <2> QED
    BY <2>5, <2>6
<1>7. CASE \/ LoadFails(a) \/ StartTraceFails(a) \/ CompleteCanceled(a)
           \/ CompleteFails(a) \/ TerminateFails(a)
  <2>1. \E from \in {"load", "start", "complete", "terminate"} :
          Return(a, from, "error") /\ UNCHANGED trace
    BY <1>7
    DEF LoadFails, StartTraceFails, CompleteCanceled, CompleteFails,
        TerminateFails, TraceWriteFails
  <2>2. /\ pc[a] \in {"load", "start", "complete", "terminate"} /\ pc'[a] = "returned"
        /\ reply'[a] = "error"
        /\ \A b \in Acqs : b # a => pc'[b] = pc[b] /\ reply'[b] = reply[b]
    BY <2>1 DEF Return, Goto, TypeOK
  <2>3. UNCHANGED <<trace, promos, saved>>
    BY <2>1 DEF Return
  <2> SUFFICES ASSUME NEW b \in Acqs PROVE TraceInv!(b)'
    BY DEF TraceInv
  <2>4. TraceInv!(b)
    BY DEF TraceInv
  <2>5. CASE b = a
    BY <2>2, <2>3, <2>4, <2>5 DEF Terminal, Traced
  <2>6. CASE b # a
    BY <2>2, <2>3, <2>4, <2>6
  <2> QED
    BY <2>5, <2>6
<1>8. CASE Complete(a) \/ Terminate(a)
  <2>1. \E status \in Terminal : \E from \in {"complete", "terminate"} :
          /\ Return(a, from, status)
          /\ trace' = [trace EXCEPT ![a] = Trace(status, promos[a])]
    BY <1>8 DEF Complete, Terminate, Terminal
  <2> QED
    BY <2>1 DEF Return, Goto, Trace, TraceInv, TypeOK, Terminal, Traced
<1> QED
  BY <1>1, <1>2, <1>3, <1>4, <1>5, <1>6, <1>7, <1>8 DEF Step

LEMMA TraceOther ==
  ASSUME TypeOK, TraceInv, Crash \/ \E a \in Acqs : Begin(a) \/ Cancel(a)
  PROVE  TraceInv'
<1>1. CASE \E a \in Acqs : Begin(a)
  BY <1>1, QuietTrace DEF Begin, Traced
<1>2. CASE \E a \in Acqs : Cancel(a)
  BY <1>2 DEF Cancel, TraceInv
<1>3. CASE Crash
  BY <1>3 DEF Crash, Running, TraceInv, TypeOK, Traced
<1> QED
  BY <1>1, <1>2, <1>3

\* A step that succeeds: its event is not one of failure.
LEMMA QuietEvent ==
  ASSUME TypeOK, TraceInv, EventInv, NEW a \in Acqs,
         NEW from \in Traced \cup {"idle", "load", "start"}, NEW to,
         Goto(a, from, to), from # "terminate", to \notin {"terminate", "returned"},
         NEW stage, NEW status \in {"started", "succeeded"}, Emit(a, stage, status),
         UNCHANGED ctxDone, UNCHANGED ctxErr, UNCHANGED faults,
         trace' = trace \/ trace' = [trace EXCEPT ![a] = Trace("running", {})]
  PROVE  EventInv'
  BY DEF Goto, Emit, Event, Trace, ContextDone, EventInv, TraceInv, TypeOK, Terminal, Traced

\* A stage error: canceled is said only when the context or the error says so.
LEMMA FailureEvent ==
  ASSUME TypeOK, TraceInv, EventInv, NEW a \in Acqs, NEW from \in Traced, NEW stage,
         NEW status \in {"failed", "canceled"}, NEW isCtxErr \in BOOLEAN,
         StageFails(a, from, stage, status, isCtxErr),
         status = "canceled" => ContextDone(a, isCtxErr)
  PROVE  EventInv'
<1>1. /\ ctxErr'[a] = isCtxErr
      /\ \A b \in Acqs \ {a} : ctxErr'[b] = ctxErr[b]
  BY Zenon DEF StageFails, TypeOK
<1>2. UNCHANGED <<ctxDone, trace, faults>>
  BY DEF StageFails
<1>3. /\ pc'[a] = "terminate" /\ last'[a].status = status
      /\ \A b \in Acqs \ {a} : pc'[b] = pc[b] /\ last'[b] = last[b]
      /\ pc[a] = from
  BY DEF StageFails, Goto, Emit, Event, TypeOK
<1>4. trace[a].status = "running"
  BY <1>3 DEF TraceInv
<1>5. ASSUME NEW b \in Acqs
      PROVE  /\ pc'[b] = "terminate" /\ last'[b].status = "canceled" =>
                  ctxDone'[b] \/ ctxErr'[b]
  <2>1. CASE b = a
    BY <1>1, <1>2, <1>3, <2>1 DEF ContextDone
  <2>2. CASE b # a
    BY <1>1, <1>2, <1>3, <2>2 DEF ContextDone, EventInv
  <2> QED
    BY <2>1, <2>2
<1> QED
  BY <1>2, <1>3, <1>4, <1>5 DEF EventInv, ContextDone, Terminal

LEMMA StatusCanceled ==
  ASSUME NEW a, NEW isCtxErr
  PROVE  ProgressStatus(a, isCtxErr) = "canceled" => ContextDone(a, isCtxErr)
  BY DEF ProgressStatus

LEMMA EventStep ==
  ASSUME TypeOK, TraceInv, EventInv, NEW a \in Acqs, Step(a)
  PROVE  EventInv'
<1>1. CASE \/ Load(a) \/ StartTrace(a) \/ ListCapabilities(a) \/ Observe(a)
           \/ Propose(a) \/ ProbeDone(a) \/ PromoteDone(a)
  BY <1>1, QuietEvent
  DEF Load, StartTrace, ListCapabilities, Observe, Propose, ProbeDone, PromoteDone,
      Enter, Traced
<1>2. CASE CatalogCanceled(a) \/ ListCapabilitiesFails(a)
  <2>1. PICK status \in {"failed", "canceled"}, isCtxErr \in BOOLEAN :
          /\ StageFails(a, "catalog", "catalog", status, isCtxErr)
          /\ status = "canceled" => ContextDone(a, isCtxErr)
    BY <1>2 DEF CatalogCanceled, ListCapabilitiesFails, ContextDone
  <2> QED
    BY <2>1, FailureEvent DEF Traced
<1>3. CASE ObserveFails(a) \/ ProposeFails(a) \/ ProbeInvalid(a)
  <2>1. PICK stage \in Traced, isCtxErr \in BOOLEAN : Fails(a, stage, isCtxErr)
    BY <1>3 DEF ObserveFails, ProposeFails, ProbeInvalid, Traced
  <2> QED
    BY <2>1, FailureEvent, StatusOf, StatusCanceled DEF Fails
<1>4. CASE \/ PromoteCanceled(a) \/ PromoteRejected(a) \/ GetCapabilityFails(a)
           \/ SaveCapabilityFails(a)
  <2>1. PICK from \in {"promote", "save"}, isCtxErr \in BOOLEAN :
          PromoteStops(a, from, isCtxErr)
    BY <1>4 DEF PromoteCanceled, PromoteRejected, GetCapabilityFails,
                SaveCapabilityFails
  <2> QED
    BY <2>1, FailureEvent, StatusOf, StatusCanceled DEF PromoteStops, Traced
<1>5. CASE ProbePasses(a) \/ ProbeFails(a)
  BY <1>5 DEF ProbePasses, ProbeFails, Probed, EventInv, ContextDone
<1>6. CASE GetCapability(a) \/ SaveCapability(a)
  <2>1. /\ Goto(a, "promote", "save") \/ Goto(a, "save", "promote")
        /\ UNCHANGED <<ctxDone, last, ctxErr, trace, faults>>
    BY <1>6 DEF GetCapability, SaveCapability
  <2> QED
    BY <2>1 DEF Goto, EventInv, TypeOK, ContextDone
<1>7. CASE LoadFails(a) \/ StartTraceFails(a)
  <2>1. /\ Goto(a, "load", "returned") \/ Goto(a, "start", "returned")
        /\ \A b \in Acqs \ {a} : last'[b] = last[b]
        /\ UNCHANGED <<ctxDone, ctxErr, trace, faults>>
    BY <1>7 DEF LoadFails, StartTraceFails, Return, Emit, TypeOK
  <2>2. trace[a].status = "none"
    BY <2>1 DEF Goto, TraceInv
  <2> QED
    BY <2>1, <2>2 DEF Goto, EventInv, TypeOK, ContextDone, Terminal
<1>8. CASE Complete(a) \/ CompleteCanceled(a)
  <2>1. /\ Goto(a, "complete", "returned")
        /\ UNCHANGED <<ctxDone, last, ctxErr, faults>>
        /\ \A b \in Acqs \ {a} : trace'[b] = trace[b]
    BY <1>8 DEF Complete, CompleteCanceled, Return, TypeOK
  <2>2. last[a].status \notin {"failed", "canceled"}
    BY <2>1 DEF Goto, EventInv
  <2> QED
    BY <2>1, <2>2 DEF Goto, EventInv, TypeOK, ContextDone
<1>9. CASE CompleteFails(a) \/ TerminateFails(a)
  <2>1. /\ Goto(a, "complete", "returned") \/ Goto(a, "terminate", "returned")
        /\ faults' = [faults EXCEPT ![a] = TRUE]
        /\ UNCHANGED <<ctxDone, last, ctxErr, trace>>
    BY <1>9 DEF CompleteFails, TerminateFails, TraceWriteFails, Return
  <2>2. faults'[a] /\ \A b \in Acqs \ {a} : faults'[b] = faults[b]
    BY <2>1, Zenon DEF TypeOK
  <2>3. trace[a].status = "running"
    BY <2>1 DEF Goto, TraceInv, Traced
  <2> QED
    BY <2>1, <2>2, <2>3 DEF Goto, EventInv, TypeOK, ContextDone, Terminal
<1>10. CASE Terminate(a)
  <2>1. PICK status \in {"failed", "canceled"} :
          /\ status = IF ContextDone(a, ctxErr[a]) THEN "canceled" ELSE "failed"
          /\ trace' = [trace EXCEPT ![a] = Trace(status, promos[a])]
    BY <1>10 DEF Terminate
  <2>2. /\ Goto(a, "terminate", "returned")
        /\ UNCHANGED <<ctxDone, last, ctxErr, faults>>
    BY <1>10 DEF Terminate, Return
  <2> QED
    BY <2>1, <2>2 DEF Goto, Trace, EventInv, TypeOK, ContextDone, Terminal
<1> QED
  BY <1>1, <1>2, <1>3, <1>4, <1>5, <1>6, <1>7, <1>8, <1>9, <1>10 DEF Step

LEMMA EventOther ==
  ASSUME TypeOK, TraceInv, EventInv, Crash \/ \E a \in Acqs : Begin(a) \/ Cancel(a)
  PROVE  EventInv'
<1>1. CASE \E a \in Acqs : Begin(a)
  BY <1>1, QuietEvent DEF Begin, Traced
<1>2. CASE \E a \in Acqs : Cancel(a)
  <2>1. /\ \A b \in Acqs : ctxDone[b] => ctxDone'[b]
        /\ UNCHANGED <<pc, last, ctxErr, trace, faults>>
    BY <1>2, Zenon DEF Cancel, TypeOK
  <2> QED
    BY <2>1 DEF EventInv, ContextDone
<1>3. CASE Crash
  BY <1>3 DEF Crash, Running, EventInv, TypeOK, ContextDone
<1> QED
  BY <1>1, <1>2, <1>3

----------------------------------------------------------------------------
(* The catalog *)

\* A binding the catalog may hold: an earlier daemon's, or a verified candidate.
Good(b) ==
  b \in Seed \/ /\ b \notin Unpromotable
                /\ \E a \in Acqs : \E i \in DOMAIN probes[a] :
                     probes[a][i] /\ cands[a][i] = b

VerifiedInv == /\ \A b \in catalog : Good(b)
               /\ \A a \in Acqs : \A b \in read[a] : Good(b)

\* No merge under way has read a record without the seed's bindings.
SeedInv ==
  /\ Seed \subseteq catalog
  /\ \A a \in Acqs : pc[a] = "save" =>
       \A i \in todo[a] : Current(a, i) => OfCapability(Seed, cands[a][i]) \subseteq read[a]

LEMMA CatalogInit == Init => VerifiedInv /\ SeedInv
  BY DEF Init, VerifiedInv, SeedInv, Good

\* Every step but GetCapability and SaveCapability.
Quiet == /\ UNCHANGED <<catalog, read>>
         /\ \A a \in Acqs :
              \/ cands'[a] = cands[a] /\ probes'[a] = probes[a]
              \/ probes[a] = <<>>
              \/ /\ cands'[a] = cands[a]
                 /\ \E passed \in BOOLEAN : probes'[a] = Append(probes[a], passed)

LEMMA AppendKeeps ==
  ASSUME NEW S, NEW s \in Seq(S), NEW x \in S, NEW i \in DOMAIN s
  PROVE  i \in DOMAIN Append(s, x) /\ Append(s, x)[i] = s[i]
  OBVIOUS

\* A verified candidate stays one.
LEMMA GoodKept ==
  ASSUME TypeOK, Quiet, NEW b, Good(b)
  PROVE  Good(b)'
<1>1. CASE b \in Seed
  BY <1>1 DEF Good
<1>2. CASE b \notin Seed
  <2>1. PICK a \in Acqs : \E i \in DOMAIN probes[a] : probes[a][i] /\ cands[a][i] = b
    BY <1>2 DEF Good
  <2>2. PICK i \in DOMAIN probes[a] : probes[a][i] /\ cands[a][i] = b
    BY <2>1
  <2>3. probes[a] \in Seq(BOOLEAN) /\ probes[a] # <<>>
    BY <2>2 DEF TypeOK
  <2>4. i \in DOMAIN probes'[a] /\ probes'[a][i] = probes[a][i] /\ cands'[a] = cands[a]
    <3>1. ASSUME NEW passed \in BOOLEAN, probes'[a] = Append(probes[a], passed)
          PROVE  i \in DOMAIN probes'[a] /\ probes'[a][i] = probes[a][i]
      <4>1. probes[a] \in Seq(BOOLEAN) /\ i \in DOMAIN probes[a]
        BY <2>2, <2>3
      <4>2. /\ i \in DOMAIN Append(probes[a], passed)
            /\ Append(probes[a], passed)[i] = probes[a][i]
        BY <4>1, AppendKeeps
      <4> QED
        BY <3>1, <4>2, Zenon
    <3> QED
      BY <2>2, <2>3, <3>1 DEF Quiet
  <2> QED
    BY <1>2, <2>2, <2>4 DEF Good
<1> QED
  BY <1>1, <1>2

LEMMA QuietVerified ==
  ASSUME TypeOK, VerifiedInv, Quiet
  PROVE  VerifiedInv'
  BY GoodKept DEF VerifiedInv, Quiet

LEMMA QuietStep ==
  ASSUME TypeOK, WorkInv, NEW a \in Acqs, Step(a),
         ~GetCapability(a), ~SaveCapability(a)
  PROVE  Quiet
<1>1. CASE UNCHANGED work
  <2>1. UNCHANGED catalog
    BY DEF Step, Load, LoadFails, StartTrace, StartTraceFails, ListCapabilities,
      CatalogCanceled, ListCapabilitiesFails, Observe, ObserveFails, Propose,
      ProposeFails, ProbePasses, ProbeFails, Probed, ProbeInvalid, ProbeDone,
      PromoteCanceled, PromoteRejected, GetCapabilityFails, SaveCapabilityFails,
      PromoteStops, PromoteDone, Complete, CompleteCanceled, CompleteFails,
      Terminate, TerminateFails, TraceWriteFails, Return, Enter, Fails, StageFails
  <2> QED
    BY <1>1, <2>1 DEF Quiet
<1>2. CASE Propose(a)
  <2>1. probes[a] = <<>>
    BY <1>2 DEF Propose, Enter, Goto, WorkInv, Early
  <2>2. /\ UNCHANGED <<catalog, read, probes>>
        /\ \A b \in Acqs \ {a} : cands'[b] = cands[b]
    BY <1>2 DEF Propose, Enter, TypeOK
  <2> QED
    BY <2>1, <2>2 DEF Quiet
<1>3. CASE ProbePasses(a) \/ ProbeFails(a)
  <2>1. PICK passed \in BOOLEAN : Probed(a, passed)
    BY <1>3 DEF ProbePasses, ProbeFails
  <2> QED
    BY <2>1 DEF Probed, Quiet, TypeOK
<1>4. CASE ProbeDone(a)
  BY <1>4 DEF ProbeDone, Enter, Quiet
<1>5. \/ UNCHANGED work \/ Propose(a) \/ ProbePasses(a) \/ ProbeFails(a)
      \/ ProbeDone(a)
  BY DEF Step, Load, LoadFails, StartTrace, StartTraceFails, ListCapabilities,
    CatalogCanceled, ListCapabilitiesFails, Observe, ObserveFails, ProposeFails,
    ProbeInvalid, PromoteCanceled, PromoteRejected, GetCapabilityFails,
    SaveCapabilityFails, PromoteStops, PromoteDone, Complete, CompleteCanceled,
    CompleteFails, Terminate, TerminateFails, TraceWriteFails, Return
<1> QED
  BY <1>1, <1>2, <1>3, <1>4, <1>5

LEMMA VerifiedStep ==
  ASSUME TypeOK, WorkInv, VerifiedInv, NEW a \in Acqs, Step(a)
  PROVE  VerifiedInv'
<1>1. CASE GetCapability(a)
  <2>1. UNCHANGED <<catalog, cands, probes>>
    BY <1>1 DEF GetCapability
  <2>2. \A b \in Acqs : read'[b] \subseteq read[b] \cup catalog
    BY <1>1 DEF GetCapability, OfCapability, TypeOK
  <2>3. \A b : Good(b) => Good(b)'
    BY <2>1 DEF Good
  <2> QED
    BY <2>1, <2>2, <2>3 DEF VerifiedInv
<1>2. CASE SaveCapability(a)
  <2>1. PICK i \in todo[a] :
          /\ Current(a, i)
          /\ catalog' = (catalog \ OfCapability(catalog, cands[a][i]))
                          \cup Merge(read[a], cands[a][i])
    BY <1>2 DEF SaveCapability
  <2>2. UNCHANGED <<cands, probes>> /\ \A b \in Acqs : read'[b] \subseteq read[b]
    BY <1>2 DEF SaveCapability, TypeOK
  <2>3. PICK j \in todo[a] : Current(a, j) /\ ~Rejected(a, j)
    BY <1>2 DEF SaveCapability, Goto, WorkInv
  <2>4. i = j
    BY <2>1, <2>3 DEF Current, TypeOK
  <2>5. j \in DOMAIN probes[a]
    BY <2>3 DEF WorkInv
  <2>6. Good(cands[a][i])
    BY <2>3, <2>4, <2>5, Zenon DEF Rejected, Good
  <2>7. \A b : Good(b) => Good(b)'
    BY <2>2 DEF Good
  <2> QED
    BY <2>1, <2>2, <2>6, <2>7 DEF VerifiedInv, Merge
<1>3. CASE ~GetCapability(a) /\ ~SaveCapability(a)
  BY <1>3, QuietStep, QuietVerified
<1> QED
  BY <1>1, <1>2, <1>3

\* A step that touches no record and starts no save.
LEMMA QuietSeed ==
  ASSUME SeedInv, UNCHANGED <<catalog, read, todo, cands>>,
         \A a \in Acqs : pc'[a] = "save" => pc[a] = "save"
  PROVE  SeedInv'
  BY DEF SeedInv, Current

LEMMA SeedStep ==
  ASSUME TypeOK, WorkInv, SeedInv, NEW a \in Acqs, Step(a)
  PROVE  SeedInv'
<1>1. CASE GetCapability(a)
  <2>1. PICK i \in todo[a] :
          Current(a, i) /\ read' = [read EXCEPT ![a] = OfCapability(catalog, cands[a][i])]
    BY <1>1 DEF GetCapability
  <2>2. /\ pc' = [pc EXCEPT ![a] = "save"]
        /\ UNCHANGED <<catalog, todo, cands>>
    BY <1>1 DEF GetCapability, Goto
  <2>3. \A j \in todo[a] : Current(a, j) => j = i
    BY <2>1 DEF Current, TypeOK
  <2>4. OfCapability(Seed, cands[a][i]) \subseteq OfCapability(catalog, cands[a][i])
    BY DEF SeedInv, OfCapability
  <2> QED
    BY <2>1, <2>2, <2>3, <2>4 DEF SeedInv, Current, TypeOK
<1>2. CASE SaveCapability(a)
  <2>1. PICK i \in todo[a] :
          /\ Current(a, i)
          /\ catalog' = (catalog \ OfCapability(catalog, cands[a][i]))
                          \cup Merge(read[a], cands[a][i])
    BY <1>2 DEF SaveCapability
  <2>2. pc[a] = "save" /\ OfCapability(Seed, cands[a][i]) \subseteq read[a]
    BY <1>2, <2>1 DEF SaveCapability, Goto, SeedInv
  <2>3. Seed \subseteq catalog'
    BY <2>1, <2>2 DEF Merge, OfCapability, SeedInv
  <2>4. /\ UNCHANGED cands
        /\ \A b \in Acqs : pc'[b] = "save" =>
             pc[b] = "save" /\ todo'[b] = todo[b] /\ read'[b] = read[b]
    BY <1>2 DEF SaveCapability, Goto, TypeOK
  <2> QED
    BY <2>3, <2>4 DEF SeedInv, Current
<1>3. CASE Propose(a)
  <2>1. /\ UNCHANGED <<catalog, read, todo>>
        /\ \A b \in Acqs : pc'[b] = "save" => pc[b] = "save" /\ cands'[b] = cands[b]
    BY <1>3 DEF Propose, Enter, Goto, TypeOK
  <2> QED
    BY <2>1 DEF SeedInv, Current
<1>4. CASE ProbeDone(a)
  <2>1. /\ UNCHANGED <<catalog, read, cands>>
        /\ \A b \in Acqs : pc'[b] = "save" => pc[b] = "save" /\ todo'[b] = todo[b]
    BY <1>4 DEF ProbeDone, Enter, Goto, TypeOK
  <2> QED
    BY <2>1 DEF SeedInv, Current
<1>5. CASE ProbePasses(a) \/ ProbeFails(a)
  BY <1>5, QuietSeed DEF ProbePasses, ProbeFails, Probed
<1>6. CASE /\ ~GetCapability(a) /\ ~SaveCapability(a) /\ ~Propose(a) /\ ~ProbeDone(a)
           /\ ~ProbePasses(a) /\ ~ProbeFails(a)
  <2>1. CASE \/ Load(a) \/ LoadFails(a) \/ StartTrace(a) \/ StartTraceFails(a)
             \/ ListCapabilities(a) \/ CatalogCanceled(a) \/ ListCapabilitiesFails(a)
             \/ Observe(a) \/ ObserveFails(a)
    <3>1. /\ UNCHANGED work /\ UNCHANGED catalog
          /\ \E to \in {"start", "catalog", "observe", "proposal", "returned", "terminate"} :
               pc' = [pc EXCEPT ![a] = to]
      BY <2>1
      DEF Load, LoadFails, StartTrace, StartTraceFails, ListCapabilities,
        CatalogCanceled, ListCapabilitiesFails, Observe, ObserveFails, Return,
        Enter, Fails, StageFails, Goto
    <3> QED
      BY <3>1, QuietSeed DEF TypeOK
  <2>2. CASE \/ ProposeFails(a) \/ ProbeInvalid(a) \/ PromoteCanceled(a)
             \/ PromoteRejected(a) \/ GetCapabilityFails(a) \/ SaveCapabilityFails(a)
    <3>1. UNCHANGED work /\ UNCHANGED catalog /\ pc' = [pc EXCEPT ![a] = "terminate"]
      BY <2>2
      DEF ProposeFails, ProbeInvalid, PromoteCanceled, PromoteRejected,
        GetCapabilityFails, SaveCapabilityFails, PromoteStops, Fails, StageFails, Goto
    <3> QED
      BY <3>1, QuietSeed DEF TypeOK
  <2>3. CASE \/ PromoteDone(a) \/ Complete(a) \/ CompleteCanceled(a)
             \/ CompleteFails(a) \/ Terminate(a) \/ TerminateFails(a)
    <3>1. /\ UNCHANGED work /\ UNCHANGED catalog
          /\ \E to \in {"complete", "returned"} : pc' = [pc EXCEPT ![a] = to]
      BY <2>3
      DEF PromoteDone, Complete, CompleteCanceled, CompleteFails, Terminate,
        TerminateFails, TraceWriteFails, Return, Goto
    <3> QED
      BY <3>1, QuietSeed DEF TypeOK
  <2> QED
    BY <1>6, <2>1, <2>2, <2>3 DEF Step
<1> QED
  BY <1>1, <1>2, <1>3, <1>4, <1>5, <1>6

LEMMA CatalogOther ==
  ASSUME TypeOK, VerifiedInv, SeedInv, Crash \/ \E a \in Acqs : Begin(a) \/ Cancel(a)
  PROVE  VerifiedInv' /\ SeedInv'
<1>1. /\ UNCHANGED work /\ UNCHANGED catalog
      /\ \A a \in Acqs : pc'[a] = "save" => pc[a] = "save"
  BY DEF Crash, Begin, Cancel, Goto, TypeOK
<1>2. Quiet
  BY <1>1 DEF Quiet
<1> QED
  BY <1>1, <1>2, QuietVerified, QuietSeed

----------------------------------------------------------------------------
(* The promotions that are lost *)

\* Another acquisition has saved another binding of the same capability.
Outsaved(a, i) ==
  \E b \in Acqs \ {a} : \E j \in saved[b] :
    cands[b][j] # cands[a][i] /\ CapOf[cands[b][j]] = CapOf[cands[a][i]]

\* Nothing is saved before the candidates are probed; and a merge under way has
\* read every promotion its own acquisition made of that capability, or another
\* acquisition had it removed before.
LostInv ==
  /\ \A a \in Acqs : pc[a] \in Early \cup {"probe"} => saved[a] = {}
  /\ \A a \in Acqs : \A i \in saved[a] : cands[a][i] \in catalog \/ Outsaved(a, i)
  /\ \A a \in Acqs : pc[a] = "save" =>
       \A k \in todo[a] : Current(a, k) =>
         \A i \in saved[a] : CapOf[cands[a][i]] = CapOf[cands[a][k]] =>
           cands[a][i] \in read[a] \/ Outsaved(a, i)

LEMMA LostInit == Init => LostInv
<1> SUFFICES ASSUME Init PROVE LostInv
  OBVIOUS
<1>1. \A a \in Acqs : saved[a] = {} /\ pc[a] = "idle"
  BY DEF Init
<1> QED
  BY <1>1 DEF LostInv

\* What was saved stays saved, of the same candidates.
Onward ==
  \A a \in Acqs :
    saved[a] \subseteq saved'[a] /\ (saved[a] # {} => cands'[a] = cands[a])

LEMMA OutsavedKept ==
  ASSUME Onward, NEW a \in Acqs, NEW i \in saved[a], Outsaved(a, i)
  PROVE  Outsaved(a, i)'
<1>1. PICK b \in Acqs \ {a} : \E j \in saved[b] :
        cands[b][j] # cands[a][i] /\ CapOf[cands[b][j]] = CapOf[cands[a][i]]
  BY DEF Outsaved
<1>2. PICK j \in saved[b] :
        cands[b][j] # cands[a][i] /\ CapOf[cands[b][j]] = CapOf[cands[a][i]]
  BY <1>1
<1>3. cands'[a] = cands[a] /\ cands'[b] = cands[b] /\ j \in saved'[b]
  BY DEF Onward
<1> QED
  BY <1>2, <1>3 DEF Outsaved

\* A step that saves nothing and starts no save.
SavesNothing(a) ==
  /\ UNCHANGED <<catalog, saved, read>>
  /\ saved[a] # {} => cands'[a] = cands[a]
  /\ pc'[a] = "save" => pc[a] = "save" /\ todo'[a] = todo[a] /\ cands'[a] = cands[a]
  /\ pc'[a] \in Early \cup {"probe"} => pc[a] \in Early \cup {"probe"}

LEMMA QuietLost ==
  ASSUME LostInv, \A a \in Acqs : SavesNothing(a)
  PROVE  LostInv'
<1>1. Onward
  BY DEF Onward, SavesNothing
<1>2. UNCHANGED <<catalog, saved, read>> \/ Acqs = {}
  BY DEF SavesNothing
<1>3. ASSUME NEW a \in Acqs, pc'[a] \in Early \cup {"probe"} PROVE saved'[a] = {}
  BY <1>2, <1>3 DEF SavesNothing, LostInv
<1>4. ASSUME NEW a \in Acqs, NEW i \in saved'[a]
      PROVE  cands'[a][i] \in catalog' \/ Outsaved(a, i)'
  <2>1. i \in saved[a] /\ cands'[a] = cands[a]
    BY <1>2, <1>4 DEF SavesNothing
  <2>2. cands[a][i] \in catalog \/ Outsaved(a, i)
    BY <2>1 DEF LostInv
  <2> QED
    BY <1>1, <1>2, <2>1, <2>2, OutsavedKept
<1>5. ASSUME NEW a \in Acqs, pc'[a] = "save", NEW k \in todo'[a], Current(a, k)',
             NEW i \in saved'[a], CapOf[cands'[a][i]] = CapOf[cands'[a][k]]
      PROVE  cands'[a][i] \in read'[a] \/ Outsaved(a, i)'
  <2>1. /\ pc[a] = "save" /\ todo'[a] = todo[a] /\ cands'[a] = cands[a]
        /\ i \in saved[a] /\ read'[a] = read[a]
    BY <1>2, <1>5 DEF SavesNothing
  <2>2. Current(a, k)
    BY <1>5, <2>1 DEF Current
  <2>3. cands[a][i] \in read[a] \/ Outsaved(a, i)
    BY <1>5, <2>1, <2>2 DEF LostInv
  <2> QED
    BY <1>1, <2>1, <2>3, OutsavedKept
<1> QED
  BY <1>3, <1>4, <1>5 DEF LostInv

\* A step of a that leaves the records alone saves nothing.
LEMMA GoesOn ==
  ASSUME TypeOK, NEW a \in Acqs, UNCHANGED <<catalog, saved, read>>,
         UNCHANGED cands \/ (saved[a] = {} /\ \E p : cands' = [cands EXCEPT ![a] = p]),
         UNCHANGED todo \/ \E t : todo' = [todo EXCEPT ![a] = t],
         NEW to, pc' = [pc EXCEPT ![a] = to], to # "save",
         to \in Early \cup {"probe"} => pc[a] \in Early \cup {"probe"}
  PROVE  \A b \in Acqs : SavesNothing(b)
<1>1. \A b \in Acqs : b # a =>
        pc'[b] = pc[b] /\ cands'[b] = cands[b] /\ todo'[b] = todo[b]
  BY DEF TypeOK
<1>2. pc'[a] = to /\ (saved[a] # {} => cands'[a] = cands[a])
  BY DEF TypeOK
<1> QED
  BY <1>1, <1>2 DEF SavesNothing

LEMMA LostQuietStep ==
  ASSUME TypeOK, LostInv, NEW a \in Acqs, Step(a), ~GetCapability(a), ~SaveCapability(a)
  PROVE  \A b \in Acqs : SavesNothing(b)
<1> USE DEF Early
<1>1. CASE Load(a) \/ LoadFails(a) \/ StartTrace(a) \/ StartTraceFails(a)
  <2>1. /\ UNCHANGED <<catalog, saved, work>>
        /\ pc[a] \in {"load", "start"}
        /\ \E to \in {"start", "catalog", "returned"} : pc' = [pc EXCEPT ![a] = to]
    BY <1>1 DEF Load, LoadFails, StartTrace, StartTraceFails, Return, Goto
  <2> QED
    BY <2>1, GoesOn
<1>2. CASE \/ ListCapabilities(a) \/ CatalogCanceled(a) \/ ListCapabilitiesFails(a)
           \/ Observe(a) \/ ObserveFails(a) \/ ProposeFails(a)
  <2>1. /\ UNCHANGED <<catalog, saved, work>>
        /\ pc[a] \in {"catalog", "observe", "proposal"}
        /\ \E to \in {"observe", "proposal", "terminate"} : pc' = [pc EXCEPT ![a] = to]
    BY <1>2 DEF ListCapabilities, CatalogCanceled, ListCapabilitiesFails, Observe,
                ObserveFails, ProposeFails, Enter, Fails, StageFails, Goto
  <2> QED
    BY <2>1, GoesOn
<1>3. CASE Propose(a)
  <2>1. /\ UNCHANGED <<catalog, saved, read, todo>>
        /\ pc[a] = "proposal" /\ pc' = [pc EXCEPT ![a] = "probe"]
        /\ \E p : cands' = [cands EXCEPT ![a] = p]
    BY <1>3 DEF Propose, Enter, Goto
  <2>2. saved[a] = {}
    BY <2>1 DEF LostInv
  <2> QED
    BY <2>1, <2>2, GoesOn
<1>4. CASE ProbePasses(a) \/ ProbeFails(a)
  BY <1>4 DEF ProbePasses, ProbeFails, Probed, SavesNothing
<1>5. CASE ProbeInvalid(a) \/ ProbeDone(a)
  <2>1. /\ UNCHANGED <<catalog, saved, read, cands>>
        /\ UNCHANGED todo \/ \E t : todo' = [todo EXCEPT ![a] = t]
        /\ pc[a] = "probe"
        /\ \E to \in {"promote", "terminate"} : pc' = [pc EXCEPT ![a] = to]
    BY <1>5 DEF ProbeInvalid, ProbeDone, Enter, Fails, StageFails, Goto
  <2> QED
    BY <2>1, GoesOn
<1>6. CASE \/ PromoteCanceled(a) \/ PromoteRejected(a) \/ GetCapabilityFails(a)
           \/ SaveCapabilityFails(a) \/ PromoteDone(a)
  <2>1. /\ UNCHANGED <<catalog, saved, work>>
        /\ pc[a] \in {"promote", "save"}
        /\ \E to \in {"complete", "terminate"} : pc' = [pc EXCEPT ![a] = to]
    BY <1>6 DEF PromoteCanceled, PromoteRejected, GetCapabilityFails,
                SaveCapabilityFails, PromoteDone, PromoteStops, StageFails, Goto
  <2> QED
    BY <2>1, GoesOn
<1>7. CASE \/ Complete(a) \/ CompleteCanceled(a) \/ CompleteFails(a)
           \/ Terminate(a) \/ TerminateFails(a)
  <2>1. /\ UNCHANGED <<catalog, saved, work>>
        /\ pc' = [pc EXCEPT ![a] = "returned"]
    BY <1>7 DEF Complete, CompleteCanceled, CompleteFails, Terminate, TerminateFails,
                TraceWriteFails, Return, Goto
  <2> QED
    BY <2>1, GoesOn
<1> QED
  BY <1>1, <1>2, <1>3, <1>4, <1>5, <1>6, <1>7 DEF Step

\* It reads what its acquisition has saved, but for what another removed.
LEMMA LostGet ==
  ASSUME TypeOK, LostInv, NEW a \in Acqs, GetCapability(a)
  PROVE  LostInv'
<1>1. PICK k \in todo[a] :
        Current(a, k) /\ read' = [read EXCEPT ![a] = OfCapability(catalog, cands[a][k])]
  BY DEF GetCapability
<1>2. /\ pc[a] = "promote" /\ pc' = [pc EXCEPT ![a] = "save"]
      /\ UNCHANGED <<catalog, saved, todo, cands>>
  BY DEF GetCapability, Goto
<1>3. \A b \in Acqs : \A i : Outsaved(b, i) => Outsaved(b, i)'
  BY <1>2 DEF Outsaved
<1>4. ASSUME NEW b \in Acqs, pc'[b] \in Early \cup {"probe"} PROVE saved'[b] = {}
  BY <1>2, <1>4 DEF LostInv, TypeOK, Early
<1>5. ASSUME NEW b \in Acqs, NEW i \in saved'[b]
      PROVE  cands'[b][i] \in catalog' \/ Outsaved(b, i)'
  BY <1>2, <1>3 DEF LostInv
<1>6. ASSUME NEW b \in Acqs, pc'[b] = "save", NEW j \in todo'[b], Current(b, j)',
             NEW i \in saved'[b], CapOf[cands'[b][i]] = CapOf[cands'[b][j]]
      PROVE  cands'[b][i] \in read'[b] \/ Outsaved(b, i)'
  <2>1. Current(b, j)
    BY <1>2, <1>6 DEF Current
  <2>2. CASE b = a
    <3>1. j = k
      BY <1>1, <1>2, <2>1, <2>2 DEF Current, TypeOK
    <3>2. read'[a] = OfCapability(catalog, cands[a][k])
      BY <1>1 DEF TypeOK
    <3>3. cands[a][i] \in catalog \/ Outsaved(a, i)
      BY <1>2, <2>2 DEF LostInv
    <3> QED
      BY <1>2, <1>3, <1>6, <2>2, <3>1, <3>2, <3>3 DEF OfCapability
  <2>3. CASE b # a
    <3>1. pc[b] = "save" /\ read'[b] = read[b]
      BY <1>1, <1>2, <1>6, <2>3 DEF TypeOK
    <3> QED
      BY <1>2, <1>3, <1>6, <2>1, <3>1 DEF LostInv
  <2> QED
    BY <2>2, <2>3
<1> QED
  BY <1>4, <1>5, <1>6 DEF LostInv

\* It removes what it did not read: of its own promotions only those that
\* another acquisition had removed.
LEMMA LostSave ==
  ASSUME TypeOK, LostInv, NEW a \in Acqs, SaveCapability(a)
  PROVE  LostInv'
<1>1. PICK k \in todo[a] :
        /\ Current(a, k)
        /\ catalog' = (catalog \ OfCapability(catalog, cands[a][k]))
                        \cup Merge(read[a], cands[a][k])
        /\ saved' = [saved EXCEPT ![a] = @ \cup {k}]
  BY DEF SaveCapability
<1>2. /\ pc[a] = "save" /\ pc' = [pc EXCEPT ![a] = "promote"] /\ UNCHANGED cands
      /\ \A b \in Acqs : b # a => todo'[b] = todo[b] /\ read'[b] = read[b]
  BY DEF SaveCapability, Goto, TypeOK
<1>3. /\ saved'[a] = saved[a] \cup {k}
      /\ \A b \in Acqs : b # a => saved'[b] = saved[b] /\ pc'[b] = pc[b]
      /\ pc'[a] = "promote"
  BY <1>1, <1>2 DEF TypeOK
<1>4. Onward
  BY <1>2, <1>3 DEF Onward
<1>5. ASSUME NEW b \in Acqs, pc'[b] \in Early \cup {"probe"} PROVE saved'[b] = {}
  BY <1>3, <1>5 DEF LostInv, Early
<1>6. ASSUME NEW b \in Acqs, NEW i \in saved'[b]
      PROVE  cands'[b][i] \in catalog' \/ Outsaved(b, i)'
  <2>1. CASE b = a /\ i = k
    BY <1>1, <1>2, <2>1 DEF Merge
  <2>2. CASE i \in saved[b] /\ Outsaved(b, i)
    BY <1>4, <2>2, OutsavedKept
  <2>3. CASE i \in saved[b] /\ cands[b][i] \in catalog /\ ~Outsaved(b, i)
    <3>1. CASE CapOf[cands[b][i]] # CapOf[cands[a][k]]
      BY <1>1, <1>2, <2>3, <3>1 DEF OfCapability
    <3>2. CASE CapOf[cands[b][i]] = CapOf[cands[a][k]] /\ b = a
      <4>1. cands[a][i] \in read[a]
        BY <1>1, <1>2, <2>3, <3>2 DEF LostInv
      <4> QED
        BY <1>1, <1>2, <3>2, <4>1 DEF Merge
    <3>3. CASE CapOf[cands[b][i]] = CapOf[cands[a][k]] /\ b # a
      <4>1. CASE cands[b][i] = cands[a][k]
        BY <1>1, <1>2, <4>1 DEF Merge
      <4>2. CASE cands[b][i] # cands[a][k]
        <5>1. a \in Acqs \ {b} /\ k \in saved'[a]
          BY <1>3, <3>3
        <5> QED
          BY <1>2, <3>3, <4>2, <5>1 DEF Outsaved
      <4> QED
        BY <4>1, <4>2
    <3> QED
      BY <3>1, <3>2, <3>3
  <2>4. i \in saved[b] => cands[b][i] \in catalog \/ Outsaved(b, i)
    BY DEF LostInv
  <2>5. i \in saved[b] \/ (b = a /\ i = k)
    BY <1>3
  <2> QED
    BY <2>1, <2>2, <2>3, <2>4, <2>5
<1>7. ASSUME NEW b \in Acqs, pc'[b] = "save", NEW j \in todo'[b], Current(b, j)',
             NEW i \in saved'[b], CapOf[cands'[b][i]] = CapOf[cands'[b][j]]
      PROVE  cands'[b][i] \in read'[b] \/ Outsaved(b, i)'
  <2>1. /\ b # a /\ pc[b] = "save" /\ i \in saved[b]
        /\ todo'[b] = todo[b] /\ read'[b] = read[b]
    BY <1>2, <1>3, <1>7
  <2>2. Current(b, j)
    BY <1>7, <2>1 DEF Current
  <2>3. cands[b][i] \in read[b] \/ Outsaved(b, i)
    BY <1>2, <1>7, <2>1, <2>2 DEF LostInv
  <2> QED
    BY <1>2, <1>4, <2>1, <2>3, OutsavedKept
<1> QED
  BY <1>5, <1>6, <1>7 DEF LostInv

LEMMA LostStep ==
  ASSUME TypeOK, LostInv, NEW a \in Acqs, Step(a)
  PROVE  LostInv'
BY LostGet, LostSave, LostQuietStep, QuietLost

LEMMA LostOther ==
  ASSUME TypeOK, LostInv, Crash \/ \E a \in Acqs : Begin(a) \/ Cancel(a)
  PROVE  LostInv'
<1>1. UNCHANGED work /\ UNCHANGED <<catalog, saved>>
  BY DEF Crash, Begin, Cancel
<1>2. \A a \in Acqs : /\ pc'[a] = "save" => pc[a] = "save"
                      /\ pc'[a] \in Early \cup {"probe"} => pc[a] \in Early \cup {"probe"}
  <2>1. CASE \E a \in Acqs : Begin(a)
    BY <2>1 DEF Begin, Goto, TypeOK, Early
  <2>2. CASE \E a \in Acqs : Cancel(a)
    BY <2>2 DEF Cancel
  <2>3. CASE Crash
    BY <2>3 DEF Crash, Early
  <2> QED
    BY <2>1, <2>2, <2>3
<1> QED
  BY <1>1, <1>2, QuietLost DEF SavesNothing

----------------------------------------------------------------------------
(* The invariant and the theorems *)

IInv ==
  TypeOK /\ WorkInv /\ TraceInv /\ EventInv /\ VerifiedInv /\ SeedInv /\ LostInv

LEMMA IInvInit == Init => IInv
  BY TypeInit, WorkInit, TraceInit, CatalogInit, LostInit DEF IInv

\* What holds is about nothing but its type that a child left behind changes.
LEMMA IInvQuiet ==
  ASSUME IInv, held' \in [Acqs -> BOOLEAN],
         UNCHANGED <<pc, ctxDone, last, work, ctxErr, reply, trace, catalog, daemon,
                     faults, saved>>
  PROVE  IInv'
<1>1. TypeOK'
  BY DEF IInv, TypeOK
<1>2. WorkInv' /\ TraceInv' /\ EventInv' /\ VerifiedInv' /\ SeedInv'
  BY DEF IInv, WorkInv, TraceInv, EventInv, VerifiedInv, SeedInv,
         Good, Current, Rejected, ContextDone
<1>3. LostInv'
  BY DEF IInv, LostInv, Outsaved, Current
<1> QED
  BY <1>1, <1>2, <1>3 DEF IInv

LEMMA IInvNext == IInv /\ [Next]_vars => IInv'
<1> SUFFICES ASSUME IInv, [Next]_vars PROVE IInv'
  OBVIOUS
<1>1. CASE \E a \in Acqs : Step(a)
  BY <1>1, TypeStep, WorkStep, TraceStep, EventStep, VerifiedStep, SeedStep,
     LostStep DEF IInv
<1>2. CASE Crash \/ \E a \in Acqs : Begin(a) \/ Cancel(a)
  BY <1>2, TypeOther, WorkOther, TraceOther, EventOther, CatalogOther, LostOther
  DEF IInv
<1>3. CASE \E a \in Acqs : ChildExits(a)
  <2>1. PICK a \in Acqs : ChildExits(a)
    BY <1>3
  <2>2. held' \in [Acqs -> BOOLEAN]
    BY <2>1, Update, Zenon DEF ChildExits, IInv, TypeOK
  <2> QED
    BY <2>1, <2>2, IInvQuiet DEF ChildExits
<1>4. CASE UNCHANGED vars
  BY <1>4, IInvQuiet DEF vars, IInv, TypeOK
<1> QED
  BY <1>1, <1>2, <1>3, <1>4 DEF Next

LEMMA Invariance == Spec => []IInv
  BY IInvInit, IInvNext, PTL DEF Spec

\* Every variable keeps its type, for any number of acquisitions and bindings.
THEOREM TypeCorrect == Spec => []TypeOK
<1>1. IInv => TypeOK
  BY DEF IInv
<1> QED
  BY <1>1, Invariance, PTL

\* However many acquisitions race, fail, are canceled or die with the daemon,
\* only candidates whose probe passed and whose verification was strong enough
\* enter the catalog.
THEOREM OnlyVerifiedPromoted == Spec => []PromotedOnlyVerified
<1>1. IInv => PromotedOnlyVerified
  BY DEF IInv, VerifiedInv, Good, PromotedOnlyVerified
<1> QED
  BY <1>1, Invariance, PTL

\* A terminal trace reports exactly the promotions SaveCapability made durable,
\* those made before an error or a cancel included.
THEOREM TracesAccount == Spec => []TraceAccounts
<1>1. IInv => TraceAccounts
  BY DEF IInv, TraceInv, TraceAccounts
<1> QED
  BY <1>1, Invariance, PTL

\* After a stage error Run returns without a terminal trace only if the store
\* refused the write: no cancel gets in its way.
THEOREM FailuresTerminated == Spec => []StageFailureTerminated
<1>1. IInv => StageFailureTerminated
  BY DEF IInv, EventInv, StageFailureTerminated
<1> QED
  BY <1>1, Invariance, PTL

\* An event that says canceled is never contradicted by the trace, though the
\* two read the context at different moments.
THEOREM CancelKept == Spec => []CanceledStaysCanceled
<1>1. IInv => CanceledStaysCanceled
  BY DEF IInv, EventInv, CanceledStaysCanceled
<1> QED
  BY <1>1, Invariance, PTL

\* What App.Acquire answers is what the trace store holds.
THEOREM RepliesTell == Spec => []ReplyTellsTrace
<1>1. IInv => ReplyTellsTrace
  BY DEF IInv, TraceInv, ReplyTellsTrace
<1> QED
  BY <1>1, Invariance, PTL

\* Overlapping get-merge-save sequences never lose a binding that was in the
\* catalog before any of them began.
THEOREM SeedKept == Spec => []SeedSurvives
<1>1. IInv => SeedSurvives
  BY DEF IInv, SeedInv, SeedSurvives
<1> QED
  BY <1>1, Invariance, PTL

\* However many acquisitions promote at once, one does not undo its own
\* promotions: a binding it saved is missing from the catalog only when another
\* acquisition saved another binding of that capability.
THEOREM LostToOthersOnly == Spec => []LostOnlyToAnother
<1>1. IInv => LostOnlyToAnother
  BY DEF IInv, LostInv, LostOnlyToAnother, Outsaved
<1> QED
  BY <1>1, Invariance, PTL
=============================================================================
