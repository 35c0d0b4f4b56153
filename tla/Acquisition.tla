----------------------------- MODULE Acquisition -----------------------------
(***************************************************************************)
(* internal/acquisition.Runner.Run with the probe, promote and tracelog     *)
(* packages it drives: several acquisitions run at once in one daemon over  *)
(* one capability catalog, each under a context its client can cancel       *)
(* between any two steps, over a store whose calls may fail, in a process   *)
(* that may die and be started again.                                       *)
(*                                                                         *)
(* A Save or Get of one record is a single step here: RecordDir shows that  *)
(* it is.  A List is not: it fails on the temp file of a Save under way, or *)
(* on the one a crash left.  A candidate is known by the id of the binding  *)
(* it would become, and a promotion by the index of its candidate.          *)
(***************************************************************************)
EXTENDS Naturals, Sequences

CONSTANTS
  Acqs,           \* acquisition requests, one Run each
  Bindings,       \* binding ids: capability, provider and execution
  CapOf,          \* [Bindings -> the capability the binding belongs to]
  Seed,           \* the bindings an earlier daemon left in the catalog
  Unpromotable,   \* candidates promotedCapability refuses even when passed
  ByContract,     \* candidates verified by contract, with nothing executed
  Proposals,      \* bound: the candidate lists a proposal may come up with
  StoreFaults     \* TRUE when reading or writing a record may fail

ASSUME AcquisitionAssumption ==
  /\ Seed \subseteq Bindings
  /\ Proposals \subseteq Seq(Bindings)

VARIABLES
  pc,       \* [Acqs -> the step Run is at]
  ctxDone,  \* [Acqs -> the request's context is canceled]
  held,     \* [Acqs -> the stage's command leaves a child that holds its output]
  last,     \* [Acqs -> the progress event emitted last]
  cands,    \* [Acqs -> st.Candidates]
  probes,   \* [Acqs -> st.Probes: for each candidate so far, whether it passed]
  todo,     \* [Acqs -> the indexes promote has still to go through]
  read,     \* [Acqs -> the bindings GetCapability returned]
  promos,   \* [Acqs -> st.Promotions]
  ctxErr,   \* [Acqs -> the stage's error is itself a context error]
  reply,    \* [Acqs -> "none", the status of the trace returned, or "error"]
  trace,    \* [Acqs -> the trace record in the store]
  catalog,  \* the bindings in the store's capability records
  litter,   \* a temp file lies in the capabilities directory for good
  crashed,  \* the daemon died once
  faults,   \* history: [Acqs -> a write of its terminal trace failed]
  saved     \* history: [Acqs -> the promotions SaveCapability made durable]

outside == <<ctxDone, held>>
work == <<cands, probes, todo, read, promos>>
daemon == <<litter, crashed>>
vars == <<pc, outside, last, work, ctxErr, reply, trace, catalog, daemon,
          faults, saved>>

Stages == {"entry", "catalog", "observe", "proposal", "probe", "promote"}
Terminal == {"completed", "failed", "canceled"}
Event(stage, status) == [stage |-> stage, status |-> status]
Trace(status, promotions) == [status |-> status, promotions |-> promotions]

TypeOK ==
  /\ pc \in [Acqs -> {"idle", "load", "start", "catalog", "observe", "proposal",
                      "probe", "promote", "save", "complete", "terminate",
                      "returned", "dead"}]
  /\ ctxDone \in [Acqs -> BOOLEAN] /\ held \in [Acqs -> BOOLEAN]
  /\ last \in [Acqs -> [stage : Stages, status :
                 {"none", "started", "succeeded", "failed", "canceled"}]]
  /\ cands \in [Acqs -> Seq(Bindings)]
  /\ probes \in [Acqs -> Seq(BOOLEAN)]
  /\ todo \in [Acqs -> SUBSET Nat]
  /\ read \in [Acqs -> SUBSET Bindings]
  /\ promos \in [Acqs -> SUBSET Nat]
  /\ ctxErr \in [Acqs -> BOOLEAN]
  /\ reply \in [Acqs -> {"none", "error"} \cup Terminal]
  /\ trace \in [Acqs -> [status : {"none", "running"} \cup Terminal,
                         promotions : SUBSET Nat]]
  /\ catalog \in SUBSET Bindings
  /\ litter \in BOOLEAN /\ crashed \in BOOLEAN
  /\ faults \in [Acqs -> BOOLEAN]
  /\ saved \in [Acqs -> SUBSET Nat]

Init ==
  /\ pc = [a \in Acqs |-> "idle"]
  /\ ctxDone = [a \in Acqs |-> FALSE] /\ held = [a \in Acqs |-> FALSE]
  /\ last = [a \in Acqs |-> Event("entry", "none")]
  /\ cands = [a \in Acqs |-> <<>>]
  /\ probes = [a \in Acqs |-> <<>>]
  /\ todo = [a \in Acqs |-> {}]
  /\ read = [a \in Acqs |-> {}]
  /\ promos = [a \in Acqs |-> {}]
  /\ ctxErr = [a \in Acqs |-> FALSE]
  /\ reply = [a \in Acqs |-> "none"]
  /\ trace = [a \in Acqs |-> Trace("none", {})]
  /\ catalog = Seed
  /\ litter = FALSE /\ crashed = FALSE
  /\ faults = [a \in Acqs |-> FALSE]
  /\ saved = [a \in Acqs |-> {}]

----------------------------------------------------------------------------
(* Moves the stages share *)

Goto(a, from, to) == pc[a] = from /\ pc' = [pc EXCEPT ![a] = to]

Emit(a, stage, status) == last' = [last EXCEPT ![a] = Event(stage, status)]

\* Succeeded for one stage, then at once started for the next.
Enter(a, from, stage) ==
  /\ Goto(a, from, stage)
  /\ Emit(a, stage, "started")
  /\ UNCHANGED <<ctxDone, ctxErr, reply, trace, catalog, daemon, faults, saved>>

\* External: a command begins, or none does.  It may leave a child that holds its
\* output open, for which cmd.Run waits even when the command has been killed.
Command(a, begins) ==
  \E h \in BOOLEAN : held' = [held EXCEPT ![a] = begins /\ ~ctxDone[a] /\ h]

\* isContextDone: the request's context says so, or the error itself.
ContextDone(a, isCtxErr) == ctxDone[a] \/ isCtxErr

ProgressStatus(a, isCtxErr) ==
  IF ContextDone(a, isCtxErr) THEN "canceled" ELSE "failed"

\* A stage returned an error: its event now, terminate next.
StageFails(a, from, stage, status, isCtxErr) ==
  /\ Goto(a, from, "terminate")
  /\ Emit(a, stage, status)
  /\ ctxErr' = [ctxErr EXCEPT ![a] = isCtxErr]
  /\ UNCHANGED <<outside, reply, trace, catalog, daemon, faults, saved>>

Fails(a, stage, isCtxErr) ==
  StageFails(a, stage, stage, ProgressStatus(a, isCtxErr), isCtxErr)

\* Run returns, and App.Acquire answers with the trace or with the error.
Return(a, from, answer) ==
  /\ Goto(a, from, "returned")
  /\ reply' = [reply EXCEPT ![a] = answer]
  /\ UNCHANGED <<outside, work, ctxErr, catalog, daemon, saved>>

----------------------------------------------------------------------------
(* Entry, trace start and catalog *)

Begin(a) == Goto(a, "idle", "load") /\ Emit(a, "entry", "started")
  /\ UNCHANGED <<outside, work, ctxErr, reply, trace, catalog, daemon, faults, saved>>

Load(a) ==
  /\ ~ctxDone[a]
  /\ Goto(a, "load", "start") /\ Emit(a, "entry", "succeeded")
  /\ UNCHANGED <<outside, work, ctxErr, reply, trace, catalog, daemon, faults, saved>>

\* Canceled, no such provider, or the store failed: there is no trace yet.
LoadFails(a) ==
  /\ Return(a, "load", "error")
  /\ Emit(a, "entry", ProgressStatus(a, FALSE))
  /\ UNCHANGED <<trace, faults>>

StartTrace(a) ==
  /\ ~ctxDone[a]
  /\ Goto(a, "start", "catalog") /\ Emit(a, "catalog", "started")
  /\ trace' = [trace EXCEPT ![a] = Trace("running", {})]
  /\ UNCHANGED <<outside, work, ctxErr, reply, catalog, daemon, faults, saved>>

StartTraceFails(a) ==
  /\ ctxDone[a] \/ StoreFaults
  /\ Return(a, "start", "error")
  /\ UNCHANGED <<last, trace, faults>>

\* A temp file in the listed directory makes ListCapabilities fail.
TempFileListed(a) == litter \/ \E b \in Acqs \ {a} : pc[b] = "save"

ListCapabilities(a) ==
  /\ ~ctxDone[a] /\ ~litter
  /\ Enter(a, "catalog", "observe")
  /\ Command(a, TRUE)
  /\ UNCHANGED work

CatalogCanceled(a) ==
  /\ ctxDone[a]
  /\ StageFails(a, "catalog", "catalog", "canceled", TRUE)
  /\ UNCHANGED work

\* A List that failed is tried again until it succeeds.
Mut_ListCapabilitiesFails(a) ==
  /\ pc[a] = "catalog" /\ ~ctxDone[a]
  /\ StoreFaults \/ TempFileListed(a)
  /\ UNCHANGED vars

\* The event says failed whatever the context says by now.
ListCapabilitiesFails(a) ==
  /\ ~ctxDone[a]
  /\ StoreFaults \/ TempFileListed(a)
  /\ StageFails(a, "catalog", "catalog", "failed", FALSE)
  /\ UNCHANGED work

----------------------------------------------------------------------------
(* Observe and proposal *)

\* The usage commands run under the request's context; they are one here.
Observe(a) ==
  /\ ~ctxDone[a] /\ ~held[a]
  /\ Enter(a, "observe", "proposal")
  /\ UNCHANGED <<held, work>>

ObserveFails(a) == ~held[a] /\ Fails(a, "observe", FALSE) /\ UNCHANGED work

\* The n-th of the candidates is probed by running its program.
Executed(candidates, n) ==
  n \in DOMAIN candidates /\ candidates[n] \notin ByContract

Propose(a) ==
  /\ Enter(a, "proposal", "probe")
  /\ \E p \in Proposals :
       /\ cands' = [cands EXCEPT ![a] = p]
       /\ Command(a, Executed(p, 1))
  /\ UNCHANGED <<probes, todo, read, promos>>

\* The model call has a deadline of its own.
ProposeFails(a) ==
  /\ \E isCtxErr \in BOOLEAN : Fails(a, "proposal", isCtxErr)
  /\ UNCHANGED work

----------------------------------------------------------------------------
(* Probe: the candidates one after another, a failure being a probe record *)

Probed(a, passed) ==
  /\ pc[a] = "probe" /\ Len(probes[a]) < Len(cands[a]) /\ ~held[a]
  /\ probes' = [probes EXCEPT ![a] = Append(@, passed)]
  /\ Command(a, Executed(cands[a], Len(probes[a]) + 2))
  /\ UNCHANGED <<pc, ctxDone, last, cands, todo, read, promos, ctxErr, reply,
                 trace, catalog, daemon, faults, saved>>

\* A contract probe reads no context; an executed one is killed with it.
ProbePasses(a) ==
  /\ Probed(a, TRUE)
  /\ ~ctxDone[a] \/ cands[a][Len(probes[a]) + 1] \in ByContract

ProbeFails(a) == Probed(a, FALSE)

\* A plan that does not fit the candidates: the one error of the stage, before
\* any command.
ProbeInvalid(a) ==
  /\ probes[a] = <<>> /\ ~held[a]
  /\ Fails(a, "probe", FALSE)
  /\ UNCHANGED work

\* promote.buildTargets: the candidates whose probe passed.
Targets(a) == {i \in DOMAIN probes[a] : probes[a][i]}

ProbeDone(a) ==
  /\ Len(probes[a]) = Len(cands[a])
  /\ Enter(a, "probe", "promote")
  /\ todo' = [todo EXCEPT ![a] = Targets(a)]
  /\ UNCHANGED <<held, cands, probes, read, promos>>

----------------------------------------------------------------------------
(* Promote: get, merge and save each target's capability, in order *)

Current(a, i) == i \in todo[a] /\ \A j \in todo[a] : i <= j

OfCapability(bindings, b) == {x \in bindings : CapOf[x] = CapOf[b]}

\* The verification level is not looked at.
Mut_Rejected(a, i) == ~probes[a][i]

\* promotedCapability: a failed probe, L0 verification, missing evidence.
Rejected(a, i) == ~probes[a][i] \/ cands[a][i] \in Unpromotable

\* Promotions made before the error are not reported.
Mut_PromoteStops(a, from, isCtxErr) ==
  /\ StageFails(a, from, "promote", ProgressStatus(a, isCtxErr), isCtxErr)
  /\ promos' = [promos EXCEPT ![a] = {}]
  /\ UNCHANGED <<cands, probes, todo, read>>

\* promote.Run returns an error together with the promotions it has made.
PromoteStops(a, from, isCtxErr) ==
  /\ StageFails(a, from, "promote", ProgressStatus(a, isCtxErr), isCtxErr)
  /\ UNCHANGED work

PromoteCanceled(a) ==
  todo[a] # {} /\ ctxDone[a] /\ PromoteStops(a, "promote", TRUE)

PromoteRejected(a) ==
  /\ ~ctxDone[a]
  /\ \E i \in todo[a] : Current(a, i) /\ Rejected(a, i)
  /\ PromoteStops(a, "promote", FALSE)

GetCapabilityFails(a) ==
  /\ StoreFaults /\ ~ctxDone[a]
  /\ \E i \in todo[a] : Current(a, i) /\ ~Rejected(a, i)
  /\ PromoteStops(a, "promote", FALSE)

\* The record as it was before any promotion, not as it is now.
Mut_GetCapability(a) ==
  /\ ~ctxDone[a]
  /\ Goto(a, "promote", "save")
  /\ \E i \in todo[a] :
       /\ Current(a, i) /\ ~Rejected(a, i)
       /\ read' = [read EXCEPT ![a] = OfCapability(Seed, cands[a][i])]
  /\ UNCHANGED <<outside, last, cands, probes, todo, promos, ctxErr, reply,
                 trace, catalog, daemon, faults, saved>>

GetCapability(a) ==
  /\ ~ctxDone[a]
  /\ Goto(a, "promote", "save")
  /\ \E i \in todo[a] :
       /\ Current(a, i) /\ ~Rejected(a, i)
       /\ read' = [read EXCEPT ![a] = OfCapability(catalog, cands[a][i])]
  /\ UNCHANGED <<outside, last, cands, probes, todo, promos, ctxErr, reply,
                 trace, catalog, daemon, faults, saved>>

\* The promoted capability replaces the stored one.
Mut_Merge(existing, b) == {b}

\* mergeCapability: what was read, with this binding added or replaced.
Merge(existing, b) == existing \cup {b}

\* The whole record is written from what was read, however long ago that was.
SaveCapability(a) ==
  /\ Goto(a, "save", "promote")
  /\ \E i \in todo[a] :
       /\ Current(a, i)
       /\ catalog' = (catalog \ OfCapability(catalog, cands[a][i]))
                       \cup Merge(read[a], cands[a][i])
       /\ todo' = [todo EXCEPT ![a] = @ \ {i}]
       /\ promos' = [promos EXCEPT ![a] = @ \cup {i}]
       /\ saved' = [saved EXCEPT ![a] = @ \cup {i}]
  /\ read' = [read EXCEPT ![a] = {}]
  /\ UNCHANGED <<outside, last, cands, probes, ctxErr, reply, trace, daemon, faults>>

SaveCapabilityFails(a) == StoreFaults /\ PromoteStops(a, "save", FALSE)

PromoteDone(a) ==
  /\ todo[a] = {}
  /\ Goto(a, "promote", "complete") /\ Emit(a, "promote", "succeeded")
  /\ UNCHANGED <<outside, work, ctxErr, reply, trace, catalog, daemon, faults, saved>>

----------------------------------------------------------------------------
(* The terminal trace *)

Complete(a) ==
  /\ ~ctxDone[a]
  /\ Return(a, "complete", "completed")
  /\ trace' = [trace EXCEPT ![a] = Trace("completed", promos[a])]
  /\ UNCHANGED <<last, faults>>

\* Complete runs under the request's context, unlike terminate.
CompleteCanceled(a) ==
  /\ ctxDone[a]
  /\ Return(a, "complete", "error")
  /\ UNCHANGED <<last, trace, faults>>

\* The error of the write is dropped, the stage's answer given.
Mut_TraceWriteFails(a, from) ==
  /\ StoreFaults
  /\ Return(a, from, IF from = "complete" THEN "completed" ELSE "failed")
  /\ faults' = [faults EXCEPT ![a] = TRUE]
  /\ UNCHANGED <<last, trace>>

\* The terminal write failed: the error is the answer and the trace keeps running.
TraceWriteFails(a, from) ==
  /\ StoreFaults
  /\ Return(a, from, "error")
  /\ faults' = [faults EXCEPT ![a] = TRUE]
  /\ UNCHANGED <<last, trace>>

CompleteFails(a) == TraceWriteFails(a, "complete") /\ ~ctxDone[a]

\* Only the error is asked, not the context.
Mut_TerminateByError(a) ==
  /\ LET status == IF ctxErr[a] THEN "canceled" ELSE "failed" IN
       /\ Return(a, "terminate", status)
       /\ trace' = [trace EXCEPT ![a] = Trace(status, promos[a])]
  /\ UNCHANGED <<last, faults>>

\* terminate: canceled or failed, written under a context nobody cancels.
Terminate(a) ==
  /\ LET status == IF ContextDone(a, ctxErr[a]) THEN "canceled" ELSE "failed" IN
       /\ Return(a, "terminate", status)
       /\ trace' = [trace EXCEPT ![a] = Trace(status, promos[a])]
  /\ UNCHANGED <<last, faults>>

TerminateFails(a) == TraceWriteFails(a, "terminate")

----------------------------------------------------------------------------
(* The client and the process *)

Running(a) == pc[a] \notin {"idle", "returned", "dead"}

\* The client goes away, or its own deadline passes.
Cancel(a) ==
  /\ Running(a) /\ ~ctxDone[a]
  /\ ctxDone' = [ctxDone EXCEPT ![a] = TRUE]
  /\ UNCHANGED <<pc, held, last, work, ctxErr, reply, trace, catalog, daemon, faults, saved>>

\* External: the child ends, or closes what it inherited.
ChildExits(a) ==
  /\ held[a]
  /\ held' = [held EXCEPT ![a] = FALSE]
  /\ UNCHANGED <<pc, ctxDone, last, work, ctxErr, reply, trace, catalog, daemon,
                 faults, saved>>

\* The daemon dies, once; requests not yet begun reach the one started after it.
\* A Save cut short leaves its temp file behind.
Crash ==
  /\ ~crashed
  /\ crashed' = TRUE
  /\ litter' \in {FALSE, \E a \in Acqs : pc[a] = "save"}
  /\ pc' = [a \in Acqs |-> IF Running(a) THEN "dead" ELSE pc[a]]
  /\ UNCHANGED <<outside, last, work, ctxErr, reply, trace, catalog, faults, saved>>

Step(a) ==
  \/ Load(a) \/ LoadFails(a) \/ StartTrace(a) \/ StartTraceFails(a)
  \/ ListCapabilities(a) \/ CatalogCanceled(a) \/ ListCapabilitiesFails(a)
  \/ Observe(a) \/ ObserveFails(a) \/ Propose(a) \/ ProposeFails(a)
  \/ ProbePasses(a) \/ ProbeFails(a) \/ ProbeInvalid(a) \/ ProbeDone(a)
  \/ PromoteCanceled(a) \/ PromoteRejected(a)
  \/ GetCapability(a) \/ GetCapabilityFails(a)
  \/ SaveCapability(a) \/ SaveCapabilityFails(a) \/ PromoteDone(a)
  \/ Complete(a) \/ CompleteCanceled(a) \/ CompleteFails(a)
  \/ Terminate(a) \/ TerminateFails(a)

Next ==
  \/ \E a \in Acqs : Begin(a) \/ Step(a) \/ Cancel(a) \/ ChildExits(a)
  \/ Crash

Spec == Init /\ [][Next]_vars

\* The Go scheduler runs every goroutine, and model calls and the commands
\* themselves have deadlines; what a command leaves behind has none.
RunFair == Spec /\ \A a \in Acqs : WF_vars(Step(a))

\* And the children that commands leave behind end some day.
FairSpec == RunFair /\ \A a \in Acqs : WF_vars(ChildExits(a))

----------------------------------------------------------------------------
(* Properties *)

\* Whatever acquisitions race, fail, are canceled or die, a binding enters the
\* catalog only for a candidate of some acquisition whose probe passed and whose
\* verification was strong enough (probe, buildTargets, promotedCapability).
PromotedOnlyVerified ==
  \A b \in catalog \ Seed :
    /\ b \notin Unpromotable
    /\ \E a \in Acqs : \E i \in DOMAIN probes[a] : probes[a][i] /\ cands[a][i] = b

\* A terminal trace reports exactly the promotions that reached the store, the
\* ones made before an error or a cancel included (promote.Run returns both).
TraceAccounts ==
  \A a \in Acqs :
    trace[a].status \in Terminal => trace[a].promotions = saved[a]

\* Once a stage has failed, Run does not return without a terminal trace unless
\* the store refused it: a cancel cannot prevent terminate's write.
StageFailureTerminated ==
  \A a \in Acqs :
    pc[a] = "returned" /\ trace[a].status = "running"
      /\ last[a].status \in {"failed", "canceled"} => faults[a]

\* A client told that a stage was canceled never finds the trace failed or
\* completed, though the event and the trace read the context at two moments.
CanceledStaysCanceled ==
  \A a \in Acqs :
    last[a].status = "canceled" /\ trace[a].status \in Terminal =>
      trace[a].status = "canceled"

\* The client is answered with a trace exactly when that trace is the terminal
\* one in the store, and with an error when the store has none or a running one.
ReplyTellsTrace ==
  \A a \in Acqs : pc[a] = "returned" =>
    IF reply[a] = "error" THEN trace[a].status \in {"none", "running"}
                          ELSE trace[a].status = reply[a]

\* No overlap of promotions loses a binding that was there before they began:
\* every merge starts from a record that held it.
SeedSurvives == Seed \subseteq catalog

\* A promotion can disappear from its capability only under another
\* acquisition's save of that capability, never under its own later ones.
LostOnlyToAnother ==
  \A a \in Acqs : \A i \in saved[a] : cands[a][i] \notin catalog =>
    \E b \in Acqs \ {a} : \E j \in saved[b] :
      cands[b][j] # cands[a][i] /\ CapOf[cands[b][j]] = CapOf[cands[a][i]]

\* Every acquisition begun is answered, unless the daemon dies under it: as long
\* as each child that a command of observe or probe leaves with its output ends,
\* for no deadline of the code bounds the wait for it (execute/cli/command.go:41
\* and observe/cli/usage.go:86 set no WaitDelay).
Settles == \A a \in Acqs : Running(a) ~> pc[a] \in {"returned", "dead"}

\* docs/cal-release-v1/cal-module-acquisition.md:288 "After tracelog.Start
\* succeeds, every later failure should attempt to write a terminal trace", so
\* where no write fails no trace is left running.  A cancel that arrives after
\* the last stage makes Complete refuse, and nothing writes a terminal trace.
NoTraceLeftRunning ==
  \A a \in Acqs : pc[a] = "returned" /\ trace[a].status = "running" => faults[a]

\* docs/cal-release-v1/cal-module-promote.md: a promotion is a durable binding.
\* Two acquisitions that promote into one capability both read it before either
\* saves: the first one's binding is gone.
PromotionsDurable ==
  \A a \in Acqs : \A i \in saved[a] : cands[a][i] \in catalog
=============================================================================
