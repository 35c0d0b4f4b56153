------------------------------ MODULE Proposal ------------------------------
(***************************************************************************)
(* internal/proposal.Runner.Run: the surface and capability calls one after *)
(* the other, then one goroutine per planned capability, at most            *)
(* Concurrency of them at once, each making a binding call and an evidence  *)
(* call for every candidate that came back; the overall deadline and the    *)
(* one of each capability fall anywhere.  The results are merged in the     *)
(* order of the plans and reduced to one candidate per capability.          *)
(*                                                                         *)
(* A candidate is known by the pipeline that made it and its place there; a *)
(* probe plan remembers the candidate it was made for.  Sequences count     *)
(* from 1.  Canceled and failed steps are one: Acquisition tells them apart. *)
(***************************************************************************)
EXTENDS Naturals, Sequences, FiniteSets, SequencesExt

CONSTANTS
  MaxPlans,     \* bound: capabilities the capability stage plans
  Concurrency,  \* Options.Concurrency, normalized
  Limits,       \* the values of Options.CandidateLimit, 0 for none
  Identities,   \* what tells candidates apart: provider, capability, execution
  Own,          \* the identities that name the provider asked about
  CapOf,        \* [Identities -> capability]: the model may name another one
  Bound         \* bound: the candidate lists a binding call may come up with

ASSUME ProposalAssumption ==
  /\ MaxPlans \in Nat \ {0} /\ Concurrency \in Nat \ {0} /\ Limits \subseteq Nat
  /\ Own \subseteq Identities
  /\ Bound \subseteq Seq(Identities) \ {<<>>}

VARIABLES
  pc,       \* the step Run is at
  ctxDone,  \* the overall deadline passed, or the request was canceled
  limit,    \* options.CandidateLimit
  plans,    \* how many capabilities were planned
  next,     \* the plan the dispatching loop is at
  sem, wg,  \* tokens in the semaphore's channel; the WaitGroup's count
  step,     \* [pipeline -> the step its goroutine is at]
  expired,  \* [pipeline -> its own deadline passed]
  found,    \* [pipeline -> the candidates of its binding call]
  work,     \* [pipeline -> the result it builds]
  results,  \* [pipeline -> the slot of the results slice]
  events,   \* the progress events emitted
  attempts, \* the attempts of the two serial stages
  answer    \* what Run returned

control == <<limit, plans, next, sem, wg>>
pipes == <<step, expired, found, work>>
vars == <<pc, ctxDone, control, pipes, results, events, attempts, answer>>

Pipelines == 1..MaxPlans
Call(name, k, i) == [name |-> name, cap |-> k, cand |-> i]
Ev(call, status) == [call |-> call, status |-> status]
Empty == [cands |-> <<>>, plans |-> <<>>, attempts |-> <<>>, err |-> FALSE]
Answer(code, cs, ps, as) == [code |-> code, cands |-> cs, plans |-> ps, attempts |-> as]

Calls == [name : {"surface", "capability", "binding", "evidence"},
          cap : 0..MaxPlans, cand : Nat]
Candidates == [id : Identities, owner : Pipelines, nth : Nat]
ProbePlans == [index : Nat, owner : Pipelines, nth : Nat]
PipelineResults == [cands : Seq(Candidates), plans : Seq(ProbePlans),
                    attempts : Seq(Calls), err : BOOLEAN]

\* What an answer holds is said by the properties.
TypeOK ==
  /\ pc \in {"idle", "surface", "capability", "pipelines", "returned"}
  /\ ctxDone \in BOOLEAN /\ limit \in Limits
  /\ plans \in 0..MaxPlans /\ next \in 1..(MaxPlans + 1)
  /\ sem \in Nat /\ wg \in Nat
  /\ step \in [Pipelines -> {"none", "binding", "evidence", "finishing", "done"}]
  /\ expired \in [Pipelines -> BOOLEAN]
  /\ found \in [Pipelines -> Bound \cup {<<>>}]
  /\ work \in [Pipelines -> PipelineResults]
  /\ results \in [Pipelines -> PipelineResults]
  /\ events \subseteq [call : Calls, status : {"started", "succeeded", "failed"}]
  /\ attempts \in Seq(Calls)
  /\ answer.code \in {"none", "ok", "stage_failed", "no_candidates", "select_failed"}

Init ==
  /\ pc = "idle" /\ ctxDone = FALSE /\ limit \in Limits
  /\ plans = 0 /\ next = 1 /\ sem = 0 /\ wg = 0
  /\ step = [k \in Pipelines |-> "none"]
  /\ expired = [k \in Pipelines |-> FALSE]
  /\ found = [k \in Pipelines |-> <<>>]
  /\ work = [k \in Pipelines |-> Empty]
  /\ results = [k \in Pipelines |-> Empty]
  /\ events = {} /\ attempts = <<>>
  /\ answer = Answer("none", <<>>, <<>>, <<>>)

----------------------------------------------------------------------------
(* The serial stages *)

Surface == Call("surface", 0, 0)
Capability == Call("capability", 0, 0)

Begin ==
  /\ pc = "idle" /\ pc' = "surface"
  /\ events' = {Ev(Surface, "started")}
  /\ UNCHANGED <<ctxDone, control, pipes, results, attempts, answer>>

\* A call made under a dead context fails; one that answered before is kept.
SurfaceSucceeds ==
  /\ pc = "surface" /\ ~ctxDone /\ pc' = "capability"
  /\ events' = events \cup {Ev(Surface, "succeeded"), Ev(Capability, "started")}
  /\ attempts' = Append(attempts, Surface)
  /\ UNCHANGED <<ctxDone, control, pipes, results, answer>>

StageFails(call) ==
  /\ pc = call.name /\ pc' = "returned"
  /\ events' = events \cup {Ev(call, "failed")}
  /\ attempts' = Append(attempts, call)
  /\ answer' = Answer("stage_failed", <<>>, <<>>, attempts')
  /\ UNCHANGED <<ctxDone, control, pipes, results>>

\* At least one plan, or the stage fails; at most the limit, if there is one.
CapabilitySucceeds ==
  /\ pc = "capability" /\ ~ctxDone /\ pc' = "pipelines"
  /\ plans' \in {n \in 1..MaxPlans : limit = 0 \/ n <= limit}
  /\ events' = events \cup {Ev(Capability, "succeeded")}
  /\ attempts' = Append(attempts, Capability)
  /\ UNCHANGED <<ctxDone, limit, next, sem, wg, pipes, results, answer>>

----------------------------------------------------------------------------
(* Dispatch: a token of the semaphore, or the end of the context *)

Workers == IF Concurrency > plans THEN plans ELSE Concurrency

Dispatching == pc = "pipelines" /\ next <= plans

Dispatch ==
  /\ Dispatching /\ sem < Workers
  /\ sem' = sem + 1 /\ wg' = wg + 1 /\ next' = next + 1
  /\ step' = [step EXCEPT ![next] = "binding"]
  /\ events' = events \cup {Ev(Call("binding", next, 0), "started")}
  /\ UNCHANGED <<pc, ctxDone, limit, plans, expired, found, work, results, attempts, answer>>

\* wg.Add before the select, not after it.
Mut_Skip ==
  /\ Dispatching /\ ctxDone
  /\ next' = next + 1 /\ wg' = wg + 1
  /\ results' = [results EXCEPT ![next].err = TRUE]
  /\ UNCHANGED <<pc, ctxDone, limit, plans, sem, pipes, events, attempts, answer>>

\* With a token free as well, select takes either branch.
Skip ==
  /\ Dispatching /\ ctxDone
  /\ next' = next + 1
  /\ results' = [results EXCEPT ![next].err = TRUE]
  /\ UNCHANGED <<pc, ctxDone, limit, plans, sem, wg, pipes, events, attempts, answer>>

----------------------------------------------------------------------------
(* One capability's pipeline *)

\* The deadline of the pipeline's context is the nearer of the two.
Done(k) == ctxDone \/ expired[k]

\* A call of the pipeline ended: its event, its attempt and, perhaps, the
\* event of the call that follows at once.
Ended(k, call, status, started) ==
  /\ events' = events \cup {Ev(call, status)} \cup started
  /\ UNCHANGED <<pc, ctxDone, control, expired, results, attempts, answer>>

PipelineFails(k, call) ==
  /\ Ended(k, call, "failed", {})
  /\ step' = [step EXCEPT ![k] = "finishing"]
  /\ work' = [work EXCEPT ![k].err = TRUE, ![k].attempts = Append(@, call)]
  /\ UNCHANGED found

EvidenceCall(k, i) == Call("evidence", k, i)

BindingSucceeds(k) ==
  /\ step[k] = "binding" /\ ~Done(k)
  /\ Ended(k, Call("binding", k, 0), "succeeded", {Ev(EvidenceCall(k, 1), "started")})
  /\ step' = [step EXCEPT ![k] = "evidence"]
  /\ \E b \in Bound : (limit = 0 \/ Len(b) <= limit) /\ found' = [found EXCEPT ![k] = b]
  /\ work' = [work EXCEPT ![k].attempts = Append(@, Call("binding", k, 0))]

BindingFails(k) == step[k] = "binding" /\ PipelineFails(k, Call("binding", k, 0))

\* The candidate whose evidence call is under way.
Place(k) == Len(work[k].cands) + 1

EvidenceSucceeds(k) ==
  /\ step[k] = "evidence" /\ ~Done(k)
  /\ LET i == Place(k)
         last == i = Len(found[k]) IN
       /\ Ended(k, EvidenceCall(k, i), "succeeded",
                IF last THEN {} ELSE {Ev(EvidenceCall(k, i + 1), "started")})
       /\ step' = [step EXCEPT ![k] = IF last THEN "finishing" ELSE "evidence"]
       /\ work' = [work EXCEPT
            ![k].cands = Append(@, [id |-> found[k][i], owner |-> k, nth |-> i]),
            ![k].plans = Append(@, [index |-> i, owner |-> k, nth |-> i]),
            ![k].attempts = Append(@, EvidenceCall(k, i))]
  /\ UNCHANGED found

\* One candidate without evidence fails the pipeline with the others in it.
EvidenceFails(k) == step[k] = "evidence" /\ PipelineFails(k, EvidenceCall(k, Place(k)))

\* The results appended as the pipelines finish.
Mut_Finish(k) ==
  /\ step[k] = "finishing"
  /\ step' = [step EXCEPT ![k] = "done"]
  /\ results' = [results EXCEPT ![Cardinality({j \in Pipelines : step[j] = "done"}) + 1] = work[k]]
  /\ sem' = sem - 1 /\ wg' = wg - 1
  /\ UNCHANGED <<pc, ctxDone, limit, plans, next, expired, found, work, events, attempts, answer>>

\* The goroutine's end: its slot, the token, wg.Done.
Finish(k) ==
  /\ step[k] = "finishing"
  /\ step' = [step EXCEPT ![k] = "done"]
  /\ results' = [results EXCEPT ![k] = work[k]]
  /\ sem' = sem - 1 /\ wg' = wg - 1
  /\ UNCHANGED <<pc, ctxDone, limit, plans, next, expired, found, work, events, attempts, answer>>

----------------------------------------------------------------------------
(* Merge and selection *)

\* The candidate index is left as it is in its pipeline.
Mut_AppendPipeline(result, pipeline) ==
  [cands |-> result.cands \o pipeline.cands, plans |-> result.plans \o pipeline.plans]

\* appendPipeline: the plans' indexes move by the candidates before them.
AppendPipeline(result, pipeline) ==
  LET offset == Len(result.cands) IN
  [cands |-> result.cands \o pipeline.cands,
   plans |-> result.plans \o [i \in DOMAIN pipeline.plans |->
                                [pipeline.plans[i] EXCEPT !.index = @ + offset]]]

\* The slots merged one by one, in the order of the plans.
MergedUpTo[n \in 0..MaxPlans] ==
  IF n = 0 THEN [cands |-> <<>>, plans |-> <<>>]
  ELSE IF results[n].err THEN MergedUpTo[n - 1]
  ELSE AppendPipeline(MergedUpTo[n - 1], results[n])

MergedPipelines == MergedUpTo[plans]

AttemptsUpTo[n \in 0..MaxPlans] ==
  IF n = 0 THEN attempts ELSE AttemptsUpTo[n - 1] \o results[n].attempts

\* The attempts of the pipelines that made a result, only.
Mut_AllAttempts ==
  FoldLeft(LAMBDA as, p : IF p.err THEN as ELSE as \o p.attempts,
           attempts, SubSeq(results, 1, plans))

AllAttempts == AttemptsUpTo[plans]

PlansOf(merged, i) == {p \in ToSet(merged.plans) : p.index = i}

\* A plan out of range, two for one candidate, or one of ours without any.
SelectRefuses(merged) ==
  \/ \E p \in ToSet(merged.plans) : p.index \notin DOMAIN merged.cands
  \/ \E i, j \in DOMAIN merged.plans : i # j /\ merged.plans[i].index = merged.plans[j].index
  \/ \E i \in DOMAIN merged.cands : merged.cands[i].id \in Own /\ PlansOf(merged, i) = {}

\* One candidate: of the requested provider, the first of its capability (equal
\* executions are of one capability), within the limit; its plan is reindexed.
Keep(merged, selected, i) ==
  LET c == merged.cands[i] IN
  IF \/ c.id \notin Own
     \/ \E s \in ToSet(selected.cands) : CapOf[s.id] = CapOf[c.id]
     \/ limit > 0 /\ Len(selected.cands) >= limit
  THEN selected
  ELSE [cands |-> Append(selected.cands, c),
        plans |-> Append(selected.plans,
          [(CHOOSE p \in PlansOf(merged, i) : TRUE)
             EXCEPT !.index = Len(selected.cands) + 1])]

\* selectResult: what is kept of the first candidates, however many.
Selection(merged) ==
  LET kept[i \in 0..Len(merged.cands)] ==
        IF i = 0 THEN [cands |-> <<>>, plans |-> <<>>] ELSE Keep(merged, kept[i - 1], i)
  IN kept

Select(merged) == Selection(merged)[Len(merged.cands)]

\* wg.Wait, the merge and the selection.  Neither asks for the context again,
\* and a selection that keeps nothing is no error.
Merge ==
  /\ pc = "pipelines" /\ next > plans /\ wg = 0
  /\ pc' = "returned"
  /\ LET merged == MergedPipelines
         code == IF merged.cands = <<>> THEN "no_candidates"
                 ELSE IF SelectRefuses(merged) THEN "select_failed" ELSE "ok"
         result == IF code = "ok" THEN Select(merged) ELSE merged
     IN answer' = Answer(code, result.cands, result.plans, AllAttempts)
  /\ UNCHANGED <<ctxDone, control, pipes, results, events, attempts>>

----------------------------------------------------------------------------
(* Time *)

Expire ==
  /\ pc # "returned" /\ ~ctxDone
  /\ ctxDone' = TRUE
  /\ UNCHANGED <<pc, control, pipes, results, events, attempts, answer>>

ExpirePipeline(k) ==
  /\ step[k] \in {"binding", "evidence"} /\ ~expired[k]
  /\ expired' = [expired EXCEPT ![k] = TRUE]
  /\ UNCHANGED <<pc, ctxDone, control, step, found, work, results, events, attempts, answer>>

Main ==
  \/ Begin \/ SurfaceSucceeds \/ CapabilitySucceeds
  \/ StageFails(Surface) \/ StageFails(Capability)
  \/ Dispatch \/ Skip \/ Merge

Pipeline(k) ==
  \/ BindingSucceeds(k) \/ BindingFails(k)
  \/ EvidenceSucceeds(k) \/ EvidenceFails(k) \/ Finish(k)

Next == Main \/ Expire \/ \E k \in Pipelines : Pipeline(k) \/ ExpirePipeline(k)

Spec == Init /\ [][Next]_vars

\* Goroutines are scheduled, and every model call ends: it has a deadline.
FairSpec == Spec /\ WF_vars(Main) /\ \A k \in Pipelines : WF_vars(Pipeline(k))

----------------------------------------------------------------------------
(* Properties *)

Busy == {k \in Pipelines : step[k] \in {"binding", "evidence", "finishing"}}

\* Never more than Concurrency pipelines have model calls out at once, however
\* the tokens travel between the loop, the goroutines and the deadline.
WithinConcurrency == Cardinality(Busy) <= Concurrency

\* When Run reads the slots no goroutine can still write one, and a planned
\* capability without a goroutine has its error there (wg.Wait, results[index]).
NoneOutlivesRun ==
  pc = "returned" =>
    /\ Busy = {}
    /\ \A k \in 1..plans : step[k] = "none" => results[k].err

FailedCall(k) == \E e \in events : e.call.cap = k /\ e.status = "failed"
Before(f, g) == f[1] < g[1] \/ (f[1] = g[1] /\ f[2] < g[2])
IdOf(f) == found[f[1]][f[2]]

\* The requested provider's candidates of the pipelines no call of which failed.
Sound ==
  {f \in UNION {{<<k, i>> : i \in DOMAIN found[k]} : k \in Pipelines} :
     ~FailedCall(f[1]) /\ IdOf(f) \in Own}

\* Of each capability the earliest, in the order of the plans and of the model.
Wanted ==
  LET sound == Sound
      firsts == {f \in sound :
                   \A g \in sound : Before(g, f) => CapOf[IdOf(g)] # CapOf[IdOf(f)]}
  IN {f \in firsts : limit = 0 \/ Cardinality({g \in firsts : Before(g, f)}) < limit}

\* In whatever order the pipelines finish, fail or time out, Run returns the
\* first candidate of each capability among the pipelines that did not fail, in
\* the order of the plans, and nothing of a failed one (results[index], the
\* merge, selectResult).
ReturnsWantedInOrder ==
  LET made == [i \in DOMAIN answer.cands |-> <<answer.cands[i].owner, answer.cands[i].nth>>] IN
  answer.code = "ok" =>
    /\ ToSet(made) = Wanted
    /\ \A i, j \in DOMAIN made : i < j => Before(made[i], made[j])

\* Every candidate returned comes with the probe plan made for it, at its own
\* index, through the offset of the merge and the reindexing; so the selection
\* never has anything to refuse.
ProbePlansMatch ==
  /\ answer.code # "select_failed"
  /\ answer.code = "ok" =>
       /\ Len(answer.plans) = Len(answer.cands)
       /\ \A i \in DOMAIN answer.cands :
            answer.plans[i] = [index |-> i, owner |-> answer.cands[i].owner,
                               nth |-> answer.cands[i].nth]

\* However Run ends, every step it announced was closed by one event, and the
\* diagnostics list exactly these steps, each once, those of failed pipelines too.
DiagnosticsMatchProgress ==
  pc = "returned" =>
    /\ \A e \in events : Cardinality({d \in events : d.call = e.call}) = 2
    /\ ToSet(answer.attempts) = {e.call : e \in events}
    /\ Len(answer.attempts) = Cardinality(ToSet(answer.attempts))

\* Run returns: no token and no count of the WaitGroup is left behind by a
\* pipeline that failed, timed out or was never started.
Returns == (pc = "surface") ~> (pc = "returned")

\* docs/cal-release-v1/cal-module-proposal.md:706 "overall timeout      -> whole
\* proposal fails".  The capabilities the timeout kept from starting are dropped,
\* and the proposal succeeds with what the others found.
OverallTimeoutFails ==
  pc = "returned" /\ (\E k \in 1..plans : step[k] = "none") => answer.code # "ok"
=============================================================================
