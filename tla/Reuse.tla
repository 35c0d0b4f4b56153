------------------------------- MODULE Reuse -------------------------------
(***************************************************************************)
(* Reuse of what was promoted: internal/use (an intent: select a binding,   *)
(* plan its inputs, run it) and internal/run (a capability: resolve,        *)
(* execute, check, record), several calls at once, while promotions save    *)
(* capabilities they read before and each call may be canceled anywhere.    *)
(*                                                                         *)
(* A Get, a Save and the reading of one record of a List are single steps   *)
(* (RecordDir).  Ids are numbers, 0 for one that is not given; a binding's  *)
(* id is a hash of its execution, so what that requires goes with the id.   *)
(* Validation of a request and progress events are left out; so is a        *)
(* provider that is not found, for nothing takes one from the store, and    *)
(* the death of the daemon, which ends all its calls.                       *)
(***************************************************************************)
EXTENDS Naturals, Sequences, FiniteSets, SequencesExt

CONSTANTS
  Calls,         \* use and run requests
  Promoters,     \* promotions, one target each
  Asks,          \* bound: what the calls may ask, [Calls -> request] each
  Capabilities,
  Bindings,
  CapOf,         \* [Bindings -> Capabilities]
  ProviderOf,    \* [Bindings -> provider]
  Required,      \* [Bindings -> names of the inputs its execution refers to]
  Names,         \* names of inputs; "target" may be made up locally
  Seed,          \* [Capabilities -> the bindings promoted before]
  Promotable,    \* bound: the bindings promotions come up with
  TopK,          \* the shortlist a model is shown
  Instants,      \* bound: ticks of the clock
  NoCall

Promoted == [id : Bindings, level : 1..3, executable : BOOLEAN]

\* The bindings of one capability's record: its own, and none of them twice.
IsRecord(k, s) ==
  /\ s \in Seq(Promoted)
  /\ \A i, j \in DOMAIN s : CapOf[s[i].id] = k /\ (s[i].id = s[j].id => i = j)

ASSUME ReuseAssumption ==
  /\ NoCall \notin Calls /\ Instants \in Nat \ {0} /\ TopK \in Nat \ {0}
  /\ Capabilities \subseteq Nat \ {0} /\ Bindings \subseteq Nat \ {0}
  /\ CapOf \in [Bindings -> Capabilities] /\ ProviderOf \in [Bindings -> Nat \ {0}]
  /\ Required \in [Bindings -> SUBSET Names] /\ "target" \in Names
  /\ Promotable \subseteq Promoted
  /\ Seed \in [Capabilities -> Seq(Promoted)]
  /\ \A k \in Capabilities : IsRecord(k, Seed[k])
  /\ Asks \subseteq [Calls ->
       [use : BOOLEAN, intent : [Capabilities -> Nat], force : BOOLEAN,
        cap : Capabilities, binding : Bindings \cup {0}, provider : Nat,
        inputs : SUBSET Names, verify : BOOLEAN, min : 0..3]]

VARIABLES
  catalog,  \* [Capabilities -> the bindings of its record, none without a record]
  merge,    \* [Promoters -> the record it is about to save]
  llm,      \* a model is configured
  clock,    \* time.Now
  pc,       \* [Calls -> the step it is at]
  ask,      \* [Calls -> the request]
  unread,   \* [Calls -> the capabilities use has yet to list]
  listed,   \* [Calls -> the records it has listed]
  useAt,    \* [Calls -> the instant its use id was made of, 0 without]
  plan,     \* [Calls -> what run is asked]
  runAt,    \* [Calls -> the instant its run id was made of]
  got,      \* [Calls -> the record run read]
  bound,    \* [Calls -> the binding resolved from it]
  exit,     \* [Calls -> what became of the execution]
  record,   \* [Calls -> its run record]
  reply,    \* [Calls -> what it returned]
  artifact, \* [instant -> the call that wrote the target named after it]
  checked,  \* [Calls -> the call whose artifact its check has read]
  runs      \* [instant -> the call whose record is stored under that run id]

world == <<catalog, merge, llm>>
useVars == <<unread, listed, useAt, plan, runAt>>
runVars == <<got, bound, exit, record>>
files == <<artifact, checked, runs>>
vars == <<world, clock, pc, ask, useVars, runVars, reply, files>>

NoBinding == [id |-> 0, level |-> 0, executable |-> FALSE]
Plan(k, b, v, inputs) == [cap |-> k, binding |-> b, provider |-> v, inputs |-> inputs]
Run(status, verified, code) == [status |-> status, verified |-> verified, code |-> code]
Idle == [cap |-> 0, saved |-> <<>>, at |-> "idle"]

Working == {"resolve", "provider", "execute", "executing", "verify", "record"}
Codes == {"none", "capability_not_found", "binding_not_found", "invalid_run_input",
          "execution_failed", "verification_failed"}

TypeOK ==
  /\ DOMAIN catalog = Capabilities
  /\ \A k \in Capabilities : IsRecord(k, catalog[k])
  /\ \A p \in Promoters : merge[p].at = "read" => IsRecord(merge[p].cap, merge[p].saved)
  /\ llm \in BOOLEAN /\ clock \in 0..Instants
  /\ pc \in [Calls -> {"idle", "list", "returned"} \cup Working]
  /\ ask \in Asks
  /\ \A c \in Calls : \A k \in Capabilities : IsRecord(k, listed[c][k])
  /\ useAt \in [Calls -> 0..clock] /\ runAt \in [Calls -> 0..clock]
  /\ plan \in [Calls -> [cap : Capabilities, binding : Bindings \cup {0},
                         provider : Nat, inputs : SUBSET Names]]
  /\ \A c \in Calls : IsRecord(plan[c].cap, got[c])
  /\ bound \in [Calls -> Promoted \cup {NoBinding}]
  /\ exit \in [Calls -> {"none", "started", "zero", "nonzero", "error"}]
  /\ record \in [Calls -> [status : {"none", "succeeded", "failed"},
                           verified : BOOLEAN, code : Codes]]
  /\ reply \in [Calls -> {"none", "error", "unselected", "run"}]
  /\ artifact \in [1..Instants -> Calls \cup {NoCall}]
  /\ checked \in [Calls -> Calls \cup {NoCall}]
  /\ runs \in [1..Instants -> Calls \cup {NoCall}]

Init ==
  /\ catalog = Seed
  /\ merge = [p \in Promoters |-> Idle]
  /\ llm \in BOOLEAN /\ clock = 0
  /\ pc = [c \in Calls |-> "idle"]
  /\ ask \in Asks
  /\ unread = [c \in Calls |-> Capabilities]
  /\ listed = [c \in Calls |-> [k \in Capabilities |-> <<>>]]
  /\ useAt = [c \in Calls |-> 0] /\ runAt = [c \in Calls |-> 0]
  /\ plan = [c \in Calls |->
               Plan(ask[c].cap, ask[c].binding, ask[c].provider, ask[c].inputs)]
  /\ got = [c \in Calls |-> <<>>]
  /\ bound = [c \in Calls |-> NoBinding]
  /\ exit = [c \in Calls |-> "none"]
  /\ record = [c \in Calls |-> Run("none", FALSE, "none")]
  /\ reply = [c \in Calls |-> "none"]
  /\ artifact = [t \in 1..Instants |-> NoCall]
  /\ checked = [c \in Calls |-> NoCall]
  /\ runs = [t \in 1..Instants |-> NoCall]

----------------------------------------------------------------------------
(* Steps common to the calls *)

Step(c, from, to) == pc[c] = from /\ pc' = [pc EXCEPT ![c] = to]

Return(c, how) ==
  /\ pc' = [pc EXCEPT ![c] = "returned"]
  /\ reply' = [reply EXCEPT ![c] = how]

\* Two calls in one tick of the clock get one id.
Now == {clock, clock + 1} \cap 1..Instants

Begin(c) ==
  /\ Step(c, "idle", IF ask[c].use THEN "list" ELSE "resolve")
  /\ \E t \in Now :
       /\ clock' = t
       /\ IF ask[c].use
          THEN useAt' = [useAt EXCEPT ![c] = t] /\ UNCHANGED runAt
          ELSE runAt' = [runAt EXCEPT ![c] = t] /\ UNCHANGED useAt
  /\ UNCHANGED <<world, ask, unread, listed, plan, runVars, reply, files>>

----------------------------------------------------------------------------
(* use: select and plan *)

\* One file after the other, by name.
ListCapability(c) ==
  /\ pc[c] = "list"
  /\ \E k \in unread[c] :
       /\ \A l \in unread[c] : k <= l
       /\ unread' = [unread EXCEPT ![c] = @ \ {k}]
       /\ listed' = [listed EXCEPT ![c][k] = catalog[k]]
  /\ UNCHANGED <<world, clock, pc, ask, useAt, plan, runAt, runVars, reply, files>>

\* Of the capabilities or, afterwards, of the providers.
ListFails(c) ==
  /\ pc[c] = "list" /\ Return(c, "error")
  /\ UNCHANGED <<world, clock, ask, useVars, runVars, files>>

\* A use without a level asks for L2, a run for any.
MinLevel(c) == IF ask[c].use /\ ask[c].min = 0 THEN 2 ELSE ask[c].min

\* scoreBinding: what was promoted, is asked for, and matches the intent.
Candidates(c) ==
  {b \in UNION {ToSet(listed[c][k]) : k \in Capabilities} :
     /\ ask[c].provider \in {0, ProviderOf[b.id]}
     /\ b.level >= MinLevel(c)
     /\ ask[c].intent[CapOf[b.id]] > 0}

\* The hint of a provider counts the same for all, and is left out.
Score(c, b) == ask[c].intent[CapOf[b.id]] + Cardinality(Required[b.id] \cap ask[c].inputs)

Ahead(c, a, b) ==
  \/ Score(c, a) > Score(c, b)
  \/ Score(c, a) = Score(c, b) /\ CapOf[a.id] < CapOf[b.id]
  \/ Score(c, a) = Score(c, b) /\ CapOf[a.id] = CapOf[b.id] /\ a.id < b.id

First(c, a, S) == a \in S /\ \A b \in S \ {a} : Ahead(c, a, b)

\* shouldUseLLM, for a the first of the candidates: something is missing, or
\* another one comes close.
Unclear(c, a) ==
  \/ ~(Required[a.id] \subseteq ask[c].inputs \cup {"target"})
  \/ \E b \in Candidates(c) \ {a} : Score(c, a) <= Score(c, b) + 4

UsesLLM(c) ==
  llm /\ (ask[c].force \/ \E a \in Candidates(c) : First(c, a, Candidates(c)) /\ Unclear(c, a))

\* selectLocal looks at the second candidate only.
Ambiguous(c, a) ==
  \E b \in Candidates(c) :
    /\ First(c, b, Candidates(c) \ {a})
    /\ Score(c, a) = Score(c, b) /\ CapOf[a.id] # CapOf[b.id]

Selecting(c) == pc[c] = "list" /\ unread[c] = {}

\* plan.Run: a target is made up where one is required and none is given.
Planned(c, b, patch) == ask[c].inputs \cup patch \cup (Required[b.id] \cap {"target"})

\* The binding selected, its inputs planned: run.Run starts its record.
StartRun(c, b, patch) ==
  /\ Required[b.id] \subseteq Planned(c, b, patch)
  /\ Step(c, "list", "resolve")
  /\ plan' = [plan EXCEPT ![c] =
                Plan(CapOf[b.id], b.id, ProviderOf[b.id], Planned(c, b, patch))]
  /\ \E t \in Now : clock' = t /\ runAt' = [runAt EXCEPT ![c] = t]
  /\ UNCHANGED <<world, ask, unread, listed, useAt, runVars, reply, files>>

SelectLocal(c) ==
  /\ Selecting(c) /\ ~UsesLLM(c)
  /\ \E b \in Candidates(c) :
       First(c, b, Candidates(c)) /\ ~Ambiguous(c, b) /\ StartRun(c, b, {})

\* Any of the shortlist, with values for what it requires and was not given.
SelectLLM(c) ==
  /\ Selecting(c) /\ Candidates(c) # {} /\ UsesLLM(c)
  /\ \E b \in Candidates(c) :
       /\ Cardinality({a \in Candidates(c) : Ahead(c, a, b)}) < TopK
       /\ \E patch \in SUBSET (Required[b.id] \ (ask[c].inputs \cup {"target"})) :
            StartRun(c, b, patch)

\* Nothing matches, too much does, the model fails or answers amiss, an input
\* is missing, or the target's directory cannot be made: no run.
Unselected(c) ==
  /\ Selecting(c)
  /\ \/ Candidates(c) = {}
     \/ UsesLLM(c)
     \/ /\ ~UsesLLM(c)
        /\ \E b \in Candidates(c) :
             /\ First(c, b, Candidates(c))
             /\ \/ Ambiguous(c, b)
                \/ ~(Required[b.id] \subseteq Planned(c, b, {}))
                \/ "target" \in Required[b.id] \ ask[c].inputs
  /\ Return(c, "unselected")
  /\ UNCHANGED <<world, clock, ask, useVars, runVars, files>>

----------------------------------------------------------------------------
(* run: resolve, execute, check, record *)

\* fail and finishSucceeded: what is left is to save the record.
Finish(c, status, verified, code) ==
  /\ pc' = [pc EXCEPT ![c] = "record"]
  /\ record' = [record EXCEPT ![c] = Run(status, verified, code)]

Mut_Eligible(c, b) ==
  /\ plan[c].binding \in {0, b.id} /\ plan[c].provider \in {0, ProviderOf[b.id]}

\* The level asked for is outdone, not met.
Mut_EligibleAbove(c, b) ==
  /\ plan[c].binding \in {0, b.id} /\ plan[c].provider \in {0, ProviderOf[b.id]}
  /\ b.level > MinLevel(c)

Eligible(c, b) ==
  /\ plan[c].binding \in {0, b.id} /\ plan[c].provider \in {0, ProviderOf[b.id]}
  /\ b.level >= MinLevel(c)

Satisfied(c, b) == Required[b.id] \subseteq plan[c].inputs

\* resolve.Run: the first eligible binding whose inputs are there, or else the
\* first eligible one.
Resolves(c, s, i) ==
  /\ i \in DOMAIN s /\ Eligible(c, s[i])
  /\ \A j \in DOMAIN s : Eligible(c, s[j]) =>
       \/ ~Satisfied(c, s[i]) /\ ~Satisfied(c, s[j]) /\ i <= j
       \/ Satisfied(c, s[i]) /\ (Satisfied(c, s[j]) => i <= j)

GetCapability(c) ==
  /\ pc[c] = "resolve"
  /\ got' = [got EXCEPT ![c] = catalog[plan[c].cap]]
  /\ \/ /\ \E i \in DOMAIN got'[c] :
             Resolves(c, got'[c], i) /\ bound' = [bound EXCEPT ![c] = got'[c][i]]
        /\ pc' = [pc EXCEPT ![c] = "provider"]
        /\ UNCHANGED record
     \/ /\ ~ \E i \in DOMAIN got'[c] : Eligible(c, got'[c][i])
        /\ Finish(c, "failed", FALSE,
                  IF got'[c] = <<>> THEN "capability_not_found" ELSE "binding_not_found")
        /\ UNCHANGED bound
  /\ UNCHANGED <<world, clock, ask, useVars, exit, reply, files>>

\* An error of either read ends the call without a record.
GetFails(c) ==
  /\ pc[c] \in {"resolve", "provider"} /\ Return(c, "error")
  /\ UNCHANGED <<world, clock, ask, useVars, runVars, files>>

\* Nothing happens where an input is missing.
Mut_GetProvider(c) ==
  /\ pc[c] = "provider" /\ Satisfied(c, bound[c])
  /\ pc' = [pc EXCEPT ![c] = "execute"]
  /\ UNCHANGED <<world, clock, ask, useVars, runVars, reply, files>>

GetProvider(c) ==
  /\ pc[c] = "provider"
  /\ \/ /\ Satisfied(c, bound[c])
        /\ pc' = [pc EXCEPT ![c] = "execute"] /\ UNCHANGED record
     \/ /\ ~Satisfied(c, bound[c])
        /\ Finish(c, "failed", FALSE, "invalid_run_input")
  /\ UNCHANGED <<world, clock, ask, useVars, got, bound, exit, reply, files>>

Execute(c) ==
  /\ Step(c, "execute", "executing")
  /\ exit' = [exit EXCEPT ![c] = "started"]
  /\ UNCHANGED <<world, clock, ask, useVars, got, bound, record, reply, files>>

\* One target for all uses.
Mut_MadeUp(c) ==
  IF ask[c].use /\ "target" \in Required[bound[c].id] \ ask[c].inputs THEN 1 ELSE 0

\* The instant in the name of the target that was made up, 0 where none was.
MadeUp(c) ==
  IF ask[c].use /\ "target" \in Required[bound[c].id] \ ask[c].inputs THEN useAt[c] ELSE 0

Leaves(c) ==
  \/ MadeUp(c) # 0 /\ artifact' = [artifact EXCEPT ![MadeUp(c)] = c]
  \/ UNCHANGED artifact

\* The command ends; it may have left its target, or not.
Exits(c) ==
  /\ pc[c] = "executing"
  /\ \E code \in {"zero", "nonzero"} :
       /\ exit' = [exit EXCEPT ![c] = code]
       /\ IF ask[c].verify
          THEN pc' = [pc EXCEPT ![c] = "verify"] /\ UNCHANGED record
          ELSE IF code = "zero" THEN Finish(c, "succeeded", FALSE, "none")
               ELSE Finish(c, "failed", FALSE, "execution_failed")
  /\ Leaves(c)
  /\ UNCHANGED <<world, clock, ask, useVars, got, bound, reply, checked, runs>>

\* It cannot be started, as under a done context.
ExecuteRefused(c) ==
  /\ pc[c] = "execute" /\ Finish(c, "failed", FALSE, "execution_failed")
  /\ UNCHANGED <<world, clock, ask, useVars, got, bound, exit, reply, files>>

\* The error is returned before the record is saved.
Mut_ExecuteFails(c) ==
  /\ pc[c] = "executing" /\ Return(c, "run")
  /\ exit' = [exit EXCEPT ![c] = "error"]
  /\ UNCHANGED <<world, clock, ask, useVars, got, bound, record, files>>

\* It is killed with its context, or its output cannot be written where it is
\* wanted; it may have left its target, or not.
ExecuteFails(c) ==
  /\ pc[c] = "executing" /\ Finish(c, "failed", FALSE, "execution_failed")
  /\ exit' = [exit EXCEPT ![c] = "error"]
  /\ Leaves(c)
  /\ UNCHANGED <<world, clock, ask, useVars, got, bound, reply, checked, runs>>

\* check.Run passes: an execute spec, about the output or about a file there.
Check(c) ==
  /\ pc[c] = "verify" /\ bound[c].executable
  /\ \/ UNCHANGED checked
     \/ /\ MadeUp(c) # 0 /\ artifact[MadeUp(c)] # NoCall
        /\ checked' = [checked EXCEPT ![c] = artifact[MadeUp(c)]]
  /\ Finish(c, "succeeded", TRUE, "none")
  /\ UNCHANGED <<world, clock, ask, useVars, got, bound, exit, reply, artifact, runs>>

CheckFails(c) ==
  /\ pc[c] = "verify"
  /\ Finish(c, "failed", FALSE, "verification_failed")
  /\ UNCHANGED <<world, clock, ask, useVars, got, bound, exit, reply, files>>

\* SaveRun asks nobody whether the context is done.
Save(c) ==
  /\ pc[c] = "record" /\ Return(c, "run")
  /\ runs' = [runs EXCEPT ![runAt[c]] = c]
  /\ UNCHANGED <<world, clock, ask, useVars, runVars, artifact, checked>>

SaveFails(c) ==
  /\ pc[c] = "record" /\ Return(c, "error")
  /\ UNCHANGED <<world, clock, ask, useVars, runVars, files>>

----------------------------------------------------------------------------
(* promote: read, merge, save *)

\* mergeCapability: in the place of the binding with its id, or behind the others.
Merged(s, b) ==
  IF \E i \in DOMAIN s : s[i].id = b.id
  THEN [i \in DOMAIN s |-> IF s[i].id = b.id THEN b ELSE s[i]]
  ELSE Append(s, b)

ReadCapability(p) ==
  /\ merge[p].at = "idle"
  /\ \E b \in Promotable :
       merge' = [merge EXCEPT ![p] =
         [cap |-> CapOf[b.id], saved |-> Merged(catalog[CapOf[b.id]], b), at |-> "read"]]
  /\ UNCHANGED <<catalog, llm, clock, pc, ask, useVars, runVars, reply, files>>

SaveCapability(p) ==
  /\ merge[p].at = "read"
  /\ catalog' = [catalog EXCEPT ![merge[p].cap] = merge[p].saved]
  /\ merge' = [merge EXCEPT ![p] = [Idle EXCEPT !.at = "saved"]]
  /\ UNCHANGED <<llm, clock, pc, ask, useVars, runVars, reply, files>>

----------------------------------------------------------------------------

UseStep(c) == ListCapability(c) \/ SelectLocal(c) \/ SelectLLM(c) \/ Unselected(c)

RunStep(c) ==
  \/ GetCapability(c) \/ GetProvider(c) \/ Execute(c) \/ ExecuteRefused(c)
  \/ Check(c) \/ CheckFails(c) \/ Save(c)

StoreFails(c) == ListFails(c) \/ GetFails(c) \/ SaveFails(c)

Next ==
  \/ \E c \in Calls :
       \/ Begin(c) \/ UseStep(c) \/ RunStep(c)
       \/ Exits(c) \/ ExecuteFails(c) \/ StoreFails(c)
  \/ \E p \in Promoters : ReadCapability(p) \/ SaveCapability(p)

Spec == Init /\ [][Next]_vars

\* Calls are scheduled; a command need not end by itself, but is killed with
\* the context of its call, which the client's timeout ends (and is assumed to
\* leave no child that holds its output open).
FairSpec ==
  /\ Spec
  /\ \A c \in Calls : WF_vars(UseStep(c) \/ RunStep(c)) /\ WF_vars(ExecuteFails(c))

----------------------------------------------------------------------------
(* Properties *)

\* What runs was promoted when run read it, to the level the request asks for,
\* with all its inputs; and for an intent it is what use selected, of a record
\* that use listed with that level too (use.Run, resolve.Run, run.Run).
ExecutedAsAsked ==
  \A c \in Calls : exit[c] # "none" =>
    /\ bound[c] \in ToSet(got[c]) /\ bound[c].level >= MinLevel(c)
    /\ Required[bound[c].id] \subseteq plan[c].inputs
    /\ ask[c].provider \in {0, ProviderOf[bound[c].id]}
    /\ ask[c].use =>
         /\ ask[c].intent[plan[c].cap] > 0
         /\ \E b \in ToSet(listed[c][plan[c].cap]) :
              b.id = bound[c].id /\ b.level >= MinLevel(c)

\* The filters of select and plan and those of resolve and run agree: a
\* selection is turned down only where its capability has changed in between.
SelectionHolds ==
  \A c \in Calls :
    /\ ask[c].use
    /\ record[c].code \in {"capability_not_found", "binding_not_found", "invalid_run_input"}
    => got[c] # listed[c][plan[c].cap]

SameInstant(c, at) == \E d \in Calls \ {c} : at[d] = at[c]

\* The run a call answers with is in the store under its run id, finished as
\* the answer says, unless another run began in the same instant.
RunsAccounted ==
  \A c \in Calls : reply[c] = "run" =>
    \/ runs[runAt[c]] = c /\ record[c].status # "none"
    \/ SameInstant(c, runAt)

\* A run that says verified has succeeded, and the artifact its check read is
\* its own, unless another use began in the same instant.
VerifiedOwnArtifact ==
  \A c \in Calls : record[c].verified =>
    /\ record[c].status = "succeeded" /\ exit[c] \in {"zero", "nonzero"}
    /\ checked[c] \in {c, NoCall} \/ SameInstant(c, useAt)

\* Every use and every run returns.
Returns ==
  \A c \in Calls : (pc[c] \in {"list"} \cup Working) ~> pc[c] = "returned"
=============================================================================
