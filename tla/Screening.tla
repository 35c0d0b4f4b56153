----------------------------- MODULE Screening -----------------------------
(***************************************************************************)
(* internal/proposal: what becomes of the answers of a language model, of a *)
(* replay file or of the rules on help texts, on their way through the four *)
(* stages (surface, capability, binding, evidence), the selection, the      *)
(* targets and plans of probe, and the capabilities of promote.             *)
(*                                                                         *)
(* An answer is any sequence of raw items; "" is a text that is blank or    *)
(* left out.  Deadlines and the pipelines' interleaving are Proposal's, the *)
(* workdirs Probe's, the records Acquisition's: here the pipelines run in   *)
(* the order in which their results are merged.                             *)
(***************************************************************************)
EXTENDS Integers, FiniteSets, SequencesExt

CONSTANTS
  SurfaceAnswers, CapabilityAnswers, BindingAnswers, EvidenceAnswers, \* bounds
  ReplayFiles, Observations,  \* bounds: replay files, observed help texts
  NoAnswer,     \* the client fails, or the answer does not decode
  Provider,     \* the provider of the request
  Lower,        \* a name or capability id -> the same in lower case
  ValidIds,     \* the capability ids of the form subject.operation
  AllowedKinds, \* policy: the kinds of surfaces
  SkipNames,    \* policy: names, in lower case, of surfaces to skip
  Patterned,    \* policy: names that match a skip pattern
  SurfaceLimit, CandidateLimit  \* options: 0 is no limit

\* What answers are made of.  A list of checks is a list of whatever.
RawSurfaces == [id : STRING, kind : STRING, name : STRING, decision : STRING]
RawPlans == [id : STRING, description : STRING, sources : SUBSET STRING]
Candidates == [provider : STRING, capability : STRING, description : STRING,
               kind : STRING, args : STRING, stdout : STRING]
Materials == [index : Int, inputs : SUBSET STRING, fixtures : SUBSET STRING]
IsVerify(v) == v \in [level : Int, method : STRING, checks : Seq(Range(v.checks))]
IsPlan(p) == p \in [index : Int, verify : {p.verify}] /\ IsVerify(p.verify)
HelpTexts == [marked : STRING, command : BOOLEAN, blank : BOOLEAN,
              looks : ValidIds \cup {""}, args : STRING]

ASSUME ScreeningAssumption ==
  /\ SurfaceLimit \in Nat /\ CandidateLimit \in Nat
  /\ Provider \in STRING \ {""} /\ ValidIds \subseteq STRING \ {""}
  /\ SurfaceAnswers \subseteq Seq(RawSurfaces)
  /\ CapabilityAnswers \subseteq Seq(RawPlans)
  /\ BindingAnswers \subseteq [candidates : Seq(Candidates), materials : Seq(Materials)]
  /\ \A v \in EvidenceAnswers : IsVerify(v)
  /\ \A file \in ReplayFiles :
       /\ file.candidates \in Seq(Candidates) /\ file.plans \in Seq(Range(file.plans))
       /\ \A p \in Range(file.plans) : IsPlan(p)
  /\ Observations \subseteq Seq(HelpTexts)

VARIABLES
  pc,       \* the stage that is next, or how it ended
  source,   \* "live", "replay" or "rules"
  raw,      \* what surface, capability, replay, rules or selection was given
  surfaces, \* the kept surfaces
  plans,    \* the capability plans
  at,       \* the plan whose pipeline runs
  drafts,   \* its candidates with their material, without evidence yet
  pipeline, \* its candidates with their plans
  result,   \* [candidates, plans]: merged, then selected
  probed,   \* the places of those that have passed probe and promote has not met
  promoted  \* the capabilities saved so far

vars == <<pc, source, raw, surfaces, plans, at, drafts, pipeline,
          result, probed, promoted>>

Within(limit, kept) == limit = 0 \/ Len(kept) < limit

\* A stage's loop over N items: from what it has of those before, Turn makes
\* what it has of one more.
Loop(N, start, Turn(_, _)) ==
  LET had[n \in 0..N] == IF n = 0 THEN start ELSE Turn(had[n - 1], n)
  IN had[N]

\* Those of the items that are at these places.
Only(items, places) ==
  Loop(Len(items), <<>>, LAMBDA kept, n :
         IF n \in places THEN Append(kept, items[n]) ELSE kept)

\* Each item is judged in the light of those kept before.
Sift(items, Keeps(_, _)) ==
  Loop(Len(items), <<>>, LAMBDA kept, n :
         IF Keeps(items[n], kept) THEN Append(kept, items[n]) ELSE kept)

Init ==
  /\ source \in {"live", "replay", "rules"}
  /\ pc = IF source = "live" THEN "surface" ELSE source
  /\ raw = <<>> /\ surfaces = <<>> /\ plans = <<>> /\ at = 1
  /\ drafts = <<>> /\ pipeline = <<>>
  /\ result = [candidates |-> <<>>, plans |-> <<>>]
  /\ probed = {} /\ promoted = {}

Fails(answer) ==
  /\ pc' = "failed" /\ raw' = answer
  /\ UNCHANGED <<source, surfaces, plans, at, drafts, pipeline, result, probed, promoted>>

----------------------------------------------------------------------------
(* Surface *)

\* normalizeItem: a kind left out is a command, a decision left out is to keep.
Normalized(item) ==
  [item EXCEPT !.kind = IF @ = "" THEN "command" ELSE @,
               !.decision = IF @ \in {"skip", "defer"} THEN @ ELSE "keep"]

\* Names are compared as they are spelled.
Mut_KeepsSurface(item, kept) ==
  /\ item.id # "" /\ item.name # "" /\ item.decision = "keep"
  /\ item.kind \in AllowedKinds
  /\ Lower[item.name] \notin SkipNames /\ item.name \notin Patterned
  /\ ~\E k \in Range(kept) : k.kind = item.kind /\ k.name = item.name
  /\ Within(SurfaceLimit, kept)

KeepsSurface(item, kept) ==
  /\ item.id # "" /\ item.name # "" /\ item.decision = "keep"
  /\ item.kind \in AllowedKinds
  /\ Lower[item.name] \notin SkipNames /\ item.name \notin Patterned
  /\ ~\E k \in Range(kept) : k.kind = item.kind /\ Lower[k.name] = Lower[item.name]
  /\ Within(SurfaceLimit, kept)

Surface(answer) ==
  /\ pc = "surface"
  /\ \/ answer = NoAnswer /\ Fails(<<>>)
     \/ /\ answer # NoAnswer
        /\ LET items == [n \in DOMAIN answer |-> Normalized(answer[n])]
               kept == Sift(items, KeepsSurface)
           IN \/ kept = <<>> /\ Fails(items)
              \/ /\ kept # <<>>
                 /\ pc' = "capability" /\ raw' = items /\ surfaces' = kept
                 /\ UNCHANGED <<source, plans, at, drafts, pipeline, result, probed, promoted>>

----------------------------------------------------------------------------
(* Capability *)

SurfaceIds == {s.id : s \in Range(surfaces)}

Usable(plan) ==
  /\ Lower[plan.id] \in ValidIds
  /\ plan.sources # {} /\ plan.sources \subseteq SurfaceIds

\* The plan of this id rests on these surfaces too.
Joining(kept, id, sources) ==
  [n \in DOMAIN kept |->
     IF kept[n].id = id THEN [kept[n] EXCEPT !.sources = @ \cup sources] ELSE kept[n]]

\* The limit comes before the merge.
Mut_PlanNext(kept, plan) ==
  LET id == Lower[plan.id]
      same == {n \in DOMAIN kept : kept[n].id = id}
  IN IF ~Usable(plan) \/ ~Within(CandidateLimit, kept) THEN kept
     ELSE IF same = {} THEN Append(kept, [plan EXCEPT !.id = id])
     ELSE Joining(kept, id, plan.sources)

\* One raw plan: those of one id are merged.
PlanNext(kept, plan) ==
  LET id == Lower[plan.id]
      same == {n \in DOMAIN kept : kept[n].id = id}
  IN IF ~Usable(plan) \/ (same = {} /\ ~Within(CandidateLimit, kept)) THEN kept
     ELSE IF same = {} THEN Append(kept, [plan EXCEPT !.id = id])
     ELSE Joining(kept, id, plan.sources)

Planned(answer) ==
  Loop(Len(answer), <<>>, LAMBDA kept, n : PlanNext(kept, answer[n]))

Capability(answer) ==
  /\ pc = "capability"
  /\ \/ answer = NoAnswer /\ Fails(<<>>)
     \/ /\ answer # NoAnswer
        /\ LET kept == Planned(answer)
           IN \/ kept = <<>> /\ Fails(answer)
              \/ /\ kept # <<>>
                 /\ pc' = "binding" /\ raw' = answer /\ plans' = kept
                 /\ UNCHANGED <<source, surfaces, at, drafts, pipeline, result, probed, promoted>>

----------------------------------------------------------------------------
(* Binding and evidence: the pipeline of one plan *)

\* bindingSurfacesForPlan.
BindingSurfaces(plan) ==
  Only(surfaces, {n \in DOMAIN surfaces : surfaces[n].id \in plan.sources})

\* normalizeCandidate fills in what the answer leaves out.
Filled(c) ==
  [c EXCEPT !.provider = IF @ = "" THEN Provider ELSE @,
            !.capability = IF @ = "" THEN plans[at].id ELSE @,
            !.description = IF @ = "" THEN plans[at].description ELSE @]

\* materialIndex: the first of each index.
MaterialOf(materials, index) ==
  Only(materials, {n \in DOMAIN materials : materials[n].index = index})

InputNames == {"source", "input", "stdin"}

\* The provider, the capability and the canonical execution.
Identity(c) == <<c.provider, c.capability, c.kind, c.args, c.stdout>>

KeepsDraft(draft, kept) ==
  LET c == draft.candidate
  IN /\ c.kind # "" /\ draft.material # <<>>
     /\ c.stdout # "" => c.stdout \in draft.material[1].inputs \ InputNames
     /\ ~\E k \in Range(kept) : Identity(k.candidate) = Identity(c)
     /\ Within(CandidateLimit, kept)

\* The pipeline ends; its results are merged unless it has failed.
EndPipeline(found) ==
  /\ LET offset == Len(result.candidates)
     IN result' = [candidates |-> result.candidates \o [n \in DOMAIN found |-> found[n].candidate],
                   plans |-> result.plans \o
                     [n \in DOMAIN found |-> [found[n].plan EXCEPT !.index = offset + n]]]
  /\ at' = at + 1 /\ drafts' = <<>> /\ pipeline' = <<>>
  /\ pc' = IF at < Len(plans) THEN "binding" ELSE "select"

Binding(answer) ==
  /\ pc = "binding"
  /\ raw' = <<>> /\ UNCHANGED <<source, surfaces, plans, probed, promoted>>
  /\ LET raws == [n \in DOMAIN answer.candidates |->
                   [candidate |-> Filled(answer.candidates[n]),
                    material |-> MaterialOf(answer.materials, n)]]
         kept == IF answer = NoAnswer THEN <<>> ELSE Sift(raws, KeepsDraft)
     IN IF kept = <<>> THEN EndPipeline(<<>>)
        ELSE drafts' = kept /\ pc' = "evidence" /\ UNCHANGED <<at, pipeline, result>>

\* verifyPredicateRules: the parameters each predicate requires, and no other.
Params ==
  [equals |-> {"value"}, not_equals |-> {"value"}, exists |-> {}, non_empty |-> {},
   format |-> {"format"}, contains |-> {"value"}, contains_any |-> {"values"},
   regex |-> {"pattern"}, bytes_equal_transform |-> {"source", "transform"},
   hash_line_matches |-> {"source", "algorithm"},
   archive_contains_input |-> {"source", "format"},
   json_query_matches |-> {"source", "query"}, json_equivalent |-> {"source"},
   json_field_equals |-> {"query", "value"},
   json_field_matches_source |-> {"query", "source", "property"},
   text_transform_matches |-> {"source", "transform"},
   line_count_matches |-> {"source"}, text_filter_matches |-> {"source", "pattern"},
   delimited_column_matches |-> {"source", "delimiter", "column"}]

\* Parameters whose values are enumerated: "good" is one of them, or, for the
\* others, any text; "list" is a list of texts, "nil" and "empty" are no value.
Enumerated == {"format", "transform", "algorithm", "property"}

EvidenceKeeps(check, known) ==
  /\ check.type # "" /\ check.predicate \in DOMAIN Params
  /\ check.type = "file" => check.input \in known
  /\ DOMAIN check.params = Params[check.predicate]
  /\ \A p \in DOMAIN check.params :
       check.params[p] \notin {"nil", "empty"} /\ (p \in Enumerated => check.params[p] = "good")

\* checkStrength: what a check that holds shows of the process (1), the
\* artifact (2) or its meaning (3).
Strength(predicate) ==
  IF predicate \in {"equals", "not_equals", "exists"} THEN 1
  ELSE IF predicate \in {"non_empty", "format", "regex"} THEN 2 ELSE 3

Strengths(verify) == {Strength(verify.checks[n].predicate) : n \in DOMAIN verify.checks}

DeriveLevel(verify) ==
  IF verify.method = "contract" THEN 1
  ELSE IF verify.method # "execute" THEN verify.level
  ELSE Max({0} \cup Strengths(verify))

ChecksKept(checks, known) ==
  Only(checks, {n \in DOMAIN checks : EvidenceKeeps(checks[n], known)})

\* The level is derived before the checks are screened.
Mut_Verify(answer, known) ==
  LET named == [answer EXCEPT !.method = IF @ = "" THEN "execute" ELSE @]
  IN [named EXCEPT !.level = DeriveLevel(named), !.checks = ChecksKept(@, known)]

\* normalize of the evidence stage.
Verify(answer, known) ==
  LET kept == [answer EXCEPT
                 !.method = IF @ = "" THEN "execute" ELSE @,
                 !.checks = ChecksKept(@, known)]
  IN [kept EXCEPT !.level = DeriveLevel(kept)]

Evidence(answer) ==
  /\ pc = "evidence"
  /\ raw' = <<>> /\ UNCHANGED <<source, surfaces, plans, probed, promoted>>
  /\ LET draft == drafts[Len(pipeline) + 1]
         material == draft.material[1]
         verify == Verify(answer, material.inputs \cup material.fixtures)
         found == Append(pipeline,
                    [candidate |-> draft.candidate,
                     plan |-> [index |-> Len(pipeline) + 1, verify |-> verify]])
     IN IF answer = NoAnswer \/ (verify.method = "execute" /\ verify.checks = <<>>)
        THEN EndPipeline(<<>>)
        ELSE IF Len(found) = Len(drafts) THEN EndPipeline(found)
        ELSE pipeline' = found /\ UNCHANGED <<pc, at, drafts, result>>

----------------------------------------------------------------------------
(* Replay files and rules *)

Kinds == {"cli", "menu", "ax_action", "url_open"}

Mut_Readable(file) ==
  /\ file.schema /\ file.candidates # <<>> /\ file.plans # <<>>
  /\ \A p \in Range(file.plans) :
       /\ p.index \in DOMAIN file.candidates
       /\ p.verify.level \in 1..3 /\ p.verify.method \in {"contract", "execute"}
       /\ p.verify.method = "execute" => p.verify.checks # <<>>

\* validateFile, normalizeCandidate and validateProbePlan of replay.
Readable(file) ==
  /\ file.schema /\ file.candidates # <<>> /\ file.plans # <<>>
  /\ \A c \in Range(file.candidates) :
       c.capability \in ValidIds /\ c.description # "" /\ c.kind \in Kinds
  /\ \A p \in Range(file.plans) :
       /\ p.index \in DOMAIN file.candidates
       /\ p.verify.level \in 1..3 /\ p.verify.method \in {"contract", "execute"}
       /\ p.verify.method = "execute" => p.verify.checks # <<>>

Replay(file) ==
  /\ pc = "replay"
  /\ \/ ~Readable(file) /\ Fails(file)
     \/ /\ Readable(file)
        /\ result' = [candidates |-> [n \in DOMAIN file.candidates |->
                                       [file.candidates[n] EXCEPT !.provider = Provider]],
                      plans |-> file.plans]
        /\ pc' = "select" /\ raw' = file
        /\ UNCHANGED <<source, surfaces, plans, at, drafts, pipeline, probed, promoted>>

\* candidateFromHelp: the capability a help text shows, "" for none; a marker
\* for a capability comes before what the text looks like.
Shown(text) ==
  IF text.marked # "" THEN (IF text.command THEN text.marked ELSE "")
  ELSE text.looks

\* The command's marker is empty, or the marked id is invalid.
Misleads(text) ==
  text.marked # "" /\ text.command /\ (text.blank \/ text.marked \notin ValidIds)

RulesCandidate(text) ==
  [provider |-> Provider, capability |-> Shown(text), description |-> "rules",
   kind |-> "cli", args |-> text.args, stdout |-> ""]
RulesVerify ==
  [level |-> 2, method |-> "execute",
   checks |-> <<[type |-> "file", input |-> "target", predicate |-> "format",
                 params |-> [format |-> "good"]]>>]

Rules(texts) ==
  /\ pc = "rules"
  /\ LET shown == Only(texts, {n \in DOMAIN texts : Shown(texts[n]) # ""})
     IN \/ /\ (\E text \in Range(texts) : Misleads(text)) \/ shown = <<>>
           /\ Fails(texts)
        \/ /\ \A text \in Range(texts) : ~Misleads(text)
           /\ shown # <<>>
           /\ result' = [candidates |-> [n \in DOMAIN shown |-> RulesCandidate(shown[n])],
                         plans |-> [n \in DOMAIN shown |-> [index |-> n, verify |-> RulesVerify]]]
           /\ pc' = "select" /\ raw' = texts
           /\ UNCHANGED <<source, surfaces, plans, at, drafts, pipeline, probed, promoted>>

----------------------------------------------------------------------------
(* selectResult *)

PlanFor(n) == {m \in DOMAIN result.plans : result.plans[m].index = n}

\* The plans keep the indices they had.
Mut_SelectNext(acc, n) ==
  LET c == result.candidates[n]
  IN IF acc.ended \/ c.provider # Provider THEN acc
     ELSE IF PlanFor(n) = {} THEN [acc EXCEPT !.ended = TRUE, !.error = TRUE]
     ELSE IF \E k \in Range(acc.candidates) : k.capability = c.capability THEN acc
     ELSE IF source = "live" /\ ~Within(CandidateLimit, acc.candidates)
          THEN [acc EXCEPT !.ended = TRUE]
     ELSE LET m == CHOOSE m \in PlanFor(n) : TRUE
          IN [acc EXCEPT !.candidates = Append(@, c), !.plans = Append(@, result.plans[m])]

\* One candidate; an equal execution is also of an equal capability.
SelectNext(acc, n) ==
  LET c == result.candidates[n]
  IN IF acc.ended \/ c.provider # Provider THEN acc
     ELSE IF PlanFor(n) = {} THEN [acc EXCEPT !.ended = TRUE, !.error = TRUE]
     ELSE IF \E k \in Range(acc.candidates) : k.capability = c.capability THEN acc
     ELSE IF source = "live" /\ ~Within(CandidateLimit, acc.candidates)
          THEN [acc EXCEPT !.ended = TRUE]
     ELSE LET m == CHOOSE m \in PlanFor(n) : TRUE
          IN [candidates |-> Append(acc.candidates, c),
              plans |-> Append(acc.plans, [result.plans[m] EXCEPT !.index = Len(acc.candidates) + 1]),
              ended |-> FALSE, error |-> FALSE]

Misfit == \E n \in DOMAIN result.plans :
            \/ result.plans[n].index \notin DOMAIN result.candidates
            \/ PlanFor(result.plans[n].index) # {n}

Selected ==
  Loop(Len(result.candidates),
       [candidates |-> <<>>, plans |-> <<>>, ended |-> FALSE, error |-> FALSE], SelectNext)

Select ==
  /\ pc = "select"
  /\ LET kept == [candidates |-> Selected.candidates, plans |-> Selected.plans]
     IN \/ /\ \/ result.candidates = <<>> \/ Misfit \/ Selected.error
              \/ source # "live" /\ kept.candidates = <<>>
           /\ Fails(raw)
        \/ /\ result.candidates # <<>> /\ ~Misfit /\ ~Selected.error
           /\ source # "live" => kept.candidates # <<>>
           /\ pc' = "probe" /\ raw' = result /\ result' = kept
           /\ UNCHANGED <<source, surfaces, plans, at, drafts, pipeline,
                          probed, promoted>>

----------------------------------------------------------------------------
(* probe and promote *)

\* What the checker registers for each predicate.
Subjects(predicate) ==
  IF predicate \in {"equals", "not_equals"} THEN {"stdout", "stderr", "exit_code"}
  ELSE IF predicate \in {"exists", "format", "bytes_equal_transform",
                         "archive_contains_input", "text_transform_matches"}
  THEN {"file"} ELSE {"file", "stdout", "stderr"}

\* validateCheck and validateParams; a list that is not empty for "values".
ValidCheck(check) ==
  /\ check.type \in {"file", "stdout", "stderr", "exit_code"}
  /\ (check.type = "file") <=> (check.input # "")
  /\ check.predicate \in DOMAIN Params /\ check.type \in Subjects(check.predicate)
  /\ Params[check.predicate] \subseteq DOMAIN check.params
  /\ \A p \in Params[check.predicate] :
       /\ p = "values" => check.params[p] = "list"
       /\ p \in Enumerated => check.params[p] = "good"
       /\ check.predicate = "regex" => check.params[p] # "other"

ValidVerify(verify) ==
  \/ verify.method = "contract" /\ verify.level <= 1
  \/ /\ verify.method = "execute"
     /\ verify.level > 0 => verify.checks # <<>>
     /\ \A n \in DOMAIN verify.checks : ValidCheck(verify.checks[n])

\* buildTargets and validate of probe.
Fits ==
  /\ Len(result.plans) = Len(result.candidates)
  /\ \A n \in DOMAIN result.candidates : \E m \in PlanFor(n) : PlanFor(n) = {m}
  /\ \A n \in DOMAIN result.plans : result.plans[n].index \in DOMAIN result.candidates
VerifyOf(n) == result.plans[CHOOSE m \in PlanFor(n) : TRUE].verify

\* The candidates whose probe may pass; what fails is Probe's and the program's.
MayPass(n) ==
  /\ ValidVerify(VerifyOf(n)) /\ VerifyOf(n).level > 0
  /\ VerifyOf(n).method = "execute" => result.candidates[n].kind = "cli"

Probe ==
  /\ pc = "probe"
  /\ pc' = IF Fits THEN "promote" ELSE "misfit"
  /\ probed' \in SUBSET {n \in DOMAIN result.candidates : Fits /\ MayPass(n)}
  /\ UNCHANGED <<source, raw, surfaces, plans, at, drafts, pipeline, result, promoted>>

\* promotedCapability, with ValidateCapability.
Rejected(c) ==
  c.provider = "" \/ c.capability \notin ValidIds \/ c.description = "" \/ c.kind \notin Kinds

\* Promote meets them in their order.
FirstProbed == CHOOSE n \in probed : \A m \in probed : n <= m

Promote ==
  /\ pc = "promote"
  /\ UNCHANGED <<source, raw, surfaces, plans, at, drafts, pipeline, result>>
  /\ IF probed = {} THEN pc' = "done" /\ UNCHANGED <<probed, promoted>>
     ELSE LET c == result.candidates[FirstProbed]
              verify == VerifyOf(FirstProbed)
          IN IF Rejected(c) THEN pc' = "rejected" /\ UNCHANGED <<probed, promoted>>
             ELSE /\ promoted' = promoted \cup {[capability |-> c.capability, verify |-> verify]}
                  /\ probed' = probed \ {FirstProbed} /\ UNCHANGED pc

Next ==
  \/ \E answer \in SurfaceAnswers \cup {NoAnswer} : Surface(answer)
  \/ \E answer \in CapabilityAnswers \cup {NoAnswer} : Capability(answer)
  \/ \E answer \in BindingAnswers \cup {NoAnswer} : Binding(answer)
  \/ \E answer \in EvidenceAnswers \cup {NoAnswer} : Evidence(answer)
  \/ \E file \in ReplayFiles : Replay(file)
  \/ \E texts \in Observations : Rules(texts)
  \/ Select \/ Probe \/ Promote

Spec == Init /\ [][Next]_vars

----------------------------------------------------------------------------
(* Properties *)

TypeOK ==
  /\ pc \in {"surface", "capability", "binding", "evidence", "replay", "rules", "select",
             "probe", "promote", "failed", "misfit", "rejected", "done"}
  /\ source \in {"live", "replay", "rules"}
  /\ at \in 1..(Len(plans) + 1)
  /\ pc = "evidence" => Len(pipeline) < Len(drafts) /\ at <= Len(plans)
  /\ probed \subseteq DOMAIN result.candidates
  /\ \A p \in promoted : p.capability \in ValidIds

Passes(item) ==
  /\ item.id # "" /\ item.name # "" /\ item.decision = "keep"
  /\ item.kind \in AllowedKinds /\ item.name \notin Patterned
  /\ Lower[item.name] \notin SkipNames
Twin(item, other) == item.kind = other.kind /\ Lower[item.name] = Lower[other.name]

\* The items that pass and have no twin before them, in what place each of them
\* is, and those within the limit.
Firsts(items) ==
  {n \in DOMAIN items :
     Passes(items[n]) /\ ~\E m \in 1..(n - 1) : Passes(items[m]) /\ Twin(items[m], items[n])}
Rank(items, n) == Cardinality({m \in Firsts(items) : m <= n})
Through(items) == {n \in Firsts(items) : SurfaceLimit = 0 \/ Rank(items, n) <= SurfaceLimit}

\* The kept surfaces are, in their order, the first of each kind and name that
\* the policy and the answer let through, up to the limit, however the answer
\* repeats, respells or reorders them.
SurfacesPoliced ==
  pc = "capability" =>
    /\ Len(surfaces) = Cardinality(Through(raw))
    /\ \A n \in Through(raw) : surfaces[Rank(raw, n)] = raw[n]

\* A plan rests on kept surfaces only, on all that the answer cites for its
\* capability, and its binding prompt is never without a surface.
PlansGrounded ==
  /\ \A m, n \in DOMAIN plans : plans[m].id = plans[n].id => m = n
  /\ \A n \in DOMAIN plans : BindingSurfaces(plans[n]) # <<>> /\ plans[n].sources \subseteq SurfaceIds
  /\ pc = "binding" /\ at = 1 =>
       \A n \in DOMAIN plans :
         plans[n].sources = UNION {p.sources : p \in
           {q \in Range(raw) : Lower[q.id] = plans[n].id /\ q.sources \subseteq SurfaceIds}}

\* The candidates of the request's provider for a capability, by their places.
Offering(given, cap) ==
  {m \in DOMAIN given.candidates : /\ given.candidates[m].provider = Provider
                                   /\ given.candidates[m].capability = cap}

\* What probe is given, from whatever source: each capability once, of the
\* request's provider, each candidate with the plan that was made for it, the
\* first one merged for its capability; no probe plan is a structural error.
SelectionFits ==
  pc = "probe" =>
    LET cs == result.candidates
    IN /\ Fits
       /\ \A m, n \in DOMAIN cs : cs[m].capability = cs[n].capability => m = n
       /\ \A n \in DOMAIN cs :
            LET first == Min(Offering(raw, cs[n].capability))
            IN /\ cs[n] = raw.candidates[first]
               /\ \E p \in Range(raw.plans) : p.index = first /\ p.verify = VerifyOf(n)
       /\ cs = <<>> => \A c \in Range(raw.candidates) : c.provider # Provider

\* A promoted level is earned by the checks that were kept, whatever level the
\* model claims, and every one of them is a check that the checker can run.
LevelEarned ==
  \A p \in promoted :
    LET v == p.verify
    IN /\ v.method = "contract" => v.level = 1
       /\ v.method = "execute" => v.checks # <<>> /\ \A n \in DOMAIN v.checks : ValidCheck(v.checks[n])
       /\ v.method = "execute" /\ source # "replay" =>
            v.level \in Strengths(v) /\ \A s \in Strengths(v) : s <= v.level

\* Promote turns down what a probe has passed, and with it the acquisition,
\* only for what binding takes over unchecked: a capability id that is not the
\* plan's, a description that nobody gave, a kind of execution nobody knows.
RejectedOnlyUnchecked ==
  pc = "rejected" =>
    LET c == result.candidates[FirstProbed]
    IN /\ source = "live"
       /\ \/ \A n \in DOMAIN plans : c.capability # plans[n].id
          \/ c.description = "" /\ \E n \in DOMAIN plans : plans[n].description = ""
          \/ c.kind \notin Kinds /\ VerifyOf(FirstProbed).method = "contract"

\* "The candidate keeps the plan's capability id"
\* (docs/cal-release-v1/cal-module-proposal.md:906).
KeepsPlanId ==
  \A n \in DOMAIN drafts : drafts[n].candidate.capability = plans[at].id
=============================================================================
