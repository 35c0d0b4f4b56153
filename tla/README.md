# Verification of CAL

CAL keeps a local catalog of *capabilities*: things installed command-line
programs can do, each with *bindings* that say how to invoke a program for it.
A daemon (`cald`) acquires capabilities by observing a program, asking a model
for candidates, probing them and promoting those that pass; a client (`calctl`)
talks to it over local HTTP. This directory holds TLA+ models of the parts where
something can go wrong between two steps, TLC configurations that check them on
small instances, and TLAPS proofs of what holds for every instance.

Paths below are relative to `src/`, which is the repository.

## 1. Inventory

| component | code | state it keeps | operations | what makes it hard |
|---|---|---|---|---|
| record store | `internal/store`, `pkg/jsonfile` | JSON files under the home directory, one per record | Save (temp file, rename), Get, List | no lock anywhere; readers and writers in any order; errors and death between any two system calls |
| acquisition | `internal/acquisition` | one `state` per Run, in memory; one trace record | Run, terminate | cancel between any two stages; what the event, the trace and the reply say must agree |
| probe | `internal/probe`, `internal/execute` | probe records; one workdir per candidate index | Run, runTarget | a cancel does not stop it; workdirs are shared between acquisitions; programs that outlive their kill |
| promote | `internal/promote` | none of its own; changes the catalog | Run, promoteTarget, mergeCapability | get, merge and save without a lock; errors after some targets were saved |
| trace log | `internal/tracelog` | the trace record | Start, Complete, Fail, Cancel | runs under a context that may be done |
| progress and SSE | `internal/progress`, `internal/httpserver/sse.go` | one bounded channel per request | Emit, streamResult | several senders, one reader that may leave; back-pressure from the socket |
| stream client | `internal/cli/client/stream.go` | the line being read | readStream, handleStreamEvent | ends only with an answer or an error |
| entry | `internal/entry` | provider records | Register, Load, List | none beyond the store's |
| observe | `internal/observe` | none | Observe | its commands have deadlines, what they leave behind has none |
| proposal | `internal/proposal` | results of concurrent pipelines | Run, runCapabilityPipelines | a semaphore, deadlines, partial results |
| proposal stages | `internal/proposal/{surface,capability,binding,evidence,rules,replay,policy}` | none | one Parse each, replay.Load, rules.Run | four filters in a row, each of which trusts the one before; levels and ids that a model claims |
| check | `internal/check` | none | Validate, Run and a predicate each | line ends, blank lines, missing cells, empty outputs: one off and a right program fails or a wrong one is promoted |
| run, use | `internal/run`, `internal/use` | run records | Run | reads the catalog twice while promotions change it |
| daemon | `internal/cald/daemon`, `internal/cald/endpoint`, `internal/httpserver/daemon_handler.go`, `internal/cli/daemon_start.go` | the endpoint record, a listening socket | Serve, Stop, Start | processes that start and stop at the same time over one endpoint file; requests in hand at a stop |
| the rest | model, contract, config, llm, logging, eval, cli | none, or sequential | | |

How they interact: an HTTP request becomes an app method in a goroutine
(`streamResult`), which runs an acquisition under a context derived from the
request's. `calctl` finds the daemon through `endpoint.json`, which the daemon
writes when it listens and removes when it leaves. The acquisition calls its stages one after the other; every stage
reads or writes the store through Get, List and Save, and emits progress events
into the request's channel. Two requests share nothing in memory: they meet in
the store and in the probe workdirs.

The properties each part needs:

* *store*: a record is always whole; a Save is all or nothing; a Get answers
  with one instant's record; a List answers with every record.
* *acquisition, promote, trace log*: only verified candidates enter the catalog;
  a trace tells what was promoted; a failure ends in a terminal trace; cancel is
  never reported as failure; nobody's bindings are lost; every acquisition ends.
* *streaming*: a connected client gets every event and one answer, in order; no
  goroutine stays behind when it leaves.
* *proposal*: no more model calls at a time than `Concurrency` pipelines; every
  goroutine ended before the merge; the result in the order of the plans, each
  candidate with its own probe plan, whatever finished first or failed.
* *daemon*: a daemon that leaves takes its record with it; nobody but another
  daemon takes it away before; a failed start leaves no process; every start
  returns, every acknowledged stop takes effect.
* *probe*: a probe rests on the files of its own acquisition; what it wrote is still
  there when it is checked; no workdir stays; every stage ends, with one record for
  each candidate in its place.
* *proposal stages*: what reaches the probe is grounded in what was observed, fits
  the request and claims no more than its checks earn; what is wrong is turned down
  before anything runs.
* *check*: a plan passes if and only if what its checks say is so; nothing printed is
  taken for something.
* *run, use*: the binding that runs is the one selected, still verified as far as
  was asked, or there is an error; an answered run is on record; a verified one was
  checked on its own artifact; every call returns.

## 2. Modules

| module | models | extends |
|---|---|---|
| `RecordStore` | what the store promises: abstract | |
| `RecordDir` | one directory, file by file | implements `RecordStore` |
| `RecordDirProofs` | its theorems | `RecordDir`, `TLAPS` |
| `Acquisition` | acquisition, probe, promote, trace log | |
| `AcquisitionProofs` | its theorems | `Acquisition`, `TLAPS` |
| `SseStream` | one streamed request, daemon and client | |
| `Proposal` | `proposal.Run`, its pipelines, merge and selection | |
| `ProposalProofs` | its theorems | `Proposal`, `TLAPS` |
| `Probe` | probe stages of several acquisitions in the workdirs they share | |
| `ProbeProofs` | its theorems | `Probe`, `TLAPS` |
| `Screening` | what becomes of a model's answers in the four stages, the selection, probe's plans and promote | |
| `ScreeningProofs` | its theorems | `Screening`, `FiniteSetTheorems`, `WellFoundedInduction`, `SequenceTheorems`, `TLAPS` |
| `Checks` | `check.Checker.Run` and every predicate, beside a reference definition of each | |
| `ChecksProofs` | its theorems | `Checks`, `FiniteSetTheorems`, `WellFoundedInduction`, `SequenceTheorems`, `TLAPS` |
| `DaemonHome` | what daemons and commands share, and what must hold of it | |
| `Daemon` | daemons, starts, stops and calls over one home | `DaemonHome` |
| `ServiceProofs` | the theorems of `SseStream` and `Daemon`, the two that serve requests | `SseStream`, `DaemonHome` with an instance of `Daemon`, `SequenceTheorems`, `TLAPS` |
| `Reuse` | `use.Run` and `run.Run` over a catalog that promotions change | |
| `ReuseProofs` | its theorems | `Reuse`, `TLAPS` |
| `MC...` | small instances for TLC | the module they name |

Operators whose name begins with `Mut_` are what a plausible bug would make of
the operator that follows them. Nothing refers to them in the specifications:
each stands for one way a property can be broken, and is put in the place of the
definition it precedes to see that the property notices.

### RecordDir

A file is known by the temp name it was created under, so that `dir` maps record
names and temp names alike to files, and an open file outlives its name. One
action per system call of `WriteAtomic` and per error return; the deferred
`os.Remove` is `ReturnSave`, on every path. A reader opens by name and decodes
what it has opened; `OpenMissing` is what `isNotExist` distinguishes, `ReadFails` any
other error of opening or reading, `ListFails` one of `os.ReadDir`. A List goes
through the names `os.ReadDir` returned, temp names first (their dot sorts
first). `Crash` takes every call under way with it and leaves the files.

`RecordStore` has one Save step, decided once, and one Get step, or `FailGet` if the
file system fails. The refinement maps a Save's commit to `Rename`, a Get's answer to
`Open` and `FailGet` to `ReadFails`: from `Open` on the file cannot change, though
reading it may fail. List is not in `RecordStore`, because it is not atomic.

### Acquisition

`pc[a]` is the stage, `ctxDone[a]` the request's context; a cancel sets it at
any moment and each stage reads it where the code does. An executed probe cannot
pass under a done context, a contract probe can; `promote.Run` looks at the
context before each target; `Complete` writes under it, `terminate` does not.
`StoreFaults` lets every store call fail. `catalog` is the set of bindings in all
capability records: `GetCapability` copies one capability's, `SaveCapability`
writes back what was copied with the new binding, `save` being the state in
between. A Save or a Get is one step because `RecordDir` implements
`RecordStore`; a List may fail on another's temp file because `RecordDir` shows
that too, and for good once a crash has left one (`litter`).

The commands of `observe` and `probe` are external. `Command` is one of them that
begins, and may leave a child (`held`) that keeps its output open: neither sets a
`WaitDelay`, so the stage waits until `ChildExits`, whatever its deadline or a cancel
has killed. One command stands for the up to five of an observation, and for the
program of one probe; a contract probe has none.

Of the progress events those of the stages are modelled, with the status each takes
from the context. The steps of a proposal emit events of their own, which call a
deadline that passes "canceled" (`internal/proposal/progress.go:80`) while the
acquisition goes on; they are left out, and `CanceledStaysCanceled` says nothing of them.

Data is abstracted to what the properties tell apart: a candidate is the id of
its binding, a probe whether it passed, a promotion the index of its candidate.
Proposals draw from a set of candidate lists given as a constant.

### SseStream

One channel of `BufferSize`, a socket of `WireSize`, emitters that each wait to
put one event at a time. `Enqueue` and `DropEvent` are the two cases of the
select, both possible when both are ready. `CtxDone` is the derived context: the
request's, or the handler's return. A pipeline's emitter may have a deadline of
its own. `Notice` is net/http seeing the connection closed, `Die` the process.
`LongEvents` are the events, progress or answer, with a line that the client's
`Scanner` has no room for (`ReadTooLong`): a progress event may carry a model's whole
answer (`raw_response`). `Unencodable` are those that `json.Marshal` refuses
(`WriteRefused`); the events the daemon sends today have none, but the code has the
branch. `ClientDecodesAnswer` says that such an event, or the death of the daemon, is
all that leaves a client that stays without its answer.

### Proposal

`Run`'s goroutine is at `pc`, each pipeline's at its `step`, with its slot in
`results`; `Dispatch` takes a token of the semaphore where the select does; `Skip` is the
select's other case. A pipeline calls the model for a binding and then for the
evidence of each candidate; every call answers or fails at will, and a failed one
leaves the attempts it made in its result. `Expire` is the overall deadline, seen
by every pipeline; `ExpirePipeline` is one pipeline's own. `Merge` is everything
`Run` does after the `WaitGroup`: `appendPipeline` moves the indexes of the probe
plans, `selectResult` drops other providers and capabilities already there, keeps as
many as are wanted, and moves them again.
A cancel and a failure of a step are one kind of end here. The check of the
request and the request's own policy precede all state and are left out; what a
stage makes of the text of an answer is in `Screening`. `Acquisition` has a proposal as one
step that yields any list or fails.

### Probe

`pc[p]` is the step of acquisition `p`'s probe stage, `at[p]` its candidate; the
workdir of the i-th candidate is `<work root>/probes/<i>` for every acquisition, so
`dirs` and `files` are shared. A file's content is who wrote it. `Prepare` is
`MkdirAll`, `FixtureDir` and `WriteFixture` the fixtures one by one, `Settle` the
plans that end without a program. The program is external: it reads its fixtures,
writes its output if they are all there (`Execute`), and may leave a child
(`held`) that keeps the pipes open, for which `cmd.Run` waits even after a kill
(`Kill`, `Reap`, `ChildExits`). An execution may be refused before it starts, for a
missing program, say (`ExecuteRefused`), and any error of one counts as a timeout if
its time is over when the error is looked at (`ExecutionReasons`), that of a program
that failed by itself too (`ExitTooLate`). The checks read one file a step, one that
fails included. `os.RemoveAll` is
`RemoveEntries` and then `RemoveDir`, which fails over what was added in between.
A child that is left behind writes no file: what such a child writes into a workdir
after its program has ended, when the workdir may be another's, is not modelled, and
the properties of `Probe` are claimed for programs without such children.
A cancel (`Cancel`) refuses or kills what executes and stops nothing else. `met`,
`left`, `wrote`, `seen` and `lost` are history: with them a property can say whose
files a verdict rests on. `Acquisition` has the stage as one step that passes or
fails each candidate.

### Screening

An answer is any sequence of raw items, from a live model, a replay file or the
rules on help texts; "" is a text left out. `Surface`, `Capability`, `Binding` and
`Evidence` are the `Parse` of each stage with its normalisation, defaults, filters
and limits; `Replay` is `replay.Load`, `Rules` the rules that read help texts
without a model; `Select` is `selectResult`. `Probe` is `buildTargets` with the
structural errors of `probe.Run`; `Promote` is the validation of a capability record
before it is saved. A surface or capability stage that fails ends the proposal; a
binding or evidence call that fails leaves its capability without candidates. Texts are abstracted to whether they are blank,
how they are spelt in lower case and whether a policy names them.

### Checks

A text is a sequence of characters, a JSON value its kind and its parts; decoders,
regular expressions, base64 and digests are constants. `Holds` is the predicate as
the code computes it, trimming, splitting and walking in the code's order. `Right`
is what the check asks, defined apart from it: it finds lines and cells by the
positions of line feeds and delimiters, a query by the paths of all values within
a document, a count by the digits around it. A number is what `strconv.Atoi` takes: digits, with
a sign or without, up to `MaxInt`. `CheckHolds` and
`CheckFails` run the next check of a plan; a cancel comes between two. Letters with
a case are `a` and `b` only, a size has one digit, and of the spellings that
`EqualFold` lets through for a format, transform, property or algorithm there is one.

`VerdictExact` says nothing of its own about three kinds of input, where `Right` is what
the code does: a carriage return within a line, a delimiter of no or of several
characters, and the count of lines of a source whose last line has no line feed. Of the
last, `CountsLines` says what the repository does, and the code does not keep it.

### Daemon

`proc[d]` is how far `Serve` has come in one process; `endpoint` is the daemon the
file leads to. A command is a process of its own: `Resolve` is `client.New`
reading the file, `Connect` and `Accept` what the kernel and `net/http` do with a
connection. A port has a backlog from `Listen` on, so that a client may queue
before `server.Serve` accepts. The stop handler answers and leaves the shutdown to
a goroutine (`stopping`); `BeginShutdown` closes the listener, which is what makes
`server.Serve`, and then `Daemon.Serve`, return, so that `RemoveEndpoint` and
`Exit` wait for no request. `daemon start` polls until its timeout, which is a
timer and may fall at any step; then it kills its child. It also returns an error,
and kills nothing, if the child's handle cannot be released (`ReleaseFails`, the reply
`unreleased`), which cannot happen on Unix; `NoLeakedChild` does not mean that one. `Spawn` takes any daemon
that has not been started. `endpoint.Write` and `Remove` are one step each, for
`RecordDir` shows that of `WriteAtomic`; that `Remove` fails, that `calctl` itself
dies, and that a port is used again by another program, are left out.

### Reuse

`pc[c]` is how far one call has come: a use lists the capabilities (one record a
step, in the order of the files), selects, plans and goes on as a run; a run reads
its capability again, resolves a binding, executes, checks and saves its record.
Two copies of the catalog are kept apart, `listed` (what `use` selected from) and
`got` (what `run` resolved from), because promotions replace records in between:
`ReadCapability` and `SaveCapability` are the two halves of `promoteTarget`.
An intent is the score its words give each capability. A model may pick any binding
of the shortlist and give any of the missing inputs but the target; one that fails
or answers amiss is `Unselected`, as is a failed plan. Run and use ids are
instants, so that two calls may get one. `artifact` says who wrote the target made
up for an instant last, `checked` whose target a check has read. A context that
is done shows as `ExecuteRefused`, `ExecuteFails`, `CheckFails` or `Unselected`,
each of which may happen at any time, for a client may leave at any time.

## 3. Runs

| run | instance | shows |
|---|---|---|
| `record_dir` | 2 ids, 2 Saves, 1 reader, 3 files, 1 crash | `PublishedWhole`, `NoLeakWithoutCrash`, `ListExactWithoutTemps`, and that `RecordDir` implements `RecordStore` (`ImplementsRecordStore`) |
| `record_list` | 1 Save, 1 reader | **violation**: a List during a Save returns an error |
| `acquisition` | 2 acquisitions, 5 bindings, 2 capabilities, store faults, 1 crash | `PromotedOnlyVerified`, `TraceAccounts`, `CanceledStaysCanceled`, `ReplyTellsTrace`, `SeedSurvives`, `LostOnlyToAnother` and `Settles` |
| `trace_left_running` | the same, no faults | **violation**: a late cancel leaves the trace running |
| `lost_promotion` | the same, no faults | **violation**: the later of two overlapping promotions erases the other |
| `sse_stream` | 2 emitters of 3 events, channel of 2, socket of 1 | `NothingLostWhileConnected`, `OneAnswerLast`, `ClientDecodesAnswer`, `SendersReleased`, `ClientReturns` |
| `proposal` | 3 plans, 2 workers, 0 or 2 candidates wanted | `ReturnsWantedInOrder`, `ProbePlansMatch`, `DiagnosticsMatchProgress` and that Run returns (`Returns`) |
| `probe` | 2 acquisitions of 1 or 2 candidates, 2 files, 1 disk error or death | `ForeignOnlyByOverlap`, `LossOnlyByOverlap`, `WorkdirsGone`, `Finishes` |
| `screening` | answers of up to 3 surfaces, 5 capability, 6 binding and 6 evidence answers, 9 replay files, 6 sets of help texts | `SurfacesPoliced`, `PlansGrounded`, `SelectionFits`, `LevelEarned`, `RejectedOnlyUnchecked` |
| `checks` | every predicate over texts of up to 4 characters, 2 tables, documents and archives | `VerdictExact`, `SilenceExplained` |
| `daemon` | 2 daemons, 2 starts, 1 stop, 1 kill | `NoLeakedChild`, `RecordLostOnlyToAnother`, `StartsReturn`, `StopTakesEffect` |
| `reuse` | 2 uses of one intent, or a use and a run; 3 bindings of 2 capabilities; 1 promotion; 2 instants | `ExecutedAsAsked`, `SelectionHolds`, `RunsAccounted`, `VerifiedOwnArtifact`, `Returns` |

Some configurations are kept beside the runs, for questions of their own:
`MCSseStreamLong`, `MCProposalTimeout`, `MCDaemonDrain`, `MCProbeIsolated`,
`MCProbeBounded`, `MCScreeningPlan` and `MCChecksLines` each give the counterexample
that the section on disagreements names. `MCAcquisitionHeld` gives the one to
`Settles` when the child that a command leaves behind need not end. `MCDaemonStops`
checks `StopTakesEffect` for two stops that race each other and a request, and
`MCScreeningTypes` the types of `Screening`; both pass. The type
invariants of `RecordDir`, `Acquisition`, `SseStream`, `Proposal`, `Probe`, `Screening`,
`Daemon` and `Reuse`, and some invariants that the others rest on (`StageFailureTerminated`,
`WithinConcurrency`, `NoneOutlivesRun`, `CleanExit`, `OneRecordEach`), are proved,
and no run repeats them.

Why the bounds are enough. Two Saves of one record, or of two, already interleave
in every order with a reader, and a third would only queue behind them; three
files leave one for an old record and one for each Save. Two acquisitions are
what a lost update needs, and the proposals include two targets in one
capability, two targets in two, and a refused one behind one that is not. The five
bindings include one that is only a contract, with no command to wait for. In
`sse_stream` one progress event is too long for the client and another cannot be
encoded. A channel of two and a socket
of one are both full with fewer than the seven messages a run can send, so every
sender meets back-pressure. Three plans over two workers make one wait for a
token, and leave one still waiting when a deadline falls; a limit of two cuts
three candidates, none (0) keeps them all. Two daemons are what it takes for one
to remove or replace the other's record, two starts for each to find no daemon;
the daemons are as many as the starts can spawn. Requests other than polls and
the stop are only in `MCDaemonDrain` and `MCDaemonStops`: to the other properties they are polls that
change nothing. In `reuse` the promotion either replaces the binding in use with one
verified to a lower level, which a run that started from the old one must not
execute, or adds a second binding, which changes what resolves and what a model is
shown; two instants let the calls have one id or two; two candidates of two
capabilities tie.

Two acquisitions are what it takes to share a workdir; the jobs of `probe` are a
program that reads a file and writes one, one whose output is captured with a
contract plan behind it, a fixture that escapes after one that does not, and a
program whose checked file nobody writes, so that it passes only on another's; one
disk error or death is enough to leave a workdir for the next. In `screening` every
filter has an answer it stops, one it lets through and one it lets through with
something changed, and every limit is below what the answers offer; answers of the
later stages are chosen, not enumerated, since they are records of many fields. In
`checks` four characters are enough for an empty line, a line with a carriage
return, a delimiter at either end and no line feed at the end; a source has a
carriage return only before a line feed, a delimiter is one character and not a
blank, a document is two levels deep, a number has a sign or none and may be above
`MaxInt`, and every predicate passes on some request and fails on another. The proofs
have documents, tables and texts of any size.

Fairness. `Acquisition!RunFair` asks that every acquisition goes on stepping:
Go schedules every goroutine, and each command or model call a step stands for
has a timeout in the code. `Acquisition!FairSpec` asks besides that a child which a
command leaves with its output open ends some day. The code does not see to that:
`cmd.Run` (`internal/execute/cli/command.go:41`) and `CombinedOutput`
(`internal/observe/cli/usage.go:86`) wait for the output without a `WaitDelay`, so
that `Settles` is a promise about programs without such children, and
`MCAcquisitionHeld` shows it broken for one with. `Begin`, `Cancel` and `Crash` are
never required.
`SseStream!FairSpec` asks it of the senders, the handler, net/http's background
read and a client that stays; emitting, leaving, expiring and dying are never
required. That the app method returns is what `Settles` establishes, on the same
condition.
`Proposal!FairSpec` asks it of Run's goroutine and of each pipeline, whose calls
have deadlines; no deadline need pass for it. `Probe!RunFair` asks it of every stage, whose programs are killed when their time
is over; `Probe!FairSpec` asks besides that children which hold a pipe end, without
which a stage need not (`MCProbeBounded`); disk errors, cancels and the death of the
daemon are never required. `Screening` and `Checks` have safety properties only.
`Daemon!FairSpec` asks it of each
daemon, each call and each start, and of the start timeout, which is a timer;
that a call begins, that a daemon is killed and that `ShutdownTimeout` passes are
never required. `Reuse!FairSpec` asks it of every call, but not that the store
fails nor that a command ends; a command is killed with its context, which
`calctl`'s timeout of 20 minutes ends at the latest. What it assumes of the command
is that it leaves no child holding its output open (`cmd.WaitDelay` is not set).
Deadlock is not checked where the system does stop: after its acquisitions or
its stream have ended.

### Where the code and its documents disagree

* A List meets temp files (`record_list`): `.tmp-*.json` lies in the listed
  directory and ends in `.json`. After a crash the file stays and every later
  List fails, so no acquisition gets past the catalog stage.
* `Complete` runs under the request's context (`trace_left_running`).
* Overlapping promotions lose updates (`lost_promotion`).
* A line longer than 64 KiB cannot be read (`MCSseStreamLong`, `DecodesEveryEvent`):
  `Scanner` stops (`internal/cli/client/stream.go:57`), and the call of a client that
  stays ends with an error though the daemon lives, where
  `cal-progress-streaming.md:243` has "CLI client decodes progress, result, and error
  events". Neither a result nor a progress event is bounded: the latter carries a
  model's `raw_response` (`internal/proposal/progress.go:69`).
* The overall deadline of a proposal does not fail it (`MCProposalTimeout`,
  `OverallTimeoutFails`): a capability that was still waiting is dropped, and the
  rest is returned.
* `Serve` does not wait for `Shutdown` (`MCDaemonDrain`, `DrainedOnStop`):
  `ErrServerClosed` ends it, and the process, while requests are in hand.
* Probe workdirs are not isolated (`MCProbeIsolated`, `IsolatedWorkdir`):
  `internal/probe/workdir.go:40` names them by the candidate's index under one work
  root, where `cal-module-probe.md:14` has "create isolated workdir". Two
  acquisitions at once can read, overwrite and remove each other's files.
* The timeout does not bound an execution whose program leaves a child
  (`MCProbeBounded`, `RuntimeBounded`): `internal/execute/cli/command.go:41` sets no
  `WaitDelay`, where `internal/probe/request.go:43` says "Options controls probe
  runtime bounds".
* A candidate keeps the capability id the model gives it (`MCScreeningPlan`,
  `KeepsPlanId`): `internal/proposal/binding/parse.go:116` fills the plan's id in
  only where there is none, where `cal-module-proposal.md:906` has "The candidate keeps
  the plan's capability id".

* The check of a line count counts line feeds (`MCChecksLines`, `CountsLines`):
  `internal/check/predicate_text.go:164` finds one less than "the number of lines in
  source" (`internal/proposal/evidence/rules.go:128`) in a text that does not end in one.

Four more were met on the way and have no configuration. An error of a Get in the
middle of a run ends it with no attempt at a record (`GetFails`), where
`cal-module-run.md` asks for one on every terminal path. `selectLocal` compares
the first two candidates only, so that two tied bindings of one capability hide a
tie with another capability, where `cal-module-use.md` asks for `ambiguous`. A
delimiter that is a blank or a tab is trimmed to nothing (`internal/check/params.go:42`)
before `predicate_text.go:201` splits by it. A carriage return that ends a line which a
filter picks is dropped when the picked lines are joined and split again
(`predicate_text.go:253,314`): of a line that ends in two, before its line feed, the
check wants one less than a program prints that prints the line as it is.

One thing the models show contradicts no document, and is left as a hazard: two
starts at once leave two daemons, of which the endpoint file leads to one.

## 4. Proofs

The proofs hold for every number of savers, readers, files, acquisitions,
bindings, proposals, plans, workers, daemons, commands, calls and promotions. The
only assumptions are the named `ASSUME`s of the modules: that model values are
distinct, that bounds are natural numbers, that seeds are records of bindings,
proposals are lists of them, answers have the fields they decode into, and checks,
contents and JSON values are what decoding and `Validate` let through.

`RecordDirProofs`. `PublishedWhole` is not inductive: that `Rename` publishes a
whole file depends on what the saver wrote, that nobody else has that file, and
that it has no other name. `IInv` adds that a finished saver's temp file holds
its record (`SaverInv`), that no two savers share a temp file and no record's
name leads to one (`DirInv`, `TempsApart`), and that a file a reader has open
decodes (`ReaderInv`). The refinement theorem maps every step to a `RecordStore`
step or a stutter, and needs `ReaderInv` to know that what was opened is what
will be answered. For a list nobody disturbs, `ListOK` says that it has read once,
under its own name, each record but those still to come, and that the file it has
open is finished and nobody writes it: `ListExactWithoutTemps`. For
`NoLeakWithoutCrash`, every file of the directory has a record's name or is the temp
of a saver that has not returned, unless a process has died.

`AcquisitionProofs`. Even the types are not inductive: `SaveCapability` writes
`cands[a][i]`, which is a binding only because targets are indexes of probes and
probes never outnumber candidates (`WorkInv`). `TraceInv` says which trace each
step of `pc` allows and that the promotions in memory are those in the store;
`EventInv` that a failure event is followed by `terminate` with the context still
done; `VerifiedInv` that bindings read for a merge are as good as those in the
catalog; `SeedInv` that no merge under way read a record without the seed;
`LostInv` that what an acquisition has promoted is in the catalog, and in the record
it is about to merge into, unless another acquisition saved over a record it had read
before. From them follow `PromotedOnlyVerified`, `TraceAccounts`,
`StageFailureTerminated`, `CanceledStaysCanceled`, `ReplyTellsTrace`, `SeedSurvives`
and `LostOnlyToAnother`.

`ServiceProofs` is about `SseStream` and `Daemon`. For a stream, the types need that a
sender has an event and a writer a message (`SourceInv`). `OneAnswerLast` is about a concatenation; `AnswerInv` says it piece by
piece: an answer in what was read, in the socket, in the handler's hand or in the
channel is that piece's last, the pieces behind it are empty, there is none before
the app method sends it, and nobody sends once the method has returned. Lemmas
about `Append`, `Tail` and concatenation carry it over each step (`AppendEvent`,
`TailEvents`, `Joined`). `ClientDecodesAnswer`, whichever events are too long or cannot
be encoded, rests on `AnswerWaits`: a handler that returned to a client that stays has
left an answer last in its socket, which no read but the last takes away, or returned
over an event that it could not encode. `OrderInv` is about the same
four pieces joined: each emitter's messages stand in the order in which it sent them,
and, while the client is connected and the handler neither expired nor returned, all
of them are there: `NothingLostWhileConnected`.

For the daemons, of which `Home` is an instance, `CleanExit` needs that the endpoint file leads only to one
that has published and not yet removed (`EndpointInv`), `NoLeakedChild` what a
start knows of its child at each step (`StartInv`): an error before the spawn
leaves no child, one after it leaves a dead one, and nobody else starts that
daemon again.

`ProposalProofs`. The bound on the workers is a cardinality: each `Dispatch` adds
one pipeline to those with a token only while there are fewer than `Concurrency`.
That the merge meets finished work follows from an invariant that says of each
index, by the order of dispatch, whether it has a goroutine or an error
(`SlotsAtMerge`). The types say what each variable is made of; what a result holds is
proved by induction over it. The merge and the selection are recursive functions of how
many slots, or candidates, have been taken; `Recursion` shows that such a function
satisfies its equation, by the least element of the set of counterexamples
(`WFMin` on the naturals). From there `MergedRight` (the merged candidates are those of
the pipelines without an error, in the order wanted, and each plan points at its own
candidate), `SelectedRight` and `Enumerates` go one slot at a time, and `Outcomes`
carries them to what `Run` returns and keeps: `ReturnsWantedInOrder`,
`ProbePlansMatch` and `DiagnosticsMatchProgress`.

`ProbeProofs`. The history variables make the argument. `Owned` says that a file in a
workdir was written by one who is in it or left it, `Acquainted` that two in one
workdir have met, `AloneKeeps` that one who has met nobody still has every file it
wrote; `Cleared`, that who is about to remove the directory has no file left there,
is what makes the last one out remove it (`WorkdirsGone`), in whatever order the
removals interleave. `SeenKnown` then gives `ForeignOnlyByOverlap`, which a record
keeps for good. `OneRecordEach` needs that records grow with `at`.

`ScreeningProofs`. Every stage, and the selection, is a `Loop` over what it was given;
`Recursion` and `CountingUpTo` show what a loop computes, and `SurfacesKept`,
`PlansKept` and `SelectionKept` say it, one turn at a time (`TurnRight`,
`PlanTurnRight`, `SelectTurnRight`): the surfaces kept of the first `n` items are the
firsts among them in their ranks, by the cardinality of the set of those before
(`Tally`); the plans kept rest on what was cited so far, and a usable plan without
one is there only when the limit was reached; each candidate selected is the first of its
capability. `SurfacesPoliced`, `SelectionFits` and what `PlansGrounded` says of all
that is cited follow from the one step that sets what they speak of. The invariant
carries the rest from stage to stage: a candidate's description is given, or left out of
a capability plan too, and what a replay file or the rules propose is never rejected
(`Good`); an execution has checks and the level they are worth (`Earned`); plans rest on kept
surfaces (`GroundInv`); what passed probe could, and is the provider's (`ProbedInv`).
From it follow `LevelEarned` and `RejectedOnlyUnchecked`. The assumptions name the
fields of answers, files and help texts and nothing of their values.

`ReuseProofs`. The types need that what a promotion merges stays a record
(`MergedIsRecord`). `CallInv` says of each step of a call which variables are set
(`Phase`), that what a use plans was listed and is what it asked for (`Chosen`),
that what is resolved is in the record the run read, eligible, and runs only if its
inputs are there (`Resolved`), and why a run was turned down (`Recorded`): a
binding selected would be eligible in the record that was listed
(`ListedIsEligible`), so it is the record that has changed. `RunsInv` and
`ArtifactInv` say what calls leave for each other: the run under an id, or the file
at a target, is that of the call that has the id, unless two have it; they rest on
no id being made anew once a call has it (`InstantsKept`).

`ChecksProofs`. The steps are few and the invariant short (`IInv`: every check before
the next one holds and has its evidence, and a plan that failed uncanceled is at one
that does not); the proof is about what the predicates compute. Each loop of the code is
a recursion over the items; `Recursion` shows that its equation has a solution,
`Equations` that it is the one meant, by induction through `WFMin` on the naturals.
`SplitIs`: splitting at one character gives the pieces between its occurrences.
`LinesRight`: the lines `splitLines` gives are those between line feeds, each without
the carriage return before its end. `Joins` and `SplitJoined`: joined lines split into
themselves, so that what is compared after a filter is what was picked (`JoinedLines`,
which loses blank lines at the end on both sides). `OnlyIs`: the k-th item kept is the
one with k - 1 before it. `WalkRight`: going down by the parts of a query, one value
remains at each level or none, and it is at the one place with those names, at any depth.
Each predicate then has a lemma that it is right (`CountExact` to `Exact`) and one that
says what it asks of an empty output (`FilterQuiet` to `Quiet`): `VerdictExact` and
`SilenceExplained`. The assumptions name the fields of a check that `Validate` accepts,
of JSON values and of contents; that a text is no longer than `MaxInt`, as in Go; that
base64 of something is not blank and that no digest is empty.

Only model-checked: the liveness properties (`Settles`, `SendersReleased`,
`ClientReturns`, `Proposal` and `Reuse`'s `Returns`, `Finishes`, `StartsReturn`,
`StopTakesEffect`), which need fairness and ENABLED. Every invariant that a run
checks, and every action property, is a theorem too.

## 5. Not modelled

Prompts, and the decoding of a model's answer into items; the rendering of a
binding's arguments, beyond whether it can be done; what a program is observed to
say; argument parsing, rendering, logging, configuration, routing. Machine crashes:
the process may die, the disk keeps what was written. `entry.Register` and the
resolution of provider paths. The fields of a plan that no property tells apart.

## 6. Plan

1. `Reuse`'s selection against a reference definition, for three and more candidates.
2. The composition of `Acquisition` with `Probe`, where a probe's verdict depends on
   another acquisition.
3. `entry.Register` and the observation of a program.
