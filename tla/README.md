# A verification project for the investigation agent

This directory holds TLA+ models of the program in this repository, the TLC
runs that check them on small instances, and TLAPS proofs about them. The code
is the reference: a module says what `packages/*/src` and `apps/*/src` do, and
`PROJECT.json` ("map") names the lines every definition stands for.

## The system

The program investigates intermittent bugs of a web application. Playwright
collects evidence, deterministic code measures it, a language model proposes
and interprets, and a human authorises each consequential transition. It is a
set of command-line commands (`apps/cli`) and a local web server (`apps/web`)
over one workspace directory: a SQLite database, a content-addressed artifact
directory and per-investigation files. Several commands may share a workspace;
SQLite's write lock is all that orders them.

| component | state it keeps | operations | hard behaviour | what makes it correct |
|---|---|---|---|---|
| durable queue (`storage/sqlite-work-queue.ts`) | `jobs` rows: state, worker, lease, terminal reason, outcome | enqueue, claim, markRunning, heartbeat, finish, reapStale | several processes on one table; leases that run out; the reaper's SELECT and UPDATEs are apart | a job is handed out once, settles once, with a legal pair of reason and outcome |
| `investigate run` (`execution/enqueue.ts`, `execution/worker.ts`) | counters, `runs` rows, what a process holds in memory | enqueue the repetitions, drain, retry | a crash between any two transactions; a reaped job whose worker is alive; concurrent enqueues | no double execution; a run is sealed before its job settles; a retry never hides a product failure |
| artifact store and retention (`storage/local-artifact-store.ts`, `commands/retention.ts`) | files under a content address, `artifact_refs` rows | put, get, verify, list, tombstone, retention apply | bytes and row are written apart; deletion races a put; a torn write | a live reference always resolves to its bytes |
| approvals and gates (`approvals`, `cli/gates.ts`, `commands/plan.ts`, `commands/approve.ts`) | proposals, effective proposals, `approvals` rows, lineage edges | plan, approve, reject, requireGateApproval | a decision about a proposal that was re-rendered meanwhile; crash between record and edge | nothing runs without a valid approval of exactly what runs |
| lineage (`lineage`) | a hash-chained, append-only table per investigation | append, verifyChain, closure, unauthorisedRuns | concurrent appends, crash between a record and its edges | one unbroken chain |
| AI gateway (`ai-gateway`) | breaker, budget, `ai_calls` ledger | preflight, dispatch, retry, settle | retry of what was already paid for, breaker windows, budget checked before concurrent calls | no dispatch over budget or with the breaker open; each ledger row settles once |
| AI flows (`ai-flows`) | a flow run: validated output, repair attempts | run, repair, fall back | invalid output, retry | only validated output leaves |
| authoring loop (`cli/commands/author.ts`, `authoring-*.ts`, the page's `app.js`) | the plan and its versions, `attempt.json`, one log per browser session, the suite; the page's cards | plan, approve by checksum, resume, relaunch on another platform, continue after a turn limit, emit, replay, repair | a session that begins the browser anew several times; cards of old plans; another plan written meanwhile; jobs that start each other | a script is one whole recording; a plan that was acted on stays on record; the operator gets the floor back |
| web server (`apps/web`) | sessions on disk, jobs and their lines in memory, the pages' cookie and streams | create, touch, lapse, release, start job, stream events, restart | a page that goes away while another uses its session, lapse racing use, a server that dies under a stream | a released or lapsed session never answers again, a running job keeps its session, a page that follows a job gets all of it and an end |
| evidence plane (`evidence`) | functions of the raw log; the redactor's counters | attribute, count losses, capture status, classify, statistics, redact | events that come late or between actions; evidence told twice; overlapping rules of redaction; a redactor shared by a batch | live and rebuilt evidence agree; each event belongs to the action that caused it; registered values go whole |
| interpreter and collector (`execution/action-interpreter.ts`, `collector.ts`, `destructive-classifier.ts`) | a browser session, the assertions left, the buffered log | execute an action, assert, collect, flush | callbacks between any two steps, a page that closes, a full log | every assertion has one result, a loss is recorded, infrastructure is blamed only before the first navigation |
| rerun, suite, confirm, analyze (`cli/commands`) | the suite folder, the runner's report, stored batches, analyses, experiments and results | rerun, analyze, confirm, emit a suite | a suite authored anew between card and click; an older report; a factor that does not take; cut evidence | counts, verdict and findings rest on the runs they name, and only what was shown is run |
| intake, core, tools, reading commands, evaluation | reports, configuration, queries, printing | one pass each, no shared state beyond rows others read | none of their own | not modelled: see the last section |

How they interact: a command opens the workspace (`runtime.ts`), calls
`requireGateApproval`, writes through the metadata store, and for `run` enqueues
and drains; the worker calls the interpreter, the collector and the evidence
plane, stores artifacts and seals the run. The web server starts the same
commands as jobs of a session and streams their output; its page decides which
command follows which. `author` writes a suite, `rerun` runs it with the
Playwright runner and stores a batch, `analyze` reads the batch, `confirm` turns
a finding into an experiment on the suite. Nothing but the database and the files is
shared between processes; inside one process interleaving happens only at an
`await`.

## The modules

| module | what it models | extends | run by |
|---|---|---|---|
| `JobLifecycle` | the abstract promise of the queue: a job waits, is handed to one worker, settles once | - | refinement target |
| `WorkQueue` | `sqlite-work-queue.ts` and the constraints of the `jobs` table | `JobLifecycle` (INSTANCE) | `MCWorkQueue` |
| `RunCommand` | `enqueue.ts`, `worker.ts` and the counts of `statistics.ts`, over the queue | `WorkQueue` | `MCRunCommand` |
| `ArtifactStore` | `local-artifact-store.ts`, `retention.ts`, the `artifact_refs` table | - | `MCArtifactStore` |
| `Gates` | `approvals`, `gates.ts`, `plan.ts`, `approve.ts`, the gate and lineage side of `run.ts` | - | `MCGates` |
| `AiFlow` | `ai-gateway` and the turn loop of `ai-flows/runner.ts` | - | `MCAiFlow` |
| `WebServer` | `apps/web`: server, sessions, the page's requests and streams | - | `MCWebServer` |
| `Selecting` | operators: the places of a set of numbers and what a sequence has there, the code's filters written without recursion | - | by `AuthoredScript`, `Redaction` |
| `AuthoredScript` | operators: what `authoring-script.ts`, `authoring-actions.ts` and `authoring-proposal.ts` make of recorded statements | `Selecting` | by the modules below |
| `EvidencePlane` | operators: `plane.ts`, `timeline.ts`, `capture-status.ts`, `outcome.ts`, `evidence-quality.ts` | - | by the two below |
| `MeasuredRun` | one execution of an experiment: `destructive-classifier.ts`, `action-interpreter.ts`, `collector.ts`, the worker around them | `EvidencePlane`, `AuthoredScript` | with `AuthoredRun` |
| `AuthoredRun` | from a recording to a sealed run, and to the suite generated of the same proposal (`suite.ts`) | `MeasuredRun` | `MCAuthoredRun` |
| `SuiteReport` | operators: what `rerun.ts`, `rerun-capture.ts`, `suite-capture.ts`, `confirm.ts`, `analyze.ts` and `signature.ts` read out of a report | `EvidencePlane`, `AuthoredScript` | with `SuiteRuns` |
| `SuiteRuns` | the commands `rerun`, `analyze` and `confirm` on one suite | `SuiteReport` | `MCSuiteRuns` |
| `Authoring` | `author.ts` and the part of `app.js` that drives it: plan, approval, browser sessions, script, replay, repair | `AuthoredScript` | `MCAuthoring` |
| `Redaction` | `redaction.ts` and the places a batch of runs passes through it | `Selecting` | `MCRedaction` |
| `RunCommandProofs`, `ArtifactStoreProofs`, `GatesProofs`, `AiFlowProofs`, `WebServerProofs`, `SuiteRunsProofs`, `AuthoringProofs`, `AuthoredRunProofs` | theorems; `RunCommandProofs` holds the queue's too, `AuthoredRunProofs` those of `MeasuredRun` and `Redaction` | the module of the name | `tlapm` |

An MC module only names constants and symmetry. An operator whose comment
begins with `mutant:` is a plausible mistake in the operator that follows it; it
is used by nothing, and `PROJECT.json` ("mutants") says which property finds it.

The modules compose along the product: what `Authoring` records is what
`AuthoredScript` translates; `AuthoredRun` enqueues and executes the proposal
with `MeasuredRun`'s steps; the claim, the retry and the settling around such an
execution are `RunCommand`'s; `SuiteRuns` runs the script of the same recording
and reads its evidence with the same `EvidencePlane`.

### How state and actions correspond to the code

**A process is a record with a program counter.** `proc[p].pc` names the step
that a command performs next, the other fields are the locals it carries over
an `await`. A step is one SQL transaction (`BEGIN IMMEDIATE` or a single
statement) or one file operation, with whatever synchronous code surrounds it.
`Crash(p)` or `Abandon(p)` may replace any step: the memory goes, rows and
files stay. An exception that ends a command is the same thing.

**WorkQueue.** `jobs[j]` is a row, `AbsentRow` before it is inserted. `Enqueue`,
`Claim`, `MarkRunning`, `Heartbeat` and `Finish` are one transaction each.
`reapStale` is a SELECT (`ReapSelect`) and later an UPDATE per row
(`ReapUpdate`), since other processes run in between: `stale[w]` holds what it
selected. Time is `now`; the clock of all processes is the machine's.

**RunCommand.** `StartRun` is the invocation; `EnqueueSeq`/`EnqueueInsert` the
loop of `enqueueExperiment`; `Reap` to `FinishJob` the drain loop;
`RetryRead`/`RetrySeq`/`RetryInsert` the retry of an infrastructure failure.
`...Collides` and `...Fails` are the exceptions of a UNIQUE constraint and of
an update that finds the row in another state. The browser is its classified
outcome: `Execute` picks any.

**ArtifactStore.** `file[i, b]` is what lies at a content address (absent,
partial, whole), `refs` the table. `put` is exists, write, insert; retention is
tombstone, look for other references, remove. `spoiled` is a history variable
that remembers the two events after which a damaged content is no surprise: a
torn write, and a removal while another process is putting the same content.

**Gates.** `disk[g]` is the proposal a human sees, `approvals` the rows in the
order they were recorded. `Approve` reads and validates, `RecordDecision`
inserts the row later, `AppendApprovalEdges` appends one edge a transaction and
may stop anywhere. `StartRun` is `requireGateApproval` and the selection,
`EnqueueItem` to `AppendExecutedAs` the rest of `run.ts`. Claiming and reaping
are RunCommand's subject, here a run is one step.

**AiFlow.** `ledger` is the `ai_calls` table, `run[f]` a command: its budget,
history and breaker. `Turn` is the top of the loop in `runner.ts` up to
preflight, `Insert` the row, `Answered`/`Refused` the provider, then `Complete`,
`CompletionFails` or `Failed`. `bill` is what the provider counted, which the
program cannot see.

**WebServer.** `sessions` is the map and, because every change is written
through, the file. `jobs` live in memory and are forgotten by `Crash`. A page
has one request under way and at most one release sent by its unloading;
`request[p]` is the moment between the two halves of the `/api/action` handler,
`pipe[p]` the event stream. `Acquire`, `HandleRelease`, `BeginAction` and
`StartJob` are the server's handlers, `KeepAlive` the job's timer.

**AuthoredRun and MeasuredRun.** `recording` is the log of a session, a
statement a chain of calls. `Record` adds one; once the statements can measure,
`extractAuthoredActions` and its neighbours make actions, assertions and a
proposal of them. `int` is the interpreter and the worker around it: its program
counter, the action it is at, the assertions still deferred, the exception that
is on its way out. `col` is the collector, which the page's callbacks
feed between any two steps; `raw` the persisted log, `sealed` what
the run is sealed with. Locating an element is Playwright's: an action finds its
target or not, in time or not, and nothing succeeds on a closed page.

**EvidencePlane.** An event is what the rules look at: category, action or request it
belongs to, and `during`, the action that was executed when it came about,
which is no part of the log and which only a property may read. All else is a
function of the log.

**Redaction.** A value is a short sequence of symbols and a pattern a set of
them. `maskValues`, the rules in order, their exceptions, `mask-match`,
`drop-value`, `hash-value`, query keys, the content-type condition, the ceiling
and the strict default are operators. `StartsOf` is where `split` finds a literal, from
the left and none within another; `Considered` is one turn of the loop over the
rules. `Persisted` is what stands in the log for a value that was dropped. The
actions are what a batch does with them: `Collect` a field, `SealRun`, with one
redactor for all runs; `Normalized` is the plane over a log, which
redacts the fields of some scopes again.

**SuiteRuns.** `cmd[c]` is a process in `rerun`, `analyze` or `confirm`. `Prepare`
copies the suite, `RunnerLoads` clears the report, `Repeat` adds a result,
`RunnerEnds` writes the report or does not, `Count` reads what is there, `Ingest`
stores the batch or fails to, `Decide` compares the arms. `BuildConfig` is the
card or the comparison with the card that was clicked, `Freeze` the schedule.
`Reauthor` is another process that authors the suite anew. `shown` is a history
variable: the experiments an operator has seen.

**Authoring.** `folder` is the authoring folder: plan, kept versions,
`attempt.json`, one log per browser session, suite, evidence of a replay. `cmd[c]`
is the command of a job from its start to the moment its result is on the
page; `page` the state of the page and the buttons that lie on it. A
turn of the model's conversation ends as it likes (`EndPlanning`, `EndSession`), the command
then goes on by the code's rules (`Relaunch`, `Continue`, `Conclude`), and the page by its
own (`OutcomeArrives`, `ReplayArrives`). The operator may press any button that
is there, also of a card of the past, and a terminal may plan the
same investigation. `history` is what only the properties look at.

### The abstract specification

`JobLifecycle` says what a client of the queue may rely on, in four phases and
three actions. `WorkQueue` implements it with `phase` = the row's state seen
from outside (CLAIMED and RUNNING are both "held"), `holder` = its worker and
`verdict` = its reason and outcome (`ImplementsLifecycle`, model-checked and
proved as `QueueImplements`). The interesting step is `ReapUpdate`: it acts on
a selection that may be stale, and still refines either `Settle` or a stutter.

## The runs

| run | question | size |
|---|---|---|
| `work_queue` | any clients in any order: are rows consistent, and does the queue refine `JobLifecycle` | 2 jobs, 2 workers, lease 1, clock 2 |
| `run_command` | two `run` commands, crashes and lost leases anywhere: no double execution, seal before settle, attempts that form a chain of infrastructure failures, no product failure hidden by a retry | 1 experiment of 2 repetitions, 1 retry |
| `run_command_ends` | does every started command end, also when run ids collide | 2 experiments in 2 investigations, 1 retry, fair |
| `two_investigations` | can a run that was executed be sealed (no: finding) | 2 experiments in 2 investigations |
| `artifact_store` | concurrent puts and retention, torn writes, deaths: are live references readable, and do rows only expire | 3 contents, two with one short hash, 2 investigations, 4 commands |
| `gates` | concurrent plan, approve, run: does only approved, acknowledged content run, in gate order, and does the lineage claim nothing nobody decided | 2 gates, 2 items, 2 contents, 2 processes |
| `ai_flow` | two flows whose calls collide, every answer and error class: is every spend recorded, every row settled once, the budget kept, only validated output let out | 2 flows, 3 turns, 1 tool call an answer, 5 tokens |
| `web` | two tabs, one server that dies and returns: sessions, job, streams | 2 tabs, 2 sessions, 1 job, 2 lines, life 2, fair |
| `authored_run` | from a recording to a verdict: translation, execution with callbacks between any two steps, evidence, classification, rebuild | 3 recorded statements, 2 of them run, 4 planned experiments, 6 events |
| `redaction` | which symbols of a field survive the rules, and does a rebuild agree with the seal | 3 policies, 10 fields, 2 runs of 2 fields |
| `suite_runs` | do counts, verdict and findings rest on the runs they name, and is only what was shown run | 1 process, 4 commands, 2 suites, 1 repeat an arm |
| `authoring` | is a script one whole recording, does a plan that was acted on stay on record, does the page give the floor back | 2 jobs, 3 choices, 1 plan in a terminal, 2 logs, fair |

### The bounds, and why they are enough

- `MaxNow` = 2 with `LeaseMs` = 1 lets a lease run out, a reaper select the row,
  and its owner finish before, between or after the updates. More clock repeats
  this. A third worker would be a second bystander: all races are between the
  holder of a row and one other.
- `MaxRepetitions` = 2 and `MaxRetries` = 1 give two repetitions that interleave
  and a retry behind each; the limits `MaxRuns` and `MaxRetries` are reached.
  `MaxCommands` = 2 is two concurrent commands or one after another's crash.
- In `artifact_store` the three contents are what makes collisions: two traces
  with one short hash, and a manifest in the same directory. `MaxCommands` = 4
  allows put, retention, put, retention on one content, interleaved by two.
- In `gates` a proposal may be rendered twice, decided twice and run once
  (`TwoTwoOne`), which is what superseding, concurrent decisions and retries
  need. `Files` holds what approval files can say that the properties tell
  apart: all or part of the items, an edit that makes one destructive, with and
  without its acknowledgement, a rejection. The second gate has one item.
- In `ai_flow` three turns with one repair and one tool call reach every step of
  a call several times in two flows that derive the same ids; the budget of 5
  tokens against calls planned at 3 and billed at 2 is hit in the middle of a flow. One
  error that is retried and one that is not stand for the error classes.
- In `web` a unit of time is the 15 s of the keep-alive timer and a session
  lives two (the program's default is 480 of them; only that it is more than one
  matters, `TtlAssumption`). Ids are never reused and end with the constants:
  with none left the model stops opening sessions, which hides no earlier state.
  A page has one request under way at a time, and a request's body arrives within a
  unit of time.
- In `authored_run` the alphabet has what the translation tells apart: a
  navigation, a click on a destructive label, a chain with `filter` before
  `nth` and one with `nth` before `filter` (they differ), a check for presence and for absence, a
  screenshot. Three of them suffice for an optional screen with a check
  behind it. The planned experiments add what a recording cannot hold: an
  assertion among the actions and one after them, a reset, a missing secret, a
  value still pending, and two assertions that are declared with one id. Six events are reached and passed in the middle of an action.
- In `redaction` a value of five symbols is over the ceiling of four; two
  registered values overlap and a third is too short; the policies order a
  masking rule, one with an exception, one that keeps and two that drop differently, a
  body and a query value. The second run is there because counters survive the first.
- In `suite_runs` four commands are rerun, analysis, card and confirmation, or any
  of them repeated or killed. One process is enough for staleness, because
  `Reauthor` is a second one that may step in anywhere; two reruns in one directory at once
  are not modelled. With one repeat an arm, every pair of results, schedules and factors
  occurs.
- In `authoring` two jobs are a running command and one from a card of the past.
  Three choices are plan, approval, answer, or approval of an older card;
  everything the page starts by itself comes on top. With two logs a third
  browser session uses the last log again, so that a repair with a relaunch still
  mixes logs if it does not begin a new attempt.

Symmetry is declared where no property is temporal with fairness and no
operator chooses among the symmetric values. `CHECK_DEADLOCK FALSE` is said
where commands are bounded in number, so that the system stops when they are
used up; `web` checks deadlock, since time goes on.

### Fairness

- `run_command_ends`: `WF(Step(p))` for each process. A running Node process
  goes on: every promise it awaits resolves, since SQLite calls are synchronous
  with a busy timeout and the browser's steps have timeouts. Starting a command
  is the user's choice and is not fair; a crash ends a command too.
- `web`: `WF` of `Exit(j)` (commands end: the runner's turn and step limits), and,
  per page, of `Subscribe(p) \/ Read(p)` (a page reads what has arrived). Nobody must open
  a page, press a button, or restart the server: `StreamsEnd` holds without.
- `authoring`: `WF` per job of what goes on without a human: a model's turn or a
  replay ends (both have limits and timeouts), a command goes on when its await
  is over, its result reaches the page. The operator need not press anything and the
  terminal need not plan. `OperatorGetsBack` then says that the chain of jobs
  which start each other ends, for which the counters of relaunches,
  continuations and repairs are needed. The death of the server is `web`'s subject.

## What is proved

TLAPS checks these for all values of the constants, under the ASSUMEs of the
modules (which TLC evaluates on every run).

`RunCommandProofs`, first part, for any jobs, workers, lease and clock:
`TypeCorrect`, `RowsConsistent` (lease, worker, reason and outcome of a row fit
its state), `SettledForGood`, `HandedOnce`, `ReapsOnlyHeld`, `QueueImplements`.
The argument: types and row consistency are inductive by themselves, the action
properties follow from them one action at a time. `SelectedWasHeld` is what the refinement
needs: a stale selection contains only jobs that were handed out, so that an
update the guard lets through is a `Settle`.

Its second part, for any processes, experiments, repetitions, retries and
commands that die anywhere: `RunTyped`, `ExecutesOnce`, `SealsFirst`. `IInv` is
the queue's invariant with one conjunct for each process (`LocalOK`): a process
that executes, seals or settles holds a job that was handed to *it*, whatever
became of the row since. Every step of a command is a step of the queue or leaves the
table alone, and a row that was handed out keeps its worker (`Composed`), so the
conjuncts of the others survive (`OthersKeep`); each action is one lemma for
its own process. Double execution is then a row with two workers.

Its last part builds on that: `RetriesChain` (an attempt exists only behind an
infrastructure failure of the one before it) and `RetryHidesNothing`. Neither
follows from the guards: between the verdict and the insertion of a retry stand
three awaits in which others enqueue, reap and retry. `RetryOK` says what the process
knows meanwhile: the row it settled is its own infrastructure failure and nothing
follows it. `Moves` bounds what each queue operation may add or settle. From
the chain, `NoGap` (by well-foundedness: the least missing attempt below an existing one
contradicts the chain) makes the highest attempt the only one that can be a
product failure, and `LastAttempt` identifies it with what the statistics count.

`ArtifactStoreProofs`, for any contents, investigations and processes: `StoreTyped`,
`Resolves`, `RowsOnlyExpire`. `StoreInv` adds to the types that a partial file
was remembered as torn (`Torn`), that a live row's content is sound (`RowsSound`)
and that so is a content between its existence check and its row (`PutsSound`):
whole, or spoiled by one of the two events that `LiveRefResolves` excuses.

`GatesProofs`, for any processes, items, contents, proposals, approval files,
retries and numbers of commands: `GatesTyped`, `DecisionsBindBytes`,
`GatesAreOrdered`, `OnlyApprovedRuns`, `DestructiveIsAcknowledged`, `LineageIsHonest`. None is
inductive alone. `IInv` adds what a command has established at each of its
steps (`LocalOK`): a decision about to be recorded was checked against the
bundle it carries (`FileChecked`) and the earlier gates are approved in the
table *now* - true although the check read an older list, because approvals are
only ever added (`ApprovedGrows`, `LocalGrows`); a command that runs holds an
approval that is in the table and only items of it (`RunApproved`); a job names
an approval that explains it (`JobApproved`). `LastPosition` and `RecordFor`
say that "the latest approval" is one of the recorded ones. The assumption
beyond typing is that a bundle has finitely many items. `LineageIsHonest` rests
on a second invariant, `LineageInv`: every edge is about an item some recorded
approval names, links an approval to the first attempt of its item, or links a job to its
run (`EdgeOK`), and what `approve` has still to append is of the decision it
recorded (`EdgesDue`). Then nothing but a run's job and its item's approval and proposal can
lie behind the run (`BehindARun`), so that whatever the closure finds there is about
that item; `WalkExists` and `ReachedWithin` bound the closure, a recursive function, by a
least counterexample instead of an induction.

`AiFlowProofs`, for any flows, bounds, usage and errors: `AiTyped`,
`SpendIsRecorded`, `RowsAreOwn`, `SettlesOnce`, `StaysInBudget`,
`LeavesValidated`, `BreakerNeverOpens`, `RetriesKeepDeadline`. `LedgerInv` says
that a command in a call is the only one that holds the row of its request id,
because a colliding id takes the next free index (`FreshIndex`). `FlowInv` is
one invariant for each command by itself: what it spent against what it planned
and was told (`BudgetInv`), its history against its repairs and refused tools
(`ValidInv`), the failures in a row that the breaker has seen (`BreakerInv`).

`WebServerProofs`, for any tabs, sessions, jobs and lines, and any life of a session of
two timer intervals or more: `TypeCorrect`, `GoneStaysGone`,
`JobKeepsSession`, `StreamsAreWhole`. Every step that lets no time pass does one of four things to a
session (`BecomesOf`), and none of them revives what is gone. `KeepInv` is the
strengthening for the timer: a running job's session has two units left, or one
and a timer that is due (`Assured`); and a session whose action is being read
was touched since the last tick (`KeptFor`), so that the job it starts finds two.
`ListenInv` says that what a listener's pipe holds does not end, since a job
gives up its listeners in the step that sends the end. `ShownInv` says of a page that
follows a job that what it has read and what is in its pipe are together the lines
so far (`SoFar`), and that it listens; or, the job being over, the lines
and the end (`InFull`). Reading moves a frame from one to the other and leaves the whole.

`SuiteRunsProofs`, for any commands, suites, evidence and schedules: `RatesAreTheirBatches`,
`OnlyShownIsConfirmed`, `TriggersWereThere`, `FindingsRest`. `IInv` follows a
report on its way: every report is one the runner may have written, every
stored batch was counted from such a report, and what a command holds agrees with what is
stored and was shown, whatever is authored or analysed meanwhile. The failures
that `rerun` prints and those of the batch are two readings of one report, so that
`RatesAreTheirBatches` is about the readers and not about the counters.
`HappeningsAssumption` says that a result has a place only with an error and an error only if
it passed, failed or timed out: a skipped or interrupted result with a
place would be a failure of the check for one reader and a run that never got there for
the other. The runner reports none where a command still reads the report.

`AuthoringProofs`, for any jobs, recordings, plans and logs, while sessions end in any way:
`ActedOnStaysOnRecord` and `ScriptsAreWhole`. `PlanInv` says that a plan is on disk wherever
something could act on one (`WithoutAPlan`; without that, an approval of version 1 of
nothing would later mean the next plan), and that a checksum in hand was shown.
`RecordingInv` says that the logs of the folder's attempt are the recording, as
long as the page runs one command at a time (`OneAtATime`) and a repair begins
a new attempt (`RepairOK`).

`AuthoredRunProofs`, first part, for any experiment, ceiling and traffic of the page:
`RebuildIsFaithful`, `BlameNeedsNoTarget`, `EventsGoToTheirAction`, `LossIsSaid`, `GreenIsProved`.
`IInv` ties the collector to where the interpreter stands (`CollectorOK`):
a start without an end is the action's that is being executed, and an event lies in the one
window of its action (`WindowsOK`), unless the log is full; a
request is in the log before what comes of it (`RequestsOK`); a note is
made once for a category and code (`NotesOK`). A full log is
only ever given notes, so what the ceiling cuts off is cut off at the end: that is why the
attribution survives it, and why the count of what was dropped is still in the log.
`SealedOK` then says that what is sealed is the plane over the persisted log.
`GreenIsProved` takes the verdict apart rule by rule: a green run evaluated something, has no
failed assertion, and lost no required category altogether.

Its second part follows a recording to the results, for any alphabet of statements:
`TranslationReachesTheSame`, `OptionalStepsAreFound`, `AssertionsAreAccounted`. A
filtered list is `Selected`, and `Places` says of it what the proofs need: the
n-th of the list is at the n-th place, places increase, and each is hit. A
statement is translated only if what is rendered of it is the chain it was
parsed from, so that the interpreter's locator reads as the recorded chain read; the suite
names an element without the locator's options, but for a role's name, and so finds a superset, by
`ExactNarrows`: that `exact` only narrows is what the model assumes of Playwright. For
the accounting, the results are while a run is under way those of the checking
actions that were passed, in order (`ResultsOK`), and at its end one for every
declared assertion; `Enumerated` and `Joined` show that the results
and the generated suite number them alike. Nothing in the code refuses an id that is
declared twice. The property therefore says of such an id only that it
has a result, and `OneInline` and `AllDistinct` are antecedents in it, not
assumptions. The constants are assumed to be lists (`RecordingAssumption`,
`FlowsAssumption`).

Its last part is about the redactor, for any policies, registered values and fields:
`NoSecretIsLeft`, `RebuildRedactsAlike`, `MasksAddUp`. `BatchInv` says that a field of a log is
what one redaction left of it. That no literal is left is not clear from the code,
because each is replaced in what the ones before it left, and a replacement
can bring two pieces together. `FoundBehind` is the step that
matters: an occurrence behind a masking lies between two replacements, so it was an occurrence
before, at a place that was not found; `MaskingLeaves` and `MaskAllLeaves`
conclude that a literal that is gone stays gone. Longest first (`Ordered`) gives the second half: a
value that is the whole of a field is tried before what is a part of it, and only
marks remain. Rules add nothing but what the redactor writes (`ConsideredIs`), so they bring
nothing back either (`ByRulesLeaves`), and a rule that masks still finds
what it is about in what the others left (`LeftMatches`). A rebuild meets only
fields without literals, where knowing none makes no difference (`RedactForgets`).
All this assumes `WrittenApart`: no registered value and no rule is about what the redactor itself
writes. The code does not refuse such a value (see the notes below).

Only model-checked, and why:

- The liveness properties (`CommandEnds`, `StreamsEnd`, `OperatorGetsBack`). Liveness under
  fairness and ENABLED are outside TLAPS's reach.
- What a fold or a recursive function computes for every input, beyond what an
  invariant along its steps says: induction over data needs library theorems that take
  an operator. Where a proof needed one (the scan over the rules, one literal
  after the other, the closure of the lineage) it is by a least counterexample.

## What the checks found

| run | code | what |
|---|---|---|
| `two_investigations` | `worker.ts:301` | run ids are counted per investigation but `runs.run_id` is the primary key of all: the second investigation's first run executes and cannot be sealed |

Other disagreements met while modelling. They are notes of the hazards in
`PROJECT.json` where one fits, and the models do what the code does:

- `requireGateApproval` takes the latest approval (`approvals/src/index.ts:354`), whatever was
  rendered or rejected since, though `plan.ts` says that re-rendering invalidates it.
- No `retry_of` or `scheduled_as` edge leads to a retry (`worker.ts:221`): its run is
  reported as unauthorised.
- A reload of the page fires `pagehide` (`app.js:2349`), which releases the
  session that the README says a reload resumes.
- An authored flow ends in a `waitFor` of which "a miss is the bug"
  (`authoring-proposal.ts`), but the action fails before the assertion that mirrors it is
  evaluated: a miss is AUTOMATION_FAILED, never a product failure.
- `suite generate` emits a `waitFor` as a wait for a state of the page, whatever its condition.
- A crash between the settling of an infrastructure failure and the insertion of
  its retry loses the retry (`worker.ts:205`).
- A registered value that is a part of the replacement, as `redacted` is of `[redacted]`, is found
  again in every field that anything was masked in (`redaction.ts:429`) and is never gone from
  a log; `maskValues` asks for a length of four only.
- `maxToolCalls` is looked at between turns only (`runner.ts:442`); the ceiling of an investigation is compared
  with the spend of one flow (`gateway.ts:131`); two approvals of one checksum
  that run at once are both recorded (`approve.ts:169`).

## Plan

Done: the queue, `run`, artifact store, gates, AI flows, web server, the run of
an experiment with its evidence, redaction, the commands on a suite, the authoring loop; the
proofs listed above. What is left, most useful first:

1. A second refinement: `Gates` as an implementation of "decided, then run".
2. Two reruns at once in one suite directory, which share the runner's report.
3. `Lineage`: the hash chain and `verifyChain`.
4. The rest of `server.ts` and `app.js`: credentials, targets, actions without a stream.

## What is not modelled, and why

- Wording, rendering, report text, Markdown and HTML: no property is about them.
- `packages/core` (types, ids, canonical JSON, configuration): pure functions,
  used as injective ids and as constants. `packages/tools`: read-only queries;
  `AiFlow` models which calls are refused and counted. Intake is one
  pass around an AI flow. `scripts/reproduce.mjs` is a wizard that calls the commands in turn.
- Opening and migrating the database; SQLite itself is taken to be serializable.
  The lineage's hash chain is one transaction an append.
- The breaker's cooldown: `BreakerNeverOpens` shows that it cannot open, so
  that half-open is unreachable. The AI provider is any answer or error class.
- In `apps/web`: targets, credentials, reports and files served from disk,
  actions that are not streamed (they hold no job). The body of an
  action is abstract.
- In `Authoring`: the choice of a platform (a relaunch is one whatever the
  platform), images, prompts, experiment proposals. Equal cards are one button. `ScriptIsOneRecording`
  speaks of pages that run one command at a time: two sessions at once write logs into one
  folder, and a script then takes both.
- In `EvidencePlane`: screenshots and corrupted artifacts, normalisation of
  volatile text, features. Wilson intervals and Fisher's test stand as thresholds
  on the counts, and whether two arms are apart is a choice (`Decide`).
- In `MeasuredRun`: emulation, the manifest's fields, the stop on a signal.
- The browser, Playwright, its test runner and the pages under test: external,
  seen through what the code is told by them.
- `src/eval` and `packages/test-fixtures`: test equipment.
