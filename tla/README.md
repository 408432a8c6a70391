# Partir Core: a TLA+ verification project

Partir Core (`src/prototype`, Go) is a code factory: it takes work orders (tickets), hands them
to executor plugins, judges what comes back with the Omega quality gates, and stores what
passes in Postgres and a blob store. Around that core stand a registry of workers with
heartbeats, an andon signal bus on NATS, resilience and quota libraries, a "round table"
conversation that plans tickets, and versioned rulebook workspaces.

This directory holds TLA+ models of it, the TLC configurations that check them, and proofs
checked by TLAPS. All paths below are relative to `src/prototype/`. `PROJECT.json` lists every
component, every mapping from a definition to the lines it models, every run, every mutant,
the hazards of the code, what was found, and the theorems.

    tlc -workers 2 -config Dispatcher.cfg MCDispatcher      # any run of PROJECT.json
    tlapm DispatcherProofs.tla                              # the proofs of one module

## 1. Inventory

| component | state | operations | interacts with | hard behaviour | correct when |
|---|---|---|---|---|---|
| Foundry dispatcher, `internal/foundry/dispatcher.go` | none of its own between calls; everything is in the tables and the engine | `Submit`, `Run` (14 writes on its longest path) | storage, Omega, plugins, NATS | several calls at once, in one process or in several; a crash between any two statements; dropped errors; no transaction spans two writes | the record of tickets, runs and artifacts agrees with what happened |
| Storage, `internal/storage`, `migrations` | tickets, runs, artifacts, defects, rulebooks, green_tags; blobs | one statement per call, artifacts two | everything | a failed write that was applied; unique keys hit in the middle of a loop | rows never point at missing blobs; a closed run is final |
| Omega engine, `internal/omega` | retry history per ticket and defect class, in memory | `RunPreflight`, `RunPostExecution`, `Reset` | dispatcher, catalog | check-then-store of uniqueness; a reset that hits other tickets | no content twice; no class retried twice |
| Factory registry, `internal/factory` | workers, stations; one mutex per Registry value | heartbeat, assign, unassign, detect crashes | NATS, Postgres, `partir factory` commands | several processes, each with its own mutex; late and repeated heartbeats; read-then-write transactions | slots exclusive; crash marks justified; silent workers found |
| Circuit breaker and fallback chain, `internal/resilience` | state, failure and success counters, last failure | `Allow`, `RecordSuccess`, `RecordFailure`, `Reset`, `Execute` | any caller | state copied under a read lock and overwritten later; answers from before a trip | opens only after enough failures in a row, closes only after enough successes |
| Rate limiter, backoff, idempotency keys, dead letters | window of times; retry counter; key table; queue table | `Allow`; `RetryWithBackoff`; `Check`, `Record`; `Enqueue`, `List`, `Resolve` | any caller | check and record are separate calls | at most `MaxRequests` in a window; work done once |
| Quotas, priority queue, `internal/dispatch` | counters with expiring windows; heap | `CheckQuota`, `RecordTicketStart/End`, `RecordTokens`; `Push`, `Pop` | any caller, usage store | check-then-record; reset under a read lock; restart without loading usage | limits hold; counters match the tickets in flight |
| Collaboration router, `internal/collaboration` | none in memory; the factory ledger | andon, fix-it, alert, confirm, submit handlers | NATS, ledger, dispatcher's signals | at-most-once delivery, dropped publishes, duplicates | every signal is routed or alerted, by its first classifiable defect |
| Maintenance API, `internal/maintenance` | memory_pairs, ledger | `SetPhase`, `Inspect`, `Release`, stubs | Postgres | check-then-update, rows affected ignored | the ledger tells what happened |
| Round table, planner, scope, `internal/foundry` | two convergence flags, the scope | turns, planning, edit, approve | language models, dispatcher, `session.json` | a failed turn keeps an old flag; a plan is killed; a submission fails half way | nobody still asking when planned; unfinished plans can be resumed; a scope goes in once, in order |
| Alpha and beta workspaces, `internal/alpha`, `internal/beta`, `cmd/alpha`, `cmd/beta` | rulebook directories, manifest, archived versions | init, add, lint, promote, load | file system | crash between manifest and archive; commands that overlap; the user's editor on the same files | an archived bundle is whole and linted; a promoted version is archived and stays promoted |
| Interview engine, `internal/interview` | conversation, phase results, graph | `RunPhase`, `Resume` | language model, workspace | a failed turn in the middle of a phase; a graph that loses messages; resume | every answer keeps its question |
| Plugin registry, manager, clients, session file | map; binaries and manifests; one JSON file | register, look up, install, update; save, load, clear | disk, HTTP | two files written one after the other; a version installed again | what is up to date is whole |
| Throughput controller, external sync, alerting, chatops, remote scripts, security, telemetry, configuration, commands | stubs, formatting, observation, wiring | | | | |

### What calls what

`foundry run` (one process per command) builds a `Dispatcher` and an Omega engine of its own.
`Run` writes the ticket, runs the preflight gates, opens a run, executes the plugin, runs the
post-execution gates, and then either fails the ticket (close the run, publish on
`collab.andon`, store the defects) or stores the artifacts one by one and completes ticket and
run. Any number of processes share the database. Every `partir` process with a NATS connection
starts a heartbeat listener and a crash detector on a `Registry`; `partir factory assign` opens
another `Registry`. Nothing but Postgres orders two processes.

`foundry run` as it stands wires neither the default gates, nor plugins, nor a NATS connection
(`cmd/foundry/main.go:121`); `docs/` and the tests describe and exercise all of them. The models
cover both: `gated` tells whether the gates were added, `PullAndonCord` may send nothing, and
`LoadFails` stands for a missing plugin.

## 2. Modules

There are seven systems of modules. Each composes its components, and has a module of properties
(or the properties at its end), an instance for TLC, and proofs.

| system | modules | code |
|---|---|---|
| Dispatcher | `Dispatcher`; `RunLedger` (abstract); `DispatcherProps`, `DispatcherProofs`, `MCDispatcher` | dispatcher, storage, Omega engine |
| Registry | `FactoryRegistry`; `SlotAllocation` (abstract); `FactoryRegistryProps`, `FactoryRegistryProofs`, `MCFactoryRegistry` | workers, stations, heartbeats, crash detector |
| Breaker | `CircuitBreaker`, `FallbackChain`; `FallbackChainProps`, `FallbackChainProofs`, `MCFallbackChain` | circuit breaker, fallback chain |
| Planning | `ScopeApproval`, `RoundTable`, `Planning`; `ScopeSubmission` (abstract); `PlanningProps`, `PlanningProofs`, `MCPlanning` | round table, planner, scope, session file, `foundry plan`, `resume`, `scope approve`, `submit` |
| Workshop | `AlphaWorkspace`, `BetaWorkspace`, `InterviewEngine`, `Workshop`; `RulebookArchive` (abstract); `WorkshopProps`, `WorkshopProofs`, `InterviewProofs`, `MCWorkshop` | rulebook directories, linter, importers, interviews, `cmd/alpha`, `cmd/beta` |
| Floor | `Collaboration`, `Maintenance`, `PluginManager`, `Floor`; `FloorProofs`, `MCFloor` | collaboration router, repo adapter, maintenance API, plugin manager |
| Admission | `Quota`, `Resilience`, `Admission`; `AdmissionProofs`, `MCAdmission` | quotas, priority queue, rate limiter, backoff, idempotency keys, dead letters |

Operators whose comment begins with "Mutant:" are not part of any specification: each is a
plausible bug in the definition that follows it, and `PROJECT.json` says which property it
breaks. They show that the property depends on the code.

### Dispatcher

State and code: `tickets`, `runs`, `artifacts`, `defects`, `greenTags` are the tables, cut down
to the columns the properties read; `blobs` the blob store, by content hash; `history` the
`defectHistory` of each process's `RetryController`; `andon` the signals NATS accepted. For each
call, `pc` is the statement it is about to execute, `batch` the execution's artifacts, `found` and
`verdict` and `retry` the Omega result, `idx` the loop index, `result` what it returned. `hit` is a
ghost: the calls that met a failed write.

Every action follows `Run` from top to bottom; its comment names the step number of the code.
What is kept: the order of the writes, which errors are returned and which dropped, the
early returns, the loop over the artifacts with blob before row, the unique key on
`artifact_id`, the look-ups of the uniqueness gate one artifact at a time, the counting in the
retry controller and its reset. A write can succeed, fail without effect, or fail after taking
effect. A crash ends every call of a process and loses its history. The artifacts of
`ArtifactRepo.Create` carry a content hash; the model names a content by that hash.

What is abstracted: the gates other than uniqueness pass or report any list of `DefectLists`;
an execution returns any member of `Batches` or an error; plugins may be missing; metrics and
logs are left out. An executor that never returns is not modelled. `Run`'s `attempt`, costs and
delta fields are not either: nothing reads them back.

Two calls for the same ticket are allowed because the code allows them: `Run` does not read the
state before it writes DISPATCHED.

`Submit` needs the empty green tag. The code writes `green_tag_ref` as the empty string, which is a
foreign key of `green_tags`; the model keeps that, and `RegisterTag` is the operator who makes it
valid. Without it no ticket exists and nothing runs (finding in `PROJECT.json`).

### FactoryRegistry

`op[r]` tells whether `r`'s mutex is held over two steps, by an assignment or by a detection;
all other operations are single SQL statements and one step each. `AssignRead` is the query of the
used slots, `AssignCommit` the two updates and the commit; `DetectRead` is the cutoff and the
SELECT, `DetectMark` the UPDATE, which evaluates its condition again. `Abort` is a failed
second statement or a process that dies. A heartbeat carries a status, a place and the time its
listener saw it; it inserts the row or updates everything but the place.

Times are ticks; a worker is silent when `beat + Timeout < now`.

A worker's first heartbeat may carry a place, which is inserted unread. The ghost `announced` keeps the workers
that are where they said; what is said of slots is said of the places operators gave (`Assigned`), and that an
announced place is free or its station open nobody checks. Once an operator places the worker, or takes it away,
it is announced no more.

`SlotAllocation` is what the registry promises operators who run one assign command at a time: a worker
has at most one place, takes one nobody was given, and gives it up, each in one step; a new one may announce any. In the registry taking one is two steps, between which
heartbeats, detections and unassignments come.

### CircuitBreaker and FallbackChain

`state`, `failures`, `successes` are the breaker's fields. Of `lastFailureTime` the code only asks
whether more than `Timeout` has passed, so `age` counts the ticks since and stops at `Timeout + 1`:
time is unbounded and the state space finite. `lost` and `won` are ghosts, the reports since the
last one of the other kind, counted up to the thresholds.

A caller's `pc` follows `Execute`: "next" is the head of the loop, "judge" and "half_open" are the
places inside `Allow` between its two critical sections, "execute" is the provider's function.
`Ask` copies state and time, `Reject` and `Permit` compare the copy with the clock, `Probe` takes the
lock again and writes. The provider's answer and the report to its breaker are one step: nobody
can see the answer before the report. Providers may be added at any time, may have no breaker and
may share one. `concurrent` says whether callers overlap; it never changes.
Callers and thresholds are parameters; nothing else in the repository calls this library yet.

### Planning

`RoundTable` is one conversation per terminal: `AlphaTurn` and `BetaTurn` set or reset the
convergence flags, and a failed turn leaves its flag (`Signed`); after Beta's turn, or on `/plan`, comes
`Generate`, then the user's decision. An objection resets both flags and reaches nobody, as in the code.
`ScopeApproval` is `GenerateScope` (a ticket without an id is named by its phase and place, so ids
can repeat), the saved scope, and `ApproveScope`, one insert per step, which stops at the first
failure. Approving twice, and an approval beside another, are just more members of `Approvals`.
`Planning` adds `foundry plan` and `resume` around them: the session is saved before the
conversation and after it, by a write that may do nothing or leave the file torn, and any process may be killed.
Approvals start when no conversation runs: the two share only the scope file, read once at the
start. `said`, `forced`, `unfinished`, `overlapped` are ghosts.

`SaveScope` and `session.Clear` have no caller in the repository; `KeepScope` stands for the user who
saves the scope, without which nothing could be approved. The planner's tickets carry no
plugin id, which `Submit` accepts. The round table's own approval is a dry run: it
passes no dispatcher.

### Workshop

Both rulebooks are directories of files which any process may change between any two reads or writes
of another. A file is kept as what `Load` and `Lint` make of it (`Clean` contents, the default
compat.json, none, flawed, garbage); a hash as the contents it was computed from. A command is a process with a program counter
(`step`, `betaStep`): `Load` reads one file per step, `Sign` writes the manifest, `Archive` the
bundle. Writes truncate, so a failure may leave garbage. Each process may die at any step. The
architect's and the designer's sessions are one process each, and `InterviewEngine` is the conversation
in it: phases, the user's message and the model's answer stored one after the other, `Resume` from a graph that
may have lost messages, and the blocks of an answer, written one by one (`WriteBlock`). Nothing checks a block
against the phase, the session or the file it lands on: `FileOf` sends a category the engine does not know to
`<category>.json`, so that a block can overwrite every file `Load` reads outside catalogs/: compat.json, the vocabulary and the
manifest too. `Hand` is the user's editor, which writes or deletes the same files. `Overwrite` and
`OverwriteDesign` are such a write, by either. `faults`, `touched` and `lost` are ghosts that
say which of the disturbances a property excludes has happened. `faults` is taken back where the code mends the matter: "overlap"
by a command that begins with no other about to write the manifest, "manifest" by a promotion that signs while
no other is between manifest and bundle, "compat" by a write of compat.json that lints.

`RulebookArchive` is what the archive promises whoever pins a version: it changes only by a promotion to it, which signs
one sound book with that version and then puts it there, or a torn bundle, or nothing. `Shelved` is a version as a reader
takes it that compares the manifest in the bundle with the book in it.

What the modules keep of the code's oddities: an Init cut short between manifest and
compat.json leaves a rulebook that `Exists` takes for complete and that never lints; `promote
--version ""` writes the manifest and then cannot archive; archiving replaces an
older bundle of the version; beta's promotion neither lints nor archives; a truncated
beta file loads as an empty value; importing a design replaces the vocabulary by a stub; a block
`alpha:alpha_manifest` makes a promoted rulebook a draft, or anything else, with no archive behind it; the opening
question and the blocks in it are not kept; a user message stays when the turn fails; `Required`
is never consulted; a resumed session starts at the first phase again.

### Floor

`Collaboration`: each router has three subscriptions, each with its own thread and inbox; a message
goes once, in order, to those who have subscribed. `HandleAndon` writes the signal to the ledger, `Route`
classifies and publishes, `RecordAnswer` writes the answer; `RouteFails` is the publish that is not accepted. A
ledger write may fail, and is not looked at. `StopRouter` drains: what was delivered is
still handled, though nothing new comes in. `Raise` is the dispatcher's `PullAndonCord`, `Confirm` and
`RecordCommit` the repo adapter. `dropped` is a ghost.

`Maintenance`: a call checks the pair's state, updates its row under a WHERE clause whose row
count nobody reads, and writes to the ledger, in three steps. `Reassign` is whoever owns the pair.
The commands pass no ledger (`cmd/partir/maintenance.go`).

`PluginManager`: `Install` and `Update` read the registry's entry, download, write the binary and then
the manifest; each may fail or be cut short, and `Update` reads the registry twice. The HTTP status of a download is not
looked at, so an entry without a hash may bring `Other`. Nothing calls the package yet.

The three share no state but the ledger, which nothing reads; `Floor` runs them side by side.

### Admission

Nothing in `src/` calls `internal/resilience`, the quota manager or the priority queue except
their tests. `Quota` and `Resilience` are the libraries, operation by operation; `Admission` drives them with
workers in the order `docs/architecture/overview.md:92-109` gives: take a ticket, check its key, check the quota,
record the start, try with retries through the limiter, count tokens or write a dead letter, record the end, record
the key. Times are ticks. A save or a load of the usage store may fail; a crash
loses everything but the tables. The properties of the libraries do not depend on the order
but on what they say they exclude (`loose`: two tickets of a tenant checked at once, or a check
after a crash, which `CheckQuota` answers without loading what was saved; `beside`: keys two workers found new
at once, since the check of a key and its record are two calls).

## 3. Runs

Every run of `PROJECT.json` with `pass` is exhaustive within its bounds.

| run | instance | checks |
|---|---|---|
| `dispatcher` | 2 calls, 1 process, 1 ticket, 4 batches over 2 ids and 2 contents, gates on or off, both calls may meet failures, symmetry of the calls | seven invariants about the record and the retries, refinement of `RunLedger` |
| `dispatcher_serial` | 2 processes, one call each, never overlapping (`MaxActive = 1`), one call may meet failures, batches that repeat contents | catalog contents unique; a ticket in flight settles |
| `dispatcher_unique` | the same overlapping | counterexample to unique contents |
| `dispatcher_repeat` | 1 process, 3 calls in turn, 2 tickets | counterexample to "same class twice stops" |
| `factory` | 2 registries, 2 workers, 2 stations of 2 slots, clock to 3, timeout 1, one assign at a time, heartbeats of status active with no place or one and the same | exclusive slots, open stations, justified crash marks, slots kept, refinement of `SlotAllocation`, silent workers found |
| `factory_race` | the same, assigns overlapping, heartbeats of two statuses with no place | counterexample to exclusive slots |
| `breaker` | 2 callers, overlapping or in turn, a provider with a breaker and one without; 3 failures trip, 2 successes close, timeout 2 | trips and closes on streaks, timeout kept by callers in turn, `Execute` returns, an open circuit recovers |
| `breaker_timeout` | the same overlapping, 2 failures trip, timeout 1 | counterexample to the timeout for overlapping callers |
| `planning` | 2 terminals, 2 approvals, 2 plans of two tickets (one with the same made-up id twice), one edit that turns a plan round; symmetry | nobody asking when planned, resumable sessions, one approval per scope, refinement of `ScopeSubmission` |
| `workshop` | casts of up to three: two commands and the editor; the architect beside a command; a beta command beside the editor or the designer; 2 to 5 commands, sessions and edits each | refinement of `RulebookArchive`, what a promotion signed is archived, no command or session takes a promotion back, only Init cut short, blocks and the user break compat.json, beta hash true, answers follow questions |
| `floor` | one router with two halts, two with one, two with a commit and a submission; two maintenance calls on a pair; two plugin managers on a plugin of two versions | ledger true, phases only in maintenance, up to date means whole, a router answers a halt once, every signal answered |
| `admission` | 2 workers, 2 tickets of one tenant and one key with different priorities, one at a time and per hour; clock to 3; one retry, one crash, two pushes | counts cover what runs, quotas hold, nobody works under a recorded key, no window has too many requests |

No run has a type invariant: TLAPS proves them for every instance (`TypeCorrect` of three modules,
`PlanningTypeCorrect`, and the first conjuncts of the inductive invariants of the others). Each can be added to its
system's .cfg.

Why these bounds are enough to matter. Two calls are the least that race, and they have
every interleaving of every pair of statements, with a failure and a crash at each; the batches have none, one and
two artifacts, the smallest for which the store loop can stop in the middle, and an artifact
that reuses an id, for which it is refused. Two slots let an assignment skip a used one and find
a station full; two workers compete for a slot; the clock goes past the timeout twice, so that a
worker can be marked, come back and be marked again. Two callers of a chain are
enough for one to be inside `Allow`, or let through before a trip, while the other drives the circuit
through any number of states, since each calls again and again. `MaxFaulty` bounds the calls that meet a
failed write, `MaxActive` the calls in flight, `MaxTime` the clock. Deadlock is
not checked for the dispatcher and the registry, whose calls end and whose clock stops; it is
checked for the chain, which can always be called again.

`InFlightHasOwner` and the two-sided properties exclude calls in `hit`: a dropped
error of `UpdateState` does leave a ticket in flight, and the properties say precisely so.

In the larger systems a *cast* bounds who takes part in one behaviour: a state space is the union
over the casts, so that every pair of actors that share state meets, without everybody moving at
once. Each cast has the least number of actors for its question (two commands that overlap, and
an editor; two routers that answer one signal; two managers of a plugin), and the proofs
cover any number of them together. `Budget[cast]` is how many commands, sessions and edits are begun,
enough for a promotion, a change and another promotion; `MaxMessages` and `Spoken` bound what is
said in an interview, `HistoryLimit` is 2 so that a recalled history is cut. Answers of the model hold any of
`TheDrafts`, blocks for each file of `Load` that a block reaches, tagged with either module, and some that go apart; `Texts[s]` is what they put
there, or what is left of a write cut short, and `Edits[s]` what the user does, deletions and versions nobody made among it. Any phase may
bring any block, so it is enough to speak in the last phases (`Spoken`). The proofs put no restriction on drafts, texts and edits
but that each text is one of its file (`AlphaTexts`, `BetaTexts`).
Versions of a plugin go up to `MaxVersion`. `MaxTime = 3` lets an hour and a day end, `MaxPushes`,
`MaxRetries` and `MaxCrashes` let a ticket come twice, fail for good, and meet one restart. Deadlock is not
checked for these three sets (workshop, floor, admission), which stop when their budgets are used up; it is
checked for planning.

## 4. Fairness

`FairSpec` of `Dispatcher`: weak fairness of `Continue(c)`, the next statement of a call already
made. A goroutine in a live process is scheduled, and the model's executor and database answer,
with a result or an error (HTTP executors have time-outs). Nobody is obliged to make a call, and
no fairness is put on `Submit`, `RegisterTag` or `Crash`.

`FairSpec` of `FactoryRegistry`: the clock advances, and the detector's two steps are strongly
fair. Its ticker fires every ten seconds for as long as the process lives; Go's mutex hands
itself over to a waiter that has starved for a millisecond, so it gets the lock although others
keep taking it; and the database does not fail every update for ever. Strong fairness is needed
because other holders of the mutex disable the step again and again.

`FairSpec` of `FallbackChain`: the clock advances, a goroutine inside `Execute` goes on (so providers
answer or fail), and somebody goes on calling `Execute`. The last is an assumption on the users of
the library: a breaker has no timer, only a call can probe an open circuit.

`Spec` of `Floor`: weak fairness of `HandleHalt(r)`, the thread NATS runs for the andon subscription of
each router: it takes the next message and goes through `handleAndon` as long as the process lives. Nobody is
obliged to raise a signal, to start or stop a router, or to call anything else. Planning, Workshop and
Admission have safety properties only: nothing there waits for anybody, and whether users,
editors and models go on is not the code's to say.

## 5. Proofs

Theorems hold for every value of the constants that satisfies the named assumptions: any
number of calls, processes, tickets, artifacts, workers, registries, stations, slots, callers,
chain members, thresholds, time-outs, terminals, scopes, commands, sessions, routers, tenants.

`DispatcherProofs`. None of the safety invariants is inductive: `CompletedRunIsStored`, say,
needs to know what a call in the middle of the store loop has stored. `IInv` adds, for each call,
what holds at each stage: `StageInv` (the run row and the verdict follow the program counter),
`StoreInv` (the artifacts before `idx` are stored, and all of them after the loop), `CloseInv` (the
closing writes took effect unless the call met a failure), and `RowsPassed` (rows belong to calls
that passed). `Inductive` proves `Init => IInv` and preservation, one step per action; every
invariant the run `dispatcher` checks is a corollary. `Refinement` proves that each step of
`Spec` is a step of `RunLedger` or leaves the mapped variables unchanged, with `IInv` supplying
that rows are added only by open runs, that a failed run has added none, and that an id is new.
`RetriesStop` says what is left of "same defect class twice = stop" (`omega/retry.go:9`) beside the finding of
`dispatcher_repeat`: as long as nothing was reset (`KeepsHistory`), the history of a process holds every failure on
record (so says the stage of the call that wrote it), and of two that share a class the second found the first.
`RunGoesForward` proves `RunAdvances`, the safety half of `InFlightSettles`: `Beyond` orders the stages of `Run`, `Left`
counts what its loops have to do, and every step of a call goes forward in one or the other, whatever others do. What
fairness adds, that the steps are taken, stays with TLC.
`CatalogIsUnique` proves `UniqueCatalog` under two hypotheses, `MaxActive = 1` (calls of Run take turns) and engines
with the default gates. `GateInv` says what the gate has found out so far (no content repeats in the batch, none
before `idx` is in the catalog) and that it is still true of what is left to store, since nobody else stores
meanwhile. The run `dispatcher_unique` shows that the first hypothesis is necessary.

`FactoryRegistryProofs`. `IInv` adds that the slots an assignment in progress read are still all
that are used at its station (`AssignInv`). This is true because, while it runs, given places (`GivenSlots`) are only
given up, and it needs the hypothesis that assign commands come one at a time (`OneAtATime`), stated in
`SlotsAreExclusive` and in `AllocatesSlots`, the refinement of `SlotAllocation`; the run `factory_race` shows
that it is necessary. In the refinement `AssignCommit` is the step that takes a place,
free because of `AssignInv`, a first heartbeat may announce one, and every other step gives places up one at a time or
keeps them. No theorem restricts what heartbeats announce: where they announce nothing, `announced` stays empty and
exclusivity is that of all workers. `AssignedStationsAreActive`, `MarkedAreSilent`, `SlotsSurvive` and `TypeCorrect`
have no hypothesis.

`FallbackChainProofs`. `CountersInv` says that the counters never run ahead of the reports: a closed
circuit has counted at most the failures in a row, a half-open one at most the successes in a row,
and no success is counted elsewhere. It is preserved by each critical section whatever the
callers' stale copies make them write, which is why `TripsOnStreak` and `ClosesOnStreak` hold
under any concurrency. `AloneInv` says that a copy is still true when callers take turns, which
gives `AloneWaitsForTimeout`; `breaker_timeout` shows that it fails when they do not. `ExecuteEnds` proves
`ExecuteIsBounded`, the safety half of `ExecuteReturns`: `StepsLeft` of a call falls with each of its steps and with nobody
else's, and is at most four for each provider of the chain and four more.

`PlanningProofs`. `IInv` (in `PlanningProps`) ties the flags to what was said in the round
(`TalkInv`: an agent that asked has its flag down, from its turn to the end of the round), an approval's place to
the rows it owns (`SendInv`), and the session file to the plan that runs (`SessionInv`).
`FirstTicketWins` follows from `SendInv` because all tickets of an approval follow its first one. `ScopesGoInOrder` is the
refinement of `ScopeSubmission`: each insert of an approval is the next of its scope, everything else a stutter.

`WorkshopProofs`. The alpha and the beta half have invariants of their own, and a lemma for each half
says what any step may do to it (`AlphaNext`, `BetaNext`), so that interviews and the other half are dealt
with once. `AlphaInv`: a book about to be signed has been linted (`BookRead`); while the ghost "overlap" is not set, at most one process is
about to write the manifest and, if it is an Init, the manifest is as it found it (`AlphaAlone`); while "manifest" is
not set, at most one promotion is between manifest and bundle, and a promoted manifest is its own (`Archiving`); while there is
a manifest and "compat" is not set, compat.json lints or is about to be written (`CompatKept`). A promotion that has read its
files relies on that when it makes a manifest where the user has just deleted one, so each step must keep `CompatKept` without a manifest too (`CompatStays`).
The three theorems exclude different disturbances and no more: `PromotedIsArchived` holds whatever overlaps elsewhere
and whatever is written to the files; `CompatIsThere` under any overlap of commands and any write but one that breaks
compat.json itself or makes a manifest beside a broken one; `PromotedIsNoDraft` for the steps of commands and sessions that began alone. `ArchivesAreSound`
needs only the first, and so holds under any overlap and whatever is written over the manifest. So does `ArchivesKeep`, the refinement of `RulebookArchive`: writing
the manifest is the abstract `Sign`, which fixes version and book; the end of the promotion, by the bundle, a torn one,
a failure or a kill, is its `End`, and every other step of any process leaves both sides alone. `BetaInv` is of the same shape: `Prepared`,
and `BetaAlone` for a Save nothing interferes with.

`InterviewProofs`. `TalkInv` says that an engine is at work only while its process is in the conversation, and that while an
answer is awaited the last message, in memory and in the graph, is the user's of this phase. Two lemmas about lists do the
rest: appending an answer after its question, and cutting a log to its end, keep answers next to their questions.

`FloorProofs`. Three invariants that do not meet: the ledger and the messages sent, with what each
router is about to record; the phase of a pair, kept by the WHERE clause of each update, whatever the earlier check
saw; a plugin nobody worked on at the same time as another, with the stage its one manager is in.
`HaltsAreHandledOnce` needs a fourth, `OnceInv`: a halt is in a router's inbox at most once, and one that was
answered only as the first, while the router records the answer; so taking the first leaves every other where it was
(`OneTaken`, `WaitsOn`), and `Route` never meets one answered before.

`AdmissionProofs`. Per tenant: the workers whose ticket runs are at most the count (`Counted`), from the
cardinality of `Running(t)` changing by one with each start and end; and for a tenant that is not loose,
while one of its tickets is between check and start there is room for it in the quota (`Single`); `Fresh` says when
nothing about a tenant is known yet, and that a tenant met after a restart is loose.
`RateIsLimited` compares two logs: `requests`, which the limiter prunes, is always the end of `allowed`, all that was
ever let through, and what was forgotten is older than the window that ends now (`LimiterInv`). `Cuts` says where the
binary search of `Allow` can stop by the two entries next to the place; that the entries before it are too old and
those after it are not, since the log is sorted, is a lemma (`PrunedKeepsEnd`) and not an assumption. A window that holds the
new request then holds no more than the log has room for.
`NoKeyIsRepeated`: a key that no two workers found new at once has at most one worker under it, and is not recorded while it
has one (`KeyInv`).

Model-checked only: liveness (`InFlightSettles`, `SilentIsMarked`, `ExecuteReturns`, `FirstRecovers`,
`EverySignalAnswered`), which the installed provers cannot do. Every other property of a passing run is a theorem.
`RunAdvances` and `ExecuteIsBounded` are in no run of `PROJECT.json`: as a `PROPERTY` of `Dispatcher.cfg`,
`DispatcherSerial.cfg` and `FallbackChain.cfg` TLC finds them true too.

## 6. What was found

By runs that expect a violation:

1. Two runs in flight can store the same content twice (`dispatcher_unique`).
2. A success of one ticket clears the retry history of all (`dispatcher_repeat`).
3. Two assign commands can give the same slot to two workers (`factory_race`).
4. A circuit can go half-open right after a failure, on a stale copy (`breaker_timeout`).

While reading and modelling, quoted in `PROJECT.json`:

5. `Submit` cannot insert a ticket against the migrated schema.
6. `foundry calibrate` compares states in lower case with states in upper case, and never runs what it submits.
7. The dispatcher makes neither of the checks the architecture overview shows, and retries nothing itself.
8. A promotion to an existing version replaces its bundle, although bundles are called immutable.
9. The round table may plan in a round in which only one agent answered.
10. `Required` of a phase is never looked at.
11. A block of an interview can replace the manifest, compat.json or the vocabulary, which no documented target is.

The properties that hold say what remains true beside these: content is unique for runs in turn;
planning never starts while an agent still asks; a bundle that is replaced is
replaced by a whole one; a block or an edit that spoils the manifest or compat.json never reaches the archive unlinted.

## 7. Plan

Every component with state of its own that the code changes is modelled, and every safety property is proved. What could still be added:

1. The conversion of columns to JSON Schema and the phases of intake as operators checked against a reference.
2. Admission with two processes over one usage store, as soon as the code has a caller that decides how the store is shared.

## 8. Not modelled, and why

The gates other than uniqueness (schema, determinism, version, agent output, budget, combos) are functions of one
input: the dispatcher model lets them decide freely. The throughput controller reads constants,
and external sync returns an error. Security middleware, telemetry, metrics,
formatting, configuration and script generation keep no state whose order matters; nor do the read-only
commands and HTTP handlers. The spreadsheet intake of an interview saves a result nobody reads. Catalog sources for
marketplaces are stubs. The user edits the files of a rulebook but not its versions/, which no block reaches either. Language models, plugins, worker programs, NATS, the graph service and the plugin registry are outside the
repository and appear only as what they may answer. `PROJECT.json` gives a note for each component.
