# TLA+ models of dastracker

dastracker receives webhooks of task trackers (github, or plugins over JSON-RPC), runs the configured
jobs over them, and keeps a ticket for every issue that links the tasks standing for it in the trackers.
This directory holds models of its core, TLC instances of them, and proofs checked by TLAPS. File and line
numbers refer to the repository's sources; `actor.go` is `app/store/service/actor.go`,
`bolt/...` is `app/store/engine/bolt/...`.

## The system

| component | state | operations | talks to |
|---|---|---|---|
| **Actor**, updates (`actor.go:66-101, 199-280`) | none beyond its goroutines; per job: the ticket read at the start of a sequence | `handleUpdate` per webhook, a job per goroutine under a `SizedGroup` of 15, `runSequence` (recursive for `if`), `act` | tickets storage, trackers |
| **Actor**, triggers (`actor.go:35-64, 118-197`) | per trigger: subscription and reference on their way to the storage | `Listen`, `registerTriggers`, `unregisterTriggers` (deferred) | subscriptions manager, trackers |
| **Tickets storage** (`bolt/ticket.go`) | buckets `tickets`, `refs` | `Create`, `Update`, `Get` | bbolt |
| **Subscriptions storage** (`bolt/subscription.go`) | buckets of subscriptions, by tracker, by tracker and trigger | `Create`, `Update`, `Get`, `Delete`, `List` | bbolt |
| **Subscriptions manager**, webhook server (`service/subscription.go`, `store/ctx.go`) | the requests in flight, each with the entry of its context | `Create`, `SetTrackerRef` (a read and a write), `Delete`, `List`, `Listen`, `whLoaderMiddleware` | subscriptions storage, actor, HTTP |
| **Command run** (`cmd/run.go`) | the context of the process and its errgroup | `Execute`: stores, trackers, then signal, actor, server | all of the above |
| **RPC client** (`pkg/rpcx`, `pkg/repeaterx`, `strategy.FixedDelay`) | `cl`, one shared connection | `NewRedialer`, `Call` | plugin |
| **Plugin library** (`lib/plugin.go`) | a listener and its connections | `Listen`, its accepting loop | RPC client |
| **Trackers** (`app/tracker`) | the handler set by `Listen` | `Call`, `Subscribe`, `Unsubscribe`, `HandleWebhook`, `Listen` | github, RPC client |
| **Flow configuration** (`engine/static`, `store/ctm.go`) | jobs by trigger, immutable once read | `NewStatic`, `validate`, `Sequence.UnmarshalYAML`, `Action.Path`, `ListTriggers`, `ListSubscribedJobs` | actor |
| Conditions and templates, `sign`, `logx` | - | - | - |

What is hard in it:

- *Concurrency*: jobs of one update and of overlapping updates read a ticket, call trackers for seconds and
  write the ticket back, without a lock (`actor.go:200-254`); triggers are registered and unregistered in
  goroutines; all jobs share one RPC connection in a field without a lock (`redial.go:52-54`).
- *Failure*: any step of a job may fail after an earlier one has changed a tracker; answers are lost; the
  process dies between a change in a tracker and its record in the storage, and an update is not delivered twice.
- *Order*: a tracker sends the webhook of a task before the ticket that links it is saved, and a webhook of the
  first trigger before the second is registered and before the handlers are set; three goroutines race
  for the first error of the process.
- *Timeouts*: HTTP calls end after 5 s or with the context, calls of plugins with neither.

`PROJECT.json` lists every hazard at its line, with the properties that guard against it, or with a note where none does: there the
code does what the hazard says, and nothing in the repository promises otherwise.

## Modules

| module | models | state |
|---|---|---|
| `BoltTickets` | `bolt/ticket.go`, `store/ticket.go` | `tickets`, `refs`: the two buckets |
| `Updates` | `handleUpdate`, `runSequence`, `act`, `SizedGroup`, and the trackers as the set of tasks that exist; extends `BoltTickets` | `tasks`, `owner`, `handler`, `expired`, `pc`, `stack`, `crashes` |
| `MCUpdates` | scenarios of `Updates` | - |
| `UpdatesProofs` | theorems about `Updates` | - |
| `SerialUpdates` | updates that arrive one after the other; extends `Updates` and adds no action | - |
| `MCSerialUpdates` | a scenario of `SerialUpdates` | - |
| `SerialProofs` | theorems about `SerialUpdates` | - |
| `BoltSubscriptions` | `bolt/subscription.go` | `subs`, `byTracker`, `byPair`: the three buckets |
| `Lifecycle` | `Run.Execute`, `Actor.Listen`, registration, unregistration, and the trackers as the set of their webhooks; extends `BoltSubscriptions` | `hooks`, `config`, `signal`, `actor`, `server`, `done`, `err`, `listen`, `reg`, `unreg`, `starts`, `trouble`, `troubled` |
| `MCLifecycle` | configurations for `Lifecycle` | - |
| `LifecycleProofs` | theorems about `Lifecycle` | - |
| `WebhookServer` | the webhooks of a running program, from the server to the end of `handleUpdate`; extends `Lifecycle` | `handlers`, `requests` |
| `MCWebhookServer` | configurations for `WebhookServer` | - |
| `WebhookServerProofs` | theorems about `WebhookServer` | - |
| `Redialer` | `rpcx.Redialer`, `AllowedErrors.Do`, `FixedDelay`, the client of net/rpc, and the plugin library | `plugin`, `new`, `cl`, `conns`, `ends`, `pc`, `on`, `attempts`, `expired`, `sent`, `executed` |
| `MCRedialer` | instances of `Redialer` | - |
| `RedialerProofs` | theorems about `Redialer` | - |
| `Flow` | `engine/static`, the decoding in `store/ctm.go`, the preparations of `Run.Execute`, and the lookups of trackers by the actor | `phase`, `doc`, `flow`, `job`, `todo`, `seen`, `subs`, `made`, `trackers`, `reg`, `run` |
| `MCFlow` | configuration files for `Flow` | - |
| `FlowProofs` | theorems about `Flow` | - |
| `IssueLinks` | abstract: what the program promises of its links | `exists`, `view` |
| `LinksProofs` | `Updates` implements `IssueLinks` | - |
| `RemoteCall` | abstract: what a caller of a plugin may rely on | `phase`, `executed` |

`Updates`, `WebhookServer` (with `Lifecycle`), `Redialer` and `Flow` are four views of one program, which meet where
one calls another: `WebhookServer` lets an update in whose jobs are the matter of `Updates`; a call of
`Updates` has the outcomes of a `RemoteCall`; and that steps and triggers name configured trackers, which
`Updates` and `Lifecycle` assume, is what `Flow` shows of a file that is accepted.

Definitions named `...` with a comment "mutant" (for instance `SaveAsNew` before `Save`) are plausible bugs
of the definition that follows them. No action uses them; `PROJECT.json` pairs each with the property
that finds it.

### Updates

An action is what a goroutine does between two calls to the storage or a tracker: `Spawn`, `Acquire`
(the semaphore), `GetTicket` (`actor.go:200-208`), `EvalIf` (222-232), `CallAnswered`, `CallLost`,
`CallSkipped`, `CallRefused` (the outcomes of 268-272), `Save` (238-254) and `Fail` (every other error
return). `stack` holds an activation of `runSequence` per nested `if`, each with its own ticket.

Abstractions: a task is its locator, the content of tasks is left out; a condition may hold or not; an
`owner` (a history variable) remembers the issue a ticket was made for, and `tasks` the issue a task
stands for. The issue of an update that names no task is the update itself. An update of a task can
arrive once the task exists, hence also before the job that made the task has saved its ticket.

What the trackers may do is read off their use: an HTTP request is not sent once its context is done, a
plugin is called in spite of it (`redial.go:52`); a call with an empty TaskID makes a task, as
`github.go:79-87` does; some methods of plugins answer without a task (`Silent`; `_example/plugin/main.go:22-26`);
`CallSkipped` is the outcome `Redialer` finds: nil without a call.

### Lifecycle

The actions follow the goroutines of `Execute` (`CatchSignal`, `SignalReturns`, `ServerReturns`), of
`registerTriggers` per trigger (`RegCreate`, `RegSubscribe`, `RegAnswered`, `RegCanceled`, `RegGet`,
`RegUpdate`, `RegFails`), the actor itself (`Registered`, `ListenersReturn`, `ListAll`, `ActorReturns`), and of
`unregisterTriggers` per entry (`Unsubscribe`, `UnsubscribeFails`, `UnsubscribePanics`, `DeleteEntry`).
`Start` picks a configuration: its trackers, its list of triggers, and the names of triggers that jobs are attached to. Two triggers may
share a name, as `validate` lets them; a goroutine goes by the place of its trigger in the list. `Crash` forgets all but the storage and the trackers. A call in flight is a
state of its own (`"call"`), because its context may be canceled there.

### WebhookServer

`Process` is a step of `Lifecycle`, and the rest runs beside it. A request is `Accept`ed from any webhook that
exists while the server serves; `LoadEntry` is the middleware (`subscription.go:79-99`), which puts the entry in the context;
`Handle` is `Actor.HandleWebhook` with the tracker's, up to `ListSubscribedJobs`, which finds no jobs for a trigger that is not configured any more or that
no job names; `Finish` is the end of `handleUpdate`. `SetHandler` is what
`Listen` of a tracker does before it waits. A request may be in flight while its entry is deleted, while the
listeners end, and when the process ends, which does not wait for it (`cut`): `ListenAndServe` returns as soon
as `Shutdown` is called. A webhook that meets an unset handler is refused by github's tracker and panics in a
plugin's (net/http recovers it); the handler of github's may also be read torn, since no lock orders the write
of the interface with the read.

### Redialer

One action per attempt's part: `Select` is the `select` of `Do` with its three ways out, `Call` the use of
`cl`, `Redial` and `Assign` the dialing and the later write of `cl`, between which others run. `sent` and
`executed` are apart from the caller, so that a plugin may execute what its caller has given up. The plugin listens,
accepts, stops and may be started again (`PluginListens`, `Accept`, `PluginStops`, `PluginEnds`); its connections
outlive its listener until its process ends, and any may be lost (`Lose`).

### Flow

`phase` follows `Execute`: the file is read, `CheckTriggers`, `CheckJob` and `CheckStep` are `validate`, with its recursion as a worklist
`todo`; `Group` is the loop of `NewStatic`; then the stores and trackers are made. From `"running"` on, `Register`,
`HandleUpdate` and `RunStep` do the lookups of the actor, where a name that is not in the map of
trackers is a nil interface and a panic. A name of an action is the sequence of the parts between its slashes,
so that `Path` is `Head` and `Tail`. Jobs share nothing here, so that one runs at a time.

### The refinements

- `Updates` implements `IssueLinks`: a task is seen by the tasks a lookup of it leads to (`View`), and each step
  relinks the tasks of one issue among themselves, or makes one task appear.
- `Redialer` implements `RemoteCall`: the places of a caller are mapped to idle, pending or an end (`Phase`). The end
  of a connection fails all the calls on it in one step.

## What the runs check

| run | instance | shows |
|---|---|---|
| `updates_serial` | 3 trackers, one that answers with empty tasks, mirrored in both directions; 5 updates of 2 issues, an item and a task without an ID, one at a time; failures, lost answers, timeouts, one crash | `TypeOK`; `NoDuplicateTasks`: an issue has one task per tracker until something fails; `DoneLinks`: a successful job has linked all its tasks; `OneTicketPerTask`; `LinksKept`: a stored link is never dropped or replaced |
| `updates_concurrent` | 3 trackers, 4 overlapping updates, an `if`, a tracker without IDs; failures, lost and skipped calls, one crash | `RefsSound`, `Ownership` (the inductive invariant), `Isolation`, `CallsOwnIssue`, `ImplementsIssueLinks` |
| `updates_live` | 2 updates of 2 jobs, semaphore of one | `HandlerReturns` |
| `updates_nested_if` | the shape of the README's configuration, no faults | violates `NoDuplicateTasks` |
| `lifecycle_restarts` | 2 trackers, 2 triggers, 7 configurations, in two of which both have one name, 2 starts, one failure of any kind and signals | `TypeOK`, `IndexConsistent`, `RefsOwnHook`, `ListeningComplete`: every trigger has an entry of its own and its webhook, `NextStartFree`, `EntryOutlivesHook` |
| `lifecycle_stop` | `WebhookServer`: one webhook at any moment of two lives, github and a plugin, a trigger that moves between them; one trouble of any kind | `ServerTypeOK`; `Attributed`: a webhook is read by the tracker that sent it; `RunsRegistered`: no job runs before all triggers are registered; `RunsConfigured`: nor for a trigger of an earlier configuration; `KeptWhenReady`: a listening program runs the jobs of every update it is sent; `Terminates` |
| `lifecycle_unset` | 2 triggers on github, one start, a signal only | violates `HooksUnset` |
| `lifecycle_panic` | a crash, and a restart that may drop a tracker | violates `ListenReturnsError` |
| `redialer_calls` | 2 calls, 3 repeats, 3 connections; a plugin that stops, ends and comes back | `TypeOK`, `AtMostOnce`, `ImplementsRemoteCall`, `CallReturns` |
| `redialer_skip`, `redialer_panic` | 1 call | violate `OkMeansExecuted`, `NoPanic` |
| `flow` | every file of 5 lists of trackers, 3 of triggers, and up to 2 jobs of up to 2 steps with an `if` | `FlowTypeOK`; `NoPanic`; `ValidatedExactly`: a file is refused exactly when something is wrong anywhere in it; `JobsGrouped` |

**Bounds.** IDs are only compared, so a new one is the next in order (`InOrder`), which leaves out
renamings alone. Two updates of one issue are the least that can duplicate a task or lose a link; a third of
its counterpart adds the feedback of the mirror, and one of another issue makes mixing-up possible. One crash
and one restart show every state a crash can leave and what the next life makes of it. In `lifecycle_restarts`
four IDs are enough for two triggers in two lives. In `redialer_calls` a call redials once at most, so that a
connection per call and the first one are all there can be. In `lifecycle_stop` one webhook meets every state of
the process, since requests do not touch each other; a second life follows only between configurations whose trigger moves or
stays, which is where an old entry could meet a new handler. With two triggers, the second has no jobs. A webhook is called only while it exists, and arrives at once;
one that is delayed past its removal is a request that is accepted just before. The files of `flow` hold each thing
`validate` refuses, at the top of a job and in an `if`, beside one that is right: an unknown tracker, an unknown trigger, a name with its slash
missing, first or last, more slashes, a tracker with a slash in its name, and a driver that is not known. `CHECK_DEADLOCK FALSE` is set everywhere: the
instances have a finite number of updates, starts or calls, after which nothing is left to do.

**Serial and overlapping updates.** `SerialUpdates` restricts the steps to one handler at a time (`Serial`).
The code does not do so, and what is shown about links does not hold for overlapping updates: two
updates of an issue nobody has mirrored yet both find no ticket and both create one. Nothing in the
repository says otherwise, so that it is recorded as a hazard and not as a finding. `SerialAssumption` says what else it
takes, and each part of it is needed: no `if` (`updates_nested_if` shows why); no two jobs on one trigger, since they
would run at once; no skipped call, which stores an empty ID over a known one; and no tasks at the start in a tracker that
answers with empty tasks, for its answer would replace them.

**Fairness.** The Go scheduler runs every goroutine that can run: weak fairness of every local step. Calls
of github end, because the client has a timeout of 5 s (`run.go:130-147`): weak fairness of their
outcomes. Calls of plugins get none in `Updates` and `Lifecycle`, for nothing bounds them; in `Redialer` the
plugin is assumed to execute and answer what it is sent, which is what `CallReturns` is conditional on.
`Terminates` is likewise conditional on plugins that answer (`PluginsAnswer` in `MCWebhookServer`): one that does not
answer `Unsubscribe` keeps the process from ending (`actor.go:38` passes a context that is never done).
`SetHandler` is the first thing a listening goroutine does, and fair like every local step.

## What the violations show

1. **Tasks made under an `if` are forgotten** (`updates_nested_if`). The nested `runSequence` saves a ticket
   of its own; the enclosing one then saves its copy, read before, without the new task, under a new ID. The
   next update finds that one and creates a second task.
2. **A webhook survives the shutdown** (`lifecycle_unset`). A signal cancels a `Subscribe` github has
   executed; the entry has no reference, `Unsubscribe` with an empty one is answered 404, which counts as done.
3. **Listen panics after a change of the configuration** (`lifecycle_panic`), at every stop, because the
   entry of the tracker that is gone is never removed.
4. **A redial answers nil without a call** (`redialer_skip`), and the job that made the call stores an empty ID
   over the one it knew; so a plugin that creates on an empty TaskID creates a duplicate next time.
5. **A redial that fails panics** (`redialer_panic`), since no caller sets `Redialer.log`.

Smaller divergences met on the way, which no run is spent on: `maxConcurrentUpdates` is said to bound
the goroutines that process updates (`actor.go:20-21`) and bounds those of one update (`actor.go:89`); `--update_timeout` is
"amount of time per processing single update" (`run.go:38`) but ends neither a call of a plugin nor the wait for the
semaphore; `ErrInterrupted` "is returned when the signal to application to stop was caught" (`cmd.go:28`), unless the
actor or the server return first, after `stop()` at `run.go:90`; `Do` "considers every non-listed errors as allowed for
repeating" (`repeaterx.go:28`) and returns them at once (`repeaterx.go:54-56`), so that `NewRedialer` never repeats a dial;
`Actor.Listen` "always returns non-nil error" (`actor.go:35`) and returns nil when no tracker is configured.
`validate` accepts two triggers of one name in one tracker, of which the second is refused at every start with `ErrExists`
(`ListeningComplete` shows that the program never listens with them); and a tracker whose name holds a slash, which no action can call, since its name is cut at the first one (`ctm.go:84`).

## What is proved

The proofs are for every value of the constants that satisfies the named assumptions
(`NamesAssumption`, `UpdatesAssumption`, `RefsAssumption` for `Updates`; `SubNamesAssumption`,
`LifecycleAssumption` for `Lifecycle` and `WebhookServer`; `RedialerAssumption` for `Redialer`; `FlowAssumption` for `Flow`;
`SerialAssumption` on top for `SerialUpdates`, which is without ifs and overlapping updates): any trackers, configurations and names, jobs with ifs nested to any
depth, any number of overlapping updates, triggers and starts, every fault and any number of crashes. The
assumptions say that the empty name is no ID of a ticket or a subscription, no reference and no tracker; that steps
name configured trackers and sequences, and triggers configured trackers (`config.validate`); and that
no tracker or ID holds the separator `!!`, so that two tasks do not share a reference.

`UpdatesProofs`:

- `TypeCorrect`: `Spec => [](TypeOK /\ Dispatched)`. A step of a job uses the top of its stack, so that the
  type needs `pc` and `stack` to agree, and jobs need the task of their update to exist (`Dispatched`).
- `IssuesOwned`: `Spec => [](TypeOK /\ Dispatched /\ RefsSound /\ Ownership)`. `Isolation` is not
  inductive: a stale copy of a ticket in some job's memory may be saved at any later time. `Ownership` therefore
  says of all three places where links are kept (stored tickets, references, frames of running jobs) that each
  belongs to one issue, the owner of the ticket, and that a task never changes its issue.
- `RefsAlwaysSound`, `IssuesIsolated`, `CallsStayInIssue` follow from it.

`LinksProofs` proves `SeparatesIssues`, `Spec => ImplementsIssueLinks`, from the same invariant: a save changes the lookups of
the tasks of one issue only, because the ticket, its references and the tasks that are replaced all have its owner.

`SerialProofs`, for updates one at a time, builds on `IssuesOwned`; its invariant is `SerialUpToDate`, `SerialSpec => []SerialInv`:

- `RefsExact`: a reference leads to a ticket exactly when the ticket holds the task. With overlapping updates the
  second of two tickets would take the references of the first.
- `FramesCurrent`: what the one job that runs holds in memory has all the links of the stored ticket and none of another,
  its own task, and a task in every tracker it has called. `Alone` gives that no other job is running.
- `TasksLinked`, until something fails: two tasks of an issue are linked, or the issue is that of the running job, which then
  knows all of them. The issue of an update that names no task has no tasks before its one job runs.
- `SilentEmpty`: a tracker that answers with empty tasks has none, so that its answers remove no link.

From it follow `OneRecordPerTask` (`OneTicketPerTask`, from `RefsExact`), `NoLinkLost` (`LinksKept`: what is saved holds the stored links),
`NoTaskMadeTwice` (`NoDuplicateTasks`), and `SuccessLeavesLinks` (`DoneLinks`: a job ends by saving a ticket with a link for each of its steps,
and `LinksGrow` keeps them for good).

`LifecycleProofs` proves one inductive invariant, `AlwaysInv`, of five parts, and reads the properties off it:

- `IndexesAgree`, `HooksApart`, `ListeningHasHooks`, `NoHookForgotten`, `TypesKept`:
  `Spec => []IndexConsistent`, `[]RefsOwnHook`, `[]ListeningComplete`, `EntryOutlivesHook`, `[]TypeOK`.
- `IndexConsistent` alone is not inductive: `SetTrackerRef` writes an entry it has read in another transaction.
  `Registering` says what the goroutine of a trigger has done by its place: its entry is stored under its ID,
  names its tracker and trigger, and from the answer on there is the webhook made for it. `IDsApart`, a part of it, is why triggers of one name
  do not share an entry.
- `Cleaning` says that the entry a goroutine of `unregisterTriggers` holds is the stored one, and that its webhook is gone
  before it is deleted; it rests on `unreg # {} => actor = "unregistering"`, that is, on registration having ended.
- `HooksOwned` extends `RefsOwnHook` to the references still in memory.
- `NothingLeft`: `Spec => []NextStartFree`. A second invariant, `Cleanup`, says that once the entries are listed, and as long as
  nothing has failed, every entry that is left has a goroutine that is to delete it, its tracker being strict apart.

No assumption about names that hold `:` is needed: two pairs that share a reference refuse each other.

`WebhookServerProofs` maps each step of the server to a step of `Lifecycle` or a stutter, so that `AlwaysInv` holds here too,
and adds what is known of the requests and of the webhooks of earlier lives:

- `ServerTypesKept`; `AlwaysAttributed` (`Attributed`): the entry of every webhook that exists names the tracker it is in, and
  once a request is accepted its webhook exists or registration is over, so that no new entry takes the ID before the lookup;
  `JobsAfterRegistration` (`RunsRegistered`): a handler is set only when all triggers are registered, and until the process ends.
- `JobsOfConfiguration` (`RunsConfigured`), from `EntriesConfigured`: without troubles a process starts with an empty storage and ends with one,
  so that every entry is of its own configuration (`Cleanup` of `LifecycleProofs` gives the end). It is stated for trackers that are not `Strict`: a strict one may refuse to remove
  a webhook it does not know, its entry stays, and a later `Listen` without that tracker panics and leaves the entries of the others as well.
- `ReadyRequestsKept` (`KeptWhenReady`), from `Kept`: until the context is done or something fails, a program that listens goes on to, with the handlers
  of all its trackers and the entries it has registered, and an update it has let in finds them, and the jobs of the trigger its webhook was made for.

`RedialerProofs`, for any number of callers, attempts and connections: `Typing`; `AtMostOnceHolds`, from `SentOnce`, by which what was sent
or executed of a call is its current attempt alone, and the call waits for it or has returned; and `Implements`, the refinement of `RemoteCall`.

`FlowProofs`, for every set of files that are trees of blocks, all of them reached from the jobs (`FlowAssumption`; that is what YAML is, for the decoder
refuses an alias inside itself, and what is no part of a job is no block): `FlowTyping`, and `NeverPanics`, `Spec => []NoPanic`. `NoPanic` needs what `validate` leaves behind:
of every block it has entered, each step is right or still in `todo`; hence, with nothing left to do, the blocks it has seen are right and
closed under `if`, and a job starts in one of them and never leaves them.

- `ExactlyValidated` (`ValidatedExactly`), from `Exact`: a refusal has a reason in the file. Conversely, the blocks that an accepted file has had looked at contain
  those of its jobs and are closed under `if`; since nothing smaller than the file is (`Reached` in `FlowAssumption`), they are all of it.
- `JobsAreGrouped` (`JobsGrouped`), from `Grouping`: after so many jobs, the list under a trigger holds those of its jobs, by a growing map of their places.

Only model-checked: the liveness properties (`HandlerReturns`, `Terminates`, `CallReturns`), which are out of the prover's reach. Every
invariant and every other temporal property of a passing run is a theorem.

## Not modelled

- The content of tasks, templates and the expression language: an evaluation has no state, and holds, does not hold or fails.
- The YAML parser, logging, the HTTP helper and the entry point, which keep no state; `sign`, which no code but its test uses;
  `Redialer.Close` and the listing of subscriptions by tracker, which have no caller; mocks and the example.
- What happens to the task of a job that fails or is cut off before it saves, to connections that redials replace, and to the end of the process when a
  plugin never answers `Unsubscribe`: the models have all three, and no property is stated of them, since the repository promises nothing.
- Vendored libraries are modelled from their use: bbolt as atomic transactions that may fail, errgroup, `SizedGroup`, net/rpc, net/http.
- `Tickets.Get` parses bytes of a finished transaction (`ticket.go:113-115`); the model reads them atomically, because what else it could
  read is whatever a reused page of bbolt holds.
- A webhook of github that is not about an issue is taken for issue 0 (`github.go:243`); to the models it is an update of one more issue.
- A second signal, which goes to a channel that nobody reads any more (`run.go:83-94`); the number of updates handled at once is not bounded by the code, and is by the constants.
- The order in which a tracker's webhooks arrive is arbitrary, and each arrives at most once. A request that is cut off is
  executed at once or never, except in `Redialer`, where it may be executed later.

## Plan

Done: the modules above, in the order `BoltTickets`, `Updates`, `BoltSubscriptions`, `Lifecycle`, `Redialer`, `RemoteCall`, `IssueLinks`,
`WebhookServer`, `Flow`, `SerialUpdates`, each with its runs and proofs.

Left: a `BoltTickets` whose reads end after their transaction; an instance of `WebhookServer` with two webhooks and two troubles; what can be
said of jobs with ifs when updates do not overlap.
