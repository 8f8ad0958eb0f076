# A model of the Open Design daemon

Open Design is a local daemon (`src/apps/daemon`) that runs coding agents as
child processes for a web client. One request is one *run*: an agent process,
a stream of numbered events that clients read over SSE, and one outcome. This
directory holds TLA+ modules for that core, the TLC configurations that check
them, and proofs.

## 1. The system

### Components that carry the logic

| Component | State | Operations | Hard behaviour | What makes it correct |
|---|---|---|---|---|
| **Chat run service** `runs.ts` | a map of runs: status, `cancelRequested`, ring buffer of events, attached clients, pending waiters, child, session | `create start emit finish fail stream wait cancel shutdownActive`, cleanup timer | clients attach, drop and reattach while events are emitted and the buffer overflows; several parties end the run | no gap and no overlap at attach; only evicted events are lost; one outcome, told to everybody; shutdown leaves no process |
| **Chat run** `server.ts` 9571-11002 | the closure of `startChatRun`: child, session, token, watchdog, flags | the request up to the spawn, stream, error and close handlers, watchdog and kill timers | cancel and shutdown between the awaits; watchdog against cancel; a dying process that has several reporters | a run ends, with the status its history justifies, and its process and token do not outlive it |
| **RPC sessions** `acp.ts`, `pi-rpc.ts` | handshake stage, `finished`, `fatal`, `aborted`, timers | requests, answers, `abort`, stage timeout | a late answer against a timeout or an abort | a completed turn is a success, anything else is not |
| **Tool tokens** `tool-tokens.ts` | grants by hash and by run, a timer each | `mint validate revokeToken revokeRun` | expiry against use against the end of the run | both indexes agree; no token of an ended run is valid |
| **Critique orchestrator** `critique/` | rounds, deadlines, the ship decision; a row per run; a registry of running ones | parse, decide, ship, fall back, time out, interrupt, reconcile at boot | total and round deadlines, exit of the child and interrupt race | a row has one terminal status; what is shipped is on disk |
| **Host answers** `server.ts` 10722-10776, 11008-11053 | questions pending, whether stdin is open | a question is announced, answered | an answer before the next question | stdin is not closed under a question |
| **Message store** `db.ts`, `server.ts` 1897-1922; **web client** `ProjectView.tsx`, `providers/daemon.ts` | the messages row of a run; the message on the page, what it reads, what it posted | pin, reconciliation on run end, whole PUTs; send, read, stop, retry, leave, reload, recover | PUTs overtake each other; the POST or its answer is lost; crash between end and update; client and daemon both write | the row names a run there is, and does not stay running |
| **Live artifacts** `live-artifacts/` | document, data, provenance and state files, a lock file, an ordinal, snapshots, a log | create, update, delete, refresh (lock, fetch, commit, release), recovery | two refreshes, crash at any file, a failed write, stale lock | one refresh at a time, one success per ordinal, nothing served that is not in the history |
| **Media tasks** `media-tasks.ts` | a row per task | create, update, reconcile at boot | a late provider answer | a finished task stays finished |
| **Routines** `routines.ts`, `routine-routes.ts` | rows, a timer and a start in progress per routine, a row per execution | create, change, delete, fire, run now, stop, boot | timer and button meet during the awaits of a start; the routine is deleted or changed meanwhile | one start for both; no fire is the last; a row tells what its run came to |
| **Orbit** `orbit.ts` | preferences, one timer, the start and the run in flight, a file of summaries | configure, fire, run now, prepare, watch, write | the preferences change during a start; the file is read and written with awaits between | one run at a time, no summary lost, no fire the last |
| **Generated UI surfaces** `genui/` | a row per surface | ask, answer, time out, prefill | two answers, answer against timeout | one answer |
| **Pipelines** `plugins/pipeline.ts`, `until.ts` | stage, iteration | run a stage until satisfied | cap, unsatisfied stage | the reason reported is the reason |
| **Generation jobs, watchers, desktop tokens, OAuth** | small registries with timers | see `PROJECT.json` | reference counts, nonces, expiry | no leak, no double use |

### How they interact

`POST /api/runs` creates a run, hands it to `reconcileAssistantMessageOnRunEnd`
(a waiter) and starts `startChatRun` on it. From the spawn on the run is driven
by callbacks of one event loop: handlers run to completion, and everything
between two of them, or between two `await`s, may be interleaved. The run
service ends clients and waiters; `startChatRun` writes `run.status`,
`run.child` and `run.acpSession` directly, past the service; `cancel` and
`shutdownActive` read them. The live-artifact routes reach the run through a
sink registered under the token's run id. The critique branch hands the child
to the orchestrator and awaits its verdict instead of installing the handlers. Live
artifacts share nothing with a run but that sink: their state is files, and
what orders two requests is a lock file.

### Left out

The web client but for the life of a message, the desktop shell, packaging, the landing page, the telemetry
worker, repository tools, vendored and generated packages, design content, and
the parts of the daemon that are I/O or pure text (prompts, parsers, adapter
definitions, providers, deployment). `PROJECT.json` lists each with its reason.

## 2. The modules

| Module | What it is |
|---|---|
| `RunLifecycle` | abstract specification: a run is a future with one outcome |
| `RunObject` | operators: what each function of `runs.ts` makes of a run object, of a child and of a session |
| `RunService` | state machine of the run service with clients, waiters, timers, child, shutdown |
| `ChatRun` | state machine of one run through `startChatRun`, with the same run object |
| `RpcSession` | abstract specification: a session ends once, and is complete only if the prompt was sent |
| `AcpSession` | state machine of `attachAcpSession` with an agent that answers anything at any time |
| `RunObjectProofs` | lemmas about the operators of `RunObject`, for the two modules below |
| `RunServiceProofs`, `ChatRunProofs` | theorems about `RunService`, and about `ChatRun` and the ACP session it owns |
| `CritiqueVerdict` | abstract specification: a critique row and its chat run settle once, and agree |
| `CritiqueRun` | state machine of one critique: orchestrator, registry, interrupt, row, artifact, reconciliation at boot |
| `CritiqueRunProofs` | theorems about `CritiqueRun` |
| `Cadence` | abstract specification of a recurring job: what is wanted is waited for or at work |
| `Routines`, `Orbit` | state machines of the two schedulers |
| `RoutinesProofs`, `OrbitProofs` | theorems about them |
| `ProjectView` | state machine of one message: the page, its requests in flight, the row, the runs of the daemon |
| `ProjectViewProofs` | theorems about `ProjectView` |
| `LiveArtifactRefresh` | state machine of the files of one live artifact under racing refreshes, crashes and failing writes |
| `RefreshTurns` | abstract specification: refreshes take turns, and what is saved, served and recorded comes of them |
| `LiveArtifactRefreshProofs` | theorems about `LiveArtifactRefresh` |
| `MCRunService`, `MCChatRun` | instances for TLC (the others need none: their constants are model values, strings and numbers) |

Every function of `runs.ts` is synchronous (the two awaits of `shutdownActive`
are steps), so each is an operator on the run record, and a handler that calls
several composes them: `Fail(r) == Finish(Emit(r, "error"), "failed")`. Both
state machines are built from the same operators and both are shown to
implement `RunLifecycle`.

**`RunService`.** `run` is the run object: `events`, `nextEventId`, `clients`,
`waiters` are the code's; `sent[c]` is what was written to a response and not
yet received, `closed` the responses that were ended, `told[w]` what a promise
was resolved with. `conn`, `cursor`, `seen` are the clients' own. The callers
of the service (`CallEmit`, `CallFinish`, `CallFail`) are unconstrained, as the
service does not constrain them: `emit` and `fail` may come after the end.
`Connect` takes any cursor the client may remember. Runs share no state, so one
stands for all.

**`ChatRun`.** `pc` is the await `startChatRun` is at: `created` (the route may
itself await before it starts the run), `gathering`, `preparing`,
`configuring`, then `live` or `returned`. Actions are grouped as `Starting`
(the body), `Speaking` (the agent's output, session, artifact), `Ticking`
(timers), `Ending` (exit, error and close events, verdict) and `Stopping`
(cancel and shutdown). `agent` is the adapter: its stream format, whether it
reads its prompt from stdin, whether it ignores SIGTERM. "plain" stands also
for the Claude and Copilot streams, which the close handler treats alike;
"tracked" for Qoder and the JSON event streams. `child.killed` is Node's flag
(some signal was delivered), `child.got` the signals themselves; the difference
between "a signal was delivered" and "the process is gone" is what
`chat_escalate` is about.

**`AcpSession`.** `requests` is what was written to the agent's stdin, a request
having its place for an id, so that `nextId` is its length and one; the ids
kept in `expected`, `modelId` and `promptId` are the code's. `Handle` is the
handler of one line of output: the cases of its `if`s are the disjuncts of
`RpcError`, `Permission` and `Result`. It does not look at `finished` except
for errors, so that a session that failed may go on with its requests, and it
sets the stage timer before it looks at anything. The close event clears the
timers and then handles a last line that was not terminated, which may set
them again. `given.nulls` says whether the agent may write errors whose id is
null. An exited process is taken for closed, and the stage timer for enabled.
A write on a closed stdin is an error event, not an exception. `ChatRun` has
the same session by its state only, the `state` of `RpcSession`.

**`LiveArtifactRefresh`.** The variables are the files: `lock`
(`refresh.lock.json`), `state` (`refresh-state.json`), `artifact` (the
`refreshStatus` in `artifact.json`), `data` (which refresh wrote `data.json`),
`snapshots`, `log`. `request[r].pc` is the file operation that request `r` is
about to do, with what it has read. A step is what happens between two
awaits, so each file operation is one step, but for `writeFile`, which is two:
it truncates (`NoState`, `"torn"`) and then fills, and a crash or a reader may
come in between. `writeFileAtomic` and the rename of a snapshot directory are
one step. Acquiring reads the ordinal first and creates the lock second, as the
code does. A failing operation (`OperationFails`) takes the path of the
`catch` it is under; for a commit that is `Promise.all`, which gives up at the
first failed write while the others land later (`late`). `Crash` forgets the
requests and leaves the files; `Boot` recovers the lock or skips it, which the
code does when the lock is younger than the timeout, or it, the log or the
artifact cannot be read. `issued` is the list of the ordinals given out, and
gives lockIds their numbers. Clock time is left out: a lock found at boot may be
young or old. The age check runs only at boot, so no clock can free a lock that
is in use. Preview and provenance, written exactly like `data.json`, are not
told apart from it. Update, delete and the cancel API (no caller) are not
modelled.

**`CritiqueRun`.** `pc` is where `runOrchestrator` is: `reading` the agent's
output, `stopping` the child, `shipping`, `pinning` and `writing` the end; what
it reads is the parser's envelope (`parser`), the rounds it builds (`states`,
`done`) and the deadlines, and `cause` is which of the racing promises won.
`row` is the row of `critique_runs`, `handle` the entry of the registry, `file`
the artifact on disk, `told` the events clients got, `chat` the chat run that
awaits the verdict. Scores are one composite, chosen by the agent and closed
by the daemon. Interrupt, cancel, the watchdog, the project's deletion, a
crash and the reconciliation at boot come at any await.

**`Routines`, `Orbit`.** Each models its service with the handler of
`server.ts` that starts a run for it. `armed` counts the timers of Node that
run, whether or not the service still holds them, so that a timer that was
forgotten and not cleared can go off. `fires` and `joined` say that a timer's
callback awaits the start in progress, which it may have found rather than
begun. The time of a fire is left to the timer: it may go off at any moment,
for the plan it was set for. The preferences of Orbit are written and applied
in one step since writes of `app-config.json` are serialised; so is the read of
the config at boot with its `configure` (`Configured`), which begins before the
server listens. In both,
`shutdownActive` comes before `stop()`, the timers go on until then, and a run
that ends after `stop()` sets Orbit's timer again: the refinement is stated of
the time before. A routine's run is created, linked to the snapshot of its
plugin (`Link`, an await) and then started (`Launch`), so that shutdown may
cancel it before it starts. A start that fails after `runs.create`, when Orbit
stages its template or a routine writes its messages, leaves the run queued
and nobody's (`Refuse`).

**`ProjectView`.** One assistant message. `row` is its row, `msg` what the page
shows (absent while another conversation is open), `puts` the bag of PUTs in
flight, each the whole message as it was, delivered in any order; `post` the
POST of a run and its answer, `call` what the page reads, `run` and `kept` the
runs of the daemon and the records it has not dropped, `cancelled` the cancel
requests on their way. A fault is a PUT or an answer that is lost, or a
restart or a shutdown of the daemon. Abstractions: "active" stands for queued and running;
one POST is in flight at a time; a cancel may be late, so a run may end in any
way, and a graceful shutdown (`Shutdown`) cancels it unasked; leaving the
conversation and the project are one action. A page gives a stream up
(`Disconnect`) for a broken connection, a refused response, a lost status
answer or an error event, and shows and saves `failed`, whether or not the run
has ended. An end that is seen is saved first; the files of a turn that
succeeded are listed and saved in a step of their own (`Listed`), before which
the recovery of the page may run. A listing is given up when the page is left, a
bound of the model. Rows without a run id, which the page looks up by listing
runs, are left out: `NoPhantomRow` shows that this version writes none it would
have to.

Abstractions of the run modules: event payloads, messages and prompts are left
out; the handshake of a session and its stage timer are one nondeterministic
`SessionFails` (`AcpSession` has them for ACP); the orchestrator is a nondeterministic verdict that takes output to succeed and
signals the child unless a round was shipped (`CritiqueRun` has the rest); a spawn either throws, or
succeeds, or is followed by an error event. The watchdog is assumed enabled
(both timeouts positive, as by default). `abort` of a pi session also asks
`child.killed`; where that differs no property can tell.

## 3. What TLC checks

| Run | Instance | Shows |
|---|---|---|
| `service` | 1 client, 1 waiter, buffer 2, ids to 3 and the errors and ends past it, four kinds of process (stubborn or not, with a session or not), fair | `NobodyStranded`, `AttachedIsCurrent`, `OnlyEvictedIsLost`, `ImplementsLifecycle`, `StreamsEnd`; `ShutdownReaps`: a SIGTERM ignored, or sent before by cancel, does not save a process from shutdown |
| `chat` | all five formats, stubborn or not, buffer 1, fair | `EndedMeansSignalled`, `CancelWins`, `SuccessIsClean`, `GrantEndsWithChild`, `ImplementsLifecycle`, `CompletedTurnSucceeds`, `EveryRunEnds`: whoever ends the run, and at whichever await |
| `acp` | the whole state space, nothing is bounded, fair | `InOrder`, `ImplementsSession`, `SilenceEnds`: whatever is answered late, twice or to nobody, and whatever fails or aborts the session |
| `critique` | rounds 1 and 2, composites below and at the threshold, every fallback policy, 2 rounds closed in all, fair | `ShippedMeetsBar`, `ShipIsFetchable`, `ToldIsVerdict`, `ImplementsVerdict`, `EveryCritiqueEnds`: whatever the agent writes, and whatever interrupts it at any await |
| `refresh` | 2 requests at a time, 3 locks in all, 2 crashes, 1 failing file operation, fair | `Exclusive`, `OneSuccessPerOrdinal`, `ServedIsSaved`, `SnapshotsStand`, `RunningMeansLocked`, `ImplementsTurns`, `RefreshEnds` |
| `routines` | 2 routines, 2 plans, 2 starts, fair | `StartsAreShared`, `RecordsAgree`, `ImplementsCadence`, `FiresForEver`: timers, routes, failing and shared starts, shutdown, crash and boot |
| `orbit` | 2 times, 2 templates, 2 runs, fair | `OneRun`, `SummariesAreKept`, `ImplementsCadence`, `FiresForEver` |
| `view` | 2 runs, 2 PUTs in flight, 1 fault | `NoPhantomRow`, `SuccessIsReal`, `StopIsSent`: whatever is overtaken or lost, left, reloaded, stopped or retried |
| `view_settles` | 1 run, 2 PUTs in flight, 1 fault, fair | `RowSettles` |

The type invariants are proved and need no run; so is that an outcome is final
(`OutcomeIsFinal`), which `ImplementsLifecycle` implies. What a property exempts is said where it is
defined: `EndedMeansSignalled` and `GrantEndsWithChild` leave out the critique
branch, which installs none of the handlers they are about; `InOrder` leaves
out agents that write errors with the id null, which `acp_noise` is about;
`CompletedTurnSucceeds` is about ACP sessions; `EveryRunEnds` about agents
that leave when told. `SuccessIsClean` is about errors of the stream: an error
of the agent's stdin is told to the clients (`StdinFails`) and the run may
still succeed. `RunningMeansLocked` is for runs without failing
writes: a failed write may leave the status standing, and so may a failure
between the lock and the `try` of `refresh-service.ts`. It asks for a lock and
no more: after a crash while fetching, a boot that skips a young or torn lock
leaves the artifact running and nobody refreshing it. `ToldIsVerdict` and
`ShipIsFetchable` allow for a row that was deleted with its project.

Bounds. `MaxEvents` is the buffer's capacity (2000 in the code): 2 lets an
event be evicted while another is kept, 1 is the smallest. `MaxIds` stops the
callers of `emit` and the agent's output; `finish`, `fail` and stream errors
may still append, so ids run past it. Three events against a buffer of two are
enough for a client to miss an evicted one, one kept and one that it sees
live; both properties of the streams are proved for any capacity. In `ChatRun` nothing depends on the buffer but the resend on reattach,
hence capacity 1 there; four ids leave room
for output before and after any other step, once the start and the error of a
spawn have taken theirs (505,376 states). With two, an agent that had not been
spawned could be let talk unnoticed, which the proof of `SuccessIsClean` found.
A run is one run: two runs
meet only in `shutdownActive`, which treats each alone. One client is enough
for the streams because a run serves each client on its own; the safety of both modules and
the two refinements are proved for any clients and waiters.

In `LiveArtifactRefresh` two requests race for a lock; a third lock taken lets
a stale ordinal meet a state written by two others, or a refresh follow a
recovered one. Two crashes let the second hit the recovery from the first. One
failing operation, anywhere, is followed by the paths that operate on. The
proofs have none of these bounds.

In `CritiqueRun` two rounds tell the last from the best, two scores what meets
the threshold, and two closings let a round be closed twice or out of order
(1,164,023 states). In `Routines` two slots let a start of a routine wait while
the run of its last one, or a start of the other, is under way (363,352
states); `Orbit` shares one start and one run, so that its second slot is
there to be taken if that failed (328,251). Both are proved without bounds. In
`ProjectView` the second run is the Retry of the first, two PUTs in flight may
overtake each other or the pin of the run, and one fault is a lost PUT or
answer, a restart or a shutdown, at any moment, while streams break freely (13.3 million states);
`view_settles` has one run, for the price of liveness (67,316).

Deadlock is not checked in `chat` and `refresh`: a run that has ended, its
process gone and its timers spent, may really stop, and so may an artifact that
nobody refreshes. The others have somebody who may always come.

Fairness. `RunService`: timers fire, the kernel delivers SIGKILL, a docile
process dies of SIGTERM, a connected client reads on; nothing makes a caller
call. `ChatRun`: an await is answered, timers fire, signals act, Node reports
the end of a process, the orchestrator has a total timeout. Nothing makes an
agent say or finish anything: `EveryRunEnds` rests on the watchdog alone, and on
the agent falling silent at last, since an agent that talks for ever is never
stopped by the daemon (`MaxIds` bounds it here). It exempts a run whose
stream reported an error: that switches the watchdog off, and the code then
leaves the rest to the agent.
`LiveArtifactRefresh`: a request goes on by itself, since file operations
return and the source and total timeouts of `refresh.ts` end every fetch;
nothing makes a request arrive, a source answer, or a daemon boot.
`AcpSession`: the timers go off, the stage timer only once the agent writes no
more, since every record sets it again; nothing makes the agent answer or leave.
`CritiqueRun`: the total timeout fires and the file and row writes return;
nothing makes the agent write or leave. `Routines`, `Orbit`: timers go off, the
awaits of a start are answered, agent runs end (which is `ChatRun`'s to see
to) and their ends are written. `Fire` of a routine is strongly fair since a
start that finds no free slot, a bound of the model, would disable it.
`ProjectView`: PUTs arrive, runs end, and the user comes back to the page; a
recovery that is cut short by leaving again is given its chance in the end
(strong fairness), nothing else is asked of the user.

### Where the code and its documents disagree

Each is a run whose property states the document and which TLC refutes.

| Run | What is said | What happens |
|---|---|---|
| `chat_escalate` | `chat-run-artifact-quiet-period.test.ts:297`: the kill timer escalates to SIGKILL | it asks `child.killed`, which its own SIGTERM has set |
| `refresh_ordinals` | `specs/2026-04-29-live-artifacts/spec.md:590`: a monotonic `refreshId` | the ordinal is read before the lock is created: two refreshes, one after the other, may have the same, and the second writes back the state it read before the first |
| `acp_noise` | the comment at `acp.ts:541`: internal errors with an unexpected id are noise, only the error of the expected model selection is recovered from | the test is `obj.id === setModelRequestId`, and both are null when the error has the id null and no model was selected: the prompt is sent with no session |

Others were met while modelling and are told here only; the models have the
behaviour, no run states it. A CLI that exits
non-zero before `<SHIP>` should be `failed`
(`specs/current/critique-theater.md:414`), but the end of its output is seen
first and the run is `degraded` or `below_threshold`. The message stores the
latest known run state (`specs/current/run.md:52`), but one that succeeded
without files is looked up again whenever it is opened, and when the daemon
has dropped the run the 404 makes it failed, and it is saved so. The page
persists the empty assistant message as running before it posts the run, and
after a reload finds the run of a running row that has no run id
(`specs/current/run.md:83`, `:164`); the code keeps such a message back
(`isPhantomDaemonRunMessage`, `ProjectView.tsx:1401`), so that the row is first
written by the daemon when it creates the run, or by the page when it knows the
run, and `NoPhantomRow`, which holds, states the contrary of that document. On
reattach the last record is resent so that the client sees a terminal signal (`runs.ts:144`), but `emit` appends after the end
and the last record need not be it. `cancel` sends one SIGTERM to a
session-less agent and never escalates (`runs.ts:203`). On the critique branch
the tool token is not revoked when the child exits, and the prompt is not
written to stdin (`server.ts:10370`). The SIGTERM the daemon sends pi after its
turn (`docs/agent-adapters.md:224`) is then classified as a failure. A crash
after the rename of `data.json` is recovered as a failed refresh with its data
served (`spec.md:582`). A message that is retried while the pin of its first
run is in flight may keep the status of one run with the id of the other.

## 4. What is proved

`RunServiceProofs`, for any clients, waiters, agents, capacity and bound, from
the two assumptions `MaxEventsAssumption` and `ServiceAssumption` only:

- `TypeCorrect`: `Spec => []TypeOK`
- `NobodyIsStranded`: `Spec => []NobodyStranded`
- `Implementation`: `Spec => Lifecycle!Spec`, the refinement
- `OutcomeStands`: a terminal status, and what a waiter was told, never change
- `NoGap`: `Spec => []AttachedIsCurrent`
- `NothingBufferedIsLost`: `Spec => []OnlyEvictedIsLost`

`NobodyStranded` is not inductive: it does not say that a waiter on the list is
asking, nor that what a waiter was told is the status, and without these
`Finish` could tell an answered waiter something new. The inductive invariant
is

    IInv == TypeOK /\ Tidy(run) /\ conn = run.clients \cup run.closed
                   /\ (~inMap => Terminal(run))

where `Tidy(r)` says that who is asking is exactly who is on the list, who was
told was told the status, and a run that has ended has nobody left on its
lists. The argument has two levels. First, about values: emit, finish, fail,
cancel and shutdown *advance* a run (`Advances(r, s)`: types, tidiness and the
responses are kept, and seen from outside the run settles or stutters), proved
once per operator. Then, about steps: a step that advances the run and minds
its own variables keeps `IInv` and is a step of `RunLifecycle` or a stutter
(`AdvanceKeeps`); attaching, receiving, disconnecting, waiting and launching
have a lemma each. `StepKeeps` puts the actions together.

The last two need a second invariant, `AllServed` (theorem `Delivery`). About
the buffer it says that its ids have no gap and end with the newest event. About
a client it says that whatever is buffered and not newer than what the client
remembers has been seen, and that what is on its way follows on: everything
buffered past its id for an attached one, and for a response that was ended,
everything between two records on their way. The second half is there because
an ended run resends its last record to a client that has it already; without
it such a record could be received ahead of an older one. Each operator keeps
this for each client (`EmitServes`, `FinishServes`, `FailServes`), attaching
establishes it from the buffer (`ReplayHolds`), and receiving the least id
carries it over to the client's new id.

`ChatRunProofs`, for any agents, clients, waiters, capacity and bound, from
`ChatAssumption` and `MaxEventsAssumption`:

- `TypeCorrect`: `Spec => []TypeOK`
- `NoProcessIsForgotten`: `Spec => []EndedMeansSignalled`
- `CancelDecides`: `Spec => []CancelWins`
- `NoFalseSuccess`: `Spec => []SuccessIsClean`
- `TokensEnd`: `Spec => []GrantEndsWithChild`
- `CompletedTurnStands`: `Spec => CompletedTurnSucceeds`
- `Implementation`: `Spec => Lifecycle!Spec`, the refinement

        IInv == TypeOK /\ Tidy(run) /\ Staged /\ ByFormat /\ Flagged /\ Credited
                /\ EndedMeansSignalled /\ CancelWins /\ SuccessIsClean
                /\ GrantEndsWithChild

`Staged` says what there is by the await `startChatRun` is at: no child, session
or critique before the spawn. `ByFormat` keeps sessions to the formats that have
one, so that the verdict of one format is not read off the flags of another.
`Flagged` ties the flags of the closure to a process that was there to set them,
and `Credited` says who may claim success: the close handler, after the process
is closed, or the orchestrator, after output. `SuccessIsClean` is not inductive
without the last two. The lemmas of `RunObjectProofs` do for the handlers what
they do for the service: each handler advances the run, is an end of it, or
leaves it alone. Proving this showed a fault of the model: output could come
from an agent whose spawn had failed, and the bound of the run was too small to
reach it. `Talking` now asks for a process, and `chat` has room for the case.

The same module ends with the theorems about `AcpSession`, whose process is a
child of the run. It is an instance, `Acp`, over variables of its own, since the
two state machines share names; it has no constant and so no assumption:

- `SessionTypeCorrect`: `Acp!Spec => []Acp!TypeOK`
- `RequestsInOrder`: `Acp!Spec => []Acp!InOrder`
- `NoAgentIsLeft`: `Acp!Spec => []Attended`
- `SessionImplementation`: `Acp!Spec => Acp!ImplementsSession`, the refinement of
  `RpcSession`

        SessionInv == Acp!TypeOK /\ EndsOnce /\ Attended
                      /\ (~given.nulls => Scripted)

`InOrder` speaks of what was written; what keeps it true is which id is expected.
`Scripted` ties the two: the requests written are the script up to the expected
one, with at most a cancel behind, the prompt's id is known exactly when the
prompt is the one expected, and the model's id is that of the third request.
A late or second answer then has an id that moves nothing. `Attended` is the
safety half of `SilenceEnds`: a process that is up has the stage timer while
its session is open, and after that the timer of the clean exit, a signal, or
the run that aborted it. The handlers are brought down to a few effects on the
session (it ends, goes on, fails, sends its next request), each of which keeps
the invariant and is a step of `RpcSession` or a stutter. `InOrder` and
`Scripted` are of agents whose errors have an id; `acp_noise` shows why.

`CritiqueRunProofs`, for any rounds, composites, threshold and fallback policies
and any number of closings, from `CritiqueAssumption` only:

- `TypeCorrect`: `Spec => []TypeOK`
- `BarIsMet`: `Spec => []ShippedMeetsBar`
- `ShipsAreFetchable`: `Spec => []ShipIsFetchable`
- `TellsTheVerdict`: `Spec => []ToldIsVerdict`
- `Implementation`: `Spec => Verdict!Spec`, the refinement of `CritiqueVerdict`

        IInv == TypeOK /\ Placed /\ Fetchable /\ Decided

`Placed` tells from where the orchestrator is what the registry and the row
hold: while it works it has its handle and nobody else writes a verdict; the
interrupt and the reconciliation write only over a row whose orchestrator is
gone. `Fetchable` orders the writes of a ship: the file before its path in the
row, the path before the event. `Decided` says what the decision rests on and
that what was told is of one status. The fallback `ship_best` chooses a round
that is as good as any; that there is one, for however many rounds, is an
induction, done with least elements (`LeastExists`, from the well-foundedness
of `<` on `Nat`) since the induction theorems cannot be used.

`ProjectViewProofs`, for any number of runs, PUTs in flight and faults, from
`ProjectViewAssumption` only:

- `TypeCorrect`: `Spec => []TypeOK`
- `RowsCanBeAttached`: `Spec => []NoPhantomRow`
- `NoInventedSuccess`: `Spec => []SuccessIsReal`
- `StopsAreHeeded`: `Spec => []StopIsSent`

        IInv == TypeOK /\ Numbered /\ Named /\ SuccessIsReal /\ Awaited

A row is what some PUT made it, and a PUT is what the page showed at some time,
so nothing can be said of the row that is not said of the page and of every PUT
on its way (`Named`, `SuccessIsReal`). A page may show a phantom, since it shows
the message before it saves it; what is saved is none. `Numbered` keeps the
runs apart: the next is one that no cancel or message names. `Awaited` follows a
Stop that is pressed before the POST is answered: what is pressed and not
cancelled is the attempt that is awaited, and its answer knows. Where the POST
comes to nothing, what is still pressed is what was sent (`OnlySentAreHeeded`).
In proving it `StopIsSent` was made stronger: it had allowed a Stop to wait for the
answer of another run.

`LiveArtifactRefreshProofs`, for any set of requests and any number of locks,
crashes and failing operations, from `RefreshAssumption` only:

- `TypeCorrect`: `Spec => []TypeOK`
- `MutualExclusion`: `Spec => []Exclusive`
- `SuccessIsUnique`: `Spec => []OneSuccessPerOrdinal`
- `NothingUnsaved`: `Spec => []ServedIsSaved`
- `HistoryStands`: `Spec => SnapshotsStand`
- `RunningIsLocked`: `Spec => []RunningMeansLocked`
- `Refinement`: `Spec => ImplementsTurns`, the refinement of `RefreshTurns`

The ordinals do not grow (that is a finding), so none of this can rest on them.
What saves the history is that a snapshot directory is renamed into place and
never over another. The inductive invariant says so:

    IInv == TypeOK /\ Alive /\ Exclusive /\ OneSnapshotPerOrdinal /\ SavedFirst

`Alive`: no request is under way while the daemon is down or recovering, so
recovery removes no lock that is in use. `Exclusive` is then inductive: a step
either keeps the lock and who is past it, or is the holder's leaving
(`KeepsLock`, `LeavesLock`). `SavedFirst` follows a refresh to where its result
ends up: whoever is past its snapshot, every rename still on its way, every
success in the log and what is served or recorded has its snapshot, by the
same lockId and ordinal. Since snapshots only grow, a step preserves it unless
it writes one of these; two successes of one ordinal then have one snapshot,
hence one lockId.

`RunningMeansLocked` has an invariant of its own, `Attended`. The lock goes
when its holder releases it or recovery removes it, so it is not enough that a
running artifact has a lock: whoever is done with the artifact (`Settled`:
landed its success, opened it to mark it failed, or left a torn file alone)
has left it showing something else, recovery has marked it failed before it
unlocks, and no rename of a commit that was given up is on its way. All of
this is for `faults = 0`: a failed write makes the first two false.

The refinement says what all this amounts to for a reader of the artifact: the
turn is that of the refresh past the lock, begun by the creation of the lock
file and ended by its release, an error or a crash; saving, each rename of a
commit, and the entry in the log are its steps. Recovery and the default state
that a torn file reads as are stutters. It takes more than `IInv`: that a
snapshot is the first of its turn needs `Turned`, that the refresh past the
lock has the last lockId given out, and that while it has not got to its
snapshot all of them are of earlier turns. `RefreshTurns` leaves open which
snapshot is served, because the code does: a rename that a failed commit left
behind may land in the turn of another and put older data back.

`RoutinesProofs`, for any routines, plans and slots, from `RoutinesAssumption`
only (no plan and no slot is `None`):

- `TimersAreCurrent`: `Spec => []TimerIsCurrent`, every timer of Node that runs
  is the one in the map, set for the routine as it is now
- `OneStartAtATime`: `Spec => []StartsAreShared`
- `RecordsTell`: `Spec => []RecordsAgree`
- `Implementation`: `Spec => Scheduled!Spec`, the refinement of `Cadence`

    IInv == TypeOK /\ TimerIsCurrent /\ Paired /\ Followed

`TimerIsCurrent` is inductive because every route, callback and `stop()` clears
exactly the timer in the map (`RescheduledIsCurrent`). `Paired` adds to
`StartsAreShared` that a start in progress is in the map, without which a
second one could be begun beside it. `Followed` says what the handler has done
for a start by the phase it is in (`SlotOK`): the agent run before its row, the
row before anybody waits for the end, and no row for a routine deleted in
between. The refinement then is a case per action (`MapsNext`): a route is a
`Change`, the timer a `Fire`, the end of a start that a callback awaits a
`Settle`, and everything else leaves the routine alone.

`OrbitProofs`, for any times, templates and slots, from `OrbitAssumption` only:

- `RunsAreShared`: `Spec => []OneRun`
- `NoSummaryIsLost`: `Spec => []SummariesAreKept`
- `Implementation`: `Spec => Scheduled!Spec`, the refinement of `Cadence`

    IInv == TypeOK /\ TimerIsCurrent /\ Placed /\ AgentsPlaced
                   /\ ReadIsFresh /\ SummariesAreKept /\ DownIsEmpty

The file of summaries is safe although it is read after one await and written
after another because what was read is what it still holds (`ReadIsFresh`),
which takes that nobody else writes meanwhile: a run that writes is the one in
flight (`Placed`), and there is one field for it. The refinement needs
`Placed` too: the end of a run finds no start in progress, so that setting the
timer again settles the fire and takes nothing from another.

Model-checked only: liveness under fairness (`StreamsEnd`, `ShutdownReaps`,
`EveryRunEnds`, `SilenceEnds`, `EveryCritiqueEnds`, `RefreshEnds`, `FiresForEver`,
`RowSettles`), which is out of the prover's reach and stays with TLC. Every safety property,
action property and refinement that a run checks and that should hold is also a theorem.

## 5. Plan

Done of the plan: the run service, the chat run, the ACP session, the refresh, the critique
(orchestrator, registry, interrupt, reconciliation), the row of a message with
its page, routines and Orbit. Left, the ones whose hazards are worst first:

1. `LiveArtifactRefresh`, extended by `updateLiveArtifact` and
   `deleteLiveArtifact`, which take no lock.
2. `HostAnswers`: the agent's stdin and the questions pending on it.
3. `PiSession`, implementing `RpcSession` as `AcpSession` does.
4. `ToolTokens`: both indexes, validate, expiry; several runs.
5. `MediaTasks`, `Surfaces`, `GenerationJobs`: rows with a terminal status,
   late answers and reconciliation at boot.
6. `Watchers`; `DesktopTokens`; `OAuth`.
7. `Pipeline`: the until-expressions and the loop as functions, against a
   reference definition over bounded inputs.

Theorems left: none of the safety properties that are checked; with the
extensions above, theirs. No module uses recursion.

### Not modelled

`PROJECT.json` lists every component with its status and the reason. Most of
the repository's 858,926 lines are not the logic of the daemon: the vendored
`packages/opencc`, interface components and their texts, adapter definitions,
prompts, parsers and content. The modules map the state machines among them;
that share is and will stay small.

## 6. Running

    tlc -config RunService.cfg MCRunService
    tlc -config ChatRun.cfg MCChatRun
    tlc -config AcpSession.cfg AcpSession
    tlc -config CritiqueRun.cfg CritiqueRun
    tlc -config LiveArtifactRefresh.cfg LiveArtifactRefresh
    tlc -config Routines.cfg Routines
    tlc -config Orbit.cfg Orbit
    tlc -config ProjectView.cfg ProjectView
    tlc -config ProjectView_settles.cfg ProjectView
    tlapm RunObjectProofs.tla
    tlapm RunServiceProofs.tla
    tlapm ChatRunProofs.tla
    tlapm CritiqueRunProofs.tla
    tlapm ProjectViewProofs.tla
    tlapm LiveArtifactRefreshProofs.tla
    tlapm RoutinesProofs.tla
    tlapm OrbitProofs.tla

A configuration `<module>_v_<name>.cfg` is a run that must find a violation.

Definitions named as mutants in the modules are wrong versions of the
definition that follows them; none is used by a specification. `PROJECT.json`
pairs each with the property that must fail when it takes the place of the
right one.
