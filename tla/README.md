# Conversation Simulator: TLA+ models and proofs

Conversation Simulator is a local application in which a player practises a
conversation with a character played by a language model.  This directory holds
TLA+ modules translated from its source, the TLC configurations that check them
on small instances, and theorems about them checked by TLAPS.  Paths are
relative to the repository, and `core/` below stands for
`services/convsim-core/convsim_core/`, `api/` for `apps/api/src/` and `web/` for
`apps/web/src/`.

## 1. The system

Five programs make it up: the Python service **convsim-core** (FastAPI on one
asyncio event loop, one SQLite connection shared by every handler), the **web
client** (React), the **desktop shell** (Tauri) that starts the service and shows
the client, the **API gateway** (Fastify), a second server with the same role in
development, and a command line over the **pack loader**.

| Part | State it keeps | Operations | What makes it correct |
|---|---|---|---|
| Scenario engine (`core/scenario_state.py`) | none (pure) | clamp and apply deltas, evaluate triggers and endings | bounds respected; events fire once; priority of endings |
| Sessions (`core/routers/sessions.py`) | `turn_sessions` row: flow state, ending, variables, fired events, turn count, setup | create, start, turn, end, debrief, delete, branch | a linear life cycle; refusals change nothing |
| Turn pipeline (`core/services/turn_pipeline.py`) | turn rows, event rows, search index | input gate, model call, one transaction | no lost or doubled turn although the model call is awaited between read and write |
| Debrief engine (`core/services/debrief_engine.py`) | `session_debriefs`, flow state | generate-or-get, failure | one debrief per session, never replaced; ready means stored |
| Branch service, relationship memory, privacy wipe (`core/services/branch_service.py`, `relationship_memory.py`, `core/routers/privacy.py`) | copies of a prefix, a counter per character, all tables | fork, count, clear | prefix and snapshot agree; memory grows only with a debrief; nothing is left |
| Sidecar (`core/runtime/sidecar.py`, `supervisor.py`) | child process, life-cycle state | start, stop, crash detection | one process, never lost; the state tells the truth |
| Model download, setup install (`core/services/model_download_service.py`, `core/routers/setup_install.py`) | `.part` and final files, `installed_models`, jobs | download, resume, verify, cancel | ready means verified bytes |
| Gateway sessions (`api/routes/sessions.ts`, `session-ws.ts`, `privacy.ts`, `api/ws/session-events.ts`) | `sessions`, `session_events`, a hub of sockets | create, start, turn, end, debrief, delete, clear, connect with replay | rows, events and open windows agree |
| Gateway models and settings (`api/routes/models.ts`, `runtime-settings.ts`) | `installed_models`, files, `model_config` | install, cancel, use, benchmark; read, update, reset | a ready model is its file; a restart is announced |
| Pack import and Workshop (`api/routes/packs.ts`, `workshop.ts`, `scenarios.ts`, `packages/pack-loader/src/db.ts`) | folders, index, item and quarantine tables | import, sync, quarantine, unsubscribe | four stores written one after the other agree |
| Pack loader, gateway workbench (`packages/pack-loader`, `api/routes/workbench.ts`) | packs on disk | load, resolve, select; edit, validate, copy, import, export | what is called valid loads; nothing is overwritten unasked |
| Conversation screen (`web/screens/Conversation.tsx`), its voice, microphone and wait panel | the transcript shown, a submission with a deadline, audio queue, recorder, timing samples | open, submit, frames, poll, end, leave; play, barge in; record, upload, review | shows the session's transcript, never stuck, one voice at a time |
| Set-up flow (`web/setup/`, `web/App.tsx`) | wizard step, install poll, a mirror in local storage | choose, install, retry, cancel, finish; guard | no loop, no step busy with nothing under way |
| Other pages (brief, library, debrief, settings, runtime panel, workbench, test chat, home) | what was loaded, what was typed | load, change, send | an answer that is late, lost or out of order does no harm |
| Recommender (`packages/shared/src/types/recommender.ts`) | none (pure) | choose scenarios and levels | offers what exists, weakest first |
| Desktop shell (`apps/desktop/src-tauri/src/lib.rs`), startup page (`web/screens/CoreStartup.tsx`) | engine handle, phase; what the page shows | adopt or spawn, probe, restart, tear down; listen, snapshot, reload | no orphan, no foreign engine, the page knows |

How they interact.  In convsim-core an HTTP handler reads its `turn_sessions`
row, calls the turn pipeline or the debrief engine, which awaits the model and
then writes in one transaction; the row read before the await is used after it.
The gateway does the same between two `await`s of its own and, besides, tells
every window connected to the session what it stored.  The client submits a turn
by REST and hears of it on a WebSocket: the answer, the frames and, when a
deadline passes, the transcript it polls arrive in any order.  The shell starts
the service, tells the startup page its phase by events, and stops it on the way
out; the page also asks the service itself.  Failures are those of the model, of
database constraints, of requests that are lost, of processes that die between
two writes.

Where behaviour is hard: overlapping requests on one row; answers that come
after the page, the file or the job they were about is gone; two stores that are
written one after the other; a deadline that races a reply; a port anybody may
take.  The list with lines is `PROJECT.json`, "hazards".

## 2. Modules

convsim-core:

| Module | Models |
|---|---|
| `ScenarioState` | `scenario_state.py`: `ApplyDelta`, `Triggered`, `EndingOf` as pure operators over a scenario given by constants |
| `SessionEngine` | the routes of `sessions.py` with turn pipeline, debrief engine, branch service, relationship memory, privacy wipe, workbench preview and the tables they share |
| `Conversations`, `SessionRefinement` | what the session engine promises, without tables and awaits: append-only histories of snapshots; and the mapping from the tables to it |
| `SessionFindings` | statements of the repository that the session engine does not keep |
| `Sidecar` | `LlamaCppSidecar`: start, stop, crash detection and termination, with the children, the port and the log |
| `ModelDownload` | `execute_download` with the install and cancel routes and the model stage of the setup pipeline, for one model of the registry |
| `MCSessionEngine` | instance for TLC; `Sidecar` and `ModelDownload` are checked as they are |
| `SessionEngineProofs`, `SidecarProofs`, `ModelDownloadProofs` | TLAPS theorems |

Gateway and packs:

| Module | Models |
|---|---|
| `Gateway` | `sessions.ts`, `session-ws.ts`, `privacy.ts`, `session-events.ts`, the session columns of `db.ts`, the scores of `logbook.ts` |
| `GatewayModels`, `GatewaySettings` | `models.ts`, `runtime-settings.ts` |
| `PackLoader` | `loader.ts`, `resolver.ts`, `validator.ts` as functions of what a directory holds |
| `Workbench` | `workbench.ts`, over `PackLoader` |
| `PackLibrary` | `packs.ts`, `workshop.ts`, `scenarios.ts`, the index of `pack-loader/src/db.ts` |
| `MCGateway`, `MCPacks` | instances for TLC |
| `GatewayProofs`, `PackLibraryProofs` | TLAPS theorems |

Client and shell:

| Module | Models |
|---|---|
| `ConversationScreen` | the page's submissions, frames, deadline, polling, ending, over an abstract session |
| `NpcVoice`, `MicInput`, `WaitPanel` | the queue of spoken replies with barge-in; recorder, silence detection, upload and review; `NpcTurnProgress.tsx` with `turnEstimate.ts` |
| `SetupFlow` | `App.tsx`, `useSetupFlow.ts`, `useSetupInstall.ts` and the pages that use them |
| `BriefScreen`, `LibraryScreen`, `DebriefScreen`, `RuntimePanel`, `SettingsScreen`, `HomeScreen` | one page each, with its requests and their answers |
| `WorkbenchEditor`, `TestChat`, `FormSync` | `CreatorWorkbench.tsx`: the editor, the test chat, and the form beside the text |
| `Recommender` | `recommender.ts` |
| `DesktopShell`, `CoreStartup` | the supervisor and teardown of `lib.rs`; the startup page over it |
| `MCConversationScreen`, `MCWeb`, `MCStartup` | instances for TLC |
| `ScreenProofs`, `StartupProofs`, `WebProofs` | TLAPS theorems |

An MC module that explores several components has a variable (`part`, `group`,
`case`) that names the one at work in a behaviour: the components share no
variable, so their interleavings would add products of states and no new
behaviour.  Where components do interact the module composes them:
`SessionEngine` all users of the session tables, `CoreStartup` the shell and the
page, `Workbench` the loader, `RuntimePanel` the gateway's range checks
(`GatewaySettings`).

Operators whose comment begins with "Mutant" are deliberate mistakes, each beside
the definition it would replace; they are what `PROJECT.json`, "mutants" uses to
show that a property notices.

### State of `SessionEngine`

`rows` are the ids in `turn_sessions`, `session` their columns (`snap` is
`state_vars_json` with `fired_events_json`), `turns`, `events`, `debrief`,
`branch` and `fts` the other tables, `recap` the `session_count` of one
character.  `used` holds every id ever given: `secrets.token_hex` does not
repeat, so a deleted id does not come back.  `req` holds the requests that are
awaiting something, each with the row it read before the await.

A game turn *n* is two rows, 2n-1 (player) and 2n (character); row 0 is the
opening.  The character's row holds the snapshot a fork needs.

### Actions and code

* `CreateSession`, `CreateTestSession`, `StartSession`: `create_session`, the
  workbench's `start_test_session`, `start_session`.
* `SubmitTurn` is `submit_turn` up to the await of the model; it ends in
  `PersistTurn` (everything from the reply to the commit), `RejectTurn` (the
  transaction meets a constraint and is rolled back: the loser of two
  overlapping turns, or a deleted session) or `TurnRuntimeError` (the 503 and
  504 of the handler).  `StopAtInput` is the input gate's stop, which never
  awaits.
* `SpeakLine`, `SpeechUnavailable`: `_run_tts_for_utterance` after a recorded
  line.
* `EndSession`, `DeleteSession`, `ClearLocalData`, `DeleteRecap`: one handler
  each.
* `ReuseDebrief`, `BeginDebrief`, `StoreDebrief`, `FailDebrief`:
  `create_debrief` with `generate_debrief` and `update_relationship_memory`.
* `ForkSession`: `create_branch_session` with `fork_session`.
* `TakeFailure`: the client receives an error.  `Restart`: the process dies and
  is started again; only the tables survive.

A refusal (404, 409, 400) changes nothing and is the absence of a step.

### What `SessionEngine` leaves out

Text is left out: a reply is a record of what the pipeline uses of it.  A
repair call to the model blocks the event loop (`_SyncRuntimeBridge`), so it is
inside `PersistTurn`.  Log events written on every turn (`state_delta`,
`debug`, `prompt_metadata`, `rubric_observations`, `barge_in`,
`safety_redirect`) carry nothing the properties tell apart.  The chunks of one
line are one event.  One scenario with one character, so one recap.  Not
modelled: a corrupt stored debrief, a scenario that disappears from the
registry, the refusal to play without a model.

### `Sidecar`

`state` and `process` are `_state` and `_process`; `call` holds the calls of
`start()` and `stop()` that are awaiting, each at one of the awaits of the
code: the spawn, the readiness poll, the wait after SIGTERM and the wait after
SIGKILL.  What runs between two awaits is one action, and an action that
resumes acts on `process` as it is then, not on the child it waited for: that is
what makes overlapping calls hard.  `os` is what each child does: it boots,
binds the port or exits because it cannot, loads its model (health 503), is
healthy, exits; a foreign server may take the port.  The routes, the autostart
task, the setup pipeline and the supervisor are callers; none of them excludes
another, so calls overlap freely.  `CoreDies` replaces the object and leaves the
children.  Time is abstracted: a timeout may fire as soon as its wait began.

`may` is chosen once, in `Init`, from the sets in `Surroundings`: the hardships that
this behaviour may meet, of calls that overlap, a core that dies and a log whose
header cannot be written.  Without "overlap" a call starts when no other is in
flight.  A property that only holds in some surroundings says so in its own text.

### `ModelDownload`

`status` is `install_status` of each row of `installed_models` for one model;
`event` is `app.state.cancel_events`, which tells whose cancel event a row has
at the moment; `task` holds the downloads that run, each at one await of the
code: the request, the stream, the closing of the client, the hash in its
thread.  `kind` tells who started a download: the install route, the setup
pipeline or its one silent retry.

All downloads of a model use the same two names.  `part` and `dest` say which
file each name points to and `content` what is in it, so that a file that was
renamed or deleted lives on for the download that has it open and keeps writing
to it.  A chunk that lands elsewhere than the sender meant it is "bad", a chunk
the server corrupted too, and the SHA-256 matches exactly when all N chunks are
there and none is bad.

* `InstallModel` (the route, which spawns a task), `SetupInstall` (the pipeline,
  which runs into the request without an await), `SetupRetry`.
* `BeginDownload`, `Answer`, `RangeRefused`, `Chunk`, `StreamEnds`,
  `Cancelled`, `StartVerify`, `Verify`, `Promote`, `Mismatch`, `PartIsGone`,
  `NetworkOrDiskError`, `NoDirectory`: `execute_download` between its awaits.
  Each ending includes `Returned`, the caller's `cancel_events.pop`.
* `CancelInstall`, `CancelSetup`, `ForwardCancel`: the two cancel routes and
  `_watch_cancel`.
* `CoreDies` and `DiesAfterRename` leave rows and files.  The job that
  `resume_orphaned_jobs` starts again is another `SetupInstall`.

`may` chooses the surroundings as in `Sidecar`: downloads that overlap, deaths,
transfer errors, a directory that cannot be made, wrong bytes.  The
hash reads the file at one moment of its thread's life; writes of another
download during the hash would only make it fail.  A failing database and the
progress columns are left out.

### Gateway

`row` and `events` are the two tables, `hub` the module-level map of
`session-events.ts` and `sock` the windows: the session each is connected to, the
last number it received and the state it shows.  SQLite calls are synchronous
and Node runs one handler at a time, so a handler is one action (`Create`,
`Start`, `Turn`, `End`, `Debrief`, `Delete`, `ClearPrivacy`, `Connect`, ...)
unless it awaits.  A turn awaits when `CONVSIM_FAKE_DELAY_MS` is set (`delay`):
then it is `TurnBegin`, which reads the row, and `TurnFinish`, which writes what
it computed from it.  `Drop` loses a connection without the hub's knowledge,
`OnClose` is the close event that comes later, `Restart` empties the hub.

`GatewayModels` has an inode per download, so that a writer keeps the file it
opened although another call renames or deletes it; `serial` marks the
behaviours in which the player starts a download only when none is running.

### Packs

`PackLibrary` has a variable for each store: `disk`, `index`, `items`, `quar`,
with Steam's folders (`steam`) and the sessions on each scenario (`live`).
`Import`, `Sync` and `Unsubscribe` take a `stage`, the write after which the
handler failed or the process died; "done" is the whole handler.  `hist` records
which items were cut short and whether two sources ever had one id.  An archive
that is refused changes nothing and is the absence of a step; the entry-by-entry
checks of archives are one predicate of the content (`ok`).

`PackLoader` has no variables: `LoadPack` is `loadPack` as the list of its checks
in order, the first failure deciding; `ResolveBundle` and `LoadPacksFromRoots` are
the functions of these names.  `Workbench` edits packs under it.

### Conversation screen

`ui` is what the page shows (phase, label, rows, the `awaitingNpc` and number
refs), `turn` the suspended `handleSubmit`, `call` the REST call of each kind,
`ws` the frames on their way, `srv` the session.  `Submit` begins a turn;
`Deadline`, `Wake` and `Polled` are the timers of the reconcile loop,
`TurnAnswered` its end; `Recv` handles one frame, `Adopt` takes a reply found in
the transcript.  Answers and frames travel on different connections, so any
order of `Recv` and `TurnAnswered` occurs.  `CallLost` and `SocketLost` lose them.
A turn is known by the number of its submission and a transcript row by its role
and turn; texts are left out.

`NpcVoice` treats an audio element as the browser does: a load that fails fires an
error event and rejects `play()`, a pause of a loading element rejects it later.
`MicInput` is `VoiceInput` with its hooks; `stop()` of a recorder ends at once and
`onstop` comes later.  `WaitPanel` keeps times in seconds.

### Other pages

Each page has `calls`, the requests whose answers are under way.  A request takes
effect on `srv` when it is sent (in `HomeScreen` later, since there the order
of the effect matters); its answer may be lost or come after the page has gone
on.  `hist` keeps what a property compares with: whether the player asked, how
often a thing was done.  What a handler does not check (whether its answer is
about the row, file or pack now open) the action does not check either.

`DebriefScreen` is explored with both servers that may answer the page, convsim-core,
which the app ships, and the gateway of development; their exports have different
shapes (`CoreExport`, `GatewayExport`) and the page reads one of them (`Reads`).
`WorkbenchEditor` keeps in `edits` since which request the edits shown have been there,
and whether any were dropped unasked that were there when what dropped them was asked for.

`FormSync` runs the effects of the two panes after each edit (`Settle`) until no
dependency has changed.  `Recommender` explores all profiles over every shelf of
four places; the catalogue of the run has a scenario whose default level is none of
its own.  What the pages are about (packs, voices, files, fields, settings, scenarios)
are constants of `MCWeb`, some with the small values `MCCatalog`, `MCContent` and the
like; `WebAssumption` is all the theorems need of them.

### Desktop shell and startup page

`sh` is the supervisor thread at one of its steps together with the handle it
shares with the teardown; `kids` the engines it started, `port` who listens,
`stored` the phase `get_core_status` returns.  `Say` stores a phase and emits its
event.  `SpawnCore` fails when teardown has set the flag; `Take` and `Gone` are
the teardown; `OtherComes` is another edition, a foreign program or an engine of a
crashed shell taking the port.  The page (`pg`) subscribes, reads the
snapshot, checks health, applies events in order and may be reloaded.  Grace
periods, timeouts and back-offs end whenever their step is due.

### Abstractions

Text, wording and layout are left out throughout.  Every bound on a counter is a
constant named in its module's header as "bound".  The number of a turn, a job or
a session stands for its random id; ids do not repeat.

## 3. Runs

| Run | Instance | Question | Distinct states |
|---|---|---|---|
| `session_overlap` | 1 session, 2 overlapping requests, all setups, six kinds of reply, 3 turns, memory bound 1 | do tables and state agree whatever overlaps? | 453,033 (symmetry) |
| `conversations` | 2 sessions, 2 requests, 2 turns | does a branch restore its fork point, and the engine implement `Conversations`? | 666,763 (symmetry) |
| `session_progress` | 1 session, 2 requests, 3 turns, fairness | does a conversation end? | 20,228 |
| `sidecar` | 2 calls, 3 children; calls in turn with a failing log, overlapping calls in a dying core; fairness | is a child ever lost when callers take turns? is the sidecar ever stuck in STARTING, does every call return? | 178,902 |
| `download` | 2 downloads of one model, 3 files, 2 chunks, 2 rows; in turn with every failure and death, overlapping with transfer errors; fairness | is a ready model what was declared? is every row decided, with a file behind a ready one? does every download return? | 961,344 |
| `gateway` | 1 session, 2 turns, 2 waiting turn requests, 2 windows, a replay of 3 events; 2 downloads of one entry; 2 settings at the ends of their ranges | do rows, events, hub, windows, files and settings agree? | 123,382 (symmetry) |
| `packs` | 2 packs, 2 Workshop items, 2 scenarios, 3 arrivals; a workbench of 2 packs with 2 edits | do four stores agree after every cut? is a verdict what the loader does? | 176,756 (symmetry) |
| `screen` | 2 submissions, 2 loads, 1 poll round after the deadline; 3 chunks, 2 fades; the microphone; 3 timing samples of 2 models; fairness | is the screen true, does it ever hang, does the voice wait its turn? | 385,160 |
| `web` | each page with 2 requests under way, 2 jobs, 2 visits; the debrief with either server | do pages catch up, get stuck, or act unasked? | 1,155,381 |
| `startup` | 1 restart, 3 engines, 1 long run, 1 other program, 2 page loads, 2 queued events, fairness | is the engine held, does the page know, does a start end? | 985,143 |
| `finding_*` | 1 session, 1 or 2 requests, 2 turns | the statements of section 5 | stops at the counterexample |

Why these bounds.  The hazards of the session tables are races of two requests
for one row, so two request slots are enough for each pair, and three turns let
the limit, a success after two steps and a failure all be reached.  Two sessions
are what a fork needs.  The variable ranges over 0..3 with steps of at most 1 and
one reply proposes 2, so that both clamps act.  For the sidecar, three children
let a second and a third start meet the child of a first, and two calls let one
overlap the end of another.  For downloads, two chunks let a resume begin between
them, two rows let the second attempt follow a failure, a mismatch or a death in
the first, and three files are the final one, a `.part` and one that lost its name.  In the gateway one session is enough since no handler
touches two, except the wipe; two windows let one miss what the other hears, and
a replay limit below the number of events lets it cut.  Two packs, two items and
four contents let two sources share an id, an update rename a pack, and a broken
version follow a good one.  On the screen a late reply can meet the next
submission with two of them, and a second load shows what a reload loses.  On
the pages two requests are what it takes for answers to change their order.  At
startup one restart reaches the limit and the long run resets it once.
`MaxRecap`, `MaxEvents`, `MaxSeq`, `MaxEdits`, `MaxSends` and the like bound only
counters.  Sets of interchangeable values use symmetry in runs without liveness.
Deadlock is checked in the session and sidecar runs; the others have bounds at
which everything rests.

### Properties

Several properties are conjunctions of named parts; each part is a definition
with a comment of its own.

* `session_overlap`.  `TypeOK`; transcripts are contiguous and their length is the
  turn count (`TranscriptContiguous`); the state of a session is that of its last
  turn and every turn is one bounded step (`StateIsLastTurn`); the limit holds and
  an open conversation has room (`TurnLimit`); events fire once, also across forks
  (`FiredOnce`); deletion leaves nothing (`NoOrphans`); the index lists what it
  should (`SearchMatchesTranscript`); a ready debrief exists (`ReadyHasDebrief`),
  never changes and is what the memory counts (`DebriefsStand`).
* `conversations`.  A branch shares its prefix (`BranchPrefix`), and every step of
  the engine is a step of `Conversations` or none (`ImplementsConversations`).
* `sidecar`.  While callers take turns every living child is the one the handle
  holds (`NoStray`) and a sidecar at rest leaves none (`StoppedMeansGone`), also
  when the log cannot be written.  Whatever overlaps, STARTING never outlives its
  `start()` (`StartingIsInFlight`) and every call returns (`CallsReturn`).
* `download`.  While a row is ready the final file is the model, for downloads that
  take turns (`ReadyIsIntact`), and every one of these ends (`DownloadsReturn`).
  However they overlap, a ready row has a file at least and no row stays in progress
  without a download (`RowsKeep`, of `ReadyHasFile` and `InProgressIsDriven`).
* `gateway`.  `SessionsAgree`: events belong to a session (`EventsOwned`), a
  listening session has a turn left (`TurnLimit`), without waiting turns the count
  is that of the events (`TranscriptMatchesCount`), the logbook counts each
  session's scores once (`ScoresCountOnce`).  `WindowsInSync`: a connected window
  shows the state of the table (`ClientsInSync`) and the hub has exactly the
  connected ones (`HubMatchesSockets`).  `UnsavedLeavesNothing`: the text export
  of a session that is not saved has no line, and the full export is what is
  stored.  `ModelsAreHonest`: ready is intact, active has a file, downloading has
  a download.  `AnswersStand`: an ended session stays ended, event numbers never
  start again before a window, an outcome is final, a change that needs a restart
  says so.
* `packs`.  `StoresAgree`: a quarantined item is not listed (`QuarantinedIsOut`),
  what the next sync would skip is indexed (`ItemsIndexed`), a pack listed from a
  Workshop folder has its item on record (`WorkshopBacked`), what is listed from
  the data folder is whole (`ImportedIsWhole`), a scenario is listed once
  (`OfferedOnce`).  `UnsubscribeSpares`: no pack that loads goes while a session of
  it is open.  `VerdictsAgree`: the workbench calls valid what loads, reports each
  file once, the loader hands out only what resolves, and selects the newest.
  `NothingOverwritten`: an import or copy changes no pack that was there unless
  told to.
* `screen`.  `ViewIsTrue`: the rows are the session's up to the turn that is out
  (`InStep`), `AwaitingUntilReply`, half a reply is shown only while one is due
  (`PartialReplyIsTransient`), the turn number is that of the rows, and a busy
  page says why (`BusyIsExplained`).  `TurnsEndRight`: a deadline takes back no
  turn the server holds (`TimeoutDropsNothing`), a reply goes to its own turn
  (`AnswerIsOwn`), an ended page stays ended (`EndedIsFinal`).  `SpeechTakesTurns`:
  one voice, silence after leaving and when spoken over, the interruption mark on
  the turn it belongs to; the microphone released, one recording at a time,
  nothing open behind it.  `WaitIsHonest`: bar, caption and announcement agree
  (`PanelAgrees`) and samples of a named model survive a turn of an unnamed one.
  `NeverPinned`: a submission ends.
* `web`.  Each is a list of what single pages keep.  `PagesCatchUp`: with nothing
  under way a page shows what the server, or the other pane, holds, and says done or
  saved only where it is so; `NoPageIsStuck`: what is busy has a call, a poll or a
  timer out, and the guard sends nobody back twice (`NoLoop`); `NothingUnasked`: no
  answer does or undoes what the player did not ask for.  Of the workbench's editor it
  says that no edits are dropped unasked that were there when a pack or file was opened,
  or when the read, copy or import was asked for whose answer drops them
  (`StandingEditsAreAsked`); edits begun while such an answer is under way are dropped
  (section 5).  Of the debrief it says, where the gateway answers, that a replay after an
  export was read is the one the button names (`ReplaysTheScenario`); where convsim-core
  answers it is not (section 5).  `OffersHold`: what is offered can
  be had.
* `startup`.  `EngineIsHeld`: a living engine is the one whose handle is kept and
  none outlives the app (`NoOrphan`), a release build is not told that another
  edition's engine is its own (`ReadyIsOurEdition`), restarts are limited
  (`RestartsBounded`).  `PageKnows`: with nothing under way the page shows what is
  stored (`Agrees`), one loaded after the shell gave up stays on the error
  (`ReloadStaysOnError`), and the card names the cause of the error it was given
  (`CardNamesCause`).  `StartsEnd`: a start ends in ready or an error, and a lost
  engine is noticed.

### Fairness

`ConversationEnds` assumes: every request in flight ends (the adapters bound
each wait, `core/runtime/llama_cpp.py`, and the handler maps the timeout);
the player tries again when the session listens (strong, since a competing
request may hold the slot); the model answers some of infinitely many tries
(strong, since any single try may fail).  The last two are assumptions about
player and engine, not about this code.

`CallsReturn` assumes that each call in flight goes on (the event loop runs,
the spawn returns, `_wait_for_ready` has a deadline, `wait_for` has
`_TERMINATE_TIMEOUT`) and that a child that was sent SIGKILL exits.  Nothing is
assumed of a child that was sent SIGTERM.

`DownloadsReturn` assumes that each download goes on: the client's timeout of
30 seconds bounds each wait for a chunk, the thread ends, the loop runs.  A death
of the core ends its downloads.  It speaks of downloads that take turns.

`NeverPinned` assumes that the screen's timers fire, that the server answers a
turn with a reply or an error, and that the transcript fetch returns.  The last
is an assumption the code does not secure: `Conversation.tsx:591` sets no
deadline for it, although the comment at 51-54 promises that the composer always
recovers.

`StartsEnd` assumes that the supervisor thread runs, emitted events are delivered,
the page's own callbacks run, and an engine that was started binds its port or
exits.  Nothing is assumed of other programs.

## 4. Proofs

`SessionEngineProofs` proves, for any sets of sessions, requests, replies and
any scenario satisfying `ScenarioAssumption` and `EngineAssumption`:

* `DeltaBounded`: `ApplyDelta` stays in range and within the per-turn limit;
* `TypeCorrect`: `Spec => []TypeOK`;
* `NothingOrphaned`: `Spec => []NoOrphans`;
* `TranscriptsContiguous`, `TurnsLimited`, `CapturedRowsOld`: the transcript
  invariants, the last of which says that the row a request in flight remembers
  is only old, never foreign.

The three transcript invariants are inductive only together: a late turn writes
`turn_count := row.count + 1` of an old row, and that is one more than the
present count because UNIQUE(session_id, turn_number) refuses every other case,
which in turn needs the transcript to be contiguous up to the present count and
the captured count never to exceed it.  `NoOrphans` supplies that a new id has
no rows.  The lemma `RecordedIsNext` is this argument; `NextTranscriptInv` has
one step per action.

`SessionEngineProofs` also proves, under the same assumptions, what the tables say
of each other:

* `TablesAgree`: `Spec => []TableInv`, the inductive invariant;
* `NoTurnLost` (`StateIsLastTurn`), `EventsFireOnce` (`FiredOnce`), `SearchFollows`
  (`SearchMatchesTranscript`), `ReadyIsBacked` (`ReadyHasDebrief`) and
  `BranchesKeepPrefix` (`BranchPrefix`);
* `DebriefsOutlive`: `Spec => DebriefsStand`, an action property.

The lemma `StepKinds` first sorts every action by what it does to one session: it
is kept, opened, created, played on, or made by a fork.  Each conjunct is then
preserved by five kinds, not by twenty actions.  The conjunct that makes overlap
harmless is `CapturedCurrent`: a turn in flight whose session still has the count
the turn read has also read its snapshot and its setup.  A turn that records meets
exactly this case (`RecordedIsNext`), so the snapshot it stores is one step from
the last one.  The index needs `IndexedUsed`, that it never speaks of an id not yet
given out; the events need `Ranged`; the branches need that a new session never
takes the place of a parent that is gone; and the debrief needs `DebriefEnds`.

Last, it proves the refinement, `EngineImplementsConversations`:
`Spec => ImplementsConversations`.  The history of a session is the sequence of the
snapshots in its NPC rows (`HistoriesAre`); every step leaves all histories alone,
opens an empty one, grows one by a legal turn, copies a prefix, or forgets some
(`JournalStep`).  `GoneIsEmpty` supplies that what is forgotten shows no history.

`SidecarProofs` proves, for any number of calls and children:

* `SidecarTypes`: `Spec => []TypeOK`;
* `NeverStuckStarting`: `Spec => []StartingIsInFlight`;
* `NothingStrays`, `RestMeansGone`: `NoStray` and `StoppedMeansGone`.  In behaviours
  whose calls take turns in a core that does not die (`Orderly`) they are inductive
  with three further conjuncts: at most one call is in flight (`TakesTurns`); when it
  is about to spawn nothing is alive (`SpawnsAlone`), since its `start()` began in a
  state at rest; and the child it waits for is the handle's (`WaitsForItsChild`), so
  the handle is cleared only for a child that is gone.

`ModelDownloadProofs` proves, for any number of downloads, rows, files and
chunks:

* `DownloadTypes`: `Spec => []TypeOK`;
* `RowsAreKept`: `Spec => []RowsKeep`, however downloads overlap;
* `GateKeeps`: `Spec => []ReadyIsIntact`.  While downloads take turns (`TakesTurns`)
  it is inductive with three conjuncts: the two names never point to one
  file (`Apart`), whoever streams has the file named `.part` open
  (`StreamsToPart`), and what was verified is still complete
  (`VerifiedIsComplete`).  The last is what fails when downloads overlap.

Both hold for any `Surroundings`, those of the run and all others.

`StartupProofs` proves, for any number of restarts, engines, strangers, page
loads and queued events (`StartupBounds`):

* `StartupInv`: `Spec => []Inv`, the inductive invariant, which is `ShellInv` of
  the shell and `PageInv` of the page;
* `EngineHeld`: `Spec => []EngineIsHeld`, from `NothingOrphaned`, `ReadyIsOurs` and
  `RestartsLimited`;
* `PageKnowsShell`: `Spec => []PageKnows`, from `PageAgrees`, `ReloadKeepsError` and
  `FirstWordWins` (of the words a message has, the card is headed by the special
  case);  `StartupTypes`: the type invariant.

That no engine is orphaned needs to know, for each step of the supervisor, what
the handle holds (`Handle`): a spawn and a teardown race for one lock, and
whichever comes second sees the other.  That the page agrees needs what it would
show if everything under way were delivered (`Follows`): either the last event
in its queue is what is stored, or the snapshot it read is, or one of them is
still to come.

`PackLibraryProofs` proves, for any packs, items, scenarios and contents
(`LibraryAssumption`):

* `LibraryInv`: `Spec => []Inv`, with `Rooted` (an index entry points at a folder
  that was there), `Foldered`, `Recorded` and `Named` (an item's record and its
  index entry have one pack id unless a crash came between);
* `LibraryAgrees`: `Spec => []StoresAgree`, from `QuarantineHolds`, `ScenariosOnce`,
  `SkippedIsIndexed`, `WorkshopIsBacked` and `ImportsAreWhole`;
* `SessionsAreSpared`: `Spec => UnsubscribeSpares`, an action property.

It also proves, of the workbench over the loader, for any number of edits and
packs (`BoundsAssumption`):

* `BenchAlways`: `MCSpec => []BenchInv`.  The shelf is finite, what lies on it is a
  folder of well-formed documents, and no file lies in a folder twice; edits,
  stray files, labels, imports and copies keep it so;
* `NothingIsOverwritten`: `MCSpec => NothingOverwritten`.  While the shelf holds
  fewer than `MaxPacks` packs there are more suffixes than taken names
  (`SuffixLeft`, an injection into the shelf), and the least free one is taken
  (`FreeSlugIsFree`);
* `VerdictsHold`: `MCSpec => []VerdictsAgree`.  The loader's scan decides before
  anything is read (`ScanDecides`), so the one report the workbench drops as known
  is never its only one (`ValidLoads`) and never hides a disguised binary
  (`OnceEach`); the first scenario of an id is found by the least number
  (`BundleResolves`); versions are totally ordered, so of the packs with one id one
  is beaten by no other (`OneUnbeaten`) and no second is selected (`OneSelected`).

`GatewayProofs` proves, for any sessions, turns that wait, windows, turn limits,
lengths of replay and downloads, with the names distinct (`NamesAssumption`,
`DlAssumption`) and the bounds numbers (`MaxTurnsAssumption`, `LimitsAssumption`):

* `GatewayInv`: `Spec => []Inv`, where `Inv` is `TableInv` of rows and events,
  `HubInv` of hub and sockets, `ViewInv` of what windows show and `LogInv` of what
  the events count;  `GatewayTypes`: the type invariant;
* `TableAndEventsAgree`: `Spec => []SessionsAgree`;
* `WindowsStayInSync`: `Spec => []WindowsInSync`;
* `UnsavedStaysEmpty`: `Spec => []UnsavedLeavesNothing`;
* `NumbersSurvive`, `EndingsStay`: the action properties `SeqSurvives` and
  `EndedStays`;
* `ModelsStayHonest`: `Models!Spec => []ModelsAreHonest`;
* `AnswersKeepStanding`: the action property `AnswersStand`, of sessions, downloads
  and settings;
* `GroupsAreSpecs`: the instance of the run implements the specification of each of
  its three groups of routes, so that these theorems speak of the run.

`TurnLimit` speaks of a listening session; that starting one keeps it needs the
same of a session not yet started (`Early`).  That the hub knows its windows needs
that an entry with members is open (`Opened`) and that a window's session was
created (`Known`): deleting a session closes its windows, so its number may be
dropped.  That a window shows the row's state is inductive while no turn is
waiting (`Quick`) and only because the event that tells of the end is stored of
ended sessions alone (`Told`), so a replay never takes a window there early.  What
is not saved has no event at all (`Kept`), of which the export follows.

That the logbook counts each session once (`ScoresCountOnce`) is a statement about
a fold over the rows of the debriefs.  `ScoresFold` proves it from two facts about
folds, each shown by induction over the finite set of created sessions (`Few`), as a
least counterexample among sets that are defined in the proof.

A ready file is intact for downloads one at a time only, and inductive with
`Alone`: who has not been answered names no file, the `.part` is what the stream
writes as far as it has come, and the finished file is another one, whole.  That a
ready row has a file (`ActiveHasFile`) and no row is left (`RowsAreDriven`) needs
none of it.

`ScreenProofs` proves, for any number of submissions, loads, poll rounds, spoken
chunks, fades, models, durations and samples (`ScreenAssumption`,
`ChunksAssumption`, `WaitAssumption`: they are numbers, and no model has the name of
the placeholder):

* `ScreenIsTrue`: `Spec => []ViewIsTrue`;
* `TurnsEndTruly`: `Spec => TurnsEndRight`, an action property;
* `SpeechIsOrderly`: `Voice!Spec /\ Mic!Spec => []SpeechTakesTurns`;
* `WaitHolds`: `Wait!Spec => WaitIsHonest`, an invariant with an action property;
* `ScreenHolds`: the specification of the run implies all four, since a part behaves
  in the run as it does alone (lemma `PartsAlone`).

`ScreenInv`, from which the first two follow, is inductive in six layers, each
proved with the help of those before it.  `Base`: types, which requests go with
which phase, and what the rows must end in.  `Recorded`: nobody knows of a turn that
was not submitted, and a turn that is being answered is not stored yet.  `Framing`:
tokens under way are followed by their final frame.  `Copied`: a fetched transcript
is a prefix of the stored one.  `NoLonger`: rows on the page are no more than the
session's and the turn that is out.  `Faithful`: as long as no answer was lost and
no final frame came late (`Good`), the session works on the page's turn or on none
(`Undisturbed`) and the rows are those of the session (`Mirrors`).  The fifth is what makes the
poll after a deadline safe: its copy is adopted only when it is longer than what is
shown, and then it is the session's own.  The proof for the timer goes by its six
outcomes (closes the composer, lands a reply, gives up, adopts the copy, asks, sleeps).

For the voice (`VoiceInv`) the chunks that wait, load and play are `Counted`, each
element was made for one of them (`Made`), and unless a rejection came after the
next element had started, only the element that is held can be heard (`OneHeld`).
`OwnFlag` says that the interruption mark is that of the open recording.  `MicInv`
relates the recorder, the indicator and the microphone; `WaitInv` is the types,
with the lemma `RankedIsSample`: the median is one of the samples.

`WebProofs` proves, of the instance of the run with any constants that satisfy
`WebAssumption` and `SetupAssumption`:

* `PagesCatchUpHolds`, `NoPageIsStuckHolds`, `NothingUnaskedHolds` and
  `OffersHoldAlways`: `MCSpec` implies that `PagesCatchUp`, `NoPageIsStuck`,
  `NothingUnasked` and `OffersHold` hold always.

That no standing edits are dropped needs `EditsKept`: of the edits now on the page none
are as old as a request that will not ask about them.  It is kept since a request that
may drop edits without a question (a read, a copy, an import made with no edits) is
sent only where there are none, and edits begun later carry a younger number.

The assumptions say that there are finitely many voices, dimensions and places; that
levels are the four of the code and scores and deltas are integers; that the Workshop
packs are packs; that the settings page has its three lists; that no value of a field
is the mark of an absent one; and that a test session begins within 0..100.  The
bounds of the set-up flow are positive, those of the other pages (requests, visits,
panels, versions) are anything at all.

Each page has an inductive invariant, `Inv` at the end of its module, with the lemmas
`...Init`, `...Step` and `...Holds` for it.  The pages share variables, so `WebInv`
says that the page explored keeps its own.  What the invariants add to the properties:

* set-up: the job the flow knows is polled on whatever step, not only on the page that
  shows it (`JobPolled`); a status that arrives after the guard sent the player back
  once is taken as done (`BouncedOnce`);
* brief: a visit that saw no refusal has made at most one session (`OneMade`);
* library: requests are numbered as they are sent, and unless the list is known to be
  behind, the list shown or the last one asked for is the server's (`CatchesUp`);
  between its removal and the next sync no session begins with a pack (`Removed`);
* debrief: no visit after the one that showed the invitation opens with it
  (`ShownOnce`);
* runtime panel: there is a request that was the last to send settings, and all that
  was asked for since shows them (`LastSent`);
* settings: an entry in which the page, or a list under way, differs from the server
  is the doing of a later request that is still to be answered (`RowsFollow`,
  `ListsFollow`);
* editor: what an answer brings is so unless something was written since (`Kept`), one
  save is awaited at a time (`OneSave`), and the text counted as saved and the verdict
  are behind by that save at most (`TextKept`, `VerdictKept`);
* form: the two panes are at one of five points between an edit and rest;
* test chat: the inspector is behind its session by the turn on its way (`TurnKept`),
  and no two starts made one session (`StartKept`, `StartsDiffer`);
* home: a restart nothing troubled is at one of its steps or has brought the model back
  (`Restarted`).

The recommender has no steps worth the name; its theorems are about orders.  The places
are totally ordered by points and position, so at most three have fewer than three
before them (`TopAreFew`), and whatever has fewer stands before all that has more.  A
drilled weak dimension that is not cleared is worth at least 3 points, a matching
position 2, and what is cleared costs 10 against at most 3 + 3 + 3 + 2: of that
`DrillsComeFirst` follows.  A beginner's places are the first of their pack, so they
are as many as packs.

Every safety property of the passing runs is thus proved.  Only model-checked are the
temporal ones (`ConversationEnds`, `CallsReturn`, `DownloadsReturn`, `NeverPinned`,
`StartsEnd`): liveness is out of the prover's reach.  The theorems of the library that
do induction over numbers or sequences take an operator and cannot be used; where an
induction was needed it is one by a least counterexample (`WFMin`), over numbers or
over finite sets written out in the proof, as for `Without` of the voice queue and the
folds of the logbook.

## 5. Where code and documents disagree

Two disagreements have a run whose counterexample is the history:

* `EndedIsTerminal`: a turn in flight reopens a session the player has ended.
* `ClearErasesTranscripts`: the wipe leaves the search index full.

The models show, or were built around, the following as well.  Where a property
of a run would fail for one of them, it excludes exactly that case and its
comment says so.

convsim-core:

* a `stop()` that overlaps a failing `start()` drops the handle under its wait,
  and the child lives on unowned (`sidecar.py:365`); a `stop()` before the process
  is spawned reports STOPPED and the child comes to life afterwards
  (`sidecar.py:312`); a log that cannot be written leaves STARTING with nothing
  in flight (`sidecar.py:265`);
* with two downloads of one model a row becomes ready with bytes nobody verified
  (`model_download_service.py:199`, against 18-20);
* the late turn replaces a stored `player_exit` by its own ending or none
  (`turn_pipeline.py:684`, against `docs/architecture.md:121`);
* turn rows are kept when saving is off (`turn_pipeline.py:557-585` and
  `sessions.py:548-554`, against `docs/privacy.md:46-47` and 252);
* a debrief that is asked for again counts its session a second time in the
  memory (`routers/sessions.py:925`);
* a deletion during speech synthesis fails the request (`sessions.py:344`,
  against the docstring at 315); engine errors fail the turn (`sessions.py:658`,
  against `docs/architecture.md:134`);
* a cancellation after the last look at the event is ignored
  (`model_download_service.py:171`, against 95); a death of the core after the
  last chunk leaves a full `.part`, whose resumption is answered 416 and fails
  the row (against 13-16); a directory that cannot be made leaves the row
  pending, not failed (line 103, against 10); a row the setup pipeline shares
  with the install route changes after it was terminal (`setup_install.py:257`,
  against `models.py:597`).

Gateway:

* with `CONVSIM_FAKE_DELAY_MS` a turn that answers late reopens an ended session;
  an ending by the turn limit leaves `ended_at` NULL; a debrief that is asked for
  again stores its events again;
* the wipe leaves hub entries and sockets of sessions that are gone; numbers have
  gaps for those present when somebody connects; the replay takes the oldest 50
  rows (`session-ws.ts:116-136`), so a longer conversation is shown from its
  beginning only;
* two downloads of one registry entry share one `.part`; a download has no
  timeout; a benchmark is stored for a model that is no longer active.

Packs:

* an import over an older copy is not atomic: the old one is removed first
  (`packs.ts:176-181`; the command line's twin, `import-pack.ts:136`, says
  "Atomically replace");
* an item whose pack id was renamed keeps a stale index entry when the update is
  quarantined (`workshop.ts:215-220`); index and item row are not one transaction
  (`workshop.ts:230-258`); two sources of one id, or a sync over a manual import,
  make an unsubscription remove what the other brought;
* a workbench import that overwrites removes the old pack before it copies; files
  a save left half-way (`.tmp.*`) are exported.

Conversation screen:

* no frame says which submission it answers: a final frame that comes after the
  next submission is shown as its reply (`Conversation.tsx:832`), a late token
  leaves text that hides the page's state until a final one comes;
* when a turn was stored and its answer lost, the page takes the turn back, and
  the next turn's poll adopts the old reply (601-602); a reload during a turn
  misses its reply; a reload of an ended session opens the composer again;
* a mark of an interruption that was discarded is sent with a later typed turn
  (365-370); a chunk that fails while loading may start a second one; chunks that
  arrive after the player began to speak play over the recording;
* a permission granted after the page was left leaves the microphone open
  (`useMicCapture.ts:127-152`); silence detection counts as available on any
  answer of the health check, also a negative one (`useVad.ts`).

Other pages:

* set-up: a late terminal answer of an old job stops the poll of the new one and
  a snapshot of the old job is shown after a retry; cancelling the install records
  it as completed with a model; the preflight lists only problems that need a
  person, so that a page with none of them is empty;
* brief: a start whose answer was lost is reported failed, and a second makes
  another session; a late answer still navigates after the page was left;
* library: a sync that only quarantines does not reload the list; answers of
  several list requests are shown in the order they come; a filter whose choices
  vanish hides everything;
* debrief: statistics count again on every visit; a turning point scrolls one row
  early (`Debrief.tsx:722-728`).  The page reads
  `session.setup`, `session.scenario_id` and the turns among `events`
  (`Debrief.tsx:129-145`, `192-207`), as the gateway exports them
  (`api/routes/privacy.ts:94-135`); convsim-core puts setup, scenario and turns at the
  top of its export (`core/routers/sessions.py:1241-1310`).  With it the page finds
  neither, so that "Replay same setup" opens the brief of a new one (against
  `web/__tests__/Debrief.test.tsx:546`, whose mock has the shape of the gateway's), a
  variation beside the bare transcript opens the library, and the transcript is empty;
* settings: the answer of one deletion closes the confirmation of another; a list
  older than a deletion shows the row again; edits of the runtime panel typed while
  an apply is under way are overwritten; `saveTtsCache` and `saveRawAudio` are
  stored and read by nobody (against `docs/privacy.md:253-254`);
* workbench: a late read of one file is shown, and then saved, under another; the
  verdict of another pack or of older text opens the publish button
  (`CreatorWorkbench.tsx:1630`); edits begun while a copy, an import or the
  read of a file is under way are dropped by its answer without a question
  (1536-1541, 1575-1578, 1609); a test
  session whose start was left stays on the server; a form edit over broken text
  loses the fields the form does not have (`FormEditor.tsx:35`);
* recommender: before any score the author's default level is advised, also where the
  scenario does not offer it (`recommender.ts:90`; from the first score on the level is
  clamped, 18-27);
* home: a restart stops the engine when only the status request failed
  (`Home.tsx:118-123`), and a start that fails after the stop loses the model's
  path; a dismissed notice returns where session storage is not available.

Shell and startup:

* an error phase is final: "Restart the app" reloads the page, which shows the
  same card (`CoreStartup.tsx:331`, `lib.rs:826-829`), also when the engine became
  ready after the timeout;
* an adopted engine that is replaced by a stranger between two polls is not
  noticed (`lib.rs:1304`); a development build adopts any edition;
* an own engine that is slow is reported as a port conflict when another program
  answers the probe meanwhile.

## 6. Plan

1. `ScenarioState`, `SessionEngine`, the refinement, `Sidecar`, `ModelDownload`,
   their runs and proofs: done.
2. `Gateway` and its models and settings; packs and workbench; the client; the
   shell and the startup page; the proofs of the session tables and the refinement
   of `Conversations`, of the gateway's sessions, of the shell and page and of the
   pack library: done.
3. The proofs of the gateway's counts, models and settings and of the conversation
   screen with its voice, microphone and wait panel, and of the pages of `web`: done.
4. Modules worth adding: the stages of the set-up pipeline around the download,
   the replacement of the active runtime under a running turn, the choice the
   output parser makes.

## 7. Not modelled

Listed with reasons in `PROJECT.json`, "components": text processing (prompt
composition, input router, injection scanner, sentence splitter), read-only
reports, file validation of convsim-core, its runtime adapters and speech workers,
the command line, the API client and translations, Steam and other platform calls,
declarations.  Within modelled parts: corrupt stored debriefs, a scenario that
disappears from the registry, the refusal to play without a model, database
failures other than constraints, an error of `try_wait` (`lib.rs:1276`), and the
real-time lengths of timers.
