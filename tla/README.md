# Formal model of the voice-assistant catalog

This directory holds a TLA+ development of the repository: specifications translated from the
TypeScript source, TLC configurations that check them on small instances, and proofs that TLAPS
checks for every value of the constants. `PROJECT.json` is the index: the components of the system,
the runs, which lines of the source every definition stands for (`map`), the hazards the properties
were written for, the disagreements found, and the theorems.

The repository holds two sub-projects, abbreviated below:

- **C** = `src/cloud-run-time-feature-initial-setup/`: the cloud runtime (a control server for browser sessions), its voice services and stores.
- **P** = `src/product_live_assist-feature-initial-setup/`: the browser SDK (`packages/web-sdk`), shared packages, and the catalog/mapping/live-assist server (`server`).

## 1. Inventory

| Part | State | Operations | Interacts with | What is hard | Modules |
|---|---|---|---|---|---|
| Demo director (C `src/demo-director.ts`) | none of its own; it maps a `DemoSessionState` to a transition | capture an intake answer, interrupt, checkpoint, answer, replace a module, take a result, five buttons, finish, restore and validate | called by the server actor | long sequences of legal calls; a state its own validator would throw away | `DemoDirector`, `DemoSession`, `Playthrough` |
| Control server, demo part (C `src/server.ts`) | `demoState`, `pendingJourney`, `pendingDemoInterruption`, pending observation, planning generation, closing timer | `demo_control`, `user_turn`, `journey_progress`, `journey_result`, `observation`, `interrupt`; two timers | director, planner, responder, control socket | one queue for messages, but timers and model answers run beside it | `GuidedDemo` |
| Browser SDK, demo part (P `web-sdk/src/runtime.ts`, `guided-demo.ts`, `transport.ts`) | panel snapshot, running journey, pause request, paused journey, staged result | commands of the server, buttons, barge-in, workflow steps, cues | workflow executor, playback, control socket | handlers are not serialised, unlike what comments say | `GuidedDemo` |
| Turn actor (C `server.ts`, `turn-coordinator.ts`, `dynamic-agent.ts`) | busy flag, queued turn, pending journey, observation, tool | turn, barge-in, observation, tool result, journey progress | models, SDK | answers of an interrupted turn; a tool result behind the turn that awaits it | `TurnActor` |
| A turn's authority (C `turn-planner.ts`, `turn-coordinator.ts`, `dynamic-agent.ts`, P `runtime-core/src/evidence-router.ts`) | the plan, the route being executed, the tools in flight | match the screen, plan, sign a route, release a command, check what the page reports | model, browser SDK | the screen, the plan and the page disagree; a route longer than allowed | `TurnAuthority` |
| Voice (P `voice.ts`, C `packages/speech-core`) | utterances, sequence, queue, barge-in barriers, turn manager | say, chunk, finish, interrupt, probe, acknowledge | speech services | gaps, late chunks, blocked playback | `VoiceChannel` |
| Continuity and stores (C `stores/*`, P `continuity.ts`) | a person's record with revision and expiry, owner, handoff tokens, a checkpoint per origin | save with compare-and-set, take over, resume, hand off, log out | control server, browser storage | reads before an await, used after it; the ABA of a revision | `Continuity` |
| Workflow executor (P `workflow-core/src/executor.ts`) | open steps, step count, approvals | steps, branches, loops, approvals, timeouts, abort | policy, a person, action driver | errors that unwind through optional and approving steps | `WorkflowExecutor` |
| Page access (P `web-sdk/src/action-driver.ts`, `observer.ts`, `resolver.ts`, `dynamic-tools.ts`) | observation version, recent fingerprints | observe, resolve, act, verify | the customer's page | the page changes at every await | `PageActions` |
| Contract and catalog loading (P `packages/sdk-contracts`, `web-sdk/src/catalog.ts`, `safety.ts`) | the page's catalog, its cache | validate, verify, load, allow | catalog server, executor | what is accepted must be runnable | `CatalogContract` |
| Catalog publication and caches (P `server/src/catalog/*`, `storage/postgres.ts`) | versions with journeys and approvals, active pointer, bundle caches | map, review, publish, serve | PostgreSQL, Redis, object store | READ COMMITTED publications that overlap | `CatalogPublication` |
| Platform repositories (P `server/src/storage/postgres.ts`, `memory.ts`, the `/api/v2` routes of `server.ts`) | products, catalog versions with their journeys, coverage, screens, moves and plays, jobs, artifacts, sessions, grants, credentials, feedback, training events | create, remove, draft, review, publish, map; queue, claim, checkpoint, control; start, recover, end; grant, revoke | routes, mapping workers, live demos | requests of several transactions; cascades; one role's map beside another's review; the tests run against a store in memory | `PlatformStore`, `PostgresStore` |
| Mapping jobs (P `server/src/mapping/*`, `runtime/distributed-capacity.ts`) | job rows with leases (PostgreSQL), queue and slots (Redis), artifacts, the worker's copy of its row | create, enqueue, pause/resume/cancel; poll, admit, claim, checkpoint, settle | PostgreSQL, Redis, draft catalog | crashes between any two writes, leases that expire, people deciding meanwhile | `MappingJobs` |
| Mapper and training (P `server/src/mapper/*`, `onboarding.ts`) | the product graph, its old versions, published flows, the run | explore, verify, minimise, describe, stage, review, restore, publish, rework | a hosted browser, models, people | one file, copied and written back whole by many | `JourneyTraining`, `JourneyReplay` |
| Knowledge (P `server/src/knowledge/*`) | files, a store's copy and stamp | ingest, crawl, publish, answer | file system, web | copies that miss each other's writes; concurrent fetches | `BrainStore`, `Crawl` |
| Hosted demos (P `server/src/livebox.ts`, `server.ts`, `runtime/*`) | session objects, rows, directory, slots, leases, managed browsers | connect, reconnect, start, recover, end, reap | PostgreSQL, Redis, browsers | crashes, takeovers, teardowns that fail half-way | `LiveSessions` |
| Turns of a hosted demo (P `server/src/agent.ts`, `live/*`) | the active turn, the browser's lock, speech, conversation | answer, act, replay a flow, stop, barge in | model, browser, speech | turns that overlap; stops while something is awaited | `HostedTurns`, `ToolHistory` |
| Tickets, budgets, speech-to-text, model client, accounts, voice lab | little or none | pure functions, I/O, third-party services | | | not modelled |

What makes the main parts correct, informally:

- **Director**: it can be called in any order the server can produce without leaving the states its validator admits; the visitor is shown the modules of one playlist, in order, none twice; every button offered works; a demo that waits offers a way on.
- **Server, SDK and socket**: both sides agree on which journey runs and where it is paused; nobody waits for an answer that will not come; a button does what the visitor saw; no timer acts on a demo that moved on.
- **Turns**: a turn that was cut off touches the page no more (cloud runtime) or at most once more, with the action it had the browser for (hosted demos); what was said while something else ran is taken up; whatever the model says, only what the signed catalog, the visitor's roles and the page allow is released.
- **Executor and contract**: nothing risky happens unapproved; a stop is heard; what the browser accepted it can run.
- **Training, publication**: what visitors are served was replayed and approved by a person, whatever runs, reviewers, caches and crashes interleave.
- **Mapping**: a job is worked on by one worker at a time, survives any crash, respects people's decisions, promises no more than its artifacts hold, settles at last, and gives back what it reserved.
- **Platform repositories**: the database answers as the store in memory that the tests trust.
- **Hosted demos**: one worker drives a demo, and a deserted one is let go with everything it held.

`PROJECT.json` lists every component with its status, and 40 hazards with the line where each bites
and the properties aimed at it.

## 2. How the project is built

Component modules state one part each, over their own variables, with `Init`, one action per
handler, step or stretch of code between two awaits, and a type invariant. `GuidedDemo` composes
server, browser, socket and visitor around `DemoDirector` and implements `Playthrough` through
`DemoSession`. MC modules bring components together for TLC: they extend or instantiate them, give
the constants values and add no behaviour. `MCSession`, `MCTurns`, `MCComponents` and `MCProduct`
put components that share no state side by side: a behaviour belongs to one part, chosen at the
start, and the others rest in their initial state; the state space is the sum of the parts', not the product.
Where a component is checked on an instance other than the extended one (two page loads or three,
one worker or two), the MC module holds a named `INSTANCE`.

Proofs are in modules of their own (`...Proofs`), one for each component or pair of components.
No module declares a `RECURSIVE` operator; recursion over sequences uses the folds and sequence
operators of the community modules.

Beside a definition there may be a variant marked `wrong:`. It is a plausible bug, used by a mutant in
`PROJECT.json`: with it in place of the definition TLC finds the property violated in the same
run.

## 3. Modules

### DemoDirector
`class DeterministicDemoDirector` owns no state. Each operation is an operator on a state record
that returns `[state, order]`; an operation that throws becomes a predicate `May...` and the
transition of a legal call. `Restore` and `IsValid` are the validator. Answer texts, timestamps and
the list of completed step ids are left out; a checkpoint is the journey and the step to resume at.
`ProfileAssumption` is what `validateSdkCatalog` checks of a signed profile, `AbsenceAssumption`
says that "absent" is none of the values.

### DemoSession
One session state driven through the director by every legal sequence of calls: the widest
environment the director can meet, so what holds here holds whatever the server does. `order` is
the last instruction the director gave.

### Playthrough
What the visitor is promised: an intake, then the modules of one playlist, one slot at a time, a
slot changed only while the demo is held. `DemoSession` implements it under the mapping in
`Visitor` (pausing, waiting and answering are all "held").

### GuidedDemo
Two records, two sequences, one visitor:

| Model | Code |
|---|---|
| `srv.demo` | `session.demoState` |
| `srv.journey` | `pendingJourney` (command id, module, paused flag) |
| `srv.interruption` | `pendingDemoInterruption`: `NoInterruption`, `Heard` (not planned) or a plan |
| `srv.observing`, `srv.late` | the pending observation; the answer due after its timeout |
| `srv.timer` | `demoClosingTimer` |
| `sdk.phase/module/buttons/pending` | `GuidedDemoController`'s snapshot and `pendingAction` |
| `sdk.run`, `pauseRequested`, `paused` | `activeJourney`, the pause request, `pausedJourney` |
| `sdk.staged`, `sdk.intro` | the result held for the closing cue; an introduction being played |
| `up`, `down` | the control socket, in order |

The server takes a message from `up` and runs its handler to the end in one step, as
`controlQueue` makes it; `HandleControl`, `HandleTurn`, `HandlePaused`, `HandleResult`,
`HandleObservation` and `HandleInterrupt` follow the handlers' order of writes, persists and
sends. Timers (`ClosingTimer`, `ObservationTimeout`, `LateAnswer`) run in between. The SDK takes
commands with `Take...` and works on its own with `BeginStep`, `EndStep`, `FailStep`,
`PauseAtBoundary`, `EndIntroduction`, `EndClosingCue`, `Observe`. The visitor may talk, barge in,
press a button or leave whenever the bounds allow. The planner's outcome and whether the responder
answers are chosen freely within `Faults`.

### TurnActor
Ordinary turns of the cloud runtime, outside a demo.

| Model | Code |
|---|---|
| `srv.busy` | `busy`: `none`, `live`, or `aborted` (an `AbortController` that fired) |
| `srv.queued`, `srv.pending...` | `queuedTurn`, `pendingJourney`, pending observation and tool |
| `actor.at`, `actor.turn` | the handler the control queue is in, and the await it is at: `plan`, `model`, `ack`, `explain`, `talk`, `dyn`, `tool` |
| `dyn` | `runDynamicTurn`: iteration, command sent |
| `sdk` | the browser's journey (running, paused) and dynamic tool |
| `up`, `down`, `http` | control socket both ways; the HTTP copy of a tool result |

A message is taken only when the actor is idle, since handlers of the control socket are
awaited one after the other; the voice socket and the tool route get in between. `cut` is a
history: the turns a barge-in found with a model, an answer or a tool at work.

### TurnAuthority
What one turn of the runtime may do, whatever the model answers. `pin` is what the turn is pinned to
at its start and never changes: the catalog, the screen the SDK reports, the visitor's roles, whether
dynamic tools are on. `talk` is the turn: its stage, the plan, the rest of its route and what was
released. `selectScreen` scores screens, `EvidenceRouter` looks for a shortest route by breadth
(`SearchStep` takes one screen off its queue), `TurnPlanner` validates what the model proposes,
`TurnCoordinator` releases segment after segment, and `runDynamicTurn` releases dynamic tools.
Wording, prompts and latency are left out; the model is any member of `PlanReplies` and of the
proposals.

### VoiceChannel
The browser's `CloudVoiceClient` (`client`, `waiters`), and the server's `SpeechEngine`, `TurnManager`
and `VoiceState` (`engine`), with the voice socket both ways (`downlink`, `uplink`) and the control
socket with what the actor is asked to say (`session`). Synthesis may fail, chunks may be lost or
arrive after a barge-in, playback may be blocked. The playback queue is a set read in the order of its
numbers, because the code sorts it each time it takes from it. `heard` is the history of what reached
the loudspeaker.

### WorkflowExecutor
`stack` holds the open steps of `execute`/`runSteps`, the workflow at the bottom; a frame has its
block, the position in it, the turns of a loop and the approval scope it inherits. `phase` is the
await the innermost step is at. Timeouts, driver errors, refused approvals and abort signals throw;
`Unwind`, `Catch` follow `catch` and optional steps. `grants` and `effects` are histories.
`WellFormed` is what the contract guarantees of a workflow.

### CatalogContract
`Accepted` is `validateSdkCatalog` (references, journeys, tools, targets, profile, sales plays);
`OpenCatalog` is `catalog.ts load` with digests, keys, pins and the cache; `Allowed` is
`SafetyPolicy` with the executor's policy. Ids name the parts; texts, sizes and formats of single
fields are left out.

### CatalogPublication
`rows` are `catalog_versions` with their `journey_versions`; a transaction is one action, except
`Publish`, which runs at READ COMMITTED and takes four (`PreparePublish`, `Retire`, commit, caches). `local` and `shared` are
the bundle caches, `reqs` the request under way on each worker. `reviewed` is a history.

### Continuity
`row` is the record in the store, `conn` the state of each page load's socket in a process,
`owner` that process's `continuityOwners`, `page` the browser's side, `disk` the checkpoint in the storage of
each origin, `tokens` the handoffs. Each `await` of the store splits a handler in two. Records expire, processes are
left, pages closed and reloaded. A socket's pending work has two sources, kept apart as in `ControlState`: what the page itself
runs (`own`, the code's `pendingJourney` and `pendingCatalogNavigation`) and what the record said when it was adopted (`auth`,
the code's `authoritativePending...`); a write stores the first where there is one, else the second (`Kept`). `plan` is the rest of a
navigation plan. `ended`, `known`, `ends`, `age`, `heirOf` and `by` are histories: which turns were ended in the chain of writes the
record rests on, what of it a page saw at its own last write, and whom a page took the conversation from. A logout deletes the
record, so the next chain begins with none (`age`).

### HostedTurns and ToolHistory
`HostedTurns` has one record per message of the visitor: where its handler awaits (`at`), the calls
still to be worked off, the flow it replays. `lock` is `LiveBox.exclusive`, `gen` the speech
engine's generation, `paused` the step at which a flow can be resumed. `late` counts what a turn did
to the page after it was cut off. `ToolHistory` is the conversation those turns share: `messages`
as sent to the model, pruned and normalised before each request.

### LiveSessions
`row`, `dir`, `slot`, `lease` are the stores; `sess` and `objs` what a worker has in memory;
`proc` the handlers of the first start and of each socket, `ends` the teardowns under way. Faults:
a worker crashes, a launch or a store write fails, a lease lapses although its holder lives
(`late`).

### PlatformStore and PostgresStore
`PlatformStore` is `storage/memory.ts`, the store the tests run against: one map per kind of thing,
one action per call. `PostgresStore` is the database the product runs on:

| Model | Code |
|---|---|
| `db` | the rows, a function of their id where they have one, else a set; what a cascade takes along goes in the same step |
| `work.requests` | what a request has still to write after its first transaction: the review to be noted, the job to be queued, the publication to be committed, the demo's row, its feedback. A crash drops it (`Abandon`) |
| `work.serving`, `work.hosting` | the job a mapping worker believes to hold; the demos a worker has in memory |
| `db.types`, `db.screens` | `screen_types`, one row for each version and screen key, which every role's map overwrites; `screen_states`, one for each role. A snapshot joins them (`DescribedScreen`) |
| `read` | the aggregates, snapshots and leases that the rows amount to, which is what a caller sees, but for disputed descriptions (below) |
| `kept` | what the store in memory keeps of a removed product |

`ImplementsStore` says that `read` changes only as `PlatformStore` allows. The two are written quite
differently: a draft is a copy of one value there and of seven tables here; an approval is carried over by value
there and by checksum here; a lease is an entry there and two columns here; a screen is one value there, a
type and a state here.

In one thing the code does not implement the store, and the property leaves just that out. The name, URL and
purpose of a screen (`about`) are in the row of its type, so the last map has its word for every role, while
`memory.ts` keeps each role's own. What is said of a screen is `Disputed` when a map says something else of it; then,
and only then, `read` holds no description (`Compared`), nor do the maps the store is given
(`Undisputed`). That such a screen is there, with its role, and what is said of every other one, is compared.
Without that `ImplementsStore` is violated: one role is mapped, then another with other words for the same key.

### MappingJobs
Every access to PostgreSQL or Redis is a step, so a crash or another worker may come between any
two. `worker[w].at` is the place in `MappingWorker.run` and `MappingJobRunner.run`:

| `at` | next access |
|---|---|
| `poll`, `admit`, `busy` | read the queue; enter a slot; put a refused member back |
| `claim` | `claimJob`: take a queued job, one's own, or a running one without a lease |
| `begin`, `work`, `advance`, `finish` | checkpoints at the start, in and at the end of a stage, and of the run |
| `caught`, `fail` | the runner's catch: respect a person's decision, or record the failure |
| `recover`, `defer`, `done`, `leave` | the worker's catch, putting back or removing the member, releasing the slot |

`worker[w]` also holds the stage and attempts in the worker's memory, which is what it writes.
`MayWrite` is the condition of `saveMappingJob` (the row's owner is the writer). Control requests
write the row, clear its lease and, for a resume, enqueue afterwards. Leases expire when their
owner is gone, or (a fault) when it is merely slow; slots expire when nobody renews them.

### JourneyTraining and JourneyReplay
`JourneyTraining` has the graph file (`graph`), its kept `versions`, the published `flows`, the
training `run` with its own copy and place, and `hand`s: requests of reviewers and the command
line, each with the copy it loaded. A copy is worked on for minutes and written back whole. A
journey is its path, wording, needs, status, revision and approval. `proven` and `reviewed` are
histories of what replays and people said. `JourneyReplay` is one exploration and its replays
against a product (external): what the product's server keeps, what the browser keeps, what the
explorer recorded, and what `resetState` forgets.

### PageActions
`page` is what the customer's page shows, by generation of its nodes; it changes between any two
awaits of the driver. `watch` is the observer, `step` what the driver or a dynamic tool is doing,
`acted` the last thing done. Controls are resolved by the locators of the catalog, confidence is a
percentage.

### Crawl and BrainStore
`Crawl` walks a seed's sitemap or links, fetches with a pool of workers whose answers come in any
order or not at all, renders what reads as empty, drops furniture and cuts chunks. `BrainStore` has
the files of a product's knowledge with their modification times, and the stores that keep copies.

## 4. Runs

| Run | Instance | What it shows |
|---|---|---|
| `session` | `MCSession`: the director (3 modules, two of which share a journey; 2 steps; 3 personas with their own, no and a repeated question; three playlists, one of them empty) beside the voice channel (one narration, one answer, one speech, one start of the visitor) | the director's states survive their own validator, repeat nothing, always have a way on and a working button, resume where the checkpoint is, and keep the promise `ImplementsPlaythrough`; narration is heard in order and ends |
| `guided_demo` | `MCGuidedDemo`: 2 playable modules and one that is not, 2 steps, 4 visitor inputs after the intake, every fault | server and browser agree on the journey and its checkpoint; a button does what the visitor saw; no timer answers for a demo that moved on; all of it is still a playthrough |
| `guided_demo_fair` | the same, 3 inputs, steps may fail, models answer, fairness | demos come to rest, closings end, presses are answered, and the panel at rest shows what the server has |
| `mapping_jobs_fair` | 1 job, 2 workers, 2 attempts, 2 faults (crash, slow worker, failing stage or store), 1 control request, fairness | jobs settle; ended ones let go of queue and slot |
| `turns` | `MCTurns`: the turn actor (2 turns, 1 barge-in, 3 tools, 1 target, 3 iterations); a fleet of 2 workers and 2 sockets with crashes; a lone worker with one socket, every caller of `endSession` and failing launches and stores | a cut-off turn sends no act; turns are taken up; one worker drives a demo; a deserted one is let go |
| `components` | `MCComponents`: five workflows (an approval around an optional step, a loop around a branch) of at most 6 steps; a catalog with one or two edits; publication with 2 versions, 1 journey, 2 contents, 1 worker, 2 admins, 3 reviews; continuity with 2 pages, 2 processes, 2 origins and 3 acts, and with 3 pages, 1 origin and 1 act; two hosted turns; a conversation of two turns, two calls and two rounds; one turn's authority over 8 catalogs of 6 screens with a route of five moves | effects are sanctioned, stops are heard, accepted catalogs run, served versions were reviewed, cut-off hosted turns act at most once, requests to the model are whole, a turn releases only what is signed and allowed, a person's record is taken over cleanly |
| `product` | `MCProduct`: mapping (1 job, 2 workers, 2 faults, 2 control requests); training (2 goals, one path a prefix of the other, 1 run, 1 hand, 1 kept version, 2 acts); two replays (put and buy; add, see and list); a page with 2 changes; a crawl over a site served by its server or drawn by scripts; and the platform's database four times: `mapping` (2 roles, 2 jobs), `reporting` (what a mapper learns), `drafting` (2 organizations, 2 versions, plays), `hosting` (2 workers, a demo, a grant, a credential, what the demo taught) | rows promise no more than the artifacts hold, queued work is in the queue, decisions stand, one hand at a time; what is live was reviewed; a verified flow replays; an act is on the control that was chosen; a crawl takes up every page once; whatever the routes, mappers and demos do to the database, the tests' store would have answered the same, but for the description of a screen that two maps describe differently (`ImplementsStore`). A behaviour belongs to one part, and states are told apart by that part's variables (`OwnView`), the others being as they began |
| `pausing_ends`, `mapping_admission`, `spoken_turn`, `live_reconnect`, `stale_knowledge` | the module of the part, few faults | one disagreement each (section 7) |

Every property of a passing run has a mutant in `PROJECT.json`: a plausible bug (marked `wrong:`
beside the definition it replaces) under which TLC finds the property violated in that run.

### Bounds, and why they are enough

- **Director**: no bound beyond the profile; TLC explores every state of the instance. Two modules with one journey, a playlist of three and an empty one reach replacement, repetition and closing. The theorems remove the bound on the profile.
- **Guided demo**: `InputBudget` counts visitor inputs after the intake: the start and three more are enough for an interruption, a second one while the first is being answered, and a button or a stop across them. `QueueBound` is how many messages may be in flight when the visitor acts; handlers send as many as they do. Two steps give a boundary inside a journey and one at its end.
- **Turns**: two turns give one that is cut off or waits and one that cuts it off; three iterations and tools give a tool that returns late and one after it.
- **A turn's authority**: the site has a route of five moves, one more than `MaxEdges` admits, screens that share a fingerprint, a control that is not visible and a journey another role needs; three iterations of the dynamic agent give a call, one that repeats it and a last one.
- **Hosted demos**: `MaxStarts` bounds the browsers attached to over a behaviour: the first start, a recovery, and a recovery of that. Two sockets are needed for a page that is back before its old socket is found closed. Letting go is checked with one socket, since with two `live_reconnect` shows that it fails.
- **Mapping**: jobs touch one another only through slots and the time of workers, so one job and two workers show every race on a row, its lease, its member and its slot; two faults give a takeover that fails in its turn. Two jobs are used where slots are the question.
- **Publication, training**: two versions, two admins or hands and a run are what it takes for a copy to be stale when it is written back; a kept version is what a restore brings back.
- **Platform database**: `MaxCalls` bounds the requests people make and `MaxPending` those that are under way at once: two are what it takes for one to find its rows changed by another between its transactions; `MaxRevision` bounds how often a journey is mapped anew. Roles and jobs come in twos where one may disturb the other (`mapping`), workers where one takes over from another (`hosting`), organizations where one must not touch the other (`drafting`); the store they must implement is that of all the constants together.
- **Voice**: one narration, one answer, one speech and one start are what it takes for a barge-in to cut off lines that are under way while another utterance is asked for.
- **Conversation**: `MaxMessages` is tight, as in the code: 2 × rounds − 1 fits (12 rounds, 23 messages, a limit of 24).
- **Page**: two changes allow one between the look and the choice and one between the choice and the act.

`CHECK_DEADLOCK FALSE` appears where the system really may stop: when budgets are used up and
everything is settled.

## 5. Fairness, and why the code justifies it

- **Guided demo**: messages of the ordered socket are delivered and handled (each handler ends; models have timeouts); a step, an introduction or a cue ends (steps have a timeout in the executor, playback is bounded); timers fire. Nothing forces the visitor to speak, or the page to be readable in time: that is what the observation timeout is for. `guided_demo_fair` assumes that planner and responder answer.
- **Turn actor**: weak fairness of the handler, of each await (the models and tools have timeouts), of the socket and of the journey's steps. Visitors come as they like.
- **Voice**: weak fairness of the server's and the browser's own steps.
- **Hosted demos**: weak fairness of the handlers, the grace timers, the teardown and the lapse of slots; the reaper is sure to come only where no socket is open.
- **Mapping**: a running worker takes its next step, the route finishes its enqueue, leases and slots nobody renews expire. Reading a given member is strongly fair: a deferred member is scored behind those that are due. Crashes and slowness are bounded, not fair: recovery is from finitely many.

## 6. Proofs

| Module | Theorems |
|---|---|
| `DemoSessionProofs` (with `DemoDirectorProofs`) | `Invariance`, `TypeCorrect`; `SurvivesRestore`, `OnStageInPlaylist`, `NoRepeat`, `WayForward`, `ButtonsWork`, `ResumeFitsModule`; `Refinement` of `Playthrough`; voice: `VoiceInvariance`, `NarrationsHeardInOrder` |
| `GuidedDemoProofs` | `Invariance`, `TypeCorrect`; `OneJourney`, `ExactResume`, `ActsOnWhatWasSeen`, `LateAnswerFits`, `PanelStaysCurrent`; `Refinement`: server, browser and socket implement `Playthrough` |
| `ServerProofs` | turn actor: `ActorInvariance`, `ActorTypeCorrect`, `CutOffTurnsAreSilent`; hosted demos: `FleetInvariance`, `FleetTypeCorrect`, `DrivenAlone` |
| `ExecutionProofs` | hosted turns: `CutOffActsOnce`; executor: `RiskIsSanctioned`, `StopsAreHeard`; continuity: `HandedOverCleanly` |
| `StoreProofs` | `StoreInvariant`; `StoreImplemented`: the platform's database implements the tests' store, up to disputed descriptions of screens |
| `CatalogProofs` | publication: `OnlyReviewedIsServed`; contract: `LoadedIsAccepted`, `WhatIsAcceptedRuns`; a turn's authority: `AuthorityInvariance`, `OnlyTheAuthorisedIsReleased` |
| `ProductProofs` | mapping: `Invariance`, `TypeCorrect`, `OutputBacked`, `NothingForgotten`, `DecisionsStay`, `OneHand`; training: `TrainingInvariance`, `OnlyReviewedGoesLive`; the page: `ActsAsSeen` |

**Assumptions.** Each is named, stands in the module that declares the constants, and is evaluated
by TLC on the runs: `ProfileAssumption` and `AbsenceAssumption` (what the contract checks of a signed
profile), `MappingAssumption`, `TurnsAssumption`, `VersionsAssumption`, `WorkflowsAssumption` (the
workflows are `WellFormed`, which the contract guarantees), `EnvelopesAssumption` (envelopes have the
shape the parser gives them), `FleetAssumption` (there is a worker, finitely many sockets, a grace
timer, room for one start), `TurnsAreDistinct` (no turn or page is the null id, and a turn either runs a journey or follows a
plan), `UtterancesDiffer` (a narration the browser waits for and an answer of the server's own turns are
different utterances, and neither is the null id: ids are drawn anew for each). The theorems on hosted demos have one hypothesis more, `"late"` is not
among the faults: heartbeats come before the leases they renew lapse. The code needs it, since a
checkpoint writes the row without looking at it; with `"late"` TLC finds two drivers.
`PanelStaysCurrent` has the hypothesis that `"planner"` is not among them: a planner that fails has the
server back at its wait in memory only (`server.ts:1034`), behind a panel that still says "answering".
Steps and the responder may fail.

The theorems on the platform's database have the hypothesis `Sensible`: null is no id, and a mapper delivers a record
with its job and its journeys by key. `MCProduct` evaluates it for its rows. `PagesAssumption` says that
an element is one of its page by its slot. `ActsAsSeen` has the hypothesis `TellsApart`: on pages with
the same fingerprint a signed control has the same best matches. The driver compares nothing but
versions and fingerprints, and these hold the roles, names, visibility and state of the elements, not
the ids, selectors and containers that locators look at; so this is what the code needs of the
products it is put on, and does not check. `MCProduct` evaluates it for its shop, in which different
pages do have the same fingerprint.

An invariant that is checked is seldom inductive. What each proof adds, all of it checked by TLC on
the instances first:

- **Director**: one lemma per operation in `DemoDirectorProofs`: from a `Sound` state a legal call gives a `Good` transition. `Sound` says which fields go with which phase. The properties are not inductive one by one (that Continue works needs that the checkpoint fits the module, which needs that the position fits the playlist), so `SInv` carries them together. `SInv => IsValid` makes `Restore` the identity.
- **Guided demo**: `IInv` types server, browser and both directions of the socket and says what each knows of the other *given what is still on the way*: `Commands` (which commands can be under way), `WaitsExactly`, `ResumesExactly`, `ReportsExactly` (a journey the server waits for is running, staged, or its report is coming), `OffersCurrent`, `Panel`. Without the messages under way neither side's view implies the other's. The refinement shows each handler to be one step of the promise or a stutter.
- **The panel**: `PanelInv` says that the last state on its way to the browser is the server's, or none is on its way and the panel shows it, but for what the visitor did since: a pause asked for while a module plays, or a button pressed that the server will accept. Two things make it inductive. While the demo is pausing a state follows every stop on its way (`StopsTold`), so a pause the browser reaches is that of the journey the server awaits, and its report will be taken. And a result the director refuses cannot overtake such a report, since a journey has one outcome (`OneOutcome`). Each handler is shown to have told the state it leaves (`Done`), or to have left the demo as it was (`Mute`).
- **Turn actor**: `ActorInv` says a turn is in one place only: coming, waiting for a journey to pause, waiting for an observation, or worked on; it is cut off only where it is worked on, at an await at which the abort signal is read afterwards, and there the signal reads aborted. Uniqueness is what makes a queue of messages tractable: a turn that was cut off cannot come again.
- **Hosted demos**: a worker *holds* the demo with a heartbeat, a teardown under way, an attached start, or a start that can still attach. `FleetInv` says that whoever holds it has the row under a lease (`Fenced`), so a claim finds nobody else; that a checkpoint which lands after the end finds nobody else either (`LateOnes`), which needs that a teardown past its stop has released the browser (`Released`); and that each served object beats or is being torn down (`Served`). `Numbered` counts the starts let in, so that each finds an object.
- **Voice**: `VoiceInv` follows the numbers of the audio from the lines still to come (`Coming`) over the channel (`Arriving`) to the queue and the player (`InLine`, `Listens`): each is later than all that is held, played or heard before it. Beside it, `Course` says that a narration is asked for, worked on, closed and over in this order, and that its last number bounds every piece of it that is held or under way (`Within`, `UnderWithin`); so a narration that counts as completed has nothing left to say (`Silent`), and one that begins anew begins above everything heard. The lines of a generation that was cut off never speak again, which is why only the current ones need be in order (`ComingCut`). The theorem has no bound on utterances, speech or starts.
- **Hosted turns**: what a turn did after it was cut off is bounded by where it awaits (`AllSpared`).
- **Continuity**: `VisitInv` says of each page that what it has pending (what it runs, what the record told it, the rest of its plan) is disjoint from what it ended itself and from what it knew ended at its last write; and, *as long as its revision and age are the record's*, that neither what it has pending nor any write it has queued names a turn ended in the chain of writes behind the record. A page that has fallen behind may still hold such a turn: its next write will be refused. That is why this part is conditional, and it needs that no page is ahead of the record. The queue is ordered (`Ordered`): a later write ends no less than an earlier one and brings nothing back. A checkpoint in a storage or a code in a URL appears nowhere in it: whatever they name, a page believes only what it was told. For the other half, an heir waits until the page before it has no write left, and then reads the record that page wrote last (`Waits`, `HeirLink`, `HeirSeen`). While this was being proved, an earlier model turned out to take what a page runs and what it was told for one turn; the code keeps both, and the model now does (`server.ts:250-274`).
- **Executor**: `ScopesBacked` (a scope on the stack is covered by a grant in force), `AbortIsFinal`, `StoppedOnce`, `StillRuns`.
- **Publication**: every approval was given by a person for that content (`ApprovalsAreReal`), one transaction decides at a time, caches hold published bundles only (`CachesOK`), rows and publishers under way (`RowOK`, `PubOK`).
- **Contract**: what a page holds is an accepted envelope and its cache holds envelopes; `WhatIsAcceptedRuns` then follows from the operators.
- **A turn's authority**: `AuthorityInv` says that a plan that was accepted is allowed for the screen and roles of the turn, that every way in the search's queue is a chain of signed moves that begins at the screen the turn is on and is short enough (`SearchStep` extends one by one hop), and that what is left of a route while it is executed is such a chain. The search is a step of the model, not a recursive operator, which is what lets the invariant reach through it.
- **Mapping**: the properties speak of rows; what is written next is in the workers' memories. `MInv` adds what a worker at each place knows (`WorkersBacked`, `InStep`, `DoneIsSettled`). `WriteKeeps` is the common lemma of the five checkpoints; `RowSteps` yields both action properties.
- **Training**: `TrainingInv` says of the graph, of every kept version and of every copy a run or a hand holds that verified means replayed and approved means reviewed; with stale copies written back whole, a statement about the graph alone would not be inductive.
- **The page**: `PageInv` says of each place of a step what the driver knows: the page decided on is still *followed* by the observer (its version is the current one only as long as the last page looks like it), and once a control is resolved, either it is the only best match on the page decided on, or a change is on its way that the next look will find (`Noticed`: counted, read, or not yet read). The second case is what the look after the resolution is for, and why the one before is not enough.
- **Platform database**: `StoreInvariant` gives the rows their shape and ties the tables together: the active version of a product is its published one, every row of a version has its version, what is covered has its task and its journey, a lease is of a running job, an id that was drawn is never drawn again, even by a product that is gone. `TypesOK` adds that every screen has its type and that a type has the words of some map: so where maps do not dispute a key its words are those of every map, whoever wrote last, and where they do both sides are masked. Then each transaction is one lemma: the rows, read as a caller reads them (`ViewedCatalogs`, `ViewedLeases`, ...), change as one call of `PlatformStore` changes them, or not at all. `Remaps` is the longest (the map of a role replaces that role's rows and nothing of another role's, and a task that both walk stays), then the lemma under it that the types still have a map's words (`MappedTypes`, `SaidAlike`), then `DeleteProductStep` (what is kept of a removed product makes up for the rows the cascades took) and `PostCatalogStep` (a copy in new rows is what the store shares). The proof does not use the bounds.

**Only model-checked**: liveness under fairness and `ENABLED`, which are out of this prover's reach;
what is folded over sequences of data (`RequestsAreWhole`, `AcquiresTheSite`, `VerifiedReplays`) and so
needs induction over data; and the disagreements.

## 7. Disagreements with comments, documents and tests

With a run of their own:

1. **A demo may pause for ever** (`pausing_ends`). A journey that fails or is refused during an interruption has its result cleared at `server.ts:1901` and refused by the director; only Stop is left.
2. **More mappings than the limit** (`mapping_admission`). A second worker reads the same member, re-enters the slot `mapping:<jobId>`, cannot claim the row, and releases the slot of the one that runs it.
3. **A spoken turn is not answered aloud** (`spoken_turn`). After a barge-in the browser drops every chunk until `tts.resume`, which the runtime never sends.
4. **The grace period ends a demo in use** (`live_reconnect`). The close handler arms the timer without asking whether another socket serves the session.
5. **An update that is never read** (`stale_knowledge`). After its own save a store takes the newest stamp on disk for what it has loaded.

Seen while modelling, without a run of their own:

- **Guided demo, SDK**: a journey step runs while its introduction is spoken (`transport.ts:104` does not await the handler); Retry and Skip may be refused by the browser for ever when speech comes between a resume's `demo_state` and its `run_journey`; a failed module is not conversational although planner and director provide for it; a paused journey is overwritten by a navigation segment; a failing wording model leaves the demo answering (`server.ts:1105`).
- **Turns of the runtime**: a barge-in during planning finds no controller; one during an explanation ends in TURN_FAILED; errors of `beginTurn` are only logged; a tool that timed out may be executed twice.
- **A turn's authority**: the URL and fingerprint of one screen can outvote the match the SDK reports, which a comment calls authoritative (a move is then refused, since the two disagree); the search gives up when the first control of the first shortest route is not visible, although another route may be open; a journey with required inputs is never released by a route, whose segments carry none.
- **Voice**: a narration interrupted on the server gets `tts.end` without a sequence, which the client counts as completed; `cancelSpeech` lets later chunks of the same utterance play.
- **Contract**: role `*` is accepted but the SDK needs a literal role; resumability is checked against the journey's risk, the policy uses the workflow's; targets of scroll and keypress are unchecked.
- **Publication**: concurrent publications at READ COMMITTED can leave two published rows (`postgres.ts:460`); a compiled artifact may differ from re-reviewed rows; a stale local catalog is served without limit; the review request does not carry the checksum the person saw.
- **Platform database**: composite foreign keys with ON DELETE SET NULL include the NOT NULL organization. So once a journey was reviewed the map of its role is refused (`training_events`, `db/migrations/008_training_review.sql:85`), although an approval is read there to be carried over (`postgres.ts:738`), a rework's job cannot persist, a map with moves between screens may be refused, and a product whose demos left feedback can never be removed (`feedback_signals`, `db/migrations/001_durable_backbone.sql:438`), which the route's own comment wants. `DELETE /api/v2/products/:id` looks for live sessions by the product's key although they carry its id (`server.ts:622`), so it ends none. Roles share the types of their screens: a type's key has no role in it, keys are `screen-<n>` as each survey counts (`cartographer.ts:246`), and the map of a role overwrites name, URL and purpose (`postgres.ts:672`), which a snapshot reads back for every role (`postgres.ts:168`) and a bundle carries (`runtime-bundle.ts:106`). So mapping one role may describe the screens of another in its words, although the store the tests run against, which keeps each role's own (`memory.ts:230`), is said to have "the same tenant semantics as PostgreSQL" (`memory.ts:12`), and the other roles "must survive" (`postgres.ts:648`). `postgres.integration.test.ts:44` and `:67` build the case ("Entry", "Manager entry") and do not look at the purposes. The tests' store also differs where the model leaves both alone: it publishes a version that is no longer open, and its `ingestKnowledge` replaces where PostgreSQL adds.
- **Continuity**: two pages restoring at once close each other; a closing page's write makes the next page stale; a revision is used again after a logout; a handoff token is consumed before its scope is checked; used tickets are remembered per process.
- **Mapping**: the stage becomes complete one write before the status, so a crash in between starts over at preflight; a worker that returns because of a pause removes the member a resume put back (`WorkIsQueued` therefore excepts resumed jobs); a crash between row and enqueue leaves a queued job nobody reads.
- **Training**: a rejection during a run is overwritten by the run's save; a second rework cancels the first one's targeted run; the command line publishes without `releaseReady`; `deriveComposition` adds a precondition covered by the checksum, so an approval lapses silently.
- **Replay**: a screen's required controls may include a first-visit dialog's button; `resetState` clears only the current origin, and nothing at first with a Chrome profile.
- **Hosted demos**: a late checkpoint sets an ended row active again; a touch can recreate a removed entry; the reaper deletes the lease before the teardown; a worker that missed the DELETE does nothing; two messages that wait for the same turn both start; a stop during the 750 ms wait is lost; an aborted optional step counts as completed; a failed start does not release the managed browser.
- **Conversation**: normalising with overlapping turns closes a call as "did not complete" and drops its result; a pruned history may begin with an assistant message.
- **Page**: `fireClick` dispatches a click and also calls `element.click()`; the threshold of 0.7 never rejects; a dynamic click waits 120 ms and checks nothing again; `tools.execute` does not enforce its timeout; a change that leaves the fingerprint as it was (an id, a selector, a container) moves a control unnoticed (`observer.ts:129`), for which `ActsAsSeen` has its hypothesis.
- **Crawl and knowledge**: `renderPages` does not look at the status, so a 404 page is stored; robots rules are not applied to sitemaps or fetches; a publish whose flows are replaced during `buildEmbeddings` saves the old ones; one failed write rejects `writeChain` for ever.
- **Accounts, budgets**: the last-owner check and the delete are two steps; two calls can pass a budget before either is charged (`budget.ts:93`).

## 8. Not modelled, and known abstractions

Status and reason of every part are in `PROJECT.json`. In the parts that are modelled:

- `GuidedDemo` has no reconnect, no continuity snapshot and no failing store. What is said, shown and planned is abstract. Approval prompts and playback appear only as far as they start, hold or end a journey.
- `TurnActor` has one journey at a time and no demo, and a decision to replace it brings no navigation of its own (`turn-planner.ts:287`); its models' answers are free choices.
- `MappingJobs`: the server does not crash between writing a row and enqueuing it; the older mapping route is left to `Admission`. Time is abstract. `persisted` records that the draft catalog has the mapping; the write does not look at the lease.
- `JourneyTraining`: one run at a time of either kind; a first graph file exists, empty; a planner may repeat learned goals.
- `JourneyReplay`: the product is external: a home page, a form with records, a first-visit dialog, a basket, a menu, a sort order, two exits. A turn has one call; access is never lost.
- `PostgresStore`: what is said of a screen that two maps describe differently is not compared (section 4); a call is atomic (the one that is not, publication at READ COMMITTED, is `CatalogPublication`'s); one environment for each product; ids are drawn in order; the planners' knowledge, and `saveJourney`, `replaceCoverage` and `saveCorrection`, which no product code calls, are left out. `kept` holds what the store in memory keeps of a removed product and the database does not: nothing can name it any more.
- `BrainStore` is checked for one disagreement: one kind of file stands for sections, procedures, playbook and personas, and vectors are abstract.
- `PageActions`: a page rests until it is observed; dynamic navigation, waiting and reading are left out, as is the DOM map.
- `Crawl`: lengths are counted in paragraphs; every redirect a browser follows is taken as checked (`page.route` sees the first URL of a chain). `LiveSessions`: leases lapse only while their holder neither beats, starts nor tears down (unless `late`). `HostedTurns`: samples of the observer are left out.
