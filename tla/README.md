# TLA+ verification of FDE

FDE turns a conversation into an approved architecture plan and hands the plan
to a service that builds or deploys it. This directory models its control logic
in TLA+, checks it with TLC and proves parts of it with TLAPS.

## 1. The system

| Part | State it keeps | Operations | Talks to |
|---|---|---|---|
| BACKEND API (`BACKEND/app/api`, `services`) | PostgreSQL: `planning_sessions`, `architecture_proposals`, `conversation_turns`, questions, answers, `handoff_outbox`, `handoff_receipts`, audit | create_session, add_turn, submit_answers, submit_approval, cancel_session, retry_handoff, reads | planner (HTTP, in the middle of a request), event broadcaster |
| BACKEND outbox worker (`workers/main.py`, `services/outbox_worker.py`), a process of its own | the same database; a batch of rows in memory | poll, lock, deliver, mark, receipt | APPDEVELOPER or LLMDEPLOYER (HTTP) |
| BACKEND events (`services/event_service.py`, `api/websocket.py`) | history, subscriptions and counters in memory | publish, subscribe, replay | WebSocket clients |
| APPDEVELOPER (`APPDEVELOPER/app`) | jobs and events (SQLite), active set and queues in memory, workspaces | create_job, answers, generate, review, push_decision, push, cancel | agent SDK, sandboxes, GitHub |
| LLMDEPLOYER (`LLMDEPLOYER/app`) | sessions, sockets and sandboxes in memory | create_session, answers, orchestrate, messages | agent, cloud command lines |
| FRONTEND (`FRONTEND/src`) | a store of signals, one socket | the API calls, refresh, reconnect | BACKEND |

What is hard, and what makes each part correct:

- **BACKEND.** Every request is one READ COMMITTED transaction; reads take no
  lock, no UPDATE compares a version, and a planning request holds its
  transaction open for the seconds the planner takes. So decisions are applied
  to rows that have changed since they were read. The worker calls a service in
  the middle of a transaction and may lose the transaction after the call.
  Correct means: what a user approves exists and is complete; nothing is
  delivered that nobody approved; success is claimed only for an accepted call;
  the retry budget is kept; every queued plan is delivered or given up.
- **Events.** BACKEND publishes before the commit an event announces, in the
  memory of the process that publishes; APPDEVELOPER numbers, stores and
  broadcasts in three steps. Correct means: a client gets each event once and in
  order, and learns the end.
- **APPDEVELOPER.** The transition table is checked on one read and the state
  written in another transaction; work runs in background tasks. Correct means:
  a job that reads VERIFIED or PUSHED is so, a job is built by one task at a
  time, the capacity is neither exceeded nor lost, a job does not stall.
- **LLMDEPLOYER.** Everything shares one event loop; each `await` lets another
  task change the session, the list of sockets or the sandbox. Correct means: a
  session shows an end when its deployment has ended, no client is passed over
  by a message, and a sandbox lives as long as its user.
- **FRONTEND.** Overlapping refreshes and socket callbacks write one store.
  Correct means: what happens at the server is fetched in the end, the
  connection indicator is honest, and the version approved is the one displayed.

`PROJECT.json` lists the components with their status and every hazard at its
line.

## 2. Modules

```
SessionStates      states, routes, the declared transition table
PlanningStore      EXTENDS SessionStates: tables, locks, transactions
PlanningApi        EXTENDS PlanningStore: the requests
OutboxWorker       EXTENDS PlanningStore: the delivery loop
HandoffContract    abstract specification of a handoff (no code of its own)
FdeBackend         EXTENDS PlanningApi, OutboxWorker: Next, fairness, properties
MCFdeBackend       EXTENDS FdeBackend: instances for TLC
FdeBackendProofs   EXTENDS FdeBackend: store invariant, types, versions, budget
HandoffProofs      EXTENDS FdeBackendProofs: handoffs, refinement, approvals
SerialProofs       EXTENDS HandoffProofs: clients that await each answer

Lists              Python's list comprehension, used by the services below
ListProofs         EXTENDS Lists: what it keeps and in which order

JobStates          the states of a job, its enforced transition table
BuildSlots         abstract specification of capacity and exclusion of builds
JobService         EXTENDS JobStates: APPDEVELOPER's jobs and coroutines
MCJobService       EXTENDS JobService: instances for TLC
JobServiceProofs   EXTENDS JobService: control, slots, labels, serial clients

JobEvents          EXTENDS Lists: APPDEVELOPER's event table, emit, connections
ReviewContract     abstract specification of a review
ReviewCycle        EXTENDS JobEvents: review, validation, agents, cancel
MCReviewCycle      EXTENDS ReviewCycle: instances for TLC
ReviewCycleProofs  EXTENDS ReviewCycle, ListProofs: rounds, refinement, feeds

SessionSockets     EXTENDS Lists: LLMDEPLOYER's lists of sockets, send_to_session
DeploymentSession  EXTENDS SessionSockets: sessions, orchestrations, sandboxes
DeploymentContract abstract specification of a session's deployments
MCDeploymentSession EXTENDS DeploymentSession: instances for TLC
DeploymentProofs   EXTENDS DeploymentSession, ListProofs: endings, log, contract, sockets

EventFeed          abstract specification of what a connection promises
EventStream        BACKEND's broadcaster and connections, with a Spec of its own
MCEventStream      EXTENDS EventStream: an instance for TLC
DesktopStore       EXTENDS EventStream: FRONTEND's store, its user, the calls
DesktopStoreProofs EXTENDS DesktopStore: stream, feed, indicator, refinements
```

Three modules compose components: `FdeBackend` (requests and worker over one
database), `ReviewCycle` (a review, a cancel and the clients that watch) and
`DesktopStore` (desktop, REST handlers and event stream).

### 2.1 BACKEND

**State.** One planning session is modelled; sessions share only the worker's
batch. `session`, `proposals`, `outbox`, `receipts` are the committed rows.
`req[r]` is an API request in flight: `mem` is the SQLAlchemy object it works
on (stale from the moment it was read), `cols` the columns it changed, which are
all that its UPDATE writes (`Merge`). `worker[w]` is a worker with the rest of
its batch and the attempt counts it read. `sessionLock` and `outboxLock` are
PostgreSQL row locks, held from the first UPDATE to the end of the transaction.
Inserts reference the session row by foreign key and take only a shared key
lock, which does not conflict with these UPDATEs. `jobs` counts what the
downstream services made for each key: it is the environment's state, which the
code does not see. A worker locks outbox, then session; no request takes both in
the other order, so the database never breaks a deadlock.

**Requests.** A call's first step is its read and its guards (`AddTurn`,
`SubmitApproval`, ...). Then, each a step of its own: the flush that waits for
the row lock (`FlushSession`, `FlushRetry`), the planner's outcome
(`PlannerProposes`, `PlannerAsks`, `PlannerSaysNothing`, `PlannerFails`), the
select of the approved proposal (`SelectProposal`), `Commit`. `Rollback` may
happen at every point: any exception, a closed connection or the death of the
process ends the transaction. Refused calls change nothing and have no step. The
proposal's version comes from the table and the session's from memory, as in
`_persist_planner_output`; that difference is behind several properties.
`session.updated_at` is refreshed by the database and may raise when it is
serialised after a flush under the asynchronous driver; the repository's tests
mock the database and do not settle it. It would be one more `Rollback`.

**Worker.** `FetchPending` reads a batch; for each entry `LockEntry` (waits, but
checks nothing after the wait, so two workers may deliver one entry in turn),
`DeliverEntry`, `ReadSession` (mark and read), `WriteSession` (waits for the
session lock), `CommitEntry`. PROCESSING is written and overwritten in one
transaction, so no committed row has it. `AbortBatch` is a transaction lost in
any of these steps. A delivery may be accepted, accepted with its answer lost,
or refused; the acceptance is atomic with the call. LLMDEPLOYER's two calls are
covered by the second outcome: the first made a session, the second failed.

**Left out of these modules.** Turns, questions, answers, audit rows and events:
no control decision of the modelled code reads them. Texts and payloads. Several
sessions. Authentication (a caller is assumed to own its session).

**The transition table** (`ValidTargets`) is declared by `domain/enums.py` and
consulted by no service, only by tests. It is therefore used to state
properties, never as a guard.

### 2.2 APPDEVELOPER

**State.** `jobs[j]` is the row of a job: its state, the calls whose answers are
in its answers and in its brief, those the generated files were made from, and
the outcome of the last stored review. `repositories` and `published` are what
GitHub holds, which the code does not see. `active` is `_active_jobs`. `task[t]`
is one coroutine: an HTTP call together with the background task it schedules,
which runs after its answer. `job_service.py` runs in one event loop, so an
action is the code from one `await` that can wait to the next, and each
repository call is a transaction.

**Writing a state.** Every change of state goes through `_update_state`, which
reads and validates (`CheckTransition`) and then writes in another transaction
(`WriteState`). The handlers differ in which states they write, in what order,
and in what follows; a task therefore carries `path` (what it has still to
write), `next` (where it goes on) and `fallback` (what its `except` clause
writes if a transition of the path is refused). `Refused` is the exception that
a refused transition raises: to the `except` clause if there is one, then through
`finally` if the task builds.

**Calls.** `CreateJob`, `SubmitAnswers`, `RequestBuild`, `PushDecision`,
`PushToGitHub`, `Cancel` are the reads and guards of the handlers. `Plan` is the
planner's outcome (questions, none, an exception), `Build` the builder's and
`Review` the review cycle's; `Publish` is `push_to_repository`. `Respond` is the
point at which `run_pipeline` and the answers handler read the state again and go
on to build. `Admit` and `Release` are the two sections under the lock, `Load`
the read of state and brief inside `try`. `Restart` ends all coroutines, empties
`active` and keeps the rows. A task that goes on to build keeps its name.

**Left out.** Events (`JobEvents` has them). Failures of the database or of `create_workspace`, which
would leave a job in the state it has at any of the steps. A push of a job that
was published before is taken to fail at `git commit`, since its directory has
nothing new; a failed push that got as far as its commit is not remembered. A push that
is reported as failed may have reached GitHub (`reached` in `PushFails`):
`run_subprocess` kills `git push` after 300 seconds, and the clean-up of the
remote or the last event may raise after it. The
files a builder leaves when it raises are not told apart from none.

### 2.3 APPDEVELOPER: events and review

**`JobEvents`.** `rows` is the event table of one job in the order of insertion.
A call of `emit` is three steps, since each `await` lets others run:
`BeginEmit` reads the highest number, `Store` inserts the row, `Broadcast` puts
it into the queues of the subscribers, which have no bound. A connection reads
its snapshot (`ReadEvents`), sends it and subscribes (`Subscribe`), and may
`Leave`. Rows of equal number may be listed in either order. What of the live
queue has been sent already makes no difference to others, so the queue is kept
whole.

**`ReviewCycle`.** `run_review_cycle` and what `generate` makes of its report.
`cycle.pc` is the next thing the coroutine does when the `emit` it awaits has
returned (`At`). `Validate` finds a manifest and runs its commands, each of which
passes or not; a manifest that cannot be decoded raises and breaks the review
off. `RunReviewer` gives a report, whose own count of rounds is replaced
(`Stamped`), or raises, which becomes a failed report. `RunFixer` changes no
file: `run_fixer` returns fixes that nothing writes. `Conclude` and `AnnounceEnd`
are the end of `generate`, where a transition may be refused because of a
`Cancel`. Files are the two in the instances: no manifest, and an undecodable
one; the reviewer sees neither, so more would only repeat these outcomes of
`Validations`.

### 2.4 LLMDEPLOYER

**`SessionSockets`.** `listeners[s]` is the list object of a session, `walk[r]`
the `for` loop of a sender over it. Python iterates by position over the object
the loop began with: `connect` and `remove` change it in place, `disconnect`
replaces it, so `walk` is either `live` (over the session's list) or has the old
list `frozen`. `Disconnect` is the handler that sees the peer go;
`HandlerRaises` is every other exception of the handler, which skips
`disconnect`. `EndWalk` removes the sockets whose send raised, up to the first
one that the list does not have, where `list.remove` raises.

**`DeploymentSession`.** An orchestration is nearly a straight line of
`send_to_session` calls, so `AgentScript` and `OrchestratorScript` say of each
what status is set before or after it and where the program goes on when it
returns or raises; `BeginSend`, `SocketAnswers` and `SendToNobody` run them.
`Start` creates the sandbox or goes on without; `ModelAnswers` is one turn of the
agent, `ToolReturns` a tool, `Cleanup` the `finally`. A failure of the agent is
reported (`agent_failed`, `apology`) and swallowed: the orchestrator goes on to
`complete`. `lastEnd` is the end that the orchestrator's own messages in the log
show, `agentEnd` the agent's account of itself there, its farewell or its
apology. Both, `overlapped` and `owed` record history for the properties; the
code has no such variables. Bounds: `MaxTools` tool calls per answer;
`MaxIterations` is the code's 12.

**Left out.** A restart, which forgets everything; messages of the user, which
are only appended to a log that nothing reads; the branch for a session without
requirements, which `submit_answers` excludes; what tools do.

### 2.5 BACKEND's events and the desktop

**`EventStream`.** `publish`, `subscribe` with `get_history_after`, and the
handler of a connection. An event is its rank among the session's events; the
code's numbers come from a counter that subscriptions use up too, so they have
gaps and the same order. `after_sequence` is always 0, since the desktop never
sends it. `StreamSpec` is the stream by itself.

**`DesktopStore`.** `sock[c]` is a WebSocket object from `connectWs` through
`await`, `onopen` and `onclose` to the timer; `current` is the variable `ws`;
`view` is the store; `fetch[f]` a `refresh` in progress, with its two requests.
`connectWs` closes only the socket in `ws`, so two overlapping calls leave one
unknown to the store. A REST call is `Ask`ed by a button that the screen offers
(`Offered`), then `Serve`d or `Refuse`d, `Commit`ted and `Replie`d: events are
published before the commit, and since FastAPI 0.118 a dependency with `yield`
ends after the response, so the commit may also follow the reply. (`serial`
assumes that it precedes the client's next call.) `WorkerMoves` changes the row
without an event: the worker's process has a broadcaster of its own.

**Left out.** A restart of the server, which forgets the history. Texts of
messages, errors and handoffs. One REST call is made at a time (`loading`
disables the panels). One event stands for the events of a planning cycle. The
token is accepted. `sessionStore.disconnect` and `hooks/useWebSocket.ts` are
called by nobody.

## 3. What TLC checks

Runs whose name begins with `job_` use `MCJobService`, `deployment` and
`deployment_ends` use `MCDeploymentSession`, `review_feed` uses `MCReviewCycle`,
`live_view` and `unseen_approval` use `DesktopStore` itself, `stream_feed` uses
`MCEventStream`, and the others `MCFdeBackend`. Deadlock checking is off because
the number of calls is finite and the system really stops when they are used up.

| Run | Question | Bounds |
|---|---|---|
| `handoff_race` | Do two overlapping requests and two workers leave a session that can be approved, and keep claims, budget, approvals and the contract? `VersionCovered`, `ApprovableIsComplete`, `TypeOK`, `NoClaimWithoutAcceptance`, `OnlyApprovedPlansLeave`, `RetryBudget`, `ContractKept` | 4 requests, 2 at a time, two routes, 2 workers, 2 attempts, batches of 1 |
| `serial` | If the client waits for each answer, do session, proposals, entries and receipts stay consistent? `CurrentIsLatest`, `QueuedHasOneEntry`, `RouteIsRecommended`, `HandedOffIsCurrent`, `CompletedOnce`, `CompletedIsFinal`, `PlanningFollowsTable` | 6 requests one at a time, 1 worker, 2 attempts, two routes, 1 lost transaction |
| `handoff_settles` | Does every queued entry, and every queued session, move on? `EntrySettles`, `QueueDrains` | 3 requests, 2 at a time, 2 attempts, a deliverable and an undeliverable route, 1 lost transaction |
| `job_races` | Are VERIFIED and PUSHED true whatever overlaps? `TypeOK`, `VerifiedPassed`, `PushedIsPublished` | 1 job, 4 calls of any kind, 2 awaited at a time, 1 restart |
| `job_serial` | What can a client rely on that awaits each answer and does not cancel? `FollowsTable`, `BuiltFromAnswers`, `PushOffersPassed`, `OneRepository` | 1 job, 6 calls, 1 awaited at a time, 1 restart |
| `job_settles` | Does `generate` keep its slots, and does every slot and every state of work come to an end? `SlotsExact`, `SlotsKept`, `SlotComesBack`, `WorkIsFinished` | 2 jobs, 3 calls of any kind, 2 awaited at a time, capacity 1, no restart |
| `deployment` | Do lists of sockets, statuses, log and sandboxes stay true while clients come and go in the middle of a send, and does a session at rest stay as it is? `ListedWhileThere`, `SandboxesAreOwned`, `LogAgreesWithStatus`, `NobodyPassedOver`, `DeploymentKept` | 1 session, 2 orchestrations, 2 sockets, 1 turn of the agent, 1 tool call |
| `deployment_ends` | Does every deployment end? `DeploymentEnds` | the same with 1 socket |
| `review_feed` | Does a client that watches a review get its events, and the end? `FeedHasOneSeam`, `ReportMatchesFeed`, `CycleKeepsContract`, `WatcherLearnsEnd` | 2 rounds, 1 finding each, 1 cancel from round 2 on, 1 client, 2 workspaces |
| `live_view` | Does the desktop hear of what happens? `ConnectedIsOpen`, `EventIsRefetched` | 1 session, 2 sockets, 2 events, a history of 1, 1 refresh at a time, calls `create` and `approve` |
| `stream_feed` | Is the stream, to each client, a feed of all events from one on? `FeedKept` | 2 sessions, 2 sockets, 5 events each, a history of 2, anyone may publish at any time |

The bounds let the interesting cases happen. Create, two overlapping cycles and
a third that plans from the result of the first while the other is still in
flight need 4 requests, two at a time; so do create, approve and two overlapping
calls. Section 4.1 proves the same for any number. A second worker holding a
batch read before the first committed needs no larger batch than 1. Six serial
requests reach: plan, change, plan again, approve, two failures, retry, cancel.
Two attempts distinguish the last failure from the others. The code's own values are
5 attempts and batches of 5; both are parameters and the theorems hold for all
values. Symmetry is used where no liveness is checked: requests, workers, calls,
orchestrations and sockets are interchangeable.

`serial` assumes `MaxOpen = 1`, and `CompletedOnce` and `CompletedIsFinal` one
worker besides. These properties are false of overlapping requests, or of two
workers; the table of disagreements shows how. Section 4.1 proves them under
exactly these hypotheses, for any number of requests, attempts and lost
transactions.

For the jobs: create, decide and two overlapping pushes need 4 calls, and so do
create, two overlapping answers and a cancel; a whole life with a round of
questions, two builds requested and a push needs 6, one at a time. Create and
generate answer at once, so `MaxOpen` does not count them and their background
work always overlaps the calls. In `job_settles` two jobs contend for one slot;
that a restart keeps the slots exact is proved for any jobs. The code's capacity
is 5; the theorems hold for any. A cancel is left out of `job_serial` because it
overlaps background work by nature, and `FollowsTable` is then false.

For deployments, two orchestrations overlap or follow each other, and two
sockets suffice for one to leave while the other's send is awaited, for a loop
over a list that has been replaced, and for a list with a dead socket that
another loop has removed already. One turn is both the first and the last of the
agent's iterations; the safety properties are proved without bounds (section
4.4). For reviews, two rounds tell the last from another (the code has three),
and a cancel from round 2 on meets emits of every kind, since all kinds occur in
that round too. On the desktop two sockets close each other in turn, and a
history of one with two events overflows; the theorems of section 4.3 hold for
any numbers and all calls. `unseen_approval` has 2 sessions and 3 sockets: each
creation takes a socket and none is used twice, so with 3 the user can also
select a session when both exist. `stream_feed` leaves the desktop out and has room for
more: two clients of one session or of two, and a history that overflows twice
before a client reads it.

**Fairness.** `FairSpec` of `FdeBackend`, in `handoff_settles`. Weak fairness for
each request that has begun: the planner's HTTP client has a timeout, and a lost
connection rolls back. Weak fairness for each worker's loop: `start()` catches
whatever a batch raises and polls again. Lost transactions (`AbortBatch`) and
calls have no fairness; the number of lost transactions is bounded by
`MaxAborts`, without which a batch could be lost forever.

`FairSpec` of `JobService`, in `job_settles`: weak fairness of every step of a
coroutine that waits only for the event loop, for the database, or for GitHub
and git, whose calls have timeouts. Queries of the planner, builder and reviewer
have none (`agent_service.py`), so nothing is assumed of them, and both
properties say "unless an agent keeps it waiting". `ReviewCycle` is the same;
`WatcherLearnsEnd` excuses an agent only if it never answers again.

`FairSpec` of `DeploymentSession`, in `deployment_ends`: weak fairness of each
orchestration. One event loop runs them; the model's client and the server's
sends have timeouts. Tools are assumed to return.

`FairSpec` of `DesktopStore`, in `live_view`: timers fire, and requests are
answered or fail. Nobody has to click. Connections may be cut at any time;
`EventIsRefetched` excuses only a desktop whose sockets are closed or lost for
ever again, and an event that has fallen out of the history. The first excuse
covers the code's own flapping of two sockets (below), so the property says
something of a desktop that is left with one.

**What two properties leave open.** `ConnectedIsOpen` is one-sided: that the
indicator is on while a socket is open is false, since the `onclose` of a socket
that `connectWs` closed comes after the new one's `onopen`. `LogAgreesWithStatus`
does not say that a failed deployment ends as failed, which is false too; a
session is completed only with the agent's own account in the log, and that may
be of a failure.

### Disagreements between the repository's words and its code

One run checks a statement of the repository that TLC finds false:

| Run | Statement | What happens |
|---|---|---|
| `unseen_approval` | `BACKEND/implementation_prompt_backend.md:24` "explicitly approves the exact version that is being sent" | The user creates two sessions, and the proposal of the first arrives while the second is being created. The reply of `createSession` (`session.ts:39-46`) puts the second session in the status line and keeps the proposal on the screen; its Approve button approves the latest plan of the second, which was never shown. `selectSession` (`Dashboard.tsx:27-31`) clears nothing either: if the reply cleared the proposal, TLC would find the same by a selection |

The models reach further disagreements. They are not kept as runs; the formula
given, checked with the bounds given, has a counterexample.

| Statement | What happens | Formula, bounds |
|---|---|---|
| `IMPLEMENTATION_PROMPT.md:77` one outbox record per approved version | overlapping approvals make two, and a later retry then fails on them | at most one entry that is not ABSENT of each version, 4 requests, 2 at a time, no worker |
| `outbox_worker.py:76` retries are deduplicated downstream | no service reads the header; a lost answer makes a second job | `jobs[o] <= 1`, as `handoff_settles` |
| `BACKEND/README.md:213` CANCELLED is terminal | a delivery in progress overwrites it with HANDED_OFF | `[][session.state = "CANCELLED" => session'.state = session.state]_vars`, 4 requests, 2 at a time |
| `BACKEND/README.md:228` from HANDOFF_FAILED to HANDOFF_QUEUED or CANCELLED | a retry leaves the session in HANDOFF_FAILED; the worker takes it to HANDED_OFF | `[][session.state = "HANDOFF_FAILED" => ValidChange(session.state, session'.state)]_vars`, as `serial` |
| `IMPLEMENTATION_PROMPT.md:95` a repeated retry cannot duplicate work | a late retry re-opens a COMPLETED entry | `CompletedIsFinal`, 4 requests, 2 at a time, 1 attempt |
| `implementation_prompt_backend.md:86` a change invalidates the approval | an approval overlapping a planning cycle queues the old version | `outbox[o].status = "PENDING" => outbox[o].version = LatestVersion`, 3 requests, 2 at a time |
| `implementation_prompt_backend.md:127` AMBIGUOUS is never handed off | it is queued, and fails until the budget is used | `outbox[o].route # "AMBIGUOUS"`, as `handoff_settles` |
| `implementation_prompt_backend.md:305` no conflicting versions | overlapping cycles store one version twice; it can then not be approved (`scalar_one_or_none` raises) | second conjunct of `CurrentIsLatest`, as `handoff_race` |
| `APPDEVELOPER/README.md:88` CANCELLED is terminal | a state validated before the cancel is written after it | `[][jobs[j].state = "CANCELLED" => jobs'[j].state = jobs[j].state]_vars`, calls create and cancel |
| `job_service.py:97` a job without questions proceeds to generation | at capacity it is turned away in the background and stays READY_TO_GENERATE | `jobs[j].state = "READY_TO_GENERATE" ~> jobs[j].state # "READY_TO_GENERATE"`, 2 jobs, only creates, agents answer |
| `APPDEVELOPER/IMPLEMENTATION_PROMPT.md:27` a durable job survives a restart | the row does; a job in CREATED, GENERATING, REVIEWING or PUSHING is never taken up again | `WorkIsFinished`, as `job_settles` with `MaxRestarts = 1` |
| `APPDEVELOPER/IMPLEMENTATION_PROMPT.md:168` a push in another state is rejected | two overlapping pushes both pass the check and make two repositories | `jobs[j].repositories <= 1`, as `job_races` |
| `APPDEVELOPER/IMPLEMENTATION_PROMPT.md:162` without clean gates never VERIFIED | `generate` asks the reviewer's judgement alone; a failed command does not count | `cycle.pc = "final" /\ Verified => cycle.clean`, as `review_feed` with a `package.json` |
| `APPDEVELOPER/IMPLEMENTATION_PROMPT.md:115` a monotonically increasing sequence | a cancel and a review emit at once and store one number twice | `rows[i].sequence < rows[i + 1].sequence`, as `review_feed` |
| the same line, a snapshot and then live events | events between snapshot and subscription are never sent | `FeedHasOneSeam` with `k <= Len(told) + 1`, as `review_feed` |
| `LLMDEPLOYER/IMPLEMENTATION_PROMPT.md:683`, also `:670`, on failure the status becomes failed | `agent_runner.py:317-320` reports `failed` and returns; `agent_orchestrator.py:60-64` then sets `completed` and says "Deployment completed successfully" | `status[s] = "completed" /\ ~Busy(s) => agentEnd[s] # "apology"`, as `deployment` with 1 orchestration |
| `IMPLEMENTATION_PROMPT.md:63` the UI refetches after a reconnect | a reconnection alone refetches nothing, and an answer read before a commit is never corrected: a quiet, connected desktop may show an old row (`QuietViewIsCurrent`) | nothing in progress and `connected` implies `view.row = row[view.session]`, as `live_view` |
| `IMPLEMENTATION_PROMPT.md:111` reconnect with backoff | each closed socket's timer connects again and closes the other: the connection flaps every three seconds | `Reconnects(c)` only while no socket is open, as `live_view` |

By reading alone, without a run: `APPDEVELOPER/IMPLEMENTATION_PROMPT.md:51` and
`:126` have a fixer that corrects findings, but its fixes are written by nothing
(`RunFixer` therefore changes no file); `implementation_prompt_backend.md:270`
asks for persisted events, which live in memory, and for the snapshot before
them, which `websocket.py` sends after the events replayed from the history
(`FeedKept` does not represent the snapshot); `:90` asks that the plan's
assumptions and risks be shown before the handoff.

## 4. What is proved

Every invariant and every action property that a passing run checks is also a
theorem, for all values of the constants that satisfy the stated assumptions.
Only the liveness properties are left to TLC: `EntrySettles`, `QueueDrains`,
`SlotComesBack`, `WorkIsFinished`, `DeploymentEnds`, `WatcherLearnsEnd` and
`EventIsRefetched`, since the prover has neither fairness nor ENABLED. The
strengthened invariants were checked with TLC on the instances of section 3
before they were proved.

### 4.1 BACKEND: requests and worker

For every set of requests and workers and every limit satisfying
`ProcessAssumption` and `LimitAssumption` (`PlanningStore`):

| Theorem | States |
|---|---|
| `TypeCorrect` | `Spec => []TypeOK` |
| `RetryBudgetKept` | `Spec => []RetryBudget` |
| `VersionsAreCovered` | `Spec => []VersionCovered` |
| `ClaimsAreBacked` | `Spec => []NoClaimWithoutAcceptance` |
| `OnlyApprovedPlansAreDelivered` | `Spec => []OnlyApprovedPlansLeave` |
| `ApprovalsAreComplete` | `Spec => []ApprovableIsComplete` |
| `BackendKeepsContract` | `Spec => ContractKept`: every step of the backend is a step of `HandoffContract` or leaves its state alone |

The argument is in layers, each inductive relative to the one before it.

1. `TypeInv`: types, and `BatchInv`: an entry in hand is still in its worker's
   batch and was read with attempts left. Together with `RetryBudget` this is
   inductive: what a worker writes is `seen + 1`, at most `MaxAttempts`, whatever
   the row holds by then.
2. `VersionInv`: `VersionCovered` alone is not inductive, since a cycle in flight
   writes a version computed before. `GapFree` says the stored versions are
   `1..n`; `PlansNextVersion` says that a cycle which has not proposed holds a
   version that is covered, and one which has proposed brings at least the
   version it will write. Versions never disappear, so this survives the others'
   steps. Layers 1 and 2 are `StoreInv` (theorem `StoreInvariant`).
3. `HandoffInv`: a worker that has taken an entry holds its row's lock until the
   commit, so no other worker has it in hand; if it remembers success there is an
   accepted call without a receipt. Requests never write HANDED_OFF. A stored
   entry, and one an approval is about to store, carries the version and route of
   a committed proposal. Theorem `HandoffInvariant`.
4. The refinement: `Commit` is `Approve`, `Withdraw` or a stutter;
   `DeliverEntry` is `Accept` or a stutter; `CommitEntry` is `Record`,
   `Withdraw` or a stutter; all others stutter.
5. `ApprovalInv` (theorem `ApprovalInvariant`): `ApprovableIsComplete` is about
   three columns that come from different commits. A commit never takes back a
   version or a route (`CompleteRecord`), except that a creation which has not
   proposed writes a row without them; and that one is alone, since nobody else
   can begin before the row exists (`BirthInv`). Workers move only rows that
   exist, because an entry in hand carries a proposal (layer 3), and never to
   AWAITING_APPROVAL (`WantInv`).

For clients that await each answer (`MaxOpen = 1`), any number of workers and of
lost transactions, and, in the last two rows, one worker (`OneWorker`):

| Theorem | States |
|---|---|
| `ShownIsLatest` | `Spec => []CurrentIsLatest` |
| `PackagesGoAsRecommended` | `Spec => []RouteIsRecommended` |
| `QueuedSessionsHaveOneEntry` | `Spec => []QueuedHasOneEntry` |
| `HandedOffPlansAreCurrent` | `Spec => []HandedOffIsCurrent` |
| `PlanningKeepsToTable` | `Spec => PlanningFollowsTable` |
| `EntriesCompleteOnce` | `Spec => []CompletedOnce` |
| `CompletedEntriesRest` | `Spec => CompletedIsFinal` |

6. `SerialInv` (theorem `SerialInvariant`): a request that is alone holds the
   version and route the row has (`Fresh`), since workers write the state only.
   So the version it counts in memory and the one it takes from the table agree,
   and the plan an approval selects recommends the route of the row (`Approves`,
   `RouteOfCurrent`).
7. `EntryInv` (`EntryInvariant`): none of the three properties about the entry a
   session shows is inductive. While a request works on a session that can still
   be decided there is no entry at all (`Aimed`), so an approval makes the only
   one (`OneEntry`); and a worker that has settled that entry has also moved the
   session on before it commits both (`Reported`, `Waited`, `Receipted`).
   `PlanningFollowsTable` follows: before the decision workers have nothing to
   write, and what each request writes is in the table for every state the
   request accepts.
8. `OnceInv` (`OnceInvariant`), with one worker: what its batch holds is still
   pending, since only it settles entries and a request queues only what has
   failed (`RetriesFailure`). With two, one may deliver an entry that the other
   completed after both had read it.

The hypotheses are needed: with `MaxOpen = 2`, or with two workers, TLC refutes
the properties concerned.

### 4.2 APPDEVELOPER: jobs

For every set of jobs and of tasks and all limits satisfying `JobAssumption` and
`BoundAssumption`:

| Theorem | States |
|---|---|
| `JobTypeCorrect` | `Spec => []TypeOK` |
| `NoSlotIsLost` | `Spec => []SlotsExact` |
| `GenerateKeepsSlots` | `Spec => SlotsKept`: `generate` implements `BuildSlots` |
| `VerifiedIsHonest` | `Spec => []VerifiedPassed` |
| `PushedIsHonest` | `Spec => []PushedIsPublished` |

1. `ControlInv` (theorem `ControlKept`): a build is always at a step of
   `generate`, has at most one state left to write, and never PUSHED; any other
   task never comes to a step of `generate` and never has VERIFIED to write.
   Types alone are not inductive: a task could be at any step with any path.
2. `SlotInv` (`SlotsExclusive`): `SlotsExact`, no two builders of one job, and
   `active` is finite. Every step is one of four shapes (`StepShape`): it leaves
   the builds alone, begins one, ends one, or ends all. `BuildSlots` counts
   builds and the code counts entries; that there are no more builds than entries
   is the injection from builds to their jobs.
3. `LabelInv` (`LabelsEarned`): `VerifiedPassed` is not inductive, since a review
   could store a failure under a job that already reads VERIFIED. By layer 1 only
   builders write VERIFIED, by layer 2 there is one builder, and it writes
   VERIFIED last; so a job under review does not read VERIFIED (`Unjudged`). A
   task that has VERIFIED or PUSHED to write has earned it (`Earned`): published
   code stays published, and the report is the one its builder stored.

For a client that awaits each answer and does not cancel (`MaxOpen = 1` and
`"cancel" \notin Calls`), with background builds and restarts as before:

| Theorem | States |
|---|---|
| `BuildsUseAllAnswers` | `Spec => []BuiltFromAnswers` |
| `PushesAreOfPassed` | `Spec => []PushOffersPassed` |
| `OneRepositoryPerJob` | `Spec => []OneRepository` |
| `StatesFollowTable` | `Spec => FollowsTable` |

4. `StageInv` (`OneStageAtATime`): the calls do not overlap, but the builds that
   create and answers leave in the background overlap the next calls. At most one
   task acts on a job all the same (`OneActor`): while a build is at work the
   state of the row is none that the guard of another call accepts. `Stage` says
   for each kind of call at which steps it may be with which row, and `SoundRow`
   what answers, brief, files, report and publication have to do with the state:
   before PUSHING is written nothing is on GitHub (`Unpushed`), and no later call
   of this client writes PUSHING again, whatever became of the push.
   The state a task at work has still to write then follows, in the table, the
   state of the row: it is still the one that was checked.

### 4.3 BACKEND's event stream and the desktop

For every set of sessions, sockets and refreshes, every history length and all
calls, under `HistoryAssumption` and `NobodyAssumption`:

| Theorem | States |
|---|---|
| `NoSeam` | `Spec => []StreamHasNoSeam` |
| `IndicatorHonest` | `Spec => []ConnectedIsOpen` |
| `TypeCorrect` | `Spec => []TypeOK` |
| `ImplementsStream` | `Spec => StreamSpec`: desktop, user and requests use the stream only through its operations |
| `StreamInvariant` | `StreamSpec => []StreamInv`, whoever uses the stream |
| `StreamKeepsFeed` | `StreamSpec => FeedKept`: the stream implements `EventFeed` |
| `DesktopKeepsFeed` | `Spec => FeedKept` |

1. `StreamInv` is inductive for the stream alone. `StreamHasNoSeam` is not: the
   history a subscriber finds must itself end with the newest event and go back
   far enough (`HistoryInv`, which survives the cut to `MaxHistory` by lemma
   `EndKept`), and a handler in its loop has nothing left to replay, one before
   its subscription nothing sent (`HandlerInv`).
2. A publication appends one rank to the history and to the queue of every
   subscriber (`EndAppend`, `QueuedAtEnd`); a send moves one event from the front
   of what is due to the end of what was sent (`SentFromReplay`,
   `SentFromQueue`), so their concatenation stays.
3. `NextDesktop`: every step of `DesktopStore` keeps the store's types and
   `ConnectedIsOpen` and is a step of the stream or leaves it alone; the
   refinement and `StreamInv` for the composition follow. A session is `Nobody`
   only where there is no call, no refresh and no socket (`Owned`), which the
   types of the others need.
   `StreamHasNoSeam` has no run of its own: a client that misses or repeats an
   event breaks `FeedKept`, which `stream_feed` checks.
4. `EventFeed` knows of each client which event it comes after and what it has
   got since; the code keeps no such place. The mapping (`Reader`) counts it back
   from the newest event, by all that the client was sent or is to be sent. A
   publication lengthens both by one (`KnownGrows`), a send and the drain of the
   replay neither (`KnownStays`), so the place stays, and `StreamInv` says that the
   event sent is the next one after it (`KnownFacts`). Only `Subscribe` sets a
   place, as far back as the history reaches, and only the end of the handler
   gives it up. Clients of one session and of others do not disturb each other:
   `PublishIsHappen` leaves every reader alone. `DesktopKeepsFeed` follows from
   `ImplementsStream`.

Only model-checked: `EventIsRefetched`, which is liveness.

### 4.4 LLMDEPLOYER: deployments

For every set of sessions, orchestrations and sockets and all limits satisfying
`SocketAssumption` and `AgentAssumption`:

| Theorem | States |
|---|---|
| `IdleHasEnded` | `Spec => []IdleSessionHasEnded` |
| `SandboxesHaveOwners` | `Spec => []SandboxesAreOwned` |
| `LogIsTrue` | `Spec => []LogAgreesWithStatus` |
| `ClientsAreListed` | `Spec => []ListedWhileThere` |
| `NobodyIsPassedOver` | `Spec => []NobodyPassedOver` |
| `DeploymentKeepsContract` | `Spec => DeploymentKept`: a session implements `DeploymentContract` |

1. `BaseInv`: the types of sessions and runs; a loop over sockets belongs only to
   a step of the script that sends; a run that uses a tool has counted one. What
   the lists of sockets contain does not enter layers 1 to 5: a send returns or
   raises, and the proofs hold for either.
2. Every step of a run has one of four shapes (`StepShape`, lemma `RunShape`). It
   works on and its end is still to come, it announces the end it has set, it
   ends, or it cleans up. Only a failure's announcement may raise on the way to
   the cleanup; a completion that cannot be announced becomes a failure and is
   still to end.
3. `EndInv`: a session that is neither new nor ended has a run that has still to
   set an end (`Pending`). `IdleSessionHasEnded` alone says nothing about a
   session at work, so it is not inductive; nor has it a run of its own, since a
   session that comes to rest without an end breaks `DeploymentKept`.
4. `OneRun`: two runs of a session mean that it counts as overlapped. `OwnerInv`:
   a sandbox is the one its session's entry names, as long as runs do not
   overlap. Together they survive the cleanup, which takes the session's entry
   whoever made it.
5. `LogInv`: a run at work has no end in the log, one that sends its end has set
   the status, one that cleans up has a status and a log that agree (a failure
   whose message raised is in neither a completion). `LogAgreesWithStatus` is its
   case of a session at rest, together with `AccountInv`, which is inductive with
   `DeploymentInv` but not part of it: the orchestrator comes to its last message
   only from a farewell or an apology of the agent's that is in the log, where it
   stays until new answers come; an exception leads past that message.

Theorem `DeploymentInvariant` is the conjunction of 1 to 5 but for `AccountInv`.

6. `ListeningInv` (theorem `ListeningInvariant`) is about the lists. A list has
   each socket once, only sockets of its session, and every one that is there
   (`ListedInv`); a loop removes only sockets that are not there any more
   (`LoopInv`). So neither `disconnect`, which replaces the list, nor the end of a
   loop, which changes it in place, takes out a client that is there.
   `NobodyPassedOver` needs that whoever a loop owes a turn is ahead of it
   (`AheadInv`), in the session's list or in the one that has been replaced:
   connections are appended behind the loop's place, and only a loop of the same
   session, that is an overlapping run, removes in place.
7. What a filtered list contains is `OnlyKeepsOrder` of `ListProofs`: the result
   of a comprehension is placed, in rising order, onto exactly the chosen
   positions. `Lists` writes the comprehension as a recursive function, and the
   lemma is proved from the least number at which the claim would fail, so no
   induction theorem is needed.

8. The contract shows a session at rest only. The status itself goes through ends
   that are not yet final: the agent sets `completed` or `failed` first, then the
   orchestrator sets `completed` or `failed` again, and the message follows. So
   `Shown` is `working` as long as a run is active, and the contract's `End` is
   the cleanup of the last run. `HeldShape` says which sessions a step leaves with
   a sandbox: a cleanup deletes that of its own session, since an entry of the
   table names a run of that session (`OwnerInv`). `StartedInv`, which is
   inductive with `DeploymentInv`, adds that who works on a session has set its
   status (`StatusWritten`): without it `EndInv` would let a session come to rest
   as `created`. That `Nobody` is no orchestration (`SocketAssumption`) is needed
   here: the cleanup of a run without a sandbox looks up nobody's.

### 4.5 APPDEVELOPER: reviews

For every number of rounds and findings, all files, cancelling calls and clients,
under `RoundAssumption`:

| Theorem | States |
|---|---|
| `ReviewKeepsContract` | `Spec => CycleKeepsContract`: a review implements `ReviewContract` |
| `FeedsHaveOneSeam` | `Spec => []FeedHasOneSeam` |
| `ReportsMatchFeed` | `Spec => []ReportMatchesFeed` |

1. `CycleInv` (theorem `RoundsAreCounted`) says how the round counted and the
   round reported differ at each step, and that only a failed report precedes
   another round. `RunReviewer` is the contract's `Review`, `Decide` in the last
   round `GiveUp`, `RunFixer` its `Fix`, a manifest that cannot be decoded its
   `Break`; all other steps stutter.
2. `FeedInv` (`FeedInvariant`): an emitter takes its next number when all its
   earlier rows are stored, so its own numbers go up (`NumberInv`), although those
   of different emitters collide. Rows have distinct ranks, whichever of two equal
   numbers comes first (`RankFacts`), so a listing has every row once and each
   emitter's in the order of the table (`ListingIsOwn`). `SeamInv` is the
   arithmetic of the seam: what came live is the last that was offered, and what
   the snapshot has reaches at most the one row that was stored and not yet
   offered when it was taken.
3. `TellsInv` (`ReportInvariant`): `ReportMatchesFeed` speaks of the end only. The
   events the review has called `emit` with, in the order of its calls, change
   only by a call of its own (`BeginTells`, `QuietTells`); at each step their
   numbers of started and reported rounds, and what follows the last result,
   are those of the record of the cycle. When the review is at rest all of them
   are in the table.

`TypeOK` of `JobEvents`, `SessionSockets`, `DeploymentSession` and `ReviewCycle`
documents the types and is a property of no run; the types are part of `FeedInv`
(`EventsTypeOK`), `ListeningInv` (`SocketTypeOK`), `SessionTypeOK` and `CycleInv`.

## 5. Not modelled

- Authentication, authorization and rate limits: library calls, comparisons of
  ids, and a list of times that no other part reads.
- Route policy, citations, redaction, prompts and the planner's repair dialogue:
  functions of texts. The models let the planner and every agent give any
  outcome.
- Conversation turns, questions, answers and audit rows: no control decision
  reads them. That two overlapping turns get one number is listed as a hazard.
- Cloud adapters, the bodies of tools, containers, git commands: input and
  output without state of their own.
- Rendering, and the desktop's process around the page.

## 6. Plan

What is left, in order of importance.

1. Proofs: safety is proved. Abstract specifications of `send_to_session` could be stated and the detailed ones shown to implement
   them; that a client which does not cancel may overlap some of its calls would
   weaken `MaxOpen = 1`.
2. Composition: `OutboxWorker` with `JobService` behind the call, so that a
   repeated delivery meets the real downstream service.
3. Pure algorithms: the rate limiters' windows, the route policy.
4. A restart of BACKEND's server under `EventStream`, and of LLMDEPLOYER.
