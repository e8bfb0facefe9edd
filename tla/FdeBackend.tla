----------------------------- MODULE FdeBackend -----------------------------
(***************************************************************************)
(* The planning backend: any number of API requests about one session, and *)
(* the outbox workers, over the shared database.                           *)
(***************************************************************************)
EXTENDS PlanningApi, OutboxWorker

Next ==
    \/ \E r \in Requests : Call(r) \/ Proceed(r)
    \/ \E w \in Workers : Process(w) \/ AbortBatch(w)

Spec == Init /\ [][Next]_vars

\* Clients and crashes owe nothing.  A request that has begun ends: the
\* planner's HTTP client times out, and a lost connection rolls back.  A
\* worker keeps polling: start() catches whatever a batch raises and loops.
Fairness ==
    /\ \A r \in Requests : WF_vars(Proceed(r))
    /\ \A w \in Workers : WF_vars(Process(w))

FairSpec == Spec /\ Fairness

-----------------------------------------------------------------------------
\* Types.

\* Every variable keeps its type: rows, in-memory records and locks.
TypeOK ==
    /\ session \in SessionRow
    /\ proposals \subseteq Proposal
    /\ outbox \in [Requests -> OutboxRow]
    /\ receipts \in [Requests -> Nat]
    /\ jobs \in [Requests -> Nat]
    /\ sessionLock \in Requests \cup Workers \cup {NoOne}
    /\ outboxLock \in [Requests -> Requests \cup Workers \cup {NoOne}]
    /\ req \in [Requests -> RequestRecord]
    /\ worker \in [Workers -> WorkerRecord]
    /\ aborts \in Nat

-----------------------------------------------------------------------------
\* Safety under full concurrency.

\* Every version the session has ever reached has a committed proposal, so
\* the version a client approves is never answered 404 "not found", however
\* planning cycles race (planning_service.py takes the proposal's version
\* from the table and the session's from memory).
VersionCovered == \A v \in 1..session.version : v \in Versions

\* A session that asks for approval has something to approve: a version that
\* was proposed and a route (else _approve falls back to APPDEVELOPER), also
\* when its state, version and route columns come from different requests.
ApprovableIsComplete ==
    session.state = "AWAITING_APPROVAL" =>
        /\ session.version > 0
        /\ session.route # None

\* Success is claimed only when downstream acceptance is persisted
\* (outbox_worker.py commits receipt, entry and session together): no more
\* receipts than accepted calls, and none of the claims without a receipt.
NoClaimWithoutAcceptance ==
    /\ \A o \in Requests : receipts[o] <= jobs[o]
    /\ session.state = "HANDED_OFF" => \E o \in Requests : receipts[o] > 0

\* No downstream work without a committed approval of a committed proposal,
\* of the version and the recommended route that proposal had.
OnlyApprovedPlansLeave ==
    \A o \in Requests : jobs[o] > 0 =>
        \E p \in proposals : /\ outbox[o].status # "ABSENT"
                             /\ p.version = outbox[o].version
                             /\ p.route = outbox[o].plan

\* The retry budget is kept across concurrent workers and retries working on
\* stale counts: an entry is queued only with attempts left and given up only
\* when they are used (outbox_repository.py mark_failed, handoffs.py retry).
RetryBudget ==
    \A o \in Requests :
        /\ outbox[o].status = "PENDING" => outbox[o].attempts < MaxAttempts
        /\ outbox[o].status = "FAILED" => outbox[o].attempts = MaxAttempts

\* The handoff contract, kept by every interleaving.
Contract == INSTANCE HandoffContract WITH
    Keys     <- Requests,
    approved <- {o \in Requests : outbox[o].status # "ABSENT"},
    accepted <- jobs,
    recorded <- receipts,
    claimed  <- session.state = "HANDED_OFF"

ContractKept == Contract!Spec

-----------------------------------------------------------------------------
\* Safety when the client sends one request at a time (MaxOpen = 1), the
\* worker and its crashes still interleaving.

\* The session's version is the latest proposal's, and versions are unique:
\* what get_proposal shows is what submit_approval approves.
CurrentIsLatest ==
    /\ session.version = LatestVersion
    /\ \A p, q \in proposals : p.version = q.version => p = q

\* A session waiting for its handoff has exactly one entry to wait for, and
\* it is the entry of the version it shows.
QueuedHasOneEntry ==
    session.state = "HANDOFF_QUEUED" =>
        /\ {o \in EntriesOf(session.version) : outbox[o].status = "PENDING"} # {}
        /\ Cardinality(EntriesOf(session.version)) = 1

\* The package goes where its own proposal recommended: the route is taken
\* from the session row, the proposal from its table (proposal_service.py).
RouteIsRecommended ==
    \A o \in Requests : outbox[o].status # "ABSENT" => outbox[o].route = outbox[o].plan

\* HANDED_OFF speaks of the plan on display: the version the session shows is
\* one a receipt exists for.
HandedOffIsCurrent ==
    session.state = "HANDED_OFF" =>
        \E o \in EntriesOf(session.version) : receipts[o] > 0

\* With a single worker an entry is completed once: COMPLETED and exactly one
\* receipt go together, across lost transactions and retries.
CompletedOnce ==
    \A o \in Requests :
        /\ receipts[o] <= 1
        /\ outbox[o].status = "COMPLETED" <=> receipts[o] = 1

\* While the plan is being made the session follows VALID_TRANSITIONS, though
\* no handler consults the table: each only accepts states it may leave.
PlanningFollowsTable ==
    [][session.state \in {"DISCOVERING", "AWAITING_ANSWERS",
                          "AWAITING_APPROVAL", "FAILED"}
          => ValidChange(session.state, session'.state)]_vars

\* A completed entry is never worked on again.
CompletedIsFinal ==
    [][\A o \in Requests :
          outbox[o].status = "COMPLETED" =>
              outbox'[o] = outbox[o] /\ jobs'[o] = jobs[o]]_vars

-----------------------------------------------------------------------------
\* Liveness.

\* A queued entry is delivered or given up: MaxAttempts bounds the retries
\* and a batch that is lost is polled again.
EntrySettles ==
    \A o \in Requests : outbox[o].status = "PENDING" ~> outbox[o].status # "PENDING"

\* A session does not wait for its handoff forever.
QueueDrains == session.state = "HANDOFF_QUEUED" ~> session.state # "HANDOFF_QUEUED"
=============================================================================
