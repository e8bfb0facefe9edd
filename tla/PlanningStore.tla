---------------------------- MODULE PlanningStore ----------------------------
(***************************************************************************)
(* The database of the planning backend, as its two processes see it: the  *)
(* API, whose requests each run in one transaction (db/session.py), and    *)
(* the outbox worker, which commits once per outbox entry.                 *)
(*                                                                         *)
(* One planning session is modelled.  `session', `proposals', `outbox'     *)
(* and `receipts' hold COMMITTED rows.  What a transaction has written and *)
(* not committed is in `req' (a request) or `worker' (a worker): nobody    *)
(* else can read it (READ COMMITTED).  An UPDATE takes the row's lock and  *)
(* keeps it until commit or rollback; reads take no lock, and no UPDATE    *)
(* compares a version, so a decision taken on an old read is applied to    *)
(* whatever the row holds by then.                                         *)
(*                                                                         *)
(* An outbox row is named by the request that approved it: that request    *)
(* drew a fresh uuid4 as its idempotency key, and keys are assumed unique. *)
(***************************************************************************)
EXTENDS Naturals, FiniteSets, SessionStates

CONSTANTS
    Requests,      \* the API calls that may be made about the session
    Workers,       \* the outbox worker processes
    NoOne,         \* no process, no entry
    MaxAttempts,   \* HandoffOutbox.max_attempts
    BatchLimit,    \* get_pending_entries(limit=...)
    Recommended,   \* the routes the planner may recommend
    MaxOpen,       \* bound: requests in flight at the same time
    MaxAborts      \* bound: worker transactions that are lost

ASSUME ProcessAssumption ==
    /\ Requests \cap Workers = {}
    /\ NoOne \notin Requests \cup Workers

ASSUME LimitAssumption ==
    /\ MaxAttempts \in Nat \ {0}
    /\ BatchLimit \in Nat \ {0}
    /\ Recommended \subseteq Route
    /\ MaxOpen \in Nat
    /\ MaxAborts \in Nat

VARIABLES
    session,       \* the planning_sessions row
    proposals,     \* the architecture_proposals rows
    outbox,        \* the handoff_outbox rows, by idempotency key
    receipts,      \* how many handoff_receipts rows each outbox row has
    jobs,          \* downstream jobs or deployment sessions made per key
    sessionLock,   \* the transaction holding the session row's lock
    outboxLock,    \* the transaction holding each outbox row's lock
    req,           \* the API requests and their uncommitted work
    worker,        \* the workers and their uncommitted work
    aborts         \* worker transactions lost so far

dbVars  == <<session, proposals, outbox, receipts>>
vars    == <<session, proposals, outbox, receipts, jobs,
             sessionLock, outboxLock, req, worker, aborts>>

-----------------------------------------------------------------------------
\* Rows.

None    == "NONE"
Column  == {"state", "version", "route"}

SessionRow == [state   : SessionState \cup {None},
               version : Nat,
               route   : Route \cup {None}]

\* Before create_session commits there is no row.
NoSession == [state |-> None, version |-> 0, route |-> None]

\* A planner proposal; `by' is the request whose planning cycle stored it.
Proposal == [version : Nat, route : Route \cup {None}, by : Requests]

\* PROCESSING is written by lock_entry and overwritten before the commit, so
\* no committed row has it.  `plan' is the route recommended by the proposal
\* inside package_json, `route' the one the package is sent to.
OutboxStatus == {"ABSENT", "PENDING", "COMPLETED", "FAILED"}

OutboxRow == [status   : OutboxStatus,
              attempts : 0..MaxAttempts,
              version  : Nat,
              route    : Route \cup {None},
              plan     : Route \cup {None}]

NoEntry == [status |-> "ABSENT", attempts |-> 0, version |-> 0,
            route |-> None, plan |-> None]

-----------------------------------------------------------------------------
\* Transactions.

RequestPc == {"idle", "reopen", "planning", "select", "update", "retry",
              "commit", "done"}
RequestOp == {None, "plan", "approve", "request_changes", "cancel", "retry"}

\* `mem' is the session object the request works on: the row as it was read
\* plus the request's own assignments; `cols' the columns it has assigned a
\* new value.  `arg' is the plan version at stake, `plan' the recommended
\* route of the proposal it selected, `entry' the outbox row it retries.
RequestRecord == [pc : RequestPc, op : RequestOp, mem : SessionRow,
                  cols : SUBSET Column, arg : Nat,
                  plan : Route \cup {None}, entry : Requests \cup {NoOne}]

Blank(p) == [pc |-> p, op |-> None, mem |-> NoSession, cols |-> {},
             arg |-> 0, plan |-> None, entry |-> NoOne]

WorkerPc == {"idle", "batch", "locked", "answered", "write", "commit"}

\* `todo' is the rest of the batch, `seen' the attempt counts read with it,
\* `entry' the row in hand, `ok' whether the delivery succeeded and `want'
\* the session state to write.
WorkerRecord == [pc : WorkerPc, todo : SUBSET Requests,
                 seen : [Requests -> 0..MaxAttempts],
                 entry : Requests \cup {NoOne}, ok : BOOLEAN,
                 want : SessionState \cup {None}]

IdleWorker == [pc |-> "idle", todo |-> {}, seen |-> [o \in Requests |-> 0],
               entry |-> NoOne, ok |-> FALSE, want |-> None]

InFlight == {r \in Requests : req[r].pc \notin {"idle", "done"}}

Versions == {p.version : p \in proposals}

\* get_latest_for_session: the highest stored version, 0 without proposals.
LatestVersion ==
    IF proposals = {} THEN 0
    ELSE CHOOSE v \in Versions : \A u \in Versions : u <= v

ProposalsOf(v) == {p \in proposals : p.version = v}

EntriesOf(v) == {o \in Requests : /\ outbox[o].status # "ABSENT"
                                  /\ outbox[o].version = v}

\* An UPDATE carries only the columns the transaction has changed.
Merge(row, mem, cols) ==
    [state   |-> IF "state" \in cols THEN mem.state ELSE row.state,
     version |-> IF "version" \in cols THEN mem.version ELSE row.version,
     route   |-> IF "route" \in cols THEN mem.route ELSE row.route]

\* Assigning an attribute the value it has already writes nothing.
Changed(old, new) == {c \in Column : old[c] # new[c]}

ReleaseSession(p) == IF sessionLock = p THEN NoOne ELSE sessionLock

ReleaseOutbox(p) ==
    [o \in Requests |-> IF outboxLock[o] = p THEN NoOne ELSE outboxLock[o]]

Init ==
    /\ session = NoSession
    /\ proposals = {}
    /\ outbox = [o \in Requests |-> NoEntry]
    /\ receipts = [o \in Requests |-> 0]
    /\ jobs = [o \in Requests |-> 0]
    /\ sessionLock = NoOne
    /\ outboxLock = [o \in Requests |-> NoOne]
    /\ req = [r \in Requests |-> Blank("idle")]
    /\ worker = [w \in Workers |-> IdleWorker]
    /\ aborts = 0
=============================================================================
