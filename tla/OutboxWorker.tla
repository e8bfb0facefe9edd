---------------------------- MODULE OutboxWorker ----------------------------
(***************************************************************************)
(* services/outbox_worker.py: a process of its own (workers/main.py) that  *)
(* polls for PENDING entries and delivers each to the service its route    *)
(* names, one transaction per entry.                                       *)
(*                                                                         *)
(* The batch is read once and its rows stay in memory; an entry's lock is  *)
(* an UPDATE, so a second worker that read the same batch waits for the    *)
(* first to commit and then delivers the entry again.                      *)
(***************************************************************************)
EXTENDS PlanningStore

\* Mutant of Pending: only entries that were never tried are due.
NeverTried == {o \in Requests : outbox[o].status = "PENDING" /\ outbox[o].attempts = 0}

\* The entries waiting for delivery.
Pending == {o \in Requests : outbox[o].status = "PENDING"}

\* get_pending_entries.  next_attempt_at is never set, so every PENDING entry
\* is due; the order within the batch (by created_at) is left open.
FetchPending(w) ==
    /\ worker[w].pc = "idle"
    /\ \E batch \in SUBSET Pending :
        /\ batch # {}
        /\ \/ batch = Pending /\ Cardinality(batch) <= BatchLimit
           \/ Cardinality(batch) = BatchLimit
        /\ worker' = [worker EXCEPT ![w] = [@ EXCEPT
                         !.pc = "batch",
                         !.todo = batch,
                         !.seen = [o \in Requests |->
                                     IF o \in batch THEN outbox[o].attempts ELSE 0]]]
    /\ UNCHANGED <<dbVars, jobs, sessionLock, outboxLock, req, aborts>>

\* lock_entry: an UPDATE that waits for the row's lock, and checks nothing.
LockEntry(w, o) ==
    /\ worker[w].pc = "batch"
    /\ o \in worker[w].todo
    /\ outboxLock[o] = NoOne
    /\ outboxLock' = [outboxLock EXCEPT ![o] = w]
    /\ worker' = [worker EXCEPT ![w] = [@ EXCEPT !.pc = "locked", !.entry = o]]
    /\ UNCHANGED <<dbVars, jobs, sessionLock, req, aborts>>

\* Mutant of Delivery: the status of the answer is not checked.
UncheckedDelivery == [accepted |-> [made |-> 1, ok |-> TRUE],
                      unanswered |-> [made |-> 1, ok |-> FALSE],
                      refused |-> [made |-> 0, ok |-> TRUE]]

\* What a delivery can come to: accepted and acknowledged; accepted, but the
\* answer is lost, late, malformed, or the second of LLMDEPLOYER's two calls
\* fails; or never accepted.  An undeliverable route raises before any call.
Delivery == [accepted |-> [made |-> 1, ok |-> TRUE],
             unanswered |-> [made |-> 1, ok |-> FALSE],
             refused |-> [made |-> 0, ok |-> FALSE]]

Deliverable(o, outcome) ==
    outbox[o].route \notin DeliverableRoute => outcome = "refused"

\* _deliver_entry.  The key travels in a header that no downstream service
\* reads, so every accepted call makes a new job or deployment session.
DeliverEntry(w, outcome) ==
    LET o == worker[w].entry IN
    /\ worker[w].pc = "locked"
    /\ Deliverable(o, outcome)
    /\ jobs' = [jobs EXCEPT ![o] = @ + Delivery[outcome].made]
    /\ worker' = [worker EXCEPT ![w] = [@ EXCEPT
                     !.pc = "answered", !.ok = Delivery[outcome].ok]]
    /\ UNCHANGED <<dbVars, sessionLock, outboxLock, req, aborts>>

\* mark_failed's test, on the attempt count read with the batch.
Exhausted(w) == worker[w].seen[worker[w].entry] + 1 >= MaxAttempts

\* Mutant of TargetState: an entry given up for good also ends the handoff.
TargetClaimsFailure(w) ==
    IF worker[w].ok \/ Exhausted(w)
    THEN IF session.state = "HANDED_OFF" THEN None ELSE "HANDED_OFF"
    ELSE None

\* Mutant of TargetState: the last failure is not reported to the session.
TargetHidesFailure(w) ==
    IF worker[w].ok /\ session.state # "HANDED_OFF" THEN "HANDED_OFF" ELSE None

\* mark_completed or mark_failed, and the session read that follows: on
\* success the state is to become HANDED_OFF whatever it is; on the last
\* failure it is to become HANDOFF_FAILED if it was read as HANDOFF_QUEUED.
TargetState(w) ==
    IF worker[w].ok
    THEN IF session.state = "HANDED_OFF" THEN None ELSE "HANDED_OFF"
    ELSE IF Exhausted(w) /\ session.state = "HANDOFF_QUEUED"
         THEN "HANDOFF_FAILED" ELSE None

ReadSession(w) ==
    /\ worker[w].pc = "answered"
    /\ worker' = [worker EXCEPT ![w] = [@ EXCEPT
                     !.pc = IF TargetState(w) = None THEN "commit" ELSE "write",
                     !.want = TargetState(w)]]
    /\ UNCHANGED <<dbVars, jobs, sessionLock, outboxLock, req, aborts>>

\* update_state: the UPDATE waits for the session row's lock.
WriteSession(w) ==
    /\ worker[w].pc = "write"
    /\ sessionLock = NoOne
    /\ sessionLock' = w
    /\ worker' = [worker EXCEPT ![w].pc = "commit"]
    /\ UNCHANGED <<dbVars, jobs, outboxLock, req, aborts>>

\* Mutant of DeliveredEntry: a success is not marked.
DeliveredButPending(w, row) ==
    IF worker[w].ok THEN row
    ELSE [row EXCEPT !.attempts = worker[w].seen[worker[w].entry] + 1,
                     !.status = IF Exhausted(w) THEN "FAILED" ELSE "PENDING"]

\* The outbox row as the worker writes it, from what it read with the batch.
DeliveredEntry(w, row) ==
    IF worker[w].ok THEN [row EXCEPT !.status = "COMPLETED"]
    ELSE [row EXCEPT !.attempts = worker[w].seen[worker[w].entry] + 1,
                     !.status = IF Exhausted(w) THEN "FAILED" ELSE "PENDING"]

\* The commit: entry, receipt and session state at once; then the next entry.
CommitEntry(w) ==
    LET o == worker[w].entry
        rest == worker[w].todo \ {o} IN
    /\ worker[w].pc = "commit"
    /\ outbox' = [outbox EXCEPT ![o] = DeliveredEntry(w, @)]
    /\ receipts' = [receipts EXCEPT ![o] = IF worker[w].ok THEN @ + 1 ELSE @]
    /\ session' = IF worker[w].want = None THEN session
                  ELSE [session EXCEPT !.state = worker[w].want]
    /\ sessionLock' = ReleaseSession(w)
    /\ outboxLock' = ReleaseOutbox(w)
    /\ worker' = [worker EXCEPT ![w] =
                     IF rest = {} THEN IdleWorker
                     ELSE [IdleWorker EXCEPT
                              !.pc = "batch", !.todo = rest,
                              !.seen = [worker[w].seen EXCEPT ![o] = 0]]]
    /\ UNCHANGED <<proposals, jobs, req, aborts>>

\* The process dies, or a flush or the commit raises past the handler: the
\* transaction is rolled back and the batch dropped; start() polls again.
AbortBatch(w) ==
    /\ worker[w].pc # "idle"
    /\ aborts < MaxAborts
    /\ aborts' = aborts + 1
    /\ sessionLock' = ReleaseSession(w)
    /\ outboxLock' = ReleaseOutbox(w)
    /\ worker' = [worker EXCEPT ![w] = IdleWorker]
    /\ UNCHANGED <<dbVars, jobs, req>>

\* The loop of start() and _process_pending_entries.
Process(w) ==
    \/ FetchPending(w)
    \/ \E o \in Requests : LockEntry(w, o)
    \/ \E outcome \in DOMAIN Delivery : DeliverEntry(w, outcome)
    \/ ReadSession(w)
    \/ WriteSession(w)
    \/ CommitEntry(w)
=============================================================================
