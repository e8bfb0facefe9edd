----------------------------- MODULE PlanningApi -----------------------------
(***************************************************************************)
(* The state-changing requests of the planning API: create_session,        *)
(* add_turn, submit_answers, submit_approval (approve, request_changes,    *)
(* cancel), cancel_session and retry_handoff.                              *)
(*                                                                         *)
(* A request is one transaction and, to the others, a sequence of steps:   *)
(* it reads the session row and decides; it flushes an UPDATE, for which   *)
(* it waits for the row's lock; it calls the planner, which takes seconds; *)
(* it reads the proposals; it commits.  A request whose guard fails is     *)
(* answered with an error and changes nothing: it has no step here.        *)
(***************************************************************************)
EXTENDS PlanningStore

dbUnchanged == UNCHANGED <<dbVars, jobs, worker, aborts>>

\* A request starts: it occupies a slot of the (bounded) concurrency.
Begin(r, record) ==
    /\ req[r].pc = "idle"
    /\ Cardinality(InFlight) < MaxOpen
    /\ req' = [req EXCEPT ![r] = record]
    /\ UNCHANGED <<sessionLock, outboxLock>>
    /\ dbUnchanged

\* POST /v1/sessions: the INSERT, then the first planning cycle, in one
\* transaction.  Nobody knows the id before the commit, so nothing else runs.
CreateSession(r) ==
    /\ session.state = None
    /\ InFlight = {}
    /\ Begin(r, [Blank("planning") EXCEPT
                    !.op = "plan",
                    !.mem = [NoSession EXCEPT !.state = "DISCOVERING"],
                    !.cols = Column])

\* The session as read, re-opened for discovery in memory; the flush follows.
Reopened == [session EXCEPT !.state = "DISCOVERING"]

BeginPlanning(r, allowed) ==
    /\ session.state \in allowed
    /\ Begin(r, [Blank("reopen") EXCEPT
                    !.op = "plan",
                    !.mem = Reopened,
                    !.cols = Changed(session, Reopened)])

\* Mutant of AddTurn: a queued session may still be changed.
AddTurnWhileQueued(r) ==
    BeginPlanning(r, {"AWAITING_ANSWERS", "AWAITING_APPROVAL", "FAILED", "HANDOFF_QUEUED"})

\* POST .../turns
AddTurn(r) ==
    BeginPlanning(r, {"AWAITING_ANSWERS", "AWAITING_APPROVAL", "FAILED"})

\* POST .../answers.  In DISCOVERING the update writes nothing and no lock
\* is taken before the planner is called.
SubmitAnswers(r) == BeginPlanning(r, {"AWAITING_ANSWERS", "DISCOVERING"})

\* Mutant of SubmitApproval: the version is checked, the state is not.
SubmitApprovalInAnyState(r, action) ==
    /\ session.version > 0
    /\ Begin(r, [Blank("select") EXCEPT
                    !.op = action, !.mem = session, !.arg = session.version])

\* POST .../approval: handle_approval reads the session and checks the state
\* and the version the client sent, which must be the session's own.
SubmitApproval(r, action) ==
    /\ session.state = "AWAITING_APPROVAL"
    /\ Begin(r, [Blank("select") EXCEPT
                    !.op = action,
                    !.mem = session,
                    !.arg = session.version])

\* POST .../cancel
CancelSession(r) ==
    /\ session.state \notin {None, "HANDED_OFF"}
    /\ LET cancelled == [session EXCEPT !.state = "CANCELLED"]
       IN  Begin(r, [Blank("update") EXCEPT
                        !.op = "cancel",
                        !.mem = cancelled,
                        !.cols = Changed(session, cancelled)])

\* Mutant of RetryHandoff: a completed entry may be retried.
RetryAnyHandoff(r, o) ==
    /\ session.state # None
    /\ outbox[o].status \in {"FAILED", "COMPLETED"}
    /\ EntriesOf(outbox[o].version) = {o}
    /\ Begin(r, [Blank("retry") EXCEPT !.op = "retry", !.entry = o])

\* POST .../handoff/retry for the version of outbox row o.  Several rows of
\* that version make scalar_one_or_none raise: the request changes nothing.
RetryHandoff(r, o) ==
    /\ session.state # None
    /\ outbox[o].status = "FAILED"
    /\ EntriesOf(outbox[o].version) = {o}
    /\ Begin(r, [Blank("retry") EXCEPT !.op = "retry", !.entry = o])

-----------------------------------------------------------------------------
\* SessionRepository.update_state flushes: the UPDATE waits for the row lock.
FlushSession(r) ==
    /\ req[r].pc \in {"reopen", "update"}
    /\ req[r].cols # {} => sessionLock \in {NoOne, r}
    /\ sessionLock' = IF req[r].cols # {} THEN r ELSE sessionLock
    /\ req' = [req EXCEPT ![r].pc = IF @ = "reopen" THEN "planning" ELSE "commit"]
    /\ UNCHANGED outboxLock
    /\ dbUnchanged

\* The in-memory effect of update_state at the end of a planning cycle.
Conclude(r, mem, version) ==
    /\ req[r].pc = "planning"
    /\ req' = [req EXCEPT ![r] = [@ EXCEPT
                  !.pc = "update",
                  !.mem = mem,
                  !.cols = req[r].cols \cup Changed(req[r].mem, mem),
                  !.arg = version]]
    /\ UNCHANGED <<sessionLock, outboxLock>>
    /\ dbUnchanged

\* Mutant of PlannerProposes: the proposal reuses the latest version.
PlannerRepeatsVersion(r, route) ==
    Conclude(r, [state |-> "AWAITING_APPROVAL",
                 version |-> req[r].mem.version + 1,
                 route |-> route],
             LatestVersion)

\* Mutant of PlannerProposes: update_state is not given the route.
PlannerForgetsRoute(r, route) ==
    Conclude(r, [req[r].mem EXCEPT !.state = "AWAITING_APPROVAL", !.version = @ + 1],
             LatestVersion + 1)

\* The planner proposes: the proposal's version comes from the table, the
\* session's from the object in memory.
PlannerProposes(r, route) ==
    Conclude(r, [state |-> "AWAITING_APPROVAL",
                 version |-> req[r].mem.version + 1,
                 route |-> route],
             LatestVersion + 1)

\* Mutant of PlannerAsks: asking moves the session to a new version.
PlannerAsksInNewVersion(r) ==
    Conclude(r, [req[r].mem EXCEPT !.state = "AWAITING_ANSWERS", !.version = @ + 1], 0)

\* The planner asks questions.
PlannerAsks(r) ==
    Conclude(r, [req[r].mem EXCEPT !.state = "AWAITING_ANSWERS"], 0)

\* Neither proposal nor questions (the fallback of _repair_json): the session
\* stays in DISCOVERING and nothing is flushed.
PlannerSaysNothing(r) ==
    /\ req[r].pc = "planning"
    /\ req' = [req EXCEPT ![r].pc = "commit"]
    /\ UNCHANGED <<sessionLock, outboxLock>>
    /\ dbUnchanged

\* The planner raises: _handle_planner_error records FAILED, _run_planning
\* swallows the exception and the request still commits.
PlannerFails(r) == Conclude(r, [req[r].mem EXCEPT !.state = "FAILED"], 0)

\* Mutant of Decision: a state that domain/enums.py does not have.
DecisionMisspelled == [approve         |-> "QUEUED",
                       request_changes |-> "DISCOVERING",
                       cancel          |-> "CANCELLED"]

\* The states approve, request_changes and cancel lead to.
Decision == [approve         |-> "HANDOFF_QUEUED",
             request_changes |-> "DISCOVERING",
             cancel          |-> "CANCELLED"]

\* handle_approval reads the proposal of the approved version, which must
\* exist and be the only one (scalar_one_or_none), and dispatches.
SelectProposal(r) ==
    /\ req[r].pc = "select"
    /\ \E p \in ProposalsOf(req[r].arg) :
        /\ ProposalsOf(req[r].arg) = {p}
        /\ req' = [req EXCEPT ![r] = [@ EXCEPT
                      !.pc = "update",
                      !.mem.state = Decision[req[r].op],
                      !.cols = {"state"},
                      !.plan = p.route]]
    /\ UNCHANGED <<sessionLock, outboxLock>>
    /\ dbUnchanged

\* retry_handoff flushes: the UPDATE waits for the outbox row's lock.
FlushRetry(r) ==
    /\ req[r].pc = "retry"
    /\ outboxLock[req[r].entry] = NoOne
    /\ outboxLock' = [outboxLock EXCEPT ![req[r].entry] = r]
    /\ req' = [req EXCEPT ![r].pc = "commit"]
    /\ UNCHANGED sessionLock
    /\ dbUnchanged

-----------------------------------------------------------------------------
\* Mutant of CommittedProposals: the new proposal replaces the earlier ones.
ProposalReplaced(r) ==
    IF req[r].op = "plan" /\ req[r].arg > 0
    THEN {[version |-> req[r].arg, route |-> req[r].mem.route, by |-> r]}
    ELSE proposals

\* What the commit of request r makes visible in each table.
CommittedProposals(r) ==
    IF req[r].op = "plan" /\ req[r].arg > 0
    THEN proposals \cup {[version |-> req[r].arg,
                          route |-> req[r].mem.route,
                          by |-> r]}
    ELSE proposals

\* Mutant of ApprovedEntry: the fallback route is always taken.
EntryWithFallbackRoute(r) ==
    [status |-> "PENDING", attempts |-> 0, version |-> req[r].mem.version,
     route |-> "APPDEVELOPER", plan |-> req[r].plan]

\* _approve: a fresh key, the session's version and route, the chosen plan.
ApprovedEntry(r) ==
    [status |-> "PENDING", attempts |-> 0, version |-> req[r].mem.version,
     route |-> IF req[r].mem.route = None THEN "APPDEVELOPER" ELSE req[r].mem.route,
     plan |-> req[r].plan]

\* Mutant of RetriedEntry: the attempts used are kept.
RetriedWithoutBudget(row) == [row EXCEPT !.status = "PENDING"]

\* retry_handoff: the entry is queued again with a full budget of attempts.
RetriedEntry(row) == [row EXCEPT !.status = "PENDING", !.attempts = 0]

CommittedOutbox(r) ==
    CASE req[r].op = "approve" -> [outbox EXCEPT ![r] = ApprovedEntry(r)]
      [] req[r].op = "retry"   -> [outbox EXCEPT ![req[r].entry] = RetriedEntry(@)]
      [] OTHER -> outbox

EndRequest(r) ==
    /\ sessionLock' = ReleaseSession(r)
    /\ outboxLock' = ReleaseOutbox(r)
    /\ req' = [req EXCEPT ![r] = Blank("done")]

\* get_db_session: commit when the handler returns ...
Commit(r) ==
    /\ req[r].pc = "commit"
    /\ session' = Merge(session, req[r].mem, req[r].cols)
    /\ proposals' = CommittedProposals(r)
    /\ outbox' = CommittedOutbox(r)
    /\ EndRequest(r)
    /\ UNCHANGED <<receipts, jobs, worker, aborts>>

\* ... and rollback when anything raised, or the process died.
Rollback(r) ==
    /\ r \in InFlight
    /\ EndRequest(r)
    /\ dbUnchanged

\* The steps a request takes by itself once it has begun.
Proceed(r) ==
    \/ FlushSession(r)
    \/ \E route \in Recommended : PlannerProposes(r, route)
    \/ PlannerAsks(r)
    \/ PlannerSaysNothing(r)
    \/ PlannerFails(r)
    \/ SelectProposal(r)
    \/ FlushRetry(r)
    \/ Commit(r)
    \/ Rollback(r)

\* The calls a client may make.
Call(r) ==
    \/ CreateSession(r)
    \/ AddTurn(r)
    \/ SubmitAnswers(r)
    \/ \E action \in DOMAIN Decision : SubmitApproval(r, action)
    \/ CancelSession(r)
    \/ \E o \in Requests : RetryHandoff(r, o)
=============================================================================
