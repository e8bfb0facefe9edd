---------------------------- MODULE HandoffProofs ----------------------------
(***************************************************************************)
(* Proofs that the planning backend keeps its handoff promises, implements *)
(* HandoffContract, and asks for approval only of complete sessions, for   *)
(* any set of requests and workers.                                        *)
(*                                                                         *)
(* NoClaimWithoutAcceptance is not inductive: between the answer and the   *)
(* commit a worker only remembers in its memory that the call was          *)
(* accepted.  What makes the promise hold is the lock it has kept on the   *)
(* outbox row since LockEntry: nobody else can record that acceptance.     *)
(* HandoffInv says so.                                                     *)
(***************************************************************************)
EXTENDS FdeBackendProofs

Known(o) == outbox[o].status # "ABSENT"

Proposed(version, route) ==
    \E p \in proposals : p.version = version /\ p.route = route

\* Requests never write HANDED_OFF; an approval carries the version and route
\* of a committed proposal from the moment it has read it; a retry is about a
\* committed entry.
HonestRecord(record) ==
    /\ "state" \in record.cols => record.mem.state # "HANDED_OFF"
    /\ record.op = "approve" =>
        IF record.pc = "select" THEN record.arg = record.mem.version
                                ELSE Proposed(record.mem.version, record.plan)
    /\ record.op = "retry" => record.entry \in Requests /\ Known(record.entry)

\* A worker holds the lock of the entry in hand, and a success it remembers
\* and has not recorded is an accepted call without a receipt.
HonestWorker(w) ==
    /\ worker[w].pc \in Busy => outboxLock[worker[w].entry] = w
    /\ \A o \in worker[w].todo : Known(o)
    /\ worker[w].pc \in {"answered", "write", "commit"} /\ worker[w].ok =>
          receipts[worker[w].entry] < jobs[worker[w].entry]
    /\ worker[w].want # None =>
          /\ worker[w].pc \in {"write", "commit"}
          /\ worker[w].ok <=> worker[w].want = "HANDED_OFF"

\* The committed rows agree with each other: an entry belongs to a request that
\* has ended, carries what a proposal said, and only an entry has jobs.
HonestEntry(o) ==
    /\ Known(o) => /\ req[o].pc = "done"
                   /\ Proposed(outbox[o].version, outbox[o].plan)
    /\ jobs[o] > 0 => Known(o)

LedgerInv == \A o \in Requests : HonestEntry(o)

HandoffInv ==
    /\ NoClaimWithoutAcceptance
    /\ LedgerInv
    /\ \A r \in Requests : HonestRecord(req[r])
    /\ \A w \in Workers : HonestWorker(w)

\* Nothing is delivered or claimed initially.
LEMMA InitHandoffInv == Init => HandoffInv
  <1> SUFFICES ASSUME Init PROVE HandoffInv
    OBVIOUS
  <1> USE DEF Init
  <1>1. NoClaimWithoutAcceptance
    BY DEF NoClaimWithoutAcceptance, NoSession, None
  <1>2. LedgerInv
    BY DEF LedgerInv, HonestEntry, Known, NoEntry
  <1>3. \A r \in Requests : HonestRecord(req[r])
    BY DEF HonestRecord, Blank, None
  <1>4. \A w \in Workers : HonestWorker(w)
    BY DEF HonestWorker, IdleWorker, Busy, None
  <1> QED BY <1>1, <1>2, <1>3, <1>4 DEF HandoffInv

-----------------------------------------------------------------------------
\* Requests.

\* A request that touches no row, and no lock but its own, keeps the invariant
\* if the record it leaves is honest.
LEMMA RequestKeepsHandoff ==
    ASSUME StoreInv, HandoffInv, NEW r \in Requests, NEW record,
           HonestRecord(record),
           req[r].pc # "done",
           req' = [req EXCEPT ![r] = record],
           \A o \in Requests : outboxLock'[o] = outboxLock[o]
                               \/ outboxLock[o] \in {NoOne, r},
           dbUnchanged
    PROVE  HandoffInv'
  <1> USE DEF dbUnchanged, dbVars
  <1>1. NoClaimWithoutAcceptance'
    BY DEF HandoffInv, NoClaimWithoutAcceptance
  <1>2. LedgerInv'
    BY DEF HandoffInv, LedgerInv, HonestEntry, Known, Proposed, StoreInv, TypeInv, TypeOK
  <1>3. ASSUME NEW q \in Requests PROVE HonestRecord(req[q])'
    <2>1. HonestRecord(req'[q])
      BY DEF HandoffInv, StoreInv, TypeInv, TypeOK
    <2> QED BY <2>1 DEF HonestRecord, Known, Proposed
  <1>4. ASSUME NEW w \in Workers PROVE HonestWorker(w)'
    <2>1. HonestWorker(w) /\ worker[w] \in WorkerRecord
      BY DEF HandoffInv, StoreInv, TypeInv, TypeOK
    <2>2. worker[w].pc \in Busy => outboxLock'[worker[w].entry] = w
      <3> SUFFICES ASSUME worker[w].pc \in Busy
                   PROVE  outboxLock'[worker[w].entry] = w
        OBVIOUS
      <3>1. worker[w].entry \in Requests
        BY <2>1 DEF StoreInv, TypeInv, BatchInv, WorkerRecord
      <3>2. w \notin {NoOne, r}
        BY ProcessAssumption
      <3> QED BY <2>1, <3>1, <3>2 DEF HonestWorker
    <2> QED BY <2>1, <2>2 DEF HonestWorker, Known
  <1> QED BY <1>1, <1>2, <1>3, <1>4 DEF HandoffInv

\* A request that begins keeps the invariant.
LEMMA CallKeepsHandoff ==
    ASSUME StoreInv, HandoffInv, NEW r \in Requests, Call(r) PROVE HandoffInv'
  <1>1. ASSUME NEW record, HonestRecord(record), Begin(r, record) PROVE HandoffInv'
    BY <1>1, RequestKeepsHandoff DEF Begin
  <1>2. CASE CreateSession(r)
    <2> DEFINE mem == [NoSession EXCEPT !.state = "DISCOVERING"]
               record == [Blank("planning") EXCEPT
                             !.op = "plan", !.mem = mem, !.cols = Column]
    <2>1. HonestRecord(record)
      BY DEF HonestRecord, Blank, NoSession
    <2>2. Begin(r, record)
      BY <1>2 DEF CreateSession
    <2> HIDE DEF record
    <2> QED BY <1>1, <2>1, <2>2
  <1>3. ASSUME NEW allowed, BeginPlanning(r, allowed) PROVE HandoffInv'
    <2> DEFINE record == [Blank("reopen") EXCEPT
                             !.op = "plan", !.mem = Reopened,
                             !.cols = Changed(session, Reopened)]
    <2>1. Reopened.state = "DISCOVERING"
      BY DEF StoreInv, TypeInv, TypeOK, SessionRow, Reopened
    <2>2. HonestRecord(record)
      BY <2>1 DEF HonestRecord, Blank
    <2>3. Begin(r, record)
      BY <1>3 DEF BeginPlanning
    <2> HIDE DEF record
    <2> QED BY <1>1, <2>2, <2>3
  <1>4. ASSUME NEW action \in DOMAIN Decision, SubmitApproval(r, action)
        PROVE  HandoffInv'
    <2> DEFINE record == [Blank("select") EXCEPT
                             !.op = action, !.mem = session, !.arg = session.version]
    <2>1. HonestRecord(record)
      BY DEF HonestRecord, Blank, Decision
    <2>2. Begin(r, record)
      BY <1>4 DEF SubmitApproval
    <2> HIDE DEF record
    <2> QED BY <1>1, <2>1, <2>2
  <1>5. CASE CancelSession(r)
    <2> DEFINE cancelled == [session EXCEPT !.state = "CANCELLED"]
               record == [Blank("update") EXCEPT
                             !.op = "cancel", !.mem = cancelled,
                             !.cols = Changed(session, cancelled)]
    <2>1. cancelled.state = "CANCELLED"
      BY DEF StoreInv, TypeInv, TypeOK, SessionRow
    <2>2. HonestRecord(record)
      BY <2>1 DEF HonestRecord, Blank
    <2>3. Begin(r, record)
      BY <1>5 DEF CancelSession
    <2> HIDE DEF record
    <2> QED BY <1>1, <2>2, <2>3
  <1>6. ASSUME NEW o \in Requests, RetryHandoff(r, o) PROVE HandoffInv'
    <2> DEFINE record == [Blank("retry") EXCEPT !.op = "retry", !.entry = o]
    <2>1. Known(o)
      BY <1>6 DEF RetryHandoff, Known
    <2>2. HonestRecord(record)
      BY <2>1 DEF HonestRecord, Blank
    <2>3. Begin(r, record)
      BY <1>6 DEF RetryHandoff
    <2> HIDE DEF record
    <2> QED BY <1>1, <2>2, <2>3
  <1> QED BY <1>2, <1>3, <1>4, <1>5, <1>6 DEF Call, AddTurn, SubmitAnswers

\* What the commit of a request does to the outbox: an approval's row appears,
\* a retried row is reset, the version and plan of the others stay.
LEMMA CommittedOutboxRows ==
    ASSUME StoreInv, HandoffInv, NEW r \in Requests, Commit(r)
    PROVE  /\ \A o \in Requests : Known(o) =>
                 /\ Known(o)'
                 /\ outbox'[o].version = outbox[o].version
                 /\ outbox'[o].plan = outbox[o].plan
           /\ \A o \in Requests : Known(o)' /\ ~Known(o) =>
                 /\ o = r
                 /\ outbox'[o].version = req[r].mem.version
                 /\ outbox'[o].plan = req[r].plan
                 /\ req[r].op = "approve"
  <1>1. /\ outbox \in [Requests -> OutboxRow]
        /\ HonestRecord(req[r])
        /\ ~Known(r)
        /\ outbox' = CommittedOutbox(r)
    BY DEF StoreInv, TypeInv, TypeOK, HandoffInv, LedgerInv, HonestEntry, Commit
  <1>2. CASE req[r].op = "approve"
    <2>1. outbox' = [outbox EXCEPT ![r] = ApprovedEntry(r)]
      BY <1>1, <1>2 DEF CommittedOutbox
    <2>2. /\ ApprovedEntry(r).version = req[r].mem.version
          /\ ApprovedEntry(r).plan = req[r].plan
      BY DEF ApprovedEntry
    <2> QED BY <1>1, <1>2, <2>1, <2>2 DEF Known
  <1>3. CASE req[r].op = "retry"
    <2> DEFINE e == req[r].entry
    <2>1. outbox' = [outbox EXCEPT ![e] = RetriedEntry(outbox[e])]
      BY <1>1, <1>3 DEF CommittedOutbox
    <2>2. e \in Requests /\ Known(e)
      BY <1>1, <1>3 DEF HonestRecord
    <2>3. /\ RetriedEntry(outbox[e]).status = "PENDING"
          /\ RetriedEntry(outbox[e]).version = outbox[e].version
          /\ RetriedEntry(outbox[e]).plan = outbox[e].plan
      BY <1>1, <2>2 DEF RetriedEntry, OutboxRow
    <2> HIDE DEF e
    <2> QED BY <1>1, <2>1, <2>2, <2>3 DEF Known
  <1>4. CASE req[r].op \notin {"approve", "retry"}
    <2>1. outbox' = outbox
      BY <1>1, <1>4 DEF CommittedOutbox
    <2> QED BY <2>1 DEF Known
  <1> QED BY <1>2, <1>3, <1>4

\* No request claims a handoff.
LEMMA CommitClaimsNothing ==
    ASSUME HandoffInv, NEW r \in Requests, Commit(r)
    PROVE  session'.state = "HANDED_OFF" => session.state = "HANDED_OFF"
  <1>1. HonestRecord(req[r])
    BY DEF HandoffInv
  <1> QED BY <1>1 DEF Commit, Merge, HonestRecord

\* A commit keeps the invariant: it adds committed work and claims nothing.
LEMMA CommitKeepsHandoff ==
    ASSUME StoreInv, HandoffInv, NEW r \in Requests, Commit(r) PROVE HandoffInv'
  <1>1. proposals \subseteq proposals'
    BY DEF Commit, CommittedProposals
  <1>2. UNCHANGED <<receipts, jobs, worker>>
    BY DEF Commit
  <1>3. NoClaimWithoutAcceptance'
    BY <1>2, CommitClaimsNothing DEF HandoffInv, NoClaimWithoutAcceptance
  <1>4. \A q \in Requests : req'[q] = IF q = r THEN Blank("done") ELSE req[q]
    BY DEF Commit, EndRequest, StoreInv, TypeInv, TypeOK
  <1>5. ASSUME NEW o \in Requests PROVE HonestEntry(o)'
    <2>1. HonestEntry(o)
      BY DEF HandoffInv, LedgerInv
    <2>2. CASE Known(o)
      <3>1. /\ Known(o)'
            /\ outbox'[o].version = outbox[o].version
            /\ outbox'[o].plan = outbox[o].plan
        BY <2>2, CommittedOutboxRows
      <3>2. req'[o].pc = "done"
        BY <1>4, <2>1, <2>2 DEF HonestEntry, Blank
      <3> QED BY <1>1, <2>1, <2>2, <3>1, <3>2 DEF HonestEntry, Proposed
    <2>3. CASE ~Known(o) /\ Known(o)'
      <3>1. /\ o = r
            /\ outbox'[o].version = req[r].mem.version
            /\ outbox'[o].plan = req[r].plan
            /\ req[r].op = "approve"
        BY <2>3, CommittedOutboxRows
      <3>2. Proposed(req[r].mem.version, req[r].plan)
        BY <3>1 DEF HandoffInv, HonestRecord, Commit
      <3>3. req'[o].pc = "done"
        BY <1>4, <3>1 DEF Blank
      <3> QED BY <1>1, <2>3, <3>1, <3>2, <3>3 DEF HonestEntry, Proposed
    <2>4. CASE ~Known(o) /\ ~Known(o)'
      BY <1>2, <2>1, <2>4 DEF HonestEntry
    <2> QED BY <2>2, <2>3, <2>4
  <1>6. LedgerInv'
    BY <1>5 DEF LedgerInv
  <1>7. ASSUME NEW q \in Requests PROVE HonestRecord(req[q])'
    <2>1. CASE q = r
      BY <1>4, <2>1 DEF HonestRecord, Blank, None
    <2>2. CASE q # r
      <3>1. HonestRecord(req[q]) /\ req'[q] = req[q]
        BY <1>4, <2>2 DEF HandoffInv
      <3> QED BY <1>1, <3>1, CommittedOutboxRows DEF HonestRecord, Proposed
    <2> QED BY <2>1, <2>2
  <1>8. ASSUME NEW w \in Workers PROVE HonestWorker(w)'
    <2>1. HonestWorker(w) /\ worker[w] \in WorkerRecord
      BY DEF HandoffInv, StoreInv, TypeInv, TypeOK
    <2>2. \A o \in worker[w].todo : Known(o)'
      BY <2>1, CommittedOutboxRows DEF HonestWorker, WorkerRecord
    <2>3. worker[w].pc \in Busy => outboxLock'[worker[w].entry] = w
      BY <2>1, ProcessAssumption
         DEF HonestWorker, StoreInv, TypeInv, BatchInv, WorkerRecord, Commit,
             EndRequest, ReleaseOutbox
    <2> QED BY <1>2, <2>1, <2>2, <2>3 DEF HonestWorker
  <1> QED BY <1>3, <1>6, <1>7, <1>8 DEF HandoffInv

\* Every step of a request in progress keeps the invariant.
LEMMA ProceedKeepsHandoff ==
    ASSUME StoreInv, HandoffInv, NEW r \in Requests, Proceed(r) PROVE HandoffInv'
  <1>1. /\ req[r] \in RequestRecord
        /\ req[r].mem \in SessionRow
        /\ HonestRecord(req[r])
        /\ r \notin Workers
    BY ProcessAssumption DEF StoreInv, TypeInv, TypeOK, HandoffInv, RequestRecord
  <1>2. CASE FlushSession(r)
    <2> DEFINE record == [req[r] EXCEPT
                  !.pc = IF req[r].pc = "reopen" THEN "planning" ELSE "commit"]
    <2>1. /\ record.mem = req[r].mem
          /\ record.cols = req[r].cols
          /\ record.op = req[r].op
          /\ record.plan = req[r].plan
          /\ record.entry = req[r].entry
          /\ record.pc # "select"
      BY <1>1 DEF RequestRecord
    <2>2. req[r].pc # "select"
      BY <1>2 DEF FlushSession
    <2>3. req' = [req EXCEPT ![r] = record]
      BY <1>2 DEF FlushSession
    <2> HIDE DEF record
    <2>4. HonestRecord(record)
      BY <1>1, <2>1, <2>2 DEF HonestRecord
    <2> QED BY <1>2, <2>3, <2>4, RequestKeepsHandoff DEF FlushSession
  <1>3. ASSUME NEW mem, NEW version, Conclude(r, mem, version), mem.state # "HANDED_OFF"
        PROVE  HandoffInv'
    <2> DEFINE record == [req[r] EXCEPT
                  !.pc = "update",
                  !.mem = mem,
                  !.cols = req[r].cols \cup Changed(req[r].mem, mem),
                  !.arg = version]
    <2>1. req[r].op = "plan"
      BY <1>3 DEF Conclude, StoreInv, VersionInv, PlansNextVersion
    <2>2. record.mem = mem /\ record.op = "plan"
      BY <1>1, <2>1 DEF RequestRecord
    <2>3. req' = [req EXCEPT ![r] = record]
      BY <1>3 DEF Conclude
    <2> HIDE DEF record
    <2>4. HonestRecord(record)
      BY <1>3, <2>2 DEF HonestRecord
    <2> QED BY <1>3, <2>3, <2>4, RequestKeepsHandoff DEF Conclude
  <1>4. ASSUME NEW route \in Recommended, PlannerProposes(r, route) PROVE HandoffInv'
    BY <1>3, <1>4 DEF PlannerProposes
  <1>5. CASE PlannerAsks(r) \/ PlannerFails(r)
    <2>1. \A s : [req[r].mem EXCEPT !.state = s].state = s
      BY <1>1 DEF SessionRow
    <2> QED BY <1>3, <1>5, <2>1 DEF PlannerAsks, PlannerFails
  <1>6. CASE PlannerSaysNothing(r)
    <2> DEFINE record == [req[r] EXCEPT !.pc = "commit"]
    <2>1. req[r].op = "plan"
      BY <1>6 DEF PlannerSaysNothing, StoreInv, VersionInv, PlansNextVersion
    <2>2. HonestRecord(record)
      BY <1>1, <2>1 DEF HonestRecord, RequestRecord
    <2>3. req' = [req EXCEPT ![r] = record]
      BY <1>6 DEF PlannerSaysNothing
    <2> HIDE DEF record
    <2> QED BY <1>6, <2>2, <2>3, RequestKeepsHandoff DEF PlannerSaysNothing
  <1>7. CASE SelectProposal(r)
    <2>1. PICK p \in ProposalsOf(req[r].arg) :
              req' = [req EXCEPT ![r] = [@ EXCEPT
                         !.pc = "update", !.mem.state = Decision[req[r].op],
                         !.cols = {"state"}, !.plan = p.route]]
      BY <1>7 DEF SelectProposal
    <2> DEFINE mem == [req[r].mem EXCEPT !.state = Decision[req[r].op]]
               record == [req[r] EXCEPT
                             !.pc = "update", !.mem = mem,
                             !.cols = {"state"}, !.plan = p.route]
    <2>2. req[r].pc = "select" /\ req[r].op \in DOMAIN Decision
      BY <1>7 DEF StoreInv, TypeInv, ChoiceMade, SelectProposal
    <2>3. mem.state # "HANDED_OFF" /\ mem.version = req[r].mem.version
      BY <1>1, <2>2 DEF Decision, SessionRow
    <2>4. /\ record.pc = "update"
          /\ record.op = req[r].op
          /\ record.mem = mem
          /\ record.plan = p.route
      BY <1>1 DEF RequestRecord
    <2>5. req' = [req EXCEPT ![r] = record]
      BY <1>1, <2>1 DEF RequestRecord
    <2> HIDE DEF mem, record
    <2>6. req[r].op = "approve" => Proposed(mem.version, p.route)
      BY <1>1, <2>2, <2>3 DEF HonestRecord, Proposed, ProposalsOf
    <2>7. req[r].op # "retry"
      BY <2>2 DEF Decision
    <2>8. HonestRecord(record)
      BY <2>3, <2>4, <2>6, <2>7 DEF HonestRecord
    <2> QED BY <1>7, <2>2, <2>5, <2>8, RequestKeepsHandoff DEF SelectProposal
  <1>8. CASE FlushRetry(r)
    <2> DEFINE record == [req[r] EXCEPT !.pc = "commit"]
    <2>1. /\ record.mem = req[r].mem
          /\ record.cols = req[r].cols
          /\ record.op = req[r].op
          /\ record.plan = req[r].plan
          /\ record.entry = req[r].entry
          /\ record.pc # "select"
      BY <1>1 DEF RequestRecord
    <2>2. req[r].pc # "select" /\ req[r].pc # "done"
      BY <1>8 DEF FlushRetry
    <2>3. req' = [req EXCEPT ![r] = record]
      BY <1>8 DEF FlushRetry
    <2> HIDE DEF record
    <2>4. HonestRecord(record)
      BY <1>1, <2>1, <2>2 DEF HonestRecord
    <2>5. \A o \in Requests : outboxLock'[o] = outboxLock[o] \/ outboxLock[o] = NoOne
      BY <1>8 DEF FlushRetry, StoreInv, TypeInv, TypeOK
    <2> QED BY <1>8, <2>2, <2>3, <2>4, <2>5, RequestKeepsHandoff DEF FlushRetry
  <1>9. CASE Rollback(r)
    <2>1. HonestRecord(Blank("done"))
      BY DEF HonestRecord, Blank, None
    <2>2. req[r].pc # "done"
      BY <1>9 DEF Rollback, InFlight
    <2> QED BY <1>9, <2>1, <2>2, RequestKeepsHandoff
            DEF Rollback, EndRequest, ReleaseOutbox
  <1> QED BY <1>2, <1>4, <1>5, <1>6, <1>7, <1>8, <1>9, CommitKeepsHandoff DEF Proceed

-----------------------------------------------------------------------------
\* Workers.

\* A worker's step that touches no row, and no lock but its own, keeps the
\* invariant if it leaves that worker honest.
LEMMA WorkerKeepsHandoff ==
    ASSUME StoreInv, HandoffInv, NEW w \in Workers,
           HonestWorker(w)',
           \A v \in Workers \ {w} : worker'[v] = worker[v],
           \A o \in Requests : outboxLock'[o] = outboxLock[o]
                               \/ outboxLock[o] \in {NoOne, w},
           UNCHANGED <<dbVars, jobs, req>>
    PROVE  HandoffInv'
  <1> USE DEF dbVars
  <1>1. NoClaimWithoutAcceptance'
    BY DEF HandoffInv, NoClaimWithoutAcceptance
  <1>2. LedgerInv'
    BY DEF HandoffInv, LedgerInv, HonestEntry, Known, Proposed
  <1>3. \A q \in Requests : HonestRecord(req[q])'
    BY DEF HandoffInv, HonestRecord, Known, Proposed
  <1>4. ASSUME NEW v \in Workers, v # w PROVE HonestWorker(v)'
    <2>1. HonestWorker(v) /\ worker[v] \in WorkerRecord /\ worker'[v] = worker[v]
      BY <1>4 DEF HandoffInv, StoreInv, TypeInv, TypeOK
    <2>2. worker[v].pc \in Busy => worker[v].entry \in Requests
      BY <2>1 DEF StoreInv, TypeInv, BatchInv, WorkerRecord
    <2>3. worker[v].pc \in Busy => outboxLock'[worker[v].entry] = v
      BY <1>4, <2>1, <2>2, ProcessAssumption DEF HonestWorker
    <2> QED BY <2>1, <2>3 DEF HonestWorker, Known
  <1> QED BY <1>1, <1>2, <1>3, <1>4 DEF HandoffInv

\* An accepted call adds a job to the entry in hand, which is committed.
LEMMA DeliverKeepsHandoff ==
    ASSUME StoreInv, HandoffInv, NEW w \in Workers,
           NEW outcome \in DOMAIN Delivery, DeliverEntry(w, outcome)
    PROVE  HandoffInv'
  <1> USE DEF dbVars
  <1> DEFINE e == worker[w].entry
             made == Delivery[outcome].made
             record == [worker[w] EXCEPT
                           !.pc = "answered", !.ok = Delivery[outcome].ok]
  <1>1. /\ worker[w] \in WorkerRecord
        /\ HonestWorker(w)
        /\ worker[w].pc = "locked"
        /\ e \in Requests
        /\ e \in worker[w].todo
        /\ Known(e)
        /\ jobs \in [Requests -> Nat]
        /\ receipts \in [Requests -> Nat]
    BY DEF StoreInv, TypeInv, TypeOK, BatchInv, HandoffInv, HonestWorker,
           WorkerRecord, DeliverEntry, Busy
  <1>2. made \in Nat /\ (Delivery[outcome].ok => made = 1)
    BY DeliveryTyped
  <1>3. jobs' = [jobs EXCEPT ![e] = jobs[e] + made]
    BY DEF DeliverEntry
  <1>4. /\ worker' = [worker EXCEPT ![w] = record]
        /\ UNCHANGED <<session, proposals, outbox, receipts, outboxLock, req>>
    BY DEF DeliverEntry
  <1>5. /\ record.pc = "answered"
        /\ record.ok = Delivery[outcome].ok
        /\ record.entry = e
        /\ record.todo = worker[w].todo
        /\ record.want = worker[w].want
    BY <1>1 DEF WorkerRecord
  <1> HIDE DEF e, made, record
  <1>6. \A o \in Requests : jobs'[o] >= jobs[o] /\ jobs'[o] \in Nat
    BY <1>1, <1>2, <1>3
  <1>7. NoClaimWithoutAcceptance'
    BY <1>1, <1>4, <1>6 DEF HandoffInv, NoClaimWithoutAcceptance
  <1>8. ASSUME NEW o \in Requests PROVE HonestEntry(o)'
    <2>1. jobs'[o] > 0 => jobs[o] > 0 \/ o = e
      BY <1>1, <1>3
    <2> QED BY <1>1, <1>4, <2>1 DEF HandoffInv, LedgerInv, HonestEntry, Known, Proposed
  <1>9. \A q \in Requests : HonestRecord(req[q])'
    BY <1>4 DEF HandoffInv, HonestRecord, Known, Proposed
  <1>10. ASSUME NEW v \in Workers PROVE HonestWorker(v)'
    <2>1. CASE v = w
      <3>1. worker'[w] = record
        BY <1>4 DEF StoreInv, TypeInv, TypeOK
      <3>2. outboxLock[e] = w
        BY <1>1 DEF HonestWorker, Busy, e
      <3>3. \A o \in worker[w].todo : Known(o)'
        BY <1>1, <1>4 DEF HonestWorker, Known
      <3>4. record.want = None
        BY <1>1, <1>5 DEF HonestWorker
      <3>5. Delivery[outcome].ok => receipts[e] < jobs'[e]
        <4>1. receipts[e] <= jobs[e]
          BY <1>1 DEF HandoffInv, NoClaimWithoutAcceptance
        <4> QED BY <1>1, <1>2, <1>3, <4>1
      <3> QED BY <1>4, <1>5, <2>1, <3>1, <3>2, <3>3, <3>4, <3>5 DEF HonestWorker, None
    <2>2. CASE v # w
      <3>1. /\ HonestWorker(v)
            /\ worker'[v] = worker[v]
            /\ worker[v].pc \in Busy => worker[v].entry \in Requests
        BY <1>4, <2>2
           DEF HandoffInv, StoreInv, TypeInv, TypeOK, BatchInv, WorkerRecord
      <3>2. worker[v].pc \in {"answered", "write", "commit"} /\ worker[v].ok =>
                receipts'[worker[v].entry] < jobs'[worker[v].entry]
        BY <1>1, <1>4, <1>6, <3>1 DEF HonestWorker, Busy
      <3> QED BY <1>4, <3>1, <3>2 DEF HonestWorker, Known
    <2> QED BY <2>1, <2>2
  <1> QED BY <1>7, <1>8, <1>9, <1>10 DEF HandoffInv, LedgerInv

\* Nobody else has the entry a worker has in hand.
LEMMA EntriesApart ==
    ASSUME HandoffInv, NEW v \in Workers, NEW w \in Workers, v # w,
           worker[v].pc \in Busy, worker[w].pc \in Busy
    PROVE  worker[v].entry # worker[w].entry
  BY DEF HandoffInv, HonestWorker

\* The commit records the acceptance the worker remembers, at most once.
LEMMA CommitEntryKeepsHandoff ==
    ASSUME StoreInv, HandoffInv, NEW w \in Workers, CommitEntry(w) PROVE HandoffInv'
  <1> DEFINE e == worker[w].entry
             ok == worker[w].ok
             rest == worker[w].todo \ {e}
             record == IF rest = {} THEN IdleWorker
                       ELSE [IdleWorker EXCEPT
                                !.pc = "batch", !.todo = rest,
                                !.seen = [worker[w].seen EXCEPT ![e] = 0]]
  <1>1. /\ worker[w] \in WorkerRecord
        /\ HonestWorker(w)
        /\ worker[w].pc = "commit"
        /\ worker[w].pc \in Busy
        /\ e \in Requests
        /\ e \in worker[w].todo
        /\ Known(e)
        /\ jobs \in [Requests -> Nat]
        /\ receipts \in [Requests -> Nat]
        /\ outbox \in [Requests -> OutboxRow]
        /\ session \in SessionRow
    BY DEF StoreInv, TypeInv, TypeOK, BatchInv, HandoffInv, HonestWorker,
           WorkerRecord, CommitEntry, Busy
  <1>2. /\ worker' = [worker EXCEPT ![w] = record]
        /\ UNCHANGED <<proposals, jobs, req>>
    BY DEF CommitEntry
  <1>3. receipts' = [receipts EXCEPT ![e] = IF ok THEN receipts[e] + 1 ELSE receipts[e]]
    BY DEF CommitEntry
  <1>4. /\ \A o \in Requests : Known(o)' <=> Known(o)
        /\ \A o \in Requests : Known(o) => /\ outbox'[o].version = outbox[o].version
                                           /\ outbox'[o].plan = outbox[o].plan
    <2> DEFINE new == DeliveredEntry(w, outbox[e])
    <2>1. outbox' = [outbox EXCEPT ![e] = new]
      BY DEF CommitEntry
    <2>2. /\ new.status # "ABSENT"
          /\ new.version = outbox[e].version
          /\ new.plan = outbox[e].plan
      <3>1. outbox[e] \in OutboxRow
        BY <1>1
      <3> HIDE DEF e
      <3>2. CASE worker[w].ok
        BY <3>1, <3>2 DEF DeliveredEntry, OutboxRow
      <3>3. CASE ~worker[w].ok
        BY <3>1, <3>3 DEF DeliveredEntry, OutboxRow
      <3> QED BY <3>2, <3>3
    <2> HIDE DEF new, e
    <2> QED BY <1>1, <2>1, <2>2 DEF Known
  <1>5. session' = IF worker[w].want = None THEN session
                   ELSE [session EXCEPT !.state = worker[w].want]
    BY DEF CommitEntry
  <1>6. record.pc \notin Busy /\ record.todo \subseteq worker[w].todo /\ record.want = None
    BY DEF IdleWorker, Busy
  <1>7. ok => receipts[e] < jobs[e]
    BY <1>1 DEF HonestWorker
  <1> HIDE DEF e, ok, rest, record
  <1>8. NoClaimWithoutAcceptance'
    <2>1. \A o \in Requests : receipts'[o] <= jobs'[o] /\ receipts'[o] >= receipts[o]
      BY <1>1, <1>2, <1>3, <1>7 DEF HandoffInv, NoClaimWithoutAcceptance
    <2>2. session'.state = "HANDED_OFF" => session.state = "HANDED_OFF" \/ ok
      BY <1>1, <1>5 DEF HonestWorker, SessionRow, ok
    <2>3. ok => receipts'[e] > 0
      BY <1>1, <1>3
    <2>4. session.state = "HANDED_OFF" => \E o \in Requests : receipts[o] > 0
      BY DEF HandoffInv, NoClaimWithoutAcceptance
    <2>5. \A o \in Requests : receipts[o] > 0 => receipts'[o] > 0
      BY <1>1, <1>3
    <2> QED BY <1>1, <2>1, <2>2, <2>3, <2>4, <2>5 DEF NoClaimWithoutAcceptance
  <1>9. ASSUME NEW o \in Requests PROVE HonestEntry(o)'
    <2>1. HonestEntry(o)
      BY DEF HandoffInv, LedgerInv
    <2> QED BY <1>2, <1>4, <2>1 DEF HonestEntry, Proposed
  <1>10. ASSUME NEW q \in Requests PROVE HonestRecord(req[q])'
    <2>1. HonestRecord(req[q])
      BY DEF HandoffInv
    <2> QED BY <1>2, <1>4, <2>1 DEF HonestRecord, Proposed
  <1>11. ASSUME NEW v \in Workers PROVE HonestWorker(v)'
    <2>1. CASE v = w
      <3>1. worker'[w] = record
        BY <1>2 DEF StoreInv, TypeInv, TypeOK
      <3>2. \A o \in record.todo : Known(o)'
        BY <1>1, <1>4, <1>6 DEF HonestWorker, WorkerRecord
      <3> QED BY <1>6, <2>1, <3>1, <3>2 DEF HonestWorker, Busy
    <2>2. CASE v # w
      <3>1. /\ HonestWorker(v)
            /\ worker[v] \in WorkerRecord
            /\ worker'[v] = worker[v]
        BY <1>2, <2>2 DEF HandoffInv, StoreInv, TypeInv, TypeOK
      <3>2. worker[v].pc \in Busy => /\ worker[v].entry \in Requests
                                     /\ worker[v].entry # e
        BY <1>1, <2>2, <3>1, EntriesApart
           DEF StoreInv, TypeInv, BatchInv, WorkerRecord, e
      <3>3. worker[v].pc \in Busy => outboxLock'[worker[v].entry] = v
        BY <2>2, <3>1, <3>2 DEF HonestWorker, CommitEntry, ReleaseOutbox
      <3>4. \A o \in worker[v].todo : Known(o)'
        BY <1>4, <3>1 DEF HonestWorker, WorkerRecord
      <3>5. worker[v].pc \in {"answered", "write", "commit"} /\ worker[v].ok =>
                receipts'[worker[v].entry] < jobs'[worker[v].entry]
        BY <1>1, <1>2, <1>3, <3>1, <3>2 DEF HonestWorker, Busy
      <3> QED BY <3>1, <3>3, <3>4, <3>5 DEF HonestWorker
    <2> QED BY <2>1, <2>2
  <1> QED BY <1>8, <1>9, <1>10, <1>11 DEF HandoffInv, LedgerInv

\* Every step of a worker keeps the invariant.
LEMMA ProcessKeepsHandoff ==
    ASSUME StoreInv, HandoffInv, NEW w \in Workers, Process(w) \/ AbortBatch(w)
    PROVE  HandoffInv'
  <1> USE DEF dbVars
  <1>1. /\ worker[w] \in WorkerRecord
        /\ HonestWorker(w)
        /\ worker \in [Workers -> WorkerRecord]
        /\ outboxLock \in [Requests -> Requests \cup Workers \cup {NoOne}]
        /\ worker[w].pc \in Busy => worker[w].entry \in Requests
    BY DEF StoreInv, TypeInv, TypeOK, BatchInv, HandoffInv, WorkerRecord
  <1>2. CASE FetchPending(w)
    <2>1. PICK batch \in SUBSET Pending :
              worker' = [worker EXCEPT ![w] = [@ EXCEPT
                  !.pc = "batch", !.todo = batch,
                  !.seen = [o \in Requests |->
                              IF o \in batch THEN outbox[o].attempts ELSE 0]]]
      BY <1>2 DEF FetchPending
    <2>2. /\ worker'[w].pc = "batch"
          /\ worker'[w].todo = batch
          /\ worker'[w].want = worker[w].want
      BY <1>1, <2>1 DEF WorkerRecord
    <2>3. \A o \in batch : Known(o)
      BY DEF Pending, Known
    <2>4. worker[w].want = None
      BY <1>1, <1>2 DEF HonestWorker, FetchPending
    <2>5. HonestWorker(w)'
      BY <1>2, <2>2, <2>3, <2>4 DEF HonestWorker, Busy, Known, FetchPending
    <2>6. \A v \in Workers \ {w} : worker'[v] = worker[v]
      BY <1>1, <2>1
    <2> QED BY <1>2, <2>5, <2>6, WorkerKeepsHandoff DEF FetchPending
  <1>3. ASSUME NEW o \in Requests, LockEntry(w, o) PROVE HandoffInv'
    <2>1. /\ worker'[w].pc = "locked"
          /\ worker'[w].entry = o
          /\ worker'[w].todo = worker[w].todo
          /\ worker'[w].want = worker[w].want
      BY <1>1, <1>3 DEF LockEntry, WorkerRecord
    <2>2. worker[w].want = None
      BY <1>1, <1>3 DEF HonestWorker, LockEntry
    <2>3. outboxLock' = [outboxLock EXCEPT ![o] = w] /\ outboxLock[o] = NoOne
      BY <1>3 DEF LockEntry
    <2>4. HonestWorker(w)'
      BY <1>1, <1>3, <2>1, <2>2, <2>3 DEF HonestWorker, Known, LockEntry
    <2>5. \A v \in Workers \ {w} : worker'[v] = worker[v]
      BY <1>1, <1>3 DEF LockEntry
    <2> QED BY <1>1, <1>3, <2>3, <2>4, <2>5, WorkerKeepsHandoff DEF LockEntry
  <1>4. ASSUME NEW outcome \in DOMAIN Delivery, DeliverEntry(w, outcome)
        PROVE  HandoffInv'
    BY <1>4, DeliverKeepsHandoff
  <1>5. CASE ReadSession(w)
    <2>1. /\ worker'[w].pc \in {"write", "commit"}
          /\ worker'[w].entry = worker[w].entry
          /\ worker'[w].todo = worker[w].todo
          /\ worker'[w].ok = worker[w].ok
          /\ worker'[w].want = TargetState(w)
      BY <1>1, <1>5 DEF ReadSession, WorkerRecord
    <2>2. TargetState(w) # None => (worker[w].ok <=> TargetState(w) = "HANDED_OFF")
      BY DEF TargetState, None
    <2>3. worker[w].pc = "answered"
      BY <1>5 DEF ReadSession
    <2>4. HonestWorker(w)'
      BY <1>1, <1>5, <2>1, <2>2, <2>3 DEF HonestWorker, Known, ReadSession, Busy
    <2>5. \A v \in Workers \ {w} : worker'[v] = worker[v]
      BY <1>1, <1>5 DEF ReadSession
    <2> QED BY <1>5, <2>4, <2>5, WorkerKeepsHandoff DEF ReadSession
  <1>6. CASE WriteSession(w)
    <2>1. /\ worker'[w].pc = "commit"
          /\ worker'[w].entry = worker[w].entry
          /\ worker'[w].todo = worker[w].todo
          /\ worker'[w].ok = worker[w].ok
          /\ worker'[w].want = worker[w].want
      BY <1>1, <1>6 DEF WriteSession, WorkerRecord
    <2>2. worker[w].pc = "write"
      BY <1>6 DEF WriteSession
    <2>3. HonestWorker(w)'
      BY <1>1, <1>6, <2>1, <2>2 DEF HonestWorker, Known, WriteSession, Busy
    <2>4. \A v \in Workers \ {w} : worker'[v] = worker[v]
      BY <1>1, <1>6 DEF WriteSession
    <2> QED BY <1>6, <2>3, <2>4, WorkerKeepsHandoff DEF WriteSession
  <1>7. CASE AbortBatch(w)
    <2>1. worker' = [worker EXCEPT ![w] = IdleWorker]
      BY <1>7 DEF AbortBatch
    <2>2. HonestWorker(w)'
      BY <1>1, <2>1 DEF HonestWorker, IdleWorker, Busy
    <2>3. \A v \in Workers \ {w} : worker'[v] = worker[v]
      BY <1>1, <2>1
    <2>4. \A o \in Requests : outboxLock'[o] = outboxLock[o] \/ outboxLock[o] = w
      BY <1>7 DEF AbortBatch, ReleaseOutbox
    <2> QED BY <1>7, <2>2, <2>3, <2>4, WorkerKeepsHandoff DEF AbortBatch
  <1> QED BY <1>2, <1>3, <1>4, <1>5, <1>6, <1>7, CommitEntryKeepsHandoff DEF Process

-----------------------------------------------------------------------------
\* The invariant and the properties it is for.

\* The invariant survives every step.
LEMMA NextHandoffInv == StoreInv /\ HandoffInv /\ [Next]_vars => HandoffInv'
  <1> SUFFICES ASSUME StoreInv, HandoffInv, [Next]_vars PROVE HandoffInv'
    OBVIOUS
  <1>1. CASE UNCHANGED vars
    BY <1>1 DEF vars, HandoffInv, NoClaimWithoutAcceptance, LedgerInv, HonestEntry,
                HonestRecord, HonestWorker, Known, Proposed
  <1> QED BY <1>1, CallKeepsHandoff, ProceedKeepsHandoff, ProcessKeepsHandoff DEF Next

\* The handoff invariant holds in every reachable state.
THEOREM HandoffInvariant == Spec => []HandoffInv
  BY InitHandoffInv, NextHandoffInv, StoreInvariant, PTL DEF Spec

\* However requests, workers and lost transactions interleave, no receipt is
\* recorded without an accepted call and the session is HANDED_OFF only when
\* some receipt is.
THEOREM ClaimsAreBacked == Spec => []NoClaimWithoutAcceptance
  <1>1. HandoffInv => NoClaimWithoutAcceptance
    BY DEF HandoffInv
  <1> QED BY <1>1, HandoffInvariant, PTL

\* Whatever is delivered was approved, with the version and the recommendation
\* of a committed proposal.
THEOREM OnlyApprovedPlansAreDelivered == Spec => []OnlyApprovedPlansLeave
  <1>1. HandoffInv => OnlyApprovedPlansLeave
    BY DEF HandoffInv, LedgerInv, HonestEntry, OnlyApprovedPlansLeave, Known, Proposed
  <1> QED BY <1>1, HandoffInvariant, PTL

-----------------------------------------------------------------------------
\* Refinement.

\* Steps that change no row and make no call are stutters of the contract.
LEMMA QuietStep ==
    ASSUME UNCHANGED <<session, outbox, receipts, jobs>>
    PROVE  UNCHANGED Contract!contractVars
  BY DEF Contract!contractVars

\* A commit approves a key, or takes back a claim, or is invisible.
LEMMA CommitRefines ==
    ASSUME StoreInv, HandoffInv, NEW r \in Requests, Commit(r)
    PROVE  [Contract!Next]_(Contract!contractVars)
  <1> DEFINE keys == {o \in Requests : Known(o)}
             claim == session.state = "HANDED_OFF"
  <1>1. /\ keys' \in {keys, keys \cup {r}}
        /\ r \notin keys
    BY CommittedOutboxRows DEF HandoffInv, LedgerInv, HonestEntry, Commit
  <1>2. UNCHANGED <<receipts, jobs>>
    BY DEF Commit
  <1>3. claim' \in {claim, FALSE}
    BY CommitClaimsNothing
  <1>4. CASE keys' = keys \cup {r}
    BY <1>1, <1>2, <1>3, <1>4 DEF Contract!Next, Contract!Approve, Known
  <1>5. CASE keys' = keys /\ claim' = claim
    BY <1>2, <1>5 DEF Contract!contractVars, Known
  <1>6. CASE keys' = keys /\ claim' # claim
    BY <1>2, <1>3, <1>6 DEF Contract!Next, Contract!Withdraw, Known
  <1> QED BY <1>1, <1>4, <1>5, <1>6

\* A delivery that is accepted is an Accept; one that is not is invisible.
LEMMA DeliverRefines ==
    ASSUME StoreInv, HandoffInv, NEW w \in Workers,
           NEW outcome \in DOMAIN Delivery, DeliverEntry(w, outcome)
    PROVE  [Contract!Next]_(Contract!contractVars)
  <1> DEFINE e == worker[w].entry
             made == Delivery[outcome].made
  <1>1. /\ e \in Requests
        /\ Known(e)
        /\ jobs \in [Requests -> Nat]
    BY DEF StoreInv, TypeInv, TypeOK, BatchInv, HandoffInv, HonestWorker,
           WorkerRecord, DeliverEntry, Busy
  <1>2. jobs' = [jobs EXCEPT ![e] = jobs[e] + made]
    BY DEF DeliverEntry
  <1>3. made \in {0, 1}
    BY DeliveryTyped
  <1>4. UNCHANGED <<session, outbox, receipts>>
    BY DEF DeliverEntry, dbVars
  <1> HIDE DEF e, made
  <1>5. CASE made = 0
    <2>1. jobs' = jobs
      BY <1>1, <1>2, <1>5
    <2> QED BY <1>4, <2>1, QuietStep
  <1>6. CASE made = 1
    <2>1. jobs' = [jobs EXCEPT ![e] = jobs[e] + 1]
      BY <1>2, <1>6
    <2> QED BY <1>1, <1>4, <2>1 DEF Contract!Next, Contract!Accept, Known
  <1> QED BY <1>3, <1>5, <1>6

\* The worker's commit records an acceptance, or takes back a claim when the
\* last attempt failed, or is invisible.
LEMMA CommitEntryRefines ==
    ASSUME StoreInv, HandoffInv, NEW w \in Workers, CommitEntry(w)
    PROVE  [Contract!Next]_(Contract!contractVars)
  <1> DEFINE e == worker[w].entry
             keys == {o \in Requests : Known(o)}
             claim == session.state = "HANDED_OFF"
  <1>1. /\ e \in Requests
        /\ Known(e)
        /\ HonestWorker(w)
        /\ worker[w].pc = "commit"
        /\ receipts \in [Requests -> Nat]
        /\ outbox \in [Requests -> OutboxRow]
        /\ session \in SessionRow
    BY DEF StoreInv, TypeInv, TypeOK, BatchInv, HandoffInv, HonestWorker,
           WorkerRecord, CommitEntry, Busy
  <1>2. keys' = keys
    <2>1. outbox' = [outbox EXCEPT ![e] = DeliveredEntry(w, outbox[e])]
      BY DEF CommitEntry
    <2>2. DeliveredEntry(w, outbox[e]).status # "ABSENT"
      <3>1. outbox[e] \in OutboxRow
        BY <1>1
      <3> HIDE DEF e
      <3>2. CASE worker[w].ok
        BY <3>1, <3>2 DEF DeliveredEntry, OutboxRow
      <3>3. CASE ~worker[w].ok
        BY <3>1, <3>3 DEF DeliveredEntry, OutboxRow
      <3> QED BY <3>2, <3>3
    <2> HIDE DEF e
    <2> QED BY <1>1, <2>1, <2>2 DEF Known
  <1>3. jobs' = jobs
    BY DEF CommitEntry
  <1>4. session' = IF worker[w].want = None THEN session
                   ELSE [session EXCEPT !.state = worker[w].want]
    BY DEF CommitEntry
  <1>5. receipts' = [receipts EXCEPT ![e] =
                        IF worker[w].ok THEN receipts[e] + 1 ELSE receipts[e]]
    BY DEF CommitEntry
  <1>6. CASE worker[w].ok
    <2>1. receipts[e] < jobs[e]
      BY <1>1, <1>6 DEF HonestWorker
    <2>2. receipts' = [receipts EXCEPT ![e] = receipts[e] + 1]
      BY <1>5, <1>6
    <2>3. claim' \in {claim, TRUE}
      BY <1>1, <1>4, <1>6 DEF HonestWorker, SessionRow
    <2> HIDE DEF e
    <2>4. Contract!Record(e)
      BY <1>1, <1>2, <1>3, <2>1, <2>2, <2>3 DEF Contract!Record, Known
    <2> QED BY <1>1, <2>4 DEF Contract!Next
  <1>7. CASE ~worker[w].ok
    <2>1. receipts' = receipts
      BY <1>1, <1>5, <1>7
    <2>2. claim' \in {claim, FALSE}
      BY <1>1, <1>4, <1>7 DEF HonestWorker, SessionRow
    <2>3. CASE claim' = claim
      BY <1>2, <1>3, <2>1, <2>3 DEF Contract!contractVars, Known
    <2>4. CASE claim' # claim
      BY <1>2, <1>3, <2>1, <2>2, <2>4 DEF Contract!Next, Contract!Withdraw, Known
    <2> QED BY <2>3, <2>4
  <1> QED BY <1>6, <1>7

\* Every step is a step of the contract or leaves its state alone.
LEMMA NextRefines ==
    StoreInv /\ HandoffInv /\ [Next]_vars => [Contract!Next]_(Contract!contractVars)
  <1> SUFFICES ASSUME StoreInv, HandoffInv, [Next]_vars
               PROVE  [Contract!Next]_(Contract!contractVars)
    OBVIOUS
  <1>1. ASSUME NEW r \in Requests, Call(r)
        PROVE  UNCHANGED <<session, outbox, receipts, jobs>>
    BY <1>1 DEF Call, CreateSession, AddTurn, SubmitAnswers, BeginPlanning,
                SubmitApproval, CancelSession, RetryHandoff, Begin, dbUnchanged, dbVars
  <1>2. ASSUME NEW r \in Requests, Proceed(r), ~Commit(r)
        PROVE  UNCHANGED <<session, outbox, receipts, jobs>>
    BY <1>2 DEF Proceed, FlushSession, PlannerProposes, PlannerAsks, PlannerFails,
                Conclude, PlannerSaysNothing, SelectProposal, FlushRetry, Rollback,
                dbUnchanged, dbVars
  <1>3. ASSUME NEW w \in Workers,
               \/ FetchPending(w)
               \/ \E o \in Requests : LockEntry(w, o)
               \/ ReadSession(w)
               \/ WriteSession(w)
               \/ AbortBatch(w)
        PROVE  UNCHANGED <<session, outbox, receipts, jobs>>
    BY <1>3 DEF FetchPending, LockEntry, ReadSession, WriteSession, AbortBatch, dbVars
  <1>4. CASE UNCHANGED vars
    BY <1>4, QuietStep DEF vars
  <1>5. ASSUME NEW w \in Workers, Process(w) \/ AbortBatch(w)
        PROVE  [Contract!Next]_(Contract!contractVars)
    BY <1>3, <1>5, QuietStep, DeliverRefines, CommitEntryRefines DEF Process
  <1>6. ASSUME NEW r \in Requests, Call(r) \/ Proceed(r)
        PROVE  [Contract!Next]_(Contract!contractVars)
    BY <1>1, <1>2, <1>6, QuietStep, CommitRefines
  <1> QED BY <1>4, <1>5, <1>6 DEF Next

\* The empty store is an initial state of the contract.
LEMMA InitRefines == Init => Contract!Init
  BY DEF Init, Contract!Init, NoEntry, NoSession, None

\* The backend implements the handoff contract: every step of requests, workers
\* and lost transactions is a step the contract allows, or none it can see.
THEOREM BackendKeepsContract == Spec => ContractKept
  BY InitRefines, NextRefines, StoreInvariant, HandoffInvariant, PTL
     DEF Spec, ContractKept, Contract!Spec

-----------------------------------------------------------------------------
(***************************************************************************)
(* A session which asks for approval is complete.                          *)
(*                                                                         *)
(* ApprovableIsComplete is not inductive: state, version and route are     *)
(* three columns, and each commit writes those it has changed.  It needs   *)
(* that a version and a route, once written, are never taken back, though  *)
(* each request writes from a row it read before; and the one request that *)
(* does write a row without them, create_session, must be alone.           *)
(***************************************************************************)
\* A creation that has not proposed: it writes the row without a version.
First(record) == "version" \in record.cols /\ record.mem.version = 0

AtWork(record) == record.pc \notin {"idle", "done"}

\* What a request writes never lacks a version or a route that it claims, and
\* what it read and does not write is still there.
CompleteRecord(record) ==
    /\ "state" \in record.cols => record.mem.state # None
    /\ "route" \in record.cols => record.mem.route # None \/ First(record)
    /\ "state" \in record.cols /\ record.mem.state = "AWAITING_APPROVAL" =>
          record.mem.version > 0 /\ record.mem.route # None
    /\ "version" \notin record.cols /\ record.mem.version > 0 => session.version > 0
    /\ "route" \notin record.cols /\ record.mem.route # None => session.route # None
    /\ record.pc = "select" => record.cols = {}
    /\ ~AtWork(record) => record.cols = {} /\ record.mem = NoSession

\* Before the row exists its creation is alone, and nothing is proposed.
BirthInv ==
    /\ session.state = None =>
          /\ proposals = {}
          /\ \A r \in Requests : AtWork(req[r]) =>
                /\ req[r].cols = Column
                /\ \A q \in Requests : AtWork(req[q]) => q = r
    /\ \A r \in Requests : First(req[r]) => session.state = None

\* A worker ends a handoff or fails it, and writes nothing else.
WantInv == \A w \in Workers : worker[w].want \in {None, "HANDED_OFF", "HANDOFF_FAILED"}

ApprovalInv ==
    /\ ApprovableIsComplete
    /\ \A r \in Requests : CompleteRecord(req[r])
    /\ BirthInv

\* There is no session initially.
LEMMA InitApproval == Init => ApprovalInv
  <1> SUFFICES ASSUME Init PROVE ApprovalInv
    OBVIOUS
  <1>1. \A r \in Requests : req[r] = Blank("idle")
    BY DEF Init
  <1>2. ~AtWork(Blank("idle")) /\ ~First(Blank("idle")) /\ CompleteRecord(Blank("idle"))
    BY DEF Blank, AtWork, First, CompleteRecord, NoSession, None
  <1>3. BirthInv
    BY <1>1, <1>2 DEF BirthInv, Init
  <1>4. ApprovableIsComplete
    BY DEF Init, ApprovableIsComplete, NoSession, None
  <1> QED BY <1>1, <1>2, <1>3, <1>4 DEF ApprovalInv

-----------------------------------------------------------------------------
\* Requests.

\* A step of request r that writes no row keeps the invariant if the record it
\* leaves is complete and no creation joins another request.
LEMMA RequestKeepsApproval ==
    ASSUME StoreInv, ApprovalInv, NEW r \in Requests, NEW record,
           CompleteRecord(record),
           First(record) => session.state = None,
           session.state = None /\ AtWork(record) =>
              /\ record.cols = Column
              /\ \A q \in Requests : AtWork(req[q]) => q = r,
           req' = [req EXCEPT ![r] = record],
           UNCHANGED <<session, proposals>>
    PROVE  ApprovalInv'
  <1>1. \A q \in Requests : req'[q] = IF q = r THEN record ELSE req[q]
    BY DEF StoreInv, TypeInv, TypeOK
  <1>2. ApprovableIsComplete'
    BY DEF ApprovalInv, ApprovableIsComplete
  <1>3. ASSUME NEW q \in Requests PROVE CompleteRecord(req[q])'
    <2>1. CompleteRecord(req'[q])
      BY <1>1 DEF ApprovalInv
    <2> QED BY <2>1 DEF CompleteRecord, First, AtWork
  <1>4. ASSUME NEW q \in Requests, First(req[q])' PROVE session'.state = None
    <2>1. First(req'[q])
      BY <1>4 DEF First
    <2> QED BY <1>1, <2>1 DEF ApprovalInv, BirthInv
  <1>5. ASSUME session'.state = None
        PROVE  /\ proposals' = {}
               /\ \A p \in Requests : AtWork(req'[p]) =>
                     /\ req'[p].cols = Column
                     /\ \A q \in Requests : AtWork(req'[q]) => q = p
    <2>1. /\ session.state = None /\ proposals = {}
          /\ \A p \in Requests : AtWork(req[p]) =>
                /\ req[p].cols = Column
                /\ \A q \in Requests : AtWork(req[q]) => q = p
      BY <1>5 DEF ApprovalInv, BirthInv
    <2>2. CASE AtWork(record)
      <3>1. \A q \in Requests : AtWork(req'[q]) => q = r
        BY <1>1, <2>1, <2>2
      <3> QED BY <1>1, <2>1, <2>2, <3>1
    <2>3. CASE ~AtWork(record)
      BY <1>1, <2>1, <2>3
    <2> QED BY <2>2, <2>3
  <1>6. BirthInv'
    BY <1>4, <1>5 DEF BirthInv, AtWork
  <1> QED BY <1>2, <1>3, <1>6 DEF ApprovalInv

\* A request that begins keeps the invariant: it has read the row as it is.
LEMMA CallKeepsApproval ==
    ASSUME StoreInv, ApprovalInv, NEW r \in Requests, Call(r) PROVE ApprovalInv'
  <1> USE DEF Begin, dbUnchanged, dbVars
  <1>1. session \in SessionRow /\ session.version \in Nat
    BY DEF StoreInv, TypeInv, TypeOK, SessionRow
  <1>2. CASE CreateSession(r)
    <2> DEFINE mem == [NoSession EXCEPT !.state = "DISCOVERING"]
               record == [Blank("planning") EXCEPT
                             !.op = "plan", !.mem = mem, !.cols = Column]
    <2>1. /\ record.pc = "planning" /\ record.cols = Column
          /\ record.mem = [state |-> "DISCOVERING", version |-> 0, route |-> None]
      BY DEF Blank, NoSession
    <2>2. req' = [req EXCEPT ![r] = record] /\ session.state = None /\ InFlight = {}
          /\ UNCHANGED <<session, proposals>>
      BY <1>2 DEF CreateSession
    <2> HIDE DEF record
    <2>3. CompleteRecord(record)
      BY <2>1 DEF CompleteRecord, First, AtWork, Column, None
    <2>4. \A q \in Requests : ~AtWork(req[q])
      BY <2>2 DEF InFlight, AtWork
    <2> QED BY <2>1, <2>2, <2>3, <2>4, RequestKeepsApproval
  <1>3. ASSUME NEW allowed, None \notin allowed, BeginPlanning(r, allowed)
        PROVE  ApprovalInv'
    <2> DEFINE record == [Blank("reopen") EXCEPT
                             !.op = "plan", !.mem = Reopened,
                             !.cols = Changed(session, Reopened)]
    <2>1. record.pc = "reopen" /\ record.mem = Reopened
          /\ record.cols = Changed(session, Reopened)
      BY DEF Blank
    <2>2. req' = [req EXCEPT ![r] = record] /\ session.state # None
          /\ UNCHANGED <<session, proposals>>
      BY <1>3 DEF BeginPlanning
    <2> HIDE DEF record
    <2>3. /\ Reopened.state = "DISCOVERING" /\ Reopened.version = session.version
          /\ Reopened.route = session.route
      BY <1>1 DEF Reopened, SessionRow
    <2>4. Changed(session, Reopened) \subseteq {"state"}
      BY <2>3 DEF Changed, Column
    <2>5. CompleteRecord(record) /\ ~First(record)
      BY <2>1, <2>3, <2>4 DEF CompleteRecord, First, AtWork, None
    <2> QED BY <2>2, <2>5, RequestKeepsApproval
  <1>4. ASSUME NEW action \in DOMAIN Decision, SubmitApproval(r, action)
        PROVE  ApprovalInv'
    <2> DEFINE record == [Blank("select") EXCEPT
                             !.op = action, !.mem = session, !.arg = session.version]
    <2>1. record.pc = "select" /\ record.mem = session /\ record.cols = {}
      BY DEF Blank
    <2>2. req' = [req EXCEPT ![r] = record] /\ session.state # None
          /\ UNCHANGED <<session, proposals>>
      BY <1>4 DEF SubmitApproval, None
    <2> HIDE DEF record
    <2>3. CompleteRecord(record) /\ ~First(record)
      BY <2>1 DEF CompleteRecord, First, AtWork
    <2> QED BY <2>2, <2>3, RequestKeepsApproval
  <1>5. CASE CancelSession(r)
    <2> DEFINE cancelled == [session EXCEPT !.state = "CANCELLED"]
               record == [Blank("update") EXCEPT
                             !.op = "cancel", !.mem = cancelled,
                             !.cols = Changed(session, cancelled)]
    <2>1. record.pc = "update" /\ record.mem = cancelled
          /\ record.cols = Changed(session, cancelled)
      BY DEF Blank
    <2>2. req' = [req EXCEPT ![r] = record] /\ session.state # None
          /\ UNCHANGED <<session, proposals>>
      BY <1>5 DEF CancelSession
    <2> HIDE DEF record
    <2>3. /\ cancelled.state = "CANCELLED" /\ cancelled.version = session.version
          /\ cancelled.route = session.route
      BY <1>1 DEF SessionRow
    <2> HIDE DEF cancelled
    <2>4. Changed(session, cancelled) \subseteq {"state"}
      BY <2>3 DEF Changed, Column
    <2>5. CompleteRecord(record) /\ ~First(record)
      BY <2>1, <2>3, <2>4 DEF CompleteRecord, First, AtWork, None
    <2> QED BY <2>2, <2>5, RequestKeepsApproval
  <1>6. ASSUME NEW o \in Requests, RetryHandoff(r, o) PROVE ApprovalInv'
    <2> DEFINE record == [Blank("retry") EXCEPT !.op = "retry", !.entry = o]
    <2>1. record.pc = "retry" /\ record.mem = NoSession /\ record.cols = {}
      BY DEF Blank
    <2>2. req' = [req EXCEPT ![r] = record] /\ session.state # None
          /\ UNCHANGED <<session, proposals>>
      BY <1>6 DEF RetryHandoff
    <2> HIDE DEF record
    <2>3. CompleteRecord(record) /\ ~First(record)
      BY <2>1 DEF CompleteRecord, First, AtWork, NoSession
    <2> QED BY <2>2, <2>3, RequestKeepsApproval
  <1> QED BY <1>2, <1>3, <1>4, <1>5, <1>6 DEF Call, AddTurn, SubmitAnswers, None

\* A commit writes a version and a route or leaves those there are; the first
\* one makes the row, and nobody else has read it.
LEMMA CommitKeepsApproval ==
    ASSUME StoreInv, ApprovalInv, NEW r \in Requests, Commit(r) PROVE ApprovalInv'
  <1> DEFINE mem == req[r].mem
             cols == req[r].cols
  <1>1. /\ mem \in SessionRow /\ mem.version \in Nat
        /\ session \in SessionRow /\ session.version \in Nat
        /\ CompleteRecord(req[r]) /\ AtWork(req[r])
    BY DEF StoreInv, TypeInv, TypeOK, RequestRecord, SessionRow, ApprovalInv,
           Commit, AtWork
  <1>2. /\ session'.state = IF "state" \in cols THEN mem.state ELSE session.state
        /\ session'.version = IF "version" \in cols THEN mem.version ELSE session.version
        /\ session'.route = IF "route" \in cols THEN mem.route ELSE session.route
    BY DEF Commit, Merge
  <1>3. \A q \in Requests : req'[q] = IF q = r THEN Blank("done") ELSE req[q]
    BY DEF Commit, EndRequest, StoreInv, TypeInv, TypeOK
  <1>4. ~AtWork(Blank("done")) /\ ~First(Blank("done")) /\ Blank("done").cols = {}
        /\ Blank("done").mem = NoSession /\ Blank("done").pc = "done"
    BY DEF Blank, AtWork, First
  <1> HIDE DEF mem, cols
  <1>5. session'.state # None
    <2>1. CASE session.state = None
      BY <1>1, <1>2, <2>1 DEF ApprovalInv, BirthInv, CompleteRecord, Column, mem, cols
    <2>2. CASE session.state # None
      BY <1>1, <1>2, <2>2 DEF CompleteRecord, mem, cols
    <2> QED BY <2>1, <2>2
  <1>6. ApprovableIsComplete'
    <2> SUFFICES ASSUME session'.state = "AWAITING_APPROVAL"
                 PROVE  session'.version > 0 /\ session'.route # None
      BY DEF ApprovableIsComplete
    <2>1. CASE "state" \in cols
      <3>1. mem.version > 0 /\ mem.route # None
        BY <1>1, <1>2, <2>1 DEF CompleteRecord, mem, cols
      <3>2. /\ "version" \notin cols => session.version > 0
            /\ "route" \notin cols => session.route # None
        BY <1>1, <3>1 DEF CompleteRecord, mem, cols
      <3> QED BY <1>2, <3>1, <3>2
    <2>2. CASE "state" \notin cols
      <3>1. session.state = "AWAITING_APPROVAL" /\ session.state # None
        BY <1>2, <2>2 DEF None
      <3>2. session.version > 0 /\ session.route # None /\ ~First(req[r])
        BY <3>1 DEF ApprovalInv, ApprovableIsComplete, BirthInv
      <3>3. /\ "version" \in cols => mem.version > 0
            /\ "route" \in cols => mem.route # None
        BY <1>1, <3>2 DEF CompleteRecord, First, mem, cols
      <3> QED BY <1>2, <3>2, <3>3
    <2> QED BY <2>1, <2>2
  <1>7. ASSUME NEW q \in Requests
        PROVE  /\ CompleteRecord(req[q])'
               /\ ~First(req'[q])
    <2>1. CASE q = r \/ ~AtWork(req[q])
      <3>1. req'[q].cols = {} /\ req'[q].mem = NoSession /\ req'[q].pc # "select"
        BY <1>3, <1>4, <2>1 DEF ApprovalInv, CompleteRecord, AtWork
      <3> QED BY <3>1 DEF CompleteRecord, First, AtWork, NoSession
    <2>2. CASE q # r /\ AtWork(req[q])
      <3>1. session.state # None
        BY <1>1, <2>2 DEF ApprovalInv, BirthInv
      <3>2. ~First(req[r]) /\ ~First(req[q])
        BY <3>1 DEF ApprovalInv, BirthInv
      <3>3. /\ session.version > 0 => session'.version > 0
            /\ session.route # None => session'.route # None
        BY <1>1, <1>2, <3>2 DEF CompleteRecord, First, mem, cols
      <3>4. CompleteRecord(req[q]) /\ req'[q] = req[q]
        BY <1>3, <2>2 DEF ApprovalInv
      <3> QED BY <3>2, <3>3, <3>4 DEF CompleteRecord, First, AtWork
    <2> QED BY <2>1, <2>2
  <1>8. BirthInv'
    BY <1>5, <1>7 DEF BirthInv, First
  <1> QED BY <1>6, <1>7, <1>8 DEF ApprovalInv

\* Every step of a request in progress keeps the invariant.
LEMMA ProceedKeepsApproval ==
    ASSUME StoreInv, ApprovalInv, NEW r \in Requests, Proceed(r) PROVE ApprovalInv'
  <1> USE DEF dbUnchanged, dbVars
  <1>1. /\ req[r] \in RequestRecord
        /\ req[r].mem \in SessionRow
        /\ req[r].mem.version \in Nat
        /\ CompleteRecord(req[r])
    BY DEF StoreInv, TypeInv, TypeOK, RequestRecord, SessionRow, ApprovalInv
  <1>2. /\ First(req[r]) => session.state = None
        /\ session.state = None /\ AtWork(req[r]) =>
              /\ req[r].cols = Column
              /\ \A q \in Requests : AtWork(req[q]) => q = r
    BY DEF ApprovalInv, BirthInv
  <1>3. ASSUME NEW pc \in {"planning", "commit"}, AtWork(req[r]),
               req' = [req EXCEPT ![r].pc = pc], UNCHANGED <<session, proposals>>
        PROVE  ApprovalInv'
    <2> DEFINE record == [req[r] EXCEPT !.pc = pc]
    <2>1. record.pc = pc /\ record.mem = req[r].mem /\ record.cols = req[r].cols
      BY <1>1 DEF RequestRecord
    <2>2. req' = [req EXCEPT ![r] = record]
      BY <1>3
    <2> HIDE DEF record
    <2>3. CompleteRecord(record) /\ (First(record) <=> First(req[r]))
      BY <1>1, <1>3, <2>1 DEF CompleteRecord, First, AtWork
    <2> QED BY <1>2, <1>3, <2>1, <2>2, <2>3, RequestKeepsApproval
  <1>4. CASE FlushSession(r)
    <2>1. CASE req[r].pc = "reopen"
      <3>1. req' = [req EXCEPT ![r].pc = "planning"] /\ AtWork(req[r])
        BY <1>4, <2>1 DEF FlushSession, AtWork
      <3> QED BY <1>3, <1>4, <3>1 DEF FlushSession
    <2>2. CASE req[r].pc = "update"
      <3>1. req' = [req EXCEPT ![r].pc = "commit"] /\ AtWork(req[r])
        BY <1>4, <2>2 DEF FlushSession, AtWork
      <3> QED BY <1>3, <1>4, <3>1 DEF FlushSession
    <2> QED BY <1>4, <2>1, <2>2 DEF FlushSession
  <1>5. CASE PlannerSaysNothing(r) \/ FlushRetry(r)
    BY <1>3, <1>5 DEF PlannerSaysNothing, FlushRetry, AtWork
  <1>6. ASSUME NEW mem \in SessionRow, NEW version, Conclude(r, mem, version),
               mem.state # None,
               \/ mem.version = req[r].mem.version + 1 /\ mem.route # None
               \/ /\ mem.version = req[r].mem.version /\ mem.route = req[r].mem.route
                  /\ mem.state # "AWAITING_APPROVAL"
        PROVE  ApprovalInv'
    <2> DEFINE record == [req[r] EXCEPT
                  !.pc = "update",
                  !.mem = mem,
                  !.cols = req[r].cols \cup Changed(req[r].mem, mem),
                  !.arg = version]
    <2>1. /\ record.pc = "update" /\ record.mem = mem
          /\ record.cols = req[r].cols \cup Changed(req[r].mem, mem)
      BY <1>1 DEF RequestRecord
    <2>2. req' = [req EXCEPT ![r] = record] /\ AtWork(req[r])
          /\ UNCHANGED <<session, proposals>>
      BY <1>6 DEF Conclude, AtWork
    <2> HIDE DEF record
    <2>3. /\ "version" \in Changed(req[r].mem, mem) <=> mem.version # req[r].mem.version
          /\ "route" \in Changed(req[r].mem, mem) <=> mem.route # req[r].mem.route
          /\ Changed(req[r].mem, mem) \subseteq Column
      BY DEF Changed, Column
    <2>4. First(record) => First(req[r])
      BY <1>1, <1>6, <2>1, <2>3 DEF First
    <2>5. CompleteRecord(record)
      <3>1. AtWork(record) /\ record.pc # "select"
        BY <2>1 DEF AtWork
      <3>2. CASE mem.version = req[r].mem.version + 1 /\ mem.route # None
        <4>1. mem.version > 0 /\ "version" \in record.cols
          BY <1>1, <2>1, <2>3, <3>2
        <4> QED BY <1>1, <1>6, <2>1, <2>3, <3>1, <3>2, <4>1 DEF CompleteRecord
      <3>3. CASE /\ mem.version = req[r].mem.version /\ mem.route = req[r].mem.route
                 /\ mem.state # "AWAITING_APPROVAL"
        <4>1. /\ "version" \in record.cols <=> "version" \in req[r].cols
              /\ "route" \in record.cols <=> "route" \in req[r].cols
          BY <2>1, <2>3, <3>3
        <4>2. First(record) <=> First(req[r])
          BY <2>1, <3>3, <4>1 DEF First
        <4> QED BY <1>1, <1>6, <2>1, <3>1, <3>3, <4>1, <4>2 DEF CompleteRecord
      <3> QED BY <1>6, <3>2, <3>3
    <2>6. session.state = None => record.cols = Column
      BY <1>2, <2>1, <2>2, <2>3
    <2> QED BY <1>2, <2>2, <2>4, <2>5, <2>6, RequestKeepsApproval
  <1>7. ASSUME NEW route \in Recommended, PlannerProposes(r, route) PROVE ApprovalInv'
    <2> DEFINE mem == [state |-> "AWAITING_APPROVAL",
                       version |-> req[r].mem.version + 1, route |-> route]
    <2>1. /\ mem \in SessionRow /\ mem.state # None /\ mem.route # None
          /\ mem.version = req[r].mem.version + 1
      BY <1>1, LimitAssumption DEF SessionRow, SessionState, Route, None
    <2>2. Conclude(r, mem, LatestVersion + 1)
      BY <1>7 DEF PlannerProposes
    <2> HIDE DEF mem
    <2> QED BY <1>6, <2>1, <2>2
  <1>8. ASSUME NEW s \in SessionState, s # "AWAITING_APPROVAL", s # None,
               Conclude(r, [req[r].mem EXCEPT !.state = s], 0)
        PROVE  ApprovalInv'
    <2> DEFINE mem == [req[r].mem EXCEPT !.state = s]
    <2>1. /\ mem \in SessionRow /\ mem.state = s
          /\ mem.version = req[r].mem.version /\ mem.route = req[r].mem.route
      BY <1>1 DEF SessionRow
    <2>2. Conclude(r, mem, 0)
      BY <1>8
    <2> HIDE DEF mem
    <2> QED BY <1>6, <1>8, <2>1, <2>2
  <1>9. CASE PlannerAsks(r) \/ PlannerFails(r)
    BY <1>8, <1>9 DEF PlannerAsks, PlannerFails, SessionState, None
  <1>10. CASE SelectProposal(r)
    <2>1. PICK p \in ProposalsOf(req[r].arg) :
              req' = [req EXCEPT ![r] = [@ EXCEPT
                         !.pc = "update", !.mem.state = Decision[req[r].op],
                         !.cols = {"state"}, !.plan = p.route]]
      BY <1>10 DEF SelectProposal
    <2> DEFINE mem == [req[r].mem EXCEPT !.state = Decision[req[r].op]]
               record == [req[r] EXCEPT
                             !.pc = "update", !.mem = mem,
                             !.cols = {"state"}, !.plan = p.route]
    <2>2. req[r].pc = "select" /\ req[r].cols = {} /\ AtWork(req[r])
      BY <1>1, <1>10 DEF SelectProposal, CompleteRecord, AtWork
    <2>3. /\ mem.state \in {"HANDOFF_QUEUED", "DISCOVERING", "CANCELLED"}
          /\ mem.version = req[r].mem.version /\ mem.route = req[r].mem.route
      BY <1>1, <2>2 DEF StoreInv, TypeInv, ChoiceMade, Decision, SessionRow
    <2>4. record.pc = "update" /\ record.mem = mem /\ record.cols = {"state"}
      BY <1>1 DEF RequestRecord
    <2>5. req' = [req EXCEPT ![r] = record] /\ UNCHANGED <<session, proposals>>
      BY <1>1, <1>10, <2>1 DEF RequestRecord, SelectProposal
    <2> HIDE DEF record, mem
    <2>6. CompleteRecord(record) /\ ~First(record)
      BY <1>1, <2>2, <2>3, <2>4 DEF CompleteRecord, First, AtWork, None
    <2>7. session.state # None
      BY <1>2, <2>2 DEF Column
    <2> QED BY <2>5, <2>6, <2>7, RequestKeepsApproval
  <1>11. CASE Rollback(r)
    <2>1. CompleteRecord(Blank("done")) /\ ~First(Blank("done")) /\ ~AtWork(Blank("done"))
      BY DEF Blank, CompleteRecord, First, AtWork, NoSession
    <2> QED BY <1>11, <2>1, RequestKeepsApproval DEF Rollback, EndRequest
  <1> QED BY <1>4, <1>5, <1>7, <1>9, <1>10, <1>11, CommitKeepsApproval DEF Proceed

-----------------------------------------------------------------------------
\* Workers.

\* A worker has an entry in hand only when something has been proposed, so the
\* session it moves exists; and it moves none to AWAITING_APPROVAL.
LEMMA WorkerKeepsApproval ==
    ASSUME StoreInv, HandoffInv, WantInv, ApprovalInv, NEW w \in Workers,
           Process(w) \/ AbortBatch(w)
    PROVE  ApprovalInv'
  <1>1. UNCHANGED <<proposals, req>>
    BY DEF Process, AbortBatch, FetchPending, LockEntry, DeliverEntry, ReadSession,
           WriteSession, CommitEntry, dbVars
  <1>2. CASE session' = session
    BY <1>1, <1>2 DEF ApprovalInv, ApprovableIsComplete, CompleteRecord, First, AtWork,
                      BirthInv
  <1>3. CASE session' # session
    <2>1. CommitEntry(w) /\ worker[w].want # None
      BY <1>3 DEF Process, AbortBatch, FetchPending, LockEntry, DeliverEntry,
                  ReadSession, WriteSession, CommitEntry, dbVars
    <2>2. worker[w] \in WorkerRecord /\ session \in SessionRow
      BY DEF StoreInv, TypeInv, TypeOK
    <2>3. /\ worker[w].entry \in worker[w].todo
          /\ worker[w].todo \subseteq Requests
      BY <2>1, <2>2 DEF StoreInv, TypeInv, BatchInv, Busy, CommitEntry, WorkerRecord
    <2>4. Known(worker[w].entry)
      BY <2>3 DEF HandoffInv, HonestWorker
    <2>5. proposals # {}
      BY <2>3, <2>4 DEF HandoffInv, LedgerInv, HonestEntry, Proposed
    <2>6. session.state # None
      BY <2>5 DEF ApprovalInv, BirthInv
    <2>7. /\ session'.version = session.version /\ session'.route = session.route
          /\ session'.state = worker[w].want
      BY <2>1, <2>2 DEF CommitEntry, SessionRow
    <2>8. worker[w].want # "AWAITING_APPROVAL"
      BY DEF WantInv, None
    <2> QED BY <1>1, <2>1, <2>6, <2>7, <2>8
            DEF ApprovalInv, ApprovableIsComplete, CompleteRecord, First, AtWork, BirthInv
  <1> QED BY <1>2, <1>3

-----------------------------------------------------------------------------
\* What a worker wants is decided when it reads the session, by TargetState.
LEMMA WorkersWant == Spec => []WantInv
  <1>1. Init => WantInv
    BY DEF Init, WantInv, IdleWorker
  <1>2. StoreInv /\ WantInv /\ [Next]_vars => WantInv'
    <2> SUFFICES ASSUME StoreInv, WantInv, [Next]_vars PROVE WantInv'
      OBVIOUS
    <2>1. ASSUME NEW r \in Requests, Call(r) \/ Proceed(r) PROVE worker' = worker
      BY <2>1 DEF Call, CreateSession, AddTurn, SubmitAnswers, BeginPlanning,
                  SubmitApproval, CancelSession, RetryHandoff, Begin, Proceed,
                  FlushSession, PlannerProposes, PlannerAsks, PlannerFails, Conclude,
                  PlannerSaysNothing, SelectProposal, FlushRetry, Commit, Rollback,
                  dbUnchanged
    <2>2. ASSUME NEW w \in Workers, Process(w) \/ AbortBatch(w)
          PROVE  \A v \in Workers :
                    worker'[v].want \in {worker[v].want, None, TargetState(w)}
      <3>1. worker[w] \in WorkerRecord /\ DOMAIN worker = Workers
        BY DEF StoreInv, TypeInv, TypeOK
      <3>2. ASSUME NEW record, worker' = [worker EXCEPT ![w] = record],
                   record.want \in {worker[w].want, None, TargetState(w)}
            PROVE  \A v \in Workers :
                      worker'[v].want \in {worker[v].want, None, TargetState(w)}
        BY <3>1, <3>2
      <3>3. CASE FetchPending(w)
        <4>1. PICK batch : worker' = [worker EXCEPT ![w] = [worker[w] EXCEPT
                         !.pc = "batch",
                         !.todo = batch,
                         !.seen = [o \in Requests |->
                                     IF o \in batch THEN outbox[o].attempts ELSE 0]]]
          BY <3>1, <3>3 DEF FetchPending
        <4> QED BY <3>1, <3>2, <4>1 DEF WorkerRecord
      <3>4. ASSUME NEW o \in Requests, LockEntry(w, o)
            PROVE  worker' = [worker EXCEPT ![w] =
                                 [worker[w] EXCEPT !.pc = "locked", !.entry = o]]
        BY <3>1, <3>4 DEF LockEntry
      <3>5. CASE \E o \in Requests : LockEntry(w, o)
        BY <3>1, <3>2, <3>4, <3>5 DEF WorkerRecord
      <3>6. CASE \E outcome \in DOMAIN Delivery : DeliverEntry(w, outcome)
        BY <3>1, <3>2, <3>6 DEF DeliverEntry, WorkerRecord
      <3>7. CASE ReadSession(w)
        <4>1. worker' = [worker EXCEPT ![w] = [worker[w] EXCEPT
                     !.pc = IF TargetState(w) = None THEN "commit" ELSE "write",
                     !.want = TargetState(w)]]
          BY <3>1, <3>7 DEF ReadSession
        <4> QED BY <3>1, <3>2, <4>1 DEF WorkerRecord
      <3>8. CASE WriteSession(w)
        <4>1. worker' = [worker EXCEPT ![w] = [worker[w] EXCEPT !.pc = "commit"]]
          BY <3>1, <3>8 DEF WriteSession
        <4> QED BY <3>1, <3>2, <4>1 DEF WorkerRecord
      <3>9. CASE CommitEntry(w)
        <4> DEFINE rest == worker[w].todo \ {worker[w].entry}
                   record == IF rest = {} THEN IdleWorker
                             ELSE [IdleWorker EXCEPT
                                      !.pc = "batch", !.todo = rest,
                                      !.seen = [worker[w].seen EXCEPT ![worker[w].entry] = 0]]
        <4>1. worker' = [worker EXCEPT ![w] = record]
          BY <3>9 DEF CommitEntry
        <4>2. record.want = None
          BY DEF IdleWorker
        <4> HIDE DEF record
        <4> QED BY <3>2, <4>1, <4>2
      <3>10. CASE AbortBatch(w)
        BY <3>2, <3>10 DEF AbortBatch, IdleWorker
      <3> QED BY <2>2, <3>3, <3>5, <3>6, <3>7, <3>8, <3>9, <3>10 DEF Process
    <2>3. \A w \in Workers : TargetState(w) \in {None, "HANDED_OFF", "HANDOFF_FAILED"}
      BY DEF TargetState
    <2>4. CASE UNCHANGED vars
      BY <2>4 DEF vars, WantInv
    <2> QED BY <2>1, <2>2, <2>3, <2>4 DEF Next, WantInv
  <1> QED BY <1>1, <1>2, StoreInvariant, PTL DEF Spec

\* Every step keeps the invariant.
LEMMA NextApproval ==
    StoreInv /\ HandoffInv /\ WantInv /\ ApprovalInv /\ [Next]_vars => ApprovalInv'
  <1> SUFFICES ASSUME StoreInv, HandoffInv, WantInv, ApprovalInv, [Next]_vars
               PROVE  ApprovalInv'
    OBVIOUS
  <1>1. CASE UNCHANGED vars
    BY <1>1 DEF vars, ApprovalInv, ApprovableIsComplete, CompleteRecord, First, AtWork,
                BirthInv
  <1> QED BY <1>1, CallKeepsApproval, ProceedKeepsApproval, WorkerKeepsApproval DEF Next

\* Versions and routes are never taken back, and a creation is alone.
THEOREM ApprovalInvariant == Spec => []ApprovalInv
  BY InitApproval, NextApproval, WorkersWant, StoreInvariant, HandoffInvariant, PTL
     DEF Spec

\* However requests and deliveries overlap, a session that asks for approval has
\* a version and a route, though they may come from different requests.
THEOREM ApprovalsAreComplete == Spec => []ApprovableIsComplete
  <1>1. ApprovalInv => ApprovableIsComplete
    BY DEF ApprovalInv
  <1> QED BY <1>1, ApprovalInvariant, PTL
=============================================================================
