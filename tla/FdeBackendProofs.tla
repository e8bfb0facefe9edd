-------------------------- MODULE FdeBackendProofs --------------------------
(***************************************************************************)
(* Proofs about FdeBackend, for any set of requests and workers and any    *)
(* limits.  The invariants are layered: each is inductive relative to the  *)
(* ones before it, and each theorem names the one it adds.                 *)
(***************************************************************************)
EXTENDS FdeBackend, TLAPS

Busy == {"locked", "answered", "write", "commit"}

-----------------------------------------------------------------------------
\* Layer 1: types and the retry budget.

\* A worker in the middle of an entry took it from its batch, and read it with
\* attempts left.
BatchInv ==
    \A w \in Workers :
        /\ worker[w].pc \in Busy => worker[w].entry \in worker[w].todo
        /\ \A o \in worker[w].todo : worker[w].seen[o] < MaxAttempts

\* A request about to dispatch on its action has one of handle_approval's three.
ChoiceMade(record) == record.pc = "select" => record.op \in DOMAIN Decision

TypeInv ==
    /\ TypeOK
    /\ BatchInv
    /\ \A r \in Requests : ChoiceMade(req[r])
    /\ RetryBudget

\* All versions up to v have a committed proposal.
Covered(v) == \A u \in 1..v : u \in Versions

\* The stored versions have no gap: planning cycles may race to the same
\* version, and are never ahead of the table by more than one.
GapFree == \E n \in Nat : Versions = 1..n

\* Only planning requests write the session's version.  One that has proposed
\* (arg > 0) brings the proposal of the version it writes, or of a later one;
\* one that has not yet writes back a version that is covered already.
PlansNextVersion(record) ==
    /\ record.pc \in {"reopen", "planning"} => record.op = "plan" /\ record.arg = 0
    /\ record.op # "plan" => "version" \notin record.cols
    /\ record.op = "plan" =>
        /\ record.arg = 0 => Covered(record.mem.version)
        /\ record.arg > 0 => /\ Covered(record.arg - 1)
                             /\ record.mem.version <= record.arg

VersionInv ==
    /\ GapFree
    /\ VersionCovered
    /\ \A r \in Requests : PlansNextVersion(req[r])

\* The empty store is well typed.
LEMMA InitTypeInv == Init => TypeInv
  <1> SUFFICES ASSUME Init PROVE TypeInv
    OBVIOUS
  <1> USE DEF Init
  <1>1. IdleWorker \in WorkerRecord
    BY LimitAssumption DEF IdleWorker, WorkerRecord, WorkerPc
  <1>2. TypeOK
    BY <1>1, LimitAssumption
       DEF TypeOK, NoSession, SessionRow, NoEntry, OutboxRow, OutboxStatus,
           Blank, RequestRecord, RequestPc, RequestOp
  <1>3. BatchInv
    BY DEF BatchInv, IdleWorker, Busy
  <1>4. RetryBudget
    BY DEF RetryBudget, NoEntry
  <1>5. ASSUME NEW r \in Requests PROVE ChoiceMade(req[r])
    BY DEF ChoiceMade, Blank
  <1> QED BY <1>2, <1>3, <1>4, <1>5 DEF TypeInv

\* A step of request r that replaces its record by a well-typed one, and
\* touches no table but the locks, keeps layer 1.
LEMMA RequestStepTyped ==
    ASSUME TypeInv, NEW r \in Requests, NEW record \in RequestRecord,
           ChoiceMade(record),
           req' = [req EXCEPT ![r] = record],
           sessionLock' \in {sessionLock, r, NoOne},
           outboxLock' \in [Requests -> Requests \cup Workers \cup {NoOne}],
           dbUnchanged
    PROVE  TypeInv'
  <1>1. TypeOK'
    BY DEF TypeInv, TypeOK, dbUnchanged, dbVars
  <1>2. BatchInv' /\ RetryBudget'
    BY DEF TypeInv, BatchInv, RetryBudget, dbUnchanged, dbVars
  <1>3. ASSUME NEW q \in Requests PROVE ChoiceMade(req[q])'
    BY DEF TypeInv, TypeOK, ChoiceMade
  <1> QED BY <1>1, <1>2, <1>3 DEF TypeInv

\* A request that has not begun, or has ended, has a well-typed record.
LEMMA BlankTyped ==
    ASSUME NEW p \in RequestPc PROVE Blank(p) \in RequestRecord
  BY DEF Blank, RequestRecord, RequestOp, NoSession, SessionRow

\* A request that begins with a well-typed record keeps layer 1.
LEMMA BeginTyped ==
    ASSUME TypeInv, NEW r \in Requests, NEW record \in RequestRecord,
           ChoiceMade(record), Begin(r, record)
    PROVE  TypeInv'
  <1>1. outboxLock' \in [Requests -> Requests \cup Workers \cup {NoOne}]
    BY DEF Begin, TypeInv, TypeOK
  <1> QED BY <1>1, RequestStepTyped DEF Begin

\* Every call a client may make begins with a well-typed record.
LEMMA CallTyped ==
    ASSUME TypeInv, NEW r \in Requests, Call(r) PROVE TypeInv'
  <1>1. session \in SessionRow
    BY DEF TypeInv, TypeOK
  <1>2. ASSUME NEW m \in SessionRow PROVE Changed(session, m) \in SUBSET Column
    BY DEF Changed
  <1>3. CASE CreateSession(r)
    <2>1. [NoSession EXCEPT !.state = "DISCOVERING"] \in SessionRow
      BY DEF NoSession, SessionRow, SessionState
    <2>2. [Blank("planning") EXCEPT
              !.op = "plan",
              !.mem = [NoSession EXCEPT !.state = "DISCOVERING"],
              !.cols = Column] \in RequestRecord
      BY <2>1, BlankTyped DEF RequestRecord, RequestPc, RequestOp
    <2> QED BY <1>3, <2>2, BeginTyped DEF ChoiceMade, Blank, CreateSession
  <1>4. ASSUME NEW allowed, BeginPlanning(r, allowed) PROVE TypeInv'
    <2>1. Reopened \in SessionRow
      BY <1>1 DEF Reopened, SessionRow, SessionState
    <2>2. [Blank("reopen") EXCEPT
              !.op = "plan",
              !.mem = Reopened,
              !.cols = Changed(session, Reopened)] \in RequestRecord
      BY <2>1, <1>2, BlankTyped DEF RequestRecord, RequestPc, RequestOp
    <2> QED BY <1>4, <2>2, BeginTyped DEF ChoiceMade, Blank, BeginPlanning
  <1>5. ASSUME NEW action \in DOMAIN Decision, SubmitApproval(r, action)
        PROVE  TypeInv'
    <2>1. [Blank("select") EXCEPT
              !.op = action,
              !.mem = session,
              !.arg = session.version] \in RequestRecord
      BY <1>1, BlankTyped
         DEF RequestRecord, RequestPc, RequestOp, Decision, SessionRow
    <2> QED BY <1>5, <2>1, BeginTyped DEF ChoiceMade, Blank, SubmitApproval
  <1>6. CASE CancelSession(r)
    <2> DEFINE cancelled == [session EXCEPT !.state = "CANCELLED"]
    <2>1. cancelled \in SessionRow
      BY <1>1 DEF SessionRow, SessionState
    <2>2. [Blank("update") EXCEPT
              !.op = "cancel",
              !.mem = cancelled,
              !.cols = Changed(session, cancelled)] \in RequestRecord
      BY <2>1, <1>2, BlankTyped DEF RequestRecord, RequestPc, RequestOp
    <2> QED BY <1>6, <2>2, BeginTyped DEF ChoiceMade, Blank, CancelSession
  <1>7. ASSUME NEW o \in Requests, RetryHandoff(r, o) PROVE TypeInv'
    <2>1. [Blank("retry") EXCEPT !.op = "retry", !.entry = o] \in RequestRecord
      BY BlankTyped DEF RequestRecord, RequestPc, RequestOp
    <2> QED BY <1>7, <2>1, BeginTyped DEF ChoiceMade, Blank, RetryHandoff
  <1> QED BY <1>3, <1>4, <1>5, <1>6, <1>7 DEF Call, AddTurn, SubmitAnswers

\* The record a planning cycle leaves behind is well typed.
LEMMA ConcludeTyped ==
    ASSUME TypeInv, NEW r \in Requests, NEW mem \in SessionRow,
           NEW version \in Nat, Conclude(r, mem, version)
    PROVE  TypeInv'
  <1>1. req[r] \in RequestRecord
    BY DEF TypeInv, TypeOK
  <1>2. Changed(req[r].mem, mem) \in SUBSET Column
    BY DEF Changed
  <1> DEFINE record == [req[r] EXCEPT
                !.pc = "update",
                !.mem = mem,
                !.cols = req[r].cols \cup Changed(req[r].mem, mem),
                !.arg = version]
  <1>3. record \in RequestRecord /\ ChoiceMade(record)
    BY <1>1, <1>2 DEF RequestRecord, RequestPc, ChoiceMade
  <1>4. req' = [req EXCEPT ![r] = record]
    BY DEF Conclude
  <1>5. outboxLock' \in [Requests -> Requests \cup Workers \cup {NoOne}]
    BY DEF Conclude, TypeInv, TypeOK
  <1> QED BY <1>3, <1>4, <1>5, RequestStepTyped DEF Conclude

\* In a table without gaps the latest version is the number of versions.
LEMMA LatestIsLast ==
    ASSUME NEW n \in Nat, Versions = 1..n PROVE LatestVersion = n
  <1>1. CASE n = 0
    <2>1. Versions = {}
      BY <1>1
    <2>2. proposals = {}
      BY <2>1 DEF Versions
    <2> QED BY <2>2, <1>1 DEF LatestVersion
  <1>2. CASE n # 0
    <2>1. n \in Versions /\ \A u \in Versions : u <= n
      BY <1>2
    <2>2. proposals # {}
      BY <2>1 DEF Versions
    <2>3. ASSUME NEW v \in Versions, \A u \in Versions : u <= v PROVE v = n
      BY <2>1, <2>3
    <2>4. n = CHOOSE v \in Versions : \A u \in Versions : u <= v
      BY <2>1, <2>3
    <2> QED BY <2>2, <2>4 DEF LatestVersion
  <1> QED BY <1>1, <1>2

\* Merging typed columns into a typed row gives a typed row.
LEMMA MergeTyped ==
    ASSUME NEW row \in SessionRow, NEW mem \in SessionRow, NEW cols
    PROVE  Merge(row, mem, cols) \in SessionRow
  BY DEF Merge, SessionRow

\* What a commit makes visible is well typed, and a queued entry has attempts
\* left.
LEMMA CommitTyped ==
    ASSUME TypeInv, NEW r \in Requests, Commit(r) PROVE TypeInv'
  <1> USE DEF TypeInv, TypeOK
  <1>1. req[r] \in RequestRecord /\ session \in SessionRow
    OBVIOUS
  <1>2. session' \in SessionRow
    BY <1>1, MergeTyped DEF Commit, RequestRecord
  <1>3. proposals' \subseteq Proposal
    <2>1. [version |-> req[r].arg, route |-> req[r].mem.route, by |-> r] \in Proposal
      BY <1>1 DEF RequestRecord, SessionRow, Proposal
    <2> QED BY <2>1 DEF Commit, CommittedProposals
  <1>4. ApprovedEntry(r) \in OutboxRow /\ ApprovedEntry(r).status = "PENDING"
        /\ ApprovedEntry(r).attempts < MaxAttempts
    BY <1>1, LimitAssumption
       DEF ApprovedEntry, RequestRecord, SessionRow, OutboxRow, OutboxStatus, Route
  <1>5. ASSUME NEW row \in OutboxRow
        PROVE  RetriedEntry(row) \in OutboxRow /\ RetriedEntry(row).status = "PENDING"
               /\ RetriedEntry(row).attempts < MaxAttempts
    <2>1. 0 \in 0..MaxAttempts /\ 0 < MaxAttempts
      BY LimitAssumption
    <2>2. RetriedEntry(row) \in OutboxRow
      BY <2>1 DEF RetriedEntry, OutboxRow, OutboxStatus
    <2>3. RetriedEntry(row).status = "PENDING" /\ RetriedEntry(row).attempts = 0
      BY DEF RetriedEntry, OutboxRow
    <2> QED BY <2>1, <2>2, <2>3
  <1>6. outbox' = CommittedOutbox(r)
    BY DEF Commit
  <1>7. outbox' \in [Requests -> OutboxRow] /\ RetryBudget'
    <2>1. CASE req[r].op = "approve"
      <3>1. outbox' = [outbox EXCEPT ![r] = ApprovedEntry(r)]
        BY <2>1, <1>6 DEF CommittedOutbox
      <3> QED BY <3>1, <1>4 DEF RetryBudget
    <2>2. CASE req[r].op = "retry"
      <3>1. outbox' = [outbox EXCEPT ![req[r].entry] = RetriedEntry(outbox[req[r].entry])]
        BY <2>2, <1>6 DEF CommittedOutbox
      <3> QED BY <3>1, <1>5 DEF RetryBudget
    <2>3. CASE req[r].op \notin {"approve", "retry"}
      <3>1. outbox' = outbox
        BY <2>3, <1>6 DEF CommittedOutbox
      <3> QED BY <3>1 DEF RetryBudget
    <2> QED BY <2>1, <2>2, <2>3
  <1>8. Blank("done") \in RequestRecord
    BY BlankTyped DEF RequestPc
  <1>9. TypeOK'
    BY <1>2, <1>3, <1>7, <1>8 DEF Commit, EndRequest, ReleaseSession, ReleaseOutbox
  <1>10. BatchInv'
    BY DEF BatchInv, Commit
  <1>11. ASSUME NEW q \in Requests PROVE ChoiceMade(req[q])'
    BY DEF Commit, EndRequest, ChoiceMade, Blank
  <1> QED BY <1>7, <1>9, <1>10, <1>11

\* Every step of a request in progress keeps layer 1.
LEMMA ProceedTyped ==
    ASSUME TypeInv, GapFree, NEW r \in Requests, Proceed(r) PROVE TypeInv'
  <1>1. /\ req[r] \in RequestRecord
        /\ req[r].mem \in SessionRow
        /\ outboxLock \in [Requests -> Requests \cup Workers \cup {NoOne}]
        /\ sessionLock \in Requests \cup Workers \cup {NoOne}
    BY DEF TypeInv, TypeOK, RequestRecord
  <1>2. CASE FlushSession(r)
    <2> DEFINE record == [req[r] EXCEPT
                  !.pc = IF req[r].pc = "reopen" THEN "planning" ELSE "commit"]
    <2>1. record \in RequestRecord /\ ChoiceMade(record)
      BY <1>1 DEF RequestRecord, RequestPc, ChoiceMade
    <2>2. req' = [req EXCEPT ![r] = record]
      BY <1>2 DEF FlushSession
    <2> QED BY <1>1, <1>2, <2>1, <2>2, RequestStepTyped DEF FlushSession
  <1>3. ASSUME NEW route \in Recommended, PlannerProposes(r, route) PROVE TypeInv'
    <2>1. LatestVersion \in Nat
      BY LatestIsLast DEF GapFree
    <2>2. [state |-> "AWAITING_APPROVAL", version |-> req[r].mem.version + 1,
           route |-> route] \in SessionRow
      BY <1>1, LimitAssumption DEF SessionRow, SessionState
    <2> QED BY <1>3, <2>1, <2>2, ConcludeTyped DEF PlannerProposes
  <1>4. CASE PlannerAsks(r) \/ PlannerFails(r)
    <2>1. ASSUME NEW s \in SessionState
          PROVE  [req[r].mem EXCEPT !.state = s] \in SessionRow
      BY <1>1 DEF SessionRow
    <2> QED BY <1>4, <2>1, ConcludeTyped DEF PlannerAsks, PlannerFails, SessionState
  <1>5. CASE PlannerSaysNothing(r)
    <2> DEFINE record == [req[r] EXCEPT !.pc = "commit"]
    <2>1. record \in RequestRecord /\ ChoiceMade(record)
      BY <1>1 DEF RequestRecord, RequestPc, ChoiceMade
    <2>2. req' = [req EXCEPT ![r] = record]
      BY <1>5 DEF PlannerSaysNothing
    <2> QED BY <1>1, <1>5, <2>1, <2>2, RequestStepTyped DEF PlannerSaysNothing
  <1>6. CASE SelectProposal(r)
    <2>1. PICK p \in ProposalsOf(req[r].arg) :
              req' = [req EXCEPT ![r] = [@ EXCEPT
                         !.pc = "update", !.mem.state = Decision[req[r].op],
                         !.cols = {"state"}, !.plan = p.route]]
      BY <1>6 DEF SelectProposal
    <2> DEFINE mem == [req[r].mem EXCEPT !.state = Decision[req[r].op]]
               record == [req[r] EXCEPT
                             !.pc = "update", !.mem = mem,
                             !.cols = {"state"}, !.plan = p.route]
    <2>2. req[r].op \in DOMAIN Decision
      BY <1>6 DEF TypeInv, ChoiceMade, SelectProposal
    <2>3. mem \in SessionRow
      BY <1>1, <2>2 DEF SessionRow, Decision, SessionState
    <2>4. p.route \in Route \cup {None}
      BY DEF TypeInv, TypeOK, Proposal, ProposalsOf
    <2>5. record \in RequestRecord /\ ChoiceMade(record)
      BY <1>1, <2>3, <2>4 DEF RequestRecord, RequestPc, Column, ChoiceMade
    <2>6. req' = [req EXCEPT ![r] = record]
      BY <1>1, <2>1 DEF RequestRecord
    <2> QED BY <1>1, <1>6, <2>5, <2>6, RequestStepTyped DEF SelectProposal
  <1>7. CASE FlushRetry(r)
    <2> DEFINE record == [req[r] EXCEPT !.pc = "commit"]
    <2>1. record \in RequestRecord /\ ChoiceMade(record)
      BY <1>1 DEF RequestRecord, RequestPc, ChoiceMade
    <2>2. req' = [req EXCEPT ![r] = record]
      BY <1>7 DEF FlushRetry
    <2> QED BY <1>1, <1>7, <2>1, <2>2, RequestStepTyped DEF FlushRetry
  <1>8. CASE Rollback(r)
    <2>1. Blank("done") \in RequestRecord /\ ChoiceMade(Blank("done"))
      BY BlankTyped DEF RequestPc, ChoiceMade, Blank
    <2> QED BY <1>1, <1>8, <2>1, RequestStepTyped
            DEF Rollback, EndRequest, ReleaseSession, ReleaseOutbox
  <1> QED BY <1>2, <1>3, <1>4, <1>5, <1>6, <1>7, <1>8, CommitTyped DEF Proceed

\* A worker step that replaces its record by a well-typed one, without another
\* budget for what it has in its batch, and touches no row, keeps layer 1.
LEMMA WorkerStepTyped ==
    ASSUME TypeInv, NEW w \in Workers, NEW record \in WorkerRecord,
           record.pc \in Busy => record.entry \in record.todo,
           \A o \in record.todo : record.seen[o] < MaxAttempts,
           worker' = [worker EXCEPT ![w] = record],
           jobs' \in [Requests -> Nat],
           sessionLock' \in {sessionLock, w, NoOne},
           outboxLock' \in [Requests -> Requests \cup Workers \cup {NoOne}],
           aborts' \in Nat,
           UNCHANGED <<dbVars, req>>
    PROVE  TypeInv'
  <1>1. TypeOK'
    BY DEF TypeInv, TypeOK, dbVars
  <1>2. BatchInv'
    BY DEF TypeInv, TypeOK, BatchInv
  <1>3. RetryBudget' /\ \A r \in Requests : ChoiceMade(req[r])'
    BY DEF TypeInv, RetryBudget, ChoiceMade, dbVars
  <1> QED BY <1>1, <1>2, <1>3 DEF TypeInv

\* A worker without a batch has a well-typed record.
LEMMA IdleTyped == IdleWorker \in WorkerRecord
  BY LimitAssumption DEF IdleWorker, WorkerRecord, WorkerPc

\* The outbox row a worker writes is well typed and within its budget.
LEMMA DeliveredTyped ==
    ASSUME TypeInv, NEW w \in Workers, worker[w].entry \in worker[w].todo,
           NEW row \in OutboxRow
    PROVE  LET new == DeliveredEntry(w, row) IN
             /\ new \in OutboxRow
             /\ new.status = "PENDING" => new.attempts < MaxAttempts
             /\ new.status = "FAILED" => new.attempts = MaxAttempts
  <1>1. /\ worker[w] \in WorkerRecord
        /\ worker[w].seen[worker[w].entry] \in 0..MaxAttempts
        /\ worker[w].seen[worker[w].entry] < MaxAttempts
    BY DEF TypeInv, TypeOK, BatchInv, WorkerRecord
  <1> DEFINE used == worker[w].seen[worker[w].entry] + 1
  <1>2. used \in 0..MaxAttempts
    BY <1>1, LimitAssumption
  <1>3. CASE worker[w].ok
    BY <1>3 DEF DeliveredEntry, OutboxRow, OutboxStatus
  <1>4. CASE ~worker[w].ok /\ Exhausted(w)
    <2>1. DeliveredEntry(w, row) = [row EXCEPT !.attempts = used, !.status = "FAILED"]
      BY <1>4 DEF DeliveredEntry
    <2>2. used = MaxAttempts
      BY <1>1, <1>2, <1>4, LimitAssumption DEF Exhausted
    <2> HIDE DEF used
    <2> QED BY <2>1, <2>2, <1>2 DEF OutboxRow, OutboxStatus
  <1>5. CASE ~worker[w].ok /\ ~Exhausted(w)
    <2>1. DeliveredEntry(w, row) = [row EXCEPT !.attempts = used, !.status = "PENDING"]
      BY <1>5 DEF DeliveredEntry
    <2>2. used < MaxAttempts
      BY <1>1, <1>2, <1>5, LimitAssumption DEF Exhausted
    <2> HIDE DEF used
    <2> QED BY <2>1, <2>2, <1>2 DEF OutboxRow, OutboxStatus
  <1> QED BY <1>3, <1>4, <1>5

\* The commit of a worker writes well-typed rows, in budget, and the rest of
\* its batch keeps the attempt counts it was read with.
LEMMA CommitEntryTyped ==
    ASSUME TypeInv, NEW w \in Workers, CommitEntry(w) PROVE TypeInv'
  <1> DEFINE o == worker[w].entry
             rest == worker[w].todo \ {o}
             record == IF rest = {} THEN IdleWorker
                       ELSE [IdleWorker EXCEPT
                                !.pc = "batch", !.todo = rest,
                                !.seen = [worker[w].seen EXCEPT ![o] = 0]]
  <1>1. /\ worker[w] \in WorkerRecord
        /\ o \in worker[w].todo
        /\ o \in Requests
    BY DEF TypeInv, TypeOK, BatchInv, WorkerRecord, CommitEntry, Busy
  <1>2. record \in WorkerRecord
    <2>1. [worker[w].seen EXCEPT ![o] = 0] \in [Requests -> 0..MaxAttempts]
      BY <1>1, LimitAssumption DEF WorkerRecord
    <2>2. rest \in SUBSET Requests
      BY <1>1 DEF WorkerRecord
    <2> HIDE DEF rest
    <2> QED BY <2>1, <2>2, IdleTyped DEF WorkerRecord, WorkerPc
  <1>3. record.pc \notin Busy
    BY DEF Busy, IdleWorker
  <1>4. \A q \in record.todo : record.seen[q] < MaxAttempts
    <2>1. CASE rest = {}
      BY <2>1 DEF IdleWorker
    <2>2. CASE rest # {}
      <3>1. \A q \in rest : worker[w].seen[q] < MaxAttempts
        BY DEF TypeInv, BatchInv
      <3>2. \A q \in rest : q \in Requests /\ q # o
        BY <1>1 DEF WorkerRecord
      <3>3. record.todo = rest /\ record.seen = [worker[w].seen EXCEPT ![o] = 0]
        BY <2>2 DEF IdleWorker
      <3> QED BY <3>1, <3>2, <3>3, <1>1 DEF WorkerRecord
    <2> QED BY <2>1, <2>2
  <1>5. worker' = [worker EXCEPT ![w] = record]
    BY DEF CommitEntry
  <1> HIDE DEF record
  <1>6. worker' \in [Workers -> WorkerRecord]
    BY <1>2, <1>5 DEF TypeInv, TypeOK
  <1>7. outbox' \in [Requests -> OutboxRow] /\ RetryBudget'
    <2>1. outbox' = [outbox EXCEPT ![o] = DeliveredEntry(w, outbox[o])]
      BY DEF CommitEntry
    <2>2. outbox[o] \in OutboxRow
      BY <1>1 DEF TypeInv, TypeOK
    <2> QED BY <1>1, <2>1, <2>2, DeliveredTyped DEF TypeInv, TypeOK, RetryBudget
  <1>8. session' \in SessionRow
    BY <1>1 DEF CommitEntry, TypeInv, TypeOK, SessionRow, WorkerRecord
  <1>9. receipts' \in [Requests -> Nat]
    BY <1>1 DEF CommitEntry, TypeInv, TypeOK
  <1>10. TypeOK'
    BY <1>6, <1>7, <1>8, <1>9
       DEF TypeInv, TypeOK, CommitEntry, ReleaseSession, ReleaseOutbox
  <1>11. BatchInv'
    BY <1>3, <1>4, <1>5 DEF TypeInv, TypeOK, BatchInv
  <1>12. \A r \in Requests : ChoiceMade(req[r])'
    BY DEF TypeInv, ChoiceMade, CommitEntry
  <1> QED BY <1>7, <1>10, <1>11, <1>12 DEF TypeInv

\* The outcomes of a delivery: a made call or none, acknowledged or not, and no
\* acknowledgement without a call.
LEMMA DeliveryTyped ==
    ASSUME NEW outcome \in DOMAIN Delivery
    PROVE  /\ Delivery[outcome].ok \in BOOLEAN
           /\ Delivery[outcome].made \in {0, 1}
           /\ Delivery[outcome].ok => Delivery[outcome].made = 1
  <1>1. outcome \in {"accepted", "unanswered", "refused"}
    BY DEF Delivery
  <1>2. CASE outcome = "accepted"
    BY <1>2 DEF Delivery
  <1>3. CASE outcome = "unanswered"
    BY <1>3 DEF Delivery
  <1>4. CASE outcome = "refused"
    BY <1>4 DEF Delivery
  <1> QED BY <1>1, <1>2, <1>3, <1>4

\* Every step of a worker keeps layer 1.
LEMMA ProcessTyped ==
    ASSUME TypeInv, NEW w \in Workers, Process(w) \/ AbortBatch(w) PROVE TypeInv'
  <1>1. /\ worker[w] \in WorkerRecord
        /\ jobs \in [Requests -> Nat]
        /\ sessionLock \in Requests \cup Workers \cup {NoOne}
        /\ outboxLock \in [Requests -> Requests \cup Workers \cup {NoOne}]
        /\ aborts \in Nat
        /\ worker[w].pc \in Busy => worker[w].entry \in worker[w].todo
        /\ \A o \in worker[w].todo : worker[w].seen[o] < MaxAttempts
    BY DEF TypeInv, TypeOK, BatchInv
  <1>2. CASE FetchPending(w)
    <2>1. PICK batch \in SUBSET Pending :
              worker' = [worker EXCEPT ![w] = [@ EXCEPT
                  !.pc = "batch", !.todo = batch,
                  !.seen = [o \in Requests |->
                              IF o \in batch THEN outbox[o].attempts ELSE 0]]]
      BY <1>2 DEF FetchPending
    <2> DEFINE counts == [o \in Requests |->
                            IF o \in batch THEN outbox[o].attempts ELSE 0]
               record == [worker[w] EXCEPT
                             !.pc = "batch", !.todo = batch, !.seen = counts]
    <2>2. \A o \in batch : o \in Requests /\ outbox[o].attempts < MaxAttempts
      BY DEF Pending, TypeInv, RetryBudget
    <2>3. counts \in [Requests -> 0..MaxAttempts]
      BY LimitAssumption DEF TypeInv, TypeOK, OutboxRow
    <2>4. record \in WorkerRecord
      BY <1>1, <2>2, <2>3 DEF WorkerRecord, WorkerPc
    <2>5. record.pc \notin Busy /\ record.todo = batch /\ record.seen = counts
      BY <1>1 DEF WorkerRecord, Busy
    <2>6. \A o \in record.todo : record.seen[o] < MaxAttempts
      BY <2>2, <2>5
    <2>7. worker' = [worker EXCEPT ![w] = record]
      BY <2>1
    <2> HIDE DEF record
    <2> QED BY <1>1, <1>2, <2>4, <2>5, <2>6, <2>7, WorkerStepTyped DEF FetchPending
  <1>3. ASSUME NEW o \in Requests, LockEntry(w, o) PROVE TypeInv'
    <2> DEFINE record == [worker[w] EXCEPT !.pc = "locked", !.entry = o]
    <2>1. /\ record \in WorkerRecord
          /\ record.entry = o
          /\ record.todo = worker[w].todo
          /\ record.seen = worker[w].seen
      BY <1>1 DEF WorkerRecord, WorkerPc
    <2>2. worker' = [worker EXCEPT ![w] = record]
      BY <1>3 DEF LockEntry
    <2>3. o \in worker[w].todo
      BY <1>3 DEF LockEntry
    <2>4. outboxLock' \in [Requests -> Requests \cup Workers \cup {NoOne}]
      BY <1>1, <1>3 DEF LockEntry
    <2> HIDE DEF record
    <2> QED BY <1>1, <1>3, <2>1, <2>2, <2>3, <2>4, WorkerStepTyped DEF LockEntry
  <1>4. ASSUME NEW record \in WorkerRecord,
               worker' = [worker EXCEPT ![w] = record],
               worker[w].pc \in Busy,
               record.entry = worker[w].entry,
               record.todo = worker[w].todo,
               record.seen = worker[w].seen,
               jobs' \in [Requests -> Nat],
               sessionLock' \in {sessionLock, w},
               UNCHANGED <<dbVars, outboxLock, req, aborts>>
        PROVE  TypeInv'
    BY <1>1, <1>4, WorkerStepTyped
  <1>5. ASSUME NEW outcome \in DOMAIN Delivery, DeliverEntry(w, outcome)
        PROVE  TypeInv'
    <2> DEFINE record == [worker[w] EXCEPT
                             !.pc = "answered", !.ok = Delivery[outcome].ok]
    <2>1. Delivery[outcome].ok \in BOOLEAN /\ Delivery[outcome].made \in Nat
      BY DeliveryTyped
    <2>2. /\ record \in WorkerRecord
          /\ record.entry = worker[w].entry
          /\ record.todo = worker[w].todo
          /\ record.seen = worker[w].seen
      BY <1>1, <2>1 DEF WorkerRecord, WorkerPc
    <2>3. worker' = [worker EXCEPT ![w] = record]
      BY <1>5 DEF DeliverEntry
    <2>4. jobs' \in [Requests -> Nat]
      <3> DEFINE o == worker[w].entry
      <3>1. o \in Requests
        BY <1>1, <1>5 DEF DeliverEntry, Busy, WorkerRecord
      <3>2. jobs[o] + Delivery[outcome].made \in Nat
        BY <1>1, <2>1, <3>1
      <3>3. jobs' = [jobs EXCEPT ![o] = jobs[o] + Delivery[outcome].made]
        BY <1>5 DEF DeliverEntry
      <3> HIDE DEF o
      <3> QED BY <1>1, <3>2, <3>3
    <2> HIDE DEF record
    <2> QED BY <1>4, <1>5, <2>2, <2>3, <2>4 DEF DeliverEntry, Busy
  <1>6. CASE ReadSession(w)
    <2> DEFINE record == [worker[w] EXCEPT
                             !.pc = IF TargetState(w) = None THEN "commit" ELSE "write",
                             !.want = TargetState(w)]
    <2>1. TargetState(w) \in SessionState \cup {None}
      BY DEF TargetState, SessionState
    <2>2. /\ record \in WorkerRecord
          /\ record.entry = worker[w].entry
          /\ record.todo = worker[w].todo
          /\ record.seen = worker[w].seen
      BY <1>1, <2>1 DEF WorkerRecord, WorkerPc
    <2>3. worker' = [worker EXCEPT ![w] = record]
      BY <1>6 DEF ReadSession
    <2> HIDE DEF record
    <2> QED BY <1>1, <1>4, <1>6, <2>2, <2>3 DEF ReadSession, Busy, dbVars
  <1>7. CASE WriteSession(w)
    <2> DEFINE record == [worker[w] EXCEPT !.pc = "commit"]
    <2>1. /\ record \in WorkerRecord
          /\ record.entry = worker[w].entry
          /\ record.todo = worker[w].todo
          /\ record.seen = worker[w].seen
      BY <1>1 DEF WorkerRecord, WorkerPc
    <2>2. worker' = [worker EXCEPT ![w] = record]
      BY <1>7 DEF WriteSession
    <2> HIDE DEF record
    <2> QED BY <1>1, <1>4, <1>7, <2>1, <2>2 DEF WriteSession, Busy
  <1>8. CASE AbortBatch(w)
    <2>1. IdleWorker.pc \notin Busy /\ IdleWorker.todo = {}
      BY DEF IdleWorker, Busy
    <2>2. sessionLock' \in {sessionLock, w, NoOne}
      BY <1>8 DEF AbortBatch, ReleaseSession
    <2>3. outboxLock' \in [Requests -> Requests \cup Workers \cup {NoOne}]
      BY <1>1, <1>8 DEF AbortBatch, ReleaseOutbox
    <2>4. /\ aborts' \in Nat
          /\ jobs' \in [Requests -> Nat]
          /\ worker' = [worker EXCEPT ![w] = IdleWorker]
          /\ UNCHANGED <<dbVars, req>>
      BY <1>1, <1>8 DEF AbortBatch
    <2> QED BY <2>1, <2>2, <2>3, <2>4, IdleTyped, WorkerStepTyped
  <1> QED BY <1>2, <1>3, <1>5, <1>6, <1>7, <1>8, CommitEntryTyped DEF Process

-----------------------------------------------------------------------------
\* Layer 2: plan versions.

\* While the proposals stay as they are, a request step keeps layer 2 if the
\* record it leaves does.
LEMMA RequestKeepsVersions ==
    ASSUME TypeInv, VersionInv, NEW r \in Requests, NEW record,
           PlansNextVersion(record),
           req' = [req EXCEPT ![r] = record],
           UNCHANGED <<session, proposals>>
    PROVE  VersionInv'
  <1>1. Versions' = Versions
    BY DEF Versions
  <1>2. GapFree' /\ VersionCovered'
    BY <1>1 DEF VersionInv, GapFree, VersionCovered
  <1>3. ASSUME NEW q \in Requests PROVE PlansNextVersion(req[q])'
    <2>1. PlansNextVersion(req'[q])
      BY DEF VersionInv, TypeInv, TypeOK
    <2> QED BY <1>1, <2>1 DEF PlansNextVersion, Covered
  <1> QED BY <1>2, <1>3 DEF VersionInv

\* A request that begins keeps layer 2: it plans for no version yet.
LEMMA CallKeepsVersions ==
    ASSUME TypeInv, VersionInv, NEW r \in Requests, Call(r) PROVE VersionInv'
  <1> USE DEF Begin, dbUnchanged, dbVars
  <1>1. session \in SessionRow /\ Covered(session.version)
    BY DEF TypeInv, TypeOK, VersionInv, VersionCovered, Covered
  <1>2. CASE CreateSession(r)
    <2> DEFINE mem == [NoSession EXCEPT !.state = "DISCOVERING"]
               record == [Blank("planning") EXCEPT
                             !.op = "plan", !.mem = mem, !.cols = Column]
    <2>1. mem.version = 0
      BY DEF NoSession
    <2>2. PlansNextVersion(record)
      <3>1. /\ record.op = "plan"
            /\ record.arg = 0
            /\ record.mem = mem
        BY DEF Blank
      <3>2. Covered(mem.version)
        BY <2>1 DEF Covered
      <3> HIDE DEF mem, record
      <3> QED BY <3>1, <3>2 DEF PlansNextVersion
    <2>3. req' = [req EXCEPT ![r] = record]
      BY <1>2 DEF CreateSession
    <2> HIDE DEF record
    <2> QED BY <1>2, <2>2, <2>3, RequestKeepsVersions DEF CreateSession
  <1>3. ASSUME NEW allowed, BeginPlanning(r, allowed) PROVE VersionInv'
    <2> DEFINE record == [Blank("reopen") EXCEPT
                             !.op = "plan", !.mem = Reopened,
                             !.cols = Changed(session, Reopened)]
    <2>1. Reopened.version = session.version
      BY <1>1 DEF Reopened, SessionRow
    <2>2. PlansNextVersion(record)
      BY <1>1, <2>1 DEF PlansNextVersion, Blank, Covered
    <2>3. req' = [req EXCEPT ![r] = record]
      BY <1>3 DEF BeginPlanning
    <2> HIDE DEF record
    <2> QED BY <1>3, <2>2, <2>3, RequestKeepsVersions DEF BeginPlanning
  <1>4. ASSUME NEW action \in DOMAIN Decision, SubmitApproval(r, action)
        PROVE  VersionInv'
    <2> DEFINE record == [Blank("select") EXCEPT
                             !.op = action, !.mem = session, !.arg = session.version]
    <2>1. PlansNextVersion(record)
      BY DEF PlansNextVersion, Blank, Decision
    <2>2. req' = [req EXCEPT ![r] = record]
      BY <1>4 DEF SubmitApproval
    <2> HIDE DEF record
    <2> QED BY <1>4, <2>1, <2>2, RequestKeepsVersions DEF SubmitApproval
  <1>5. CASE CancelSession(r)
    <2> DEFINE cancelled == [session EXCEPT !.state = "CANCELLED"]
               record == [Blank("update") EXCEPT
                             !.op = "cancel", !.mem = cancelled,
                             !.cols = Changed(session, cancelled)]
    <2>1. "version" \notin Changed(session, cancelled)
      BY <1>1 DEF Changed, SessionRow
    <2>2. PlansNextVersion(record)
      BY <2>1 DEF PlansNextVersion, Blank
    <2>3. req' = [req EXCEPT ![r] = record]
      BY <1>5 DEF CancelSession
    <2> HIDE DEF record
    <2> QED BY <1>5, <2>2, <2>3, RequestKeepsVersions DEF CancelSession
  <1>6. ASSUME NEW o \in Requests, RetryHandoff(r, o) PROVE VersionInv'
    <2> DEFINE record == [Blank("retry") EXCEPT !.op = "retry", !.entry = o]
    <2>1. PlansNextVersion(record)
      BY DEF PlansNextVersion, Blank
    <2>2. req' = [req EXCEPT ![r] = record]
      BY <1>6 DEF RetryHandoff
    <2> HIDE DEF record
    <2> QED BY <1>6, <2>1, <2>2, RequestKeepsVersions DEF RetryHandoff
  <1> QED BY <1>2, <1>3, <1>4, <1>5, <1>6 DEF Call, AddTurn, SubmitAnswers

\* A commit adds at most the version that closes the sequence, and the session
\* moves to a version that is stored with it.
LEMMA CommitKeepsVersions ==
    ASSUME TypeInv, VersionInv, NEW r \in Requests, Commit(r) PROVE VersionInv'
  <1> DEFINE planned == req[r].op = "plan" /\ req[r].arg > 0
  <1>1. /\ req[r] \in RequestRecord
        /\ req[r].mem \in SessionRow
        /\ req[r].arg \in Nat
        /\ req[r].mem.version \in Nat
        /\ session \in SessionRow
        /\ PlansNextVersion(req[r])
        /\ Covered(session.version)
    BY DEF TypeInv, TypeOK, VersionInv, VersionCovered, Covered, RequestRecord, SessionRow
  <1>2. PICK n \in Nat : Versions = 1..n
    BY DEF VersionInv, GapFree
  <1>3. Versions' = IF planned THEN Versions \cup {req[r].arg} ELSE Versions
    <2>1. CASE planned
      <3> DEFINE new == [version |-> req[r].arg, route |-> req[r].mem.route, by |-> r]
      <3>1. proposals' = proposals \cup {new} /\ new.version = req[r].arg
        BY <2>1 DEF Commit, CommittedProposals
      <3> HIDE DEF new
      <3> QED BY <2>1, <3>1 DEF Versions
    <2>2. CASE ~planned
      BY <2>2 DEF Commit, CommittedProposals, Versions
    <2> QED BY <2>1, <2>2
  <1>4. GapFree'
    <2>1. CASE planned
      <3>1. req[r].arg <= n + 1
        <4>1. req[r].arg - 1 = 0 \/ req[r].arg - 1 \in 1..n
          BY <1>1, <1>2, <2>1 DEF PlansNextVersion, Covered
        <4> QED BY <1>1, <4>1
      <3>2. req[r].arg \in 1..n \/ req[r].arg = n + 1
        BY <1>1, <2>1, <3>1
      <3>3. Versions' = 1..n \/ Versions' = 1..(n + 1)
        <4>1. Versions' = 1..n \cup {req[r].arg}
          BY <1>2, <1>3, <2>1
        <4>2. 1..(n + 1) = 1..n \cup {n + 1}
          OBVIOUS
        <4>3. req[r].arg \in 1..n => 1..n \cup {req[r].arg} = 1..n
          OBVIOUS
        <4> QED BY <3>2, <4>1, <4>2, <4>3
      <3> QED BY <3>3 DEF GapFree
    <2> QED BY <1>2, <1>3, <2>1 DEF GapFree
  <1>5. ASSUME NEW v, Covered(v) PROVE Covered(v)'
    BY <1>3, <1>5 DEF Covered
  <1>6. VersionCovered'
    <2>1. session'.version = IF "version" \in req[r].cols
                             THEN req[r].mem.version ELSE session.version
      BY DEF Commit, Merge
    <2>2. CASE "version" \notin req[r].cols
      BY <1>1, <1>3, <2>1, <2>2 DEF VersionCovered, Covered
    <2>3. CASE "version" \in req[r].cols /\ req[r].arg = 0
      BY <1>1, <1>3, <2>1, <2>3 DEF VersionCovered, Covered, PlansNextVersion
    <2>4. CASE "version" \in req[r].cols /\ req[r].arg > 0
      <3>1. planned
        BY <1>1, <2>4 DEF PlansNextVersion
      <3>2. \A u \in 1..req[r].arg : u \in Versions'
        BY <1>1, <1>3, <3>1 DEF PlansNextVersion, Covered
      <3>3. req[r].mem.version <= req[r].arg
        BY <1>1, <3>1 DEF PlansNextVersion
      <3> QED BY <1>1, <2>1, <2>4, <3>2, <3>3 DEF VersionCovered
    <2> QED BY <1>1, <2>2, <2>3, <2>4
  <1>7. ASSUME NEW q \in Requests PROVE PlansNextVersion(req[q])'
    <2>1. PlansNextVersion(req'[q])
      <3>1. req'[q] = IF q = r THEN Blank("done") ELSE req[q]
        BY DEF Commit, EndRequest, TypeInv, TypeOK
      <3>2. PlansNextVersion(Blank("done"))
        BY DEF PlansNextVersion, Blank, None
      <3> QED BY <3>1, <3>2 DEF VersionInv
    <2> QED BY <1>3, <2>1 DEF PlansNextVersion, Covered
  <1> QED BY <1>4, <1>6, <1>7 DEF VersionInv

\* Every step of a request in progress keeps layer 2.
LEMMA ProceedKeepsVersions ==
    ASSUME TypeInv, VersionInv, NEW r \in Requests, Proceed(r) PROVE VersionInv'
  <1> USE DEF dbUnchanged, dbVars
  <1>1. /\ req[r] \in RequestRecord
        /\ req[r].mem \in SessionRow
        /\ req[r].mem.version \in Nat
        /\ PlansNextVersion(req[r])
    BY DEF TypeInv, TypeOK, VersionInv, RequestRecord, SessionRow
  <1>2. CASE FlushSession(r)
    <2> DEFINE record == [req[r] EXCEPT
                  !.pc = IF req[r].pc = "reopen" THEN "planning" ELSE "commit"]
    <2>1. PlansNextVersion(record)
      BY <1>1, <1>2 DEF FlushSession, PlansNextVersion, RequestRecord
    <2>2. req' = [req EXCEPT ![r] = record]
      BY <1>2 DEF FlushSession
    <2> HIDE DEF record
    <2> QED BY <1>2, <2>1, <2>2, RequestKeepsVersions DEF FlushSession
  <1>3. ASSUME NEW mem \in SessionRow, NEW version \in Nat, Conclude(r, mem, version),
               version = 0 => mem.version = req[r].mem.version,
               version > 0 => Covered(version - 1) /\ mem.version <= version
        PROVE  VersionInv'
    <2> DEFINE record == [req[r] EXCEPT
                  !.pc = "update",
                  !.mem = mem,
                  !.cols = req[r].cols \cup Changed(req[r].mem, mem),
                  !.arg = version]
    <2>1. req[r].op = "plan" /\ req[r].arg = 0
      BY <1>1, <1>3 DEF Conclude, PlansNextVersion
    <2>2. record.pc = "update" /\ record.op = "plan" /\ record.arg = version
          /\ record.mem = mem
      BY <1>1, <2>1 DEF RequestRecord
    <2>3. Covered(req[r].mem.version)
      BY <1>1, <2>1 DEF PlansNextVersion
    <2>4. PlansNextVersion(record)
      BY <1>3, <2>2, <2>3 DEF PlansNextVersion
    <2>5. req' = [req EXCEPT ![r] = record]
      BY <1>3 DEF Conclude
    <2> HIDE DEF record
    <2> QED BY <1>3, <2>4, <2>5, RequestKeepsVersions DEF Conclude
  <1>4. ASSUME NEW route \in Recommended, PlannerProposes(r, route) PROVE VersionInv'
    <2>1. PICK n \in Nat : Versions = 1..n
      BY DEF VersionInv, GapFree
    <2>2. LatestVersion = n
      BY <2>1, LatestIsLast
    <2> DEFINE mem == [state |-> "AWAITING_APPROVAL",
                       version |-> req[r].mem.version + 1, route |-> route]
    <2>3. mem \in SessionRow
      BY <1>1, LimitAssumption DEF SessionRow, SessionState
    <2>4. Covered(req[r].mem.version)
      BY <1>1, <1>4 DEF PlannerProposes, Conclude, PlansNextVersion
    <2>5. req[r].mem.version <= n
      BY <1>1, <2>1, <2>4 DEF Covered
    <2>6. Covered((n + 1) - 1)
      BY <2>1 DEF Covered
    <2>7. mem.version <= n + 1
      BY <1>1, <2>5
    <2>8. Conclude(r, mem, n + 1)
      BY <1>4, <2>2 DEF PlannerProposes
    <2> QED BY <1>3, <2>3, <2>6, <2>7, <2>8
  <1>5. ASSUME NEW s \in SessionState, Conclude(r, [req[r].mem EXCEPT !.state = s], 0)
        PROVE  VersionInv'
    <2>1. /\ [req[r].mem EXCEPT !.state = s] \in SessionRow
          /\ [req[r].mem EXCEPT !.state = s].version = req[r].mem.version
      BY <1>1 DEF SessionRow
    <2> DEFINE mem == [req[r].mem EXCEPT !.state = s]
    <2>2. mem \in SessionRow /\ mem.version = req[r].mem.version /\ Conclude(r, mem, 0)
      BY <1>5, <2>1
    <2> HIDE DEF mem
    <2> QED BY <1>3, <2>2
  <1>6. CASE PlannerAsks(r) \/ PlannerFails(r)
    BY <1>5, <1>6 DEF PlannerAsks, PlannerFails, SessionState
  <1>7. CASE PlannerSaysNothing(r)
    <2> DEFINE record == [req[r] EXCEPT !.pc = "commit"]
    <2>1. PlansNextVersion(record)
      BY <1>1 DEF PlansNextVersion, RequestRecord
    <2>2. req' = [req EXCEPT ![r] = record]
      BY <1>7 DEF PlannerSaysNothing
    <2> HIDE DEF record
    <2> QED BY <1>7, <2>1, <2>2, RequestKeepsVersions DEF PlannerSaysNothing
  <1>8. CASE SelectProposal(r)
    <2>1. PICK p \in ProposalsOf(req[r].arg) :
              req' = [req EXCEPT ![r] = [@ EXCEPT
                         !.pc = "update", !.mem.state = Decision[req[r].op],
                         !.cols = {"state"}, !.plan = p.route]]
      BY <1>8 DEF SelectProposal
    <2> DEFINE mem == [req[r].mem EXCEPT !.state = Decision[req[r].op]]
               record == [req[r] EXCEPT
                             !.pc = "update", !.mem = mem,
                             !.cols = {"state"}, !.plan = p.route]
    <2>2. req[r].op # "plan"
      BY <1>8 DEF TypeInv, ChoiceMade, SelectProposal, Decision
    <2>3. record.pc = "update" /\ record.op = req[r].op /\ record.cols = {"state"}
      BY <1>1 DEF RequestRecord
    <2>4. PlansNextVersion(record)
      BY <2>2, <2>3 DEF PlansNextVersion
    <2>5. req' = [req EXCEPT ![r] = record]
      BY <1>1, <2>1 DEF RequestRecord
    <2> HIDE DEF record
    <2> QED BY <1>8, <2>4, <2>5, RequestKeepsVersions DEF SelectProposal
  <1>9. CASE FlushRetry(r)
    <2> DEFINE record == [req[r] EXCEPT !.pc = "commit"]
    <2>1. PlansNextVersion(record)
      BY <1>1 DEF PlansNextVersion, RequestRecord
    <2>2. req' = [req EXCEPT ![r] = record]
      BY <1>9 DEF FlushRetry
    <2> HIDE DEF record
    <2> QED BY <1>9, <2>1, <2>2, RequestKeepsVersions DEF FlushRetry
  <1>10. CASE Rollback(r)
    <2>1. PlansNextVersion(Blank("done"))
      BY DEF PlansNextVersion, Blank, None
    <2> QED BY <1>10, <2>1, RequestKeepsVersions DEF Rollback, EndRequest
  <1> QED BY <1>2, <1>4, <1>6, <1>7, <1>8, <1>9, <1>10, CommitKeepsVersions DEF Proceed

\* The workers write no version and no proposal.
LEMMA ProcessKeepsVersions ==
    ASSUME TypeInv, VersionInv, NEW w \in Workers, Process(w) \/ AbortBatch(w)
    PROVE  VersionInv'
  <1>1. UNCHANGED <<proposals, req>>
    BY DEF Process, AbortBatch, FetchPending, LockEntry, DeliverEntry, ReadSession,
           WriteSession, CommitEntry, dbVars
  <1>2. session'.version = session.version
    <2>1. CASE CommitEntry(w)
      BY <2>1 DEF CommitEntry, TypeInv, TypeOK, SessionRow
    <2> QED BY <2>1 DEF Process, AbortBatch, FetchPending, LockEntry, DeliverEntry,
                    ReadSession, WriteSession, dbVars
  <1> QED BY <1>1, <1>2
          DEF VersionInv, GapFree, VersionCovered, PlansNextVersion, Covered, Versions

-----------------------------------------------------------------------------
\* The inductive invariant of layers 1 and 2, and what follows from it.
StoreInv == TypeInv /\ VersionInv

\* Both layers hold of the empty store.
LEMMA InitStoreInv == Init => StoreInv
  <1> SUFFICES ASSUME Init PROVE VersionInv
    BY InitTypeInv DEF StoreInv
  <1>1. GapFree
    BY DEF Init, GapFree, Versions
  <1>2. VersionCovered
    BY DEF Init, VersionCovered, NoSession
  <1>3. \A r \in Requests : PlansNextVersion(req[r])
    BY DEF Init, PlansNextVersion, Blank, None
  <1> QED BY <1>1, <1>2, <1>3 DEF VersionInv

\* Both layers survive every step of requests and workers.
LEMMA NextStoreInv == StoreInv /\ [Next]_vars => StoreInv'
  <1> SUFFICES ASSUME StoreInv, [Next]_vars PROVE StoreInv'
    OBVIOUS
  <1> USE DEF StoreInv
  <1>1. ASSUME NEW r \in Requests, Call(r) PROVE StoreInv'
    BY <1>1, CallTyped, CallKeepsVersions
  <1>2. ASSUME NEW r \in Requests, Proceed(r) PROVE StoreInv'
    BY <1>2, ProceedTyped, ProceedKeepsVersions DEF VersionInv
  <1>3. ASSUME NEW w \in Workers, Process(w) \/ AbortBatch(w) PROVE StoreInv'
    BY <1>3, ProcessTyped, ProcessKeepsVersions
  <1>4. CASE UNCHANGED vars
    BY <1>4 DEF vars, TypeInv, TypeOK, BatchInv, ChoiceMade, RetryBudget, VersionInv,
                GapFree, VersionCovered, PlansNextVersion, Covered, Versions
  <1> QED BY <1>1, <1>2, <1>3, <1>4 DEF Next

\* The store invariant: types, batches, budgets and versions hold in every
\* reachable state, for any numbers of requests, workers and attempts.
THEOREM StoreInvariant == Spec => []StoreInv
  BY InitStoreInv, NextStoreInv, PTL DEF Spec

\* Every variable keeps its type.
THEOREM TypeCorrect == Spec => []TypeOK
  <1>1. StoreInv => TypeOK
    BY DEF StoreInv, TypeInv
  <1> QED BY <1>1, StoreInvariant, PTL

\* An entry is queued only with attempts left and given up only when they are
\* used, for any number of workers and concurrent retries.
THEOREM RetryBudgetKept == Spec => []RetryBudget
  <1>1. StoreInv => RetryBudget
    BY DEF StoreInv, TypeInv
  <1> QED BY <1>1, StoreInvariant, PTL

\* However planning cycles race, each version a session has reached has a
\* committed proposal: an approval of the session's version finds one.
THEOREM VersionsAreCovered == Spec => []VersionCovered
  <1>1. StoreInv => VersionCovered
    BY DEF StoreInv, VersionInv
  <1> QED BY <1>1, StoreInvariant, PTL
=============================================================================
