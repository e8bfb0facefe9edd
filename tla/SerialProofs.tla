---------------------------- MODULE SerialProofs ----------------------------
(***************************************************************************)
(* Proofs about the planning backend when the client sends one request at  *)
(* a time (MaxOpen = 1), for any number of workers, which still interleave *)
(* with the requests and with each other and lose transactions.            *)
(*                                                                         *)
(* A request that is alone works on the version and the route that the row *)
(* has: the workers write only its state.  So the version it takes from    *)
(* the table and the one it takes from memory are the same (SerialInv),    *)
(* and it approves once, so the session waits for and speaks of one entry  *)
(* (EntryInv).  With one worker that entry is also completed only once     *)
(* (OnceInv).                                                              *)
(***************************************************************************)
EXTENDS HandoffProofs, FiniteSetTheorems

\* At most one request is open.
Alone == \A q, r \in Requests : AtWork(req[q]) /\ AtWork(req[r]) => q = r

\* A row that does not exist is empty.
Unborn == session.state = None => session = NoSession

\* What an open request holds of version and route is what the row has, until
\* it proposes the next version.
Fresh(record) ==
    /\ record.op = "retry" => record.cols = {}
    /\ AtWork(record) /\ record.op # "retry" =>
          IF record.op = "plan" /\ record.arg > 0
          THEN /\ record.mem.version = record.arg /\ record.arg = session.version + 1
               /\ "version" \in record.cols
               /\ "route" \notin record.cols => record.mem.route = session.route
          ELSE record.mem.version = session.version /\ record.mem.route = session.route

\* An approval has a route, and the plan it has selected recommends that route.
Approves(record) ==
    record.op = "approve" =>
        /\ record.mem.route # None
        /\ IF record.pc = "select" THEN record.arg = record.mem.version
                                   ELSE record.plan = record.mem.route

\* The row has the route of the plan it shows.
RouteOfCurrent == \A p \in proposals : p.version = session.version => p.route = session.route

SerialInv ==
    /\ Alone
    /\ Unborn
    /\ \A r \in Requests : Fresh(req[r]) /\ Approves(req[r])
    /\ CurrentIsLatest
    /\ RouteOfCurrent
    /\ RouteIsRecommended

\* Nothing is planned initially.
LEMMA InitSerial == Init => SerialInv
  <1> SUFFICES ASSUME Init PROVE SerialInv
    OBVIOUS
  <1>1. \A r \in Requests : req[r] = Blank("idle")
    BY DEF Init
  <1>2. ~AtWork(Blank("idle")) /\ Fresh(Blank("idle")) /\ Approves(Blank("idle"))
    BY DEF Blank, AtWork, Fresh, Approves, None
  <1>3. Alone /\ Unborn
    BY <1>1, <1>2 DEF Alone, Unborn, Init
  <1>4. CurrentIsLatest
    BY DEF Init, CurrentIsLatest, NoSession, LatestVersion
  <1>5. RouteOfCurrent /\ RouteIsRecommended
    BY DEF Init, RouteOfCurrent, RouteIsRecommended, NoEntry
  <1> QED BY <1>1, <1>2, <1>3, <1>4, <1>5 DEF SerialInv

-----------------------------------------------------------------------------
\* Requests.

\* With MaxOpen = 1 a request begins only when no other is open.
LEMMA BeginsAlone ==
    ASSUME MaxOpen = 1, SerialInv, NEW r \in Requests, NEW record, Begin(r, record)
    PROVE  \A q \in Requests : ~AtWork(req[q])
  <1> SUFFICES ASSUME NEW q \in Requests, AtWork(req[q]) PROVE FALSE
    OBVIOUS
  <1>1. InFlight = {q}
    BY DEF SerialInv, Alone, InFlight, AtWork
  <1>2. Cardinality(InFlight) = 1
    BY <1>1, FS_Singleton
  <1> QED BY <1>2 DEF Begin

\* A step of request r that writes no row keeps the invariant if the record it
\* leaves is fresh, and r was open before or nobody was.
LEMMA RequestKeepsSerial ==
    ASSUME StoreInv, SerialInv, NEW r \in Requests, NEW record,
           Fresh(record), Approves(record),
           AtWork(req[r]) \/ \A q \in Requests : ~AtWork(req[q]),
           req' = [req EXCEPT ![r] = record],
           UNCHANGED <<session, proposals, outbox>>
    PROVE  SerialInv'
  <1>1. \A q \in Requests : req'[q] = IF q = r THEN record ELSE req[q]
    BY DEF StoreInv, TypeInv, TypeOK
  <1>2. Alone'
    <2>1. \A q \in Requests : q # r => ~AtWork(req'[q])
      BY <1>1 DEF SerialInv, Alone
    <2> QED BY <2>1 DEF Alone, AtWork
  <1>3. ASSUME NEW q \in Requests PROVE Fresh(req[q])' /\ Approves(req[q])'
    <2>1. Fresh(req'[q]) /\ Approves(req'[q])
      BY <1>1 DEF SerialInv
    <2> QED BY <2>1 DEF Fresh, Approves, AtWork
  <1>4. Unborn' /\ CurrentIsLatest' /\ RouteOfCurrent' /\ RouteIsRecommended'
    BY DEF SerialInv, Unborn, CurrentIsLatest, RouteOfCurrent, RouteIsRecommended,
           LatestVersion, Versions
  <1> QED BY <1>2, <1>3, <1>4 DEF SerialInv

\* A request that begins has read the row as it is.
LEMMA CallKeepsSerial ==
    ASSUME MaxOpen = 1, StoreInv, ApprovalInv, SerialInv, NEW r \in Requests, Call(r)
    PROVE  SerialInv'
  <1>1. session \in SessionRow
    BY DEF StoreInv, TypeInv, TypeOK
  <1>2. ASSUME NEW record, Begin(r, record), Fresh(record), Approves(record)
        PROVE  SerialInv'
    <2>1. /\ req' = [req EXCEPT ![r] = record]
          /\ UNCHANGED <<session, proposals, outbox>>
      BY <1>2 DEF Begin, dbUnchanged, dbVars
    <2> QED BY <1>2, <2>1, BeginsAlone, RequestKeepsSerial
  <1>3. CASE CreateSession(r)
    <2> DEFINE mem == [NoSession EXCEPT !.state = "DISCOVERING"]
               record == [Blank("planning") EXCEPT
                             !.op = "plan", !.mem = mem, !.cols = Column]
    <2>1. /\ record.op = "plan" /\ record.arg = 0
          /\ record.mem.version = 0 /\ record.mem.route = None
      BY DEF Blank, NoSession
    <2>2. Begin(r, record) /\ session = NoSession
      BY <1>3 DEF CreateSession, SerialInv, Unborn
    <2> HIDE DEF record
    <2>3. Fresh(record) /\ Approves(record)
      BY <2>1, <2>2 DEF Fresh, Approves, NoSession
    <2> QED BY <1>2, <2>2, <2>3
  <1>4. ASSUME NEW allowed, BeginPlanning(r, allowed) PROVE SerialInv'
    <2> DEFINE record == [Blank("reopen") EXCEPT
                             !.op = "plan", !.mem = Reopened,
                             !.cols = Changed(session, Reopened)]
    <2>1. record.op = "plan" /\ record.arg = 0 /\ record.mem = Reopened
      BY DEF Blank
    <2>2. Begin(r, record)
      BY <1>4 DEF BeginPlanning
    <2> HIDE DEF record
    <2>3. Reopened.version = session.version /\ Reopened.route = session.route
      BY <1>1 DEF Reopened, SessionRow
    <2>4. Fresh(record) /\ Approves(record)
      BY <2>1, <2>3 DEF Fresh, Approves
    <2> QED BY <1>2, <2>2, <2>4
  <1>5. ASSUME NEW action \in DOMAIN Decision, SubmitApproval(r, action)
        PROVE  SerialInv'
    <2> DEFINE record == [Blank("select") EXCEPT
                             !.op = action, !.mem = session, !.arg = session.version]
    <2>1. /\ record.op = action /\ record.pc = "select"
          /\ record.mem = session /\ record.arg = session.version
      BY DEF Blank
    <2>2. Begin(r, record) /\ session.route # None
      BY <1>5 DEF SubmitApproval, ApprovalInv, ApprovableIsComplete
    <2> HIDE DEF record
    <2>3. action \notin {"plan", "retry"}
      BY DEF Decision
    <2>4. Fresh(record) /\ Approves(record)
      BY <2>1, <2>2, <2>3 DEF Fresh, Approves
    <2> QED BY <1>2, <2>2, <2>4
  <1>6. CASE CancelSession(r)
    <2> DEFINE cancelled == [session EXCEPT !.state = "CANCELLED"]
               record == [Blank("update") EXCEPT
                             !.op = "cancel", !.mem = cancelled,
                             !.cols = Changed(session, cancelled)]
    <2>1. /\ record.op = "cancel"
          /\ record.mem.version = session.version /\ record.mem.route = session.route
      BY <1>1 DEF Blank, SessionRow
    <2>2. Begin(r, record)
      BY <1>6 DEF CancelSession
    <2> HIDE DEF record
    <2>3. Fresh(record) /\ Approves(record)
      BY <2>1 DEF Fresh, Approves
    <2> QED BY <1>2, <2>2, <2>3
  <1>7. ASSUME NEW o \in Requests, RetryHandoff(r, o) PROVE SerialInv'
    <2> DEFINE record == [Blank("retry") EXCEPT !.op = "retry", !.entry = o]
    <2>1. record.op = "retry" /\ record.cols = {}
      BY DEF Blank
    <2>2. Begin(r, record)
      BY <1>7 DEF RetryHandoff
    <2> HIDE DEF record
    <2>3. Fresh(record) /\ Approves(record)
      BY <2>1 DEF Fresh, Approves
    <2> QED BY <1>2, <2>2, <2>3
  <1> QED BY <1>3, <1>4, <1>5, <1>6, <1>7 DEF Call, AddTurn, SubmitAnswers

\* A request that proposed stores the version after the latest, and moves the
\* row to it; one that approved queues what the row shows.
LEMMA CommitKeepsSerial ==
    ASSUME StoreInv, HandoffInv, ApprovalInv, SerialInv, NEW r \in Requests, Commit(r)
    PROVE  SerialInv'
  <1> DEFINE planned == req[r].op = "plan" /\ req[r].arg > 0
             new == [version |-> req[r].arg, route |-> req[r].mem.route, by |-> r]
  <1>1. /\ req[r].mem \in SessionRow /\ req[r].mem.version \in Nat /\ req[r].arg \in Nat
        /\ session \in SessionRow /\ session.version \in Nat
        /\ Fresh(req[r]) /\ Approves(req[r]) /\ req[r].pc = "commit" /\ AtWork(req[r])
    BY DEF StoreInv, TypeInv, TypeOK, RequestRecord, SessionRow, SerialInv, Commit, AtWork
  <1>2. /\ session'.version = IF "version" \in req[r].cols
                              THEN req[r].mem.version ELSE session.version
        /\ session'.route = IF "route" \in req[r].cols
                            THEN req[r].mem.route ELSE session.route
    BY DEF Commit, Merge
  <1>3. PICK n \in Nat : Versions = 1..n
    BY DEF StoreInv, VersionInv, GapFree
  <1>4. LatestVersion = n /\ session.version = n
    BY <1>3, LatestIsLast DEF SerialInv, CurrentIsLatest
  <1>5. \A p \in proposals : p.version \in 1..n
    BY <1>3 DEF Versions
  <1>6. ASSUME planned PROVE CurrentIsLatest' /\ RouteOfCurrent'
    <2>1. proposals' = proposals \cup {new}
      BY <1>6 DEF Commit, CommittedProposals
    <2>2. new.version = n + 1 /\ new.route = req[r].mem.route
      BY <1>1, <1>4, <1>6 DEF Fresh
    <2>3. session'.version = n + 1 /\ session'.route = new.route
      BY <1>1, <1>2, <1>4, <1>6, <2>2 DEF Fresh
    <2> HIDE DEF new
    <2>4. Versions' = 1..(n + 1)
      <3>1. Versions' = Versions \cup {n + 1}
        BY <2>1, <2>2 DEF Versions
      <3> QED BY <1>3, <3>1
    <2>5. LatestVersion' = n + 1
      <3>1. proposals' # {}
        BY <2>1
      <3>2. LatestVersion' = CHOOSE v \in 1..(n + 1) : \A u \in 1..(n + 1) : u <= v
        BY <2>4, <3>1 DEF LatestVersion
      <3>3. \A v \in 1..(n + 1) : (\A u \in 1..(n + 1) : u <= v) <=> v = n + 1
        OBVIOUS
      <3> QED BY <3>2, <3>3
    <2>6. \A p, q \in proposals' : p.version = q.version => p = q
      BY <1>5, <2>1, <2>2 DEF SerialInv, CurrentIsLatest
    <2>7. \A p \in proposals' : p.version = session'.version => p.route = session'.route
      BY <1>5, <2>1, <2>2, <2>3
    <2> QED BY <2>3, <2>5, <2>6, <2>7 DEF CurrentIsLatest, RouteOfCurrent
  <1>7. ASSUME ~planned PROVE CurrentIsLatest' /\ RouteOfCurrent'
    <2>1. proposals' = proposals
      BY <1>7 DEF Commit, CommittedProposals
    <2>2. session'.version = session.version /\ session'.route = session.route
      BY <1>1, <1>2, <1>7 DEF Fresh
    <2> QED BY <2>1, <2>2
            DEF SerialInv, CurrentIsLatest, RouteOfCurrent, LatestVersion, Versions
  <1>8. CurrentIsLatest' /\ RouteOfCurrent'
    BY <1>6, <1>7
  <1>9. RouteIsRecommended'
    <2>1. outbox \in [Requests -> OutboxRow]
      BY DEF StoreInv, TypeInv, TypeOK
    <2>2. CASE req[r].op = "approve"
      <3>1. ApprovedEntry(r).route = ApprovedEntry(r).plan
        BY <1>1, <2>2 DEF Approves, ApprovedEntry
      <3>2. outbox' = [outbox EXCEPT ![r] = ApprovedEntry(r)]
        BY <2>2 DEF Commit, CommittedOutbox
      <3> QED BY <2>1, <3>1, <3>2 DEF SerialInv, RouteIsRecommended
    <2>3. CASE req[r].op = "retry"
      <3>1. outbox' = [outbox EXCEPT ![req[r].entry] = RetriedEntry(outbox[req[r].entry])]
        BY <2>3 DEF Commit, CommittedOutbox
      <3>2. req[r].entry \in Requests /\ outbox[req[r].entry].status # "ABSENT"
        BY <2>3 DEF HandoffInv, HonestRecord, Known
      <3>3. ASSUME NEW o \in Requests
            PROVE  /\ outbox'[o].route = outbox[o].route /\ outbox'[o].plan = outbox[o].plan
                   /\ outbox'[o].status # "ABSENT" => outbox[o].status # "ABSENT"
        BY <2>1, <3>1, <3>2 DEF RetriedEntry, OutboxRow
      <3> QED BY <3>3 DEF SerialInv, RouteIsRecommended
    <2>4. CASE req[r].op \notin {"approve", "retry"}
      BY <2>4 DEF Commit, CommittedOutbox, SerialInv, RouteIsRecommended
    <2> QED BY <2>2, <2>3, <2>4
  <1>10. ASSUME NEW q \in Requests PROVE (Fresh(req[q]) /\ Approves(req[q]) /\ ~AtWork(req[q]))'
    <2>1. req'[q] = IF q = r THEN Blank("done") ELSE req[q]
      BY DEF Commit, EndRequest, StoreInv, TypeInv, TypeOK
    <2>2. ~AtWork(Blank("done")) /\ Blank("done").op = None /\ Blank("done").cols = {}
      BY DEF Blank, AtWork
    <2>3. q # r => ~AtWork(req[q])
      BY <1>1 DEF SerialInv, Alone
    <2>4. ~AtWork(req'[q]) /\ Approves(req'[q])
          /\ (req'[q].op = "retry" => req'[q].cols = {})
      BY <2>1, <2>2, <2>3 DEF SerialInv, Fresh, Approves, None
    <2> QED BY <2>4 DEF Fresh, Approves, AtWork
  <1>11. Unborn'
    <2>1. session.state = None => "state" \in req[r].cols
      BY <1>1 DEF ApprovalInv, BirthInv, Column
    <2>2. "state" \in req[r].cols => req[r].mem.state # None
      BY DEF ApprovalInv, CompleteRecord
    <2> QED BY <2>1, <2>2 DEF Commit, Merge, Unborn
  <1> QED BY <1>8, <1>9, <1>10, <1>11 DEF SerialInv, Alone

\* Every step of a request in progress keeps the invariant.
LEMMA ProceedKeepsSerial ==
    ASSUME StoreInv, HandoffInv, ApprovalInv, SerialInv, NEW r \in Requests, Proceed(r)
    PROVE  SerialInv'
  <1> USE DEF dbUnchanged, dbVars
  <1>1. /\ req[r] \in RequestRecord
        /\ req[r].mem \in SessionRow
        /\ req[r].mem.version \in Nat /\ session.version \in Nat
        /\ Fresh(req[r]) /\ Approves(req[r])
    BY DEF StoreInv, TypeInv, TypeOK, RequestRecord, SessionRow, SerialInv
  <1>2. ASSUME NEW pc \in {"planning", "commit"}, AtWork(req[r]), req[r].pc # "select",
               req' = [req EXCEPT ![r].pc = pc], UNCHANGED <<session, proposals, outbox>>
        PROVE  SerialInv'
    <2> DEFINE record == [req[r] EXCEPT !.pc = pc]
    <2>1. /\ record.pc = pc /\ record.mem = req[r].mem /\ record.cols = req[r].cols
          /\ record.op = req[r].op /\ record.arg = req[r].arg /\ record.plan = req[r].plan
      BY <1>1 DEF RequestRecord
    <2>2. req' = [req EXCEPT ![r] = record]
      BY <1>2
    <2> HIDE DEF record
    <2>3. Fresh(record) /\ Approves(record)
      BY <1>1, <1>2, <2>1 DEF Fresh, Approves, AtWork
    <2> QED BY <1>2, <2>2, <2>3, RequestKeepsSerial
  <1>3. CASE FlushSession(r)
    <2>1. CASE req[r].pc = "reopen"
      <3>1. req' = [req EXCEPT ![r].pc = "planning"] /\ AtWork(req[r])
        BY <1>3, <2>1 DEF FlushSession, AtWork
      <3> QED BY <1>2, <1>3, <2>1, <3>1 DEF FlushSession
    <2>2. CASE req[r].pc = "update"
      <3>1. req' = [req EXCEPT ![r].pc = "commit"] /\ AtWork(req[r])
        BY <1>3, <2>2 DEF FlushSession, AtWork
      <3> QED BY <1>2, <1>3, <2>2, <3>1 DEF FlushSession
    <2> QED BY <1>3, <2>1, <2>2 DEF FlushSession
  <1>4. CASE PlannerSaysNothing(r) \/ FlushRetry(r)
    BY <1>2, <1>4 DEF PlannerSaysNothing, FlushRetry, AtWork
  <1>5. ASSUME NEW mem \in SessionRow, NEW version \in Nat, Conclude(r, mem, version),
               \/ /\ version = session.version + 1
                  /\ mem.version = req[r].mem.version + 1
               \/ /\ version = 0
                  /\ mem.version = req[r].mem.version /\ mem.route = req[r].mem.route
        PROVE  SerialInv'
    <2> DEFINE record == [req[r] EXCEPT
                  !.pc = "update",
                  !.mem = mem,
                  !.cols = req[r].cols \cup Changed(req[r].mem, mem),
                  !.arg = version]
    <2>1. /\ record.pc = "update" /\ record.mem = mem /\ record.arg = version
          /\ record.cols = req[r].cols \cup Changed(req[r].mem, mem)
          /\ record.op = req[r].op
      BY <1>1 DEF RequestRecord
    <2>2. req' = [req EXCEPT ![r] = record] /\ AtWork(req[r]) /\ req[r].pc = "planning"
          /\ UNCHANGED <<session, proposals, outbox>>
      BY <1>5 DEF Conclude, AtWork
    <2> HIDE DEF record
    <2>3. req[r].op = "plan" /\ req[r].arg = 0
      BY <2>2 DEF StoreInv, VersionInv, PlansNextVersion
    <2>4. req[r].mem.version = session.version /\ req[r].mem.route = session.route
      BY <1>1, <2>2, <2>3 DEF Fresh
    <2>5. /\ mem.version # req[r].mem.version => "version" \in Changed(req[r].mem, mem)
          /\ mem.route # req[r].mem.route => "route" \in Changed(req[r].mem, mem)
      BY DEF Changed, Column
    <2>6. CASE version = session.version + 1 /\ mem.version = req[r].mem.version + 1
      <3>1. Fresh(record)
        BY <1>1, <2>1, <2>3, <2>4, <2>5, <2>6 DEF Fresh
      <3> QED BY <2>1, <2>2, <2>3, <3>1, RequestKeepsSerial DEF Approves
    <2>7. CASE /\ version = 0
               /\ mem.version = req[r].mem.version /\ mem.route = req[r].mem.route
      <3>1. Fresh(record)
        BY <2>1, <2>3, <2>4, <2>7 DEF Fresh
      <3> QED BY <2>1, <2>2, <2>3, <3>1, RequestKeepsSerial DEF Approves
    <2> QED BY <1>5, <2>6, <2>7
  <1>6. ASSUME NEW route \in Recommended, PlannerProposes(r, route) PROVE SerialInv'
    <2> DEFINE mem == [state |-> "AWAITING_APPROVAL",
                       version |-> req[r].mem.version + 1, route |-> route]
    <2>1. mem \in SessionRow /\ mem.version = req[r].mem.version + 1
      BY <1>1, LimitAssumption DEF SessionRow, SessionState
    <2>2. Conclude(r, mem, session.version + 1)
      BY <1>6 DEF PlannerProposes, SerialInv, CurrentIsLatest
    <2> HIDE DEF mem
    <2> QED BY <1>1, <1>5, <2>1, <2>2
  <1>7. ASSUME NEW s \in SessionState, Conclude(r, [req[r].mem EXCEPT !.state = s], 0)
        PROVE  SerialInv'
    <2> DEFINE mem == [req[r].mem EXCEPT !.state = s]
    <2>1. /\ mem \in SessionRow
          /\ mem.version = req[r].mem.version /\ mem.route = req[r].mem.route
      BY <1>1 DEF SessionRow
    <2>2. Conclude(r, mem, 0)
      BY <1>7
    <2> HIDE DEF mem
    <2> QED BY <1>5, <2>1, <2>2
  <1>8. CASE PlannerAsks(r) \/ PlannerFails(r)
    BY <1>7, <1>8 DEF PlannerAsks, PlannerFails, SessionState
  <1>9. CASE SelectProposal(r)
    <2>1. PICK p \in ProposalsOf(req[r].arg) :
              req' = [req EXCEPT ![r] = [@ EXCEPT
                         !.pc = "update", !.mem.state = Decision[req[r].op],
                         !.cols = {"state"}, !.plan = p.route]]
      BY <1>9 DEF SelectProposal
    <2> DEFINE mem == [req[r].mem EXCEPT !.state = Decision[req[r].op]]
               record == [req[r] EXCEPT
                             !.pc = "update", !.mem = mem,
                             !.cols = {"state"}, !.plan = p.route]
    <2>2. req[r].pc = "select" /\ AtWork(req[r]) /\ req[r].op \notin {"plan", "retry"}
      BY <1>9 DEF SelectProposal, AtWork, StoreInv, TypeInv, ChoiceMade, Decision
    <2>3. mem.version = req[r].mem.version /\ mem.route = req[r].mem.route
      BY <1>1 DEF SessionRow
    <2>4. /\ record.pc = "update" /\ record.mem = mem /\ record.op = req[r].op
          /\ record.plan = p.route
      BY <1>1 DEF RequestRecord
    <2>5. req' = [req EXCEPT ![r] = record] /\ UNCHANGED <<session, proposals, outbox>>
      BY <1>1, <1>9, <2>1 DEF RequestRecord, SelectProposal
    <2> HIDE DEF record, mem
    <2>6. req[r].mem.version = session.version /\ req[r].mem.route = session.route
      BY <1>1, <2>2 DEF Fresh
    <2>7. Fresh(record)
      BY <2>2, <2>3, <2>4, <2>6 DEF Fresh
    <2>8. Approves(record)
      <3>1. p \in proposals /\ p.version = req[r].arg
        BY DEF ProposalsOf
      <3>2. req[r].op = "approve" => req[r].mem.route # None /\ p.route = req[r].mem.route
        BY <1>1, <2>2, <2>6, <3>1 DEF Approves, SerialInv, RouteOfCurrent
      <3> QED BY <2>3, <2>4, <3>2 DEF Approves
    <2> QED BY <2>2, <2>5, <2>7, <2>8, RequestKeepsSerial
  <1>10. CASE Rollback(r)
    <2>1. Fresh(Blank("done")) /\ Approves(Blank("done"))
      BY DEF Blank, Fresh, Approves, AtWork, None
    <2>2. AtWork(req[r])
      BY <1>10 DEF Rollback, InFlight, AtWork
    <2> QED BY <1>10, <2>1, <2>2, RequestKeepsSerial DEF Rollback, EndRequest
  <1> QED BY <1>3, <1>4, <1>6, <1>8, <1>9, <1>10, CommitKeepsSerial DEF Proceed

-----------------------------------------------------------------------------
\* Workers write the state of a row that exists, and of an entry neither route
\* nor plan.
LEMMA WorkerKeepsSerial ==
    ASSUME StoreInv, HandoffInv, ApprovalInv, SerialInv, NEW w \in Workers,
           Process(w) \/ AbortBatch(w)
    PROVE  SerialInv'
  <1>1. UNCHANGED <<proposals, req>>
    BY DEF Process, AbortBatch, FetchPending, LockEntry, DeliverEntry, ReadSession,
           WriteSession, CommitEntry, dbVars
  <1>2. CASE UNCHANGED <<session, outbox>>
    BY <1>1, <1>2 DEF SerialInv, Alone, Unborn, Fresh, Approves, AtWork, CurrentIsLatest,
                      RouteOfCurrent, RouteIsRecommended, LatestVersion, Versions
  <1>3. CASE CommitEntry(w)
    <2>1. /\ worker[w] \in WorkerRecord /\ session \in SessionRow
          /\ outbox \in [Requests -> OutboxRow]
      BY DEF StoreInv, TypeInv, TypeOK
    <2>2. /\ worker[w].entry \in worker[w].todo
          /\ worker[w].todo \subseteq Requests
      BY <1>3, <2>1 DEF StoreInv, TypeInv, BatchInv, Busy, CommitEntry, WorkerRecord
    <2>3. Known(worker[w].entry)
      BY <2>2 DEF HandoffInv, HonestWorker
    <2>4. proposals # {}
      BY <2>2, <2>3 DEF HandoffInv, LedgerInv, HonestEntry, Proposed
    <2>5. session.state # None
      BY <2>4 DEF ApprovalInv, BirthInv
    <2>6. session'.version = session.version /\ session'.route = session.route
      BY <1>3, <2>1 DEF CommitEntry, SessionRow
    <2>7. session'.state # None
      BY <1>3, <2>1, <2>5 DEF CommitEntry, SessionRow
    <2>8. Unborn' /\ CurrentIsLatest' /\ RouteOfCurrent'
      BY <1>1, <2>6, <2>7 DEF SerialInv, Unborn, CurrentIsLatest, RouteOfCurrent,
                              LatestVersion, Versions
    <2>9. ASSUME NEW o \in Requests
          PROVE  /\ outbox'[o].route = outbox[o].route /\ outbox'[o].plan = outbox[o].plan
                 /\ outbox'[o].status # "ABSENT" => outbox[o].status # "ABSENT"
      <3>1. outbox' = [outbox EXCEPT ![worker[w].entry] =
                          DeliveredEntry(w, outbox[worker[w].entry])]
        BY <1>3 DEF CommitEntry
      <3> QED BY <2>1, <2>2, <2>3, <3>1 DEF DeliveredEntry, OutboxRow, Known
    <2>10. RouteIsRecommended'
      BY <2>9 DEF SerialInv, RouteIsRecommended
    <2>11. Alone' /\ \A q \in Requests : (Fresh(req[q]) /\ Approves(req[q]))'
      BY <1>1, <2>6 DEF SerialInv, Alone, Fresh, Approves, AtWork
    <2> QED BY <2>8, <2>10, <2>11 DEF SerialInv
  <1> QED BY <1>2, <1>3 DEF Process, AbortBatch, FetchPending, LockEntry, DeliverEntry,
                            ReadSession, WriteSession, dbVars

-----------------------------------------------------------------------------
\* Every step keeps the invariant while requests do not overlap.
LEMMA NextSerial ==
    ASSUME MaxOpen = 1, StoreInv, HandoffInv, ApprovalInv, SerialInv, [Next]_vars
    PROVE  SerialInv'
  <1>1. CASE UNCHANGED vars
    BY <1>1 DEF vars, SerialInv, Alone, Unborn, Fresh, Approves, AtWork, CurrentIsLatest,
                RouteOfCurrent, RouteIsRecommended, LatestVersion, Versions
  <1> QED BY <1>1, CallKeepsSerial, ProceedKeepsSerial, WorkerKeepsSerial DEF Next

\* Requests that do not overlap are alone and work on the row as it is.
THEOREM SerialInvariant ==
    ASSUME MaxOpen = 1 PROVE Spec => []SerialInv
  <1>1. StoreInv /\ HandoffInv /\ ApprovalInv /\ SerialInv /\ [Next]_vars => SerialInv'
    BY NextSerial
  <1> QED BY <1>1, InitSerial, StoreInvariant, HandoffInvariant, ApprovalInvariant, PTL
          DEF Spec

\* A client that waits for each answer approves what it was shown: the version
\* of the session is that of the latest proposal, and it is unique.
THEOREM ShownIsLatest ==
    ASSUME MaxOpen = 1 PROVE Spec => []CurrentIsLatest
  <1>1. SerialInv => CurrentIsLatest
    BY DEF SerialInv
  <1> QED BY <1>1, SerialInvariant, PTL

\* And every package goes where its own proposal recommended.
THEOREM PackagesGoAsRecommended ==
    ASSUME MaxOpen = 1 PROVE Spec => []RouteIsRecommended
  <1>1. SerialInv => RouteIsRecommended
    BY DEF SerialInv
  <1> QED BY <1>1, SerialInvariant, PTL

-----------------------------------------------------------------------------
\* One plan, one entry.  Requests that do not overlap approve at most once: the
\* approval finds the session awaiting it, and from then on no state leads back
\* to planning, whatever retries, cancellations and workers write.

PlanState == {"DISCOVERING", "AWAITING_ANSWERS", "AWAITING_APPROVAL", "FAILED"}

DecidedState == {"HANDOFF_QUEUED", "HANDOFF_FAILED", "HANDED_OFF", "CANCELLED"}

\* What an open request was let in by still holds, and it writes the state its
\* operation is for.
Aimed(record) ==
    /\ AtWork(record) => record.op # None
    /\ AtWork(record) /\ record.op \in {"approve", "request_changes"} =>
          session.state = "AWAITING_APPROVAL"
    /\ AtWork(record) /\ record.op \in {"plan", "approve", "request_changes"} =>
          \A o \in Requests : ~Known(o)
    /\ record.op = "plan" => record.mem.state \in PlanState
    /\ record.op = "approve" /\ record.pc # "select" => "state" \in record.cols
    /\ "state" \in record.cols /\ record.op \in DOMAIN Decision =>
          record.mem.state = Decision[record.op]

\* A worker that ends an entry, by success or for good, and writes no state has
\* read a session that no longer waits.
Reported(w) ==
    /\ worker[w].pc = "write" => worker[w].want # None
    /\ worker[w].pc = "commit" /\ worker[w].want = None /\ (worker[w].ok \/ Exhausted(w)) =>
          session.state # "HANDOFF_QUEUED"

\* The only entry is the approved one, of the version on display.
OneEntry ==
    /\ \A o, p \in Requests : Known(o) /\ Known(p) => o = p
    /\ \A o \in Requests : Known(o) => /\ session.state \in DecidedState
                                       /\ outbox[o].version = session.version

Waited == session.state = "HANDOFF_QUEUED" =>
              \E o \in Requests : outbox[o].status = "PENDING"

Receipted == session.state = "HANDED_OFF" =>
                 \E o \in Requests : Known(o) /\ receipts[o] > 0

EntryInv ==
    /\ OneEntry
    /\ \A r \in Requests : Aimed(req[r])
    /\ \A w \in Workers : Reported(w)
    /\ Waited
    /\ Receipted

\* There is no entry initially.
LEMMA InitEntry == Init => EntryInv
  <1> SUFFICES ASSUME Init PROVE EntryInv
    OBVIOUS
  <1>1. \A r \in Requests : req[r] = Blank("idle")
    BY DEF Init
  <1>2. Aimed(Blank("idle"))
    BY DEF Blank, Aimed, AtWork, Decision, None
  <1>3. OneEntry /\ Waited /\ Receipted
    BY DEF Init, OneEntry, Waited, Receipted, Known, NoEntry, NoSession, None
  <1>4. ASSUME NEW w \in Workers PROVE Reported(w)
    BY DEF Init, Reported, IdleWorker
  <1> QED BY <1>1, <1>2, <1>3, <1>4 DEF EntryInv

\* A step of request r that writes no row keeps the invariant if it leaves a
\* record that aims at what it may.
LEMMA RequestKeepsEntry ==
    ASSUME StoreInv, EntryInv, NEW r \in Requests, NEW record, Aimed(record),
           req' = [req EXCEPT ![r] = record],
           UNCHANGED <<session, outbox, receipts, worker>>
    PROVE  EntryInv'
  <1>1. \A q \in Requests : req'[q] = IF q = r THEN record ELSE req[q]
    BY DEF StoreInv, TypeInv, TypeOK
  <1>2. ASSUME NEW q \in Requests PROVE Aimed(req[q])'
    <2>1. Aimed(req'[q])
      BY <1>1 DEF EntryInv
    <2> QED BY <2>1 DEF Aimed, AtWork, Known
  <1>3. OneEntry' /\ Waited' /\ Receipted'
    BY DEF EntryInv, OneEntry, Waited, Receipted, Known
  <1>4. ASSUME NEW w \in Workers PROVE Reported(w)'
    BY DEF EntryInv, Reported, Exhausted
  <1> QED BY <1>2, <1>3, <1>4 DEF EntryInv

\* A request that begins has read the row as it is.
LEMMA CallKeepsEntry ==
    ASSUME StoreInv, EntryInv, NEW r \in Requests, Call(r)
    PROVE  EntryInv'
  <1>1. session \in SessionRow
    BY DEF StoreInv, TypeInv, TypeOK
  <1>2. ASSUME NEW record, Begin(r, record), Aimed(record)
        PROVE  EntryInv'
    <2>1. /\ req' = [req EXCEPT ![r] = record]
          /\ UNCHANGED <<session, outbox, receipts, worker>>
      BY <1>2 DEF Begin, dbUnchanged, dbVars
    <2> QED BY <1>2, <2>1, RequestKeepsEntry
  <1>3. session.state \notin DecidedState => \A o \in Requests : ~Known(o)
    BY DEF EntryInv, OneEntry
  <1>4. CASE CreateSession(r)
    <2> DEFINE mem == [NoSession EXCEPT !.state = "DISCOVERING"]
               record == [Blank("planning") EXCEPT
                             !.op = "plan", !.mem = mem, !.cols = Column]
    <2>1. record.op = "plan" /\ record.mem.state = "DISCOVERING"
      BY DEF Blank, NoSession
    <2>2. Begin(r, record) /\ session.state \notin DecidedState
      BY <1>4 DEF CreateSession, DecidedState, None
    <2> HIDE DEF record
    <2>3. Aimed(record)
      BY <1>3, <2>1, <2>2 DEF Aimed, PlanState, Decision, None
    <2> QED BY <1>2, <2>2, <2>3
  <1>5. ASSUME NEW allowed \in SUBSET PlanState, BeginPlanning(r, allowed) PROVE EntryInv'
    <2> DEFINE record == [Blank("reopen") EXCEPT
                             !.op = "plan", !.mem = Reopened,
                             !.cols = Changed(session, Reopened)]
    <2>1. record.op = "plan" /\ record.mem = Reopened
      BY DEF Blank
    <2>2. Begin(r, record) /\ session.state \notin DecidedState
      BY <1>5 DEF BeginPlanning, DecidedState, PlanState
    <2> HIDE DEF record
    <2>3. Reopened.state = "DISCOVERING"
      BY <1>1 DEF Reopened, SessionRow
    <2>4. Aimed(record)
      BY <1>3, <2>1, <2>2, <2>3 DEF Aimed, PlanState, Decision, None
    <2> QED BY <1>2, <2>2, <2>4
  <1>6. ASSUME NEW action \in DOMAIN Decision, SubmitApproval(r, action)
        PROVE  EntryInv'
    <2> DEFINE record == [Blank("select") EXCEPT
                             !.op = action, !.mem = session, !.arg = session.version]
    <2>1. /\ record.op = action /\ record.pc = "select" /\ record.cols = {}
      BY DEF Blank
    <2>2. Begin(r, record) /\ session.state = "AWAITING_APPROVAL"
      BY <1>6 DEF SubmitApproval
    <2> HIDE DEF record
    <2>3. action \notin {"plan", None} /\ session.state \notin DecidedState
      BY <2>2 DEF Decision, None, DecidedState
    <2>4. Aimed(record)
      BY <1>3, <2>1, <2>2, <2>3 DEF Aimed
    <2> QED BY <1>2, <2>2, <2>4
  <1>7. CASE CancelSession(r)
    <2> DEFINE cancelled == [session EXCEPT !.state = "CANCELLED"]
               record == [Blank("update") EXCEPT
                             !.op = "cancel", !.mem = cancelled,
                             !.cols = Changed(session, cancelled)]
    <2>1. record.op = "cancel" /\ record.mem.state = "CANCELLED"
      BY <1>1 DEF Blank, SessionRow
    <2>2. Begin(r, record)
      BY <1>7 DEF CancelSession
    <2> HIDE DEF record
    <2>3. Aimed(record)
      BY <2>1 DEF Aimed, Decision, None
    <2> QED BY <1>2, <2>2, <2>3
  <1>8. ASSUME NEW o \in Requests, RetryHandoff(r, o) PROVE EntryInv'
    <2> DEFINE record == [Blank("retry") EXCEPT !.op = "retry", !.entry = o]
    <2>1. record.op = "retry"
      BY DEF Blank
    <2>2. Begin(r, record)
      BY <1>8 DEF RetryHandoff
    <2> HIDE DEF record
    <2>3. Aimed(record)
      BY <2>1 DEF Aimed, Decision, None
    <2> QED BY <1>2, <2>2, <2>3
  <1> QED BY <1>4, <1>5, <1>6, <1>7, <1>8 DEF Call, AddTurn, SubmitAnswers, PlanState

\* A request that commits writes the state it aims at: only an approval makes an
\* entry, and then there is no other.
LEMMA CommitKeepsEntry ==
    ASSUME StoreInv, HandoffInv, ApprovalInv, SerialInv, EntryInv,
           NEW r \in Requests, Commit(r)
    PROVE  EntryInv'
  <1>1. /\ req[r] \in RequestRecord /\ session \in SessionRow
        /\ outbox \in [Requests -> OutboxRow]
        /\ Fresh(req[r]) /\ Aimed(req[r]) /\ req[r].pc = "commit" /\ AtWork(req[r])
        /\ req[r].op \in {"plan", "approve", "request_changes", "cancel", "retry"}
    BY DEF StoreInv, TypeInv, TypeOK, RequestRecord, RequestOp, SerialInv, EntryInv, Aimed,
           Commit, AtWork
  <1>2. /\ session'.state = IF "state" \in req[r].cols
                            THEN req[r].mem.state ELSE session.state
        /\ session'.version = IF "version" \in req[r].cols
                              THEN req[r].mem.version ELSE session.version
        /\ UNCHANGED <<receipts, worker>>
        /\ outbox' = CommittedOutbox(r)
    BY DEF Commit, Merge
  <1>3. ASSUME NEW q \in Requests PROVE Aimed(req[q])'
    <2>1. req'[q] = IF q = r THEN Blank("done") ELSE req[q]
      BY DEF Commit, EndRequest, StoreInv, TypeInv, TypeOK
    <2>2. /\ ~AtWork(Blank("done"))
          /\ Blank("done").op = None /\ Blank("done").cols = {}
      BY DEF Blank, AtWork
    <2>3. q # r => ~AtWork(req[q])
      BY <1>1 DEF SerialInv, Alone
    <2>4. ~AtWork(req'[q])
      BY <2>1, <2>2, <2>3
    <2>5. q # r => Aimed(req[q])
      BY DEF EntryInv
    <2>6. /\ req'[q].op = "plan" => req'[q].mem.state \in PlanState
          /\ req'[q].op = "approve" /\ req'[q].pc # "select" => "state" \in req'[q].cols
          /\ "state" \in req'[q].cols /\ req'[q].op \in DOMAIN Decision =>
                req'[q].mem.state = Decision[req'[q].op]
      BY <2>1, <2>2, <2>5 DEF Aimed, None
    <2> QED BY <2>4, <2>6 DEF Aimed, AtWork
  <1>4. CASE req[r].op = "approve"
    <2>1. \A o \in Requests : ~Known(o)
      BY <1>1, <1>4 DEF Aimed
    <2>2. session'.state = "HANDOFF_QUEUED"
      BY <1>1, <1>2, <1>4 DEF Aimed, Decision
    <2>3. session'.version = session.version /\ req[r].mem.version = session.version
      BY <1>1, <1>2, <1>4 DEF Fresh
    <2>4. outbox' = [outbox EXCEPT ![r] = ApprovedEntry(r)]
      BY <1>2, <1>4 DEF CommittedOutbox
    <2>5. ApprovedEntry(r).status = "PENDING" /\ ApprovedEntry(r).version = session.version
      BY <2>3 DEF ApprovedEntry
    <2>6. \A o \in Requests : outbox'[o] = IF o = r THEN ApprovedEntry(r) ELSE outbox[o]
      BY <1>1, <2>4
    <2>7. OneEntry' /\ Waited'
      BY <2>1, <2>2, <2>3, <2>5, <2>6 DEF OneEntry, Waited, Known, DecidedState
    <2>8. ASSUME NEW w \in Workers PROVE Reported(w)'
      <3>1. worker[w] \in WorkerRecord
        BY DEF StoreInv, TypeInv, TypeOK
      <3>2. worker[w].pc \notin {"write", "commit"}
        BY <2>1, <3>1 DEF HandoffInv, HonestWorker, StoreInv, TypeInv, BatchInv, Busy,
                          WorkerRecord
      <3> QED BY <1>2, <3>2 DEF Reported
    <2> QED BY <1>3, <2>2, <2>7, <2>8 DEF EntryInv, Receipted
  <1>5. CASE req[r].op = "retry"
    <2>1. session'.state = session.state /\ session'.version = session.version
      BY <1>1, <1>2, <1>5 DEF Fresh
    <2>2. req[r].entry \in Requests /\ Known(req[r].entry)
      BY <1>5 DEF HandoffInv, HonestRecord
    <2>3. outbox' = [outbox EXCEPT ![req[r].entry] = RetriedEntry(outbox[req[r].entry])]
      BY <1>2, <1>5 DEF CommittedOutbox
    <2>4. ASSUME NEW o \in Requests
          PROVE  /\ outbox'[o].version = outbox[o].version
                 /\ outbox'[o].status \in {outbox[o].status, "PENDING"}
                 /\ outbox'[o].status # "ABSENT" <=> outbox[o].status # "ABSENT"
      BY <1>1, <2>2, <2>3 DEF RetriedEntry, OutboxRow, Known
    <2>5. OneEntry' /\ Waited' /\ Receipted'
      BY <1>2, <2>1, <2>4 DEF EntryInv, OneEntry, Waited, Receipted, Known
    <2>6. ASSUME NEW w \in Workers PROVE Reported(w)'
      BY <1>2, <2>1 DEF EntryInv, Reported, Exhausted
    <2> QED BY <1>3, <2>5, <2>6 DEF EntryInv
  <1>6. CASE req[r].op \notin {"approve", "retry"}
    <2>1. outbox' = outbox
      BY <1>2, <1>6 DEF CommittedOutbox
    <2>2. session'.state \in {session.state} \cup PlanState \cup {"CANCELLED"}
      BY <1>1, <1>2, <1>6 DEF Aimed, Decision, PlanState
    <2>3. session'.state \notin {session.state, "CANCELLED"} => \A o \in Requests : ~Known(o)
      BY <1>1, <1>2, <1>6 DEF Aimed, Decision
    <2>4. session'.version # session.version => \A o \in Requests : ~Known(o)
      BY <1>1, <1>2, <1>6 DEF Aimed, Fresh
    <2>5. OneEntry'
      BY <2>1, <2>3, <2>4 DEF EntryInv, OneEntry, Known, DecidedState
    <2>6. session'.state \in {"HANDOFF_QUEUED", "HANDED_OFF"} => session'.state = session.state
      BY <2>2 DEF PlanState
    <2>7. Waited' /\ Receipted'
      BY <1>2, <2>1, <2>6 DEF EntryInv, Waited, Receipted, Known
    <2>8. ASSUME NEW w \in Workers PROVE Reported(w)'
      BY <1>2, <2>6 DEF EntryInv, Reported, Exhausted
    <2> QED BY <1>3, <2>5, <2>7, <2>8 DEF EntryInv
  <1> QED BY <1>1, <1>4, <1>5, <1>6

\* Every step of a request in progress keeps the invariant.
LEMMA ProceedKeepsEntry ==
    ASSUME StoreInv, HandoffInv, ApprovalInv, SerialInv, EntryInv,
           NEW r \in Requests, Proceed(r)
    PROVE  EntryInv'
  <1> USE DEF dbUnchanged, dbVars
  <1>1. /\ req[r] \in RequestRecord /\ req[r].mem \in SessionRow
        /\ Aimed(req[r]) /\ CompleteRecord(req[r])
    BY DEF StoreInv, TypeInv, TypeOK, RequestRecord, EntryInv, ApprovalInv
  <1>2. ASSUME NEW pc \in {"planning", "commit"}, AtWork(req[r]), req[r].pc # "select",
               req' = [req EXCEPT ![r].pc = pc],
               UNCHANGED <<session, outbox, receipts, worker>>
        PROVE  EntryInv'
    <2> DEFINE record == [req[r] EXCEPT !.pc = pc]
    <2>1. /\ record.pc = pc /\ record.mem = req[r].mem /\ record.cols = req[r].cols
          /\ record.op = req[r].op
      BY <1>1 DEF RequestRecord
    <2>2. req' = [req EXCEPT ![r] = record]
      BY <1>2
    <2> HIDE DEF record
    <2>3. Aimed(record)
      BY <1>1, <1>2, <2>1 DEF Aimed, AtWork
    <2> QED BY <1>2, <2>2, <2>3, RequestKeepsEntry
  <1>3. CASE FlushSession(r)
    <2>1. CASE req[r].pc = "reopen"
      <3>1. req' = [req EXCEPT ![r].pc = "planning"] /\ AtWork(req[r])
        BY <1>3, <2>1 DEF FlushSession, AtWork
      <3> QED BY <1>2, <1>3, <2>1, <3>1 DEF FlushSession
    <2>2. CASE req[r].pc = "update"
      <3>1. req' = [req EXCEPT ![r].pc = "commit"] /\ AtWork(req[r])
        BY <1>3, <2>2 DEF FlushSession, AtWork
      <3> QED BY <1>2, <1>3, <2>2, <3>1 DEF FlushSession
    <2> QED BY <1>3, <2>1, <2>2 DEF FlushSession
  <1>4. CASE PlannerSaysNothing(r) \/ FlushRetry(r)
    BY <1>2, <1>4 DEF PlannerSaysNothing, FlushRetry, AtWork
  <1>5. ASSUME NEW mem, mem.state \in PlanState, NEW version, Conclude(r, mem, version)
        PROVE  EntryInv'
    <2> DEFINE record == [req[r] EXCEPT
                  !.pc = "update",
                  !.mem = mem,
                  !.cols = req[r].cols \cup Changed(req[r].mem, mem),
                  !.arg = version]
    <2>1. record.mem = mem /\ record.op = req[r].op
      BY <1>1 DEF RequestRecord
    <2>2. req' = [req EXCEPT ![r] = record] /\ AtWork(req[r]) /\ req[r].pc = "planning"
          /\ UNCHANGED <<session, outbox, receipts, worker>>
      BY <1>5 DEF Conclude, AtWork
    <2> HIDE DEF record
    <2>3. req[r].op = "plan"
      BY <2>2 DEF StoreInv, VersionInv, PlansNextVersion
    <2>4. Aimed(record)
      BY <1>1, <1>5, <2>1, <2>2, <2>3 DEF Aimed, Decision, None
    <2> QED BY <2>2, <2>4, RequestKeepsEntry
  <1>6. ASSUME NEW route \in Recommended, PlannerProposes(r, route) PROVE EntryInv'
    <2> DEFINE mem == [state |-> "AWAITING_APPROVAL",
                       version |-> req[r].mem.version + 1, route |-> route]
    <2>1. mem.state \in PlanState
      BY DEF PlanState
    <2>2. Conclude(r, mem, LatestVersion + 1)
      BY <1>6 DEF PlannerProposes
    <2> HIDE DEF mem
    <2> QED BY <1>5, <2>1, <2>2
  <1>7. ASSUME NEW s \in PlanState, Conclude(r, [req[r].mem EXCEPT !.state = s], 0)
        PROVE  EntryInv'
    <2> DEFINE mem == [req[r].mem EXCEPT !.state = s]
    <2>1. mem.state \in PlanState
      BY <1>1 DEF SessionRow
    <2>2. Conclude(r, mem, 0)
      BY <1>7
    <2> HIDE DEF mem
    <2> QED BY <1>5, <2>1, <2>2
  <1>8. CASE PlannerAsks(r) \/ PlannerFails(r)
    BY <1>7, <1>8 DEF PlannerAsks, PlannerFails, PlanState
  <1>9. CASE SelectProposal(r)
    <2>1. PICK p \in ProposalsOf(req[r].arg) :
              req' = [req EXCEPT ![r] = [@ EXCEPT
                         !.pc = "update", !.mem.state = Decision[req[r].op],
                         !.cols = {"state"}, !.plan = p.route]]
      BY <1>9 DEF SelectProposal
    <2> DEFINE mem == [req[r].mem EXCEPT !.state = Decision[req[r].op]]
               record == [req[r] EXCEPT
                             !.pc = "update", !.mem = mem,
                             !.cols = {"state"}, !.plan = p.route]
    <2>2. AtWork(req[r]) /\ req[r].op \in DOMAIN Decision
      BY <1>9 DEF SelectProposal, AtWork, StoreInv, TypeInv, ChoiceMade
    <2>3. mem.state = Decision[req[r].op]
      BY <1>1 DEF SessionRow
    <2>4. /\ record.mem = mem /\ record.op = req[r].op /\ record.cols = {"state"}
      BY <1>1 DEF RequestRecord
    <2>5. req' = [req EXCEPT ![r] = record]
          /\ UNCHANGED <<session, outbox, receipts, worker>>
      BY <1>1, <1>9, <2>1 DEF RequestRecord, SelectProposal
    <2> HIDE DEF record, mem
    <2>6. req[r].op # "plan" /\ req[r].op # None
      BY <2>2 DEF Decision, None
    <2>7. Aimed(record)
      BY <1>1, <2>2, <2>3, <2>4, <2>6 DEF Aimed
    <2> QED BY <2>5, <2>7, RequestKeepsEntry
  <1>10. CASE Rollback(r)
    <2>1. Aimed(Blank("done"))
      BY DEF Blank, Aimed, AtWork, Decision, None
    <2> QED BY <1>10, <2>1, RequestKeepsEntry DEF Rollback, EndRequest
  <1> QED BY <1>3, <1>4, <1>6, <1>8, <1>9, <1>10, CommitKeepsEntry DEF Proceed

\* Two workers are never in the middle of the only entry: its lock is kept from
\* LockEntry to the commit.
LEMMA OneBusy ==
    ASSUME StoreInv, HandoffInv, OneEntry, NEW v \in Workers, NEW w \in Workers,
           worker[v].pc \in Busy, worker[w].pc \in Busy
    PROVE  v = w
  <1>1. worker[v] \in WorkerRecord /\ worker[w] \in WorkerRecord
    BY DEF StoreInv, TypeInv, TypeOK
  <1>2. /\ worker[v].entry \in worker[v].todo /\ worker[v].todo \subseteq Requests
        /\ worker[w].entry \in worker[w].todo /\ worker[w].todo \subseteq Requests
    BY <1>1 DEF StoreInv, TypeInv, BatchInv, WorkerRecord
  <1>3. HonestWorker(v) /\ HonestWorker(w)
    BY DEF HandoffInv
  <1>4. worker[v].entry = worker[w].entry
    BY <1>2, <1>3 DEF OneEntry, HonestWorker
  <1> QED BY <1>3, <1>4 DEF HonestWorker

\* A worker ends the wait together with the entry.
LEMMA CommitEntryKeepsEntry ==
    ASSUME StoreInv, HandoffInv, WantInv, EntryInv, NEW w \in Workers, CommitEntry(w)
    PROVE  EntryInv'
  <1>1. /\ worker \in [Workers -> WorkerRecord] /\ worker[w] \in WorkerRecord
        /\ session \in SessionRow /\ outbox \in [Requests -> OutboxRow]
        /\ receipts \in [Requests -> Nat]
        /\ worker[w].pc = "commit"
    BY DEF StoreInv, TypeInv, TypeOK, CommitEntry
  <1>2. PICK o \in Requests : o = worker[w].entry /\ HonestWorker(w) /\ Known(o)
    BY <1>1 DEF StoreInv, TypeInv, BatchInv, Busy, WorkerRecord, HandoffInv, HonestWorker
  <1>3. OneEntry /\ Reported(w) /\ session.state \in DecidedState
    BY <1>2 DEF EntryInv, OneEntry
  <1>4. /\ session'.state = IF worker[w].want = None THEN session.state ELSE worker[w].want
        /\ session'.version = session.version
        /\ session'.state \in DecidedState
    BY <1>1, <1>3 DEF CommitEntry, SessionRow, WantInv, DecidedState
  <1>5. /\ outbox' = [outbox EXCEPT ![o] = DeliveredEntry(w, outbox[o])]
        /\ receipts' = [receipts EXCEPT ![o] = IF worker[w].ok THEN @ + 1 ELSE @]
        /\ req' = req
    BY <1>2 DEF CommitEntry
  <1>6. /\ DeliveredEntry(w, outbox[o]).version = outbox[o].version
        /\ DeliveredEntry(w, outbox[o]).status # "ABSENT"
        /\ ~worker[w].ok /\ ~Exhausted(w) => DeliveredEntry(w, outbox[o]).status = "PENDING"
    BY <1>1, <1>2 DEF DeliveredEntry, OutboxRow, Known
  <1>7. ASSUME NEW p \in Requests PROVE outbox'[p] = IF p = o THEN DeliveredEntry(w, outbox[o])
                                                     ELSE outbox[p]
    BY <1>1, <1>5
  <1>8. OneEntry'
    BY <1>2, <1>3, <1>4, <1>6, <1>7 DEF OneEntry, Known
  <1>9. Waited'
    <2> SUFFICES ASSUME session'.state = "HANDOFF_QUEUED"
                 PROVE  outbox'[o].status = "PENDING"
      BY <1>2 DEF Waited
    <2>1. worker[w].want = None /\ session.state = "HANDOFF_QUEUED"
      BY <1>4 DEF WantInv, None
    <2>2. ~worker[w].ok /\ ~Exhausted(w)
      BY <1>1, <1>3, <2>1 DEF Reported
    <2> QED BY <1>2, <1>6, <1>7, <2>2
  <1>10. Receipted'
    <2> SUFFICES ASSUME session'.state = "HANDED_OFF"
                 PROVE  \E p \in Requests : Known(p)' /\ receipts'[p] > 0
      BY DEF Receipted
    <2>1. CASE worker[w].want = None
      <3>1. PICK p \in Requests : Known(p) /\ receipts[p] > 0
        BY <1>4, <2>1 DEF EntryInv, Receipted
      <3>2. Known(p)' /\ receipts'[p] > 0
        BY <1>1, <1>2, <1>5, <1>6, <1>7, <3>1 DEF Known
      <3> QED BY <3>2
    <2>2. CASE worker[w].want # None
      <3>1. worker[w].ok
        BY <1>2, <1>4, <2>2 DEF HonestWorker
      <3>2. Known(o)' /\ receipts'[o] > 0
        BY <1>1, <1>2, <1>5, <1>6, <1>7, <3>1 DEF Known
      <3> QED BY <1>2, <3>2
    <2> QED BY <2>1, <2>2
  <1>11. ASSUME NEW q \in Requests PROVE Aimed(req[q])'
    <2>1. AtWork(req[q]) => req[q].op \notin {"plan", "approve", "request_changes"}
      BY <1>2 DEF EntryInv, Aimed
    <2>2. Aimed(req[q]) /\ req'[q] = req[q]
      BY <1>5 DEF EntryInv
    <2> QED BY <2>1, <2>2 DEF Aimed, AtWork
  <1>12. ASSUME NEW v \in Workers PROVE Reported(v)'
    <2>1. CASE v = w
      <3>1. worker'[w].pc \in {"idle", "batch"}
        BY <1>1 DEF CommitEntry, IdleWorker
      <3> QED BY <2>1, <3>1 DEF Reported
    <2>2. CASE v # w
      <3>1. worker[v].pc \notin {"write", "commit"}
        BY <1>1, <1>3, <2>2, OneBusy DEF Busy
      <3>2. worker'[v] = worker[v]
        BY <1>1, <2>2 DEF CommitEntry
      <3> QED BY <3>1, <3>2 DEF Reported
    <2> QED BY <2>1, <2>2
  <1> QED BY <1>8, <1>9, <1>10, <1>11, <1>12 DEF EntryInv

\* The other steps of a worker write no row; the one that decides what to write
\* has just read the session.
LEMMA WorkerKeepsEntry ==
    ASSUME StoreInv, HandoffInv, WantInv, EntryInv, NEW w \in Workers,
           Process(w) \/ AbortBatch(w)
    PROVE  EntryInv'
  <1>1. CASE CommitEntry(w)
    BY <1>1, CommitEntryKeepsEntry
  <1>2. CASE ~CommitEntry(w)
    <2>1. UNCHANGED <<session, outbox, receipts, req>>
      BY <1>2 DEF Process, AbortBatch, FetchPending, LockEntry, DeliverEntry, ReadSession,
                  WriteSession, dbVars
    <2>2. OneEntry' /\ Waited' /\ Receipted'
      BY <2>1 DEF EntryInv, OneEntry, Waited, Receipted, Known
    <2>3. ASSUME NEW q \in Requests PROVE Aimed(req[q])'
      BY <2>1 DEF EntryInv, Aimed, AtWork, Known
    <2>4. /\ worker \in [Workers -> WorkerRecord] /\ worker[w] \in WorkerRecord
          /\ session \in SessionRow
      BY DEF StoreInv, TypeInv, TypeOK
    <2>5. ASSUME NEW v \in Workers, v # w PROVE Reported(v)'
      <3>1. worker'[v] = worker[v]
        BY <1>2, <2>4, <2>5 DEF Process, AbortBatch, FetchPending, LockEntry, DeliverEntry,
                                ReadSession, WriteSession
      <3> QED BY <2>1, <3>1 DEF EntryInv, Reported, Exhausted
    <2>6. Reported(w)'
      <3>1. CASE ReadSession(w)
        <4>1. worker' = [worker EXCEPT ![w] = [@ EXCEPT
                           !.pc = IF TargetState(w) = None THEN "commit" ELSE "write",
                           !.want = TargetState(w)]]
          BY <3>1 DEF ReadSession
        <4>2. /\ worker'[w].pc = IF TargetState(w) = None THEN "commit" ELSE "write"
              /\ worker'[w].ok = worker[w].ok /\ worker'[w].entry = worker[w].entry
              /\ worker'[w].seen = worker[w].seen /\ worker'[w].want = TargetState(w)
          BY <2>4, <4>1 DEF WorkerRecord
        <4>3. Exhausted(w)' <=> Exhausted(w)
          BY <4>2 DEF Exhausted
        <4> QED BY <2>1, <4>2, <4>3 DEF Reported, TargetState, None
      <3>2. CASE WriteSession(w)
        <4>1. worker' = [worker EXCEPT ![w].pc = "commit"] /\ worker[w].pc = "write"
          BY <3>2 DEF WriteSession
        <4>2. worker[w].want # None
          BY <4>1 DEF EntryInv, Reported
        <4> QED BY <2>4, <4>1, <4>2 DEF Reported, WorkerRecord
      <3>3. CASE ~ReadSession(w) /\ ~WriteSession(w)
        <4>1. worker'[w].pc \notin {"write", "commit"}
          <5>1. CASE FetchPending(w)
            <6>1. PICK batch, seen : worker' = [worker EXCEPT ![w] = [worker[w] EXCEPT
                      !.pc = "batch", !.todo = batch, !.seen = seen]]
              BY <2>4, <5>1 DEF FetchPending
            <6> QED BY <2>4, <6>1 DEF WorkerRecord
          <5>2. CASE \E p \in Requests : LockEntry(w, p)
            <6>1. PICK p : worker' = [worker EXCEPT ![w] = [worker[w] EXCEPT
                      !.pc = "locked", !.entry = p]]
              BY <2>4, <5>2 DEF LockEntry
            <6> QED BY <2>4, <6>1 DEF WorkerRecord
          <5>3. CASE \E outcome \in DOMAIN Delivery : DeliverEntry(w, outcome)
            <6>1. PICK ok : worker' = [worker EXCEPT ![w] = [worker[w] EXCEPT
                      !.pc = "answered", !.ok = ok]]
              BY <2>4, <5>3 DEF DeliverEntry
            <6> QED BY <2>4, <6>1 DEF WorkerRecord
          <5>4. CASE AbortBatch(w)
            BY <2>4, <5>4 DEF AbortBatch, IdleWorker
          <5> QED BY <1>2, <3>3, <5>1, <5>2, <5>3, <5>4 DEF Process
        <4> QED BY <4>1 DEF Reported
      <3> QED BY <3>1, <3>2, <3>3
    <2> QED BY <2>2, <2>3, <2>5, <2>6 DEF EntryInv
  <1> QED BY <1>1, <1>2

\* Every step keeps the invariant while requests do not overlap.
LEMMA NextEntry ==
    ASSUME StoreInv, HandoffInv, ApprovalInv, WantInv, SerialInv, EntryInv, [Next]_vars
    PROVE  EntryInv'
  <1>1. CASE UNCHANGED vars
    BY <1>1 DEF vars, EntryInv, OneEntry, Aimed, AtWork, Known, Reported, Exhausted, Waited,
                Receipted
  <1> QED BY <1>1, CallKeepsEntry, ProceedKeepsEntry, WorkerKeepsEntry DEF Next

\* Requests that do not overlap make at most one entry, and it is the entry the
\* session shows, waits for and reports about.
THEOREM EntryInvariant ==
    ASSUME MaxOpen = 1 PROVE Spec => []EntryInv
  <1> QED BY InitEntry, NextEntry, StoreInvariant, HandoffInvariant, ApprovalInvariant,
             WorkersWant, SerialInvariant, PTL DEF Spec

\* A session that waits for its handoff waits for exactly one entry, which is
\* queued and of the version on display.
THEOREM QueuedSessionsHaveOneEntry ==
    ASSUME MaxOpen = 1 PROVE Spec => []QueuedHasOneEntry
  <1>1. EntryInv => QueuedHasOneEntry
    <2> SUFFICES ASSUME EntryInv, session.state = "HANDOFF_QUEUED"
                 PROVE  /\ {o \in EntriesOf(session.version) : outbox[o].status = "PENDING"} # {}
                        /\ Cardinality(EntriesOf(session.version)) = 1
      BY DEF QueuedHasOneEntry
    <2>1. PICK o \in Requests : outbox[o].status = "PENDING"
      BY DEF EntryInv, Waited
    <2>2. EntriesOf(session.version) = {o}
      BY <2>1 DEF EntryInv, OneEntry, EntriesOf, Known
    <2> QED BY <2>1, <2>2, FS_Singleton
  <1> QED BY <1>1, EntryInvariant, PTL

\* HANDED_OFF speaks of the plan on display: its entry has a receipt.
THEOREM HandedOffPlansAreCurrent ==
    ASSUME MaxOpen = 1 PROVE Spec => []HandedOffIsCurrent
  <1>1. EntryInv => HandedOffIsCurrent
    BY DEF EntryInv, OneEntry, Receipted, HandedOffIsCurrent, EntriesOf, Known
  <1> QED BY <1>1, EntryInvariant, PTL

\* No handler consults VALID_TRANSITIONS, yet the plan is made along it: a worker
\* has no entry to write about, and what each request writes the table allows
\* from every state it accepts.
THEOREM PlanningKeepsToTable ==
    ASSUME MaxOpen = 1 PROVE Spec => PlanningFollowsTable
  <1> DEFINE Step == session.state \in {"DISCOVERING", "AWAITING_ANSWERS",
                                        "AWAITING_APPROVAL", "FAILED"}
                        => ValidChange(session.state, session'.state)
  <1>1. StoreInv /\ HandoffInv /\ SerialInv /\ EntryInv /\ [Next]_vars => [Step]_vars
    <2> SUFFICES ASSUME StoreInv, HandoffInv, SerialInv, EntryInv, Next,
                        session.state \in PlanState,
                        session'.state # session.state
                 PROVE  ValidChange(session.state, session'.state)
      BY DEF PlanState, ValidChange, vars
    <2>1. \A o \in Requests : ~Known(o)
      BY DEF EntryInv, OneEntry, DecidedState, PlanState
    <2>2. ASSUME NEW w \in Workers, Process(w) \/ AbortBatch(w) PROVE FALSE
      <3>1. CommitEntry(w)
        BY <2>2 DEF Process, AbortBatch, FetchPending, LockEntry, DeliverEntry, ReadSession,
                    WriteSession, dbVars
      <3>2. worker[w].todo \subseteq Requests /\ worker[w].entry \in worker[w].todo
        BY <3>1 DEF CommitEntry, StoreInv, TypeInv, TypeOK, BatchInv, Busy, WorkerRecord
      <3> QED BY <2>1, <3>2 DEF HandoffInv, HonestWorker
    <2>3. PICK r \in Requests : Call(r) \/ Proceed(r)
      BY <2>2 DEF Next
    <2>4. Commit(r)
      BY <2>3 DEF Call, CreateSession, AddTurn, SubmitAnswers, BeginPlanning, SubmitApproval,
                  CancelSession, RetryHandoff, Begin, Proceed, FlushSession, PlannerProposes,
                  PlannerAsks, PlannerFails, Conclude, PlannerSaysNothing, SelectProposal,
                  FlushRetry, Rollback, dbUnchanged, dbVars
    <2>5. "state" \in req[r].cols /\ session'.state = req[r].mem.state
      BY <2>4 DEF Commit, Merge
    <2>6. /\ AtWork(req[r]) /\ Aimed(req[r]) /\ Fresh(req[r])
          /\ req[r].op \in {"plan", "approve", "request_changes", "cancel", "retry"}
      BY <2>4 DEF StoreInv, TypeInv, TypeOK, RequestRecord, RequestOp, SerialInv, EntryInv,
                  Aimed, Commit, AtWork
    <2>7. CASE req[r].op = "plan"
      BY <2>5, <2>6, <2>7 DEF Aimed, PlanState, ValidChange, ValidTransition, ValidTargets
    <2>8. CASE req[r].op \in {"approve", "request_changes"}
      BY <2>5, <2>6, <2>8
         DEF Aimed, Decision, ValidChange, ValidTransition, ValidTargets
    <2>9. CASE req[r].op = "cancel"
      BY <2>5, <2>6, <2>9
         DEF Aimed, Decision, PlanState, ValidChange, ValidTransition, ValidTargets
    <2>10. CASE req[r].op = "retry"
      BY <2>5, <2>6, <2>10 DEF Fresh
    <2> QED BY <2>6, <2>7, <2>8, <2>9, <2>10
  <1>2. Spec => [][Step]_vars
    BY <1>1, StoreInvariant, HandoffInvariant, SerialInvariant, EntryInvariant, PTL DEF Spec
  <1> QED BY <1>2 DEF PlanningFollowsTable

-----------------------------------------------------------------------------
\* One worker.  Nobody delivers an entry behind its back, so what it has read
\* with its batch stays queued until it comes to it.

OneWorker == \A v, w \in Workers : v = w

\* A retry is let in by an entry that has failed.
RetriesFailure(record) ==
    AtWork(record) /\ record.op = "retry" => outbox[record.entry].status = "FAILED"

OnceInv ==
    /\ CompletedOnce
    /\ \A w \in Workers : worker[w].todo \subseteq Pending
    /\ \A r \in Requests : RetriesFailure(req[r])

\* Nothing is queued or retried initially.
LEMMA InitOnce == Init => OnceInv
  <1>1. ~AtWork(Blank("idle"))
    BY DEF Blank, AtWork
  <1>2. Init => CompletedOnce
    BY DEF Init, CompletedOnce, NoEntry
  <1> QED BY <1>1, <1>2 DEF Init, OnceInv, RetriesFailure, IdleWorker

\* A step of request r that writes no row keeps it.
LEMMA RecordKeepsOnce ==
    ASSUME StoreInv, OnceInv, NEW r \in Requests, NEW record, RetriesFailure(record),
           req' = [req EXCEPT ![r] = record],
           UNCHANGED <<outbox, receipts, worker>>
    PROVE  OnceInv'
  <1>1. \A q \in Requests : req'[q] = IF q = r THEN record ELSE req[q]
    BY DEF StoreInv, TypeInv, TypeOK
  <1>2. ASSUME NEW q \in Requests PROVE RetriesFailure(req[q])'
    <2>1. RetriesFailure(req'[q])
      BY <1>1 DEF OnceInv
    <2> QED BY <2>1 DEF RetriesFailure, AtWork
  <1> QED BY <1>2 DEF OnceInv, CompletedOnce, Pending

\* A request that begins is no retry, or has found its entry failed.
LEMMA CallKeepsOnce ==
    ASSUME StoreInv, OnceInv, NEW r \in Requests, Call(r)
    PROVE  OnceInv'
  <1>1. ASSUME NEW record, Begin(r, record), RetriesFailure(record) PROVE OnceInv'
    <2>1. req' = [req EXCEPT ![r] = record] /\ UNCHANGED <<outbox, receipts, worker>>
      BY <1>1 DEF Begin, dbUnchanged, dbVars
    <2> QED BY <1>1, <2>1, RecordKeepsOnce
  <1>2. CASE CreateSession(r)
    <2> DEFINE record == [Blank("planning") EXCEPT
                             !.op = "plan",
                             !.mem = [NoSession EXCEPT !.state = "DISCOVERING"],
                             !.cols = Column]
    <2>1. record.op = "plan" /\ Begin(r, record)
      BY <1>2 DEF Blank, CreateSession
    <2> HIDE DEF record
    <2> QED BY <1>1, <2>1 DEF RetriesFailure
  <1>3. ASSUME NEW allowed, BeginPlanning(r, allowed) PROVE OnceInv'
    <2> DEFINE record == [Blank("reopen") EXCEPT
                             !.op = "plan", !.mem = Reopened,
                             !.cols = Changed(session, Reopened)]
    <2>1. record.op = "plan" /\ Begin(r, record)
      BY <1>3 DEF Blank, BeginPlanning
    <2> HIDE DEF record
    <2> QED BY <1>1, <2>1 DEF RetriesFailure
  <1>4. ASSUME NEW action \in DOMAIN Decision, SubmitApproval(r, action) PROVE OnceInv'
    <2> DEFINE record == [Blank("select") EXCEPT
                             !.op = action, !.mem = session, !.arg = session.version]
    <2>1. record.op = action /\ Begin(r, record)
      BY <1>4 DEF Blank, SubmitApproval
    <2> HIDE DEF record
    <2>2. action # "retry"
      BY DEF Decision
    <2> QED BY <1>1, <2>1, <2>2 DEF RetriesFailure
  <1>5. CASE CancelSession(r)
    <2> DEFINE cancelled == [session EXCEPT !.state = "CANCELLED"]
               record == [Blank("update") EXCEPT
                             !.op = "cancel", !.mem = cancelled,
                             !.cols = Changed(session, cancelled)]
    <2>1. record.op = "cancel" /\ Begin(r, record)
      BY <1>5 DEF Blank, CancelSession
    <2> HIDE DEF record
    <2> QED BY <1>1, <2>1 DEF RetriesFailure
  <1>6. ASSUME NEW o \in Requests, RetryHandoff(r, o) PROVE OnceInv'
    <2> DEFINE record == [Blank("retry") EXCEPT !.op = "retry", !.entry = o]
    <2>1. record.entry = o /\ Begin(r, record) /\ outbox[o].status = "FAILED"
      BY <1>6 DEF Blank, RetryHandoff
    <2> HIDE DEF record
    <2> QED BY <1>1, <2>1 DEF RetriesFailure
  <1> QED BY <1>2, <1>3, <1>4, <1>5, <1>6 DEF Call, AddTurn, SubmitAnswers

\* A commit queues an entry that was not there, or had failed.
LEMMA CommitQueues ==
    ASSUME StoreInv, HandoffInv, OnceInv, NEW r \in Requests, Commit(r),
           NEW o \in Requests
    PROVE  \/ outbox'[o] = outbox[o]
           \/ outbox[o].status \in {"ABSENT", "FAILED"} /\ outbox'[o].status = "PENDING"
  <1>1. /\ outbox \in [Requests -> OutboxRow]
        /\ outbox' = CommittedOutbox(r) /\ AtWork(req[r]) /\ req[r].pc = "commit"
    BY DEF StoreInv, TypeInv, TypeOK, Commit, AtWork
  <1>2. CASE req[r].op = "approve"
    <2>1. outbox[r].status = "ABSENT"
      BY <1>1 DEF HandoffInv, LedgerInv, HonestEntry, Known
    <2> QED BY <1>1, <1>2, <2>1 DEF CommittedOutbox, ApprovedEntry
  <1>3. CASE req[r].op = "retry"
    <2>1. outbox[req[r].entry].status = "FAILED"
      BY <1>1, <1>3 DEF OnceInv, RetriesFailure
    <2> QED BY <1>1, <1>3, <2>1 DEF CommittedOutbox, RetriedEntry, OutboxRow
  <1>4. CASE req[r].op \notin {"approve", "retry"}
    BY <1>1, <1>4 DEF CommittedOutbox
  <1> QED BY <1>2, <1>3, <1>4

\* Every step of a request in progress keeps it.
LEMMA ProceedKeepsOnce ==
    ASSUME StoreInv, HandoffInv, SerialInv, OnceInv, NEW r \in Requests, Proceed(r)
    PROVE  OnceInv'
  <1>1. req \in [Requests -> RequestRecord] /\ req[r] \in RequestRecord
    BY DEF StoreInv, TypeInv, TypeOK
  <1>2. ASSUME NEW record, req' = [req EXCEPT ![r] = record],
               AtWork(req[r]), record.op = req[r].op, record.entry = req[r].entry,
               UNCHANGED <<outbox, receipts, worker>>
        PROVE  OnceInv'
    <2>1. RetriesFailure(record)
      BY <1>2 DEF OnceInv, RetriesFailure
    <2> QED BY <1>2, <2>1, RecordKeepsOnce
  <1>3. ASSUME NEW pc, req' = [req EXCEPT ![r].pc = pc], AtWork(req[r]),
               UNCHANGED <<outbox, receipts, worker>>
        PROVE  OnceInv'
    <2> DEFINE record == [req[r] EXCEPT !.pc = pc]
    <2>1. /\ record.op = req[r].op /\ record.entry = req[r].entry
          /\ req' = [req EXCEPT ![r] = record]
      BY <1>1, <1>3 DEF RequestRecord
    <2> HIDE DEF record
    <2> QED BY <1>2, <1>3, <2>1
  <1>4. CASE FlushSession(r)
    <2>1. AtWork(req[r]) /\ UNCHANGED <<outbox, receipts, worker>>
      BY <1>4 DEF FlushSession, AtWork, dbUnchanged, dbVars
    <2> QED BY <1>3, <1>4, <2>1 DEF FlushSession
  <1>5. CASE PlannerSaysNothing(r) \/ FlushRetry(r)
    <2>1. AtWork(req[r]) /\ UNCHANGED <<outbox, receipts, worker>>
      BY <1>5 DEF PlannerSaysNothing, FlushRetry, AtWork, dbUnchanged, dbVars
    <2> QED BY <1>3, <1>5, <2>1 DEF PlannerSaysNothing, FlushRetry
  <1>6. ASSUME NEW mem, NEW version, Conclude(r, mem, version) PROVE OnceInv'
    <2> DEFINE record == [req[r] EXCEPT
                  !.pc = "update",
                  !.mem = mem,
                  !.cols = req[r].cols \cup Changed(req[r].mem, mem),
                  !.arg = version]
    <2>1. record.op = req[r].op /\ record.entry = req[r].entry
      BY <1>1 DEF RequestRecord
    <2>2. /\ req' = [req EXCEPT ![r] = record] /\ AtWork(req[r])
          /\ UNCHANGED <<outbox, receipts, worker>>
      BY <1>6 DEF Conclude, AtWork, dbUnchanged, dbVars
    <2> HIDE DEF record
    <2> QED BY <1>2, <2>1, <2>2
  <1>7. CASE \/ \E route \in Recommended : PlannerProposes(r, route)
             \/ PlannerAsks(r) \/ PlannerFails(r)
    BY <1>6, <1>7 DEF PlannerProposes, PlannerAsks, PlannerFails
  <1>8. CASE SelectProposal(r)
    <2>1. PICK p \in ProposalsOf(req[r].arg) :
              req' = [req EXCEPT ![r] = [@ EXCEPT
                         !.pc = "update", !.mem.state = Decision[req[r].op],
                         !.cols = {"state"}, !.plan = p.route]]
      BY <1>8 DEF SelectProposal
    <2> DEFINE mem == [req[r].mem EXCEPT !.state = Decision[req[r].op]]
               record == [req[r] EXCEPT
                             !.pc = "update", !.mem = mem,
                             !.cols = {"state"}, !.plan = p.route]
    <2>2. record.op = req[r].op /\ record.entry = req[r].entry
      BY <1>1 DEF RequestRecord
    <2>3. /\ req' = [req EXCEPT ![r] = record] /\ AtWork(req[r])
          /\ UNCHANGED <<outbox, receipts, worker>>
      BY <1>1, <1>8, <2>1 DEF RequestRecord, SelectProposal, AtWork, dbUnchanged, dbVars
    <2> HIDE DEF record
    <2> QED BY <1>2, <2>2, <2>3
  <1>9. CASE Rollback(r)
    <2>1. RetriesFailure(Blank("done"))
      BY DEF Blank, RetriesFailure, AtWork
    <2>2. req' = [req EXCEPT ![r] = Blank("done")] /\ UNCHANGED <<outbox, receipts, worker>>
      BY <1>9 DEF Rollback, EndRequest, dbUnchanged, dbVars
    <2> QED BY <2>1, <2>2, RecordKeepsOnce
  <1>10. CASE Commit(r)
    <2>1. /\ AtWork(req[r]) /\ req' = [req EXCEPT ![r] = Blank("done")]
          /\ UNCHANGED <<receipts, worker>>
      BY <1>10 DEF Commit, EndRequest, AtWork
    <2>2. \A q \in Requests : ~AtWork(req'[q])
      BY <1>1, <2>1 DEF SerialInv, Alone, AtWork, Blank
    <2>3. CompletedOnce'
      BY <1>10, <2>1, CommitQueues DEF OnceInv, CompletedOnce
    <2>4. Pending \subseteq Pending'
      BY <1>10, CommitQueues DEF Pending
    <2> QED BY <2>1, <2>2, <2>3, <2>4 DEF OnceInv, RetriesFailure, AtWork
  <1> QED BY <1>4, <1>5, <1>7, <1>8, <1>9, <1>10 DEF Proceed

\* The worker's own commit is the only one that ends an entry.
LEMMA WorkerKeepsOnce ==
    ASSUME OneWorker, StoreInv, HandoffInv, OnceInv, NEW w \in Workers,
           Process(w) \/ AbortBatch(w)
    PROVE  OnceInv'
  <1>1. /\ worker \in [Workers -> WorkerRecord] /\ worker[w] \in WorkerRecord
        /\ outbox \in [Requests -> OutboxRow] /\ receipts \in [Requests -> Nat]
        /\ \A v \in Workers : v = w
    BY DEF StoreInv, TypeInv, TypeOK, OneWorker
  <1>2. req' = req
    BY DEF Process, AbortBatch, FetchPending, LockEntry, DeliverEntry, ReadSession,
           WriteSession, CommitEntry
  <1>3. CASE CommitEntry(w)
    <2>1. PICK o \in Requests : o = worker[w].entry /\ o \in worker[w].todo
      BY <1>1, <1>3 DEF CommitEntry, StoreInv, TypeInv, BatchInv, Busy, WorkerRecord
    <2>2. outbox[o].status = "PENDING"
      BY <2>1 DEF OnceInv, Pending
    <2>3. /\ outbox' = [outbox EXCEPT ![o] = DeliveredEntry(w, outbox[o])]
          /\ receipts' = [receipts EXCEPT ![o] = IF worker[w].ok THEN @ + 1 ELSE @]
      BY <1>3, <2>1 DEF CommitEntry
    <2>4. /\ worker[w].ok => DeliveredEntry(w, outbox[o]).status = "COMPLETED"
          /\ ~worker[w].ok => DeliveredEntry(w, outbox[o]).status \in {"FAILED", "PENDING"}
      BY <1>1 DEF DeliveredEntry, OutboxRow
    <2>5. receipts[o] = 0
      BY <1>1, <2>2 DEF OnceInv, CompletedOnce
    <2>6. ASSUME NEW p \in Requests
          PROVE  /\ outbox'[p] = IF p = o THEN DeliveredEntry(w, outbox[o]) ELSE outbox[p]
                 /\ receipts'[p] = IF p = o /\ worker[w].ok THEN 1 ELSE receipts[p]
      BY <1>1, <2>3, <2>5
    <2>7. CompletedOnce'
      BY <2>4, <2>5, <2>6 DEF OnceInv, CompletedOnce
    <2>8. worker'[w].todo = worker[w].todo \ {o}
      BY <1>1, <1>3, <2>1 DEF CommitEntry, IdleWorker
    <2>9. worker'[w].todo \subseteq Pending'
      BY <2>6, <2>8 DEF OnceInv, Pending
    <2>10. ASSUME NEW q \in Requests PROVE RetriesFailure(req[q])'
      <3>1. AtWork(req[q]) /\ req[q].op = "retry" =>
               req[q].entry \in Requests /\ req[q].entry # o
        BY <2>2 DEF HandoffInv, HonestRecord, OnceInv, RetriesFailure
      <3> QED BY <1>2, <2>6, <3>1 DEF OnceInv, RetriesFailure, AtWork
    <2> QED BY <1>1, <2>7, <2>9, <2>10 DEF OnceInv
  <1>4. CASE ~CommitEntry(w)
    <2>1. UNCHANGED <<outbox, receipts>>
      BY <1>4 DEF Process, AbortBatch, FetchPending, LockEntry, DeliverEntry, ReadSession,
                  WriteSession, dbVars
    <2>2. worker'[w].todo \subseteq Pending
      <3>1. CASE FetchPending(w)
        <4>1. PICK batch \in SUBSET Pending : \E seen :
                  worker' = [worker EXCEPT ![w] = [worker[w] EXCEPT
                      !.pc = "batch", !.todo = batch, !.seen = seen]]
          BY <1>1, <3>1 DEF FetchPending
        <4> QED BY <1>1, <4>1 DEF WorkerRecord
      <3>2. CASE \E p \in Requests : LockEntry(w, p)
        <4>1. PICK p : worker' = [worker EXCEPT ![w] = [worker[w] EXCEPT
                  !.pc = "locked", !.entry = p]]
          BY <1>1, <3>2 DEF LockEntry
        <4> QED BY <1>1, <4>1 DEF WorkerRecord, OnceInv
      <3>3. CASE \E outcome \in DOMAIN Delivery : DeliverEntry(w, outcome)
        <4>1. PICK ok : worker' = [worker EXCEPT ![w] = [worker[w] EXCEPT
                  !.pc = "answered", !.ok = ok]]
          BY <1>1, <3>3 DEF DeliverEntry
        <4> QED BY <1>1, <4>1 DEF WorkerRecord, OnceInv
      <3>4. CASE ReadSession(w)
        <4>1. PICK pc, want : worker' = [worker EXCEPT ![w] = [worker[w] EXCEPT
                  !.pc = pc, !.want = want]]
          BY <1>1, <3>4 DEF ReadSession
        <4> QED BY <1>1, <4>1 DEF WorkerRecord, OnceInv
      <3>5. CASE WriteSession(w)
        <4>1. worker' = [worker EXCEPT ![w] = [worker[w] EXCEPT !.pc = "commit"]]
          BY <1>1, <3>5 DEF WriteSession
        <4> QED BY <1>1, <4>1 DEF WorkerRecord, OnceInv
      <3>6. CASE AbortBatch(w)
        BY <1>1, <3>6 DEF AbortBatch, IdleWorker
      <3> QED BY <1>4, <3>1, <3>2, <3>3, <3>4, <3>5, <3>6 DEF Process
    <2> QED BY <1>1, <1>2, <2>1, <2>2 DEF OnceInv, CompletedOnce, Pending, RetriesFailure,
                                         AtWork
  <1> QED BY <1>3, <1>4

\* Every step keeps it, with one worker and requests that do not overlap.
LEMMA NextOnce ==
    ASSUME OneWorker, StoreInv, HandoffInv, SerialInv, OnceInv, [Next]_vars
    PROVE  OnceInv'
  <1>1. CASE UNCHANGED vars
    BY <1>1 DEF vars, OnceInv, CompletedOnce, Pending, RetriesFailure, AtWork
  <1> QED BY <1>1, CallKeepsOnce, ProceedKeepsOnce, WorkerKeepsOnce DEF Next

\* With one worker, what is in its batch is queued and what is retried has failed.
THEOREM OnceInvariant ==
    ASSUME MaxOpen = 1, OneWorker PROVE Spec => []OnceInv
  <1>1. StoreInv /\ HandoffInv /\ SerialInv /\ OnceInv /\ [Next]_vars => OnceInv'
    BY NextOnce
  <1> QED BY <1>1, InitOnce, StoreInvariant, HandoffInvariant, SerialInvariant, PTL DEF Spec

\* An entry is completed once: COMPLETED and one receipt go together, across lost
\* transactions and retries.
THEOREM EntriesCompleteOnce ==
    ASSUME MaxOpen = 1, OneWorker PROVE Spec => []CompletedOnce
  <1>1. OnceInv => CompletedOnce
    BY DEF OnceInv
  <1> QED BY <1>1, OnceInvariant, PTL

\* And a completed entry is never written or delivered again.
THEOREM CompletedEntriesRest ==
    ASSUME MaxOpen = 1, OneWorker PROVE Spec => CompletedIsFinal
  <1> DEFINE Step == \A o \in Requests : outbox[o].status = "COMPLETED" =>
                         outbox'[o] = outbox[o] /\ jobs'[o] = jobs[o]
  <1>1. StoreInv /\ HandoffInv /\ OnceInv /\ [Next]_vars => [Step]_vars
    <2> SUFFICES ASSUME StoreInv, HandoffInv, OnceInv, Next,
                        NEW o \in Requests, outbox[o].status = "COMPLETED"
                 PROVE  outbox'[o] = outbox[o] /\ jobs'[o] = jobs[o]
      OBVIOUS
    <2>1. ASSUME NEW r \in Requests, Call(r) \/ Proceed(r)
          PROVE  outbox'[o] = outbox[o] /\ jobs'[o] = jobs[o]
      <3>1. CASE Commit(r)
        BY <3>1, CommitQueues DEF Commit
      <3>2. CASE ~Commit(r)
        BY <2>1, <3>2
           DEF Call, CreateSession, AddTurn, SubmitAnswers, BeginPlanning, SubmitApproval,
               CancelSession, RetryHandoff, Begin, Proceed, FlushSession, PlannerProposes,
               PlannerAsks, PlannerFails, Conclude, PlannerSaysNothing, SelectProposal,
               FlushRetry, Rollback, dbUnchanged, dbVars
      <3> QED BY <3>1, <3>2
    <2>2. ASSUME NEW w \in Workers, Process(w) \/ AbortBatch(w)
          PROVE  outbox'[o] = outbox[o] /\ jobs'[o] = jobs[o]
      <3>1. worker[w].pc \in Busy => worker[w].entry # o
        BY DEF StoreInv, TypeInv, BatchInv, OnceInv, Pending
      <3>2. outbox \in [Requests -> OutboxRow] /\ jobs \in [Requests -> Nat]
        BY DEF StoreInv, TypeInv, TypeOK
      <3>3. CASE CommitEntry(w)
        BY <3>1, <3>2, <3>3 DEF CommitEntry, Busy
      <3>4. CASE \E outcome \in DOMAIN Delivery : DeliverEntry(w, outcome)
        BY <3>1, <3>2, <3>4 DEF DeliverEntry, Busy, dbVars
      <3> QED BY <2>2, <3>3, <3>4 DEF Process, AbortBatch, FetchPending, LockEntry,
                                      ReadSession, WriteSession, dbVars
    <2> QED BY <2>1, <2>2 DEF Next
  <1>2. Spec => [][Step]_vars
    BY <1>1, StoreInvariant, HandoffInvariant, OnceInvariant, PTL DEF Spec
  <1> QED BY <1>2 DEF CompletedIsFinal
=============================================================================
