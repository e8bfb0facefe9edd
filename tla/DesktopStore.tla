---------------------------- MODULE DesktopStore ----------------------------
(***************************************************************************)
(* FRONTEND: the session store of the desktop and the buttons that call    *)
(* it, against BACKEND's REST handlers and EventStream.  The desktop is    *)
(* one thread: an action is the code from one await or callback to the     *)
(* next.                                                                   *)
(*                                                                         *)
(* PlanningApi has the handlers in full.  Here a call is its outcome, in   *)
(* three steps that others may come between: the handler decides and       *)
(* publishes, the transaction commits, and the reply arrives.              *)
(***************************************************************************)
EXTENDS EventStream, FiniteSets

CONSTANTS
    Calls,           \* bound: the kinds of calls that the user makes
    Fetches,         \* bound: refreshes awaited at a time
    MaxVersion,      \* bound: plan versions of a session
    MaxEvents        \* bound: events of a session

VARIABLES
    row,             \* the committed row of each session
    call,            \* the REST call the user has made
    sock,            \* the WebSocket objects, from connectWs to the reconnect
    current,         \* `ws', the socket the store knows
    connected,       \* the indicator
    view,            \* session, questions and proposal as the store has them
    fetch            \* the refreshes under way

storeVars == <<sock, current, connected, view, fetch>>

vars == <<streamVars, row, call, storeVars>>

-----------------------------------------------------------------------------
\* Records.

None == "NONE"

Planning == {"DISCOVERING", "AWAITING_ANSWERS"}

HandoffState == {"HANDOFF_QUEUED", "HANDOFF_FAILED", "HANDED_OFF"}

State == {None, "AWAITING_APPROVAL", "FAILED", "CANCELLED"} \cup Planning \cup HandoffState

Row == [state : State, version : Nat]

NoRow == [state |-> None, version |-> 0]

Kind == {"create", "turn", "answers", "approve", "request_changes", "cancel", "retry"}

\* A served call holds the row it is going to commit.
Call == [pc : {"idle", "asked", "served", "committed", "replied", "refused"},
         kind : Kind, session : Sessions \cup {Nobody}, row : Row]

NoCall == [pc |-> "idle", kind |-> "create", session |-> Nobody, row |-> NoRow]

Socket == [phase : {"free", "dialing", "connecting", "open", "closing", "waiting"},
           session : Sessions \cup {Nobody}]

FreeSocket == [phase |-> "free", session |-> Nobody]

Proposal == [session : Sessions \cup {Nobody}, version : Nat]

NoProposal == [session |-> Nobody, version |-> 0]

\* What is on the screen; the questions are told apart by whose they are.
View == [session : Sessions \cup {Nobody}, row : Row,
         questions : Sessions \cup {Nobody}, proposal : Proposal]

Fetch == [pc : {"free", "asked", "read", "more", "found"},
          session : Sessions \cup {Nobody}, row : Row]

NoFetch == [pc |-> "free", session |-> Nobody, row |-> NoRow]

-----------------------------------------------------------------------------
\* What BACKEND answers.

\* The planner's outcomes; a version is added with a proposal.
Planned(r) ==
    {[r EXCEPT !.state = state] : state \in Planning \cup {"FAILED"}}
    \cup
    (IF r.version < MaxVersion
     THEN {[state |-> "AWAITING_APPROVAL", version |-> r.version + 1]} ELSE {})

Allowed == [create          |-> {None},
            turn            |-> {"AWAITING_ANSWERS", "AWAITING_APPROVAL", "FAILED"},
            answers         |-> Planning,
            approve         |-> {"AWAITING_APPROVAL"},
            request_changes |-> {"AWAITING_APPROVAL"},
            cancel          |-> State \ {None, "HANDED_OFF"},
            retry           |-> {"HANDOFF_FAILED"}]

\* The row after a call that is not refused; retry changes another table.
Results(kind, r) ==
    CASE kind \in {"create", "turn", "answers"} -> Planned(r)
      [] kind = "approve"         -> {[r EXCEPT !.state = "HANDOFF_QUEUED"]}
      [] kind = "request_changes" -> {[r EXCEPT !.state = "DISCOVERING"]}
      [] kind = "cancel"          -> {[r EXCEPT !.state = "CANCELLED"]}
      [] kind = "retry"           -> {r}

\* The event of a planning cycle; the code adds assistant_message and others.
CycleEvent == [AWAITING_APPROVAL |-> "proposal_ready", AWAITING_ANSWERS |-> "questions_ready",
               DISCOVERING |-> "assistant_message", FAILED |-> "error"]

\* The event that a call publishes.
Announced(kind, r) ==
    CASE kind \in {"create", "turn", "answers"} ->
            CycleEvent[r.state]
      [] kind = "approve" -> "handoff_queued"
      [] kind = "cancel"  -> "state_changed"
      [] OTHER            -> None

Relevant == {"assistant_message", "proposal_ready", "questions_ready", "handoff_queued",
             "handoff_completed", "state_changed"}

-----------------------------------------------------------------------------
\* The store's refreshes.

\* refresh begins when there is room for one more.
Refresh(s) ==
    \E f \in Fetches :
        /\ fetch[f].pc = "free"
        /\ fetch' = [fetch EXCEPT ![f] = [NoFetch EXCEPT !.pc = "asked", !.session = s]]

\* The server answers GET session, and the reply is on its way.
ReadSession(f) ==
    /\ fetch[f].pc = "asked"
    /\ fetch' = [fetch EXCEPT ![f].pc = "read", ![f].row = row[fetch[f].session]]
    /\ UNCHANGED <<streamVars, row, call, sock, current, connected, view>>

\* The reply: the store has a session, and may have to ask for more.
SessionArrives(f) ==
    /\ fetch[f].pc = "read"
    /\ view' = [view EXCEPT !.session = fetch[f].session, !.row = fetch[f].row]
    /\ fetch' = [fetch EXCEPT ![f] =
          IF fetch[f].row.state \in {"AWAITING_ANSWERS", "AWAITING_APPROVAL"} \cup HandoffState
          THEN [@ EXCEPT !.pc = "more"] ELSE NoFetch]
    /\ UNCHANGED <<streamVars, row, call, sock, current, connected>>

\* GET questions are those of the current version: none, when there is a newer
\* one by now.  GET proposal is the latest.
ReadMore(f) ==
    LET now == row[fetch[f].session].version IN
    /\ fetch[f].pc = "more"
    /\ fetch' = [fetch EXCEPT ![f].pc = "found",
          ![f].row.version =
              IF fetch[f].row.state = "AWAITING_ANSWERS" THEN IF @ = now THEN 1 ELSE 0
              ELSE now]
    /\ UNCHANGED <<streamVars, row, call, sock, current, connected, view>>

\* The handoff that is found is only displayed.
MoreArrives(f) ==
    LET s == fetch[f].session
        found == fetch[f].row.version IN
    /\ fetch[f].pc = "found"
    /\ view' = CASE fetch[f].row.state = "AWAITING_ANSWERS" ->
                       [view EXCEPT !.questions = IF found = 1 THEN s ELSE Nobody]
                 [] fetch[f].row.state = "AWAITING_APPROVAL" ->
                       [view EXCEPT !.proposal = [session |-> s, version |-> found]]
                 [] OTHER -> view
    /\ fetch' = [fetch EXCEPT ![f] = NoFetch]
    /\ UNCHANGED <<streamVars, row, call, sock, current, connected>>

\* Either request fails: the error is displayed.
FetchFails(f) ==
    /\ fetch[f].pc \in {"asked", "more"}
    /\ fetch' = [fetch EXCEPT ![f] = NoFetch]
    /\ UNCHANGED <<streamVars, row, call, sock, current, connected, view>>

-----------------------------------------------------------------------------
\* The store's sockets.

\* connectWs up to the await: close() does nothing to a socket that is closed.
ConnectWs(c, s) ==
    sock' = [x \in Sockets |->
                IF x = c THEN [phase |-> "dialing", session |-> s]
                ELSE IF x = current /\ sock[x].phase \in {"connecting", "open"}
                THEN [sock[x] EXCEPT !.phase = "closing"]
                ELSE sock[x]]

\* The token is there: the socket is made and becomes the store's.
Dial(c) ==
    /\ sock[c].phase = "dialing"
    /\ sock' = [sock EXCEPT ![c].phase = "connecting"]
    /\ current' = c
    /\ UNCHANGED <<streamVars, row, call, connected, view, fetch>>

\* The server accepts, and onopen fires.
Opens(c) ==
    /\ sock[c].phase = "connecting"
    /\ Accept(c, sock[c].session)
    /\ sock' = [sock EXCEPT ![c].phase = "open"]
    /\ connected' = TRUE
    /\ UNCHANGED <<row, call, current, view, fetch>>

\* The network fails, or the server goes away from the connection.
Drops(c) ==
    /\ sock[c].phase \in {"connecting", "open"}
    /\ sock' = [sock EXCEPT ![c].phase = "closing"]
    /\ UNCHANGED <<streamVars, row, call, current, connected, view, fetch>>

\* Mutant of Closes: only the store's own socket turns the indicator off.
ClosesUnnoticed(c) ==
    /\ sock[c].phase = "closing"
    /\ sock' = [sock EXCEPT ![c].phase = "waiting"]
    /\ connected' = (connected /\ c # current)
    /\ UNCHANGED <<streamVars, row, call, current, view, fetch>>

\* onclose, whoever closed the socket: reconnect in three seconds.
Closes(c) ==
    /\ sock[c].phase = "closing"
    /\ sock' = [sock EXCEPT ![c].phase = "waiting"]
    /\ connected' = FALSE
    /\ UNCHANGED <<streamVars, row, call, current, view, fetch>>

\* The timer: connectWs for the session of the socket that was closed, which may
\* not be the selected one.  (The model reuses the socket.)
Reconnects(c) ==
    /\ sock[c].phase = "waiting" /\ conn[c].pc = "none"
    /\ ConnectWs(c, sock[c].session)
    /\ UNCHANGED <<streamVars, row, call, current, connected, view, fetch>>

\* Mutant of Receives: no second refresh while one is under way.
ReceivesWhenQuiet(c) ==
    /\ sock[c].phase = "open"
    /\ SendEvent(c)
    /\ IF /\ published[conn[c].session][Head(Due(c))] \in Relevant
          /\ \A f \in Fetches : fetch[f].pc = "free"
       THEN Refresh(conn[c].session) ELSE UNCHANGED fetch
    /\ UNCHANGED <<row, call, sock, current, connected, view>>

\* onmessage: an event of interest starts a refresh, nothing else is done.
Receives(c) ==
    /\ sock[c].phase = "open"
    /\ SendEvent(c)
    /\ IF published[conn[c].session][Head(Due(c))] \in Relevant
       THEN Refresh(conn[c].session) ELSE UNCHANGED fetch
    /\ UNCHANGED <<row, call, sock, current, connected, view>>

\* The other steps of the server's handler.
Handles(c) ==
    /\ \/ Subscribe(c)
       \/ SendSnapshot(c)
       \/ sock[c].phase \notin {"connecting", "open"} /\ HandlerEnds(c)
    /\ UNCHANGED <<row, call, storeVars>>

-----------------------------------------------------------------------------
\* The user: `loading' disables the panels while a call is awaited.

Ask(kind, s, r) ==
    /\ kind \in Calls
    /\ call.pc = "idle"
    /\ call' = [pc |-> "asked", kind |-> kind, session |-> s, row |-> r]

\* What the screen offers: the input, the questions, the proposal, the status.
Offered(kind) ==
    CASE kind = "turn"    -> view.row.state \in Planning /\ view.proposal = NoProposal
      [] kind = "answers" -> view.questions # Nobody
      [] kind \in {"approve", "request_changes"} ->
            view.proposal # NoProposal /\ view.row.version > 0
      [] kind = "cancel"  -> view.proposal # NoProposal
      [] kind = "retry"   -> view.row.state = "HANDOFF_FAILED" /\ view.row.version > 0
      [] OTHER            -> FALSE

\* A panel's call is for the session and the version of the status line.
Click(kind) ==
    /\ view.session # Nobody
    /\ Offered(kind)
    /\ Ask(kind, view.session, view.row)
    /\ UNCHANGED <<streamVars, row, storeVars>>

\* The dialog for a new session.
Create(s) ==
    /\ row[s] = NoRow
    /\ Ask("create", s, NoRow)
    /\ UNCHANGED <<streamVars, row, storeVars>>

\* selectSession, for a session in the sidebar: it leaves questions and proposal
\* as they are.
Select(s) ==
    /\ row[s] # NoRow
    /\ call.kind = "create" => call.session # s
    /\ \E c \in Sockets : sock[c].phase = "free" /\ conn[c].pc = "none" /\ ConnectWs(c, s)
    /\ Refresh(s)
    /\ UNCHANGED <<streamVars, row, call, current, connected, view>>

-----------------------------------------------------------------------------
\* The call at the server and its reply.

\* The guards of the handler; approvals also send a version.
Accepted ==
    LET now == row[call.session] IN
    /\ now.state \in Allowed[call.kind]
    /\ call.kind \in {"approve", "request_changes"} => call.row.version = now.version

Serve ==
    LET s == call.session IN
    /\ call.pc = "asked"
    /\ Accepted
    /\ \E r \in Results(call.kind, row[s]) :
          /\ call' = [call EXCEPT !.pc = "served", !.row = r]
          /\ IF Announced(call.kind, r) = None THEN UNCHANGED streamVars
             ELSE /\ Len(published[s]) < MaxEvents
                  /\ Publish(s, Announced(call.kind, r))
    /\ UNCHANGED <<row, storeVars>>

\* A guard fails, or the transaction is lost, after the events were published.
Refuse ==
    /\ call.pc \in {"asked", "served"}
    /\ call' = [call EXCEPT !.pc = "refused"]
    /\ UNCHANGED <<streamVars, row, storeVars>>

\* get_db_session commits before the response or, from FastAPI 0.118, after it.
Commit ==
    /\ call.pc \in {"served", "replied"}
    /\ row' = [row EXCEPT ![call.session] = call.row]
    /\ call' = IF call.pc = "served" THEN [call EXCEPT !.pc = "committed"] ELSE NoCall
    /\ UNCHANGED <<streamVars, storeVars>>

\* What each function of the store does with the reply.
AfterReply ==
    LET s == call.session
        kind == call.kind
        shown == [view EXCEPT !.session = s, !.row = call.row]
    IN  CASE kind \in {"create", "turn", "cancel"} -> shown
          [] kind = "answers" -> [shown EXCEPT !.questions = Nobody]
          [] kind \in {"approve", "request_changes"} -> [view EXCEPT !.proposal = NoProposal]
          [] kind = "retry" -> view

\* createSession connects; all but cancel refresh.
Replies ==
    /\ call.pc \in {"served", "committed"}
    /\ view' = AfterReply
    /\ call' = IF call.pc = "served" THEN [call EXCEPT !.pc = "replied"] ELSE NoCall
    /\ IF call.kind = "create"
       THEN \E c \in Sockets : /\ sock[c].phase = "free" /\ conn[c].pc = "none"
                               /\ ConnectWs(c, call.session)
       ELSE UNCHANGED sock
    /\ IF call.kind = "cancel" THEN UNCHANGED fetch ELSE Refresh(call.session)
    /\ UNCHANGED <<streamVars, row, current, connected>>

\* The error is displayed.
RepliesError ==
    /\ call.pc = "refused"
    /\ call' = NoCall
    /\ UNCHANGED <<streamVars, row, storeVars>>

\* The outbox worker, whose events go to the broadcaster of its own process.
WorkerMoves(s) ==
    /\ row[s].state \in {"HANDOFF_QUEUED", "HANDOFF_FAILED"}
    /\ \E state \in {"HANDED_OFF", "HANDOFF_FAILED"} : row' = [row EXCEPT ![s].state = state]
    /\ UNCHANGED <<streamVars, call, storeVars>>

-----------------------------------------------------------------------------
Init ==
    /\ StreamInit
    /\ row = [s \in Sessions |-> NoRow]
    /\ call = NoCall
    /\ sock = [c \in Sockets |-> FreeSocket]
    /\ current = Nobody
    /\ connected = FALSE
    /\ view = [session |-> Nobody, row |-> NoRow,
               questions |-> Nobody, proposal |-> NoProposal]
    /\ fetch = [f \in Fetches |-> NoFetch]

FetchStep(f) ==
    ReadSession(f) \/ SessionArrives(f) \/ ReadMore(f) \/ MoreArrives(f) \/ FetchFails(f)

\* The steps of a connection that come by themselves.
SocketStep(c) ==
    \/ Dial(c) \/ Opens(c) \/ Closes(c) \/ Reconnects(c)
    \/ Receives(c) \/ Handles(c)

UserStep ==
    \/ \E s \in Sessions : Create(s) \/ Select(s)
    \/ \E kind \in Kind : Click(kind)

Next ==
    \/ UserStep
    \/ Serve \/ Refuse \/ Commit \/ Replies \/ RepliesError
    \/ \E s \in Sessions : WorkerMoves(s)
    \/ \E f \in Fetches : FetchStep(f)
    \/ \E c \in Sockets : SocketStep(c) \/ Drops(c)

Spec == Init /\ [][Next]_vars

\* Timers fire and requests are answered or fail; a handler whose client has gone
\* finds out with its next ping.  Nobody has to click and no network has to fail.
FairSpec ==
    /\ Spec
    /\ \A f \in Fetches : WF_vars(FetchStep(f))
    /\ \A c \in Sockets : WF_vars(SocketStep(c))

-----------------------------------------------------------------------------
TypeOK ==
    /\ StreamTypeOK
    /\ row \in [Sessions -> Row]
    /\ call \in Call
    /\ sock \in [Sockets -> Socket]
    /\ current \in Sockets \cup {Nobody}
    /\ connected \in BOOLEAN
    /\ view \in View
    /\ fetch \in [Fetches -> Fetch]

\* The indicator says connected only while a socket is open whose end the store
\* has not been told: old sockets, new ones and sockets that overlapping calls of
\* connectWs have made unknown to the store all write it.
ConnectedIsOpen == connected => \E c \in Sockets : sock[c].phase \in {"open", "closing"}

-----------------------------------------------------------------------------
\* Liveness.

\* A socket of the desktop is closed or lost.
Cut == \E c \in Sockets : /\ sock[c].phase \in {"connecting", "open"}
                          /\ sock'[c].phase = "closing"

\* An event of interest is kept by the server and has not reached the desktop,
\* which has a socket, or a timer to make one.
Expected(s, n) ==
    /\ n \in DOMAIN published[s] /\ published[s][n] \in Relevant
    /\ \E i \in DOMAIN history[s] : history[s][i] = n
    /\ \E c \in Sockets : sock[c].phase # "free" /\ sock[c].session = s
    /\ \A c \in Sockets : conn[c].session = s =>
          \A i \in DOMAIN conn[c].sent : conn[c].sent[i] # n

Refetched(s, n) ==
    /\ \E f \in Fetches : fetch[f].pc = "asked" /\ fetch[f].session = s
    /\ \E c \in Sockets : /\ conn[c].session = s /\ conn[c].sent # <<>>
                          /\ conn[c].sent[Len(conn[c].sent)] = n

\* An event, also one published while the connection was down, is followed by a
\* refetch of its session, unless it falls out of the history first; connections
\* may be cut, but not again and again.
EventIsRefetched ==
    \A s \in Sessions : \A n \in 1 .. MaxEvents :
        []<><<Cut>>_vars
        \/ (Expected(s, n) ~> (Refetched(s, n) \/ \A i \in DOMAIN history[s] : history[s][i] > n))

-----------------------------------------------------------------------------
\* What the code does not keep.

\* BACKEND/implementation_prompt_backend.md:24, "explicitly approves the exact
\* version that is being sent": an approval is for the plan on the screen.
\* Creating or selecting another session replaces the session of the status
\* line, which Approve sends, and keeps the proposal on the screen.
ApprovesWhatIsShown ==
    [][call'.pc = "asked" /\ call'.kind = "approve" /\ call.pc = "idle" =>
          view.proposal = [session |-> call'.session,
                           version |-> call'.row.version]]_vars
=============================================================================
