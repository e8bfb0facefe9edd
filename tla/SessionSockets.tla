--------------------------- MODULE SessionSockets ---------------------------
(***************************************************************************)
(* The WebSocket connections of LLMDEPLOYER: the lists of                  *)
(* ConnectionManager, the handlers that add and remove sockets, and the    *)
(* loop of send_to_session, which awaits one socket after the other.       *)
(*                                                                         *)
(* Python iterates over a list object by position.  connect and remove     *)
(* change the session's list in place, disconnect puts a new list in its   *)
(* stead: a loop that has begun goes on over the old one.  A walk is `live'*)
(* while the list it iterates over is still the session's, and otherwise   *)
(* keeps the list as it was when it was replaced.                          *)
(***************************************************************************)
EXTENDS Naturals, SequencesExt, Lists

CONSTANTS
    Sessions,        \* the session ids
    Senders,         \* the coroutines that may call send_to_session
    Sockets,         \* the connections that clients may open
    Nobody           \* no session, no sender and no socket

ASSUME SocketAssumption ==
    Nobody \notin Sessions /\ Nobody \notin Sockets /\ Nobody \notin Senders

VARIABLES
    socket,          \* the client's end and the handler of each connection
    listeners,       \* active_connections; a missing key is an empty list
    walk             \* the loop of each sender

socketVars == <<socket, listeners, walk>>

\* A socket is open; or gone: its peer is, the handler has yet to notice; or
\* left: its handler called disconnect; or stray: its handler raised instead.
SocketState == {"new", "open", "gone", "left", "stray"}

SocketRecord == [state : SocketState, session : Sessions \cup {Nobody}]

\* `now' is the socket whose send is awaited, `at' its position, `dead' those
\* whose send raised.  `owed' are the sockets that were listed when the loop
\* began and have not had their turn; the code does not record them.
Walk == [session : Sessions \cup {Nobody}, live : BOOLEAN, frozen : Seq(Sockets),
         at : Nat, now : Sockets \cup {Nobody}, dead : Seq(Sockets),
         owed : SUBSET Sockets]

AtRest == [session |-> Nobody, live |-> FALSE, frozen |-> <<>>, at |-> 0,
           now |-> Nobody, dead |-> <<>>, owed |-> {}]

SocketsInit ==
    /\ socket = [w \in Sockets |-> [state |-> "new", session |-> Nobody]]
    /\ listeners = [s \in Sessions |-> <<>>]
    /\ walk = [r \in Senders |-> AtRest]

Walking(r) == walk[r].now # Nobody

\* The list the loop of r iterates over, and what is left of it.
Walked(r) == IF walk[r].live THEN listeners[walk[r].session] ELSE walk[r].frozen

Ahead(r) == {Walked(r)[i] : i \in walk[r].at + 1 .. Len(Walked(r))}

Without(list, gone) == Only(list, ToSet(list) \ gone)

-----------------------------------------------------------------------------
\* The handlers.

\* Mutant of Connect: the list is made anew for each connection.
ConnectAlone(w, s) ==
    /\ socket[w].state = "new"
    /\ socket' = [socket EXCEPT ![w] = [state |-> "open", session |-> s]]
    /\ listeners' = [listeners EXCEPT ![s] = <<w>>]
    /\ UNCHANGED walk

\* After accept the socket is appended and told the status of the session.
Connect(w, s) ==
    /\ socket[w].state = "new"
    /\ socket' = [socket EXCEPT ![w] = [state |-> "open", session |-> s]]
    /\ listeners' = [listeners EXCEPT ![s] = Append(@, w)]
    /\ UNCHANGED walk

\* The peer closes or is lost.
PeerLeaves(w) ==
    /\ socket[w].state = "open"
    /\ socket' = [socket EXCEPT ![w].state = "gone"]
    /\ UNCHANGED <<listeners, walk>>

\* Mutant of Disconnect: the socket is removed from the list in place.
DisconnectInPlace(w) ==
    /\ socket[w].state = "gone"
    /\ socket' = [socket EXCEPT ![w].state = "left"]
    /\ listeners' = [listeners EXCEPT ![socket[w].session] = Without(@, {w})]
    /\ UNCHANGED walk

\* receive_text raises WebSocketDisconnect: a new list without the socket.
Disconnect(w) ==
    LET s == socket[w].session IN
    /\ socket[w].state = "gone"
    /\ socket' = [socket EXCEPT ![w].state = "left"]
    /\ walk' = [r \in Senders |->
          IF walk[r].live /\ walk[r].session = s
          THEN [walk[r] EXCEPT !.live = FALSE, !.frozen = listeners[s]]
          ELSE walk[r]]
    /\ listeners' = [listeners EXCEPT ![s] = Without(@, {w})]

\* Anything else the handler raises (a text that is not an object, a greeting
\* that cannot be sent) passes by disconnect, and the server closes the socket.
HandlerRaises(w) ==
    /\ socket[w].state \in {"open", "gone"}
    /\ socket' = [socket EXCEPT ![w].state = "stray"]
    /\ UNCHANGED <<listeners, walk>>

-----------------------------------------------------------------------------
\* send_to_session, called by r for session s with listeners.

BeginWalk(r, s) ==
    /\ walk' = [walk EXCEPT ![r] =
          [session |-> s, live |-> TRUE, frozen |-> <<>>, at |-> 1,
           now |-> Head(listeners[s]), dead |-> <<>>,
           owed |-> ToSet(Tail(listeners[s]))]]
    /\ UNCHANGED <<socket, listeners>>

\* What the awaited send may do: a closed socket's raises, but a lost peer may
\* not have been noticed yet.
SendOutcomes(w) ==
    IF socket[w].state = "open" THEN {"sent"}
    ELSE IF socket[w].state = "gone" THEN {"sent", "raised"} ELSE {"raised"}

DeadAfter(r, outcome) ==
    IF outcome = "sent" THEN walk[r].dead ELSE Append(walk[r].dead, walk[r].now)

MoreToSend(r) == walk[r].at < Len(Walked(r))

WalkOn(r, outcome) ==
    LET w == Walked(r)[walk[r].at + 1] IN
    /\ walk' = [walk EXCEPT ![r].at = @ + 1, ![r].now = w, ![r].owed = @ \ {w},
                            ![r].dead = DeadAfter(r, outcome)]
    /\ UNCHANGED <<socket, listeners>>

\* list.remove raises at the first dead socket that the session's list, which
\* may be another one by now, does not have.
Missing(r, dead) ==
    {i \in DOMAIN dead : dead[i] \notin ToSet(listeners[walk[r].session])}

Removed(r, dead) ==
    {dead[i] : i \in {k \in DOMAIN dead : \A m \in Missing(r, dead) : k < m}}

EndWalk(r, dead) ==
    /\ listeners' = [listeners EXCEPT ![walk[r].session] =
                        Without(@, Removed(r, dead))]
    /\ walk' = [walk EXCEPT ![r] = AtRest]
    /\ UNCHANGED socket

-----------------------------------------------------------------------------
SocketStep ==
    \/ \E w \in Sockets, s \in Sessions : Connect(w, s)
    \/ \E w \in Sockets : PeerLeaves(w) \/ Disconnect(w) \/ HandlerRaises(w)

SocketTypeOK ==
    /\ socket \in [Sockets -> SocketRecord]
    /\ listeners \in [Sessions -> Seq(Sockets)]
    /\ walk \in [Senders -> Walk]
=============================================================================
