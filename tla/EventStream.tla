----------------------------- MODULE EventStream -----------------------------
(***************************************************************************)
(* The live events of BACKEND's planning sessions: the EventBroadcaster of *)
(* one server process and the handlers of the WebSocket endpoint.  An      *)
(* action is the code from one await that can wait to the next.            *)
(*                                                                         *)
(* An event is its place among the events of its session.  The code takes  *)
(* the number from a counter that subscriptions use up, too: its numbers   *)
(* have gaps and the same order.                                           *)
(***************************************************************************)
EXTENDS Integers, Sequences

CONSTANTS
    Sessions,        \* the session ids
    Sockets,         \* the connections; one that has ended may be used again
    Nobody,          \* not a session
    MaxHistory       \* _max_history, 100 in the code

ASSUME HistoryAssumption == MaxHistory \in Nat \ {0}

ASSUME NobodyAssumption == Nobody \notin Sessions

VARIABLES
    published,       \* the events of each session, as their names, in order
    history,         \* _event_history: the events kept for later subscribers
    conn             \* the handler of each connection

streamVars == <<published, history, conn>>

-----------------------------------------------------------------------------
\* The names that the server process publishes.
EventName == {"state_changed", "assistant_message", "questions_ready", "proposal_ready",
              "approval_required", "handoff_queued", "error"}

\* `replay' is what is left of the history read at the subscription, `queue'
\* the subscriber's queue, `sent' what the client was sent.
Handler == [pc : {"none", "accepted", "replaying", "live"},
            session : Sessions \cup {Nobody},
            replay : Seq(Nat), queue : Seq(Nat), sent : Seq(Nat)]

NoHandler == [pc |-> "none", session |-> Nobody,
              replay |-> <<>>, queue |-> <<>>, sent |-> <<>>]

StreamInit ==
    /\ published = [s \in Sessions |-> <<>>]
    /\ history = [s \in Sessions |-> <<>>]
    /\ conn = [c \in Sockets |-> NoHandler]

\* Mutant of Subscribed: the queue is registered when the history is sent.
SubscribedWhenLive(c, s) == conn[c].session = s /\ conn[c].pc = "live"

Subscribed(c, s) == conn[c].session = s /\ conn[c].pc \in {"replaying", "live"}

\* The slice [-_max_history:].
Kept(events) == SubSeq(events, Len(events) - MaxHistory + 1, Len(events))

-----------------------------------------------------------------------------
\* publish, which does not wait: the queues have no bound.
Publish(s, name) ==
    LET event == Len(published[s]) + 1
        events == Append(history[s], event)
    IN  /\ published' = [published EXCEPT ![s] = Append(@, name)]
        /\ history' = [history EXCEPT ![s] =
                          IF Len(events) > MaxHistory THEN Kept(events) ELSE events]
        /\ conn' = [c \in Sockets |->
                       IF Subscribed(c, s)
                       THEN [conn[c] EXCEPT !.queue = Append(@, event)]
                       ELSE conn[c]]

\* The handler accepts, checks the token and reads the session's row.
Accept(c, s) ==
    /\ conn[c].pc = "none"
    /\ conn' = [conn EXCEPT ![c] = [NoHandler EXCEPT !.pc = "accepted", !.session = s]]
    /\ UNCHANGED <<published, history>>

\* subscribe and get_history_after, without an await between them.  The desktop
\* does not send after_sequence; all numbers exceed the default of 0.
Subscribe(c) ==
    /\ conn[c].pc = "accepted"
    /\ conn' = [conn EXCEPT ![c].pc = "replaying",
                            ![c].replay = history[conn[c].session]]
    /\ UNCHANGED <<published, history>>

\* The next event that the handler sends, and its sending.
Due(c) == IF conn[c].pc = "replaying" THEN conn[c].replay ELSE conn[c].queue

SendEvent(c) ==
    /\ conn[c].pc \in {"replaying", "live"}
    /\ Due(c) # <<>>
    /\ conn' = [conn EXCEPT
          ![c].replay = IF conn[c].pc = "replaying" THEN Tail(@) ELSE @,
          ![c].queue = IF conn[c].pc = "live" THEN Tail(@) ELSE @,
          ![c].sent = Append(@, Head(Due(c)))]
    /\ UNCHANGED <<published, history>>

\* The snapshot, of the row as it was before the subscription, and the loop.
SendSnapshot(c) ==
    /\ conn[c].pc = "replaying" /\ conn[c].replay = <<>>
    /\ conn' = [conn EXCEPT ![c].pc = "live"]
    /\ UNCHANGED <<published, history>>

\* A send raises.  In the loop, finally unsubscribes; before it nobody does, and
\* a queue that is not read any more stays among the subscribers.
HandlerEnds(c) ==
    /\ conn[c].pc # "none"
    /\ conn' = [conn EXCEPT ![c] = NoHandler]
    /\ UNCHANGED <<published, history>>

StreamStep(c) ==
    \/ \E s \in Sessions : Accept(c, s)
    \/ Subscribe(c) \/ SendEvent(c) \/ SendSnapshot(c) \/ HandlerEnds(c)

StreamNext ==
    \/ \E s \in Sessions, name \in EventName : Publish(s, name)
    \/ \E c \in Sockets : StreamStep(c)

StreamSpec == StreamInit /\ [][StreamNext]_streamVars

-----------------------------------------------------------------------------
StreamTypeOK ==
    /\ published \in [Sessions -> Seq(EventName)]
    /\ history \in [Sessions -> Seq(Nat)]
    /\ conn \in [Sockets -> Handler]

\* The list ends with the newest of n events, in order and without a gap, and it
\* goes back at least as far as the history.
EndsWithNewest(events, n) ==
    /\ Len(events) <= n
    /\ events = [i \in 1 .. Len(events) |-> n - Len(events) + i]
    /\ Len(events) = n \/ Len(events) >= MaxHistory

\* What a client was sent, and is still to be sent, is the end of what has been
\* published: nothing is lost, repeated or out of order at the seam between the
\* history and the queue.
StreamHasNoSeam ==
    \A c \in Sockets : conn[c].pc \in {"replaying", "live"} =>
        EndsWithNewest(conn[c].sent \o conn[c].replay \o conn[c].queue,
                       Len(published[conn[c].session]))

\* What has been sent to the client of a handler and is to be sent to it yet.
Known(h) == h.sent \o h.replay \o h.queue

Following(h) == h.pc \in {"replaying", "live"}

Reader(h, events) ==
    IF Following(h)
    THEN [session |-> h.session,
          after |-> Len(events[h.session]) - Len(Known(h)),
          got |-> h.sent]
    ELSE [session |-> Nobody, after |-> 0, got |-> <<>>]

\* To its clients the stream is an EventFeed: each connection gets, from some
\* event on, all events of its session once and in order, whatever is published
\* between the subscription, the replay and the loop.
Feed == INSTANCE EventFeed WITH
    count  <- [s \in Sessions |-> Len(published[s])],
    reader <- [c \in Sockets |-> Reader(conn[c], published)]

FeedKept == Feed!Spec
=============================================================================
