------------------------------ MODULE JobEvents ------------------------------
(***************************************************************************)
(* The events of one job of APPDEVELOPER: event_service.emit, the table it *)
(* writes, and the handlers that send a snapshot and then live events to a *)
(* client.  An action is the code from one await that can wait to the next.*)
(***************************************************************************)
EXTENDS Naturals, FiniteSets, SequencesExt, Lists

CONSTANTS
    Build,           \* the coroutine that builds and reviews the job
    Cancels,         \* calls that may cancel the job meanwhile
    Watchers         \* WebSocket connections to the job's events

ASSUME EmitterAssumption == Build \notin Cancels

Emitters == {Build} \cup Cancels

VARIABLES
    rows,            \* the event table, in the order of insertion
    emit,            \* the call of emit each emitter is in
    watcher          \* the handler of each connection

eventVars == <<rows, emit, watcher>>

-----------------------------------------------------------------------------
EventName == {"STATE_CHANGED", "VALIDATION_STARTED", "VALIDATION_RESULT",
              "REVIEW_FINDING", "COMPLETED", "ERROR"}

\* What emit is called with; `passed' is the payload of VALIDATION_RESULT.
Event == [name : EventName, passed : BOOLEAN]

EventOf(name) == [name |-> name, passed |-> FALSE]

Nothing == EventOf("STATE_CHANGED")

Row == [by : Emitters, event : Event, sequence : Nat \ {0}]

EmitRecord == [pc : {"rest", "numbered", "stored"}, event : Event, sequence : Nat]

Silent == [pc |-> "rest", event |-> Nothing, sequence |-> 0]

\* `snapshot' are the rows in the snapshot, `live' those put in the queue since
\* the subscription, by their place in the table.  The handler's loop sends the
\* queue in its order; how far it has come makes no difference to others.
WatcherRecord == [pc : {"new", "snapshot", "live", "gone"},
                  subscribed : BOOLEAN, snapshot : Seq(Nat), live : Seq(Nat)]

Watcher(pc) == [pc |-> pc, subscribed |-> FALSE, snapshot |-> <<>>, live |-> <<>>]

EventsInit ==
    /\ rows = <<>>
    /\ emit = [e \in Emitters |-> Silent]
    /\ watcher = [w \in Watchers |-> Watcher("new")]

\* The rows an emitter has written, oldest first, and those of them in a list.
Own(e, list) == Only(list, {i \in DOMAIN rows : rows[i].by = e})

RowsOf(e) == Own(e, [i \in DOMAIN rows |-> i])

Newest(e) == Max({i \in DOMAIN rows : rows[i].by = e})

-----------------------------------------------------------------------------
\* emit: three awaits, each of which lets others run.

AtRest(e) == emit[e].pc = "rest"

\* Mutant of NextSequence: the number is not incremented.
LastSequence == IF rows = <<>> THEN 1 ELSE Max({rows[i].sequence : i \in DOMAIN rows})

NextSequence ==
    IF rows = <<>> THEN 1 ELSE Max({rows[i].sequence : i \in DOMAIN rows}) + 1

\* get_max_sequence, in a transaction of its own.
BeginEmit(e, event) ==
    /\ AtRest(e)
    /\ emit' = [emit EXCEPT ![e] =
                   [pc |-> "numbered", event |-> event, sequence |-> NextSequence]]
    /\ UNCHANGED <<rows, watcher>>

Store(e) ==
    /\ emit[e].pc = "numbered"
    /\ rows' = Append(rows, [by |-> e, event |-> emit[e].event,
                             sequence |-> emit[e].sequence])
    /\ emit' = [emit EXCEPT ![e].pc = "stored"]
    /\ UNCHANGED watcher

\* The queues have no bound, so put_nowait never raises.
Offered(w, row) ==
    IF watcher[w].subscribed THEN [watcher[w] EXCEPT !.live = Append(@, row)]
    ELSE watcher[w]

\* After the refresh: _broadcast, which does not wait.
Broadcast(e) ==
    /\ emit[e].pc = "stored"
    /\ watcher' = [w \in Watchers |-> Offered(w, Newest(e))]
    /\ emit' = [emit EXCEPT ![e] = Silent]
    /\ UNCHANGED rows

-----------------------------------------------------------------------------
\* The handler of a connection.

\* ORDER BY sequence says nothing of equal numbers: the older or the newer row
\* may come first.
Precedes(i, k, olderFirst) ==
    \/ rows[i].sequence < rows[k].sequence
    \/ rows[i].sequence = rows[k].sequence /\ IF olderFirst THEN i < k ELSE k < i

Listing(olderFirst) ==
    [n \in DOMAIN rows |->
        CHOOSE i \in DOMAIN rows :
            Cardinality({k \in DOMAIN rows : Precedes(k, i, olderFirst)}) = n - 1]

\* accept and get_snapshot: the job row, which stays, and then its events.
ReadEvents(w) ==
    /\ watcher[w].pc = "new"
    /\ \E olderFirst \in BOOLEAN :
          watcher' = [watcher EXCEPT ![w].pc = "snapshot",
                                     ![w].snapshot = Listing(olderFirst)]
    /\ UNCHANGED <<rows, emit>>

\* The snapshot is sent: subscribe.
Subscribe(w) ==
    /\ watcher[w].pc = "snapshot"
    /\ watcher' = [watcher EXCEPT ![w].pc = "live", ![w].subscribed = TRUE]
    /\ UNCHANGED <<rows, emit>>

\* The client has gone: a send or the wait for a pong raises, and finally
\* unsubscribes.  What it was sent is of no interest any more.  A wait of 30
\* seconds is followed by a ping, answered or not.
Leave(w) ==
    /\ watcher[w].pc \in {"snapshot", "live"}
    /\ watcher' = [watcher EXCEPT ![w] = Watcher("gone")]
    /\ UNCHANGED <<rows, emit>>

EmitStep(e) == Store(e) \/ Broadcast(e)

WatcherStep(w) == ReadEvents(w) \/ Subscribe(w) \/ Leave(w)

EventsTypeOK ==
    /\ rows \in Seq(Row)
    /\ emit \in [Emitters -> EmitRecord]
    /\ watcher \in [Watchers -> WatcherRecord]
=============================================================================
