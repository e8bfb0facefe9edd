------------------------------ MODULE EventFeed ------------------------------
(***************************************************************************)
(* What BACKEND promises to a client that follows a session's events       *)
(* (BACKEND/implementation_prompt_backend.md:270, "monotonically sequenced *)
(* ... events"): from some point on it gets every event, each once and in  *)
(* order.  That point lies back as far as the session does, or at least    *)
(* MaxHistory events.  The snapshot sent besides is not represented.       *)
(***************************************************************************)
EXTENDS Naturals, Sequences

CONSTANTS Sessions, Sockets, Nobody, MaxHistory

VARIABLES
    count,           \* the number of events each session has had
    reader           \* of each client: whom it follows, after which event, and
                     \* what it has got since

vars == <<count, reader>>

Away == [session |-> Nobody, after |-> 0, got |-> <<>>]

Init ==
    /\ count = [s \in Sessions |-> 0]
    /\ reader = [c \in Sockets |-> Away]

Happen(s) ==
    /\ count' = [count EXCEPT ![s] = @ + 1]
    /\ UNCHANGED reader

Follow(c, s) ==
    /\ reader[c] = Away
    /\ \E after \in 0 .. count[s] :
          /\ after = 0 \/ count[s] - after >= MaxHistory
          /\ reader' = [reader EXCEPT ![c] =
                           [session |-> s, after |-> after, got |-> <<>>]]
    /\ UNCHANGED count

\* The next event is the one after those it has got.
Receive(c) ==
    LET next == reader[c].after + Len(reader[c].got) + 1 IN
    /\ reader[c] # Away
    /\ next <= count[reader[c].session]
    /\ reader' = [reader EXCEPT ![c].got = Append(@, next)]
    /\ UNCHANGED count

Drop(c) ==
    /\ reader' = [reader EXCEPT ![c] = Away]
    /\ UNCHANGED count

Next ==
    \/ \E s \in Sessions : Happen(s)
    \/ \E c \in Sockets : Receive(c) \/ Drop(c) \/ \E s \in Sessions : Follow(c, s)

Spec == Init /\ [][Next]_vars
=============================================================================
