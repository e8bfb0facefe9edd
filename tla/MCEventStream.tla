---------------------------- MODULE MCEventStream ----------------------------
\* The event stream by itself, with a bound on what is published.
EXTENDS EventStream

CONSTANT MaxEvents   \* bound: events of a session

\* A name makes no difference to the stream: all events have one.
BoundedNext ==
    \/ \E s \in Sessions :
          Len(published[s]) < MaxEvents /\ Publish(s, "state_changed")
    \/ \E c \in Sockets : StreamStep(c)

Spec == StreamInit /\ [][BoundedNext]_streamVars
=============================================================================
