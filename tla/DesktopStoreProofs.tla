------------------------- MODULE DesktopStoreProofs -------------------------
(***************************************************************************)
(* Proofs about the event stream, for any set of sessions and connections, *)
(* any history and any desktop: every step of the desktop is a step of the *)
(* stream or none, and the stream has no seam.                             *)
(*                                                                         *)
(* StreamHasNoSeam is not inductive: what a subscriber finds in the        *)
(* history must itself be the end of what was published, and a handler     *)
(* that has begun its loop has nothing left to replay.                     *)
(***************************************************************************)
EXTENDS DesktopStore, TLAPS, SequenceTheorems

HistoryInv == \A s \in Sessions : EndsWithNewest(history[s], Len(published[s]))

HandlerInv ==
    \A c \in Sockets :
        /\ conn[c].pc # "none" => conn[c].session \in Sessions
        /\ conn[c].pc = "accepted" => conn[c].sent = <<>> /\ conn[c].queue = <<>>
        /\ conn[c].pc = "live" => conn[c].replay = <<>>

StreamInv == StreamTypeOK /\ HistoryInv /\ HandlerInv /\ StreamHasNoSeam

-----------------------------------------------------------------------------
\* The end of a list, element by element.
LEMMA EndElements ==
    ASSUME NEW q \in Seq(Nat), NEW n \in Nat
    PROVE  EndsWithNewest(q, n) <=>
              /\ Len(q) <= n
              /\ \A i \in 1 .. Len(q) : q[i] = n - Len(q) + i
              /\ Len(q) = n \/ Len(q) >= MaxHistory
  <1> DEFINE last == [i \in 1 .. Len(q) |-> n - Len(q) + i]
  <1>1. DOMAIN q = 1 .. Len(q) /\ q = [i \in 1 .. Len(q) |-> q[i]]
    BY LenProperties
  <1>2. q = last <=> \A i \in 1 .. Len(q) : q[i] = n - Len(q) + i
    BY <1>1
  <1> QED BY <1>2 DEF EndsWithNewest

\* A list that ends with the newest event does so with the next one appended.
LEMMA EndAppend ==
    ASSUME NEW q \in Seq(Nat), NEW n \in Nat, EndsWithNewest(q, n)
    PROVE  EndsWithNewest(Append(q, n + 1), n + 1)
  <1> DEFINE r == Append(q, n + 1)
  <1>1. /\ r \in Seq(Nat)
        /\ Len(r) = Len(q) + 1
        /\ \A i \in 1 .. Len(q) : r[i] = q[i]
        /\ r[Len(q) + 1] = n + 1
    BY AppendProperties
  <1>2. Len(q) \in Nat
    BY LenProperties
  <1>3. \A i \in 1 .. Len(q) : q[i] = n - Len(q) + i
    BY EndElements
  <1>4. Len(q) <= n /\ (Len(q) = n \/ Len(q) >= MaxHistory)
    BY DEF EndsWithNewest
  <1>5. \A i \in 1 .. Len(r) : r[i] = (n + 1) - Len(r) + i
    <2> SUFFICES ASSUME NEW i \in 1 .. Len(r)
                 PROVE  r[i] = (n + 1) - Len(r) + i
      OBVIOUS
    <2>1. CASE i \in 1 .. Len(q)
      BY <2>1, <1>1, <1>2, <1>3
    <2>2. CASE i = Len(q) + 1
      BY <2>2, <1>1, <1>2
    <2> QED BY <2>1, <2>2, <1>1, <1>2
  <1>6. Len(r) <= n + 1 /\ (Len(r) = n + 1 \/ Len(r) >= MaxHistory)
    BY <1>1, <1>2, <1>4, HistoryAssumption
  <1>7. n + 1 \in Nat
    OBVIOUS
  <1> QED BY <1>1, <1>5, <1>6, <1>7, EndElements

\* Cutting the history down to its bound keeps its end.
LEMMA EndKept ==
    ASSUME NEW q \in Seq(Nat), NEW n \in Nat, EndsWithNewest(q, n), Len(q) > MaxHistory
    PROVE  Kept(q) \in Seq(Nat) /\ EndsWithNewest(Kept(q), n)
  <1> DEFINE m == Len(q) - MaxHistory + 1
             r == Kept(q)
  <1>1. Len(q) \in Nat /\ m \in Int /\ m <= Len(q) /\ m >= 1
    BY LenProperties, HistoryAssumption
  <1>2. \A i \in m .. Len(q) : q[i] \in Nat
    BY <1>1, ElementOfSeq
  <1>3. /\ r \in Seq(Nat)
        /\ Len(r) = Len(q) - m + 1
        /\ \A i \in 1 .. Len(q) - m + 1 : r[i] = q[m + i - 1]
    <2> HIDE DEF m
    <2>1. Len(q) \in Int
      BY <1>1
    <2> QED BY <1>1, <1>2, <2>1, SubSeqProperties DEF Kept, m
  <1>4. Len(r) = MaxHistory
    BY <1>1, <1>3, HistoryAssumption
  <1>5. \A i \in 1 .. Len(q) : q[i] = n - Len(q) + i
    BY EndElements
  <1>6. Len(q) <= n
    BY DEF EndsWithNewest
  <1>7. \A i \in 1 .. Len(r) : r[i] = n - Len(r) + i
    <2> SUFFICES ASSUME NEW i \in 1 .. Len(r) PROVE r[i] = n - Len(r) + i
      OBVIOUS
    <2>1. i \in 1 .. Len(q) - m + 1 /\ m + i - 1 \in 1 .. Len(q)
      BY <1>1, <1>3, <1>4, HistoryAssumption
    <2>2. r[i] = q[m + i - 1]
      BY <1>3, <2>1
    <2>3. q[m + i - 1] = n - Len(q) + (m + i - 1)
      BY <1>5, <2>1
    <2> QED BY <2>1, <2>2, <2>3, <1>1, <1>4, HistoryAssumption
  <1>8. Len(r) <= n
    BY <1>1, <1>4, <1>6, HistoryAssumption
  <1>9. r \in Seq(Nat) /\ (Len(r) = n \/ Len(r) >= MaxHistory)
    BY <1>3, <1>4, HistoryAssumption
  <1> HIDE DEF r
  <1>10. EndsWithNewest(r, n)
    BY <1>7, <1>8, <1>9, EndElements
  <1> QED BY <1>9, <1>10 DEF r

\* A send moves an event from the front of the replay, or of the queue behind an
\* empty replay, to the end of what was sent; the whole stays the same.
LEMMA SentFromReplay ==
    ASSUME NEW a \in Seq(Nat), NEW b \in Seq(Nat), NEW c \in Seq(Nat), b # <<>>
    PROVE  Append(a, Head(b)) \o Tail(b) \o c = a \o b \o c
  <1>1. Head(b) \in Nat /\ Tail(b) \in Seq(Nat) /\ <<Head(b)>> \in Seq(Nat)
    BY HeadTailProperties
  <1>2. Append(a, Head(b)) = a \o <<Head(b)>>
    BY <1>1, AppendIsConcat
  <1>3. <<Head(b)>> \o Tail(b) = b
    BY ConcatSimplifications, HeadTailProperties
  <1>4. Append(a, Head(b)) \o Tail(b) = a \o b
    BY <1>1, <1>2, <1>3, ConcatAssociative
  <1> QED BY <1>4

\* The same for a send from the queue, behind a replay that is over.
LEMMA SentFromQueue ==
    ASSUME NEW a \in Seq(Nat), NEW c \in Seq(Nat), c # <<>>
    PROVE  Append(a, Head(c)) \o <<>> \o Tail(c) = a \o <<>> \o c
  <1>1. Head(c) \in Nat /\ Tail(c) \in Seq(Nat) /\ Append(a, Head(c)) \in Seq(Nat)
    BY HeadTailProperties, AppendProperties
  <1>2. a \o <<>> = a /\ Append(a, Head(c)) \o <<>> = Append(a, Head(c))
    BY <1>1, ConcatEmptySeq
  <1>3. Append(a, Head(c)) = a \o <<Head(c)>>
    BY <1>1, AppendIsConcat
  <1>4. <<Head(c)>> \in Seq(Nat) /\ <<Head(c)>> \o Tail(c) = c
    BY <1>1, ConcatSimplifications, HeadTailProperties
  <1>5. Append(a, Head(c)) \o Tail(c) = a \o c
    <2>1. (a \o <<Head(c)>>) \o Tail(c) = a \o (<<Head(c)>> \o Tail(c))
      BY <1>1, <1>4, ConcatAssociative
    <2> QED BY <1>3, <1>4, <2>1
  <1> QED BY <1>2, <1>5

\* A new event at the end of the queue is at the end of the whole.
LEMMA QueuedAtEnd ==
    ASSUME NEW a \in Seq(Nat), NEW b \in Seq(Nat), NEW c \in Seq(Nat), NEW e \in Nat
    PROVE  a \o b \o Append(c, e) = Append(a \o b \o c, e)
  <1>1. a \o b \in Seq(Nat) /\ <<e>> \in Seq(Nat) /\ a \o b \o c \in Seq(Nat)
    BY ConcatProperties
  <1>2. Append(c, e) = c \o <<e>> /\ Append(a \o b \o c, e) = (a \o b \o c) \o <<e>>
    BY <1>1, AppendIsConcat
  <1> QED BY <1>1, <1>2, ConcatAssociative

\* The empty list is the end of no events.
LEMMA EndEmpty ==
    ASSUME NEW q \in Seq(Nat), Len(q) = 0
    PROVE  EndsWithNewest(q, 0)
  <1>1. 0 \in Nat /\ \A i \in 1 .. Len(q) : q[i] = 0 - Len(q) + i
    OBVIOUS
  <1>2. Len(q) <= 0 /\ (Len(q) = 0 \/ Len(q) >= MaxHistory)
    OBVIOUS
  <1> QED BY <1>1, <1>2, EndElements

-----------------------------------------------------------------------------
\* Initially nothing is published and nobody listens.
LEMMA InitStreamInv == StreamInit => StreamInv
  <1> SUFFICES ASSUME StreamInit PROVE StreamInv
    OBVIOUS
  <1> USE DEF StreamInit, NoHandler
  <1>1. <<>> \in Seq(Nat) /\ <<>> \in Seq(EventName) /\ Len(<<>>) = 0
    BY EmptySeq
  <1>2. StreamTypeOK
    BY <1>1 DEF StreamTypeOK, Handler
  <1>3. EndsWithNewest(<<>>, 0)
    BY <1>1, EndEmpty
  <1>4. HistoryInv
    BY <1>1, <1>3 DEF HistoryInv
  <1>5. HandlerInv /\ StreamHasNoSeam
    BY DEF HandlerInv, StreamHasNoSeam
  <1> QED BY <1>2, <1>4, <1>5 DEF StreamInv

\* publish adds the event to the history and to the queue of every subscriber.
LEMMA PublishStreamInv ==
    ASSUME StreamInv, NEW s \in Sessions, NEW name \in EventName, Publish(s, name)
    PROVE  StreamInv'
  <1> DEFINE n == Len(published[s])
             events == Append(history[s], n + 1)
  <1> USE DEF StreamInv
  <1>1. /\ published[s] \in Seq(EventName) /\ history[s] \in Seq(Nat)
        /\ n \in Nat /\ n + 1 \in Nat
    BY LenProperties DEF StreamTypeOK
  <1>2. events \in Seq(Nat) /\ EndsWithNewest(events, n + 1)
    BY <1>1, EndAppend, AppendProperties DEF HistoryInv
  <1>3. /\ published' = [published EXCEPT ![s] = Append(published[s], name)]
        /\ published'[s] \in Seq(EventName)
        /\ Len(published'[s]) = n + 1
    <2>1. published' = [published EXCEPT ![s] = Append(published[s], name)]
      BY DEF Publish
    <2>2. published'[s] = Append(published[s], name)
      BY <2>1 DEF StreamTypeOK
    <2> QED BY <1>1, <2>1, <2>2, AppendProperties
  <1>4. /\ history' = [history EXCEPT ![s] = history'[s]]
        /\ history'[s] \in Seq(Nat)
        /\ EndsWithNewest(history'[s], n + 1)
    <2>1. history' = [history EXCEPT ![s] =
                         IF Len(events) > MaxHistory THEN Kept(events) ELSE events]
      BY DEF Publish
    <2>2. history'[s] = IF Len(events) > MaxHistory THEN Kept(events) ELSE events
      BY <2>1 DEF StreamTypeOK
    <2> HIDE DEF events
    <2>3. CASE Len(events) > MaxHistory
      BY <1>1, <1>2, <2>1, <2>2, <2>3, EndKept
    <2>4. CASE ~(Len(events) > MaxHistory)
      BY <1>2, <2>1, <2>2, <2>4
    <2> QED BY <2>3, <2>4
  <1>5. \A c \in Sockets :
           conn'[c] = IF Subscribed(c, s)
                      THEN [conn[c] EXCEPT !.queue = Append(conn[c].queue, n + 1)]
                      ELSE conn[c]
    BY DEF Publish
  <1>6. \A c \in Sockets : conn[c] \in Handler /\ conn'[c] \in Handler
    <2> SUFFICES ASSUME NEW c \in Sockets PROVE conn[c] \in Handler /\ conn'[c] \in Handler
      OBVIOUS
    <2>1. conn[c] \in Handler
      BY DEF StreamTypeOK
    <2>2. Append(conn[c].queue, n + 1) \in Seq(Nat)
      BY <1>1, <2>1, AppendProperties DEF Handler
    <2> QED BY <1>5, <2>1, <2>2 DEF Handler
  <1>7. StreamTypeOK'
    <2>1. conn' \in [Sockets -> Handler]
      BY <1>6 DEF Publish
    <2> QED BY <1>3, <1>4, <2>1 DEF StreamTypeOK
  <1>8. HistoryInv'
    BY <1>3, <1>4 DEF HistoryInv, StreamTypeOK
  <1>9. HandlerInv'
    <2>1. ASSUME NEW c \in Sockets
          PROVE  /\ conn'[c].pc = conn[c].pc /\ conn'[c].session = conn[c].session
                 /\ conn'[c].sent = conn[c].sent /\ conn'[c].replay = conn[c].replay
                 /\ conn[c].pc = "accepted" => conn'[c].queue = conn[c].queue
      BY <1>5, <1>6 DEF Subscribed, Handler
    <2> QED BY <2>1 DEF HandlerInv
  <1>10. StreamHasNoSeam'
    <2> SUFFICES ASSUME NEW c \in Sockets, conn'[c].pc \in {"replaying", "live"}
                 PROVE  EndsWithNewest(conn'[c].sent \o conn'[c].replay \o conn'[c].queue,
                                       Len(published'[conn'[c].session]))
      BY DEF StreamHasNoSeam
    <2> DEFINE all == conn[c].sent \o conn[c].replay \o conn[c].queue
    <2>1. /\ conn[c].pc \in {"replaying", "live"} /\ conn'[c].session = conn[c].session
          /\ conn[c].session \in Sessions
          /\ conn'[c].sent = conn[c].sent /\ conn'[c].replay = conn[c].replay
      BY <1>5, <1>6 DEF HandlerInv, Handler
    <2>2. /\ conn[c].sent \in Seq(Nat) /\ conn[c].replay \in Seq(Nat)
          /\ conn[c].queue \in Seq(Nat)
      BY <1>6 DEF Handler
    <2>3. all \in Seq(Nat) /\ EndsWithNewest(all, Len(published[conn[c].session]))
      BY <2>1, <2>2, ConcatProperties DEF StreamHasNoSeam
    <2>4. CASE conn[c].session = s
      <3>1. conn'[c].queue = Append(conn[c].queue, n + 1)
        BY <1>5, <1>6, <2>1, <2>4 DEF Subscribed, Handler
      <3>2. conn'[c].sent \o conn'[c].replay \o conn'[c].queue = Append(all, n + 1)
        <4> DEFINE a == conn[c].sent
                   b == conn[c].replay
                   q == conn[c].queue
                   e == n + 1
        <4>1. a \in Seq(Nat) /\ b \in Seq(Nat) /\ q \in Seq(Nat) /\ e \in Nat
          BY <1>1, <2>2
        <4> HIDE DEF a, b, q, e
        <4>2. a \o b \o Append(q, e) = Append(a \o b \o q, e)
          BY <4>1, QueuedAtEnd
        <4> QED BY <2>1, <3>1, <4>2 DEF a, b, q, e
      <3>3. EndsWithNewest(Append(all, n + 1), n + 1)
        BY <1>1, <2>3, <2>4, EndAppend
      <3> QED BY <1>3, <2>1, <2>4, <3>2, <3>3
    <2>5. CASE conn[c].session # s
      <3>1. conn'[c] = conn[c] /\ published'[conn[c].session] = published[conn[c].session]
        BY <1>3, <1>5, <2>1, <2>5 DEF Subscribed, StreamTypeOK
      <3> QED BY <2>3, <3>1
    <2> QED BY <2>4, <2>5
  <1> QED BY <1>7, <1>8, <1>9, <1>10

\* A handler's step leaves the others, and what is published, as they are.
LEMMA HandlerStreamInv ==
    ASSUME StreamInv, NEW c \in Sockets, StreamStep(c)
    PROVE  StreamInv'
  <1> USE DEF StreamInv
  <1> DEFINE all(d) == conn[d].sent \o conn[d].replay \o conn[d].queue
  <1>1. published' = published /\ history' = history
    BY DEF StreamStep, Accept, Subscribe, SendEvent, SendSnapshot, HandlerEnds
  <1>2. HistoryInv'
    BY <1>1 DEF HistoryInv
  <1>3. conn[c] \in Handler /\ NoHandler \in Handler
    <2>1. <<>> \in Seq(Nat)
      BY EmptySeq
    <2> QED BY <2>1 DEF StreamTypeOK, Handler, NoHandler
  <1>4. \A d \in Sockets \ {c} : conn'[d] = conn[d]
    BY DEF StreamTypeOK, StreamStep, Accept, Subscribe, SendEvent, SendSnapshot, HandlerEnds
  <1>5. \A s \in Sessions : EndsWithNewest(history[s], Len(published[s]))
                              /\ history[s] \in Seq(Nat)
    BY DEF HistoryInv, StreamTypeOK
  <1> DEFINE Good(h) ==
        /\ h \in Handler
        /\ h.pc # "none" => h.session \in Sessions
        /\ h.pc = "accepted" => h.sent = <<>> /\ h.queue = <<>>
        /\ h.pc = "live" => h.replay = <<>>
        /\ h.pc \in {"replaying", "live"} =>
              EndsWithNewest(h.sent \o h.replay \o h.queue, Len(published[h.session]))
  <1>6. \A d \in Sockets : Good(conn[d])
    BY DEF StreamTypeOK, HandlerInv, StreamHasNoSeam
  <1>7. Good(conn'[c]) /\ conn' = [conn EXCEPT ![c] = conn'[c]]
    <2>1. CASE \E s \in Sessions : Accept(c, s)
      <3> PICK s \in Sessions : Accept(c, s)
        BY <2>1
      <3> DEFINE h == [NoHandler EXCEPT !.pc = "accepted", !.session = s]
      <3>1. conn' = [conn EXCEPT ![c] = h]
        BY DEF Accept
      <3>2. /\ h \in Handler /\ h.pc = "accepted" /\ h.session = s
            /\ h.sent = <<>> /\ h.queue = <<>>
        BY <1>3 DEF NoHandler, Handler
      <3>3. conn'[c] = h
        BY <3>1 DEF StreamTypeOK
      <3> HIDE DEF h
      <3> QED BY <3>1, <3>2, <3>3
    <2>2. CASE Subscribe(c)
      <3> DEFINE h == history[conn[c].session]
      <3>1. /\ conn' = [conn EXCEPT ![c] = [conn[c] EXCEPT !.pc = "replaying", !.replay = h]]
            /\ conn[c].pc = "accepted"
        BY <2>2 DEF Subscribe, StreamTypeOK
      <3>2. /\ h \in Seq(Nat) /\ EndsWithNewest(h, Len(published[conn[c].session]))
            /\ conn[c].sent = <<>> /\ conn[c].queue = <<>> /\ conn[c].session \in Sessions
        BY <1>5, <1>6, <3>1
      <3>3. <<>> \o h \o <<>> = h
        BY <3>2, ConcatEmptySeq
      <3>4. conn'[c] = [conn[c] EXCEPT !.pc = "replaying", !.replay = h]
        BY <3>1 DEF StreamTypeOK
      <3> HIDE DEF h
      <3>5. /\ conn'[c].sent = <<>> /\ conn'[c].queue = <<>> /\ conn'[c].replay = h
            /\ conn'[c].session = conn[c].session /\ conn'[c].pc = "replaying"
            /\ conn'[c] \in Handler
        BY <1>3, <3>2, <3>4 DEF Handler
      <3>6. conn'[c].sent \o conn'[c].replay \o conn'[c].queue = h
        BY <3>3, <3>5
      <3> QED BY <3>1, <3>2, <3>4, <3>5, <3>6
    <2>3. CASE SendEvent(c)
      <3> DEFINE h == conn[c]
                 k == conn'[c]
      <3>1. /\ h.sent \in Seq(Nat) /\ h.replay \in Seq(Nat) /\ h.queue \in Seq(Nat)
            /\ h.session \in Sessions /\ h.pc \in {"replaying", "live"}
            /\ EndsWithNewest(h.sent \o h.replay \o h.queue, Len(published[h.session]))
        BY <1>3, <1>6, <2>3 DEF Handler, SendEvent
      <3>2. conn' = [conn EXCEPT ![c] = k]
        BY <2>3 DEF SendEvent, StreamTypeOK
      <3>3. CASE h.pc = "replaying"
        <4>1. k = [h EXCEPT !.replay = Tail(h.replay), !.queue = h.queue,
                            !.sent = Append(h.sent, Head(h.replay))]
              /\ h.replay # <<>>
          BY <2>3, <3>3 DEF SendEvent, StreamTypeOK, Due
        <4>2. /\ k.sent = Append(h.sent, Head(h.replay)) /\ k.replay = Tail(h.replay)
              /\ k.queue = h.queue /\ k.pc = h.pc /\ k.session = h.session
          BY <1>3, <4>1 DEF Handler
        <4>3. Head(h.replay) \in Nat /\ Tail(h.replay) \in Seq(Nat)
              /\ Append(h.sent, Head(h.replay)) \in Seq(Nat)
          BY <3>1, <4>1, HeadTailProperties, AppendProperties
        <4>4. k.sent \o k.replay \o k.queue = h.sent \o h.replay \o h.queue
          <5>1. Append(h.sent, Head(h.replay)) \o Tail(h.replay) \o h.queue =
                   h.sent \o h.replay \o h.queue
            BY <3>1, <4>1, SentFromReplay
          <5> QED BY <4>2, <5>1
        <4>5. k \in Handler
          BY <1>3, <3>1, <4>1, <4>3 DEF Handler
        <4> QED BY <3>1, <3>2, <3>3, <4>2, <4>4, <4>5
      <3>4. CASE h.pc = "live"
        <4>1. k = [h EXCEPT !.replay = h.replay, !.queue = Tail(h.queue),
                            !.sent = Append(h.sent, Head(h.queue))]
              /\ h.queue # <<>>
          BY <2>3, <3>4 DEF SendEvent, StreamTypeOK, Due
        <4>2. /\ k.sent = Append(h.sent, Head(h.queue)) /\ k.queue = Tail(h.queue)
              /\ k.replay = <<>> /\ h.replay = <<>> /\ k.pc = h.pc /\ k.session = h.session
          BY <1>3, <1>6, <3>4, <4>1 DEF Handler
        <4>3. Head(h.queue) \in Nat /\ Tail(h.queue) \in Seq(Nat)
              /\ Append(h.sent, Head(h.queue)) \in Seq(Nat)
          BY <3>1, <4>1, HeadTailProperties, AppendProperties
        <4>4. k.sent \o k.replay \o k.queue = h.sent \o h.replay \o h.queue
          <5>1. Append(h.sent, Head(h.queue)) \o <<>> \o Tail(h.queue) =
                   h.sent \o <<>> \o h.queue
            BY <3>1, <4>1, SentFromQueue
          <5> QED BY <4>2, <5>1
        <4>5. k \in Handler
          BY <1>3, <3>1, <4>1, <4>3 DEF Handler
        <4> QED BY <3>1, <3>2, <3>4, <4>2, <4>4, <4>5
      <3> QED BY <3>1, <3>3, <3>4
    <2>4. CASE SendSnapshot(c)
      BY <1>3, <1>6, <2>4 DEF SendSnapshot, StreamTypeOK, Handler
    <2>5. CASE HandlerEnds(c)
      BY <1>3, <2>5 DEF HandlerEnds, StreamTypeOK, NoHandler
    <2> QED BY <2>1, <2>2, <2>3, <2>4, <2>5 DEF StreamStep
  <1>8. \A d \in Sockets : Good(conn'[d])
    BY <1>4, <1>6, <1>7
  <1>9. StreamTypeOK'
    BY <1>1, <1>7 DEF StreamTypeOK
  <1>10. HandlerInv' /\ StreamHasNoSeam'
    BY <1>1, <1>8 DEF HandlerInv, StreamHasNoSeam
  <1> QED BY <1>2, <1>9, <1>10

\* The invariant is inductive for the stream.
LEMMA NextStreamInv == StreamInv /\ [StreamNext]_streamVars => StreamInv'
  <1> SUFFICES ASSUME StreamInv, [StreamNext]_streamVars PROVE StreamInv'
    OBVIOUS
  <1>1. CASE \E s \in Sessions, name \in EventName : Publish(s, name)
    BY <1>1, PublishStreamInv
  <1>2. CASE \E c \in Sockets : StreamStep(c)
    BY <1>2, HandlerStreamInv
  <1>3. CASE UNCHANGED streamVars
    BY <1>3 DEF StreamInv, StreamTypeOK, HistoryInv, HandlerInv, StreamHasNoSeam, streamVars,
                EndsWithNewest
  <1> QED BY <1>1, <1>2, <1>3 DEF StreamNext

-----------------------------------------------------------------------------
\* What the store works on is a session: a call in progress, a refresh under way
\* and a socket in use have one.
Owned ==
    /\ call.pc # "idle" => call.session \in Sessions
    /\ \A c \in Sockets : sock[c].phase # "free" => sock[c].session \in Sessions
    /\ \A f \in Fetches : fetch[f].pc # "free" => fetch[f].session \in Sessions

StoreTypeOK ==
    /\ row \in [Sessions -> Row] /\ call \in Call
    /\ sock \in [Sockets -> Socket] /\ current \in Sockets \cup {Nobody}
    /\ connected \in BOOLEAN /\ view \in View /\ fetch \in [Fetches -> Fetch]

DesktopInv == StoreTypeOK /\ Owned /\ ConnectedIsOpen /\ StreamInv

\* A refresh is for a session.
LEMMA RefreshTyped ==
    ASSUME StoreTypeOK, Owned, NEW s \in Sessions, Refresh(s)
    PROVE  /\ fetch' \in [Fetches -> Fetch]
           /\ \A f \in Fetches : fetch'[f].pc # "free" => fetch'[f].session \in Sessions
  <1>1. PICK f \in Fetches :
           fetch' = [fetch EXCEPT ![f] = [NoFetch EXCEPT !.pc = "asked", !.session = s]]
    BY DEF Refresh
  <1>2. [NoFetch EXCEPT !.pc = "asked", !.session = s] \in Fetch
    BY DEF NoFetch, NoRow, Fetch, Row, State, None
  <1> QED BY <1>1, <1>2 DEF StoreTypeOK, Owned, NoFetch

\* connectWs closes at most the socket that the store knows.
LEMMA ConnectTyped ==
    ASSUME StoreTypeOK, Owned, ConnectedIsOpen, NEW c \in Sockets, NEW s \in Sessions,
           sock[c].phase \in {"free", "waiting"}, ConnectWs(c, s)
    PROVE  /\ sock' \in [Sockets -> Socket]
           /\ \A x \in Sockets : sock'[x].phase # "free" => sock'[x].session \in Sessions
           /\ connected => \E x \in Sockets : sock'[x].phase \in {"open", "closing"}
  <1>1. \A x \in Sockets : sock[x] \in Socket
    BY DEF StoreTypeOK
  <1>2. \A x \in Sockets :
           sock'[x] = IF x = c THEN [phase |-> "dialing", session |-> s]
                      ELSE IF x = current /\ sock[x].phase \in {"connecting", "open"}
                      THEN [sock[x] EXCEPT !.phase = "closing"] ELSE sock[x]
    BY DEF ConnectWs
  <1>3. \A x \in Sockets :
           /\ sock'[x] \in Socket
           /\ sock'[x].phase # "free" => sock'[x].session \in Sessions
    <2> SUFFICES ASSUME NEW x \in Sockets
                 PROVE  /\ sock'[x] \in Socket
                        /\ sock'[x].phase # "free" => sock'[x].session \in Sessions
      OBVIOUS
    <2>1. CASE x = c
      <3>1. sock'[x] = [phase |-> "dialing", session |-> s]
        BY <2>1, <1>2
      <3> QED BY <3>1 DEF Socket
    <2>2. CASE x # c /\ x = current /\ sock[x].phase \in {"connecting", "open"}
      <3>1. sock'[x] = [sock[x] EXCEPT !.phase = "closing"]
        BY <2>2, <1>2
      <3>2. sock[x].session \in Sessions /\ sock[x] \in Socket
        BY <2>2, <1>1 DEF Owned
      <3> QED BY <3>1, <3>2 DEF Socket
    <2>3. CASE x # c /\ ~(x = current /\ sock[x].phase \in {"connecting", "open"})
      <3>1. sock'[x] = sock[x]
        BY <2>3, <1>2
      <3> QED BY <3>1, <1>1 DEF Owned
    <2> QED BY <2>1, <2>2, <2>3
  <1>4. sock' \in [Sockets -> Socket]
    BY <1>3 DEF ConnectWs
  <1>6. \A x \in Sockets : sock[x].phase \in {"open", "closing"} =>
           sock'[x].phase \in {"open", "closing"}
    BY <1>1, <1>2 DEF Socket
  <1> QED BY <1>3, <1>4, <1>6 DEF ConnectedIsOpen

\* The planner's and the handlers' outcomes are rows, and what they announce is
\* an event of the stream or nothing.
LEMMA ResultsTyped ==
    ASSUME NEW kind \in Kind, NEW r \in Row, NEW x \in Results(kind, r)
    PROVE  x \in Row /\ (Announced(kind, x) = None \/ Announced(kind, x) \in EventName)
  <1>1. CASE kind \in {"create", "turn", "answers"}
    <2>1. x \in Planned(r)
      BY <1>1 DEF Results
    <2>2. x \in Row /\ x.state \in DOMAIN CycleEvent
      BY <2>1 DEF Planned, Row, State, Planning, CycleEvent
    <2>3. CycleEvent[x.state] \in EventName
      BY <2>2 DEF CycleEvent, EventName
    <2> QED BY <1>1, <2>2, <2>3 DEF Announced
  <1>2. CASE kind = "approve"
    BY <1>2 DEF Results, Announced, Row, State, HandoffState, EventName
  <1>3. CASE kind = "request_changes"
    BY <1>3 DEF Results, Announced, Row, State, Planning
  <1>4. CASE kind = "cancel"
    BY <1>4 DEF Results, Announced, Row, State, EventName
  <1>5. CASE kind = "retry"
    BY <1>5 DEF Results, Announced
  <1> QED BY <1>1, <1>2, <1>3, <1>4, <1>5 DEF Kind

\* Initially the desktop is empty.
LEMMA InitDesktopInv == Init => DesktopInv
  <1> SUFFICES ASSUME Init PROVE DesktopInv
    OBVIOUS
  <1>1. NoRow \in Row
    BY DEF NoRow, Row, State, None
  <1>2. NoCall \in Call /\ FreeSocket \in Socket /\ NoFetch \in Fetch
    BY <1>1 DEF NoCall, Call, Kind, FreeSocket, Socket, NoFetch, Fetch
  <1>3. StoreTypeOK
    BY <1>1, <1>2 DEF Init, StoreTypeOK, View, NoProposal, Proposal
  <1>4. Owned /\ ConnectedIsOpen
    BY DEF Init, Owned, ConnectedIsOpen, NoCall, FreeSocket, NoFetch
  <1>5. StreamInv
    BY InitStreamInv DEF Init
  <1> QED BY <1>3, <1>4, <1>5 DEF DesktopInv

\* Every step keeps the store's part of the invariant and is, for the stream, one
\* of its own steps or none.
LEMMA NextDesktop ==
    ASSUME StoreTypeOK, Owned, ConnectedIsOpen, HandlerInv, StreamTypeOK, [Next]_vars
    PROVE  StoreTypeOK' /\ Owned' /\ ConnectedIsOpen' /\ [StreamNext]_streamVars
  <1> DEFINE Goal == StoreTypeOK' /\ Owned' /\ ConnectedIsOpen' /\ [StreamNext]_streamVars
  <1>1. ASSUME NEW s \in Sessions, Create(s) PROVE Goal
    <2>1. NoRow \in Row
      BY DEF NoRow, Row, State, None
    <2>2. call' = [pc |-> "asked", kind |-> "create", session |-> s, row |-> NoRow]
      BY <1>1 DEF Create, Ask
    <2>3. call' \in Call
      BY <2>1, <2>2 DEF Call, Kind
    <2> QED BY <1>1, <2>2, <2>3 DEF Create, StoreTypeOK, Owned, ConnectedIsOpen, storeVars,
                                    streamVars
  <1>2. ASSUME NEW s \in Sessions, Select(s) PROVE Goal
    <2>1. PICK c \in Sockets : sock[c].phase = "free" /\ ConnectWs(c, s)
      BY <1>2 DEF Select
    <2>2. Refresh(s)
      BY <1>2 DEF Select
    <2>3. /\ sock' \in [Sockets -> Socket]
          /\ \A x \in Sockets : sock'[x].phase # "free" => sock'[x].session \in Sessions
          /\ connected => \E x \in Sockets : sock'[x].phase \in {"open", "closing"}
      BY <2>1, ConnectTyped
    <2>4. /\ fetch' \in [Fetches -> Fetch]
          /\ \A f \in Fetches : fetch'[f].pc # "free" => fetch'[f].session \in Sessions
      BY <2>2, RefreshTyped
    <2> QED BY <1>2, <2>3, <2>4 DEF Select, StoreTypeOK, Owned, ConnectedIsOpen, streamVars
  <1>3. ASSUME NEW kind \in Kind, Click(kind) PROVE Goal
    <2>1. view.session \in Sessions /\ view.row \in Row
      BY <1>3 DEF Click, StoreTypeOK, View
    <2>2. call' = [pc |-> "asked", kind |-> kind, session |-> view.session, row |-> view.row]
      BY <1>3 DEF Click, Ask
    <2>3. call' \in Call /\ call'.session \in Sessions
      BY <2>1, <2>2 DEF Call
    <2> QED BY <1>3, <2>3 DEF Click, StoreTypeOK, Owned, ConnectedIsOpen, storeVars, streamVars
  <1>4. ASSUME Serve PROVE Goal
    <2> DEFINE s == call.session
    <2>1. s \in Sessions /\ call \in Call /\ call.kind \in Kind /\ row[s] \in Row
      BY <1>4 DEF Serve, Owned, StoreTypeOK, Call
    <2>2. PICK r \in Results(call.kind, row[s]) :
             /\ call' = [call EXCEPT !.pc = "served", !.row = r]
             /\ \/ UNCHANGED streamVars
                \/ Announced(call.kind, r) # None /\ Publish(s, Announced(call.kind, r))
      BY <1>4 DEF Serve
    <2>3. r \in Row /\ (Announced(call.kind, r) = None \/ Announced(call.kind, r) \in EventName)
      BY <2>1, ResultsTyped
    <2>4. [StreamNext]_streamVars
      BY <2>1, <2>2, <2>3 DEF StreamNext
    <2>5. call' \in Call /\ call'.session = s
      BY <2>1, <2>2, <2>3 DEF Call
    <2> QED BY <1>4, <2>1, <2>4, <2>5 DEF Serve, StoreTypeOK, Owned, ConnectedIsOpen, storeVars
  <1>5. CASE Refuse
    BY <1>5 DEF Refuse, StoreTypeOK, Owned, ConnectedIsOpen, storeVars, streamVars, Call
  <1>6. CASE Commit
    <2>1. call.session \in Sessions /\ call.row \in Row
      BY <1>6 DEF Commit, StoreTypeOK, Owned, Call
    <2>2. row' \in [Sessions -> Row]
      BY <1>6, <2>1 DEF Commit, StoreTypeOK
    <2>3. NoCall \in Call /\ NoCall.pc = "idle"
      BY DEF NoCall, Call, Kind, NoRow, Row, State, None
    <2>4. call' \in Call /\ (call'.pc # "idle" => call'.session \in Sessions)
      BY <1>6, <2>1, <2>3 DEF Commit, StoreTypeOK, Call
    <2> QED BY <1>6, <2>2, <2>4 DEF Commit, StoreTypeOK, Owned, ConnectedIsOpen, storeVars,
                                    streamVars
  <1>7. CASE Replies
    <2>1. call.session \in Sessions /\ call.row \in Row /\ call.kind \in Kind
      BY <1>7 DEF Replies, StoreTypeOK, Owned, Call
    <2>2. view' \in View
      BY <1>7, <2>1 DEF Replies, AfterReply, StoreTypeOK, View, NoProposal, Proposal, Kind
    <2>3. NoCall \in Call /\ NoCall.pc = "idle"
      BY DEF NoCall, Call, Kind, NoRow, Row, State, None
    <2>4. call' \in Call /\ (call'.pc # "idle" => call'.session \in Sessions)
      BY <1>7, <2>1, <2>3 DEF Replies, StoreTypeOK, Call
    <2>5. /\ sock' \in [Sockets -> Socket]
          /\ \A x \in Sockets : sock'[x].phase # "free" => sock'[x].session \in Sessions
          /\ connected => \E x \in Sockets : sock'[x].phase \in {"open", "closing"}
      <3>1. CASE call.kind = "create"
        <4>1. PICK c \in Sockets : sock[c].phase = "free" /\ ConnectWs(c, call.session)
          BY <1>7, <3>1 DEF Replies
        <4> QED BY <2>1, <4>1, ConnectTyped
      <3>2. CASE call.kind # "create"
        BY <1>7, <3>2 DEF Replies, StoreTypeOK, Owned, ConnectedIsOpen
      <3> QED BY <3>1, <3>2
    <2>6. /\ fetch' \in [Fetches -> Fetch]
          /\ \A f \in Fetches : fetch'[f].pc # "free" => fetch'[f].session \in Sessions
      <3>1. CASE call.kind = "cancel"
        BY <1>7, <3>1 DEF Replies, StoreTypeOK, Owned
      <3>2. CASE call.kind # "cancel"
        BY <1>7, <2>1, <3>2, RefreshTyped DEF Replies
      <3> QED BY <3>1, <3>2
    <2> QED BY <1>7, <2>2, <2>4, <2>5, <2>6 DEF Replies, StoreTypeOK, Owned, ConnectedIsOpen,
                                                streamVars
  <1>8. CASE RepliesError
    <2>1. NoCall \in Call /\ NoCall.pc = "idle"
      BY DEF NoCall, Call, Kind, NoRow, Row, State, None
    <2> QED BY <1>8, <2>1 DEF RepliesError, StoreTypeOK, Owned, ConnectedIsOpen, storeVars,
                              streamVars
  <1>9. ASSUME NEW s \in Sessions, WorkerMoves(s) PROVE Goal
    <2>1. row' \in [Sessions -> Row]
      BY <1>9 DEF WorkerMoves, StoreTypeOK, Row, State, HandoffState
    <2> QED BY <1>9, <2>1 DEF WorkerMoves, StoreTypeOK, Owned, ConnectedIsOpen, storeVars,
                              streamVars
  <1>10. ASSUME NEW f \in Fetches, FetchStep(f) PROVE Goal
    <2>1. fetch[f] \in Fetch /\ fetch[f].session \in Sessions
          /\ NoFetch \in Fetch /\ NoFetch.pc = "free"
      BY <1>10 DEF FetchStep, ReadSession, SessionArrives, ReadMore, MoreArrives, FetchFails,
                   StoreTypeOK, Owned, NoFetch, Fetch, NoRow, Row, State, None
    <2>2. row[fetch[f].session] \in Row /\ row[fetch[f].session].version \in Nat
      BY <2>1 DEF StoreTypeOK, Row
    <2>3. /\ fetch' = [fetch EXCEPT ![f] = fetch'[f]]
          /\ fetch'[f] \in Fetch
          /\ fetch'[f].pc # "free" => fetch'[f].session \in Sessions
      <3>1. CASE ReadSession(f)
        BY <2>1, <2>2, <3>1 DEF ReadSession, StoreTypeOK, Fetch
      <3>2. CASE SessionArrives(f)
        BY <2>1, <3>2 DEF SessionArrives, StoreTypeOK, Fetch
      <3>3. CASE ReadMore(f)
        <4> DEFINE v == IF fetch[f].row.state = "AWAITING_ANSWERS"
                        THEN IF fetch[f].row.version = row[fetch[f].session].version
                             THEN 1 ELSE 0
                        ELSE row[fetch[f].session].version
        <4>1. fetch' = [fetch EXCEPT ![f] = [fetch[f] EXCEPT !.pc = "found",
                                                             !.row.version = v]]
          BY <3>3 DEF ReadMore
        <4>2. v \in Nat
          BY <2>2
        <4> HIDE DEF v
        <4> QED BY <2>1, <4>1, <4>2 DEF StoreTypeOK, Fetch, Row
      <3>4. CASE MoreArrives(f)
        BY <2>1, <3>4 DEF MoreArrives, StoreTypeOK
      <3>5. CASE FetchFails(f)
        BY <2>1, <3>5 DEF FetchFails, StoreTypeOK
      <3> QED BY <1>10, <3>1, <3>2, <3>3, <3>4, <3>5 DEF FetchStep
    <2>4. /\ fetch' \in [Fetches -> Fetch]
          /\ \A g \in Fetches : fetch'[g].pc # "free" => fetch'[g].session \in Sessions
      BY <2>3 DEF StoreTypeOK, Owned
    <2>5. view' \in View
      <3>1. CASE MoreArrives(f)
        BY <2>1, <3>1 DEF MoreArrives, StoreTypeOK, View, Proposal, Fetch, Row
      <3>2. CASE SessionArrives(f)
        BY <2>1, <3>2 DEF SessionArrives, StoreTypeOK, View, Fetch
      <3> QED BY <1>10, <3>1, <3>2 DEF FetchStep, ReadSession, ReadMore, FetchFails, StoreTypeOK
    <2>6. UNCHANGED <<streamVars, row, call, sock, current, connected>>
      BY <1>10 DEF FetchStep, ReadSession, SessionArrives, ReadMore, MoreArrives, FetchFails
    <2> QED BY <2>4, <2>5, <2>6 DEF StoreTypeOK, Owned, ConnectedIsOpen, streamVars
  <1>11. ASSUME NEW c \in Sockets, SocketStep(c) \/ Drops(c) PROVE Goal
    <2>1. sock[c] \in Socket
      BY DEF StoreTypeOK
    <2>2. CASE Dial(c)
      BY <2>1, <2>2 DEF Dial, StoreTypeOK, Owned, ConnectedIsOpen, streamVars, Socket
    <2>3. CASE Opens(c)
      <3>1. sock' = [sock EXCEPT ![c] = [sock[c] EXCEPT !.phase = "open"]] /\ connected' = TRUE
            /\ sock[c].session \in Sessions
        BY <2>3 DEF Opens, Owned
      <3>2. sock'[c].phase = "open" /\ sock' \in [Sockets -> Socket]
        BY <2>1, <3>1 DEF StoreTypeOK, Socket
      <3>3. ConnectedIsOpen'
        BY <3>2 DEF ConnectedIsOpen
      <3>4. \A x \in Sockets : sock'[x].phase # "free" => sock'[x].session \in Sessions
        BY <2>1, <3>1 DEF StoreTypeOK, Owned, Socket
      <3>5. [StreamNext]_streamVars
        BY <2>3, <3>1 DEF Opens, StreamNext, StreamStep
      <3> QED BY <2>3, <3>1, <3>2, <3>3, <3>4, <3>5 DEF Opens, StoreTypeOK, Owned
    <2>4. CASE Closes(c)
      BY <2>1, <2>4 DEF Closes, StoreTypeOK, Owned, ConnectedIsOpen, streamVars, Socket
    <2>5. CASE Reconnects(c)
      <3>1. /\ sock' \in [Sockets -> Socket]
            /\ \A x \in Sockets : sock'[x].phase # "free" => sock'[x].session \in Sessions
            /\ connected => \E x \in Sockets : sock'[x].phase \in {"open", "closing"}
        BY <2>5, ConnectTyped DEF Reconnects, Owned
      <3> QED BY <2>5, <3>1 DEF Reconnects, StoreTypeOK, Owned, ConnectedIsOpen, streamVars
    <2>6. CASE Receives(c)
      <3>1. conn[c].session \in Sessions
        BY <2>6 DEF Receives, SendEvent, HandlerInv
      <3>2. /\ fetch' \in [Fetches -> Fetch]
            /\ \A f \in Fetches : fetch'[f].pc # "free" => fetch'[f].session \in Sessions
        <4>1. CASE Refresh(conn[c].session)
          BY <3>1, <4>1, RefreshTyped
        <4>2. CASE UNCHANGED fetch
          BY <4>2 DEF StoreTypeOK, Owned
        <4> QED BY <2>6, <4>1, <4>2 DEF Receives
      <3>3. [StreamNext]_streamVars
        BY <2>6 DEF Receives, StreamNext, StreamStep
      <3> QED BY <2>6, <3>2, <3>3 DEF Receives, StoreTypeOK, Owned, ConnectedIsOpen
    <2>7. CASE Handles(c)
      <3>1. [StreamNext]_streamVars
        BY <2>7 DEF Handles, StreamNext, StreamStep
      <3> QED BY <2>7, <3>1 DEF Handles, StoreTypeOK, Owned, ConnectedIsOpen, storeVars
    <2>8. CASE Drops(c)
      BY <2>1, <2>8 DEF Drops, StoreTypeOK, Owned, ConnectedIsOpen, streamVars, Socket
    <2> QED BY <1>11, <2>2, <2>3, <2>4, <2>5, <2>6, <2>7, <2>8 DEF SocketStep
  <1>12. CASE UNCHANGED vars
    BY <1>12 DEF vars, storeVars, StoreTypeOK, Owned, ConnectedIsOpen
  <1> QED BY <1>1, <1>2, <1>3, <1>4, <1>5, <1>6, <1>7, <1>8, <1>9, <1>10, <1>11, <1>12
          DEF Next, UserStep

-----------------------------------------------------------------------------
\* The invariant of the desktop and the stream.
THEOREM DesktopInvariant == Spec => []DesktopInv
  <1>1. DesktopInv /\ [Next]_vars => DesktopInv'
    <2> SUFFICES ASSUME DesktopInv, [Next]_vars PROVE DesktopInv'
      OBVIOUS
    <2>1. StoreTypeOK /\ Owned /\ ConnectedIsOpen /\ StreamInv
      BY DEF DesktopInv
    <2>2. StoreTypeOK' /\ Owned' /\ ConnectedIsOpen' /\ [StreamNext]_streamVars
      BY <2>1, NextDesktop DEF StreamInv
    <2>3. StreamInv'
      BY <2>1, <2>2, NextStreamInv
    <2> QED BY <2>2, <2>3 DEF DesktopInv
  <1> QED BY InitDesktopInv, <1>1, PTL DEF Spec

\* Every variable keeps its type, for any number of sessions, sockets, refreshes
\* and versions.
THEOREM TypeCorrect == Spec => []TypeOK
  <1>1. DesktopInv => TypeOK
    BY DEF DesktopInv, StreamInv, StoreTypeOK, TypeOK
  <1> QED BY DesktopInvariant, <1>1, PTL

\* Whatever a client's connection goes through, what the server sends it has no
\* seam between history and live events.
THEOREM NoSeam == Spec => []StreamHasNoSeam
  <1>1. DesktopInv => StreamHasNoSeam
    BY DEF DesktopInv, StreamInv
  <1> QED BY DesktopInvariant, <1>1, PTL

\* The indicator does not say connected when all sockets have ended.
THEOREM IndicatorHonest == Spec => []ConnectedIsOpen
  <1>1. DesktopInv => ConnectedIsOpen
    BY DEF DesktopInv
  <1> QED BY DesktopInvariant, <1>1, PTL

\* The desktop, its user and BACKEND's requests use the stream only through its
\* own operations: the composition implements the stream's specification.
THEOREM ImplementsStream == Spec => StreamSpec
  <1>1. Init => StreamInit
    BY DEF Init
  <1>2. DesktopInv /\ [Next]_vars => [StreamNext]_streamVars
    BY NextDesktop DEF DesktopInv, StreamInv
  <1> QED BY DesktopInvariant, <1>1, <1>2, PTL DEF Spec, StreamSpec

-----------------------------------------------------------------------------
(***************************************************************************)
(* The stream implements EventFeed.  A client's place in the feed is not a *)
(* part of the state: it is counted back from the newest event, by all     *)
(* that the client was sent or is still to be sent.  A publication makes   *)
(* both longer by one, a send changes neither, and StreamInv says that the *)
(* event sent is the one at that place.                                    *)
(***************************************************************************)

Counts(events) == [s \in Sessions |-> Len(events[s])]

Readers(handlers, events) == [c \in Sockets |-> Reader(handlers[c], events)]

\* The invariant of the stream, whoever uses it.
THEOREM StreamInvariant == StreamSpec => []StreamInv
  BY InitStreamInv, NextStreamInv, PTL DEF StreamSpec

\* A concatenation by its parts.
LEMMA ConcatParts ==
    ASSUME NEW p \in Seq(Nat), NEW q \in Seq(Nat)
    PROVE  /\ p \o q \in Seq(Nat) /\ Len(p \o q) = Len(p) + Len(q)
           /\ \A i \in 1 .. Len(p) : (p \o q)[i] = p[i]
           /\ \A i \in 1 .. Len(q) : (p \o q)[Len(p) + i] = q[i]
  <1> DEFINE pq == p \o q
  <1>1. /\ pq \in Seq(Nat) /\ Len(pq) = Len(p) + Len(q)
        /\ \A i \in 1 .. Len(p) + Len(q) : pq[i] = IF i <= Len(p) THEN p[i] ELSE q[i - Len(p)]
    BY ConcatProperties
  <1>2. Len(p) \in Nat /\ Len(q) \in Nat
    BY LenProperties
  <1> HIDE DEF pq
  <1>3. \A i \in 1 .. Len(p) : pq[i] = p[i]
    BY <1>1, <1>2
  <1>4. ASSUME NEW i \in 1 .. Len(q) PROVE pq[Len(p) + i] = q[i]
    <2> DEFINE k == Len(p) + i
    <2>1. k \in 1 .. Len(p) + Len(q) /\ ~(k <= Len(p)) /\ k - Len(p) = i
      BY <1>2
    <2> HIDE DEF k
    <2>2. pq[k] = q[i]
      BY <1>1, <2>1
    <2> QED BY <2>2 DEF k
  <1> QED BY <1>1, <1>3, <1>4 DEF pq

\* What a handler knows of, and which event it sends next.
LEMMA KnownFacts ==
    ASSUME NEW h \in Handler, NEW n \in Nat, EndsWithNewest(Known(h), n)
    PROVE  /\ Known(h) \in Seq(Nat)
           /\ Len(Known(h)) = Len(h.sent) + Len(h.replay) + Len(h.queue)
           /\ Len(h.sent) \in Nat /\ Len(h.replay) \in Nat /\ Len(h.queue) \in Nat
           /\ n - Len(Known(h)) \in Nat
           /\ h.replay # <<>> =>
                 /\ Head(h.replay) = n - Len(Known(h)) + Len(h.sent) + 1
                 /\ Len(h.sent) + 1 <= Len(Known(h))
           /\ h.replay = <<>> /\ h.queue # <<>> =>
                 /\ Head(h.queue) = n - Len(Known(h)) + Len(h.sent) + 1
                 /\ Len(h.sent) + 1 <= Len(Known(h))
  <1> DEFINE a == h.sent
             b == h.replay
             c == h.queue
             known == a \o b \o c
  <1>1. a \in Seq(Nat) /\ b \in Seq(Nat) /\ c \in Seq(Nat) /\ known = Known(h)
    BY DEF Handler, Known
  <1> HIDE DEF a, b, c
  <1>2. Len(a) \in Nat /\ Len(b) \in Nat /\ Len(c) \in Nat
    BY <1>1, LenProperties
  <1>3. /\ a \o b \in Seq(Nat) /\ Len(a \o b) = Len(a) + Len(b)
        /\ \A i \in 1 .. Len(b) : (a \o b)[Len(a) + i] = b[i]
    BY <1>1, ConcatParts
  <1>4. /\ known \in Seq(Nat) /\ Len(known) = Len(a) + Len(b) + Len(c)
        /\ \A i \in 1 .. Len(a) + Len(b) : known[i] = (a \o b)[i]
        /\ \A i \in 1 .. Len(c) : known[Len(a) + Len(b) + i] = c[i]
    <2> DEFINE ab == a \o b
    <2>1. ab \in Seq(Nat) /\ known = ab \o c /\ Len(ab) = Len(a) + Len(b)
      BY <1>3
    <2> HIDE DEF ab, known
    <2>2. /\ ab \o c \in Seq(Nat) /\ Len(ab \o c) = Len(ab) + Len(c)
          /\ \A i \in 1 .. Len(ab) : (ab \o c)[i] = ab[i]
          /\ \A i \in 1 .. Len(c) : (ab \o c)[Len(ab) + i] = c[i]
      BY <1>1, <2>1, ConcatParts
    <2> QED BY <2>1, <2>2 DEF ab
  <1> HIDE DEF known
  <1>5. EndsWithNewest(known, n)
    BY <1>1
  <1>6. /\ Len(known) <= n
        /\ \A i \in 1 .. Len(known) : known[i] = n - Len(known) + i
    BY <1>4, <1>5, EndElements
  <1>7. n - Len(known) \in Nat
    BY <1>2, <1>4, <1>6
  <1>8. ASSUME b # <<>>
        PROVE  Head(b) = n - Len(known) + Len(a) + 1 /\ Len(a) + 1 <= Len(known)
    <2>1. Len(b) >= 1 /\ Head(b) = b[1]
      BY <1>1, <1>2, <1>8, EmptySeq, HeadTailProperties, LenProperties
    <2>2. known[Len(a) + 1] = b[1] /\ Len(a) + 1 \in 1 .. Len(known)
      BY <1>2, <1>3, <1>4, <2>1
    <2> QED BY <1>2, <1>4, <1>6, <2>1, <2>2
  <1>9. ASSUME b = <<>>, c # <<>>
        PROVE  Head(c) = n - Len(known) + Len(a) + 1 /\ Len(a) + 1 <= Len(known)
    <2>1. Len(b) = 0 /\ Len(c) >= 1 /\ Head(c) = c[1]
      BY <1>1, <1>2, <1>9, EmptySeq, HeadTailProperties, LenProperties
    <2>2. known[Len(a) + 1] = c[1] /\ Len(a) + 1 \in 1 .. Len(known)
      BY <1>2, <1>4, <2>1
    <2> QED BY <1>2, <1>4, <1>6, <2>1, <2>2
  <1> QED BY <1>1, <1>2, <1>4, <1>7, <1>8, <1>9 DEF a, b, c

\* What a handler knows of grows by an event in the queue, and not by a send.
LEMMA KnownGrows ==
    ASSUME NEW h \in Handler, NEW g \in Handler, NEW e \in Nat,
           g.sent = h.sent, g.replay = h.replay, g.queue = Append(h.queue, e)
    PROVE  Len(Known(g)) = Len(Known(h)) + 1 /\ Len(Known(h)) \in Nat
  <1> DEFINE a == h.sent
             b == h.replay
             c == h.queue
  <1>1. a \in Seq(Nat) /\ b \in Seq(Nat) /\ c \in Seq(Nat)
    BY DEF Handler
  <1>2. Known(h) = a \o b \o c /\ Known(g) = a \o b \o Append(c, e)
    BY DEF Known
  <1> HIDE DEF a, b, c
  <1>3. a \o b \o Append(c, e) = Append(a \o b \o c, e)
    BY <1>1, QueuedAtEnd
  <1>4. a \o b \o c \in Seq(Nat)
    BY <1>1, ConcatProperties
  <1> DEFINE known == a \o b \o c
  <1> HIDE DEF known
  <1>5. Len(Append(known, e)) = Len(known) + 1 /\ Len(known) \in Nat
    BY <1>4, AppendProperties, LenProperties DEF known
  <1> QED BY <1>2, <1>3, <1>5 DEF known

LEMMA KnownStays ==
    ASSUME NEW h \in Handler, NEW g \in Handler,
           \/ /\ h.replay # <<>> /\ g.sent = Append(h.sent, Head(h.replay))
              /\ g.replay = Tail(h.replay) /\ g.queue = h.queue
           \/ /\ h.replay = <<>> /\ g.replay = <<>> /\ h.queue # <<>>
              /\ g.sent = Append(h.sent, Head(h.queue)) /\ g.queue = Tail(h.queue)
    PROVE  Known(g) = Known(h)
  <1> DEFINE a == h.sent
             b == h.replay
             c == h.queue
  <1>1. a \in Seq(Nat) /\ b \in Seq(Nat) /\ c \in Seq(Nat)
    BY DEF Handler
  <1>2. /\ Known(h) = a \o b \o c
        /\ \/ b # <<>> /\ Known(g) = Append(a, Head(b)) \o Tail(b) \o c
           \/ b = <<>> /\ c # <<>> /\ Known(g) = Append(a, Head(c)) \o <<>> \o Tail(c)
    BY DEF Known
  <1> HIDE DEF a, b, c
  <1>3. CASE b # <<>> /\ Known(g) = Append(a, Head(b)) \o Tail(b) \o c
    BY <1>1, <1>2, <1>3, SentFromReplay
  <1>4. CASE b = <<>> /\ c # <<>> /\ Known(g) = Append(a, Head(c)) \o <<>> \o Tail(c)
    BY <1>1, <1>2, <1>4, SentFromQueue
  <1> QED BY <1>2, <1>3, <1>4

\* A reader that has got one event more.
Further(place, e) == [place EXCEPT !.got = Append(@, e)]

LEMMA GotMore ==
    ASSUME NEW s, NEW m, NEW got, NEW e
    PROVE  Further([session |-> s, after |-> m, got |-> got], e)
              = [session |-> s, after |-> m, got |-> Append(got, e)]
  BY DEF Further

\* publish is an event that happens: no client's place changes.
LEMMA PublishIsHappen ==
    ASSUME StreamInv, NEW s \in Sessions, NEW name \in EventName, Publish(s, name)
    PROVE  Feed!Happen(s)
  <1> DEFINE n == Len(published[s])
  <1>1. published[s] \in Seq(EventName) /\ n \in Nat /\ n + 1 \in Nat
    BY LenProperties DEF StreamInv, StreamTypeOK
  <1>2. /\ \A t \in Sessions \ {s} : published'[t] = published[t]
        /\ Len(published'[s]) = n + 1
    <2>1. published' = [published EXCEPT ![s] = Append(published[s], name)]
      BY DEF Publish
    <2>2. published'[s] = Append(published[s], name)
      BY <2>1 DEF StreamInv, StreamTypeOK
    <2> QED BY <1>1, <2>1, <2>2, AppendProperties DEF StreamInv, StreamTypeOK
  <1>3. Counts(published') = [Counts(published) EXCEPT ![s] = @ + 1]
    BY <1>2 DEF Counts
  <1>4. ASSUME NEW c \in Sockets
        PROVE  Reader(conn'[c], published') = Reader(conn[c], published)
    <2>1. /\ conn[c] \in Handler
          /\ conn'[c] = IF Subscribed(c, s)
                        THEN [conn[c] EXCEPT !.queue = Append(conn[c].queue, n + 1)]
                        ELSE conn[c]
      BY DEF Publish, StreamInv, StreamTypeOK
    <2>2. CASE ~Following(conn[c])
      <3>1. conn'[c].pc = conn[c].pc
        BY <2>1 DEF Handler
      <3> QED BY <2>2, <3>1 DEF Reader, Following
    <2>3. CASE Following(conn[c]) /\ conn[c].session # s
      <3>1. conn'[c] = conn[c] /\ conn[c].session \in Sessions
        BY <2>1, <2>3 DEF Subscribed, Following, StreamInv, HandlerInv
      <3> QED BY <1>2, <2>3, <3>1 DEF Reader
    <2>4. CASE Following(conn[c]) /\ conn[c].session = s
      <3>1. /\ conn'[c] \in Handler /\ conn'[c].pc = conn[c].pc
            /\ conn'[c].session = s /\ conn'[c].sent = conn[c].sent
            /\ conn'[c].replay = conn[c].replay
            /\ conn'[c].queue = Append(conn[c].queue, n + 1)
        <4>1. Append(conn[c].queue, n + 1) \in Seq(Nat)
          BY <1>1, <2>1, AppendProperties DEF Handler
        <4> QED BY <2>1, <2>4, <4>1 DEF Handler, Subscribed, Following
      <3>5. Len(Known(conn'[c])) = Len(Known(conn[c])) + 1 /\ Len(Known(conn[c])) \in Nat
        BY <1>1, <2>1, <3>1, KnownGrows
      <3>6. Len(published'[s]) - Len(Known(conn'[c])) = n - Len(Known(conn[c]))
        BY <1>1, <1>2, <3>5
      <3> QED BY <2>4, <3>1, <3>6 DEF Reader, Following
    <2> QED BY <2>2, <2>3, <2>4
  <1>5. Readers(conn', published') = Readers(conn, published)
    BY <1>4 DEF Readers
  <1> QED BY <1>3, <1>5 DEF Feed!Happen, Counts, Readers

\* A step of a handler moves its own client's place at most.
LEMMA HandlerIsFeedStep ==
    ASSUME StreamInv, NEW c \in Sockets, StreamStep(c)
    PROVE  Feed!Next \/ UNCHANGED Feed!vars
  <1> DEFINE old == conn[c]
             new == conn'[c]
             n == Len(published[old.session])
             place(h) == Reader(h, published)
  <1>1. published' = published /\ Counts(published') = Counts(published)
    BY DEF StreamStep, Accept, Subscribe, SendEvent, SendSnapshot, HandlerEnds
  <1>2. \A d \in Sockets \ {c} : conn'[d] = conn[d]
    BY DEF StreamInv, StreamTypeOK, StreamStep, Accept, Subscribe, SendEvent,
           SendSnapshot, HandlerEnds
  <1>3. /\ old \in Handler
        /\ old.pc # "none" => old.session \in Sessions
        /\ old.pc = "accepted" => old.sent = <<>> /\ old.queue = <<>>
        /\ old.pc = "live" => old.replay = <<>>
        /\ Following(old) => EndsWithNewest(Known(old), n)
    BY DEF StreamInv, StreamTypeOK, HandlerInv, StreamHasNoSeam, Following, Known
  <1>4. Readers(conn', published') = [Readers(conn, published) EXCEPT ![c] = place(new)]
    BY <1>1, <1>2 DEF Readers
  <1>5. Readers(conn, published)[c] = place(old)
    BY DEF Readers
  <1>6. ASSUME place(new) = place(old)
        PROVE  UNCHANGED Feed!vars
    <2>1. Readers(conn', published') = Readers(conn, published)
      BY <1>4, <1>5, <1>6 DEF Readers
    <2> QED BY <1>1, <2>1 DEF Feed!vars, Counts, Readers
  <1>7. CASE \E s \in Sessions : Accept(c, s)
    <2>1. ~Following(old) /\ ~Following(new)
      BY <1>7 DEF Accept, Following, NoHandler, StreamInv, StreamTypeOK
    <2> QED BY <1>6, <2>1 DEF Reader
  <1>8. CASE Subscribe(c)
    <2> DEFINE s == old.session
               h == history[s]
    <2>1. s \in Sessions /\ h \in Seq(Nat) /\ EndsWithNewest(h, n)
      BY <1>3, <1>8 DEF Subscribe, StreamInv, StreamTypeOK, HistoryInv
    <2>2. /\ new.session = s /\ new.pc = "replaying" /\ new.replay = h
          /\ new.sent = <<>> /\ new.queue = <<>> /\ ~Following(old)
      BY <1>3, <1>8 DEF Subscribe, StreamInv, StreamTypeOK, Handler, Following
    <2>3. Known(new) = h
      <3>1. <<>> \o h = h /\ h \o <<>> = h
        BY <2>1, ConcatEmptySeq
      <3> QED BY <2>2, <3>1 DEF Known
    <2>4. n \in Nat /\ Len(h) \in Nat
      BY <2>1, LenProperties DEF StreamInv, StreamTypeOK
    <2>5. /\ n - Len(h) \in 0 .. n
          /\ n - Len(h) = 0 \/ n - (n - Len(h)) >= MaxHistory
      <3>1. Len(h) <= n /\ (Len(h) = n \/ Len(h) >= MaxHistory)
        BY <2>1 DEF EndsWithNewest
      <3> HIDE DEF h, n
      <3> QED BY <2>4, <3>1, HistoryAssumption
    <2>6. place(new) = [session |-> s, after |-> n - Len(h), got |-> <<>>]
      BY <2>2, <2>3 DEF Reader, Following
    <2>7. place(old) = Feed!Away
      BY <2>2 DEF Reader, Feed!Away
    <2>8. Feed!Follow(c, s)
      <3>1. Counts(published)[s] = n
        BY <2>1 DEF Counts
      <3> QED BY <1>1, <1>4, <1>5, <2>5, <2>6, <2>7, <3>1
              DEF Feed!Follow, Counts, Readers
    <2> QED BY <2>1, <2>8 DEF Feed!Next
  <1>9. CASE SendEvent(c)
    <2> DEFINE next == n - Len(Known(old)) + Len(old.sent) + 1
    <2>1. Following(old) /\ old.session \in Sessions
      BY <1>3, <1>9 DEF SendEvent, Following
    <2>2. n \in Nat /\ conn'[c] \in Handler
      <3>1. StreamTypeOK'
        BY HandlerStreamInv DEF StreamInv
      <3> QED BY <2>1, <3>1, LenProperties DEF StreamInv, StreamTypeOK
    <2>3. /\ new.session = old.session /\ Following(new)
          /\ Known(new) = Known(old) /\ new.sent = Append(old.sent, next)
          /\ next <= n
      <3>1. /\ Known(old) \in Seq(Nat) /\ n - Len(Known(old)) \in Nat
            /\ Len(old.sent) \in Nat
            /\ old.replay # <<>> =>
                  Head(old.replay) = next /\ Len(old.sent) + 1 <= Len(Known(old))
            /\ old.replay = <<>> /\ old.queue # <<>> =>
                  Head(old.queue) = next /\ Len(old.sent) + 1 <= Len(Known(old))
        BY <1>3, <2>1, <2>2, KnownFacts
      <3>2. Len(Known(old)) \in Nat
        BY <3>1, LenProperties
      <3>3. Len(old.sent) + 1 <= Len(Known(old)) => next <= n
        <4> DEFINE known == Len(Known(old))
                   sent == Len(old.sent)
        <4>1. known \in Nat /\ sent \in Nat /\ n \in Nat
          BY <2>2, <3>1, <3>2
        <4> HIDE DEF known, sent, n
        <4>2. sent + 1 <= known => n - known + sent + 1 <= n
          BY <4>1
        <4> QED BY <4>2 DEF known, sent
      <3>4. CASE old.pc = "replaying"
        <4>1. /\ old.replay # <<>>
              /\ new = [old EXCEPT !.replay = Tail(old.replay),
                                   !.queue = old.queue,
                                   !.sent = Append(old.sent, Head(old.replay))]
          BY <1>9, <3>4 DEF SendEvent, Due, StreamInv, StreamTypeOK
        <4>2. /\ new.session = old.session /\ new.pc = "replaying"
              /\ new.replay = Tail(old.replay) /\ new.queue = old.queue
              /\ new.sent = Append(old.sent, Head(old.replay))
          BY <1>3, <3>4, <4>1 DEF Handler
        <4>3. Known(new) = Known(old)
          BY <1>3, <2>2, <4>1, <4>2, KnownStays
        <4> HIDE DEF next, n
        <4> QED BY <3>1, <3>3, <4>1, <4>2, <4>3 DEF Following
      <3>5. CASE old.pc = "live"
        <4>1. /\ old.queue # <<>> /\ old.replay = <<>>
              /\ new = [old EXCEPT !.replay = old.replay,
                                   !.queue = Tail(old.queue),
                                   !.sent = Append(old.sent, Head(old.queue))]
          BY <1>3, <1>9, <3>5 DEF SendEvent, Due, StreamInv, StreamTypeOK
        <4>2. /\ new.session = old.session /\ new.pc = "live"
              /\ new.replay = <<>> /\ new.queue = Tail(old.queue)
              /\ new.sent = Append(old.sent, Head(old.queue))
          BY <1>3, <3>5, <4>1 DEF Handler
        <4>3. Known(new) = Known(old)
          BY <1>3, <2>2, <4>1, <4>2, KnownStays
        <4> HIDE DEF next, n
        <4> QED BY <3>1, <3>3, <4>1, <4>2, <4>3 DEF Following
      <3> QED BY <2>1, <3>4, <3>5 DEF Following
    <2>4. /\ place(old) = [session |-> old.session, after |-> n - Len(Known(old)),
                           got |-> old.sent]
          /\ place(new) = [session |-> old.session, after |-> n - Len(Known(old)),
                           got |-> Append(old.sent, next)]
      BY <2>1, <2>3 DEF Reader
    <2>5. Feed!Receive(c)
      <3>1. place(old) # Feed!Away
        BY <2>1, <2>4, NobodyAssumption DEF Feed!Away
      <3>2. Counts(published)[old.session] = n
        BY <2>1 DEF Counts
      <3> HIDE DEF place, next, n
      <3>3. place(new) = Further(place(old), next)
        <4>1. Further([session |-> old.session, after |-> n - Len(Known(old)),
                       got |-> old.sent], next)
                 = [session |-> old.session, after |-> n - Len(Known(old)),
                    got |-> Append(old.sent, next)]
          BY GotMore
        <4> QED BY <2>4, <4>1, Zenon
      <3>4. /\ place(old).session = old.session
            /\ next = place(old).after + Len(place(old).got) + 1
        BY <2>4 DEF next
      <3> QED BY <1>1, <1>4, <1>5, <2>3, <3>1, <3>2, <3>3, <3>4
              DEF Feed!Receive, Further, Counts, Readers
    <2> QED BY <2>5 DEF Feed!Next
  <1>10. CASE SendSnapshot(c)
    <2>1. /\ new.session = old.session /\ new.sent = old.sent /\ new.replay = old.replay
          /\ new.queue = old.queue /\ Following(old) /\ Following(new)
      BY <1>3, <1>10 DEF SendSnapshot, StreamInv, StreamTypeOK, Handler, Following
    <2> QED BY <1>6, <2>1 DEF Reader, Known
  <1>11. CASE HandlerEnds(c)
    <2>1. place(new) = Feed!Away
      <3>1. new = NoHandler
        BY <1>11 DEF HandlerEnds, StreamInv, StreamTypeOK
      <3> QED BY <3>1 DEF NoHandler, Reader, Following, Feed!Away
    <2>2. Feed!Drop(c)
      BY <1>1, <1>4, <2>1 DEF Feed!Drop, Counts, Readers
    <2> QED BY <2>2 DEF Feed!Next
  <1> QED BY <1>7, <1>8, <1>9, <1>10, <1>11 DEF StreamStep

\* To its clients the stream is an EventFeed, whoever publishes and whatever is
\* published between a subscription, the replay and the loop.
THEOREM StreamKeepsFeed == StreamSpec => FeedKept
  <1>1. StreamInit => Feed!Init
    BY EmptySeq DEF StreamInit, NoHandler, Feed!Init, Feed!Away, Reader, Following
  <1>2. StreamInv /\ [StreamNext]_streamVars => [Feed!Next]_Feed!vars
    <2> SUFFICES ASSUME StreamInv, [StreamNext]_streamVars
                 PROVE  Feed!Next \/ UNCHANGED Feed!vars
      OBVIOUS
    <2>1. CASE \E s \in Sessions, name \in EventName : Publish(s, name)
      BY <2>1, PublishIsHappen DEF Feed!Next
    <2>2. CASE \E c \in Sockets : StreamStep(c)
      BY <2>2, HandlerIsFeedStep
    <2>3. CASE UNCHANGED streamVars
      BY <2>3 DEF streamVars, Feed!vars
    <2> QED BY <2>1, <2>2, <2>3 DEF StreamNext
  <1> QED BY StreamInvariant, <1>1, <1>2, PTL DEF StreamSpec, FeedKept, Feed!Spec

\* So it is when the desktop, its user and the requests are its users.
THEOREM DesktopKeepsFeed == Spec => FeedKept
  BY ImplementsStream, StreamKeepsFeed
=============================================================================
