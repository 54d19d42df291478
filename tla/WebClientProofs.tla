--------------------------- MODULE WebClientProofs ---------------------------
(***************************************************************************)
(* Proofs about the Python server and the web page on it, for any number   *)
(* of connections, streams, bytes, requests and clicks: every count the    *)
(* server sends is right, a connection has one session, and what the page  *)
(* shows is what it sent.                                                  *)
(***************************************************************************)
EXTENDS WebClient, SequenceTheorems, FiniteSetTheorems, TLAPS

(***************************************************************************)
(* The invariant of one connection of the server, k.                       *)
(***************************************************************************)
IsRecord(k) == k = [handler |-> k.handler, answers |-> k.answers, counters |-> k.counters,
                    replies |-> k.replies, streams |-> k.streams, alive |-> k.alive]

\* There is a handler once a request was accepted, which happens once; an
\* assertion fails only after that; and without a handler nothing is counted.
AnswersOK(k) ==
  /\ k.handler <=> \E i \in DOMAIN k.answers : k.answers[i] = 200
  /\ \A i, j \in DOMAIN k.answers : k.answers[i] = 200 /\ k.answers[j] = 200 => i = j
  /\ \A i \in DOMAIN k.answers :
       k.answers[i] = NoAnswer => \E j \in DOMAIN k.answers : k.answers[j] = 200 /\ j < i
  /\ ~k.handler => k.replies = <<>> /\ DOMAIN k.counters = {}

\* The streams of each kind are numbered from 1; one that has no counter has
\* brought nothing that a handler saw, unless it is done.
StreamsOK(k) ==
  /\ \A kind \in {"bidi", "uni"} : \E m \in Nat : \A n : <<kind, n>> \in DOMAIN k.streams <=> n \in 1 .. m
  /\ \A id \in DOMAIN k.streams : LET s == k.streams[id] IN
       /\ s.missed <= s.read /\ s.read <= s.size
       /\ s.done => s.end # "open"
       /\ ~s.done /\ id \notin DOMAIN k.counters => s.read = s.missed

\* What is counted, and what was answered.
CountersOK(k) ==
  \A id \in DOMAIN k.counters :
    /\ id \in DOMAIN k.streams
    /\ ~k.streams[id].done
    /\ k.counters[id] = k.streams[id].read - k.streams[id].missed
RepliesOK(k) ==
  /\ \A i \in DOMAIN k.replies : LET s == k.streams[k.replies[i].to] IN
       /\ k.replies[i].to \in DOMAIN k.streams
       /\ s.end = "fin" /\ s.done
       /\ k.replies[i].count = s.size - s.missed
  /\ \A i, j \in DOMAIN k.replies : k.replies[i].to = k.replies[j].to => i = j

ConnOK(k) == /\ IsRecord(k) /\ IsConnection(k)
             /\ AnswersOK(k) /\ StreamsOK(k) /\ CountersOK(k) /\ RepliesOK(k)

(***************************************************************************)
(* The page.  It is connected only to a server that has a handler for it,  *)
(* and sends nothing before: no byte of it is missed.  A stream that       *)
(* sendData() is still at is its own, open, and empty until it is written. *)
(***************************************************************************)
PageConn(k) == /\ DOMAIN k.streams = {} \/ k.handler
               /\ \A id \in DOMAIN k.streams : k.streams[id].missed = 0
ConnectInv ==
  \A c \in Connections :
    /\ connects[c] # "none" => client[c] = "page"
    /\ connects[c] = "connected" => conn[c].handler
    /\ client[c] = "page" => PageConn(conn[c])

Connected(c) == c \in Connections /\ connects[c] = "connected"
Busy(x) == x.at \in {"write", "close"}
SendOK(x, streams) ==
  Busy(x) => LET id == <<x.kind, x.stream>> IN
    /\ id \in DOMAIN streams
    /\ streams[id].end = "open"
    /\ x.at = "write" => streams[id].size = 0

SendsInv ==
  /\ globals.send => Connected(globals.currentTransport)
  /\ \A i \in DOMAIN sends :
       /\ Connected(sends[i].transport)
       /\ SendOK(sends[i], conn[sends[i].transport].streams)
  /\ \A i, j \in DOMAIN sends :
       /\ Busy(sends[i]) /\ Busy(sends[j])
       /\ sends[i].transport = sends[j].transport
       /\ sends[i].kind = sends[j].kind /\ sends[i].stream = sends[j].stream
       => i = j

\* As long as one transport alone was connected, the numbers given out are
\* all below the next one, and no two readers have the same.
OneConnected == \A b, c \in Connections : connects[b] = "connected" /\ connects[c] = "connected" => b = c
ReadersInv ==
  /\ IsFiniteSet(readers)
  /\ \A r \in readers : Connected(r.transport)
  /\ OneConnected => /\ \A r \in readers : r.number < globals.streamNumber
                     /\ \A r, q \in readers : r.number = q.number => r = q

\* The rest of TypeOK, which the other parts do not say.
PageTypes == /\ client \in Clients
             /\ conn = [c \in Connections |-> conn[c]]
             /\ connects \in [Connections -> {"none", "ready?", "connected", "failed"}]
             /\ globals \in Globals
             /\ sends \in Seq(Send)
             /\ readers \subseteq Reader
ConnsInv == \A c \in Connections : ConnOK(conn[c])

PageInv == PageTypes /\ ConnsInv /\ ConnectInv /\ SendsInv /\ ReadersInv
-----------------------------------------------------------------------------
(* One connection of the server.                                             *)

\* One stream that is not done becomes t, with its counter; and its reply may
\* be appended.
StreamBecomes(k, id, t, l) ==
  /\ ~k.streams[id].done
  /\ t \in Stream /\ t.missed <= t.read /\ t.read <= t.size /\ (t.done => t.end # "open")
  /\ IsRecord(l) /\ l.handler = k.handler /\ l.answers = k.answers /\ l.alive = k.alive
  /\ l.streams = [k.streams EXCEPT ![id] = t]
  /\ \A x : x # id => (x \in DOMAIN l.counters <=> x \in DOMAIN k.counters)
  /\ \A x \in DOMAIN l.counters : x # id => l.counters[x] = k.counters[x]
  /\ id \in DOMAIN l.counters => k.handler /\ ~t.done /\ l.counters[id] = t.read - t.missed
  /\ ~t.done /\ id \notin DOMAIN l.counters => t.read = t.missed
  /\ \/ l.replies = k.replies
     \/ /\ k.handler /\ t.done /\ t.end = "fin"
        /\ \E on \in {"same", "new"} :
             l.replies = Append(k.replies, [to |-> id, on |-> on, count |-> t.size - t.missed])

\* Such a step keeps the connection as it should be.
LEMMA StreamStep ==
  ASSUME NEW k, ConnOK(k), NEW id \in DOMAIN k.streams, NEW t, NEW l, StreamBecomes(k, id, t, l)
  PROVE  ConnOK(l)
<1> USE DEF StreamBecomes
<1>1. /\ IsRecord(k) /\ IsConnection(k)
      /\ AnswersOK(k) /\ StreamsOK(k) /\ CountersOK(k) /\ RepliesOK(k)
  BY DEF ConnOK
<1>2. /\ DOMAIN l.streams = DOMAIN k.streams /\ l.streams[id] = t
      /\ \A x \in DOMAIN k.streams : x # id => l.streams[x] = k.streams[x]
  OBVIOUS
<1>3. /\ t.size \in Nat /\ t.read \in Nat /\ t.missed \in Nat
      /\ t.size - t.missed \in Nat /\ t.read - t.missed \in Nat
  <2>1. t.size \in 0 .. MaxBytes /\ t.read \in 0 .. MaxBytes /\ t.missed \in 0 .. MaxBytes
    BY DEF Stream
  <2>2. t.size \in Nat /\ t.read \in Nat /\ t.missed \in Nat
    BY <2>1, BoundsAssumption
  <2> QED BY <2>2
<1>4. id \in StreamId
  BY <1>1 DEF IsConnection
<1>5. DOMAIN l.counters \subseteq DOMAIN k.counters \cup {id}
  OBVIOUS
<1>6. AnswersOK(l)
  BY <1>1, <1>5 DEF AnswersOK
<1>7. StreamsOK(l)
  <2>1. \A kind \in {"bidi", "uni"} : \E m \in Nat : \A n : <<kind, n>> \in DOMAIN l.streams <=> n \in 1 .. m
    BY <1>1, <1>2 DEF StreamsOK
  <2>2. ASSUME NEW x \in DOMAIN l.streams
        PROVE  /\ l.streams[x].missed <= l.streams[x].read /\ l.streams[x].read <= l.streams[x].size
               /\ l.streams[x].done => l.streams[x].end # "open"
               /\ ~l.streams[x].done /\ x \notin DOMAIN l.counters => l.streams[x].read = l.streams[x].missed
    <3>1. CASE x = id
      BY <1>2, <3>1
    <3>2. CASE x # id
      BY <1>1, <1>2, <3>2 DEF StreamsOK
    <3> QED BY <3>1, <3>2
  <2> QED BY <2>1, <2>2 DEF StreamsOK
<1>8. CountersOK(l)
  <2> SUFFICES ASSUME NEW x \in DOMAIN l.counters
               PROVE  /\ x \in DOMAIN l.streams /\ ~l.streams[x].done
                      /\ l.counters[x] = l.streams[x].read - l.streams[x].missed
    BY DEF CountersOK
  <2>1. CASE x = id
    BY <1>2, <2>1
  <2>2. CASE x # id
    BY <1>1, <1>2, <2>2 DEF CountersOK
  <2> QED BY <2>1, <2>2
<1>9. \A x \in DOMAIN l.counters : l.counters[x] \in Nat
  <2> SUFFICES ASSUME NEW x \in DOMAIN l.counters PROVE l.counters[x] \in Nat
    OBVIOUS
  <2>1. CASE x = id
    BY <1>3, <2>1
  <2>2. CASE x # id
    BY <1>1, <2>2 DEF IsConnection
  <2> QED BY <2>1, <2>2
<1>10. \A i \in DOMAIN k.replies : k.replies[i].to \in DOMAIN k.streams /\ k.replies[i].to # id
  BY <1>1 DEF RepliesOK
<1>11. \A i \in DOMAIN k.replies : LET s == l.streams[k.replies[i].to] IN
         /\ k.replies[i].to \in DOMAIN l.streams
         /\ s.end = "fin" /\ s.done
         /\ k.replies[i].count = s.size - s.missed
  BY <1>1, <1>2, <1>10 DEF RepliesOK
<1>12. l.replies \in Seq([to : StreamId, on : {"same", "new"}, count : Nat]) /\ RepliesOK(l)
  <2>1. k.replies \in Seq([to : StreamId, on : {"same", "new"}, count : Nat])
    BY <1>1 DEF IsConnection
  <2>2. CASE l.replies = k.replies
    BY <1>1, <1>11, <2>1, <2>2 DEF RepliesOK
  <2>3. ASSUME NEW on \in {"same", "new"}, k.handler, t.done, t.end = "fin",
               l.replies = Append(k.replies, [to |-> id, on |-> on, count |-> t.size - t.missed])
        PROVE  l.replies \in Seq([to : StreamId, on : {"same", "new"}, count : Nat]) /\ RepliesOK(l)
    <3>1. PICK a : a = [to |-> id, on |-> on, count |-> t.size - t.missed]
      OBVIOUS
    <3>2. a \in [to : StreamId, on : {"same", "new"}, count : Nat] /\ a.to = id
          /\ a.count = t.size - t.missed
      BY <1>3, <1>4, <3>1
    <3>3. PICK n \in Nat : n = Len(k.replies) /\ DOMAIN k.replies = 1 .. n
      BY <2>1, LenProperties
    <3>4. /\ l.replies \in Seq([to : StreamId, on : {"same", "new"}, count : Nat])
          /\ DOMAIN l.replies = 1 .. n + 1
          /\ l.replies[n + 1] = a /\ \A i \in 1 .. n : l.replies[i] = k.replies[i]
      BY <2>1, <2>3, <3>1, <3>2, <3>3, AppendProperties, LenProperties
    <3>5. \A i \in DOMAIN l.replies : i \in DOMAIN k.replies \/ i = n + 1
      BY <3>3, <3>4
    <3>6. ASSUME NEW i \in DOMAIN l.replies
          PROVE  LET s == l.streams[l.replies[i].to] IN
                 /\ l.replies[i].to \in DOMAIN l.streams
                 /\ s.end = "fin" /\ s.done
                 /\ l.replies[i].count = s.size - s.missed
      <4>1. CASE i \in DOMAIN k.replies
        <5>1. l.replies[i] = k.replies[i]
          BY <3>3, <3>4, <4>1
        <5> QED BY ONLY <1>11, <4>1, <5>1
      <4>2. CASE i = n + 1
        BY <1>2, <2>3, <3>2, <3>4, <4>2
      <4> QED BY <3>5, <4>1, <4>2
    <3>7. ASSUME NEW i \in DOMAIN l.replies, NEW j \in DOMAIN l.replies, l.replies[i].to = l.replies[j].to
          PROVE  i = j
      <4>1. \A x \in DOMAIN k.replies : l.replies[x] = k.replies[x] /\ l.replies[x].to # id
        <5> SUFFICES ASSUME NEW x \in DOMAIN k.replies
                     PROVE  l.replies[x] = k.replies[x] /\ l.replies[x].to # id
          OBVIOUS
        <5>1. l.replies[x] = k.replies[x]
          BY <3>3, <3>4
        <5> QED BY <1>10, <5>1
      <4>2. l.replies[n + 1].to = id
        BY <3>2, <3>4
      <4>3. CASE i \in DOMAIN k.replies /\ j \in DOMAIN k.replies
        BY <1>1, <3>7, <4>1, <4>3 DEF RepliesOK
      <4> QED BY <3>5, <3>7, <4>1, <4>2, <4>3
    <3> QED BY <3>4, <3>6, <3>7 DEF RepliesOK
  <2> QED BY <2>2, <2>3
<1>13. IsConnection(l)
  <2>1. DOMAIN l.counters \subseteq StreamId
    BY <1>1, <1>4, <1>5 DEF IsConnection
  <2>2. \A x \in DOMAIN l.streams : l.streams[x] \in Stream
    BY <1>1, <1>2 DEF IsConnection
  <2> QED BY <1>1, <1>2, <1>9, <1>12, <2>1, <2>2 DEF IsConnection
<1> QED BY <1>6, <1>7, <1>8, <1>12, <1>13 DEF ConnOK

\* What a step of the server leaves of k's streams in l.
Extends(k, l) ==
  /\ k.handler => l.handler
  /\ \A id \in DOMAIN k.streams :
       id \in DOMAIN l.streams /\ l.streams[id].size = k.streams[id].size
                               /\ l.streams[id].end = k.streams[id].end

\* The same of k and l, as far as ByteCounter tells them apart, but for what
\* became of the streams in S.
AlikeBut(k, l, S) ==
  \A x \in StreamId \ S : Heard(l, x) = Heard(k, x) /\ HowEnded(l, x) = HowEnded(k, x)

\* A step from k to l as ByteCounter sees it: nothing; a session is accepted;
\* or a stream that is open brings n bytes of a session, and may be finished,
\* or ends without an answer.
Counts(k, l) ==
  \/ /\ AlikeBut(k, l, {}) /\ l.replies = k.replies
     /\ l.handler = k.handler \/ (~k.handler /\ l.handler = TRUE)
  \/ \E id \in StreamId, n \in 0 .. MaxBytes :
       /\ AlikeBut(k, l, {id}) /\ l.handler = k.handler
       /\ HowEnded(k, id) = "open"
       /\ \/ /\ k.handler
             /\ Heard(l, id) = Heard(k, id) + n
             /\ \/ HowEnded(l, id) = "open" /\ l.replies = k.replies
                \/ /\ HowEnded(l, id) = "fin"
                   /\ l.replies = Append(k.replies, Counter!Answer(id, Heard(k, id) + n))
          \/ /\ Heard(l, id) = Heard(k, id) /\ l.replies = k.replies
             /\ \/ HowEnded(l, id) = "reset"
                \/ HowEnded(l, id) = "fin" /\ ~k.handler

\* What ByteCounter sees of a stream that was s and becomes t.
Sees(k, l, id, s, t) ==
  /\ AlikeBut(k, l, {id})
  /\ Heard(k, id) = s.read - s.missed
  /\ HowEnded(k, id) = IF s.done THEN s.end ELSE "open"
  /\ Heard(l, id) = t.read - t.missed
  /\ HowEnded(l, id) = IF t.done THEN t.end ELSE "open"

LEMMA StreamSeen ==
  ASSUME NEW k, NEW l, NEW id \in DOMAIN k.streams, NEW t,
         l.streams = [k.streams EXCEPT ![id] = t]
  PROVE  Sees(k, l, id, k.streams[id], t)
<1>1. /\ DOMAIN l.streams = DOMAIN k.streams /\ l.streams[id] = t
      /\ \A x \in DOMAIN k.streams : x # id => l.streams[x] = k.streams[x]
  OBVIOUS
<1> QED BY <1>1 DEF AlikeBut, Heard, HowEnded, Sees

\* A stream that it sees as before.
LEMMA StreamUnseen ==
  ASSUME NEW k, NEW l, NEW id, AlikeBut(k, l, {id}),
         Heard(l, id) = Heard(k, id), HowEnded(l, id) = HowEnded(k, id),
         l.replies = k.replies, l.handler = k.handler
  PROVE  Counts(k, l)
<1>1. AlikeBut(k, l, {})
  BY DEF AlikeBut
<1> QED BY <1>1 DEF Counts

\* A counter in the record that stands for k.
LEMMA RecordCounters ==
  ASSUME NEW k, IsRecord(k), NEW v
  PROVE  [k EXCEPT !.counters = v] =
           [handler |-> k.handler, answers |-> k.answers, counters |-> v,
            replies |-> k.replies, streams |-> k.streams, alive |-> k.alive]
BY DEF IsRecord

\* What StreamDataReceived makes of k: the handler sees the data, or not, ...
Seen(k, id, n, ended) == IF k.handler THEN h3_event_received(k, id, n, ended)
                         ELSE [k EXCEPT !.streams[id].missed = @ + n]
\* ... and the data are read.
Taken(d, id, n, ended) == [d EXCEPT !.streams[id].read = @ + n, !.streams[id].done = ended]

\* Data of a stream: before there is a handler it is missed, after that it is
\* counted, and the end of the stream is answered.
LEMMA DataStep ==
  ASSUME NEW k, ConnOK(k), NEW id \in DOMAIN k.streams, NEW n \in 0 .. MaxBytes,
         NEW ended \in BOOLEAN,
         ~k.streams[id].done,
         n <= k.streams[id].size - k.streams[id].read,
         ended => k.streams[id].end = "fin" /\ n = k.streams[id].size - k.streams[id].read,
         NEW d, d = Seen(k, id, n, ended), NEW l, l = Taken(d, id, n, ended)
  PROVE  ConnOK(l) /\ Extends(k, l) /\ (PageConn(k) => PageConn(l)) /\ Counts(k, l)
<1>1. /\ IsRecord(k) /\ IsConnection(k)
      /\ AnswersOK(k) /\ StreamsOK(k) /\ CountersOK(k) /\ RepliesOK(k)
  BY DEF ConnOK
<1>2. PICK s : s = k.streams[id]
  OBVIOUS
<1>3. /\ s \in Stream /\ ~s.done
      /\ s.size \in Nat /\ s.read \in Nat /\ s.missed \in Nat /\ s.size \in 0 .. MaxBytes
      /\ s.missed <= s.read /\ s.read <= s.size
      /\ n \in Nat /\ n <= s.size - s.read
      /\ ended => s.end = "fin" /\ n = s.size - s.read
  <2>1. s \in Stream
    BY <1>1, <1>2 DEF IsConnection
  <2>2. s.size \in 0 .. MaxBytes /\ s.read \in 0 .. MaxBytes /\ s.missed \in 0 .. MaxBytes
    BY <2>1 DEF Stream
  <2> QED BY <1>1, <1>2, <2>1, <2>2, BoundsAssumption DEF StreamsOK
<1>4. /\ s.read + n \in 0 .. MaxBytes /\ s.missed + n \in 0 .. MaxBytes
      /\ s.missed + n <= s.read + n /\ s.missed <= s.read + n /\ s.read + n <= s.size
  BY <1>3, BoundsAssumption
<1>5. s.end \in {"open", "fin", "reset"}
  BY <1>3 DEF Stream
<1>6. id \in StreamId
  BY <1>1 DEF IsConnection
<1>7. ASSUME NEW t, t.size = s.size, t.end = s.end, l.handler = k.handler,
             l.streams = [k.streams EXCEPT ![id] = t], k.handler => t.missed = s.missed
      PROVE  Extends(k, l) /\ (PageConn(k) => PageConn(l))
  <2>1. /\ DOMAIN l.streams = DOMAIN k.streams /\ l.streams[id] = t
        /\ \A x \in DOMAIN k.streams : x # id => l.streams[x] = k.streams[x]
    BY <1>7
  <2>2. Extends(k, l)
    BY <1>2, <1>7, <2>1 DEF Extends
  <2>3. PageConn(k) => PageConn(l)
    BY <1>2, <1>7, <2>1 DEF PageConn
  <2> QED BY <2>2, <2>3
<1>8. CASE ~k.handler
  <2>1. PICK t : t = [size |-> s.size, end |-> s.end, read |-> s.read + n, missed |-> s.missed + n,
                      done |-> ended]
    OBVIOUS
  <2>2. t \in Stream
    BY <1>3, <1>4, <1>5, <2>1 DEF Stream
  <2>3. l = [handler |-> k.handler, answers |-> k.answers, counters |-> k.counters,
             replies |-> k.replies, streams |-> [k.streams EXCEPT ![id] = t], alive |-> k.alive]
    <3>1. PICK u : u = [s EXCEPT !.missed = @ + n]
      OBVIOUS
    <3>2. PICK f : f = [k.streams EXCEPT ![id] = u]
      OBVIOUS
    <3>3. d = [k EXCEPT !.streams = f]
      BY <1>2, <1>8, <3>1, <3>2 DEF Seen
    <3>4. d = [handler |-> k.handler, answers |-> k.answers, counters |-> k.counters,
               replies |-> k.replies, streams |-> f, alive |-> k.alive]
      BY <1>1, <3>3 DEF IsRecord
    <3>5. DOMAIN f = DOMAIN k.streams /\ f[id] = u
      BY <3>2
    <3>6. PICK v : v = [u EXCEPT !.read = @ + n, !.done = ended]
      OBVIOUS
    <3>7. v = t
      <4>1. s = [size |-> s.size, end |-> s.end, read |-> s.read, missed |-> s.missed, done |-> s.done]
        BY <1>3 DEF Stream
      <4>2. u = [size |-> s.size, end |-> s.end, read |-> s.read, missed |-> s.missed + n, done |-> s.done]
        BY <3>1, <4>1
      <4>3. v = [size |-> s.size, end |-> s.end, read |-> s.read + n, missed |-> s.missed + n, done |-> ended]
        BY ONLY <3>6, <4>2
      <4> QED BY <2>1, <4>3
    <3>8. [f EXCEPT ![id] = v] = [k.streams EXCEPT ![id] = v]
      BY <3>2
    <3>9. l = [d EXCEPT !.streams = [f EXCEPT ![id] = v]]
      <4>1. d.streams = f
        BY <3>4
      <4>2. l = [d EXCEPT !.streams = [d.streams EXCEPT ![id] = [d.streams[id] EXCEPT !.read = @ + n, !.done = ended]]]
        BY <3>4, <3>5 DEF Taken
      <4> QED BY <3>5, <3>6, <4>1, <4>2
    <3> QED BY <3>4, <3>7, <3>8, <3>9
  <2>4. ConnOK(l)
    <3>1. DOMAIN k.counters = {}
      BY <1>1, <1>8 DEF AnswersOK
    <3>2. s.read = s.missed
      BY <1>1, <1>2, <1>3, <3>1 DEF StreamsOK
    <3>3. t.read = t.missed
      BY <2>1, <3>2
    <3>4. t.missed <= t.read /\ t.read <= t.size /\ (t.done => t.end # "open")
      BY <1>3, <1>4, <2>1
    <3>5. /\ IsRecord(l) /\ l.handler = k.handler /\ l.answers = k.answers /\ l.alive = k.alive
          /\ l.streams = [k.streams EXCEPT ![id] = t] /\ l.counters = k.counters /\ l.replies = k.replies
      BY <2>3 DEF IsRecord
    <3>6. StreamBecomes(k, id, t, l)
      BY <1>2, <1>3, <2>2, <3>1, <3>3, <3>4, <3>5 DEF StreamBecomes
    <3> QED BY <3>6, StreamStep
  <2>5. t.size = s.size /\ t.end = s.end /\ l.handler = k.handler
        /\ l.streams = [k.streams EXCEPT ![id] = t]
    BY <2>1, <2>3
  <2>6. Counts(k, l)
    <3>1. /\ AlikeBut(k, l, {id}) /\ Heard(k, id) = s.read - s.missed /\ HowEnded(k, id) = "open"
          /\ Heard(l, id) = (s.read + n) - (s.missed + n)
          /\ HowEnded(l, id) = IF ended THEN s.end ELSE "open"
      <4>1. Sees(k, l, id, s, t)
        BY <1>2, <2>5, StreamSeen
      <4> QED BY <1>3, <2>1, <4>1 DEF Sees
    <3>2. Heard(l, id) = Heard(k, id) /\ l.replies = k.replies /\ l.handler = k.handler
      <4>1. (s.read + n) - (s.missed + n) = s.read - s.missed
        BY <1>3
      <4> QED BY <2>3, <3>1, <4>1
    <3>3. CASE ended
      BY <1>3, <1>8, <1>6, <3>1, <3>2, <3>3, BoundsAssumption DEF Counts
    <3>4. CASE ~ended
      BY <3>1, <3>2, <3>4, StreamUnseen
    <3> QED BY <3>3, <3>4
  <2> QED BY <1>7, <1>8, <2>4, <2>5, <2>6
<1>9. CASE k.handler
  <2>1. PICK t : t = [size |-> s.size, end |-> s.end, read |-> s.read + n, missed |-> s.missed,
                      done |-> ended]
    OBVIOUS
  <2>2. t \in Stream /\ t.size = s.size /\ t.end = s.end /\ t.missed = s.missed /\ t.done = ended
        /\ t.read = s.read + n
    BY <1>3, <1>4, <1>5, <2>1 DEF Stream
  <2>3. t.missed <= t.read /\ t.read <= t.size /\ (t.done => t.end # "open")
    BY <1>3, <1>4, <2>2
  <2>4. PICK f : f = Counted(k, id, n)
    OBVIOUS
  <2>5. /\ DOMAIN f = DOMAIN k.counters \cup {id}
        /\ \A x \in DOMAIN k.counters : x # id => f[x] = k.counters[x]
        /\ f[id] = t.read - t.missed
    <3>1. f[id] = n + IF id \in DOMAIN k.counters THEN k.counters[id] ELSE 0
      BY <2>4 DEF Counted, With
    <3>2. f[id] = n + (s.read - s.missed)
      <4>1. id \in DOMAIN k.counters => k.counters[id] = s.read - s.missed
        BY <1>1, <1>2 DEF CountersOK
      <4>2. id \notin DOMAIN k.counters => s.read - s.missed = 0
        <5>1. id \notin DOMAIN k.counters => s.read = s.missed
          BY <1>1, <1>2, <1>3 DEF StreamsOK
        <5> QED BY <1>3, <5>1
      <4> QED BY <3>1, <4>1, <4>2
    <3>3. n + (s.read - s.missed) = t.read - t.missed
      BY <1>3, <2>2
    <3>4. /\ DOMAIN f = DOMAIN k.counters \cup {id}
          /\ \A x \in DOMAIN k.counters : x # id => f[x] = k.counters[x]
      BY <2>4 DEF Counted, With
    <3> QED BY <3>2, <3>3, <3>4
  <2>6. PICK e : e = [k EXCEPT !.counters = f]
    OBVIOUS
  <2>7. e = [handler |-> k.handler, answers |-> k.answers, counters |-> f,
             replies |-> k.replies, streams |-> k.streams, alive |-> k.alive]
    BY <1>1, <2>6, RecordCounters
  <2>8. PICK cs, rs : d = [handler |-> k.handler, answers |-> k.answers, counters |-> cs,
                           replies |-> rs, streams |-> k.streams, alive |-> k.alive]
                      /\ IF ended
                         THEN /\ cs = Restrict(f, DOMAIN f \ {id})
                              /\ rs = Append(k.replies, [to |-> id, on |-> IF IsUni(id) THEN "new" ELSE "same",
                                                         count |-> f[id]])
                         ELSE cs = f /\ rs = k.replies
    <3>1. d = IF ended THEN stream_closed([e EXCEPT !.replies = Reply(e, id)], id) ELSE e
      BY <1>9, <2>4, <2>6 DEF h3_event_received, Seen
    <3>2. CASE ended
      <4>1. PICK rs : rs = Reply(e, id)
        OBVIOUS
      <4>2. rs = Append(k.replies, [to |-> id, on |-> IF IsUni(id) THEN "new" ELSE "same",
                                    count |-> f[id]])
        BY <2>7, <4>1 DEF Reply
      <4>3. [e EXCEPT !.replies = rs] =
              [handler |-> k.handler, answers |-> k.answers, counters |-> f,
               replies |-> rs, streams |-> k.streams, alive |-> k.alive]
        BY <2>7
      <4>4. PICK g : g = [e EXCEPT !.replies = rs]
        OBVIOUS
      <4>5. PICK cs : cs = Restrict(f, DOMAIN f \ {id})
        OBVIOUS
      <4>6. d = [g EXCEPT !.counters = cs]
        <5>1. d = stream_closed(g, id)
          BY <3>1, <3>2, <4>1, <4>4
        <5>2. g.counters = f
          BY <4>3, <4>4
        <5> QED BY <4>5, <5>1, <5>2 DEF stream_closed
      <4>7. d = [handler |-> k.handler, answers |-> k.answers, counters |-> cs,
                 replies |-> rs, streams |-> k.streams, alive |-> k.alive]
        BY <4>3, <4>4, <4>6
      <4> QED BY <3>2, <4>2, <4>5, <4>7
    <3>3. CASE ~ended
      BY <2>7, <3>1, <3>3
    <3> QED BY <3>2, <3>3
  <2>9. l = [handler |-> k.handler, answers |-> k.answers, counters |-> cs,
             replies |-> rs, streams |-> [k.streams EXCEPT ![id] = t], alive |-> k.alive]
    <3>1. PICK v : v = [s EXCEPT !.read = @ + n, !.done = ended]
      OBVIOUS
    <3>2. v = t
      <4>1. s = [size |-> s.size, end |-> s.end, read |-> s.read, missed |-> s.missed, done |-> s.done]
        BY <1>3 DEF Stream
      <4>2. v = [size |-> s.size, end |-> s.end, read |-> s.read + n, missed |-> s.missed, done |-> ended]
        BY ONLY <3>1, <4>1
      <4> QED BY <2>1, <4>2
    <3>3. l = [d EXCEPT !.streams = [k.streams EXCEPT ![id] = v]]
      <4>1. d.streams = k.streams
        BY <2>8
      <4>2. l = [d EXCEPT !.streams = [d.streams EXCEPT ![id] = [d.streams[id] EXCEPT !.read = @ + n, !.done = ended]]]
        BY <2>8 DEF Taken
      <4> QED BY <1>2, <3>1, <4>1, <4>2
    <3> QED BY <2>8, <3>2, <3>3
  <2>10. /\ IsRecord(l) /\ l.handler = k.handler /\ l.answers = k.answers /\ l.alive = k.alive
         /\ l.streams = [k.streams EXCEPT ![id] = t] /\ l.counters = cs /\ l.replies = rs
    BY <2>9 DEF IsRecord
  <2>11. /\ \A x : x # id => (x \in DOMAIN l.counters <=> x \in DOMAIN k.counters)
         /\ \A x \in DOMAIN l.counters : x # id => l.counters[x] = k.counters[x]
         /\ id \in DOMAIN l.counters => k.handler /\ ~t.done /\ l.counters[id] = t.read - t.missed
         /\ ~t.done /\ id \notin DOMAIN l.counters => t.read = t.missed
    <3>1. CASE ended
      <4>1. cs = Restrict(f, DOMAIN f \ {id})
        BY <2>8, <3>1
      <4>2. DOMAIN cs = DOMAIN k.counters \ {id} /\ \A x \in DOMAIN cs : cs[x] = k.counters[x]
        BY <2>5, <4>1 DEF Restrict
      <4> QED BY <2>2, <2>10, <3>1, <4>2
    <3>2. CASE ~ended
      <4>1. cs = f /\ ~t.done
        BY <2>2, <2>8, <3>2
      <4> QED BY <1>9, <2>5, <2>10, <4>1
    <3> QED BY <3>1, <3>2
  <2>12. \/ l.replies = k.replies
         \/ /\ k.handler /\ t.done /\ t.end = "fin"
            /\ \E on \in {"same", "new"} :
                 l.replies = Append(k.replies, [to |-> id, on |-> on, count |-> t.size - t.missed])
    <3>1. CASE ended
      <4>1. f[id] = t.size - t.missed
        BY <1>3, <2>2, <2>5, <3>1
      <4>2. t.done /\ t.end = "fin"
        BY <1>3, <2>2, <3>1
      <4>3. PICK on \in {"same", "new"} : on = IF IsUni(id) THEN "new" ELSE "same"
        OBVIOUS
      <4>4. rs = Append(k.replies, [to |-> id, on |-> on, count |-> f[id]])
        BY <2>8, <3>1, <4>3
      <4> QED BY <1>9, <2>10, <4>1, <4>2, <4>4
    <3>2. CASE ~ended
      BY <2>8, <2>10, <3>2
    <3> QED BY <3>1, <3>2
  <2>13. ConnOK(l)
    <3>1. StreamBecomes(k, id, t, l)
      BY <1>2, <1>3, <2>2, <2>3, <2>10, <2>11, <2>12 DEF StreamBecomes
    <3> QED BY <3>1, StreamStep
  <2>14. Counts(k, l)
    <3>1. /\ AlikeBut(k, l, {id}) /\ Heard(k, id) = s.read - s.missed /\ HowEnded(k, id) = "open"
          /\ Heard(l, id) = t.read - t.missed
          /\ HowEnded(l, id) = IF ended THEN s.end ELSE "open"
      <4>1. Sees(k, l, id, s, t)
        BY <1>2, <2>10, StreamSeen
      <4> QED BY <1>3, <2>2, <4>1 DEF Sees
    <3>2. t.read - t.missed = (s.read - s.missed) + n
      BY <1>3, <2>2
    <3>3. Heard(l, id) = Heard(k, id) + n
      BY <3>1, <3>2
    <3>4. CASE ended
      <4>1. rs = Append(k.replies, [to |-> id, on |-> IF id[1] = "uni" THEN "new" ELSE "same",
                                    count |-> f[id]])
        BY <2>8, <3>4 DEF IsUni
      <4>2. f[id] = Heard(k, id) + n
        BY <2>5, <3>1, <3>2
      <4>3. l.replies = Append(k.replies, Counter!Answer(id, Heard(k, id) + n))
        BY <2>10, <4>1, <4>2 DEF Counter!Answer
      <4>4. HowEnded(l, id) = "fin" /\ HowEnded(k, id) = "open" /\ AlikeBut(k, l, {id})
        BY <1>3, <3>1, <3>4
      <4> QED BY <1>9, <1>6, <2>10, <3>3, <4>3, <4>4 DEF Counts
    <3>5. CASE ~ended
      <4>1. l.replies = k.replies
        BY <2>8, <2>10, <3>5
      <4> QED BY <1>9, <1>6, <2>10, <3>1, <3>3, <3>5, <4>1 DEF Counts
    <3> QED BY <3>4, <3>5
  <2> QED BY <1>7, <2>2, <2>10, <2>13, <2>14
<1> QED BY <1>8, <1>9

\* Nothing more is read of a stream.
Finished(d, id) == [d EXCEPT !.streams[id].done = TRUE]

\* A reset: the stream is done, and a handler's counter goes.
LEMMA ResetStep ==
  ASSUME NEW k, ConnOK(k), NEW id \in DOMAIN k.streams,
         ~k.streams[id].done, k.streams[id].end = "reset",
         NEW d, d = Reset(k, id), NEW l, l = Finished(d, id)
  PROVE  ConnOK(l) /\ Extends(k, l) /\ (PageConn(k) => PageConn(l)) /\ Counts(k, l)
<1>1. IsRecord(k) /\ IsConnection(k) /\ AnswersOK(k) /\ StreamsOK(k) /\ CountersOK(k)
  BY DEF ConnOK
<1>2. PICK s : s = k.streams[id]
  OBVIOUS
<1>3. /\ s \in Stream /\ ~s.done /\ s.end = "reset" /\ s.missed <= s.read /\ s.read <= s.size
  BY <1>1, <1>2 DEF IsConnection, StreamsOK
<1>4. PICK t : t = [s EXCEPT !.done = TRUE]
  OBVIOUS
<1>5. /\ t \in Stream /\ t.done /\ t.end = s.end /\ t.size = s.size /\ t.missed = s.missed
      /\ t.read = s.read
  BY <1>3, <1>4 DEF Stream
<1>6. PICK cs : cs = IF k.handler THEN Restrict(k.counters, DOMAIN k.counters \ {id}) ELSE k.counters
  OBVIOUS
<1>7. DOMAIN cs = DOMAIN k.counters \ {id} /\ \A x \in DOMAIN cs : cs[x] = k.counters[x]
  <2>1. CASE k.handler
    BY <1>6, <2>1 DEF Restrict
  <2>2. CASE ~k.handler
    BY <1>1, <1>6, <2>2 DEF AnswersOK
  <2> QED BY <2>1, <2>2
<1>8. d = [handler |-> k.handler, answers |-> k.answers, counters |-> cs,
           replies |-> k.replies, streams |-> k.streams, alive |-> k.alive]
  <2>1. CASE k.handler
    <3>1. d = [k EXCEPT !.counters = cs]
      BY <1>6, <2>1 DEF Reset, stream_closed
    <3> QED BY <1>1, <3>1 DEF IsRecord
  <2>2. CASE ~k.handler
    BY <1>1, <1>6, <2>2 DEF Reset, IsRecord
  <2> QED BY <2>1, <2>2
<1>9. l = [handler |-> k.handler, answers |-> k.answers, counters |-> cs,
           replies |-> k.replies, streams |-> [k.streams EXCEPT ![id] = t], alive |-> k.alive]
  <2>1. l = [d EXCEPT !.streams = [k.streams EXCEPT ![id] = t]]
    <3>1. d.streams = k.streams
      BY <1>8
    <3>2. l = [d EXCEPT !.streams = [d.streams EXCEPT ![id] = [d.streams[id] EXCEPT !.done = TRUE]]]
      BY <1>8 DEF Finished
    <3> QED BY <1>2, <1>4, <3>1, <3>2
  <2> QED BY <1>8, <2>1
<1>10. /\ IsRecord(l) /\ l.handler = k.handler /\ l.answers = k.answers /\ l.alive = k.alive
       /\ l.streams = [k.streams EXCEPT ![id] = t] /\ l.counters = cs /\ l.replies = k.replies
  BY <1>9 DEF IsRecord
<1>11. ConnOK(l)
  <2>1. StreamBecomes(k, id, t, l)
    BY <1>2, <1>3, <1>5, <1>7, <1>10 DEF StreamBecomes
  <2> QED BY <2>1, StreamStep
<1>12. /\ DOMAIN l.streams = DOMAIN k.streams /\ l.streams[id] = t
       /\ \A x \in DOMAIN k.streams : x # id => l.streams[x] = k.streams[x]
  BY <1>10
<1>13. Extends(k, l)
  BY <1>2, <1>5, <1>10, <1>12 DEF Extends
<1>14. PageConn(k) => PageConn(l)
  BY <1>2, <1>5, <1>10, <1>12 DEF PageConn
<1>15. Counts(k, l)
  <2>1. /\ AlikeBut(k, l, {id}) /\ Heard(k, id) = s.read - s.missed /\ HowEnded(k, id) = "open"
        /\ Heard(l, id) = s.read - s.missed /\ HowEnded(l, id) = "reset"
    <3>1. Sees(k, l, id, s, t)
      BY <1>2, <1>10, StreamSeen
    <3> QED BY <1>3, <1>5, <3>1 DEF Sees
  <2>2. id \in StreamId /\ 0 \in 0 .. MaxBytes
    BY <1>1, BoundsAssumption DEF IsConnection
  <2> QED BY <1>10, <2>1, <2>2 DEF Counts
<1> QED BY <1>11, <1>13, <1>14, <1>15

\* What HeadersReceived makes of k.
Answered(k, r) == [k EXCEPT !.answers = Append(@, Status(k, r)), !.handler = @ \/ r = "/counter"]

\* A request: it is accepted if it asks for /counter and there is no handler.
LEMMA RequestStep ==
  ASSUME NEW k, ConnOK(k), NEW r \in Request,
         NEW l, l = Answered(k, r)
  PROVE  ConnOK(l) /\ Extends(k, l) /\ (PageConn(k) => PageConn(l)) /\ Counts(k, l)
<1>1. /\ IsRecord(k) /\ IsConnection(k)
      /\ AnswersOK(k) /\ StreamsOK(k) /\ CountersOK(k) /\ RepliesOK(k)
  BY DEF ConnOK
<1>2. PICK a : a = Status(k, r)
  OBVIOUS
<1>3. /\ a \in {NoAnswer, 200, 400, 404}
      /\ a = 200 <=> r = "/counter" /\ ~k.handler
      /\ a = NoAnswer => k.handler
  <2>1. CASE r \in {"other method", "no path"}
    <3>1. a = 400 /\ r # "/counter"
      BY <1>2, <2>1 DEF Status
    <3> QED BY <3>1 DEF NoAnswer
  <2>2. CASE r = "other path"
    <3>1. a = 404 /\ r # "/counter"
      BY <1>2, <2>2 DEF Status
    <3> QED BY <3>1 DEF NoAnswer
  <2>3. CASE r = "/counter" /\ k.handler
    BY <1>2, <2>3 DEF Status, NoAnswer
  <2>4. CASE r = "/counter" /\ ~k.handler
    BY <1>2, <2>4 DEF Status, NoAnswer
  <2> QED BY <2>1, <2>2, <2>3, <2>4 DEF Request
<1>4. PICK h : h = (k.handler \/ r = "/counter")
  OBVIOUS
<1>5. h \in BOOLEAN /\ k.handler \in BOOLEAN
  BY <1>1, <1>4 DEF IsConnection
<1>6. PICK ans : ans = Append(k.answers, a)
  OBVIOUS
<1>7. l = [handler |-> h, answers |-> ans, counters |-> k.counters,
           replies |-> k.replies, streams |-> k.streams, alive |-> k.alive]
  <2>1. l = [k EXCEPT !.answers = ans, !.handler = h]
    BY <1>2, <1>4, <1>6 DEF Answered
  <2> QED BY <1>1, <2>1 DEF IsRecord
<1>8. /\ IsRecord(l) /\ l.handler = h /\ l.answers = ans /\ l.counters = k.counters
      /\ l.replies = k.replies /\ l.streams = k.streams /\ l.alive = k.alive
  BY <1>7 DEF IsRecord
<1>9. PICK n \in Nat : n = Len(k.answers) /\ DOMAIN k.answers = 1 .. n
  BY <1>1, LenProperties DEF IsConnection
<1>10. /\ ans \in Seq({NoAnswer, 200, 400, 404}) /\ DOMAIN ans = 1 .. n + 1
       /\ ans[n + 1] = a /\ \A i \in DOMAIN k.answers : ans[i] = k.answers[i]
  BY <1>1, <1>3, <1>6, <1>9, AppendProperties, LenProperties DEF IsConnection
<1>11. \A i \in DOMAIN ans : i \in DOMAIN k.answers \/ i = n + 1
  BY <1>9, <1>10
<1>12. DOMAIN k.answers \subseteq DOMAIN ans /\ n + 1 \in DOMAIN ans /\ \A i \in DOMAIN k.answers : i < n + 1
  BY <1>9, <1>10
<1>13. AnswersOK(l)
  <2>1. PICK A, B : A = DOMAIN k.answers /\ B = DOMAIN ans
    OBVIOUS
  <2>2. /\ k.handler <=> \E i \in A : k.answers[i] = 200
        /\ \A i, j \in A : k.answers[i] = 200 /\ k.answers[j] = 200 => i = j
        /\ \A i \in A : k.answers[i] = NoAnswer => \E j \in A : k.answers[j] = 200 /\ j < i
        /\ ~k.handler => k.replies = <<>> /\ DOMAIN k.counters = {}
    BY <1>1, <2>1 DEF AnswersOK
  <2>3. /\ A \subseteq B /\ n + 1 \in B /\ ans[n + 1] = a
        /\ \A i \in B : (i \in A /\ ans[i] = k.answers[i]) \/ i = n + 1
        /\ \A i \in A : ans[i] = k.answers[i] /\ i < n + 1
    BY <1>9, <1>10, <1>11, <1>12, <2>1
  <2>4. h <=> \E i \in B : ans[i] = 200
    <3>1. CASE k.handler
      <4>1. PICK i \in A : k.answers[i] = 200
        BY <2>2, <3>1
      <4>2. i \in B /\ ans[i] = 200
        BY <2>3, <4>1
      <4>3. h
        BY <1>4, <3>1
      <4> QED BY <4>2, <4>3
    <3>2. CASE ~k.handler /\ r = "/counter"
      <4>1. h /\ ans[n + 1] = 200
        BY <1>3, <1>4, <2>3, <3>2
      <4> QED BY <2>3, <4>1
    <3>3. CASE ~k.handler /\ r # "/counter"
      <4>1. ~h /\ a # 200
        BY <1>3, <1>4, <3>3
      <4>2. \A i \in B : ans[i] # 200
        BY <2>2, <2>3, <3>3, <4>1
      <4> QED BY <4>1, <4>2
    <3> QED BY <1>5, <3>1, <3>2, <3>3
  <2>5. ASSUME NEW i \in B, NEW j \in B, ans[i] = 200, ans[j] = 200
        PROVE  i = j
    <3>1. CASE a = 200
      <4>1. \A x \in A : k.answers[x] # 200
        BY <1>3, <2>2, <3>1
      <4> QED BY <2>3, <2>5, <4>1
    <3>2. CASE a # 200
      <4>1. i \in A /\ j \in A /\ k.answers[i] = 200 /\ k.answers[j] = 200
        BY <2>3, <2>5, <3>2
      <4> QED BY <2>2, <4>1
    <3> QED BY <3>1, <3>2
  <2>6. ASSUME NEW i \in B, ans[i] = NoAnswer
        PROVE  \E j \in B : ans[j] = 200 /\ j < i
    <3>1. CASE i \in A
      <4>1. PICK j \in A : k.answers[j] = 200 /\ j < i
        BY <2>2, <2>3, <2>6, <3>1
      <4> QED BY <2>3, <4>1
    <3>2. CASE i = n + 1
      <4>1. k.handler
        BY <1>3, <2>3, <2>6, <3>2
      <4>2. PICK j \in A : k.answers[j] = 200
        BY <2>2, <4>1
      <4> QED BY <2>3, <3>2, <4>2
    <3> QED BY <2>3, <3>1, <3>2
  <2>7. ~h => k.replies = <<>> /\ DOMAIN k.counters = {}
    BY <1>4, <2>2
  <2> QED BY <1>8, <2>1, <2>4, <2>5, <2>6, <2>7 DEF AnswersOK
<1>14. IsConnection(l)
  BY <1>1, <1>5, <1>8, <1>10 DEF IsConnection
<1>15. StreamsOK(l) /\ CountersOK(l) /\ RepliesOK(l)
  BY <1>1, <1>8 DEF StreamsOK, CountersOK, RepliesOK
<1>16. Extends(k, l) /\ (PageConn(k) => PageConn(l))
  BY <1>4, <1>8 DEF Extends, PageConn
<1>17. Counts(k, l)
  <2>1. AlikeBut(k, l, {})
    BY <1>8 DEF AlikeBut, Heard, HowEnded
  <2>2. h = k.handler \/ (~k.handler /\ h = TRUE)
    BY <1>4, <1>5
  <2> QED BY <1>8, <2>1, <2>2 DEF Counts
<1> QED BY <1>8, <1>13, <1>14, <1>15, <1>16, <1>17 DEF ConnOK

\* The connection ends.
LEMMA EndStep ==
  ASSUME NEW k, ConnOK(k), NEW l, l = [k EXCEPT !.alive = FALSE]
  PROVE  ConnOK(l) /\ Extends(k, l) /\ (PageConn(k) => PageConn(l)) /\ Counts(k, l)
<1>1. /\ IsRecord(k) /\ IsConnection(k)
      /\ AnswersOK(k) /\ StreamsOK(k) /\ CountersOK(k) /\ RepliesOK(k)
  BY DEF ConnOK
<1>2. l = [handler |-> k.handler, answers |-> k.answers, counters |-> k.counters,
           replies |-> k.replies, streams |-> k.streams, alive |-> FALSE]
  BY <1>1 DEF IsRecord
<1>3. /\ IsRecord(l) /\ l.handler = k.handler /\ l.answers = k.answers /\ l.counters = k.counters
      /\ l.replies = k.replies /\ l.streams = k.streams /\ l.alive = FALSE
  BY <1>2 DEF IsRecord
<1>4. IsConnection(l)
  BY <1>1, <1>3 DEF IsConnection
<1>5. AnswersOK(l) /\ StreamsOK(l) /\ CountersOK(l) /\ RepliesOK(l)
  BY <1>1, <1>3 DEF AnswersOK, StreamsOK, CountersOK, RepliesOK
<1>6. Extends(k, l) /\ (PageConn(k) => PageConn(l))
  BY <1>3 DEF Extends, PageConn
<1>7. Counts(k, l)
  BY <1>3 DEF Counts, AlikeBut, Heard, HowEnded
<1> QED BY <1>3, <1>4, <1>5, <1>6, <1>7 DEF ConnOK

\* The streams of one kind, by the number of which their client goes on.
OfKind(k, kind) == {id \in DOMAIN k.streams : id[1] = kind}
LEMMA KindsAreCounted ==
  ASSUME NEW k, ConnOK(k), NEW kind \in {"bidi", "uni"}
  PROVE  /\ IsFiniteSet(OfKind(k, kind))
         /\ Cardinality(OfKind(k, kind)) \in Nat
         /\ \A n : <<kind, n>> \in DOMAIN k.streams <=> n \in 1 .. Cardinality(OfKind(k, kind))
<1>1. PICK m \in Nat : \A n : <<kind, n>> \in DOMAIN k.streams <=> n \in 1 .. m
  BY DEF ConnOK, StreamsOK
<1>2. OfKind(k, kind) = {kind} \X (1 .. m)
  <2>1. DOMAIN k.streams \subseteq StreamId
    BY DEF ConnOK, IsConnection
  <2>2. ASSUME NEW id \in OfKind(k, kind) PROVE id \in {kind} \X (1 .. m)
    <3>1. id \in DOMAIN k.streams /\ id[1] = kind /\ id \in StreamId
      BY <2>1 DEF OfKind
    <3>2. id = <<kind, id[2]>>
      BY <3>1 DEF StreamId
    <3>3. id[2] \in 1 .. m
      BY <1>1, <3>1, <3>2
    <3> QED BY <3>2, <3>3
  <2>3. ASSUME NEW n \in 1 .. m PROVE <<kind, n>> \in OfKind(k, kind)
    BY <1>1 DEF OfKind
  <2> QED BY <2>2, <2>3
<1>3. IsFiniteSet({kind} \X (1 .. m)) /\ Cardinality({kind} \X (1 .. m)) = m
  <2>1. IsFiniteSet({kind}) /\ Cardinality({kind}) = 1
    BY FS_Singleton
  <2>2. IsFiniteSet(1 .. m) /\ Cardinality(1 .. m) = m
    <3>1. 1 \in Int /\ m \in Int
      OBVIOUS
    <3>2. IsFiniteSet(1 .. m) /\ Cardinality(1 .. m) = IF 1 > m THEN 0 ELSE m - 1 + 1
      BY <3>1, FS_Interval
    <3> QED BY <3>2
  <2>3. IsFiniteSet({kind} \X (1 .. m)) /\ Cardinality({kind} \X (1 .. m)) = 1 * m
    BY <2>1, <2>2, FS_Product
  <2>4. 1 * m = m
    OBVIOUS
  <2> QED BY <2>3, <2>4, Zenon
<1> QED BY <1>1, <1>2, <1>3

\* A client opens a stream, with the next number of its kind.
OpenedAs(k, kind, n, size, end, f) ==
  /\ kind \in {"bidi", "uni"} /\ n \in 1 .. MaxStreams
  /\ n = Cardinality(OfKind(k, kind)) + 1
  /\ size \in 0 .. MaxBytes /\ end \in {"open", "fin", "reset"}
  /\ f = With(k.streams, <<kind, n>>, NewStream(size, end))

\* That keeps the connection as it should be.
LEMMA OpenStep ==
  ASSUME NEW k, ConnOK(k), NEW kind, NEW n, NEW size, NEW end, NEW f, OpenedAs(k, kind, n, size, end, f),
         NEW l, l = [k EXCEPT !.streams = f]
  PROVE  /\ ConnOK(l) /\ Extends(k, l) /\ Counts(k, l)
         /\ k.handler /\ PageConn(k) => PageConn(l)
         /\ <<kind, n>> \notin DOMAIN k.streams
         /\ l.streams = f /\ f[<<kind, n>>] = NewStream(size, end)
<1>1. /\ IsRecord(k) /\ IsConnection(k)
      /\ AnswersOK(k) /\ StreamsOK(k) /\ CountersOK(k) /\ RepliesOK(k)
  BY DEF ConnOK
<1>2. /\ kind \in {"bidi", "uni"} /\ n \in 1 .. MaxStreams
      /\ n = Cardinality(OfKind(k, kind)) + 1
      /\ size \in 0 .. MaxBytes /\ end \in {"open", "fin", "reset"}
      /\ f = With(k.streams, <<kind, n>>, NewStream(size, end))
  BY DEF OpenedAs
<1>3. PICK m \in Nat : n = m + 1 /\ \A i : <<kind, i>> \in DOMAIN k.streams <=> i \in 1 .. m
  BY <1>2, KindsAreCounted
<1>4. PICK id : id = <<kind, n>>
  OBVIOUS
<1>5. id \notin DOMAIN k.streams /\ id \in StreamId
  BY <1>2, <1>3, <1>4 DEF StreamId
<1>6. PICK s : s = NewStream(size, end)
  OBVIOUS
<1>7. s \in Stream /\ ~s.done /\ s.read = 0 /\ s.missed = 0 /\ s.size \in Nat
  BY <1>2, <1>6, BoundsAssumption DEF NewStream, Stream
<1>8. /\ DOMAIN f = DOMAIN k.streams \cup {id} /\ f[id] = s
      /\ \A x \in DOMAIN k.streams : f[x] = k.streams[x]
  BY <1>2, <1>4, <1>5, <1>6 DEF With
<1>9. l = [handler |-> k.handler, answers |-> k.answers, counters |-> k.counters,
           replies |-> k.replies, streams |-> f, alive |-> k.alive]
  BY <1>1 DEF IsRecord
<1>10. /\ IsRecord(l) /\ l.handler = k.handler /\ l.answers = k.answers /\ l.counters = k.counters
      /\ l.replies = k.replies /\ l.streams = f /\ l.alive = k.alive
  BY <1>9 DEF IsRecord
<1>11. IsConnection(l)
  <2>1. DOMAIN f \subseteq StreamId /\ \A x \in DOMAIN f : f[x] \in Stream
    BY <1>1, <1>5, <1>7, <1>8 DEF IsConnection
  <2> QED BY <1>1, <1>10, <2>1 DEF IsConnection
<1>12. AnswersOK(l)
  BY <1>1, <1>10 DEF AnswersOK
<1>13. StreamsOK(l)
  <2>1. ASSUME NEW q \in {"bidi", "uni"}
        PROVE  \E b \in Nat : \A i : <<q, i>> \in DOMAIN f <=> i \in 1 .. b
    <3>1. CASE q = kind
      <4>1. \A i : <<q, i>> \in DOMAIN f <=> i \in 1 .. m + 1
        <5> SUFFICES ASSUME NEW i PROVE <<q, i>> \in DOMAIN f <=> i \in 1 .. m + 1
          OBVIOUS
        <5>1. <<q, i>> \in DOMAIN f <=> i \in 1 .. m \/ i = m + 1
          BY <1>3, <1>4, <1>8, <3>1
        <5>2. i \in 1 .. m + 1 <=> i \in 1 .. m \/ i = m + 1
          BY <1>3
        <5> QED BY <5>1, <5>2
      <4> QED BY <1>3, <4>1
    <3>2. CASE q # kind
      <4>1. PICK b \in Nat : \A i : <<q, i>> \in DOMAIN k.streams <=> i \in 1 .. b
        BY <1>1 DEF StreamsOK
      <4>2. \A i : <<q, i>> # id
        BY <1>4, <3>2
      <4>3. \A i : <<q, i>> \in DOMAIN f <=> <<q, i>> \in DOMAIN k.streams
        BY <1>8, <4>2
      <4> QED BY <4>1, <4>3
    <3> QED BY <3>1, <3>2
  <2>2. ASSUME NEW x \in DOMAIN f
        PROVE  /\ f[x].missed <= f[x].read /\ f[x].read <= f[x].size
               /\ f[x].done => f[x].end # "open"
               /\ ~f[x].done /\ x \notin DOMAIN k.counters => f[x].read = f[x].missed
    <3>1. CASE x = id
      BY <1>7, <1>8, <3>1
    <3>2. CASE x \in DOMAIN k.streams
      BY <1>1, <1>8, <3>2 DEF StreamsOK
    <3> QED BY <1>8, <3>1, <3>2
  <2> QED BY <1>10, <2>1, <2>2 DEF StreamsOK
<1>14. CountersOK(l)
  BY <1>1, <1>8, <1>10 DEF CountersOK
<1>15. RepliesOK(l)
  BY <1>1, <1>8, <1>10 DEF RepliesOK
<1>16. Extends(k, l)
  BY <1>8, <1>10 DEF Extends
<1>17. k.handler /\ PageConn(k) => PageConn(l)
  BY <1>7, <1>8, <1>10 DEF PageConn
<1>18. Counts(k, l)
  <2>1. /\ AlikeBut(k, l, {id})
        /\ Heard(k, id) = 0 /\ HowEnded(k, id) = "open"
        /\ Heard(l, id) = 0 /\ HowEnded(l, id) = "open"
    BY <1>5, <1>7, <1>8, <1>10 DEF AlikeBut, Heard, HowEnded
  <2> QED BY <1>10, <2>1, StreamUnseen
<1> QED BY <1>4, <1>5, <1>6, <1>8, <1>10, <1>11, <1>12, <1>13, <1>14, <1>15, <1>16, <1>17, <1>18
        DEF ConnOK

\* An open stream that is written, if it is empty, or ended.
Goes(s, t) == /\ s.end = "open"
              /\ \/ s.size = 0 /\ \E n \in 0 .. MaxBytes : t = [s EXCEPT !.size = n]
                 \/ t = [s EXCEPT !.end = "fin"]

\* That keeps the connection as it should be.
LEMMA WriteStep ==
  ASSUME NEW k, ConnOK(k), NEW id \in DOMAIN k.streams, NEW t, Goes(k.streams[id], t),
         NEW f, f = [k.streams EXCEPT ![id] = t],
         NEW l, l = [k EXCEPT !.streams = f]
  PROVE  /\ ConnOK(l) /\ (PageConn(k) => PageConn(l)) /\ Counts(k, l)
         /\ l.handler = k.handler /\ l.streams = f
<1>1. IsRecord(k) /\ IsConnection(k) /\ StreamsOK(k) /\ CountersOK(k) /\ AnswersOK(k)
  BY DEF ConnOK
<1>2. PICK s : s = k.streams[id]
  OBVIOUS
<1>3. /\ s \in Stream /\ ~s.done /\ s.missed <= s.read /\ s.read <= s.size /\ Goes(s, t) /\ s.end = "open"
      /\ s.size \in Nat /\ s.read \in Nat /\ s.missed \in Nat
  <2>1. s \in Stream
    BY <1>1, <1>2 DEF IsConnection
  <2>2. s.size \in 0 .. MaxBytes /\ s.read \in 0 .. MaxBytes /\ s.missed \in 0 .. MaxBytes
    BY <2>1 DEF Stream
  <2>3. Goes(s, t) /\ s.end = "open" /\ ~s.done
    BY <1>1, <1>2 DEF StreamsOK, Goes
  <2> QED BY <1>1, <1>2, <2>1, <2>2, <2>3, BoundsAssumption DEF StreamsOK
<1>4. /\ t \in Stream /\ ~t.done /\ t.missed = s.missed /\ t.read = s.read /\ t.read <= t.size
  <2>1. ASSUME NEW n \in 0 .. MaxBytes, t = [s EXCEPT !.size = n], s.size = 0
        PROVE  /\ t \in Stream /\ ~t.done /\ t.missed = s.missed /\ t.read = s.read /\ t.read <= t.size
    <3>1. t = [size |-> n, end |-> s.end, read |-> s.read, missed |-> s.missed, done |-> s.done]
      BY <1>3, <2>1 DEF Stream
    <3>2. s.read <= n
      BY <1>3, <2>1, BoundsAssumption
    <3> QED BY <1>3, <3>1, <3>2 DEF Stream
  <2>2. CASE t = [s EXCEPT !.end = "fin"]
    <3>1. t = [size |-> s.size, end |-> "fin", read |-> s.read, missed |-> s.missed, done |-> s.done]
      BY <1>3, <2>2 DEF Stream
    <3> QED BY <1>3, <3>1 DEF Stream
  <2> QED BY <1>3, <2>1, <2>2 DEF Goes
<1>5. l = [handler |-> k.handler, answers |-> k.answers, counters |-> k.counters,
           replies |-> k.replies, streams |-> f, alive |-> k.alive]
  BY <1>1 DEF IsRecord
<1>6. /\ IsRecord(l) /\ l.handler = k.handler /\ l.answers = k.answers /\ l.counters = k.counters
      /\ l.replies = k.replies /\ l.streams = f /\ l.alive = k.alive
  BY <1>5 DEF IsRecord
<1>7. id \in DOMAIN k.counters => k.handler /\ k.counters[id] = t.read - t.missed
  BY <1>1, <1>2, <1>4 DEF CountersOK, AnswersOK
<1>8. id \notin DOMAIN k.counters => t.read = t.missed
  BY <1>1, <1>2, <1>3, <1>4 DEF StreamsOK
<1>9. ConnOK(l)
  <2>1. StreamBecomes(k, id, t, l)
    BY <1>2, <1>3, <1>4, <1>6, <1>7, <1>8 DEF StreamBecomes
  <2> QED BY <2>1, StreamStep
<1>10. PageConn(k) => PageConn(l)
  BY <1>2, <1>4, <1>6 DEF PageConn
<1>11. Counts(k, l)
  <2>1. /\ AlikeBut(k, l, {id}) /\ Heard(k, id) = s.read - s.missed /\ HowEnded(k, id) = "open"
        /\ Heard(l, id) = s.read - s.missed /\ HowEnded(l, id) = "open"
    <3>1. f = [k.streams EXCEPT ![id] = t] /\ l.streams = f
      BY <1>6
    <3>2. Sees(k, l, id, s, t)
      BY <1>2, <3>1, StreamSeen
    <3> QED BY <1>3, <1>4, <3>2 DEF Sees
  <2> QED BY <1>6, <2>1, StreamUnseen
<1> QED BY <1>6, <1>9, <1>10, <1>11
-----------------------------------------------------------------------------
(* The steps of the server and of other clients.                             *)

\* A send that goes on keeps its stream when the connection's streams are
\* only extended.
LEMMA SendKept ==
  ASSUME NEW x, NEW k, NEW l, SendOK(x, k.streams), Extends(k, l)
  PROVE  SendOK(x, l.streams)
BY DEF SendOK, Extends

\* One connection becomes l; it is as it should be, and so are all.
LEMMA ConnBecomes ==
  ASSUME PageInv, NEW c \in Connections, NEW l, ConnOK(l), conn[c].handler => l.handler,
         client[c] = "page" => PageConn(l),
         conn' = [conn EXCEPT ![c] = l], client' = client, connects' = connects
  PROVE  /\ ConnsInv' /\ ConnectInv'
         /\ Connections' = Connections /\ conn' = [b \in Connections |-> conn'[b]]
         /\ conn'[c] = l /\ \A b \in Connections : b # c => conn'[b] = conn[b]
         /\ \A b : Connected(b)' <=> Connected(b)
         /\ OneConnected' <=> OneConnected
<1>1. Connections' = Connections
  BY DEF Connections
<1>2. /\ conn'[c] = l /\ \A b \in Connections : b # c => conn'[b] = conn[b]
      /\ conn' = [b \in Connections |-> conn'[b]]
  BY DEF PageInv, PageTypes
<1>3. ConnsInv'
  BY <1>1, <1>2 DEF PageInv, ConnsInv
<1>4. ConnectInv'
  BY <1>1, <1>2 DEF PageInv, ConnectInv
<1>5. \A b : Connected(b)' <=> Connected(b)
  BY <1>1 DEF Connected
<1>6. OneConnected' <=> OneConnected
  BY <1>1 DEF OneConnected
<1> QED BY <1>1, <1>2, <1>3, <1>4, <1>5, <1>6

\* A step of one connection as ByteCounter sees it.
CountsOn == \E c \in Connections : /\ Counts(conn[c], conn'[c])
                                   /\ \A b \in Connections \ {c} : conn'[b] = conn[b]

\* A step that extends one connection, and leaves the page alone.
LEMMA ConnExtended ==
  ASSUME PageInv, NEW c \in Connections, NEW l, ConnOK(l), Extends(conn[c], l),
         client[c] = "page" => PageConn(l), Counts(conn[c], l),
         conn' = [conn EXCEPT ![c] = l], UNCHANGED <<client, pageVars>>
  PROVE  PageInv' /\ CountsOn
<1>1. client' = client /\ connects' = connects /\ globals' = globals /\ sends' = sends
      /\ readers' = readers
  BY DEF pageVars
<1>2. /\ ConnsInv' /\ ConnectInv'
      /\ Connections' = Connections /\ conn' = [b \in Connections |-> conn'[b]]
      /\ conn'[c] = l /\ \A b \in Connections : b # c => conn'[b] = conn[b]
      /\ \A b : Connected(b)' <=> Connected(b)
      /\ OneConnected' <=> OneConnected
  BY <1>1, ConnBecomes DEF Extends
<1>3. PageTypes'
  BY <1>1, <1>2 DEF PageInv, PageTypes
<1>4. SendsInv'
  <2>1. ASSUME NEW i \in DOMAIN sends
        PROVE  /\ Connected(sends[i].transport)
               /\ SendOK(sends[i], conn'[sends[i].transport].streams)
    <3>1. Connected(sends[i].transport) /\ SendOK(sends[i], conn[sends[i].transport].streams)
      BY DEF PageInv, SendsInv
    <3>2. CASE sends[i].transport = c
      BY <1>2, <3>1, <3>2, SendKept
    <3>3. CASE sends[i].transport # c
      BY <1>2, <3>1, <3>3 DEF Connected
    <3> QED BY <3>1, <3>2, <3>3
  <2> QED BY <1>1, <1>2, <2>1 DEF PageInv, SendsInv
<1>5. ReadersInv'
  BY <1>1, <1>2 DEF PageInv, ReadersInv
<1>6. CountsOn
  BY <1>2 DEF CountsOn
<1> QED BY <1>2, <1>3, <1>4, <1>5, <1>6 DEF PageInv

\* HeadersReceived, in a step that leaves the page alone.
LEMMA RequestInv ==
  ASSUME PageInv, NEW c \in Connections, NEW r \in Request, HeadersReceived(c, r), UNCHANGED pageVars
  PROVE  PageInv' /\ CountsOn
<1>1. PICK k : k = conn[c]
  OBVIOUS
<1>2. PICK l : l = Answered(k, r)
  OBVIOUS
<1>3. conn' = [conn EXCEPT ![c] = l]
  <2>1. conn' = [conn EXCEPT ![c].answers = Append(@, Status(conn[c], r)),
                             ![c].handler = @ \/ r = "/counter"]
    BY DEF HeadersReceived
  <2>2. conn = [b \in Connections |-> conn[b]]
    BY DEF PageInv, PageTypes
  <2> QED BY <1>1, <1>2, <2>1, <2>2 DEF Answered
<1>4. ConnOK(k) /\ (client[c] = "page" => PageConn(k))
  BY <1>1 DEF PageInv, ConnsInv, ConnectInv
<1>5. ConnOK(l) /\ Extends(k, l) /\ (client[c] = "page" => PageConn(l)) /\ Counts(k, l)
  BY <1>2, <1>4, RequestStep
<1>6. UNCHANGED <<client, pageVars>>
  BY DEF HeadersReceived
<1> QED BY <1>1, <1>3, <1>5, <1>6, ConnExtended

\* StreamDataReceived.
LEMMA DataInv ==
  ASSUME PageInv, NEW c \in Connections, NEW id \in DOMAIN conn[c].streams,
         NEW n \in 0 .. MaxBytes, NEW ended \in BOOLEAN,
         StreamDataReceived(c, id, n, ended), UNCHANGED pageVars
  PROVE  PageInv' /\ CountsOn
<1>1. PICK k : k = conn[c]
  OBVIOUS
<1>2. PICK d : d = Seen(k, id, n, ended)
  OBVIOUS
<1>3. PICK l : l = Taken(d, id, n, ended)
  OBVIOUS
<1>4. conn' = [conn EXCEPT ![c] = l] /\ client' = client
  <2>1. conn' = [conn EXCEPT ![c] = Taken(Seen(conn[c], id, n, ended), id, n, ended)]
    BY DEF StreamDataReceived, Seen, Taken
  <2>2. client' = client
    BY DEF StreamDataReceived
  <2> QED BY <1>1, <1>2, <1>3, <2>1, <2>2
<1>5. ConnOK(k) /\ (client[c] = "page" => PageConn(k))
  BY <1>1 DEF PageInv, ConnsInv, ConnectInv
<1>6. /\ ~k.streams[id].done
      /\ n <= k.streams[id].size - k.streams[id].read
      /\ ended => k.streams[id].end = "fin" /\ n = k.streams[id].size - k.streams[id].read
  BY <1>1 DEF StreamDataReceived
<1>7. ConnOK(l) /\ Extends(k, l) /\ (client[c] = "page" => PageConn(l)) /\ Counts(k, l)
  BY <1>1, <1>2, <1>3, <1>5, <1>6, DataStep
<1> QED BY <1>1, <1>4, <1>7, ConnExtended

\* StreamReset.
LEMMA ResetInv ==
  ASSUME PageInv, NEW c \in Connections, NEW id \in DOMAIN conn[c].streams,
         StreamReset(c, id), UNCHANGED pageVars
  PROVE  PageInv' /\ CountsOn
<1>1. PICK k : k = conn[c]
  OBVIOUS
<1>2. PICK d : d = Reset(k, id)
  OBVIOUS
<1>3. PICK l : l = Finished(d, id)
  OBVIOUS
<1>4. conn' = [conn EXCEPT ![c] = l] /\ client' = client
  BY <1>1, <1>2, <1>3 DEF StreamReset, Finished
<1>5. ConnOK(k) /\ (client[c] = "page" => PageConn(k))
  BY <1>1 DEF PageInv, ConnsInv, ConnectInv
<1>6. ~k.streams[id].done /\ k.streams[id].end = "reset"
  BY <1>1 DEF StreamReset
<1>7. ConnOK(l) /\ Extends(k, l) /\ (client[c] = "page" => PageConn(l)) /\ Counts(k, l)
  BY <1>1, <1>2, <1>3, <1>5, <1>6, ResetStep
<1> QED BY <1>1, <1>4, <1>7, ConnExtended

\* There is a number left for one more stream of each kind.
LEMMA NextNumber ==
  ASSUME PageInv, NEW c \in Connections, NEW kind \in {"bidi", "uni"},
         Cardinality(DOMAIN conn[c].streams) < MaxStreams
  PROVE  /\ Begun(c, kind) = Cardinality(OfKind(conn[c], kind))
         /\ Begun(c, kind) + 1 \in 1 .. MaxStreams
<1>1. ConnOK(conn[c])
  BY DEF PageInv, ConnsInv
<1>2. Begun(c, kind) = Cardinality(OfKind(conn[c], kind))
  BY DEF Begun, OfKind
<1>3. PICK S, T : S = OfKind(conn[c], kind) /\ T = DOMAIN conn[c].streams
  OBVIOUS
<1>4. S \subseteq T
  BY <1>3 DEF OfKind
<1>5. IsFiniteSet(T)
  <2>1. IsFiniteSet(StreamId)
    <3>1. IsFiniteSet({"bidi"} \cup {"uni"})
      BY FS_Singleton, FS_Union
    <3>2. {"bidi"} \cup {"uni"} = {"bidi", "uni"}
      OBVIOUS
    <3>3. 1 \in Int /\ MaxStreams \in Int
      BY BoundsAssumption
    <3>4. IsFiniteSet(1 .. MaxStreams)
      BY <3>3, FS_Interval
    <3> QED BY <3>1, <3>2, <3>4, FS_Product DEF StreamId
  <2>2. T \subseteq StreamId
    BY <1>1, <1>3 DEF ConnOK, IsConnection
  <2> QED BY <2>1, <2>2, FS_Subset
<1>6. Cardinality(S) <= Cardinality(T) /\ Cardinality(S) \in Nat /\ Cardinality(T) \in Nat
  BY <1>4, <1>5, FS_Subset, FS_CardinalityType
<1> QED BY <1>2, <1>3, <1>6, BoundsAssumption

\* OtherWrites.
LEMMA OtherWritesInv ==
  ASSUME PageInv, NEW c \in Connections, OtherWrites(c), UNCHANGED pageVars
  PROVE  PageInv' /\ CountsOn
<1>1. PICK kind \in {"bidi", "uni"}, size \in 0 .. MaxBytes, end \in {"open", "fin", "reset"} :
        /\ client[c] = "other"
        /\ conn[c].alive
        /\ Cardinality(DOMAIN conn[c].streams) < MaxStreams
        /\ conn' = [conn EXCEPT ![c].streams =
                      With(@, <<kind, Begun(c, kind) + 1>>, NewStream(size, end))]
        /\ UNCHANGED client
  BY DEF OtherWrites
<1>2. PICK k, n : k = conn[c] /\ n = Begun(c, kind) + 1
  OBVIOUS
<1>3. PICK f : f = With(k.streams, <<kind, n>>, NewStream(size, end))
  OBVIOUS
<1>4. PICK l : l = [k EXCEPT !.streams = f]
  OBVIOUS
<1>5. conn' = [conn EXCEPT ![c] = l]
  BY <1>1, <1>2, <1>3, <1>4
<1>6. ConnOK(k) /\ n = Cardinality(OfKind(k, kind)) + 1 /\ n \in 1 .. MaxStreams
  BY <1>1, <1>2, NextNumber DEF PageInv, ConnsInv
<1>7. ConnOK(l) /\ Extends(k, l) /\ Counts(k, l)
  <2>1. OpenedAs(k, kind, n, size, end, f)
    BY <1>3, <1>6 DEF OpenedAs
  <2> QED BY <1>4, <1>6, <2>1, OpenStep
<1>8. client[c] # "page"
  BY <1>1
<1> QED BY <1>1, <1>2, <1>5, <1>7, <1>8, ConnExtended

\* ConnectionEnds.
LEMMA EndInv ==
  ASSUME PageInv, NEW c \in Connections, ConnectionEnds(c), UNCHANGED pageVars
  PROVE  PageInv' /\ CountsOn
<1>1. PICK k : k = conn[c]
  OBVIOUS
<1>2. PICK l : l = [k EXCEPT !.alive = FALSE]
  OBVIOUS
<1>3. conn' = [conn EXCEPT ![c] = l] /\ client' = client
  BY <1>1, <1>2 DEF ConnectionEnds
<1>4. ConnOK(k) /\ (client[c] = "page" => PageConn(k))
  BY <1>1 DEF PageInv, ConnsInv, ConnectInv
<1>5. ConnOK(l) /\ Extends(k, l) /\ (client[c] = "page" => PageConn(l)) /\ Counts(k, l)
  BY <1>2, <1>4, EndStep
<1> QED BY <1>1, <1>3, <1>5, ConnExtended

\* Every step of the server and of other clients.
LEMMA OthersInv ==
  ASSUME PageInv, Others, UNCHANGED pageVars
  PROVE  PageInv' /\ CountsOn
<1>1. PICK c \in Connections : OtherConnects(c) \/ OtherWrites(c) \/ ConnectionEnds(c) \/ Serve(c)
  BY DEF Others
<1>2. CASE OtherConnects(c)
  <2>1. PICK r \in Request : HeadersReceived(c, r)
    BY <1>2 DEF OtherConnects
  <2> QED BY <2>1, RequestInv
<1>3. CASE Serve(c)
  <2>1. PICK id \in DOMAIN conn[c].streams :
          \/ \E n \in 0 .. MaxBytes, ended \in BOOLEAN : StreamDataReceived(c, id, n, ended)
          \/ StreamReset(c, id)
    BY <1>3 DEF Serve
  <2> QED BY <2>1, DataInv, ResetInv
<1> QED BY <1>1, <1>2, <1>3, OtherWritesInv, EndInv
-----------------------------------------------------------------------------
(* The steps of the page.                                                    *)

\* A step that leaves every connection alone.
LEMMA ConnsAlone ==
  ASSUME PageInv, client' = client, conn' = conn
  PROVE  /\ ConnsInv' /\ Connections' = Connections
         /\ conn' = [b \in Connections |-> conn'[b]]
<1>1. Connections' = Connections
  BY DEF Connections
<1> QED BY <1>1 DEF PageInv, PageTypes, ConnsInv

\* connect() goes on, and its transport is not ready.
LEMMA ConnectMoves ==
  ASSUME PageInv, NEW c \in Connections, client[c] = "page", connects[c] \in {"none", "ready?"},
         NEW v \in {"ready?", "failed"}, connects' = [connects EXCEPT ![c] = v],
         UNCHANGED <<client, conn, globals, sends, readers>>
  PROVE  PageInv'
<1>1. /\ ConnsInv' /\ Connections' = Connections /\ conn' = [b \in Connections |-> conn'[b]]
  BY ConnsAlone
<1>2. /\ connects \in [Connections -> {"none", "ready?", "connected", "failed"}]
      /\ connects' \in [Connections -> {"none", "ready?", "connected", "failed"}]
  BY DEF PageInv, PageTypes
<1>3. \A b \in Connections : /\ connects'[b] = "connected" <=> connects[b] = "connected"
                             /\ connects'[b] # "none" => connects[b] # "none" \/ b = c
  BY <1>2
<1>4. /\ \A b : Connected(b)' <=> Connected(b)
      /\ OneConnected' <=> OneConnected
  BY <1>1, <1>3 DEF Connected, OneConnected
<1>5. PageTypes'
  BY <1>1, <1>2 DEF PageInv, PageTypes
<1>6. ConnectInv'
  BY <1>1, <1>3 DEF PageInv, ConnectInv
<1>7. SendsInv'
  BY <1>1, <1>4 DEF PageInv, SendsInv
<1>8. ReadersInv'
  BY <1>1, <1>4 DEF PageInv, ReadersInv
<1> QED BY <1>1, <1>5, <1>6, <1>7, <1>8 DEF PageInv

\* A transport is ready: the globals are set.
LEMMA ReadyInv ==
  ASSUME PageInv, NEW c \in Connections, Ready(c)
  PROVE  PageInv'
<1>1. /\ connects[c] = "ready?" /\ conn[c].answers = <<200>>
      /\ connects' = [connects EXCEPT ![c] = "connected"]
      /\ globals' = [currentTransport |-> c, streamNumber |-> 1, send |-> TRUE, connect |-> FALSE]
      /\ client' = client /\ conn' = conn /\ sends' = sends /\ readers' = readers
  BY DEF Ready
<1>2. ConnsInv' /\ Connections' = Connections /\ conn' = [b \in Connections |-> conn'[b]]
  BY <1>1, ConnsAlone
<1>3. /\ connects \in [Connections -> {"none", "ready?", "connected", "failed"}]
      /\ connects' \in [Connections -> {"none", "ready?", "connected", "failed"}]
  BY <1>1 DEF PageInv, PageTypes
<1>4. connects'[c] = "connected" /\ \A b \in Connections : b # c => connects'[b] = connects[b]
  BY <1>1, <1>3
<1>5. Connected(c)' /\ \A b : Connected(b) => Connected(b)' /\ b # c
  BY <1>1, <1>2, <1>4 DEF Connected
<1>6. c \in Nat
  <2>1. client \in Seq({"page", "other"})
    BY ClientsAssumption DEF PageInv, PageTypes
  <2> QED BY <2>1, LenProperties DEF Connections
<1>7. globals' \in Globals
  BY <1>1, <1>6 DEF Globals
<1>8. PageTypes'
  BY <1>1, <1>2, <1>3, <1>7 DEF PageInv, PageTypes
<1>9. ConnectInv'
  <2>1. conn[c].handler
    <3>1. AnswersOK(conn[c])
      BY DEF PageInv, ConnsInv, ConnOK
    <3>2. PICK a : a = conn[c].answers
      OBVIOUS
    <3>3. 1 \in DOMAIN a /\ a[1] = 200
      BY <1>1, <3>2
    <3> QED BY <3>1, <3>2, <3>3 DEF AnswersOK
  <2>2. client[c] = "page"
    BY <1>1 DEF PageInv, ConnectInv
  <2> QED BY <1>1, <1>2, <1>4, <2>1, <2>2 DEF PageInv, ConnectInv
<1>10. SendsInv'
  BY <1>1, <1>5 DEF PageInv, SendsInv
<1>11. ReadersInv'
  <2>1. IsFiniteSet(readers) /\ \A r \in readers : Connected(r.transport)
    BY DEF PageInv, ReadersInv
  <2>2. OneConnected' => readers = {}
    <3> SUFFICES ASSUME OneConnected', NEW r \in readers PROVE FALSE
      OBVIOUS
    <3>1. Connected(r.transport)' /\ r.transport # c
      BY <1>5, <2>1
    <3> QED BY <1>5, <3>1 DEF OneConnected, Connected
  <2> QED BY <1>1, <1>5, <2>1, <2>2 DEF ReadersInv
<1> QED BY <1>2, <1>8, <1>9, <1>10, <1>11 DEF PageInv

\* The globals, when all but the number stays.
LEMMA GlobalsGoOn ==
  ASSUME globals \in Globals, globals' = [globals EXCEPT !.streamNumber = @ + 1]
  PROVE  /\ globals' \in Globals /\ globals'.streamNumber = globals.streamNumber + 1
         /\ globals'.send = globals.send /\ globals'.currentTransport = globals.currentTransport
BY DEF Globals

\* A reader gets the next number.
LEMMA ReaderJoins ==
  ASSUME PageInv, NEW r \in Reader, Connected(r.transport), r.number = globals.streamNumber,
         readers' = readers \cup {r}, globals' = [globals EXCEPT !.streamNumber = @ + 1],
         client' = client, connects' = connects
  PROVE  ReadersInv' /\ readers' \subseteq Reader
<1>1. /\ globals \in Globals /\ readers \subseteq Reader
      /\ IsFiniteSet(readers) /\ \A q \in readers : Connected(q.transport)
      /\ OneConnected => /\ \A q \in readers : q.number < globals.streamNumber
                         /\ \A q, s \in readers : q.number = s.number => q = s
  BY DEF PageInv, PageTypes, ReadersInv
<1>2. Connections' = Connections /\ (\A b : Connected(b)' <=> Connected(b))
      /\ (OneConnected' <=> OneConnected)
  BY DEF Connections, Connected, OneConnected
<1>3. IsFiniteSet(readers')
  BY <1>1, FS_AddElement
<1>4. globals'.streamNumber = globals.streamNumber + 1 /\ globals.streamNumber \in Nat
  BY <1>1, GlobalsGoOn DEF Globals
<1>5. \A q \in readers' : q \in readers \/ q = r
  OBVIOUS
<1>6. \A q \in Reader : q.number \in Nat
  BY DEF Reader
<1>7. OneConnected => \A q \in readers' : q.number < globals'.streamNumber
  <2> SUFFICES ASSUME OneConnected, NEW q \in readers' PROVE q.number < globals'.streamNumber
    OBVIOUS
  <2>1. q.number = globals.streamNumber \/ q.number < globals.streamNumber
    BY <1>1, <1>5
  <2>2. q.number \in Nat
    BY <1>1, <1>5, <1>6
  <2> QED BY <1>4, <2>1, <2>2
<1>8. OneConnected => \A q, s \in readers' : q.number = s.number => q = s
  <2> SUFFICES ASSUME OneConnected, NEW q \in readers', NEW s \in readers', q.number = s.number
               PROVE  q = s
    OBVIOUS
  <2>1. \A p \in readers : p.number # r.number
    BY <1>1, <1>4, <1>6
  <2> QED BY <1>1, <1>5, <2>1
<1>9. \A q \in readers' : Connected(q.transport)'
  BY <1>1, <1>2, <1>5
<1> QED BY <1>1, <1>2, <1>3, <1>7, <1>8, <1>9 DEF ReadersInv

\* A send becomes y, in a step that keeps what the other sends rely on.
LEMMA SendBecomes ==
  ASSUME PageInv, NEW i \in DOMAIN sends, NEW y \in Send,
         y.transport = sends[i].transport,
         sends' = [sends EXCEPT ![i] = y],
         SendOK(y, conn'[y.transport].streams),
         \A j \in DOMAIN sends : j # i => SendOK(sends[j], conn'[sends[j].transport].streams),
         Busy(y) => \A j \in DOMAIN sends :
           j # i /\ Busy(sends[j]) /\ sends[j].transport = y.transport /\ sends[j].kind = y.kind
             => sends[j].stream # y.stream,
         globals'.send = globals.send, globals'.currentTransport = globals.currentTransport,
         client' = client, connects' = connects
  PROVE  SendsInv' /\ sends' \in Seq(Send)
<1>1. sends \in Seq(Send)
  BY DEF PageInv, PageTypes
<1>2. /\ DOMAIN sends' = DOMAIN sends /\ sends'[i] = y
      /\ \A j \in DOMAIN sends : j # i => sends'[j] = sends[j]
  OBVIOUS
<1>3. sends' \in Seq(Send)
  BY <1>1, <1>2, ExceptSeq
<1>4. /\ Connections' = Connections
      /\ \A j \in DOMAIN sends : sends[j].transport \in Connections
                               /\ connects[sends[j].transport] = "connected"
  BY DEF PageInv, SendsInv, Connected, Connections
<1>5. ASSUME NEW j \in DOMAIN sends'
      PROVE  /\ sends'[j].transport \in Connections' /\ connects'[sends'[j].transport] = "connected"
             /\ SendOK(sends'[j], conn'[sends'[j].transport].streams)
  <2>1. CASE j = i
    BY <1>2, <1>4, <2>1
  <2>2. CASE j # i
    BY <1>2, <1>4, <2>2
  <2> QED BY <2>1, <2>2
<1>6. ASSUME NEW a \in DOMAIN sends', NEW b \in DOMAIN sends',
             Busy(sends'[a]), Busy(sends'[b]),
             sends'[a].transport = sends'[b].transport,
             sends'[a].kind = sends'[b].kind, sends'[a].stream = sends'[b].stream
      PROVE  a = b
  <2>1. CASE a = i \/ b = i
    BY <1>2, <1>6, <2>1
  <2>2. CASE a # i /\ b # i
    BY <1>2, <1>6, <2>2 DEF PageInv, SendsInv
  <2> QED BY <2>1, <2>2
<1>7. globals'.send => /\ globals'.currentTransport \in Connections'
                       /\ connects'[globals'.currentTransport] = "connected"
  BY <1>4 DEF PageInv, SendsInv, Connected
<1> QED BY <1>3, <1>5, <1>6, <1>7 DEF SendsInv, Connected

\* A click on "Send data".
LEMMA ClickSendInv ==
  ASSUME PageInv, NEW kind \in {"bidi", "uni"}, ClickSend(kind)
  PROVE  PageInv'
<1>1. PICK y : y = [at |-> "create", kind |-> kind, stream |-> 0, number |-> 0,
                    transport |-> globals.currentTransport]
  OBVIOUS
<1>2. /\ globals.send /\ sends' = Append(sends, y)
      /\ client' = client /\ conn' = conn /\ connects' = connects /\ globals' = globals
      /\ readers' = readers
  BY <1>1 DEF ClickSend
<1>3. ConnsInv' /\ Connections' = Connections /\ conn' = [b \in Connections |-> conn'[b]]
  BY <1>2, ConnsAlone
<1>4. (\A b : Connected(b)' <=> Connected(b)) /\ (OneConnected' <=> OneConnected)
  BY <1>2, <1>3 DEF Connected, OneConnected
<1>5. y \in Send /\ ~Busy(y) /\ y.transport = globals.currentTransport
  BY <1>1, BoundsAssumption DEF Send, Busy, PageInv, PageTypes, Globals
<1>6. PICK n \in Nat : n = Len(sends) /\ DOMAIN sends = 1 .. n
  BY LenProperties DEF PageInv, PageTypes
<1>7. /\ sends' \in Seq(Send) /\ DOMAIN sends' = 1 .. n + 1
      /\ sends'[n + 1] = y /\ \A i \in DOMAIN sends : sends'[i] = sends[i]
  BY <1>2, <1>5, <1>6, AppendProperties, LenProperties DEF PageInv, PageTypes
<1>8. \A i \in DOMAIN sends' : (i \in DOMAIN sends /\ sends'[i] = sends[i]) \/ sends'[i] = y
  BY <1>6, <1>7
<1>9. PageTypes'
  BY <1>2, <1>3, <1>7 DEF PageInv, PageTypes
<1>10. ConnectInv'
  BY <1>2, <1>3 DEF PageInv, ConnectInv
<1>11. SendsInv'
  <2> DEFINE C(b) == b \in Connections /\ connects[b] = "connected"
  <2>1. C(globals.currentTransport)
    BY <1>2 DEF PageInv, SendsInv, Connected
  <2>2. ASSUME NEW i \in DOMAIN sends'
        PROVE  /\ C(sends'[i].transport)
               /\ SendOK(sends'[i], conn[sends'[i].transport].streams)
    <3>1. CASE i \in DOMAIN sends /\ sends'[i] = sends[i]
      BY <3>1 DEF PageInv, SendsInv, Connected
    <3>2. CASE sends'[i] = y
      BY <1>5, <2>1, <3>2 DEF SendOK
    <3> QED BY <1>8, <3>1, <3>2
  <2>3. ASSUME NEW i \in DOMAIN sends', NEW j \in DOMAIN sends',
               Busy(sends'[i]), Busy(sends'[j]),
               sends'[i].transport = sends'[j].transport,
               sends'[i].kind = sends'[j].kind, sends'[i].stream = sends'[j].stream
        PROVE  i = j
    <3>1. /\ i \in DOMAIN sends /\ sends'[i] = sends[i]
          /\ j \in DOMAIN sends /\ sends'[j] = sends[j]
      BY <1>5, <1>8, <2>3
    <3> QED BY <2>3, <3>1 DEF PageInv, SendsInv
  <2> QED BY <1>2, <1>3, <2>1, <2>2, <2>3 DEF SendsInv, Connected
<1>12. ReadersInv'
  BY <1>2, <1>4 DEF PageInv, ReadersInv
<1> QED BY <1>3, <1>9, <1>10, <1>11, <1>12 DEF PageInv

\* What a call of sendData() is, and where.
LEMMA OneSend ==
  ASSUME PageInv, NEW i \in DOMAIN sends
  PROVE  /\ sends[i] \in Send
         /\ sends[i].transport \in Connections
         /\ client[sends[i].transport] = "page"
         /\ LET k == conn[sends[i].transport] IN
              ConnOK(k) /\ k.handler /\ PageConn(k) /\ SendOK(sends[i], k.streams)
<1>1. sends[i] \in Send
  BY ElementOfSeq, LenProperties DEF PageInv, PageTypes
<1>2. Connected(sends[i].transport) /\ SendOK(sends[i], conn[sends[i].transport].streams)
  BY DEF PageInv, SendsInv
<1> QED BY <1>1, <1>2 DEF PageInv, ConnsInv, ConnectInv, Connected

\* A stream is created for a call of sendData().
LEMMA CreateInv ==
  ASSUME PageInv, NEW i \in DOMAIN sends, Create(i)
  PROVE  PageInv' /\ CountsOn
<1>1. PICK x, c, n : x = sends[i] /\ c = x.transport /\ n = Begun(x.transport, x.kind) + 1
  OBVIOUS
<1>2. PICK k : k = conn[c]
  OBVIOUS
<1>3. /\ x \in Send /\ c \in Connections /\ client[c] = "page"
      /\ ConnOK(k) /\ k.handler /\ PageConn(k)
  BY <1>1, <1>2, OneSend
<1>4. /\ x.kind \in {"bidi", "uni"} /\ x.transport \in Nat /\ x.number \in Nat
  BY <1>3 DEF Send
<1>5. PICK id : id = <<x.kind, n>>
  OBVIOUS
<1>6. PICK f : f = With(k.streams, id, NewStream(0, "open"))
  OBVIOUS
<1>7. PICK l : l = [k EXCEPT !.streams = f]
  OBVIOUS
<1>8. /\ x.at = "create" /\ Cardinality(DOMAIN k.streams) < MaxStreams
      /\ conn' = [conn EXCEPT ![c].streams = With(@, id, NewStream(0, "open"))]
      /\ client' = client /\ connects' = connects
  BY <1>1, <1>2, <1>5 DEF Create
<1>9. conn' = [conn EXCEPT ![c] = l]
  BY <1>2, <1>6, <1>7, <1>8
<1>10. n = Cardinality(OfKind(k, x.kind)) + 1 /\ n \in 1 .. MaxStreams
  BY <1>1, <1>2, <1>3, <1>4, <1>8, NextNumber
<1>11. /\ ConnOK(l) /\ Extends(k, l) /\ PageConn(l) /\ Counts(k, l)
       /\ id \notin DOMAIN k.streams /\ l.streams = f /\ f[id] = NewStream(0, "open")
       /\ id \in DOMAIN f
  <2>1. 0 \in 0 .. MaxBytes
    BY BoundsAssumption
  <2>2. id \in DOMAIN f
    BY <1>6 DEF With
  <2>3. PICK kind, size, end : kind = x.kind /\ size = 0 /\ end = "open"
    OBVIOUS
  <2>4. kind \in {"bidi", "uni"} /\ size \in 0 .. MaxBytes /\ end \in {"open", "fin", "reset"}
    BY <1>4, <2>1, <2>3
  <2>5. n = Cardinality(OfKind(k, kind)) + 1 /\ f = With(k.streams, <<kind, n>>, NewStream(size, end))
    BY <1>5, <1>6, <1>10, <2>3
  <2>6. OpenedAs(k, kind, n, size, end, f)
    BY <1>10, <2>4, <2>5 DEF OpenedAs
  <2>7. ConnOK(l)
    BY <1>3, <1>7, <2>6, OpenStep
  <2>8. Extends(k, l)
    BY <1>3, <1>7, <2>6, OpenStep
  <2>9. PageConn(l)
    BY <1>3, <1>7, <2>6, OpenStep
  <2>10. <<kind, n>> \notin DOMAIN k.streams
    BY <1>3, <1>7, <2>6, OpenStep
  <2>11. l.streams = f /\ f[<<kind, n>>] = NewStream(size, end)
    BY <1>3, <1>7, <2>6, OpenStep
  <2>12. Counts(k, l)
    BY <1>3, <1>7, <2>6, OpenStep
  <2> QED BY <1>3, <1>5, <2>2, <2>3, <2>7, <2>8, <2>9, <2>10, <2>11, <2>12
<1>12. /\ ConnsInv' /\ ConnectInv'
       /\ Connections' = Connections /\ conn' = [b \in Connections |-> conn'[b]]
       /\ conn'[c] = l /\ \A b \in Connections : b # c => conn'[b] = conn[b]
       /\ \A b : Connected(b)' <=> Connected(b)
       /\ OneConnected' <=> OneConnected
  BY <1>2, <1>3, <1>8, <1>9, <1>11, ConnBecomes DEF Extends
<1>13. PICK u : u = IF x.kind = "uni" THEN x.number ELSE globals.streamNumber
  OBVIOUS
<1>14. PICK y : y = [at |-> "write", kind |-> x.kind, transport |-> c, stream |-> n, number |-> u]
  OBVIOUS
<1>15. globals \in Globals /\ globals.streamNumber \in Nat
  BY DEF PageInv, PageTypes, Globals
<1>16. y \in Send
  BY <1>1, <1>4, <1>10, <1>13, <1>14, <1>15, BoundsAssumption DEF Send
<1>17. sends' = [sends EXCEPT ![i] = y]
  <2>1. CASE x.kind = "uni"
    <3>1. sends' = [sends EXCEPT ![i].at = "write", ![i].stream = n]
      BY <1>1, <2>1 DEF Create
    <3>2. PICK z : z = [x EXCEPT !.at = "write", !.stream = n]
      OBVIOUS
    <3>3. z = y
      <4>1. z = [at |-> "write", kind |-> x.kind, transport |-> x.transport, stream |-> n, number |-> x.number]
        BY ONLY <1>3, <3>2 DEF Send
      <4> QED BY <1>1, <1>13, <1>14, <2>1, <4>1
    <3>4. sends' = [sends EXCEPT ![i] = z]
      BY <1>1, <3>1, <3>2
    <3> QED BY <3>3, <3>4
  <2>2. CASE x.kind = "bidi"
    <3>1. sends' = [sends EXCEPT ![i].at = "write", ![i].stream = n,
                                 ![i].number = globals.streamNumber]
      BY <1>1, <2>2 DEF Create
    <3>2. PICK z : z = [x EXCEPT !.at = "write", !.stream = n, !.number = globals.streamNumber]
      OBVIOUS
    <3>3. z = y
      <4>1. z = [at |-> "write", kind |-> x.kind, transport |-> x.transport, stream |-> n,
                 number |-> globals.streamNumber]
        BY ONLY <1>3, <3>2 DEF Send
      <4> QED BY <1>1, <1>13, <1>14, <2>2, <4>1
    <3>4. sends' = [sends EXCEPT ![i] = z]
      BY <1>1, <3>1, <3>2
    <3> QED BY <3>3, <3>4
  <2> QED BY <1>4, <2>1, <2>2
<1>18. /\ globals' \in Globals /\ globals'.send = globals.send
       /\ globals'.currentTransport = globals.currentTransport
       /\ ReadersInv' /\ readers' \subseteq Reader
  <2>1. CASE x.kind = "uni"
    <3>1. globals' = globals /\ readers' = readers
      BY <1>1, <2>1 DEF Create
    <3> QED BY <1>12, <3>1 DEF PageInv, PageTypes, ReadersInv
  <2>2. CASE x.kind = "bidi"
    <3>1. PICK r : r = [transport |-> c, kind |-> "bidi", stream |-> n,
                        number |-> globals.streamNumber, got |-> FALSE]
      OBVIOUS
    <3>2. globals' = [globals EXCEPT !.streamNumber = @ + 1] /\ readers' = readers \cup {r}
      BY <1>1, <2>2, <3>1 DEF Create
    <3>3. r \in Reader /\ r.transport = c /\ r.number = globals.streamNumber
      <4>1. c \in Nat /\ n \in Nat
        BY <1>1, <1>4, <1>10
      <4> QED BY <1>15, <3>1, <4>1 DEF Reader
    <3>4. Connected(c)
      BY <1>1 DEF PageInv, SendsInv
    <3>5. ReadersInv' /\ readers' \subseteq Reader
      BY <1>8, <3>2, <3>3, <3>4, ReaderJoins
    <3> QED BY <1>15, <3>2, <3>5, GlobalsGoOn
  <2> QED BY <1>4, <2>1, <2>2
<1>19. SendsInv' /\ sends' \in Seq(Send)
  <2>1. y.transport = c /\ y.at = "write" /\ y.kind = x.kind /\ y.stream = n
    BY <1>14
  <2>2. SendOK(y, conn'[y.transport].streams)
    BY <1>5, <1>11, <1>12, <2>1 DEF SendOK, NewStream
  <2>3. ASSUME NEW j \in DOMAIN sends, j # i
        PROVE  SendOK(sends[j], conn'[sends[j].transport].streams)
    <3>1. sends[j].transport \in Connections /\ SendOK(sends[j], conn[sends[j].transport].streams)
      BY OneSend
    <3>2. CASE sends[j].transport = c
      BY <1>2, <1>11, <1>12, <3>1, <3>2, SendKept
    <3>3. CASE sends[j].transport # c
      BY <1>12, <3>1, <3>3
    <3> QED BY <3>2, <3>3
  <2>4. ASSUME NEW j \in DOMAIN sends, j # i, Busy(sends[j]), sends[j].transport = y.transport,
               sends[j].kind = y.kind
        PROVE  sends[j].stream # y.stream
    <3>1. SendOK(sends[j], k.streams)
      BY <1>2, <2>1, <2>4, OneSend
    <3>2. <<sends[j].kind, sends[j].stream>> \in DOMAIN k.streams
      BY <2>4, <3>1 DEF SendOK
    <3> QED BY <1>5, <1>11, <2>1, <2>4, <3>2
  <2> QED BY <1>1, <1>8, <1>16, <1>17, <1>18, <2>1, <2>2, <2>3, <2>4, SendBecomes
<1>20. PageTypes'
  BY <1>8, <1>12, <1>18, <1>19 DEF PageInv, PageTypes
<1>21. CountsOn
  BY <1>2, <1>3, <1>11, <1>12 DEF CountsOn
<1> QED BY <1>12, <1>18, <1>19, <1>20, <1>21 DEF PageInv

\* A call of sendData() changes its stream: it writes it, or ends it.
LEMMA StreamIsSent ==
  ASSUME PageInv, NEW i \in DOMAIN sends, Busy(sends[i]),
         NEW at \in {"close", "sent"},
         sends' = [sends EXCEPT ![i].at = at],
         NEW s, s = conn[sends[i].transport].streams[<<sends[i].kind, sends[i].stream>>],
         NEW t, \/ at = "close" /\ s.size = 0 /\ \E n \in 0 .. MaxBytes : t = [s EXCEPT !.size = n]
                \/ at = "sent" /\ t = [s EXCEPT !.end = "fin"],
         conn' = [conn EXCEPT ![sends[i].transport].streams[<<sends[i].kind, sends[i].stream>>] = t],
         UNCHANGED <<client, connects, globals, readers>>
  PROVE  PageInv' /\ CountsOn
<1>1. PICK x, c, id : x = sends[i] /\ c = x.transport /\ id = <<x.kind, x.stream>>
  OBVIOUS
<1>2. PICK k : k = conn[c]
  OBVIOUS
<1>3. /\ x \in Send /\ c \in Connections /\ client[c] = "page"
      /\ ConnOK(k) /\ k.handler /\ PageConn(k) /\ SendOK(x, k.streams)
  BY <1>1, <1>2, OneSend
<1>4. id \in DOMAIN k.streams /\ k.streams[id] = s /\ s.end = "open"
  BY <1>1, <1>2, <1>3 DEF SendOK
<1>5. PICK f : f = [k.streams EXCEPT ![id] = t]
  OBVIOUS
<1>6. PICK l : l = [k EXCEPT !.streams = f]
  OBVIOUS
<1>7. conn' = [conn EXCEPT ![c] = l]
  BY <1>1, <1>2, <1>5, <1>6
<1>8. ConnOK(l) /\ PageConn(l) /\ Counts(k, l) /\ l.handler = k.handler /\ l.streams = f
  <2>1. Goes(k.streams[id], t)
    BY <1>4 DEF Goes
  <2>2. ConnOK(l)
    BY ONLY <1>3, <1>4, <1>5, <1>6, <2>1, WriteStep
  <2>3. l.handler = k.handler
    BY ONLY <1>3, <1>4, <1>5, <1>6, <2>1, WriteStep
  <2>4. l.streams = f
    BY ONLY <1>3, <1>4, <1>5, <1>6, <2>1, WriteStep
  <2>5. PageConn(l)
    BY ONLY <1>3, <1>4, <1>5, <1>6, <2>1, WriteStep
  <2>6. Counts(k, l)
    BY ONLY <1>3, <1>4, <1>5, <1>6, <2>1, WriteStep
  <2> QED BY <2>2, <2>3, <2>4, <2>5, <2>6
<1>9. /\ ConnsInv' /\ ConnectInv'
      /\ Connections' = Connections /\ conn' = [b \in Connections |-> conn'[b]]
      /\ conn'[c] = l /\ \A b \in Connections : b # c => conn'[b] = conn[b]
      /\ \A b : Connected(b)' <=> Connected(b)
      /\ OneConnected' <=> OneConnected
  BY <1>2, <1>3, <1>7, <1>8, ConnBecomes
<1>10. PICK y : y = [x EXCEPT !.at = at]
  OBVIOUS
<1>11. y = [at |-> at, kind |-> x.kind, transport |-> c, stream |-> x.stream, number |-> x.number]
  BY <1>1, <1>3, <1>10 DEF Send
<1>12. /\ y \in Send /\ y.transport = c /\ y.kind = x.kind /\ y.stream = x.stream /\ y.at = at
  BY <1>1, <1>3, <1>11 DEF Send
<1>13. sends' = [sends EXCEPT ![i] = y]
  BY <1>1, <1>10
<1>14. \A j \in DOMAIN sends : j # i /\ Busy(sends[j]) /\ sends[j].transport = c
         => <<sends[j].kind, sends[j].stream>> # id
  BY <1>1 DEF PageInv, SendsInv
<1>15. SendsInv' /\ sends' \in Seq(Send)
  <2>1. SendOK(y, conn'[y.transport].streams)
    <3>1. CASE at = "close"
      <4>1. t.end = "open"
        <5>1. PICK n : t = [s EXCEPT !.size = n]
          BY <3>1
        <5>2. s \in Stream
          BY <1>3, <1>4 DEF ConnOK, IsConnection
        <5> QED BY <1>4, <5>1, <5>2 DEF Stream
      <4>2. id \in DOMAIN f /\ f[id].end = "open"
        BY <1>4, <1>5, <4>1
      <4>3. conn'[y.transport].streams = f /\ <<y.kind, y.stream>> = id /\ y.at # "write"
        BY <1>1, <1>8, <1>9, <1>12, <3>1
      <4> QED BY <4>2, <4>3 DEF SendOK
    <3>2. CASE at = "sent"
      BY <1>12, <3>2 DEF SendOK, Busy
    <3> QED BY <3>1, <3>2
  <2>2. ASSUME NEW j \in DOMAIN sends, j # i
        PROVE  SendOK(sends[j], conn'[sends[j].transport].streams)
    <3>1. sends[j].transport \in Connections /\ SendOK(sends[j], conn[sends[j].transport].streams)
      BY OneSend
    <3>2. CASE sends[j].transport = c /\ Busy(sends[j])
      <4>1. PICK e : e = <<sends[j].kind, sends[j].stream>>
        OBVIOUS
      <4>2. e # id
        BY <1>14, <2>2, <3>2, <4>1
      <4>3. DOMAIN f = DOMAIN k.streams /\ (e \in DOMAIN k.streams => f[e] = k.streams[e])
        BY <1>5, <4>2
      <4> QED BY <1>2, <1>8, <1>9, <3>1, <3>2, <4>1, <4>3 DEF SendOK
    <3>3. CASE sends[j].transport # c
      BY <1>9, <3>1, <3>3
    <3>4. CASE ~Busy(sends[j])
      BY <3>4 DEF SendOK
    <3> QED BY <3>2, <3>3, <3>4
  <2>3. \A j \in DOMAIN sends :
          j # i /\ Busy(sends[j]) /\ sends[j].transport = y.transport /\ sends[j].kind = y.kind
            => sends[j].stream # y.stream
    BY <1>1, <1>12, <1>14
  <2>4. /\ y.transport = sends[i].transport
        /\ globals'.send = globals.send /\ globals'.currentTransport = globals.currentTransport
        /\ client' = client /\ connects' = connects
    BY <1>1, <1>12
  <2> QED BY <1>12, <1>13, <2>1, <2>2, <2>3, <2>4, SendBecomes
<1>16. PageTypes' /\ ReadersInv'
  BY <1>9, <1>15 DEF PageInv, PageTypes, ReadersInv
<1>17. CountsOn
  BY <1>2, <1>3, <1>8, <1>9 DEF CountsOn
<1> QED BY <1>9, <1>15, <1>16, <1>17 DEF PageInv

\* The data are written.
LEMMA WriteInv ==
  ASSUME PageInv, NEW i \in DOMAIN sends, Write(i)
  PROVE  PageInv' /\ CountsOn
<1>1. PICK x, c, id : x = sends[i] /\ c = x.transport /\ id = <<x.kind, x.stream>>
  OBVIOUS
<1>2. PICK s : s = conn[c].streams[id]
  OBVIOUS
<1>3. PICK n \in 0 .. MaxBytes : conn' = [conn EXCEPT ![c].streams[id].size = n]
  BY <1>1 DEF Write
<1>4. PICK t : t = [s EXCEPT !.size = n]
  OBVIOUS
<1>5. conn' = [conn EXCEPT ![c].streams[id] = t]
  BY <1>2, <1>3, <1>4
<1>6. x.at = "write" /\ sends' = [sends EXCEPT ![i].at = "close"]
      /\ UNCHANGED <<client, connects, globals, readers>>
  BY <1>1 DEF Write
<1>7. s.size = 0 /\ Busy(x)
  BY <1>1, <1>2, <1>6, OneSend DEF SendOK, Busy
<1> QED BY <1>1, <1>2, <1>4, <1>5, <1>6, <1>7, StreamIsSent

\* The stream is ended.
LEMMA CloseInv ==
  ASSUME PageInv, NEW i \in DOMAIN sends, Close(i)
  PROVE  PageInv' /\ CountsOn
<1>1. PICK x, c, id : x = sends[i] /\ c = x.transport /\ id = <<x.kind, x.stream>>
  OBVIOUS
<1>2. PICK s : s = conn[c].streams[id]
  OBVIOUS
<1>3. conn' = [conn EXCEPT ![c].streams[id].end = "fin"]
  BY <1>1 DEF Close
<1>4. PICK t : t = [s EXCEPT !.end = "fin"]
  OBVIOUS
<1>5. conn' = [conn EXCEPT ![c].streams[id] = t]
  BY <1>2, <1>3, <1>4
<1>6. x.at = "close" /\ sends' = [sends EXCEPT ![i].at = "sent"]
      /\ UNCHANGED <<client, connects, globals, readers>>
  BY <1>1 DEF Close
<1>7. Busy(x)
  BY <1>6 DEF Busy
<1> QED BY <1>1, <1>2, <1>4, <1>5, <1>6, <1>7, StreamIsSent

\* A call of sendData() ends with an exception.
LEMMA SendFailsInv ==
  ASSUME PageInv, NEW i \in DOMAIN sends, SendFails(i)
  PROVE  PageInv'
<1>1. PICK x : x = sends[i]
  OBVIOUS
<1>2. x \in Send
  BY <1>1, OneSend
<1>3. /\ sends' = [sends EXCEPT ![i].at = "failed"]
      /\ client' = client /\ conn' = conn /\ connects' = connects /\ globals' = globals
      /\ readers' = readers
  BY DEF SendFails
<1>4. PICK y : y = [x EXCEPT !.at = "failed"]
  OBVIOUS
<1>5. y = [at |-> "failed", kind |-> x.kind, transport |-> x.transport, stream |-> x.stream,
           number |-> x.number]
  BY <1>2, <1>4 DEF Send
<1>6. y \in Send /\ ~Busy(y) /\ y.transport = x.transport
  BY <1>2, <1>5 DEF Send, Busy
<1>7. sends' = [sends EXCEPT ![i] = y]
  BY <1>1, <1>3, <1>4
<1>8. SendsInv' /\ sends' \in Seq(Send)
  <2>1. SendOK(y, conn'[y.transport].streams)
    BY <1>6 DEF SendOK
  <2>2. \A j \in DOMAIN sends : j # i => SendOK(sends[j], conn'[sends[j].transport].streams)
    BY <1>3, OneSend
  <2> QED BY <1>1, <1>3, <1>6, <1>7, <2>1, <2>2, SendBecomes
<1>9. ConnsInv' /\ Connections' = Connections /\ conn' = [b \in Connections |-> conn'[b]]
  BY <1>3, ConnsAlone
<1>10. PageTypes' /\ ConnectInv'
  BY <1>3, <1>8, <1>9 DEF PageInv, PageTypes, ConnectInv
<1>11. ReadersInv'
  BY <1>3, <1>9 DEF PageInv, ReadersInv, Connected, OneConnected
<1> QED BY <1>8, <1>9, <1>10, <1>11 DEF PageInv

\* A stream of the server is accepted.
LEMMA AcceptInv ==
  ASSUME PageInv, NEW c \in Connections, acceptUnidirectionalStreams(c)
  PROVE  PageInv'
<1>1. PICK r : r = [transport |-> c, kind |-> "uni", stream |-> Accepted(c) + 1,
                    number |-> globals.streamNumber, got |-> FALSE]
  OBVIOUS
<1>2. /\ connects[c] = "connected" /\ readers' = readers \cup {r}
      /\ globals' = [globals EXCEPT !.streamNumber = @ + 1]
      /\ client' = client /\ conn' = conn /\ connects' = connects /\ sends' = sends
  BY <1>1 DEF acceptUnidirectionalStreams
<1>3. Accepted(c) \in Nat
  <2>1. IsFiniteSet(readers)
    BY DEF PageInv, ReadersInv
  <2>2. PICK S : S = {q \in readers : q.transport = c /\ q.kind = "uni"}
    OBVIOUS
  <2>3. S \subseteq readers
    BY <2>2
  <2>4. Cardinality(S) \in Nat
    BY <2>1, <2>3, FS_Subset, FS_CardinalityType
  <2> QED BY <2>2, <2>4 DEF Accepted
<1>4. c \in Nat
  <2>1. client \in Seq({"page", "other"})
    BY ClientsAssumption DEF PageInv, PageTypes
  <2> QED BY <2>1, LenProperties DEF Connections
<1>5. globals \in Globals /\ globals.streamNumber \in Nat
  BY DEF PageInv, PageTypes, Globals
<1>6. r \in Reader /\ r.transport = c /\ r.number = globals.streamNumber
  BY <1>1, <1>3, <1>4, <1>5 DEF Reader
<1>7. ReadersInv' /\ readers' \subseteq Reader
  BY <1>2, <1>6, ReaderJoins DEF Connected
<1>8. ConnsInv' /\ Connections' = Connections /\ conn' = [b \in Connections |-> conn'[b]]
  BY <1>2, ConnsAlone
<1>9. /\ globals' \in Globals /\ globals'.send = globals.send
      /\ globals'.currentTransport = globals.currentTransport
  BY <1>2, <1>5, GlobalsGoOn
<1>10. PageTypes' /\ ConnectInv'
  BY <1>2, <1>7, <1>8, <1>9 DEF PageInv, PageTypes, ConnectInv
<1>11. SendsInv'
  BY <1>2, <1>8, <1>9 DEF PageInv, SendsInv, Connected
<1> QED BY <1>7, <1>8, <1>10, <1>11 DEF PageInv

\* A reader has read its reply.
LEMMA ReadInv ==
  ASSUME PageInv, NEW r \in readers, readFromIncomingStream(r)
  PROVE  PageInv'
<1>1. PICK q : q = [r EXCEPT !.got = TRUE]
  OBVIOUS
<1>2. /\ readers' = (readers \ {r}) \cup {q}
      /\ client' = client /\ conn' = conn /\ connects' = connects /\ globals' = globals
      /\ sends' = sends
  BY <1>1 DEF readFromIncomingStream
<1>3. r \in Reader
  BY DEF PageInv, PageTypes
<1>4. q \in Reader /\ q.number = r.number /\ q.transport = r.transport
  BY <1>1, <1>3 DEF Reader
<1>5. ConnsInv' /\ Connections' = Connections /\ conn' = [b \in Connections |-> conn'[b]]
  BY <1>2, ConnsAlone
<1>6. \A s \in readers' : (s \in readers /\ s # r) \/ s = q
  BY <1>2
<1>7. ReadersInv'
  <2>1. IsFiniteSet(readers')
    <3>1. IsFiniteSet(readers \ {r})
      BY FS_Subset DEF PageInv, ReadersInv
    <3> QED BY <1>2, <3>1, FS_AddElement
  <2>2. \A s \in readers' : Connected(s.transport)
    BY <1>4, <1>6 DEF PageInv, ReadersInv
  <2>3. OneConnected => /\ \A s \in readers' : s.number < globals.streamNumber
                        /\ \A s, p \in readers' : s.number = p.number => s = p
    BY <1>4, <1>6 DEF PageInv, ReadersInv
  <2> QED BY <1>2, <1>5, <2>1, <2>2, <2>3 DEF ReadersInv, Connected, OneConnected
<1>8. PageTypes' /\ ConnectInv'
  BY <1>2, <1>4, <1>5 DEF PageInv, PageTypes, ConnectInv
<1>9. SendsInv'
  BY <1>2, <1>5 DEF PageInv, SendsInv, Connected
<1> QED BY <1>5, <1>7, <1>8, <1>9 DEF PageInv
-----------------------------------------------------------------------------
(* The theorems.                                                             *)

\* It holds at first.
LEMMA PageInitInv == PageInit => PageInv
<1> SUFFICES ASSUME PageInit PROVE PageInv
  OBVIOUS
<1>1. /\ client \in Clients /\ conn = [c \in Connections |-> NewConnection]
      /\ connects = [c \in Connections |-> "none"]
      /\ globals = [currentTransport |-> 0, streamNumber |-> 0, send |-> FALSE, connect |-> TRUE]
      /\ sends = <<>> /\ readers = {}
  BY DEF PageInit, Init
<1>2. PICK k : k = NewConnection
  OBVIOUS
<1>3. /\ IsRecord(k) /\ k.handler = FALSE /\ k.answers = <<>> /\ k.counters = <<>>
      /\ k.replies = <<>> /\ k.streams = <<>> /\ k.alive = TRUE
  BY <1>2 DEF NewConnection, IsRecord
<1>4. DOMAIN k.counters = {} /\ DOMAIN k.streams = {} /\ DOMAIN k.answers = {} /\ DOMAIN k.replies = {}
  BY <1>3
<1>5. ConnOK(k)
  <2>1. IsConnection(k)
    <3>1. k.answers \in Seq({NoAnswer, 200, 400, 404})
      BY ONLY <1>3
    <3>2. k.replies \in Seq([to : StreamId, on : {"same", "new"}, count : Nat])
      BY ONLY <1>3
    <3>3. k.handler \in BOOLEAN /\ k.alive \in BOOLEAN
      BY ONLY <1>3
    <3> QED BY ONLY <1>4, <3>1, <3>2, <3>3 DEF IsConnection
  <2>2. AnswersOK(k) /\ CountersOK(k) /\ RepliesOK(k)
    BY <1>3, <1>4 DEF AnswersOK, CountersOK, RepliesOK
  <2>3. StreamsOK(k)
    <3>1. \A kind \in {"bidi", "uni"} : \A n : <<kind, n>> \in DOMAIN k.streams <=> n \in 1 .. 0
      BY <1>4
    <3> QED BY <1>4, <3>1 DEF StreamsOK
  <2> QED BY <1>3, <2>1, <2>2, <2>3 DEF ConnOK
<1>6. PageConn(k)
  BY <1>4 DEF PageConn
<1>7. PageTypes
  <2>1. sends \in Seq(Send)
    BY <1>1
  <2> QED BY <1>1, <2>1 DEF PageTypes, Globals
<1>8. ConnsInv /\ ConnectInv
  BY <1>1, <1>2, <1>5, <1>6 DEF ConnsInv, ConnectInv
<1>9. SendsInv
  BY <1>1 DEF SendsInv
<1>10. ReadersInv
  BY <1>1, FS_EmptySet DEF ReadersInv
<1> QED BY <1>7, <1>8, <1>9, <1>10 DEF PageInv

\* connect(), from the click.
LEMMA ConnectSteps ==
  ASSUME PageInv, NEW c \in Connections,
         ClickConnect(c) \/ PageConnects(c) \/ Ready(c) \/ NotReady(c)
  PROVE  PageInv' /\ (CountsOn \/ conn' = conn)
<1>1. CASE ClickConnect(c)
  <2>1. client[c] = "page" /\ connects[c] = "none"
    BY <1>1 DEF ClickConnect
  <2> QED BY <1>1, <2>1, ConnectMoves DEF ClickConnect
<1>2. CASE PageConnects(c)
  <2>1. PICK r \in {"/counter", "other path"} : HeadersReceived(c, r)
    BY <1>2 DEF PageConnects
  <2>2. r \in Request
    BY DEF Request
  <2>3. UNCHANGED pageVars
    BY <1>2 DEF PageConnects
  <2> QED BY <2>1, <2>2, <2>3, RequestInv
<1>3. CASE NotReady(c)
  <2>1. client[c] = "page" /\ connects[c] = "ready?"
    BY <1>3 DEF NotReady, PageInv, ConnectInv
  <2> QED BY <1>3, <2>1, ConnectMoves DEF NotReady
<1>4. ClickConnect(c) \/ Ready(c) \/ NotReady(c) => conn' = conn
  BY DEF ClickConnect, Ready, NotReady
<1> QED BY <1>1, <1>2, <1>3, <1>4, ReadyInv

\* Every step keeps it, and is one of ByteCounter's.
LEMMA PageStep == PageInv /\ [Next]_vars => PageInv' /\ (CountsOn \/ conn' = conn)
<1> SUFFICES ASSUME PageInv, [Next]_vars PROVE PageInv' /\ (CountsOn \/ conn' = conn)
  OBVIOUS
<1>1. CASE Page
  <2>1. ASSUME NEW c \in Connections,
               \/ ClickConnect(c) \/ PageConnects(c) \/ Ready(c)
               \/ NotReady(c) \/ acceptUnidirectionalStreams(c)
        PROVE  PageInv' /\ (CountsOn \/ conn' = conn)
    BY <2>1, ConnectSteps, AcceptInv DEF acceptUnidirectionalStreams
  <2>2. ASSUME NEW kind \in {"bidi", "uni"}, ClickSend(kind)
        PROVE  PageInv' /\ (CountsOn \/ conn' = conn)
    BY <2>2, ClickSendInv DEF ClickSend
  <2>3. ASSUME NEW i \in DOMAIN sends, Create(i) \/ Write(i) \/ Close(i) \/ SendFails(i)
        PROVE  PageInv' /\ (CountsOn \/ conn' = conn)
    BY <2>3, CreateInv, WriteInv, CloseInv, SendFailsInv DEF SendFails
  <2>4. ASSUME NEW r \in readers, readFromIncomingStream(r)
        PROVE  PageInv' /\ (CountsOn \/ conn' = conn)
    BY <2>4, ReadInv DEF readFromIncomingStream
  <2> QED BY <1>1, <2>1, <2>2, <2>3, <2>4 DEF Page
<1>2. CASE Others /\ UNCHANGED pageVars
  BY <1>2, OthersInv
<1>3. CASE UNCHANGED vars
  <2>1. /\ client' = client /\ conn' = conn /\ connects' = connects /\ globals' = globals
        /\ sends' = sends /\ readers' = readers
    BY <1>3 DEF vars, pageVars
  <2>2. ConnsInv' /\ Connections' = Connections /\ conn' = [b \in Connections |-> conn'[b]]
    BY <2>1, ConnsAlone
  <2> QED BY <2>1, <2>2 DEF PageInv, PageTypes, ConnectInv, SendsInv, ReadersInv, Connected, OneConnected
<1> QED BY <1>1, <1>2, <1>3 DEF Next

\* However the page, other clients and the server take turns, the invariant
\* of the connections and of the page holds.
THEOREM PageInvariant == Spec => []PageInv
<1>1. PageInv /\ [Next]_vars => PageInv'
  BY PageStep
<1> QED BY <1>1, PageInitInv, PTL DEF Spec

\* Every variable keeps its type, and sendData() never runs on a transport
\* that has not become ready.
THEOREM PageTypesHold == Spec => []TypeOK
<1>1. PageInv => TypeOK
  <2> SUFFICES ASSUME PageInv PROVE TypeOK
    OBVIOUS
  <2>1. DOMAIN conn = Connections
    BY DEF PageInv, PageTypes
  <2>2. \A c \in Connections : IsConnection(conn[c])
    BY DEF PageInv, ConnsInv, ConnOK
  <2>3. \A i \in DOMAIN sends : connects[sends[i].transport] = "connected"
    BY DEF PageInv, SendsInv, Connected
  <2> QED BY <2>1, <2>2, <2>3 DEF PageInv, PageTypes, TypeOK
<1> QED BY <1>1, PageInvariant, PTL

\* Every count sent is the length of a stream its client finished, less what
\* came before the session; no stream is answered twice.
THEOREM CountsHold == Spec => []CountsAreRight
<1>1. PageInv => CountsAreRight
  BY DEF PageInv, ConnsInv, ConnOK, RepliesOK, CountsAreRight
<1> QED BY <1>1, PageInvariant, PTL

\* A counter is there for a stream under way only.
THEOREM CountersHold == Spec => []CountersAreForOpenStreams
<1>1. PageInv => CountersAreForOpenStreams
  BY DEF PageInv, ConnsInv, ConnOK, CountersOK, CountersAreForOpenStreams
<1> QED BY <1>1, PageInvariant, PTL

\* A set with no two elements has at most one, ...
LEMMA AtMostOne ==
  ASSUME NEW S, \A x, y \in S : x = y
  PROVE  Cardinality(S) <= 1
<1>1. CASE S = {}
  BY <1>1, FS_EmptySet
<1>2. CASE S # {}
  <2>1. PICK x : x \in S
    BY <1>2
  <2>2. S = {x}
    BY <2>1
  <2> QED BY <2>2, FS_Singleton
<1> QED BY <1>1, <1>2

\* ... and the other way round.
LEMMA NoTwo ==
  ASSUME NEW S, IsFiniteSet(S), Cardinality(S) <= 1, NEW x \in S, NEW y \in S
  PROVE  x = y
<1>1. Cardinality(S) \in Nat
  BY FS_CardinalityType
<1>2. Cardinality(S) = 0 \/ Cardinality(S) = 1
  BY <1>1
<1>3. Cardinality(S) = 1
  BY <1>2, FS_EmptySet
<1> QED BY <1>3, FS_Singleton

\* A connection has one session, and only a request that comes after it was
\* accepted gets no answer.
THEOREM OneSessionHolds == Spec => []OneSession
<1>1. PageInv => OneSession
  <2> SUFFICES ASSUME PageInv, NEW c \in Connections
               PROVE  LET k == conn[c]
                          accepted == {i \in DOMAIN k.answers : k.answers[i] = 200} IN
                      /\ Cardinality(accepted) <= 1
                      /\ \A i \in DOMAIN k.answers :
                           k.answers[i] = NoAnswer => \E j \in accepted : j < i
                      /\ k.replies # <<>> \/ DOMAIN k.counters # {} => accepted # {}
    BY DEF OneSession
  <2>1. PICK k : k = conn[c]
    OBVIOUS
  <2>2. AnswersOK(k)
    BY <2>1 DEF PageInv, ConnsInv, ConnOK
  <2>3. PICK S : S = {i \in DOMAIN k.answers : k.answers[i] = 200}
    OBVIOUS
  <2>4. Cardinality(S) <= 1
    BY <2>2, <2>3, AtMostOne DEF AnswersOK
  <2>5. \A i \in DOMAIN k.answers : k.answers[i] = NoAnswer => \E j \in S : j < i
    BY <2>2, <2>3 DEF AnswersOK
  <2>6. k.replies # <<>> \/ DOMAIN k.counters # {} => S # {}
    BY <2>2, <2>3 DEF AnswersOK
  <2> QED BY <2>1, <2>3, <2>4, <2>5, <2>6
<1> QED BY <1>1, PageInvariant, PTL

\* As long as one transport alone was connected, no two streams of the page
\* are announced under one number.
THEOREM NumbersHold == Spec => []NumbersAreUnique
<1>1. PageInv => NumbersAreUnique
  <2> SUFFICES ASSUME PageInv, Cardinality({c \in Connections : connects[c] = "connected"}) <= 1
               PROVE  \A r, q \in readers : r.number = q.number => r = q
    BY DEF NumbersAreUnique
  <2>1. PICK S : S = {c \in Connections : connects[c] = "connected"}
    OBVIOUS
  <2>2. IsFiniteSet(S)
    <3>1. client \in Seq({"page", "other"})
      BY ClientsAssumption DEF PageInv, PageTypes
    <3>2. Len(client) \in Nat /\ Connections = 1 .. Len(client)
      BY <3>1, LenProperties DEF Connections
    <3>3. IsFiniteSet(1 .. Len(client))
      <4>1. 1 \in Int /\ Len(client) \in Int
        BY <3>2
      <4> QED BY <4>1, FS_Interval
    <3>4. S \subseteq 1 .. Len(client)
      BY <2>1, <3>2
    <3> QED BY <3>3, <3>4, FS_Subset
  <2>3. \A b, c \in S : b = c
    BY <2>1, <2>2, NoTwo
  <2>4. OneConnected
    BY <2>1, <2>3 DEF OneConnected
  <2> QED BY <2>4 DEF PageInv, ReadersInv
<1> QED BY <1>1, PageInvariant, PTL

\* The rank of a number in a set: how many there are up to it.
Rank(S, i) == Cardinality({h \in S : h <= i})

\* Two numbers of a set that have the same rank in it are the same.
LEMMA RankIsUnique ==
  ASSUME NEW S, IsFiniteSet(S), S \subseteq Nat, NEW i \in S, NEW j \in S,
         Rank(S, i) = Rank(S, j)
  PROVE  i = j
<1>1. ASSUME NEW a \in S, NEW b \in S, a < b, Rank(S, a) = Rank(S, b)
      PROVE  FALSE
  <2>1. PICK A, B : /\ A = {h \in S : h <= a} /\ B = {h \in S : h <= b}
                    /\ Cardinality(A) = Cardinality(B)
    BY <1>1 DEF Rank
  <2>2. \A h \in S : h <= a => h <= b
    BY <1>1
  <2>3. A \subseteq B /\ B \subseteq S
    BY <2>1, <2>2
  <2>4. IsFiniteSet(B)
    BY <2>3, FS_Subset
  <2>5. A = B
    BY <1>1, <2>1, <2>3, <2>4, FS_Subset
  <2>6. b \in B /\ b \notin A
    BY <1>1, <2>1
  <2> QED BY <2>5, <2>6
<1>2. i < j \/ j < i \/ i = j
  OBVIOUS
<1> QED BY <1>1, <1>2

\* A reader has one reply to read, and its stream is one of the connection's.
LEMMA OneAnswer ==
  ASSUME PageInv, NEW r \in readers
  PROVE  /\ r.transport \in Connections /\ client[r.transport] = "page"
         /\ \A a, b \in Answer(r) : a = b
         /\ \A a \in Answer(r) : \E i \in DOMAIN conn[r.transport].replies :
              a = conn[r.transport].replies[i]
<1>1. PICK c, k : c = r.transport /\ k = conn[c]
  OBVIOUS
<1>2. c \in Connections /\ client[c] = "page" /\ ConnOK(k)
  BY <1>1 DEF PageInv, ReadersInv, Connected, ConnectInv, ConnsInv
<1>3. PICK n \in Nat : DOMAIN k.replies = 1 .. n
  BY <1>2, LenProperties DEF ConnOK, IsConnection
<1>4. PICK I : I = IF r.kind = "uni" THEN IncomingAt(c, r.stream)
                   ELSE {j \in DOMAIN k.replies : k.replies[j].to = <<"bidi", r.stream>>}
  OBVIOUS
<1>5. Answer(r) = {k.replies[i] : i \in I}
  BY <1>1, <1>4 DEF Answer
<1>6. I \subseteq DOMAIN k.replies /\ \A i, j \in I : i = j
  <2>1. CASE r.kind = "uni"
    <3>1. PICK S : S = Incoming(c)
      OBVIOUS
    <3>2. S \subseteq DOMAIN k.replies
      BY <1>1, <3>1 DEF Incoming
    <3>3. IsFiniteSet(S) /\ S \subseteq Nat
      <4>1. 1 \in Int /\ n \in Int
        OBVIOUS
      <4>2. IsFiniteSet(1 .. n)
        BY <4>1, FS_Interval
      <4> QED BY <1>3, <3>2, <4>2, FS_Subset
    <3>4. I = {i \in S : Rank(S, i) = r.stream}
      BY <1>4, <2>1, <3>1 DEF IncomingAt, Rank
    <3>5. ASSUME NEW i \in I, NEW j \in I PROVE i = j
      <4>1. i \in S /\ Rank(S, i) = r.stream /\ j \in S /\ Rank(S, j) = r.stream
        BY <3>4
      <4> QED BY <3>3, <4>1, RankIsUnique
    <3> QED BY <3>2, <3>4, <3>5
  <2>2. CASE r.kind # "uni"
    BY <1>2, <1>4, <2>2 DEF ConnOK, RepliesOK
  <2> QED BY <2>1, <2>2
<1> QED BY <1>1, <1>2, <1>5, <1>6

\* What the page reads on a stream of its own is the number of bytes it wrote
\* there, and on a stream of the server what it wrote on the one answered.
THEOREM LengthsHold == Spec => []PageLearnsItsLengths
<1>1. PageInv => PageLearnsItsLengths
  <2> SUFFICES ASSUME PageInv, NEW r \in readers, NEW a \in Answer(r)
               PROVE  {a.count} = Lengths(r)
    BY DEF PageLearnsItsLengths
  <2>1. PICK k : k = conn[r.transport]
    OBVIOUS
  <2>2. ConnOK(k) /\ PageConn(k)
    BY <2>1, OneAnswer DEF PageInv, ConnsInv, ConnectInv
  <2>3. PICK i \in DOMAIN k.replies : a = k.replies[i]
    BY <2>1, OneAnswer
  <2>4. PICK s : s = k.streams[a.to]
    OBVIOUS
  <2>5. a.to \in DOMAIN k.streams /\ a.count = s.size - s.missed
    BY <2>2, <2>3, <2>4 DEF ConnOK, RepliesOK
  <2>6. s.missed = 0 /\ s.size \in Nat
    <3>1. s \in Stream
      BY <2>2, <2>4, <2>5 DEF ConnOK, IsConnection
    <3>2. s.size \in 0 .. MaxBytes
      BY <3>1 DEF Stream
    <3> QED BY <2>2, <2>4, <2>5, <3>2, BoundsAssumption DEF PageConn
  <2>7. a.count = s.size
    BY <2>5, <2>6
  <2>8. \A b \in Answer(r) : b = a
    BY OneAnswer
  <2>9. Lengths(r) = {s.size}
    BY <2>1, <2>4, <2>8 DEF Lengths
  <2> QED BY <2>7, <2>9
<1> QED BY <1>1, PageInvariant, PTL
-----------------------------------------------------------------------------
(* The server implements ByteCounter.                                        *)

\* A step of one connection is a step of its entry in the book.
LEMMA CountsRefines ==
  ASSUME CountsOn, client' = client
  PROVE  [Counter!Next]_Book
<1>1. PICK c \in Connections : /\ Counts(conn[c], conn'[c])
                               /\ \A b \in Connections \ {c} : conn'[b] = conn[b]
  BY DEF CountsOn
<1>2. PICK k, l : k = conn[c] /\ l = conn'[c]
  OBVIOUS
<1>3. PICK e, g : e = Entry(k) /\ g = Entry(l)
  OBVIOUS
<1>4. PICK h, q, i, r : /\ h = [x \in StreamId |-> Heard(k, x)]
                        /\ q = [x \in StreamId |-> HowEnded(k, x)]
                        /\ i = [x \in StreamId |-> Heard(l, x)]
                        /\ r = [x \in StreamId |-> HowEnded(l, x)]
  OBVIOUS
<1>5. /\ e = [session |-> k.handler, answered |-> k.replies, heard |-> h, ending |-> q]
      /\ g = [session |-> l.handler, answered |-> l.replies, heard |-> i, ending |-> r]
  BY <1>3, <1>4 DEF Entry
<1>6. Book' = [Book EXCEPT ![c] = g] /\ Book[c] = e /\ c \in DOMAIN Book
  <2>1. Connections' = Connections
    BY DEF Connections
  <2>2. Book' = [b \in Connections |-> Entry(conn'[b])]
    BY <2>1 DEF Book
  <2>3. Book = [b \in Connections |-> Entry(conn[b])]
    BY DEF Book
  <2> QED BY <1>1, <1>2, <1>3, <2>2, <2>3
<1>7. CASE /\ AlikeBut(k, l, {}) /\ l.replies = k.replies
           /\ l.handler = k.handler \/ (~k.handler /\ l.handler = TRUE)
  <2>1. i = h /\ r = q
    BY <1>4, <1>7 DEF AlikeBut
  <2>2. CASE l.handler = k.handler
    <3>1. g = e
      BY <1>5, <1>7, <2>1, <2>2
    <3>2. Book' = Book
      BY <1>6, <3>1 DEF Book
    <3> QED BY <3>2
  <2>3. CASE ~k.handler /\ l.handler = TRUE
    <3>1. PICK o, p, x : o = k.handler /\ p = TRUE /\ x = k.replies
      OBVIOUS
    <3>2. e = [session |-> o, answered |-> x, heard |-> h, ending |-> q]
      BY <1>5, <3>1
    <3>3. g = [session |-> p, answered |-> x, heard |-> h, ending |-> q]
      BY <1>5, <1>7, <2>1, <2>3, <3>1
    <3>4. g = [e EXCEPT !.session = TRUE]
      <4>1. g = [e EXCEPT !.session = p]
        BY <3>2, <3>3
      <4> QED BY <3>1, <4>1
    <3>5. e.session = k.handler
      BY <3>1, <3>2
    <3>6. ~e.session
      BY <2>3, <3>5
    <3>7. Book' = [Book EXCEPT ![c].session = TRUE]
      BY <1>6, <3>4
    <3>8. Counter!Accept(c)
      BY <1>6, <3>6, <3>7 DEF Counter!Accept
    <3> QED BY <1>6, <3>8 DEF Counter!Next
  <2> QED BY <1>7, <2>2, <2>3
<1>8. ASSUME NEW id \in StreamId, NEW n \in 0 .. MaxBytes, AlikeBut(k, l, {id}),
             l.handler = k.handler, HowEnded(k, id) = "open"
      PROVE  /\ h[id] = Heard(k, id) /\ q[id] = "open"
             /\ i = [h EXCEPT ![id] = Heard(l, id)]
             /\ r = [q EXCEPT ![id] = HowEnded(l, id)]
  BY <1>4, <1>8 DEF AlikeBut
<1>9. ASSUME NEW id \in StreamId, NEW n \in 0 .. MaxBytes, AlikeBut(k, l, {id}),
             l.handler = k.handler, HowEnded(k, id) = "open", k.handler,
             Heard(l, id) = Heard(k, id) + n,
             \/ HowEnded(l, id) = "open" /\ l.replies = k.replies
             \/ /\ HowEnded(l, id) = "fin"
                /\ l.replies = Append(k.replies, Counter!Answer(id, Heard(k, id) + n))
      PROVE  Counter!Next
  <2>1. h[id] = Heard(k, id) /\ q[id] = "open" /\ i = [h EXCEPT ![id] = @ + n]
    BY <1>8, <1>9
  <2>2. e.session /\ e.ending[id] = "open" /\ e.heard[id] = Heard(k, id)
    BY <1>5, <1>9, <2>1
  <2>3. CASE HowEnded(l, id) = "open" /\ l.replies = k.replies
    <3>1. r = q
      BY <1>4, <1>8, <1>9, <2>1, <2>3
    <3>2. g = [e EXCEPT !.heard[id] = @ + n]
      <4>1. PICK o, x, y : o = k.handler /\ x = k.replies /\ y = [h EXCEPT ![id] = @ + n]
        OBVIOUS
      <4>2. e = [session |-> o, answered |-> x, heard |-> h, ending |-> q]
        BY <1>5, <4>1
      <4>3. g = [session |-> o, answered |-> x, heard |-> y, ending |-> q]
        BY <1>5, <1>9, <2>1, <2>3, <3>1, <4>1
      <4>4. [e EXCEPT !.heard[id] = @ + n] = [e EXCEPT !.heard = y]
        BY <4>1, <4>2
      <4> QED BY <4>2, <4>3, <4>4
    <3>3. Book' = [Book EXCEPT ![c].heard[id] = @ + n]
      BY <1>6, <3>2
    <3>4. Counter!Hear(c, id, n)
      BY <1>6, <2>2, <3>3 DEF Counter!Hear
    <3> QED BY <1>6, <3>4 DEF Counter!Next
  <2>4. CASE /\ HowEnded(l, id) = "fin"
             /\ l.replies = Append(k.replies, Counter!Answer(id, Heard(k, id) + n))
    <3>1. PICK a : a = Counter!Answer(id, e.heard[id] + n)
      OBVIOUS
    <3>2. r = [q EXCEPT ![id] = "fin"] /\ l.replies = Append(k.replies, a)
      BY <1>8, <1>9, <2>2, <2>4, <3>1
    <3>3. g = [e EXCEPT !.heard[id] = @ + n, !.ending[id] = "fin", !.answered = Append(@, a)]
      <4>1. PICK o, x, y, z, w : /\ o = k.handler /\ x = k.replies
                                 /\ y = [h EXCEPT ![id] = @ + n]
                                 /\ z = [q EXCEPT ![id] = "fin"] /\ w = Append(x, a)
        OBVIOUS
      <4>2. e = [session |-> o, answered |-> x, heard |-> h, ending |-> q]
        BY <1>5, <4>1
      <4>3. g = [session |-> o, answered |-> w, heard |-> y, ending |-> z]
        BY <1>5, <1>9, <2>1, <3>2, <4>1
      <4>4. PICK u, v : /\ u = [e EXCEPT !.heard[id] = @ + n]
                        /\ v = [u EXCEPT !.ending[id] = "fin"]
        OBVIOUS
      <4>5. u = [session |-> o, answered |-> x, heard |-> y, ending |-> q]
        BY <4>1, <4>2, <4>4
      <4>6. [u EXCEPT !.ending[id] = "fin"]
            = [session |-> o, answered |-> x, heard |-> y, ending |-> z]
        <5>1. z = [q EXCEPT ![id] = "fin"]
          BY <4>1
        <5> QED BY <4>5, <5>1
      <4>7. v = [session |-> o, answered |-> x, heard |-> y, ending |-> z]
        BY <4>4, <4>6
      <4>8. v.answered = x /\ g = [v EXCEPT !.answered = w]
        BY <4>3, <4>7
      <4>9. g = [v EXCEPT !.answered = Append(@, a)]
        BY <4>1, <4>8
      <4> QED BY <4>4, <4>9
    <3>4. Book' = [Book EXCEPT ![c].heard[id] = @ + n, ![c].ending[id] = "fin",
                               ![c].answered = Append(@, a)]
      BY <1>6, <3>3
    <3>5. Counter!Finish(c, id, n)
      BY <1>6, <2>2, <3>1, <3>4 DEF Counter!Finish
    <3> QED BY <1>6, <3>5 DEF Counter!Next
  <2> QED BY <1>9, <2>3, <2>4
<1>10. ASSUME NEW id \in StreamId, NEW n \in 0 .. MaxBytes, AlikeBut(k, l, {id}),
              l.handler = k.handler, HowEnded(k, id) = "open",
              Heard(l, id) = Heard(k, id), l.replies = k.replies,
              NEW end \in {"fin", "reset"}, HowEnded(l, id) = end, end = "fin" => ~k.handler
       PROVE  Counter!Next
  <2>1. q[id] = "open" /\ i = h /\ r = [q EXCEPT ![id] = end]
    BY <1>4, <1>8, <1>10
  <2>2. e.ending[id] = "open" /\ (end = "fin" => ~e.session)
    BY <1>5, <1>10, <2>1
  <2>3. g = [e EXCEPT !.ending[id] = end]
    BY <1>5, <1>10, <2>1
  <2>4. Book' = [Book EXCEPT ![c].ending[id] = end]
    BY <1>6, <2>3
  <2>5. Counter!Drop(c, id)
    BY <1>6, <2>2, <2>4 DEF Counter!Drop
  <2> QED BY <1>6, <2>5 DEF Counter!Next
<1> QED BY <1>1, <1>2, <1>7, <1>9, <1>10 DEF Counts

\* CountsForItsClients: whatever its clients do, every stream that one finishes
\* in a session is answered, at its end, with all that was heard on it.
THEOREM ServerImplementsByteCounter == Spec => CountsForItsClients
<1>1. PageInit => Counter!Init
  <2> SUFFICES ASSUME PageInit, NEW c \in DOMAIN Book PROVE Book[c] = Counter!Blank
    BY DEF Counter!Init
  <2>1. c \in Connections /\ Book[c] = Entry(NewConnection)
    BY DEF Book, PageInit, Init
  <2>2. PICK k : k = NewConnection
    OBVIOUS
  <2>3. k.handler = FALSE /\ k.replies = <<>> /\ DOMAIN k.streams = {}
    BY <2>2 DEF NewConnection
  <2>4. PICK h, q : /\ h = [x \in StreamId |-> Heard(k, x)]
                    /\ q = [x \in StreamId |-> HowEnded(k, x)]
    OBVIOUS
  <2>5. h = [x \in StreamId |-> 0] /\ q = [x \in StreamId |-> "open"]
    BY <2>3, <2>4 DEF Heard, HowEnded
  <2>6. Entry(k) = [session |-> FALSE, answered |-> <<>>, heard |-> h, ending |-> q]
    BY <2>3, <2>4 DEF Entry
  <2>7. Counter!Blank = [session |-> FALSE, answered |-> <<>>, heard |-> h, ending |-> q]
    BY <2>5 DEF Counter!Blank
  <2> QED BY <2>1, <2>2, <2>6, <2>7
<1>2. PageInv /\ [Next]_vars => [Counter!Next]_Book
  <2> SUFFICES ASSUME PageInv, [Next]_vars PROVE [Counter!Next]_Book
    OBVIOUS
  <2>1. CountsOn \/ conn' = conn
    BY PageStep
  <2>2. client' = client
    <3>1. CASE Page
      BY <3>1 DEF Page, ClickConnect, PageConnects, HeadersReceived, Ready, NotReady,
                  acceptUnidirectionalStreams, ClickSend, Create, Write, Close, SendFails,
                  readFromIncomingStream
    <3>2. CASE Others
      <4>1. PICK c \in Connections :
              OtherConnects(c) \/ OtherWrites(c) \/ ConnectionEnds(c) \/ Serve(c)
        BY <3>2 DEF Others
      <4>2. CASE Serve(c)
        <5>1. PICK id \in DOMAIN conn[c].streams :
                \/ \E n \in 0 .. MaxBytes, ended \in BOOLEAN : StreamDataReceived(c, id, n, ended)
                \/ StreamReset(c, id)
          BY <4>2 DEF Serve
        <5>2. CASE StreamReset(c, id)
          BY <5>2 DEF StreamReset
        <5>3. CASE \E n \in 0 .. MaxBytes, ended \in BOOLEAN : StreamDataReceived(c, id, n, ended)
          <6>1. PICK n \in 0 .. MaxBytes, ended \in BOOLEAN : StreamDataReceived(c, id, n, ended)
            BY <5>3
          <6> QED BY <6>1 DEF StreamDataReceived
        <5> QED BY <5>1, <5>2, <5>3
      <4> QED BY <4>1, <4>2 DEF OtherConnects, HeadersReceived, OtherWrites, ConnectionEnds
    <3>3. CASE UNCHANGED vars
      BY <3>3 DEF vars
    <3> QED BY <3>1, <3>2, <3>3 DEF Next
  <2>3. conn' = conn => Book' = Book
    BY <2>2 DEF Book, Connections
  <2> QED BY <2>1, <2>2, <2>3, CountsRefines
<1> QED BY <1>1, <1>2, PageInvariant, PTL DEF Spec, CountsForItsClients, Counter!Spec
=============================================================================
