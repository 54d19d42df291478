---------------------------- MODULE CounterServer ----------------------------
(***************************************************************************)
(* The Python server (python/main.py): for every QUIC connection one       *)
(* WebTransportProtocol, which answers CONNECT requests, and, once one for *)
(* /counter was accepted, one CounterHandler, which answers every stream   *)
(* that its client finishes with the number of bytes it carried.  aioquic  *)
(* is external: it reports ProtocolNegotiated before anything else, and    *)
(* then data, ends and resets of streams, each stream's in order and one   *)
(* event at a time.  Datagrams are answered at once and change no state.   *)
(***************************************************************************)
EXTENDS Integers, Sequences, FiniteSets, Functions

CONSTANTS Clients,     \* who the connections may belong to
          MaxStreams,  \* bound: streams a client opens on a connection
          MaxBytes,    \* bound: bytes a client writes on a stream
          MaxRequests  \* bound: requests on one connection

ASSUME ClientsAssumption == Clients \subseteq Seq({"page", "other"})
ASSUME BoundsAssumption == MaxStreams \in Nat /\ MaxBytes \in Nat /\ MaxRequests \in Nat

VARIABLES client,  \* for each connection: the web page's or another client's
          conn     \* for each connection: its protocol object and its streams

Connections == DOMAIN client

\* A stream is named by its kind and its number among its client's.
StreamId == {"bidi", "uni"} \X (1 .. MaxStreams)
IsUni(id) == id[1] = "uni"

\* What a client has written on a stream, whether it has ended it, how much
\* was reported to the server, and how much of that no handler saw.
Stream == [size : 0 .. MaxBytes, end : {"open", "fin", "reset"},
           read : 0 .. MaxBytes, missed : 0 .. MaxBytes, done : BOOLEAN]
NewStream(size, end) == [size |-> size, end |-> end, read |-> 0, missed |-> 0, done |-> FALSE]

Request == {"other method", "no path", "/counter", "other path"}
NoAnswer == 0   \* the assertion in _handshake_webtransport raised

\* answers: the statuses sent, one per request; counters: the defaultdict
\* _counters; replies: the answered stream, the stream used and the count.
IsConnection(k) ==
  /\ k.handler \in BOOLEAN /\ k.alive \in BOOLEAN
  /\ k.answers \in Seq({NoAnswer, 200, 400, 404})
  /\ DOMAIN k.counters \subseteq StreamId /\ \A id \in DOMAIN k.counters : k.counters[id] \in Nat
  /\ DOMAIN k.streams \subseteq StreamId /\ \A id \in DOMAIN k.streams : k.streams[id] \in Stream
  /\ k.replies \in Seq([to : StreamId, on : {"same", "new"}, count : Nat])
NewConnection == [handler |-> FALSE, answers |-> <<>>, counters |-> <<>>,
                  replies |-> <<>>, streams |-> <<>>, alive |-> TRUE]

Init == /\ client \in Clients
        /\ conn = [c \in Connections |-> NewConnection]

\* f with the value v at x, whether or not f had one.
With(f, x, v) == [y \in DOMAIN f \cup {x} |-> IF y = x THEN v ELSE f[y]]
-----------------------------------------------------------------------------
\* _h3_event_received of HeadersReceived, with _handshake_webtransport.
Status(k, r) == IF r \in {"other method", "no path"} THEN 400
                ELSE IF r = "other path" THEN 404
                ELSE IF k.handler THEN NoAnswer ELSE 200

\* Mutant: without the assertion a second session replaces the handler.
HeadersReceived_Replaces(c, r) ==
  /\ conn[c].alive
  /\ conn' = [conn EXCEPT ![c].answers = Append(@, IF r = "/counter" THEN 200 ELSE Status(conn[c], r)),
                          ![c].counters = IF r = "/counter" THEN <<>> ELSE @,
                          ![c].handler = @ \/ r = "/counter"]
  /\ UNCHANGED client

HeadersReceived(c, r) ==
  /\ conn[c].alive
  /\ conn' = [conn EXCEPT ![c].answers = Append(@, Status(conn[c], r)),
                          ![c].handler = @ \/ r = "/counter"]
  /\ UNCHANGED client

stream_closed(k, id) == [k EXCEPT !.counters = Restrict(@, DOMAIN @ \ {id})]

\* Mutant: only the last chunk counts.
Counted_Last(k, id, n) == With(k.counters, id, n)
\* _counters is a defaultdict(int).
Counted(k, id, n) ==
  With(k.counters, id, n + IF id \in DOMAIN k.counters THEN k.counters[id] ELSE 0)

\* Mutant: a unidirectional stream is answered on itself.
Reply_OnItself(k, id) == Append(k.replies, [to |-> id, on |-> "same", count |-> k.counters[id]])
Reply(k, id) == Append(k.replies, [to |-> id, on |-> IF IsUni(id) THEN "new" ELSE "same",
                                   count |-> k.counters[id]])

\* Mutant: an end without data is not answered.
h3_event_received_NeedsData(k, id, n, ended) ==
  LET d == [k EXCEPT !.counters = Counted(k, id, n)]
  IN  IF ended /\ n > 0 THEN stream_closed([d EXCEPT !.replies = Reply(d, id)], id) ELSE d

\* h3_event_received of WebTransportStreamDataReceived.
h3_event_received(k, id, n, ended) ==
  LET d == [k EXCEPT !.counters = Counted(k, id, n)]
  IN  IF ended THEN stream_closed([d EXCEPT !.replies = Reply(d, id)], id) ELSE d

\* quic_event_received of data: nothing sees it before there is a handler.
StreamDataReceived(c, id, n, ended) ==
  LET k == conn[c]
      s == k.streams[id]
      seen == IF k.handler THEN h3_event_received(k, id, n, ended)
              ELSE [k EXCEPT !.streams[id].missed = @ + n]
  IN  /\ k.alive
      /\ ~s.done
      /\ n <= s.size - s.read
      /\ n > 0 \/ ended
      /\ ended => s.end = "fin" /\ n = s.size - s.read
      /\ conn' = [conn EXCEPT ![c] = [seen EXCEPT !.streams[id].read = @ + n,
                                                  !.streams[id].done = ended]]
      /\ UNCHANGED client

\* Mutant: a reset stream keeps its counter.
Reset_Keeps(k, id) == k
Reset(k, id) == IF k.handler THEN stream_closed(k, id) ELSE k

\* quic_event_received of StreamReset; what was not reported is lost.
StreamReset(c, id) ==
  /\ conn[c].alive
  /\ conn[c].streams[id].end = "reset"
  /\ ~conn[c].streams[id].done
  /\ conn' = [conn EXCEPT ![c] = [Reset(@, id) EXCEPT !.streams[id].done = TRUE]]
  /\ UNCHANGED client

Serve(c) == \E id \in DOMAIN conn[c].streams :
              \/ \E n \in 0 .. MaxBytes, ended \in BOOLEAN : StreamDataReceived(c, id, n, ended)
              \/ StreamReset(c, id)
-----------------------------------------------------------------------------
(* Clients (external), but for the web page.                                 *)

\* Any request at any time, also a second one on a connection.
OtherConnects(c) == \E r \in Request : /\ client[c] = "other"
                                       /\ Len(conn[c].answers) < MaxRequests
                                       /\ HeadersReceived(c, r)

\* The streams of a kind that a client has opened.
Begun(c, kind) == Cardinality({id \in DOMAIN conn[c].streams : id[1] = kind})

\* A stream of any size, also one that is not waiting for the session.
OtherWrites(c) ==
  \E kind \in {"bidi", "uni"}, size \in 0 .. MaxBytes, end \in {"open", "fin", "reset"} :
    /\ client[c] = "other"
    /\ conn[c].alive
    /\ Cardinality(DOMAIN conn[c].streams) < MaxStreams
    /\ conn' = [conn EXCEPT ![c].streams =
                  With(@, <<kind, Begun(c, kind) + 1>>, NewStream(size, end))]
    /\ UNCHANGED client

ConnectionEnds(c) == /\ conn[c].alive
                     /\ conn' = [conn EXCEPT ![c].alive = FALSE]
                     /\ UNCHANGED client
-----------------------------------------------------------------------------
\* A reply counts every byte its client wrote on a stream that the client
\* finished, however the bytes were cut and mixed with those of other streams;
\* only what came before the session was accepted is left out.  No stream is
\* answered twice, and none that was reset.
CountsAreRight ==
  \A c \in Connections : LET k == conn[c] IN
    /\ \A i \in DOMAIN k.replies : LET s == k.streams[k.replies[i].to] IN
         s.end = "fin" /\ s.done /\ k.replies[i].count = s.size - s.missed
    /\ \A i, j \in DOMAIN k.replies : k.replies[i].to = k.replies[j].to => i = j

\* The handler counts for streams that are under way and for no others: the
\* dictionary does not grow with the streams a connection has seen.
CountersAreForOpenStreams ==
  \A c \in Connections : \A id \in DOMAIN conn[c].counters :
    LET s == conn[c].streams[id] IN
      ~s.done /\ conn[c].counters[id] = s.read - s.missed

\* A connection has at most one session.  A second CONNECT for /counter takes
\* nothing from the first, and is the only request that gets no answer; and
\* nothing is counted for a connection that has none.
OneSession ==
  \A c \in Connections : LET k == conn[c]
                             accepted == {i \in DOMAIN k.answers : k.answers[i] = 200} IN
    /\ Cardinality(accepted) <= 1
    /\ \A i \in DOMAIN k.answers :
         k.answers[i] = NoAnswer => \E j \in accepted : j < i
    /\ k.replies # <<>> \/ DOMAIN k.counters # {} => accepted # {}

\* The server keeps the promise of ByteCounter; among other things every
\* stream that a client finishes in its session is answered, at its end.
Heard(k, id) == IF id \in DOMAIN k.streams THEN k.streams[id].read - k.streams[id].missed ELSE 0
HowEnded(k, id) == IF id \in DOMAIN k.streams /\ k.streams[id].done THEN k.streams[id].end
                   ELSE "open"
Entry(k) == [session |-> k.handler, answered |-> k.replies,
             heard |-> [id \in StreamId |-> Heard(k, id)],
             ending |-> [id \in StreamId |-> HowEnded(k, id)]]
Book == [c \in Connections |-> Entry(conn[c])]
Counter == INSTANCE ByteCounter WITH Streams <- StreamId, Amounts <- 0 .. MaxBytes, book <- Book
CountsForItsClients == Counter!Spec
=============================================================================
