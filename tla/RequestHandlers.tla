--------------------------- MODULE RequestHandlers ---------------------------
(***************************************************************************)
(* One request of the server: the Dispatcher picks a handler by its path,  *)
(* and proxygen (external) calls the handler as the request arrives.       *)
(* EchoHandler, DummyHandler, ServerPushHandler and TestHandler are here;  *)
(* DeviousBatonHandler has a module of its own.                            *)
(***************************************************************************)
EXTENDS Integers, Sequences, FiniteSets

CONSTANTS Requests,    \* what a client may request
          MaxBodies,   \* bound: onBody calls of one request
          MaxStreams,  \* bound: WebTransport streams of one session
          MaxBytes     \* bound: bytes on one of them

\* pushSize and pushCount: the numbers in /push/<size>/<count>, or the
\* defaults of what is missing or no number.
Request == [method : {"GET", "POST", "CONNECT"}, path : {"/", "/echo", "/push", "/test", "other"},
            http09 : BOOLEAN, pushSize : Int, pushCount : Int]

ASSUME RequestsAssumption == Requests \subseteq Request
ASSUME BoundsAssumption == MaxBodies \in Nat /\ MaxStreams \in Nat /\ MaxBytes \in Nat

VARIABLES
  request,      \* the request
  ingress,      \* how far it has arrived: none, headers, eom, error
  bodies,       \* onBody calls so far
  process,      \* up, or terminated: an exception in a noexcept callback, or
                \*   a call through a null pointer
  transaction,  \* the handler still holds its transaction
  egress,       \* what was sent on it
  pushed,       \* what was sent on each pushed transaction
  wt            \* TestHandler's WebTransport session: credit and streams

vars == <<request, ingress, bodies, process, transaction, egress, pushed, wt>>
streamless == <<request, ingress, bodies, process, transaction, egress, pushed>>

Event == {"headers", "body", "eom", "abort"}

\* A stream of the client: what it carries, how much was read in how many
\* chunks, where the read is (none: there never was one), and the size of
\* the reply (NoReply: not yet), which for a unidirectional one has a stream.
NoReply == -1
Stream == [size : 0 .. MaxBytes, read : 0 .. MaxBytes, chunks : Nat,
           at : {"none", "awaiting", "fin", "failed"}, reply : {NoReply} \cup (0 .. MaxBytes)]
StreamId == {"bidi", "uni"} \X (1 .. MaxStreams)

Init == /\ request \in Requests
        /\ ingress = "none"
        /\ bodies = 0
        /\ process = "up"
        /\ transaction = TRUE
        /\ egress = <<>>
        /\ pushed = <<>>
        /\ \E n \in 0 .. MaxStreams : wt = [open |-> FALSE, credit |-> n, streams |-> <<>>]

\* Dispatcher::getRequestHandler.
Handler == CASE request.path \in {"/", "/echo"} -> "EchoHandler"
             [] request.path = "/push"          -> "ServerPushHandler"
             [] request.path = "/test"          -> "TestHandler"
             [] OTHER                           -> "DummyHandler"

Arrives(from, to) == process = "up" /\ ingress = from /\ ingress' = to
-----------------------------------------------------------------------------
(* onHeadersComplete of each handler.                                        *)

EchoHeaders == /\ Handler = "EchoHandler"
               /\ egress' = <<"headers">>
               /\ UNCHANGED <<process, transaction, pushed, wt>>

DummyHeaders == /\ Handler = "DummyHandler"
                /\ egress' = IF request.method = "GET" THEN <<"headers", "body">> ELSE <<"headers">>
                /\ UNCHANGED <<process, transaction, pushed, wt>>

sendErrorResponse == <<"headers", "body", "eom">>
sendOkResponse    == <<"headers", "body", "eom">>
sendPushResponse  == <<"headers", "body", "eom">>
\* The headers of a GET, which go out on the request's own transaction: the
\* parameter for the pushed one is not used.
sendPushPromise   == <<"headers">>

PushRefuses == /\ Handler = "ServerPushHandler"
               /\ request.method # "GET"
               /\ egress' = sendErrorResponse
               /\ UNCHANGED <<process, transaction, pushed, wt>>

\* A body of a negative size is a std::length_error.
PushTerminates == /\ Handler = "ServerPushHandler"
                  /\ request.method = "GET" /\ request.pushSize < 0
                  /\ process' = "terminated"
                  /\ UNCHANGED <<transaction, egress, pushed, wt>>

\* n pushes succeed, and the next one is not to be made or has no transaction.
Pushes == /\ Handler = "ServerPushHandler"
          /\ request.method = "GET" /\ request.pushSize >= 0
          /\ \E n \in {0} \cup (1 .. request.pushCount) :
               /\ pushed' = [i \in 1 .. n |-> sendPushResponse]
               /\ egress' = [i \in 1 .. n |-> sendPushPromise[1]] \o sendOkResponse
          /\ UNCHANGED <<process, transaction, wt>>

\* One of them has no WebTransport: awaitBidiStreamCredit through null.
PushWithoutWebTransport ==
  /\ Handler = "ServerPushHandler"
  /\ request.method = "GET" /\ request.pushSize >= 0 /\ request.pushCount > 0
  /\ process' = "terminated"
  /\ UNCHANGED <<transaction, egress, pushed, wt>>

TestRefuses == /\ Handler = "TestHandler"
               /\ request.method # "CONNECT"
               /\ egress' = <<"headers", "eom">>
               /\ transaction' = FALSE
               /\ UNCHANGED <<process, pushed, wt>>

\* 200 with a WebTransport session, else 500.
TestAnswers == /\ Handler = "TestHandler"
               /\ request.method = "CONNECT"
               /\ egress' = <<"headers">>
               /\ \E open \in BOOLEAN : wt' = [wt EXCEPT !.open = open]
               /\ UNCHANGED <<process, transaction, pushed>>

onHeadersComplete ==
  /\ Arrives("none", "headers")
  /\ \/ EchoHeaders \/ DummyHeaders \/ TestRefuses \/ TestAnswers
     \/ PushRefuses \/ PushTerminates \/ Pushes \/ PushWithoutWebTransport
  /\ UNCHANGED <<request, bodies>>
-----------------------------------------------------------------------------
(* The rest of the request.                                                  *)

onBody == /\ Arrives("headers", "headers")
          /\ bodies < MaxBodies
          /\ bodies' = bodies + 1
          /\ egress' = IF Handler \in {"EchoHandler", "DummyHandler"}
                       THEN Append(egress, "body") ELSE egress
          /\ UNCHANGED <<request, process, transaction, pushed, wt>>

\* isEgressEOMSeen of the transaction.
EgressEOMSeen == \E i \in DOMAIN egress : egress[i] = "eom"

\* Mutant: TestHandler does not look whether it has ended the response.
Ending_Unchecked ==
  CASE Handler = "EchoHandler" -> IF request.http09 THEN <<"body", "eom">> ELSE <<"eom">>
    [] Handler \in {"DummyHandler", "TestHandler"} -> <<"eom">>
    [] OTHER -> <<>>

Ending ==
  CASE Handler = "EchoHandler" -> IF request.http09 THEN <<"body", "eom">> ELSE <<"eom">>
    [] Handler = "DummyHandler" -> <<"eom">>
    [] Handler = "TestHandler" -> IF transaction /\ ~EgressEOMSeen THEN <<"eom">> ELSE <<>>
    [] OTHER -> <<>>

onEOM == /\ Arrives("headers", "eom")
         /\ egress' = egress \o Ending
         /\ UNCHANGED <<request, bodies, process, transaction, pushed, wt>>

\* Only EchoHandler and DummyHandler abort.
onError == /\ Arrives(ingress, "error")
           /\ ingress \in {"headers", "eom"}
           /\ egress' = IF Handler \in {"EchoHandler", "DummyHandler"}
                        THEN Append(egress, "abort") ELSE egress
           /\ UNCHANGED <<request, bodies, process, transaction, pushed, wt>>
-----------------------------------------------------------------------------
(* TestHandler's streams.  They end with the session.                        *)

InSession == wt.open /\ ingress = "headers"

With(f, x, v) == [y \in DOMAIN f \cup {x} |-> IF y = x THEN v ELSE f[y]]
Known(kind) == Cardinality({id \in DOMAIN wt.streams : id[1] = kind})
NewStream(size, at) == [size |-> size, read |-> 0, chunks |-> 0, at |-> at, reply |-> NoReply]

onWebTransportBidiStream ==
  /\ InSession
  /\ Cardinality(DOMAIN wt.streams) < MaxStreams
  /\ \E size \in 0 .. MaxBytes :
       wt' = [wt EXCEPT !.streams = With(@, <<"bidi", Known("bidi") + 1>>, NewStream(size, "awaiting"))]
  /\ UNCHANGED streamless

\* createUniStream may fail: then the stream is never read.
Opens(w, s) ==
  IF w.credit = 0 THEN [w EXCEPT !.streams = [s EXCEPT ![<<"uni", Known("uni") + 1>>].at = "none"]]
  ELSE [w EXCEPT !.streams = s, !.credit = @ - 1]

onWebTransportUniStream ==
  /\ InSession
  /\ Cardinality(DOMAIN wt.streams) < MaxStreams
  /\ \E size \in 0 .. MaxBytes :
       wt' = Opens(wt, With(wt.streams, <<"uni", Known("uni") + 1>>, NewStream(size, "awaiting")))
  /\ UNCHANGED streamless

\* Mutant: every chunk is written back.
Replied_Every(s, n, fin) == IF s.reply = NoReply THEN n ELSE s.reply + n
\* Only the chunk that comes with the FIN is.
Replied(s, n, fin) == IF fin THEN n ELSE s.reply

\* readHandler with a chunk.
Read(id, n, fin) ==
  LET s == wt.streams[id] IN
  /\ InSession
  /\ s.at = "awaiting"
  /\ n <= s.size - s.read
  /\ n > 0 \/ fin
  /\ fin => n = s.size - s.read
  /\ wt' = [wt EXCEPT !.streams[id] =
              [s EXCEPT !.read = @ + n, !.chunks = @ + 1, !.reply = Replied(s, n, fin),
                        !.at = IF fin THEN "fin" ELSE "awaiting"]]
  /\ UNCHANGED streamless

\* readHandler with an exception: nothing is done to the stream for the reply.
ReadError(id) == /\ wt.open
                 /\ wt.streams[id].at = "awaiting"
                 /\ wt' = [wt EXCEPT !.streams[id].at = "failed"]
                 /\ UNCHANGED streamless

Next == \/ onHeadersComplete \/ onBody \/ onEOM \/ onError
        \/ onWebTransportBidiStream \/ onWebTransportUniStream
        \/ \E id \in DOMAIN wt.streams :
             \/ \E n \in 0 .. MaxBytes, fin \in BOOLEAN : Read(id, n, fin)
             \/ ReadError(id)

Spec == Init /\ [][Next]_vars
-----------------------------------------------------------------------------
\* Types; no more streams are opened than the client gave credit for.
TypeOK == /\ request \in Requests
          /\ ingress \in {"none", "headers", "eom", "error"}
          /\ bodies \in 0 .. MaxBodies
          /\ process \in {"up", "terminated"}
          /\ transaction \in BOOLEAN
          /\ egress \in Seq(Event)
          /\ pushed \in Seq(Seq(Event))
          /\ wt.open \in BOOLEAN /\ wt.credit \in 0 .. MaxStreams
          /\ DOMAIN wt.streams \subseteq StreamId
          /\ \A id \in DOMAIN wt.streams : wt.streams[id] \in Stream

\* Whatever the handler and wherever an error strikes, HEADERS come first, as
\* often as sendHeaders was called: once for each push, whose promise is sent
\* on the response's own transaction, and once for the response.  It ends
\* once, as nothing but an abort follows the EOM, and has ended when the whole
\* request has arrived, also if a push failed; every push that was begun is
\* whole.  Only a GET for /push/<size>/<count> can end the process: for a
\* negative size, or a push to a client without WebTransport.
Positions(e) == {i \in DOMAIN egress : egress[i] = e}
ResponseIsLegal ==
  /\ egress # <<>> => Positions("headers") = 1 .. Len(pushed) + 1
  /\ \A i \in Positions("eom") : \A j \in DOMAIN egress : j > i => egress[j] = "abort"
  /\ ingress = "eom" => Positions("eom") # {}
  /\ \A i \in DOMAIN pushed : pushed[i] = sendPushResponse
  /\ process = "terminated" => /\ request.path = "/push" /\ request.method = "GET"
                               /\ request.pushSize < 0 \/ request.pushCount > 0

\* A stream read to its FIN is answered, once and with the last chunk: with
\* all it carried only if that came in one; any other is not answered, and
\* only a unidirectional one can be left unread.
TestAnswersAtFin ==
  \A id \in DOMAIN wt.streams : LET s == wt.streams[id] IN
    /\ s.at = "fin" <=> s.reply # NoReply
    /\ s.at = "fin" => (s.reply = s.size <=> s.chunks = 1)
    /\ s.at = "none" => id[1] = "uni"
=============================================================================
