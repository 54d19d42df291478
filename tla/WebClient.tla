------------------------------ MODULE WebClient ------------------------------
(***************************************************************************)
(* The web page (client/client.js) on its server: connect() and sendData() *)
(* are asynchronous functions, started by the user's clicks, that share    *)
(* the globals currentTransport and streamNumber and the two buttons; each *)
(* runs undisturbed up to its next await.  Every WebTransport object has a *)
(* connection of its own.                                                  *)
(***************************************************************************)
EXTENDS CounterServer

CONSTANT MaxSends   \* bound: clicks on "Send data"

ASSUME MaxSendsAssumption == MaxSends \in Nat

VARIABLES
  connects,    \* where connect() is, for the transport of each connection
  globals,     \* currentTransport (0: undefined), streamNumber, and whether
               \*   the two buttons are enabled
  sends,       \* the calls of sendData() for streams, in order
  readers      \* the streams that readFromIncomingStream reads

pageVars == <<connects, globals, sends, readers>>
vars == <<client, conn, pageVars>>

Globals == [currentTransport : Nat, streamNumber : Nat, send : BOOLEAN, connect : BOOLEAN]
\* Where a call is (the await it is in, or how it ended), and its variables.
Send == [at : {"create", "write", "close", "sent", "failed"}, kind : {"bidi", "uni"},
         transport : Nat, stream : 0 .. MaxStreams, number : Nat]
\* A reader: the stream it reads and the number it announced it under; got says
\* that its reply was logged.
Reader == [transport : Nat, kind : {"bidi", "uni"}, stream : Nat, number : Nat, got : BOOLEAN]

PageInit == /\ Init
            /\ connects = [c \in Connections |-> "none"]
            /\ globals = [currentTransport |-> 0, streamNumber |-> 0, send |-> FALSE,
                          connect |-> TRUE]
            /\ sends = <<>>
            /\ readers = {}
-----------------------------------------------------------------------------
(* connect()                                                                 *)

\* A click: the next WebTransport object, which sends its request.
ClickConnect(c) ==
  /\ globals.connect
  /\ client[c] = "page" /\ connects[c] = "none"
  /\ \A b \in Connections : b < c => connects[b] # "none"
  /\ connects' = [connects EXCEPT ![c] = "ready?"]
  /\ UNCHANGED <<client, conn, globals, sends, readers>>

\* The server reads the request; the page's URL may be a wrong one.
PageConnects(c) == /\ connects[c] # "none"
                   /\ conn[c].answers = <<>>
                   /\ \E r \in {"/counter", "other path"} : HeadersReceived(c, r)
                   /\ UNCHANGED pageVars

\* Mutant: ready is not awaited.
Ready_NotAwaited(c) ==
  /\ connects[c] = "ready?"
  /\ connects' = [connects EXCEPT ![c] = "connected"]
  /\ globals' = [currentTransport |-> c, streamNumber |-> 1, send |-> TRUE, connect |-> FALSE]
  /\ UNCHANGED <<client, conn, sends, readers>>

\* transport.ready is fulfilled, all at once up to the end of connect().
Ready(c) ==
  /\ connects[c] = "ready?"
  /\ conn[c].answers = <<200>>
  /\ connects' = [connects EXCEPT ![c] = "connected"]
  /\ globals' = [currentTransport |-> c, streamNumber |-> 1, send |-> TRUE, connect |-> FALSE]
  /\ UNCHANGED <<client, conn, sends, readers>>

\* It is rejected.
NotReady(c) ==
  /\ connects[c] = "ready?"
  /\ conn[c].answers = <<404>> \/ ~conn[c].alive
  /\ connects' = [connects EXCEPT ![c] = "failed"]
  /\ UNCHANGED <<client, conn, globals, sends, readers>>
-----------------------------------------------------------------------------
(* sendData(), for streams                                                   *)

ClickSend(kind) ==
  /\ globals.send
  /\ Len(sends) < MaxSends
  /\ sends' = Append(sends, [at |-> "create", kind |-> kind, stream |-> 0, number |-> 0,
                             transport |-> globals.currentTransport])
  /\ UNCHANGED <<client, conn, connects, globals, readers>>

\* createUnidirectionalStream or createBidirectionalStream is fulfilled, in
\* the order of the calls.
Create(i) ==
  LET x == sends[i]  k == Begun(x.transport, x.kind) + 1 IN
  /\ x.at = "create"
  /\ \A j \in 1 .. i - 1 : ~(sends[j].at = "create" /\ sends[j].transport = x.transport)
  /\ conn[x.transport].alive
  /\ Cardinality(DOMAIN conn[x.transport].streams) < MaxStreams
  /\ conn' = [conn EXCEPT ![x.transport].streams = With(@, <<x.kind, k>>, NewStream(0, "open"))]
  /\ IF x.kind = "uni"
     THEN /\ sends' = [sends EXCEPT ![i].at = "write", ![i].stream = k]
          /\ UNCHANGED <<globals, readers>>
     ELSE /\ sends' = [sends EXCEPT ![i].at = "write", ![i].stream = k,
                                    ![i].number = globals.streamNumber]
          /\ globals' = [globals EXCEPT !.streamNumber = @ + 1]
          /\ readers' = readers \cup {[transport |-> x.transport, kind |-> "bidi", stream |-> k,
                                       number |-> globals.streamNumber, got |-> FALSE]}
  /\ UNCHANGED <<client, connects>>

\* await writer.write(data), and await writer.close().
Write(i) ==
  LET x == sends[i] IN
  /\ x.at = "write"
  /\ conn[x.transport].alive
  /\ sends' = [sends EXCEPT ![i].at = "close"]
  /\ \E n \in 0 .. MaxBytes :
       conn' = [conn EXCEPT ![x.transport].streams[<<x.kind, x.stream>>].size = n]
  /\ UNCHANGED <<client, connects, globals, readers>>

Close(i) ==
  LET x == sends[i] IN
  /\ x.at = "close"
  /\ conn[x.transport].alive
  /\ sends' = [sends EXCEPT ![i].at = "sent"]
  /\ conn' = [conn EXCEPT ![x.transport].streams[<<x.kind, x.stream>>].end = "fin"]
  /\ UNCHANGED <<client, connects, globals, readers>>

\* The connection is gone: an exception, which is logged.
SendFails(i) == /\ sends[i].at \in {"create", "write", "close"}
                /\ ~conn[sends[i].transport].alive
                /\ sends' = [sends EXCEPT ![i].at = "failed"]
                /\ UNCHANGED <<client, conn, connects, globals, readers>>
-----------------------------------------------------------------------------
(* The readers                                                               *)

\* The server's replies on new streams, by their positions, and the n-th.
Incoming(c) == {i \in DOMAIN conn[c].replies : conn[c].replies[i].on = "new"}
IncomingAt(c, n) == {i \in Incoming(c) : Cardinality({j \in Incoming(c) : j <= i}) = n}
Accepted(c) == Cardinality({r \in readers : r.transport = c /\ r.kind = "uni"})

\* Mutant: the number is read and not moved on.
acceptUnidirectionalStreams_Same(c) ==
  /\ connects[c] = "connected"
  /\ conn[c].alive
  /\ Accepted(c) < Cardinality(Incoming(c))
  /\ readers' = readers \cup {[transport |-> c, kind |-> "uni", stream |-> Accepted(c) + 1,
                               number |-> globals.streamNumber, got |-> FALSE]}
  /\ UNCHANGED <<client, conn, connects, globals, sends>>

\* acceptUnidirectionalStreams of a connected transport.
acceptUnidirectionalStreams(c) ==
  LET k == Accepted(c) + 1 IN
  /\ connects[c] = "connected"
  /\ conn[c].alive
  /\ k <= Cardinality(Incoming(c))
  /\ readers' = readers \cup {[transport |-> c, kind |-> "uni", stream |-> k,
                               number |-> globals.streamNumber, got |-> FALSE]}
  /\ globals' = [globals EXCEPT !.streamNumber = @ + 1]
  /\ UNCHANGED <<client, conn, connects, sends>>

\* The reply a reader reads, if the server has sent it.
Answer(r) == LET replies == conn[r.transport].replies IN
  {replies[i] : i \in IF r.kind = "uni" THEN IncomingAt(r.transport, r.stream)
                      ELSE {j \in DOMAIN replies : replies[j].to = <<"bidi", r.stream>>}}

readFromIncomingStream(r) ==
  /\ ~r.got
  /\ conn[r.transport].alive
  /\ Answer(r) # {}
  /\ readers' = (readers \ {r}) \cup {[r EXCEPT !.got = TRUE]}
  /\ UNCHANGED <<client, conn, connects, globals, sends>>

Page == \/ \E c \in Connections : \/ ClickConnect(c) \/ PageConnects(c) \/ Ready(c)
                                  \/ NotReady(c) \/ acceptUnidirectionalStreams(c)
        \/ \E kind \in {"bidi", "uni"} : ClickSend(kind)
        \/ \E i \in DOMAIN sends : Create(i) \/ Write(i) \/ Close(i) \/ SendFails(i)
        \/ \E r \in readers : readFromIncomingStream(r)

Others == \E c \in Connections :
            OtherConnects(c) \/ OtherWrites(c) \/ ConnectionEnds(c) \/ Serve(c)

Next == Page \/ (Others /\ UNCHANGED pageVars)
Spec == PageInit /\ [][Next]_vars

\* The server's loop handles what arrives, and the page's loop what it gets.
FairSpec == /\ Spec
            /\ WF_vars(UNCHANGED pageVars /\ \E c \in Connections : Serve(c))
            /\ WF_vars(\E c \in Connections : acceptUnidirectionalStreams(c))
            /\ WF_vars(\E r \in readers : readFromIncomingStream(r))
-----------------------------------------------------------------------------
\* Types; and sendData() never runs without a transport that became ready.
TypeOK == /\ client \in Clients
          /\ DOMAIN conn = Connections /\ \A c \in Connections : IsConnection(conn[c])
          /\ connects \in [Connections -> {"none", "ready?", "connected", "failed"}]
          /\ globals \in Globals
          /\ sends \in Seq(Send)
          /\ \A i \in DOMAIN sends : connects[sends[i].transport] = "connected"
          /\ readers \subseteq Reader

\* The number under which a stream is announced tells it from every other,
\* though sendData() and the loops of acceptUnidirectionalStreams take turns
\* at the counter, as long as one transport alone was connected: a second one
\* starts again from 1 while the first goes on.
NumbersAreUnique ==
  Cardinality({c \in Connections : connects[c] = "connected"}) <= 1 =>
    \A r, q \in readers : r.number = q.number => r = q

\* What the page reads on a stream of its own is the number of bytes it wrote
\* there, and on the server's k-th stream what it wrote on the stream that
\* was answered k-th: the page sends nothing before its session was accepted,
\* and the server counts every byte.
Lengths(r) == {conn[r.transport].streams[a.to].size : a \in Answer(r)}
PageLearnsItsLengths ==
  \A r \in readers : r.got => \A a \in Answer(r) : {a.count} = Lengths(r)

\* Whatever the page sends on a stream is answered and read, unless the
\* connection is lost.
Read(c, id) ==
  \E r \in readers : r.got /\ r.transport = c /\ \E a \in Answer(r) : a.to = id
Sent(i) == i \in DOMAIN sends /\ sends[i].at = "sent"
Settled(i) == /\ Sent(i)
              /\ \/ ~conn[sends[i].transport].alive
                 \/ Read(sends[i].transport, <<sends[i].kind, sends[i].stream>>)
EverySendIsAnswered == \A i \in 1 .. MaxSends : Sent(i) ~> Settled(i)
=============================================================================
