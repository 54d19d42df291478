------------------------------ MODULE HQServer ------------------------------
(***************************************************************************)
(* The server process.  main reads its flags; startServer starts the       *)
(* HTTP/2 server in a thread of its own and the QUIC server, each with the *)
(* certificate the flags name, joins the first and stops the second.       *)
(* Every QUIC connection gets an HQSessionController, which counts its     *)
(* sessions and deletes itself with the last: one HQDownstreamSession on   *)
(* h3; on h1q the H1QDownstreamSession, which holds a place for itself,    *)
(* and an HTTPDownstreamSession per bidirectional stream.                  *)
(***************************************************************************)
EXTENDS CommandLine

CONSTANTS Invocations,  \* the flags the server may be started with
          Connections,  \* QUIC connections the clients make
          MaxStreams    \* bidirectional streams of one of them

ASSUME InvocationsAssumption ==
  Invocations \subseteq Flag /\ \A f \in Invocations : f.mode # "client"
ASSUME MaxStreamsAssumption == MaxStreams \in Nat

VARIABLES flags,    \* the command line
          sigint,   \* what the process inherited: default or ignored
          main,     \* where main and startServer are
          h2,       \* where the HTTP/2 server's thread is
          process,  \* up, exited, killed by a signal, or crashed
          conn      \* the connections

vars == <<flags, sigint, main, h2, process, conn>>

\* controller: none, alive or deleted; container: the H1QDownstreamSession or
\* the HQDownstreamSession exists; sessions: live HTTPDownstreamSessions;
\* opened: streams so far; knob: a knob frame was sent.
Connection == [transport : {"none", "ready", "ended"}, alpn : {"h1q", "h3"},
               controller : {"none", "alive", "deleted"}, sessionCount : Nat,
               container : BOOLEAN, sessions : 0 .. MaxStreams,
               opened : 0 .. MaxStreams, knob : BOOLEAN]

NoConnection(alpn) ==
  [transport |-> "none", alpn |-> alpn, controller |-> "none", sessionCount |-> 0,
   container |-> FALSE, sessions |-> 0, opened |-> 0, knob |-> FALSE]

\* The session that follows from the protocol TLS agreed to with one of
\* --protocol: any but hq is served as HTTP/3.
Agreed(f) == CASE f.protocol = "" -> {"h1q", "h3"}
               [] f.protocol = "hq" -> {"h1q"}
               [] OTHER -> {"h3"}

Init == /\ flags \in Invocations
        /\ sigint \in {"default", "ignored"}
        /\ main = "flags"
        /\ h2 = "none"
        /\ process = "up"
        /\ conn \in [Connections -> {NoConnection(alpn) : alpn \in Agreed(flags)}]
-----------------------------------------------------------------------------
(* startServer and the thread of H2Server::run.                              *)

Main(from, to) == main = from /\ main' = to /\ process = "up"

\* main reads the flags and refuses those that are not valid.
InitializeParams ==
  /\ process = "up"
  /\ main = "flags"
  /\ IF Accepted(flags) THEN main' = "begin" /\ UNCHANGED process
     ELSE UNCHANGED main /\ process' = IF Rejected(flags) THEN "exited" ELSE "crashed"
  /\ UNCHANGED <<flags, sigint, h2, conn>>

H2ServerRun == /\ Main("begin", "h2 started")
               /\ h2' = "binding"
               /\ UNCHANGED <<flags, sigint, process, conn>>

\* The constructor of HQServer throws if the certificate does not load: the
\* thread of the HTTP/2 server is not joined, and the process ends.
Start == /\ process = "up"
         /\ main = "h2 started"
         /\ IF FizzCertificates(flags) # <<>> THEN main' = "starting" /\ UNCHANGED process
            ELSE UNCHANGED main /\ process' = "crashed"
         /\ UNCHANGED <<flags, sigint, h2, conn>>

\* getAddress waits until the QUIC server is initialized.
GetAddress == /\ Main("starting", "joining")
              /\ UNCHANGED <<flags, sigint, h2, process, conn>>
Join == /\ h2 = "ended"
        /\ Main("joining", "stopping")
        /\ UNCHANGED <<flags, sigint, h2, process, conn>>
Stop == /\ Main("stopping", "stopped")
        /\ process' = "exited"
        /\ UNCHANGED <<flags, sigint, h2, conn>>

\* The thread throws, and ends the process, if its certificate does not load
\* or its port is taken.
H2Binds == /\ process = "up"
           /\ h2 = "binding"
           /\ \/ SslPair(flags) # Throws /\ h2' = "serving" /\ UNCHANGED process
              \/ process' = "crashed" /\ UNCHANGED h2
           /\ UNCHANGED <<flags, sigint, main, conn>>

\* External: a SIGINT.  HTTPServer traps it while it serves, and returns from
\* its start; otherwise it has the effect the process inherited.  Mutant: it
\* never has any.
Untrapped_Ignored == process' = "up"
Untrapped == process' = IF sigint = "default" THEN "killed" ELSE "up"

Interrupt == /\ process = "up"
             /\ IF h2 = "serving" THEN h2' = "returned" /\ UNCHANGED process
                ELSE Untrapped /\ UNCHANGED h2
             /\ UNCHANGED <<flags, sigint, main, conn>>

\* raise(SIGINT), when the HTTPServer and its handler of the signal are gone:
\* nothing else in the program handles it.
Raise == /\ process = "up"
         /\ h2 = "returned"
         /\ h2' = "ended"
         /\ Untrapped
         /\ UNCHANGED <<flags, sigint, main, conn>>
-----------------------------------------------------------------------------
(* The sessions of a connection.                                             *)

Listening == process = "up" /\ main \in {"starting", "joining", "stopping"}

attachSession(c) == [c EXCEPT !.sessionCount = @ + 1]

\* Mutant: the count is not looked at.
detachSession_Always(c) == [c EXCEPT !.sessionCount = @ - 1, !.controller = "deleted"]
detachSession(c) ==
  [c EXCEPT !.sessionCount = @ - 1,
            !.controller = IF c.sessionCount = 1 THEN "deleted" ELSE @]

Contain(c) == attachSession([c EXCEPT !.container = TRUE, !.controller = "alive"])

\* Mutant: its destructor does not give the place back.
Discard_Forgets(c) == IF c.alpn = "h3" THEN detachSession([c EXCEPT !.container = FALSE])
                      ELSE [c EXCEPT !.container = FALSE]
Discard(c) == detachSession([c EXCEPT !.container = FALSE])

\* What the callbacks below do to a connection: its transport is ready, a
\* stream of it opens, the session of one ends, the transport ends.
BecomeReady(c) == [Contain(c) EXCEPT !.transport = "ready"]
OpenStream(c)  == attachSession([c EXCEPT !.sessions = @ + 1, !.opened = @ + 1])
EndSession(c)  == detachSession([c EXCEPT !.sessions = @ - 1])
End(c)         == Discard([c EXCEPT !.transport = "ended"])

\* onQuicTransportReady.  handleHQAlpn ends in onTransportReady, which hands
\* the knob's function the controller's session pointer: it is never set.
onQuicTransportReady(c) ==
  /\ Listening
  /\ conn[c].transport = "none"
  /\ conn' = [conn EXCEPT ![c] = BecomeReady(@)]
  /\ process' = IF conn[c].alpn = "h3" /\ flags.send_knob_frame THEN "crashed" ELSE process
  /\ UNCHANGED <<flags, sigint, main, h2>>

\* H1QDownstreamSession::onNewBidirectionalStream, on a stream that is still
\* there: the new session attaches itself to the container's controller.
onNewBidirectionalStream(c) ==
  /\ process = "up"
  /\ conn[c].alpn = "h1q" /\ conn[c].container
  /\ conn[c].opened < MaxStreams
  /\ conn' = [conn EXCEPT ![c] = OpenStream(@)]
  /\ UNCHANGED <<flags, sigint, main, h2, process>>

\* External: a stream's HTTPDownstreamSession ends, with its stream or some
\* time after its connection.
SessionEnds(c) ==
  /\ process = "up"
  /\ conn[c].sessions > 0
  /\ conn' = [conn EXCEPT ![c] = EndSession(@)]
  /\ UNCHANGED <<flags, sigint, main, h2, process>>

\* onConnectionEnd and onConnectionError: the container deletes itself.
onConnectionEnd(c) ==
  /\ process = "up"
  /\ conn[c].transport = "ready"
  /\ conn' = [conn EXCEPT ![c] = End(@)]
  /\ UNCHANGED <<flags, sigint, main, h2, process>>

Startup == \/ InitializeParams
           \/ H2ServerRun \/ Start \/ GetAddress \/ Join \/ Stop
           \/ H2Binds \/ Interrupt \/ Raise
Serve(c) == \/ onQuicTransportReady(c)
            \/ onNewBidirectionalStream(c)
            \/ SessionEnds(c)
            \/ onConnectionEnd(c)

Next == Startup \/ \E c \in Connections : Serve(c)

Spec == Init /\ [][Next]_vars

\* A session whose connection has ended ends.
FairSpec == Spec /\ \A c \in Connections :
              WF_vars(conn[c].transport = "ended" /\ SessionEnds(c))
-----------------------------------------------------------------------------
\* The variables have their types: no count (a uint64_t) goes below zero.
TypeOK == /\ flags \in Invocations
          /\ sigint \in {"default", "ignored"}
          /\ main \in {"flags", "begin", "h2 started", "starting", "joining", "stopping",
                      "stopped"}
          /\ h2 \in {"none", "binding", "serving", "returned", "ended"}
          /\ process \in {"up", "exited", "killed", "crashed"}
          /\ conn \in [Connections -> Connection]

Holders(c) == c.sessions + (IF c.container THEN 1 ELSE 0)

\* A controller lives exactly as long as a session that points to it, and
\* counts them: no stream, request or detach meets one that was deleted.
ControllerServesItsSessions ==
  \A c \in Connections :
    /\ conn[c].sessionCount = Holders(conn[c])
    /\ conn[c].controller = "alive" <=> Holders(conn[c]) > 0

\* No controller outlives its connection for ever.
ControllersGo ==
  \A c \in Connections :
    conn[c].transport = "ended" ~> conn[c].controller = "deleted" \/ process # "up"

\* HTTP/3 and HTTP/2 read --cert and --key each in a way of its own, but
\* while both are served the certificate of HTTP/2 is the default of HTTP/3.
\* That is not all HTTP/3 may present: it alone has a second one, and that one
\* is built in, whatever the flags are.
DefaultCertificateIsShared ==
  h2 = "serving" /\ main \in {"starting", "joining"} /\ process = "up" =>
    FizzCertificates(flags) = <<SslPair(flags), kPrime256v1>>

\* The QUIC server is stopped, and its connections closed, only in a process
\* that was started with SIGINT ignored: in any other the signal that is
\* raised again for it ends the process first.
StopsOnlyIfSignalIgnored == main \in {"stopping", "stopped"} => sigint = "ignored"
-----------------------------------------------------------------------------
(* What comments and flags say of the server.                                *)

\* HQCommandLine.cpp:83-86, --send_knob_frame: a knob frame is sent "when a
\* QUIC connection is established successfully".
KnobIsSent ==
  \A c \in Connections :
    flags.send_knob_frame /\ conn[c].alpn = "h3" /\ conn[c].transport = "ready" => conn[c].knob
=============================================================================
