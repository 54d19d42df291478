--------------------------- MODULE HQServerProofs ---------------------------
(***************************************************************************)
(* Proofs about HQServer, for any set of connections and any number of     *)
(* streams on each: the controller of a connection lives exactly as long   *)
(* as a session that points to it, and its count never wraps.              *)
(***************************************************************************)
EXTENDS HQServer, TLAPS

(***************************************************************************)
(* What holds of one connection.  Beyond the property that is wanted: the  *)
(* container is there while the transport is, so that a connection is set  *)
(* up only once and a container is discarded only once; and nobody is      *)
(* counted before the transport is ready.                                  *)
(***************************************************************************)
ConnectionInv(k) ==
  /\ k \in Connection
  /\ k.sessionCount = Holders(k)
  /\ k.controller = "alive" <=> Holders(k) > 0
  /\ k.container <=> k.transport = "ready"
  /\ k.transport = "none" => k.sessions = 0
  /\ k.sessions <= k.opened

ServerInv == /\ TypeOK
             /\ \A c \in Connections : ConnectionInv(conn[c])
-----------------------------------------------------------------------------
(* What the operations do to one connection.                                *)

\* A connection that has become ready has its controller, counted once.
LEMMA ReadyKeeps ==
  ASSUME NEW k, ConnectionInv(k), k.transport = "none"
  PROVE  ConnectionInv(BecomeReady(k))
<1> DEFINE j == BecomeReady(k)
<1>1. /\ k \in Connection /\ k.sessions = 0 /\ k.container = FALSE
      /\ k.sessionCount = 0
  BY DEF ConnectionInv, Connection, Holders
<1>2. j = [transport |-> "ready", alpn |-> k.alpn, controller |-> "alive",
           sessionCount |-> k.sessionCount + 1, container |-> TRUE,
           sessions |-> k.sessions, opened |-> k.opened, knob |-> k.knob]
  <2>1. PICK held : held = [k EXCEPT !.container = TRUE, !.controller = "alive"]
    OBVIOUS
  <2>2. held = [transport |-> k.transport, alpn |-> k.alpn, controller |-> "alive",
                sessionCount |-> k.sessionCount, container |-> TRUE,
                sessions |-> k.sessions, opened |-> k.opened, knob |-> k.knob]
    BY <1>1, <2>1 DEF Connection
  <2>3. held \in Connection
    BY <1>1, <2>2 DEF Connection
  <2>4. j = [[held EXCEPT !.sessionCount = @ + 1] EXCEPT !.transport = "ready"]
    BY <2>1 DEF BecomeReady, Contain, attachSession
  <2> HIDE DEF j
  <2>5. j = [transport |-> "ready", alpn |-> held.alpn, controller |-> held.controller,
             sessionCount |-> held.sessionCount + 1, container |-> held.container,
             sessions |-> held.sessions, opened |-> held.opened, knob |-> held.knob]
    BY <2>3, <2>4 DEF Connection
  <2> QED BY <2>2, <2>5
<1> HIDE DEF j
<1>3. j \in Connection
  BY <1>1, <1>2 DEF Connection
<1>4. /\ j.transport = "ready" /\ j.controller = "alive" /\ j.sessionCount = 1
      /\ j.container = TRUE /\ j.sessions = 0 /\ j.opened = k.opened
  BY <1>1, <1>2
<1>5. Holders(j) = 1
  BY <1>4 DEF Holders
<1>6. j.sessions <= j.opened
  BY <1>1, <1>4 DEF ConnectionInv
<1>7. ConnectionInv(j)
  BY <1>3, <1>4, <1>5, <1>6 DEF ConnectionInv
<1> QED BY <1>7 DEF j

\* A stream's session is counted at the controller of its container.
LEMMA StreamKeeps ==
  ASSUME NEW k, ConnectionInv(k), k.container, k.opened < MaxStreams
  PROVE  ConnectionInv(OpenStream(k))
<1> DEFINE j == OpenStream(k)
<1>1. /\ k \in Connection /\ k.container = TRUE /\ k.controller = "alive"
      /\ k.sessionCount = k.sessions + 1 /\ k.transport = "ready"
      /\ k.sessions \in Nat /\ k.opened \in Nat /\ k.sessions <= k.opened
  BY DEF ConnectionInv, Connection, Holders
<1>2. j = [transport |-> k.transport, alpn |-> k.alpn, controller |-> k.controller,
           sessionCount |-> k.sessionCount + 1, container |-> k.container,
           sessions |-> k.sessions + 1, opened |-> k.opened + 1, knob |-> k.knob]
  <2>1. PICK more : more = [k EXCEPT !.sessions = @ + 1, !.opened = @ + 1]
    OBVIOUS
  <2>2. more = [transport |-> k.transport, alpn |-> k.alpn,
                controller |-> k.controller, sessionCount |-> k.sessionCount,
                container |-> k.container, sessions |-> k.sessions + 1,
                opened |-> k.opened + 1, knob |-> k.knob]
    BY <1>1, <2>1 DEF Connection
  <2>3. j = [more EXCEPT !.sessionCount = @ + 1]
    BY <2>1 DEF OpenStream, attachSession
  <2> HIDE DEF j
  <2> QED BY <2>2, <2>3
<1> HIDE DEF j
<1>3. j \in Connection
  BY <1>1, <1>2, MaxStreamsAssumption DEF Connection
<1>4. /\ j.transport = "ready" /\ j.controller = "alive"
      /\ j.sessionCount = k.sessionCount + 1 /\ j.container = TRUE
      /\ j.sessions = k.sessions + 1 /\ j.opened = k.opened + 1
  BY <1>1, <1>2
<1>5. Holders(j) = k.sessions + 2
  BY <1>1, <1>4 DEF Holders
<1>6. ConnectionInv(j)
  BY <1>1, <1>3, <1>4, <1>5 DEF ConnectionInv
<1> QED BY <1>6 DEF j

\* detachSession by the one of several that goes, or by the last.
LEMMA DetachCounts ==
  ASSUME NEW k, k \in Connection, k.sessionCount = Holders(k) + 1,
         k.controller = "alive", k.sessions <= k.opened,
         k.container <=> k.transport = "ready",
         k.transport = "none" => k.sessions = 0
  PROVE  ConnectionInv(detachSession(k))
<1> DEFINE j == detachSession(k)
<1>1. /\ k.sessions \in Nat /\ k.opened \in Nat /\ k.container \in BOOLEAN
      /\ k.sessionCount \in Nat
  BY DEF Connection
<1>2. Holders(k) \in Nat
  BY <1>1 DEF Holders
<1>3. j = [transport |-> k.transport, alpn |-> k.alpn,
           controller |-> IF k.sessionCount = 1 THEN "deleted" ELSE "alive",
           sessionCount |-> k.sessionCount - 1, container |-> k.container,
           sessions |-> k.sessions, opened |-> k.opened, knob |-> k.knob]
  <2>1. k = [transport |-> k.transport, alpn |-> k.alpn, controller |-> "alive",
             sessionCount |-> k.sessionCount, container |-> k.container,
             sessions |-> k.sessions, opened |-> k.opened, knob |-> k.knob]
    BY DEF Connection
  <2>2. CASE k.sessionCount = 1
    <3>1. j = [k EXCEPT !.sessionCount = @ - 1, !.controller = "deleted"]
      BY <2>2 DEF detachSession
    <3> HIDE DEF j
    <3> QED BY <2>1, <2>2, <3>1
  <2>3. CASE k.sessionCount # 1
    <3>1. j = [k EXCEPT !.sessionCount = @ - 1, !.controller = @]
      BY <2>3 DEF detachSession
    <3> HIDE DEF j
    <3> QED BY <2>1, <2>3, <3>1
  <2> QED BY <2>2, <2>3
<1> HIDE DEF j
<1>4. j \in Connection
  BY <1>1, <1>2, <1>3 DEF Connection
<1>5. /\ j.transport = k.transport /\ j.container = k.container
      /\ j.sessions = k.sessions /\ j.opened = k.opened
      /\ j.sessionCount = Holders(k)
      /\ j.controller = IF k.sessionCount = 1 THEN "deleted" ELSE "alive"
  BY <1>2, <1>3
<1>6. Holders(j) = Holders(k)
  BY <1>5 DEF Holders
<1>7. j.controller = "alive" <=> Holders(j) > 0
  BY <1>2, <1>5, <1>6
<1>8. ConnectionInv(j)
  BY <1>4, <1>5, <1>6, <1>7 DEF ConnectionInv
<1> QED BY <1>8 DEF j

\* The session of a stream goes.
LEMMA SessionEndKeeps ==
  ASSUME NEW k, ConnectionInv(k), k.sessions > 0
  PROVE  ConnectionInv(EndSession(k))
<1> DEFINE j == [k EXCEPT !.sessions = @ - 1]
<1>1. /\ k \in Connection /\ k.sessions \in Nat /\ k.opened \in Nat
      /\ k.container \in BOOLEAN /\ k.sessions <= k.opened
      /\ k.sessions <= MaxStreams
  BY MaxStreamsAssumption DEF ConnectionInv, Connection
<1>2. j = [transport |-> k.transport, alpn |-> k.alpn, controller |-> k.controller,
           sessionCount |-> k.sessionCount, container |-> k.container,
           sessions |-> k.sessions - 1, opened |-> k.opened, knob |-> k.knob]
  BY <1>1 DEF Connection
<1> HIDE DEF j
<1>3. j \in Connection
  BY <1>1, <1>2, MaxStreamsAssumption DEF Connection
<1>4. /\ j.transport = k.transport /\ j.container = k.container
      /\ j.sessions = k.sessions - 1 /\ j.opened = k.opened
      /\ j.sessionCount = k.sessionCount /\ j.controller = k.controller
  BY <1>2
<1>5. Holders(k) = Holders(j) + 1 /\ Holders(k) > 0
  BY <1>1, <1>4 DEF Holders
<1>6. /\ j.sessionCount = Holders(j) + 1 /\ j.controller = "alive"
      /\ j.sessions <= j.opened
      /\ j.container <=> j.transport = "ready"
      /\ j.transport # "none"
  BY <1>1, <1>4, <1>5 DEF ConnectionInv
<1>7. ConnectionInv(detachSession(j))
  BY <1>3, <1>6, DetachCounts
<1> QED BY <1>7 DEF j, EndSession

\* The connection ends, and its container goes.
LEMMA ConnectionEndKeeps ==
  ASSUME NEW k, ConnectionInv(k), k.transport = "ready"
  PROVE  ConnectionInv(End(k))
<1> DEFINE j == [[k EXCEPT !.transport = "ended"] EXCEPT !.container = FALSE]
<1>1. /\ k \in Connection /\ k.sessions \in Nat /\ k.container = TRUE
  BY DEF ConnectionInv, Connection
<1>2. j = [transport |-> "ended", alpn |-> k.alpn, controller |-> k.controller,
           sessionCount |-> k.sessionCount, container |-> FALSE,
           sessions |-> k.sessions, opened |-> k.opened, knob |-> k.knob]
  <2> DEFINE over == [k EXCEPT !.transport = "ended"]
  <2>1. over = [transport |-> "ended", alpn |-> k.alpn, controller |-> k.controller,
                sessionCount |-> k.sessionCount, container |-> k.container,
                sessions |-> k.sessions, opened |-> k.opened, knob |-> k.knob]
    BY <1>1 DEF Connection
  <2>2. j = [over EXCEPT !.container = FALSE]
    OBVIOUS
  <2> HIDE DEF over, j
  <2> QED BY <2>1, <2>2
<1> HIDE DEF j
<1>3. j \in Connection
  BY <1>1, <1>2 DEF Connection
<1>4. /\ j.transport = "ended" /\ j.container = FALSE
      /\ j.sessions = k.sessions /\ j.opened = k.opened
      /\ j.sessionCount = k.sessionCount /\ j.controller = k.controller
  BY <1>2
<1>5. Holders(k) = Holders(j) + 1 /\ Holders(k) > 0
  BY <1>1, <1>4 DEF Holders
<1>6. /\ j.sessionCount = Holders(j) + 1 /\ j.controller = "alive"
      /\ j.sessions <= j.opened
  BY <1>4, <1>5 DEF ConnectionInv
<1>7. ConnectionInv(detachSession(j))
  BY <1>3, <1>4, <1>6, DetachCounts
<1> QED BY <1>7 DEF j, End, Discard
-----------------------------------------------------------------------------
\* Initially there is no controller and nobody is counted.
LEMMA InitServerInv == Init => ServerInv
<1> SUFFICES ASSUME Init PROVE ServerInv
  OBVIOUS
<1>1. ASSUME NEW alpn \in {"h1q", "h3"}
      PROVE  ConnectionInv(NoConnection(alpn))
  BY MaxStreamsAssumption DEF NoConnection, ConnectionInv, Connection, Holders
<1>a. conn \in [Connections -> {NoConnection("h1q"), NoConnection("h3")}]
  <2>1. Agreed(flags) \subseteq {"h1q", "h3"}
    BY DEF Agreed
  <2> QED BY <2>1 DEF Init
<1>2. \A c \in Connections : ConnectionInv(conn[c])
  BY <1>1, <1>a
<1>3. conn \in [Connections -> Connection]
  <2>1. NoConnection("h1q") \in Connection /\ NoConnection("h3") \in Connection
    BY <1>1 DEF ConnectionInv
  <2> QED BY <2>1, <1>a
<1> QED BY <1>2, <1>3 DEF ServerInv, TypeOK, Init

\* A step that changes one connection, and keeps what holds of it.
LEMMA OneConnection ==
  ASSUME ServerInv, NEW c \in Connections, NEW k, ConnectionInv(k),
         conn' = [conn EXCEPT ![c] = k],
         process' \in {"up", "exited", "killed", "crashed"},
         UNCHANGED <<flags, sigint, main, h2>>
  PROVE  ServerInv'
<1>1. TypeOK
  BY DEF ServerInv
<1>2. k \in Connection
  BY DEF ConnectionInv
<1>3. TypeOK'
  BY <1>1, <1>2 DEF TypeOK
<1>4. ASSUME NEW b \in Connections PROVE ConnectionInv(conn'[b])
  <2>1. CASE b = c
    BY <1>1, <2>1 DEF TypeOK
  <2>2. CASE b # c
    <3>1. conn'[b] = conn[b]
      BY <1>1, <2>2 DEF TypeOK
    <3> QED BY <3>1 DEF ServerInv
  <2> QED BY <2>1, <2>2
<1> QED BY <1>3, <1>4 DEF ServerInv

\* What a connection does keeps ServerInv.
LEMMA ServeStep ==
  ASSUME ServerInv, NEW c \in Connections, Serve(c)
  PROVE  ServerInv'
<1>1. ConnectionInv(conn[c]) /\ TypeOK
  BY DEF ServerInv
<1>2. CASE onQuicTransportReady(c)
  <2>1. ConnectionInv(BecomeReady(conn[c]))
    BY <1>1, <1>2, ReadyKeeps DEF onQuicTransportReady
  <2>2. process' \in {"up", "exited", "killed", "crashed"}
    BY <1>1, <1>2 DEF onQuicTransportReady, TypeOK
  <2> QED BY <1>2, <2>1, <2>2, OneConnection DEF onQuicTransportReady
<1>3. CASE onNewBidirectionalStream(c)
  <2>1. ConnectionInv(OpenStream(conn[c]))
    BY <1>1, <1>3, StreamKeeps DEF onNewBidirectionalStream
  <2> QED BY <1>3, <2>1, OneConnection DEF onNewBidirectionalStream
<1>4. CASE SessionEnds(c)
  <2>1. ConnectionInv(EndSession(conn[c]))
    BY <1>1, <1>4, SessionEndKeeps DEF SessionEnds
  <2> QED BY <1>4, <2>1, OneConnection DEF SessionEnds
<1>5. CASE onConnectionEnd(c)
  <2>1. ConnectionInv(End(conn[c]))
    BY <1>1, <1>5, ConnectionEndKeeps DEF onConnectionEnd
  <2> QED BY <1>5, <2>1, OneConnection DEF onConnectionEnd
<1> QED BY <1>2, <1>3, <1>4, <1>5 DEF Serve

\* Starting and stopping touch no connection.
LEMMA StartupStep == ServerInv /\ Startup => ServerInv'
<1> SUFFICES ASSUME ServerInv, Startup PROVE ServerInv'
  OBVIOUS
<1>1. TypeOK
  BY DEF ServerInv
<1>2. conn' = conn
  BY DEF Startup, InitializeParams, H2ServerRun, Start, GetAddress, Join, Stop, H2Binds, Interrupt, Raise
<1>3. TypeOK'
  BY <1>1 DEF TypeOK, Startup, Main, Untrapped, InitializeParams,
              H2ServerRun, Start, GetAddress, Join, Stop, H2Binds, Interrupt, Raise
<1> QED BY <1>2, <1>3 DEF ServerInv

\* ServerInv is an invariant of the server.
THEOREM ServerInvariant == Spec => []ServerInv
<1>1. ServerInv /\ [Next]_vars => ServerInv'
  <2> SUFFICES ASSUME ServerInv, [Next]_vars PROVE ServerInv'
    OBVIOUS
  <2>1. CASE Startup
    BY <2>1, StartupStep
  <2>2. ASSUME NEW c \in Connections, Serve(c) PROVE ServerInv'
    BY <2>2, ServeStep
  <2>3. CASE UNCHANGED vars
    BY <2>3 DEF ServerInv, TypeOK, vars
  <2> QED BY <2>1, <2>2, <2>3 DEF Next
<1> QED BY InitServerInv, <1>1, PTL DEF Spec

\* The types of the variables: HQSessionController's sessionCount, a uint64_t,
\* never goes below zero.
THEOREM ServerTypes == Spec => []TypeOK
<1>1. ServerInv => TypeOK
  BY DEF ServerInv
<1> QED BY <1>1, ServerInvariant, PTL

\* detachSession deletes the controller with the last session that points to
\* it and never before, whatever the order in which sessions end: no stream or
\* session meets a deleted controller.
THEOREM ControllersLiveLongEnough == Spec => []ControllerServesItsSessions
<1>1. ServerInv => ControllerServesItsSessions
  BY DEF ServerInv, ConnectionInv, ControllerServesItsSessions
<1> QED BY <1>1, ServerInvariant, PTL
-----------------------------------------------------------------------------
(* The two threads.                                                          *)

\* A server got as far as it did because its certificates loaded and, once
\* the signal was raised again, because the process ignores it.
ThreadsInv ==
  /\ main \in {"starting", "joining", "stopping", "stopped"} => FizzCertificates(flags) # <<>>
  /\ h2 = "serving" => SslPair(flags) # Throws
  /\ h2 = "ended" /\ process = "up" => sigint = "ignored"
  /\ main \in {"stopping", "stopped"} => sigint = "ignored"

\* ThreadsInv is an invariant of the server.
THEOREM ThreadsInvariant == Spec => []ThreadsInv
<1>1. Init => ThreadsInv
  BY DEF Init, ThreadsInv
<1>2. TypeOK /\ ThreadsInv /\ [Next]_vars => ThreadsInv'
  <2> SUFFICES ASSUME TypeOK, ThreadsInv, [Next]_vars PROVE ThreadsInv'
    OBVIOUS
  <2>1. sigint \in {"default", "ignored"}
    BY DEF TypeOK
  <2>2. CASE InitializeParams
    BY <2>2 DEF InitializeParams, ThreadsInv
  <2>3. CASE H2ServerRun
    BY <2>3 DEF H2ServerRun, Main, ThreadsInv
  <2>4. CASE Start
    BY <2>4 DEF Start, ThreadsInv
  <2>5. CASE GetAddress \/ Join \/ Stop
    BY <2>5 DEF GetAddress, Join, Stop, Main, ThreadsInv
  <2>6. CASE H2Binds
    BY <2>6 DEF H2Binds, ThreadsInv
  <2>7. CASE Interrupt \/ Raise
    BY <2>1, <2>7 DEF Interrupt, Raise, Untrapped, ThreadsInv
  <2>8. ASSUME NEW c \in Connections, Serve(c) PROVE ThreadsInv'
    <3>1. UNCHANGED <<flags, sigint, main, h2>> /\ process = "up"
      BY <2>8 DEF Serve, onQuicTransportReady, onNewBidirectionalStream, SessionEnds,
                  onConnectionEnd, Listening
    <3> QED BY <3>1 DEF ThreadsInv
  <2>9. CASE UNCHANGED vars
    BY <2>9 DEF ThreadsInv, vars
  <2> QED BY <2>2, <2>3, <2>4, <2>5, <2>6, <2>7, <2>8, <2>9 DEF Next, Startup
<1> QED BY <1>1, <1>2, ServerTypes, PTL DEF Spec

\* The certificate of HTTP/2 and the default of QUIC are the same one if both
\* load, for all ways to give --cert and --key.
LEMMA PairsAgree ==
  ASSUME NEW f \in Flag, FizzCertificates(f) # <<>>, SslPair(f) # Throws
  PROVE  FizzCertificates(f) = <<SslPair(f), kPrime256v1>>
<1>1. f.cert \in File /\ f.key \in File
  BY DEF Flag
<1>2. FizzPair(f) # Throws /\ FizzCertificates(f) = <<FizzPair(f), kPrime256v1>>
  BY DEF FizzCertificates
<1>3. FizzPair(f) = SslPair(f)
  BY <1>1, <1>2 DEF File, FizzPair, SslPair, Read, Throws
<1> QED BY <1>2, <1>3

\* Whatever files the flags name, the certificate of createSSLContext is the
\* default one of createFizzServerContext's, beside which there is just the one
\* that is built in.
THEOREM DefaultCertificatesAgree == Spec => []DefaultCertificateIsShared
<1>1. TypeOK /\ ThreadsInv => DefaultCertificateIsShared
  <2> SUFFICES ASSUME TypeOK, ThreadsInv, h2 = "serving",
                      main \in {"starting", "joining"}
               PROVE  FizzCertificates(flags) = <<SslPair(flags), kPrime256v1>>
    BY DEF DefaultCertificateIsShared
  <2>1. flags \in Flag
    BY InvocationsAssumption DEF TypeOK
  <2> QED BY <2>1, PairsAgree DEF ThreadsInv
<1> QED BY <1>1, ThreadsInvariant, ServerTypes, PTL

\* server.stop() is reached only if the signal that H2Server::run raises
\* again is ignored.
THEOREM StopNeedsIgnoredSignal == Spec => []StopsOnlyIfSignalIgnored
<1>1. ThreadsInv => StopsOnlyIfSignalIgnored
  BY DEF ThreadsInv, StopsOnlyIfSignalIgnored
<1> QED BY <1>1, ThreadsInvariant, PTL
=============================================================================
