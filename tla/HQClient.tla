------------------------------ MODULE HQClient ------------------------------
(***************************************************************************)
(* The client process.  main reads its flags; HQClient connects, sends one *)
(* request per path within the peer's stream credit, and goes on from      *)
(* callbacks: from the end of a response (the EOM function of a            *)
(* CurlClient), from a timer after the gap between two sequential requests *)
(* or from a timer of one round trip.  It drains its session               *)
(* (H1QUpstreamSession, or proxygen's HQUpstreamSession) with the last     *)
(* path.  Everything runs on one event loop: a callback is a step.         *)
(***************************************************************************)
EXTENDS CommandLine, CurlClient

CONSTANTS Invocations,   \* the flags the client may be started with
          Existing,      \* output files that may already be there
          MaxPushes,     \* bound: responses the server pushes
          MaxStreams,    \* the peer lets at most so many streams be open
          Faults         \* what may go wrong once connected

Fault == {"transaction", "goaway", "connection"}

ASSUME InvocationsAssumption ==
  Invocations \subseteq Flag /\ \A f \in Invocations : f.mode # "server"
ASSUME ExistingAssumption == Existing \subseteq OutputFile
ASSUME MaxStreamsAssumption == MaxStreams \in Nat
ASSUME FaultsAssumption == Faults \subseteq Fault

VARIABLES flags,    \* the command line
          phase,    \* begin, rejected (invalid parameters), aborted (before
                    \* it connects), connecting, failed, connected,
                    \* terminated (an exception in a noexcept callback, a
                    \* failed CHECK), undefined
          client,   \* the HQClient
          session,  \* its session: none, open, goaway (it refuses new
                    \* transactions) or gone (it has deleted itself)
          faults    \* what has gone wrong (for the properties)

vars == <<flags, phase, client, session, faults>>

params == ClientParams(flags)

\* httpPaths: the paths still to request, by their positions; requestGaps;
\* curls: one CurlClient per request; timer: what the event loop will run;
\* drains, switches: the calls of drainSession and onNetworkSwitch;
\* openable: the streams the transport would open; files: those in outdir.
Client == [httpPaths : Seq(Nat), requestGaps : Seq(Nat), curls : Seq(CurlType),
           timer : {"none", "gap", "rtt"}, drains : Nat, switches : Nat,
           openable : Nat, files : SUBSET OutputFile]

Init == /\ flags \in Invocations
        /\ phase = "begin"
        /\ session = "none"
        /\ faults = {}
        /\ \E n \in 0 .. MaxStreams,
              found \in IF flags.outdir = "" THEN {{}} ELSE SUBSET Existing :
             client = [httpPaths |-> <<>>, requestGaps |-> <<>>, curls |-> <<>>,
                       timer |-> "none", drains |-> 0, switches |-> 0,
                       openable |-> n, files |-> found]

\* main, up to HQClient::start: the flags are read and judged, and the TLS
\* context takes the client's certificate.
Main == /\ phase = "begin"
        /\ phase' = CASE Aborts(flags) -> "aborted"
                       [] Rejected(flags) -> "rejected"
                       [] Accepted(flags) /\ FizzPair(flags) = Throws -> "aborted"
                       [] OTHER -> "connecting"
        /\ UNCHANGED <<flags, client, session, faults>>
-----------------------------------------------------------------------------
Lesser(a, b) == IF a <= b THEN a ELSE b

\* setEOMFunc of the CurlClient created last.
SetEOMFunc(curls, f) == [curls EXCEPT ![Len(curls)].eomFunc = f]

\* Mutant: the session is drained with every batch.
Drains_Always(closeSession, rest) == closeSession
Drains(closeSession, rest) == closeSession /\ rest = <<>>

\* Mutant: the path stays in the queue.
PopPath_Never(c) == c
PopPath(c) == [c EXCEPT !.httpPaths = Tail(@)]

Output(c) == IF params.outdir = "" THEN Stdout
             ELSE saveResponseToFile(NameOf(params.httpPaths[Head(c.httpPaths)]),
                                     c.files, params.outdir = "writable")

\* HQClient::sendRequest of the first path, and the pop.  A session that
\* goes away creates nothing.
SendRequest(c) ==
  LET new == NewCurl(Head(c.httpPaths), Output(c))
  IN  IF session = "goaway" THEN {PopPath(c)}
      ELSE {[PopPath(c) EXCEPT !.curls = Append(@, d), !.openable = @ - 1,
                               !.files = @ \cup ({d.file} \ {Stdout})] :
              d \in IF params.httpMethod = "POST" THEN sendRequest(new, params.httpBody)
                    ELSE {new}}

\* What the client may be after n requests, as each may be paused somewhere.
Batch(c, n) ==
  LET sent[k \in 0 .. n] == IF k = 0 THEN {c} ELSE UNION {SendRequest(d) : d \in sent[k - 1]}
  IN  sent[n]

\* sendRequests once it is known that n requests fit.
Dispatch(c, closeSession, n) ==
  {[d EXCEPT !.drains = IF Drains(closeSession, d.httpPaths) THEN @ + 1 ELSE @,
             !.curls = IF params.sendRequestsSequentially /\ d.httpPaths # <<>>
                       THEN SetEOMFunc(@, "sequential") ELSE @] : d \in Batch(c, n)}

\* Mutant: a sequential client uses all the credit.
sendRequests_All(c, closeSession, numOpenable) ==
  Dispatch(c, closeSession, Lesser(numOpenable, Len(c.httpPaths)))

sendRequests(c, closeSession, numOpenable) ==
  Dispatch(c, closeSession,
           IF params.sendRequestsSequentially THEN 1
           ELSE Lesser(numOpenable, Len(c.httpPaths)))

\* What every callback does first: nothing at all without credit.
TryMore(c) == IF c.openable > 0 THEN sendRequests(c, TRUE, c.openable) ELSE {c}

callSendRequestsAfterADelay(c) ==
  LET d == [c EXCEPT !.switches = IF params.migrateClient THEN @ + 1 ELSE @,
                     !.requestGaps = Tail(@)]
  IN  IF Head(c.requestGaps) > 0 THEN {[d EXCEPT !.timer = "gap"]} ELSE TryMore(d)

\* Mutant: the runner does not schedule itself again.
selfSchedulingRequestRunner_Once(c) == {[d EXCEPT !.timer = "none"] : d \in TryMore(c)}

selfSchedulingRequestRunner(c) ==
  {[d EXCEPT !.timer = IF d.httpPaths # <<>> THEN "rtt" ELSE "none"] : d \in TryMore(c)}
-----------------------------------------------------------------------------
onConnectionSetupError == /\ phase = "connecting"
                          /\ phase' = "failed"
                          /\ UNCHANGED <<flags, client, session, faults>>

\* connectSuccess: one gap stands for the same gap between all paths.
Gaps == LET g == params.requestGaps
            n == Len(params.httpPaths)
        IN  IF Len(g) = 1 /\ n > 2 THEN [i \in 1 .. n - 1 |-> g[1]] ELSE g

\* Mutant: the number of gaps is not checked.
GapsFit_Unchecked == NotANumber \notin Range(params.requestGaps)
GapsFit == /\ NotANumber \notin Range(params.requestGaps)
           /\ Len(params.httpPaths) > 1 => Len(params.httpPaths) = Len(Gaps) + 1

connectSuccess ==
  LET d == [client EXCEPT !.httpPaths = [i \in DOMAIN params.httpPaths |-> i],
                          !.requestGaps = Gaps]
  IN  \E c \in sendRequests(d, ~params.migrateClient, client.openable) :
        client' = IF ~params.sendRequestsSequentially /\ c.httpPaths # <<>>
                  THEN [c EXCEPT !.curls = SetEOMFunc(@, "runner")] ELSE c

\* onTransportReady is noexcept: no credit fails a CHECK, and gaps that are
\* no numbers or do not fit throw, which is the end of the process.
onTransportReady ==
  /\ phase = "connecting"
  /\ session' = "open"
  /\ IF client.openable > 0 /\ GapsFit
     THEN phase' = "connected" /\ connectSuccess
     ELSE phase' = "terminated" /\ UNCHANGED client
  /\ UNCHANGED <<flags, faults>>
-----------------------------------------------------------------------------
\* A callback of the i-th request that changes only its CurlClient.
Callback(i, c) == /\ phase = "connected"
                  /\ client' = [client EXCEPT !.curls[i] = c]
                  /\ UNCHANGED <<flags, phase, session, faults>>

OnHeadersComplete(i) ==
  LET c == client.curls[i]
  IN  /\ c.txn = "open" /\ ~c.response
      /\ Callback(i, onHeadersComplete(c, params.logResponseHeaders))

\* A client that does not log drops the body.
OnBody(i) == LET c == client.curls[i]
             IN  /\ c.txn = "open" /\ c.response
                 /\ params.logResponse /\ c.chunks < MaxChunks
                 /\ Callback(i, onBody(c))

OnEgressResumed(i) == LET c == client.curls[i]
                      IN  /\ Resumable(c)
                          /\ \E d \in onEgressResumed(c) : Callback(i, d)

\* An HTTP/3 server may push a response with one of its own.
OnPushedTransaction(i) ==
  LET c == client.curls[i]
  IN  /\ params.alpn = "h3"
      /\ c.txn = "open" /\ c.push = "none"
      /\ Cardinality({j \in DOMAIN client.curls : client.curls[j].push # "none"}) < MaxPushes
      /\ Callback(i, [c EXCEPT !.push = "open"])

OnPushBody(i) == LET c == client.curls[i]
                 IN  /\ c.push = "open"
                     /\ params.logResponse /\ PushesWritten(c) < MaxChunks
                     /\ Callback(i, onPushBody(c))

Ended(i) == [client EXCEPT !.curls[i].txn = "ended"]

\* CurlClient::onEOM of the i-th request.
OnEOM(i) ==
  LET c == client.curls[i]
  IN  /\ phase = "connected"
      /\ c.txn = "open" /\ c.response
      /\ client' \in CASE c.eomFunc = "none" -> {Ended(i)}
                       [] c.eomFunc = "sequential" -> callSendRequestsAfterADelay(Ended(i))
                       [] c.eomFunc = "runner" -> selfSchedulingRequestRunner(Ended(i))
      /\ UNCHANGED <<flags, phase, session, faults>>

\* CurlClient::onError logs, and calls no EOM function.
OnError(i) == LET c == client.curls[i]
              IN  /\ phase = "connected"
                  /\ "transaction" \in Faults
                  /\ c.txn # "detached" /\ c # Fail(c)
                  /\ client' = [client EXCEPT !.curls[i] = Fail(c)]
                  /\ faults' = faults \cup {"transaction"}
                  /\ UNCHANGED <<flags, phase, session>>
-----------------------------------------------------------------------------
(* The session.                                                              *)

Streams(c)  == {i \in DOMAIN c.curls : c.curls[i].txn # "detached"}
Attached(c) == Streams(c) \cup {i \in DOMAIN c.curls : c.curls[i].push = "open"}

\* A session that drains deletes itself once it is idle: in its drain, or
\* with the last transaction (h3: closeWhenIdle).  External: one that the
\* peer told to go away may do so too.
After(c, s) == CASE Attached(c) # {} -> {s}
                 [] Attached(c) = {} /\ c.drains > 0 -> {"gone"}
                 [] OTHER -> IF s = "goaway" THEN {"goaway", "gone"} ELSE {s}

\* H1QUpstreamSession::onDestroy of a request's HTTPUpstreamSession (h3: the
\* transaction is detached).
OnDestroy(i) ==
  /\ phase = "connected"
  /\ client.curls[i].txn # "detached" /\ Done(client.curls[i])
  /\ client' = [client EXCEPT !.curls[i].txn = "detached"]
  /\ session' \in After(client', session)
  /\ UNCHANGED <<flags, phase, faults>>

\* The end of a pushed transaction, CurlPushHandler's onEOM or onError: both
\* only log.
PushEnds(i) ==
  /\ phase = "connected"
  /\ client.curls[i].push = "open"
  /\ client' = [client EXCEPT !.curls[i].push = "ended"]
  /\ session' \in After(client', session)
  /\ UNCHANGED <<flags, phase, faults>>

\* The timer runs the gap's callback or the runner.  The client keeps its
\* pointer to the session: using one that is gone is undefined.
Fired == CASE client.timer = "gap" -> TryMore([client EXCEPT !.timer = "none"])
           [] client.timer = "rtt" -> selfSchedulingRequestRunner(client)

TimerFires == /\ phase = "connected"
              /\ client.timer # "none"
              /\ IF session = "gone" /\ client.openable > 0
                 THEN phase' = "undefined" /\ UNCHANGED <<client, session>>
                 ELSE /\ client' \in Fired
                      /\ session' \in After(client', session)
                      /\ UNCHANGED phase
              /\ UNCHANGED <<flags, faults>>

\* External: the connection ends.  Every open transaction fails, and the
\* session deletes itself.
ConnectionEnds ==
  /\ phase = "connected"
  /\ "connection" \in Faults
  /\ session # "gone"
  /\ session' = "gone"
  /\ faults' = faults \cup {"connection"}
  /\ \E n \in {0, client.openable} :
       client' = [client EXCEPT !.openable = n,
                                !.curls = [i \in DOMAIN @ |-> Lose(@[i])]]
  /\ UNCHANGED <<flags, phase>>

\* External: an HTTP/3 server goes away.
GoAway == /\ phase = "connected"
          /\ "goaway" \in Faults
          /\ params.alpn = "h3"
          /\ session = "open"
          /\ session' \in After(client, "goaway")
          /\ faults' = faults \cup {"goaway"}
          /\ UNCHANGED <<flags, phase, client>>

\* External: the peer gives credit for a stream that is closed, when it likes.
MaxStreamsFrame == /\ phase = "connected"
                   /\ session # "gone"
                   /\ client.openable + Cardinality(Streams(client)) < MaxStreams
                   /\ client' = [client EXCEPT !.openable = @ + 1]
                   /\ UNCHANGED <<flags, phase, session, faults>>

Next == \/ Main
        \/ onConnectionSetupError
        \/ onTransportReady
        \/ \E i \in DOMAIN client.curls :
             \/ OnHeadersComplete(i) \/ OnBody(i) \/ OnEOM(i) \/ OnError(i)
             \/ OnEgressResumed(i) \/ OnDestroy(i)
             \/ OnPushedTransaction(i) \/ OnPushBody(i) \/ PushEnds(i)
        \/ TimerFires
        \/ ConnectionEnds
        \/ GoAway
        \/ MaxStreamsFrame

Spec == Init /\ [][Next]_vars

\* The event loop runs its timers, the server answers every request, the
\* transport resumes what it paused, and the peer eventually gives credit
\* for closed streams.
FairSpec == /\ Spec
            /\ WF_vars(Main)
            /\ WF_vars(onTransportReady)
            /\ WF_vars(\E i \in DOMAIN client.curls : OnHeadersComplete(i) \/ OnEOM(i))
            /\ WF_vars(\E i \in DOMAIN client.curls : OnEgressResumed(i))
            /\ WF_vars(\E i \in DOMAIN client.curls : OnDestroy(i))
            /\ WF_vars(TimerFires)
            /\ WF_vars(MaxStreamsFrame)
-----------------------------------------------------------------------------
\* The variables have their types; in particular no batch exceeds the credit.
TypeOK == /\ flags \in Invocations
          /\ phase \in {"begin", "rejected", "aborted", "connecting", "failed",
                       "connected", "terminated", "undefined"}
          /\ client \in Client
          /\ session \in {"none", "open", "goaway", "gone"}
          /\ faults \subseteq Faults

\* At most one callback that sends is ever pending, and it finds a path to
\* send (sendRequests pops without looking) and, in sequential mode, the gap
\* it pops: the gaps of connectSuccess are exactly those that are used.
Pending == {i \in DOMAIN client.curls : /\ client.curls[i].txn = "open"
                                        /\ client.curls[i].eomFunc # "none"}
CallbackFindsWork ==
  LET left == Len(client.httpPaths)
      gaps == Len(client.requestGaps)
  IN  /\ Cardinality(Pending) + (IF client.timer = "none" THEN 0 ELSE 1) <= 1
      /\ Pending # {} \/ client.timer # "none" => left > 0
      /\ \A i \in Pending : client.curls[i].eomFunc = "sequential" => gaps = left
      /\ client.timer = "gap" => gaps = left - 1

\* Paths are requested in order and none twice; and until a server that goes
\* away refuses some, none is passed over.
SentOnceInOrder ==
  LET made == [i \in DOMAIN client.curls |-> client.curls[i].path]
      all  == made \o client.httpPaths
  IN  /\ \A i, j \in DOMAIN all : i < j => all[i] < all[j]
      /\ phase = "connected" /\ "goaway" \notin faults => Len(all) = Len(params.httpPaths)

\* drainSession is called once, with the last path and never before: a second
\* call on an idle H1QUpstreamSession would delete it again.  Only a client
\* that migrates and sends everything in its first batch does not drain.
DrainsOnceAtTheEnd ==
  /\ client.drains <= 1
  /\ client.drains = 1 => client.httpPaths = <<>>
  /\ phase = "connected" /\ client.httpPaths = <<>> /\ ~params.migrateClient =>
       client.drains = 1

\* The client keeps the promise of RequestQueue: in order, one at a time if it
\* is sequential, however credit, answers, timers and faults come, and drained
\* with the request for the last path.
Requests == [i \in DOMAIN client.curls |->
               [path |-> client.curls[i].path,
                is |-> IF client.curls[i].txn = "open" THEN "open" ELSE "over"]]
Queue == INSTANCE RequestQueue WITH
           job <- [paths |-> Len(params.httpPaths), sequential |-> params.sendRequestsSequentially,
                   migrates |-> params.migrateClient],
           stage <- IF phase \in {"connected", "undefined"} THEN "started" ELSE "idle",
           server <- IF "goaway" \in faults THEN "away" ELSE "there",
           left <- Len(client.httpPaths), requests <- Requests, drains <- client.drains
KeepsItsQueue == Queue!Spec

\* In parallel mode every path is requested in the end, however late the
\* credit comes, unless something goes wrong.
ParallelSendsAll ==
  phase = "connected" /\ ~params.sendRequestsSequentially
    ~> client.httpPaths = <<>> \/ faults # {}

\* However often and wherever egress is paused, also from within sendBody, a
\* request ends at most once, and only with the whole file sent.
EndsOnceWithTheFile ==
  \A i \in DOMAIN client.curls :
    LET c == client.curls[i]
    IN  c.egress # "twice" /\ (c.egress = "eom" => c.bodies = c.reads)

\* Every request that is sent ends or fails, also when the pause came with
\* the last block and nothing but the EOM is left for the resume.
Sending == {i \in DOMAIN client.curls :
              phase = "connected" /\ client.curls[i].egress = "headers"}
RequestEnds == <>[](Sending = {})

\* A saved response never goes to a file that was there before, nor two to
\* the same file, whatever names the paths share; and it is the response's
\* own chunks, in order, with nothing of a push between them unless the
\* server pushed one with it.
SavedResponses ==
  [][\A i \in DOMAIN client'.curls :
       LET c == client'.curls[i]
       IN  /\ c.file # Stdout => /\ i \notin DOMAIN client.curls => c.file \notin client.files
                                 /\ \A j \in DOMAIN client'.curls \ {i} :
                                      client'.curls[j].file # c.file
           /\ 1 .. c.chunks = {x \in Range(c.output) : x > 0}
           /\ \A k, l \in DOMAIN c.output : 0 < c.output[k] /\ k < l /\ 0 < c.output[l] =>
                c.output[k] < c.output[l]
           /\ c.push = "none" => PushesWritten(c) = 0]_vars

\* The client never sends on a session that deleted itself, unless the
\* connection was lost or the server went away.
SessionUsedWhileAlive ==
  phase = "undefined" => faults \cap {"connection", "goaway"} # {}
-----------------------------------------------------------------------------
(* What comments and flags say of the client.                                *)

\* HQClient.cpp:179-181: "That callback will keep scheduling itself until
\* there are no more requests."  While paths remain one callback is pending.
ChainKeepsItself == phase = "connected" /\ client.httpPaths # <<>> =>
                      Pending # {} \/ client.timer # "none"
=============================================================================
