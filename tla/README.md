# A verification of webtransport-sample

These modules model the programs of this repository in TLA+: TLC checks them
on small instances, and TLAPS proves theorems for every value of the constants:
about the Devious Baton protocol's parser, session and handler, the server's
other handlers, its threads and session controllers, its log files, the client,
and the Python server with the web page on it. File names below are
relative to `src/`.

Contents: 1 the system, 2 the modules and the code, 3 the runs, 4 the proofs,
5 what the models take for granted, 6 where code and comments disagree,
7 what is not modelled, 8 the plan.

## 1. The system

The repository holds three programs that speak WebTransport over HTTP/3:

* `cpp/src`: a server and a client on proxygen and mvfst (derived from
  proxygen's `hq` sample), with a handler for the *Devious Baton* protocol;
* `python/main.py`: a server on aioquic that answers every stream with the
  number of bytes it carried;
* `client/`: a web page that sends data to such a server and logs the replies.

| Component | Code | State it keeps | Operations | Talks to |
|---|---|---|---|---|
| Baton message parser | `DeviousBaton.cpp:160-277` | per stream: parser state, padding left, queued bytes | `onStreamData`, `onBatonMessageData`, `makeBatonMessage` | called by the handler's read loop; calls `onBatonMessage` |
| DeviousBaton session | `DeviousBaton.{h,cpp}` | mode, active/finished/reset batons | `onRequest`, `start`, `makeRequest`, `onBatonMessage`, `onBatonFinished`, `closeSession` | the WebTransport session (streams, datagrams, close), the peer's DeviousBaton |
| DeviousBatonHandler | `SampleHandler.{h,cpp}` | its transaction, its DeviousBaton, the map of streams, pending reads | `onHeadersComplete`, `onEOM`, `onWebTransportBidiStream`, `readHandler` | proxygen's callbacks; DeviousBaton |
| Dispatcher, Echo, Dummy, ServerPush, Test handlers | `SampleHandler.{h,cpp}` | transaction, what was sent on it; Test: streams being read | the callbacks of an HTTP transaction | proxygen |
| Command line | `HQCommandLine.{h,cpp}`, `HQParams.{h,cpp}`, `Main.cpp` | the flags, the parameters made of them | `initializeParamsFromCmdline`, `validate`, `main` | startServer, HQClient |
| FizzContext | `FizzContext.{h,cpp}` | none | the TLS contexts of QUIC and of HTTP/2 | HQServer, H2Server, HQClient |
| HQClient | `HQClient.{h,cpp}` | paths and gaps still to use, CurlClients, session pointer | `onTransportReady`, `connectSuccess`, `sendRequests`, EOM callbacks, timers | CurlClient's EOM function, the event loop, the session |
| H1QUpstreamSession | `H1QUpstreamSession.h` | its sessions, draining | `newTransaction`, `onDestroy`, `drain`, connection's end | HQClient |
| CurlClient | `CurlClient.{h,cpp}` | file being sent, pause, output file, push handlers, EOM function | `sendRequest`, `sendBodyFromFile`, egress callbacks, `saveResponseToFile`, `onHeadersComplete`, `onBody`, `onPushedTransaction`, `onEOM`, `onError` | its transaction, those pushed with it, HQClient |
| HQServer, HQSessionController | `HQServer.{h,cpp}` | session count, session pointer | `onQuicTransportReady`, `attachSession`, `detachSession`, `onTransportReady` | one controller per connection, shared by its sessions |
| H1QDownstreamSession | `H1QDownstreamSession.h` | its place at the controller | a session per bidirectional stream; connection's end | the controller |
| startServer, H2Server | `HQServerModule.cpp`, `H2Server.cpp` | two threads | start, join, stop; SIGINT | HQServer |
| CounterServer | `python/main.py` | per connection: handler, byte counter per stream | CONNECT, data, FIN, reset | aioquic's events |
| Web client | `client/client.js` | `currentTransport`, `streamNumber`, two buttons | `connect()`, `sendData()`, accepting and reading loops | the server, over one connection per WebTransport object |
| ConnIdLogSink | `ConnIdLogger.h` | a file per connection id | `send`, `closeOldFds` | glog, the file system |

**What is hard about them.**

* *Reordering of bytes and streams.* A message is cut into chunks anywhere;
  the chunks of several streams interleave on one tally of batons.
* *Callbacks that must be re-armed by hand.* A read delivers one chunk and
  has to be requested again; a client's further requests all hang on the EOM
  function of one earlier request.
* *Credit.* Streams can be opened only within the peer's credit, which is
  tested at one moment and used at another.
* *Lifetimes.* Sessions, controllers and clients delete themselves when a
  count reaches zero; timers and callbacks hold pointers to them.
* *Endings.* A response, a request or a session may be ended from several
  places (a refusal, the peer's EOM, a close, a failed push).
* *Awaits.* `connect()` and `sendData()` share globals over their awaits.
* *Names that outlive things.* A descriptor's number, a file's name or a
  session's pointer may mean something else, or nothing, when it is used.
* *Failure.* Resets, lost connections, servers that go away, a signal, files
  that are missing, a clock that is set back.

**What makes each correct.** The parser: its verdict depends on the bytes and
not on the chunks, and it does not queue padding. A session: no baton is lost
or counted twice, and it closes without an error exactly when the last one is
back. A handler: the response ends once, whatever comes first. HQClient: every
path is requested once, in order, and the session is drained once, with the
last; the session is alive when it is used. CurlClient: one EOM, after the
whole file; a saved response overwrites nothing and is whole. The log: a message
reaches the file of every id it names. The two servers: HTTP/2's certificate is the
default of HTTP/3, which alone has a second one. A controller: it lives exactly
as long as a session points to it. CounterServer: a reply counts all bytes of
its own stream, and the dictionary does not grow. The page: stream numbers are
unique, and every send is answered and read.

## 2. The modules and the code

```
BatonMessage            message, parser of one call            DeviousBaton.cpp
  |                                         <- proofs: BatonMessageProofs
  +- BatonStream        one stream in chunks      <- proofs: StreamAndGameProofs
  +- BatonRules         decisions without state
       +- BatonSession  abstract: what a session promises
       +- DeviousBaton  one endpoint, streams, credit
       |    +- DeviousBatonHandler  the server's handler: implements
       |                            DeviousBaton and BatonSession
       |                            <- proofs of both: DeviousBatonProofs
       +- BatonGame     two endpoints against each other: each implements
                        BatonSession           <- proofs: StreamAndGameProofs
CommandLine             flags, parameters, certificates
  +- HQServer           main, startServer, controllers, sessions
  |                                               <- proofs: HQServerProofs
  +- HQClient           main, client, its session, its CurlClients
  |                                               <- proofs: HQClientProofs
CurlClient              one request and its response
  +- HQClient
RequestQueue            abstract: what the client promises who starts it
  +- HQClient           implements it
ConnectionLogs          abstract: what a log sink promises
  +- ConnIdLogger       implements it             <- proofs: ConnIdLoggerProofs
ByteCounter             abstract: what the Python server promises
CounterServer           python/main.py: implements it
  +- WebClient          client/client.js on top of it
                                    <- proofs of both: WebClientProofs
RequestHandlers         Dispatcher and the other handlers
                                               <- proofs: RequestHandlersProofs
```

`MC*` modules only give constants their values. `PROJECT.json` maps every
definition to its lines.

**BatonMessage, BatonStream.** A *wire* is what a peer writes on a stream
before its FIN: the width of the length field, the padding announced, the
byte at the baton's place and the number of bytes that really come (too few
or too many for one message included). The state of the parser is
`BatonMessageState`; the queue is the interval `head .. tail-1` of the wire,
so "cursor", "consumed" and "trim" mean what they mean in the code. `Parse` is
the switch of `onBatonMessageData`, one operator per case, each applied to the
result of the one before since the cases fall through; `underflow` stands for
the `break`s. `BatonStream.Read` is `readHandler` with `onStreamData`: a
chunk, the parse, the relay or the refusal, and the next read unless it was
the FIN. `ReadError` is the exception branch.

**BatonRules.** `WhoFinished` (the value of `onBatonMessage`; `baton + 1` is an
`int` there, and a byte in `makeBatonMessage`), `onBatonFinished` with the
closing code, `ArrivedOn` (the bits of a stream's id), `RequestStatus`,
`StartingBatons`.

**DeviousBaton.** One end of a session, in either mode, with the credit of its
transport and whatever the peer does: it opens streams of either kind and
writes any of `Wires` on them, cut into any chunks and mixed between streams.
`start` sends as many batons as there is credit for and, if that is too few,
closes the session and terminates the process (`phase = "crashed"`), as the
code does. `onBatonMessage` has one disjunct per way to answer. The reads that
are pending are the set `awaiting`: the code re-arms them one at a time.
`written` remembers for every message the stream whose baton it answers.

**DeviousBatonHandler.** Adds the response: `onHeadersComplete` (400, 404, 500
or 200), `onEOM`, the transaction pointer it drops after a refusal. The history
variable `accepted` remembers the request, so that `StartsAsRequested` can compare
the batons on the wire with those asked for, number and values (`Asked` is
written from the query parameters, not from `StartingBatons`). Its
properties `DrivesDeviousBaton == Spec` and `KeepsSessionPromise ==
Session!Spec` say that it implements both specifications. The refinement
mapping is `stage <- phase, live <- tally.active, verdicts <- closes`.

**BatonGame.** Two `DeviousBaton`s, whole messages in any order, enough
credit: the chunks are dealt with in BatonStream and DeviousBaton. The
client's host is not in the repository (there is only the class in CLIENT
mode); it is taken to read every stream. `codes` are the codes an end closed its
session with: a game asked for with `count=0` and a baton plays one baton that
neither end expects, and the end it comes back to takes it for a fault.
`EndsKeepPromise` says that each end implements BatonSession, under the mapping
`live <- tally[m].active, verdicts <- codes[m]`, with "idle" before `Connect` and
"playing" after it as the stage.

**CommandLine.** Operators without state. A command line is a record of the
flags that decide something, each with as many values as the code tells apart.
`Aborts` collects what ends the process while the flags are still being read
(a CHECK, an exception that nobody catches, `baseParams()` of a mode that was
not set), `validate` what is reported and refused, `ClientParams` what
`initializeHttpClientSettings` makes of the rest. `FizzPair` and `SslPair` are
the two ways in which the pair of `--cert` and `--key` is read;
`FizzCertificates` are all that QUIC has to choose from: that pair as the default
and the built-in `kPrime256v1`, which HTTP/2 does not have.

**CurlClient.** A record per request and the operators that change it. The
transaction may pause at any call of `sendBody`, that with the last block
included, so that `sendBodyFromFile` has a set of results. `file` is the name
`saveResponseToFile` finds (the first that is free), `output` what `onBody` and
a push handler's `onBody` write to it, in order.

**HQClient.** `flags` is the command line; `Main` judges it. `client` has the
fields of the class. Each callback is one action that makes all its calls:
`onTransportReady` with `connectSuccess` and the first `sendRequests`; `onEOM`
with the EOM function of that CurlClient (`callSendRequestsAfterADelay` or
`selfSchedulingRequestRunner`); `TimerFires`. `session` is "goaway" when the
server refuses new requests and "gone" when the session has deleted itself; a
timer that uses a session that is gone leads to phase "undefined".
`KeepsItsQueue == Queue!Spec` says that it implements RequestQueue, which knows
no credit, callback, gap or timer: `stage` is "started" from the first batch on,
`left` the length of `httpPaths`, a request is open as long as its `txn` is, and the
server is "away" from its GOAWAY on, when it may take requests without a stream.
It stands for `SentOnceInOrder` and `DrainsOnceAtTheEnd`, which are proved and, as
consequences, not run; likewise `CountsForItsClients` for `CountsAreRight`.

**HQServer.** `InitializeParams` judges the command line; then the main thread
and the HTTP/2 thread go step by step, each failing if its certificate does not
load, with a SIGINT at any time; and per connection the controller with its
count. On h1q the connection's session holds a place at the controller and every
stream's session another.

**ConnectionLogs, ConnIdLogger.** `fdMap` is the map of the sink, `files` the
kernel's table of descriptors: a write goes to whatever file the number names
then. One turn of `send`'s loop (look up or open, close what is old, write) is
one action, as glog calls `send` under a lock; `Clock` may set the time to
anything between two of them. `LogsAreComplete == Abstract!Spec` says that this
implements ConnectionLogs, where a log is just a sequence of messages.

**CounterServer, WebClient.** `conn[c]` is a connection with the state of its
`WebTransportProtocol` and `CounterHandler` (`counters` is the `defaultdict`),
the streams its client wrote and the replies. CounterServer has any other
client, which writes, resets and requests at any time, early data included.
`CountsForItsClients == Counter!Spec` says that it implements ByteCounter, where a
connection is just a session or none, the bytes heard and the end of each stream,
and the answers. The mapping (`Book`, by `Entry`) is `session <- handler`,
`answered <- replies`, `heard <-` what was read less what no handler saw
(`Heard`), `ending <-` the end once it was reported (`HowEnded`). ByteCounter has no counters:
that a finished stream is answered in the very step that hears its end, with the
total, is what the dictionary is for.
WebClient has the page: a record per call of `connect()` and `sendData()` that
says which await it is in, the globals, and the readers. A step runs from one
await to the next, as JavaScript does.

**RequestHandlers.** One request for any path but the game's. `egress` is what
was sent on its transaction, in order, and `pushed` what was sent on each push's.
A promise is HEADERS on the response's own transaction, as `sendPushPromise` calls
`sendHeaders` there (`SampleHandler.cpp:319`): a `/push` response has HEADERS for
each push and then its own. Pushes may fail after any number of
them; the streams of a `/test` session are `wt.streams`.

## 3. The runs

Every invariant and property has a mutant: a definition with a plausible bug,
under which TLC finds the property violated. "Mutant" in the modules' comments
marks those definitions; nothing else uses them.

| Run | Module | What it shows | States | Bounds and why they suffice |
|---|---|---|---|---|
| `stream` | MCBatonStream | The parser's state is a function of the bytes received; padding is not queued; the verdict at the FIN is right; nothing is relayed after a refusal. | 3,032 | length fields of 1, 2, 4 bytes, padding 0-3, up to two bytes too many: every case of the switch is entered, resumed and skipped, and every kind of malformed stream occurs. The theorems lift the bounds. |
| `endpoint` | MCDeviousBaton | Batons are conserved, the clean close comes with the last one and once, each baton is answered once on the right stream, streams are written once, reads stay pending. | 474,676 | both modes; 0, 1 or 2 streams of credit; two streams per kind, so two chunk sequences interleave; batons 0, 7, 255 are the three cases of `onBatonMessage`; a truncated and an overlong wire. |
| `handler` | MCDeviousBatonHandler | The response ends once, a session starts with the batons asked for, in number and value, and the handler implements DeviousBaton and BatonSession. | 216,040 | every method, path, version, count and baton on both sides of each check (10/11, 0, 256, not a number); credit for no stream, for fewer than asked and for all. |
| `short_credit` (violated) | MCDeviousBatonHandler | Section 6, 1. | | |
| `game` | MCBatonGame | Stream ids never clash, batons are in flight or taken back, how each baton ends and what each end closes with; each end implements BatonSession; the default game is closed (liveness). | 965 | starting batons 1 and 252-255 cover the wrap-around from every distance; up to three at once; a count of 0 with a baton and without. The game ends by itself: no deadlock check. |
| `client_requests` | MCHQClient | One pending callback at most, with work to do; HQClient implements RequestQueue: paths in order and once, one at a time if sequential, one drain, with the last; no use of a session that is gone; a parallel client sends everything (liveness); one EOM with the whole file, and every request ends (liveness); saved responses. | 237,805 | one to four paths: first, middle and last request of a chain; credit 0-3; all modes; gaps of fitting and unfitting number; bodies of up to three reads, which the loop only repeats; two names tried, two chunks, one push: a name that is taken, none left, chunks of both mixed; one command line per way to be refused. |
| `sequential_chain` (violated) | MCHQClient | Section 6, 2. | | |
| `server_sessions` | MCHQServer | A controller lives as long as its sessions and counts them; it goes in the end (liveness); HTTP/2's certificate is HTTP/3's default; the QUIC server is stopped only if SIGINT was ignored. | 40,504 | two connections of either protocol, two streams each: sessions end in every order, before and after the connection; every pair of certificate files. |
| `knob` (violated) | MCHQServer | Section 6, 3. | | |
| `page` | MCWebClient | One session per connection, counters only for open streams, unique numbers, the page learns its lengths, the server implements ByteCounter (so its counts are right), every send is answered (liveness). | 350,248 | two transports of one page (two clicks on Connect), or another client with two requests; two streams, two bytes: a stream arrives whole, in two chunks or with an empty FIN. |
| `log_files` | MCConnIdLogger | Descriptors are those of the map and each of its own log; no log stays open that was idle for over a minute when another was written to; ConnIdLogger implements ConnectionLogs. | 735,036 | three ids and three descriptors; an age of 1 and a clock of 0-3 that goes anywhere: younger, as old and older than the limit; four messages of one id, two, none, or words. |
| `requests` | MCRequestHandlers | A response is legal (HEADERS first, once per push and once more) and ends once, and what may end the process; what `/test` echoes. | 35,826 | every handler and method; two bodies; up to two pushes; two streams of up to two bytes, with and without credit. |

Deadlock is not checked in any run: every program here may stop (a game that
is over, a request that was answered, a server that exited), and the bounds on
streams and requests stop the rest.

**Fairness.**

* BatonGame: `WF` of a delivery. QUIC delivers what was written on a
  connection that lives; the game has no failures.
* HQClient: weak fairness of `main`, the transport becoming ready, the server's
  answers (headers and end), resumed egress (flow control opens in the end), the
  destruction of ended transactions, the timers (the event loop runs them) and
  the peer's `MAX_STREAMS` for closed streams. Not of bodies, pushes or faults.
  `ParallelSendsAll` excuses only runs in which something went wrong, and
  `RequestEnds` none.
* HQServer: a stream's session whose connection has ended ends
  (proxygen closes it with the transport's stream).
* WebClient: the server's loop handles events that arrived, the page's loops
  take what was delivered. Not the user's clicks, nor `write` and `close`.

## 4. The proofs

Each proof module states the inductive invariant of its component, shows that
the initial states have it and that each action keeps it (a lemma per action,
named after it), and derives the run's properties from it. TLC checked every
invariant on the instance of the component's run before it was proved.

**The parser.** `BatonMessageProofs` proves what one call of the parser does,
with no assumption but that its arguments are a wire, a state of the parser and
a number of bytes. `MessagesRoundTrip` says that what `makeBatonMessage` writes
for any padding and any baton is accepted whole, and with that baton, by a fresh
parser.

`StreamAndGameProofs` proves about `BatonStream`, for every set `Wires` of wires
(any padding, any size) and every way to cut them, assuming only
`WiresAssumption` (`Wires \subseteq Wire`):

| Theorem | Statement |
|---|---|
| `StreamInvariant` | `Spec => []StreamInv` |
| `TypeCorrect` | `Spec => []TypeOK`: among others, `paddingRemaining` never goes below 0, where the code's `uint64_t` would wrap |
| `ParserIsChunkIndependent` | `Spec => []ParserFollowsBytes` |
| `BufferIsBounded` | `Spec => []PaddingIsNotBuffered` |
| `VerdictIsRight` | `Spec => [](VerdictAtFin /\ RelaysTheBatonOnce)` |
| `RefusalIsFinal` | `Spec => NoRelayAfterRefusal` |

The argument. The properties are not inductive: `ParserFollowsBytes` says
nothing about the queue (`head`, `tail`), and after a refusal the queue is not
trimmed, so the parser's state could not be resumed. The strengthening
`StreamInv` adds: while a read is pending and the message is not complete, the
state is `Resumable` (the queue starts where the state says it should); the
session was closed if and only if what was received is `Refused` (more than a
message, or a FIN short of one); a complete and unrefused message was relayed.
`DoneStep`, `ParseStep` and `ReadErrorStep` show that each action preserves
`StreamInv`. Both this proof and the next rest on the lemma
`onBatonMessageDataCorrect` of BatonMessageProofs: from a resumable state one
call consumes any number of bytes and arrives where the count of bytes says. It
is put together from a lemma per case of the switch (`PadLenCaseStands`,
`PadCaseStands`, `BatonCaseStands`), as the cases fall through.

**A session and its handler.** `DeviousBatonProofs` proves about `DeviousBaton`,
for any set of ends (either mode, any credit, both kinds of host), of requests
and of wires and any `MaxStreams`, from the four assumptions of that module; and
about `DeviousBatonHandler`, which assumes nothing more.

| Theorem | Statement |
|---|---|
| `SessionInvariant` | `Spec => []SessionInv` |
| `SessionTypes` | `Spec => []TypeOK` |
| `Conservation` | `Spec => []BatonsAreConserved` |
| `CleanClose` | `Spec => []CleanCloseMeansAllReturned` |
| `LegalWrites` | `Spec => []WritesAreLegal` |
| `PendingReads` | `Spec => []ReadsArePending` |
| `AnsweredOnce` | `Spec => []BatonsAreAnswered` |
| `OneEndOfResponse` | `HandlerSpec => []ResponseEndsOnce` |
| `StartsRight` | `HandlerSpec => []StartsAsRequested` |
| `HandlerImplementsDeviousBaton` | `HandlerSpec => DrivesDeviousBaton` |
| `SessionKeepsItsPromise` | `HandlerSpec => KeepsSessionPromise` |

The argument. `SessionInv` has a part per concern. `ParserInv` makes every
stream whose message is incomplete `Resumable`, so that the parser's lemma
applies to each read. `OpenedInv` keeps the streams of both ends apart: what
arrives on a stream this end opened arrives after it was opened. `ReadsInv` is
`ReadsArePending` also before and after the game. `WritesInv` restates
`BatonsAreAnswered` stream by stream (`IsAnswer(out, id)`: `out` carries the
answer to `id`), so that a write disturbs one stream; the theorem counts again.
`TallyInv` is the two properties of the tally, which are inductive only together
and only with "no reset was ever counted". What a read does falls into four
cases, each with its lemma: it brings no baton (`NoBatonStep`), a zero
(`TakeBackStep`), a baton for which there is no credit (`NoCreditStep`), or one
that is answered on the same stream or on a new one (`ReplyOnSameStep`,
`ReplyOnNewStep`). `FinishKeepsTally` is where a returned baton leaves the set of
those in flight, and with it the set's cardinality goes down by one.

The handler's `HandlerInv` adds how the response relates to the phase and that
which batons were started: those of a request that was accepted, in their places,
as many as it asked for unless the credit ran out and the process ended
(`StartedInv`; `StartingBatonsAreAsked` is its lemma about `StartingBatons`).
Under it every step is one of `DeviousBaton` or leaves its variables alone
(`HandlerSteps`). For BatonSession each abstract action has a lemma
(`FaultRefines`, `FinishRefines`, `AcceptRefines`, `PlayRefines`).

**The game.** `StreamAndGameProofs` also proves about `BatonGame`, for every set of
requests, assuming only `RequestsAssumption` (they are requests: any method, path,
version, count and baton):

| Theorem | Statement |
|---|---|
| `GameInvariant` | `GameSpec => []GameInv` |
| `StreamsNeverClash` | `GameSpec => []StreamsDoNotClash` |
| `BatonsStayInPlay` | `GameSpec => []BatonsInPlay` |
| `GamesEndAsTheyStart` | `GameSpec => []HowItEnds` |
| `EndsImplementBatonSession` | `GameSpec => EndsKeepPromise` |

The argument. None of the three invariants is inductive. A message says only
which baton it carries and on which stream; what it will become depends on how
far it has come, and the one thing that tells is the stream. `Hops` reads that
off it (0 to 3) and `Origin` the baton that the server started with.
`StreamsInv` says of every message in flight that it carries its origin and as
many more as it made hops, that its stream was opened, by the server exactly if
it made none, and was not read: since an end opens its next stream above all
opened ones (`NextIsNew`), an answer on a new stream cannot clash, and one on the
same stream cannot since the server reads a bidirectional one before the client
does. `OriginsInv` counts batons per origin, which is stronger than `BatonsInPlay`
and what `HowItEnds` needs: when only messages are left that the server does not
read, those of origin 255 and 254 must all have been taken back, by the only end
to which they can come. `CodesInv` has two cases, a game whose batons both ends
expect and the game of one baton that neither does. A delivery either takes a
baton back (`TakeBackStep`) or answers it (`AnswerStep`, from `ReplyFacts`, which
goes through the three ways to answer). For BatonSession, `PlaysOn` lists what a
step may be to one end, and `StepPlays` shows that every step is one of these for
both.

**The other handlers.** `RequestHandlersProofs` proves about `RequestHandlers`,
for every set of requests and all bounds, assuming `RequestsAssumption` and
`BoundsAssumption`:

| Theorem | Statement |
|---|---|
| `HandlersInvariant` | `Spec => []HandlersInv` |
| `HandlersTypes` | `Spec => []TypeOK` |
| `ResponsesAreLegal` | `Spec => []ResponseIsLegal` |
| `TestHandlerAnswers` | `Spec => []TestAnswersAtFin` |

The argument. `ResponseIsLegal` says nothing of what is still to be sent: that an
EOM may be sent now needs that none was. `EgressInv` adds, per handler, what it
has sent before and after the request ended, over `Legal(s, k)`: `s` begins with `k`
HEADERS and has no more, and nothing but an abort follows its EOM.
`AppendLegal` says when an event may be appended. For
`/test`, `StreamsInv` adds that a stream under way had a chunk exactly if
something of it was read: an empty FIN after all the bytes is a second chunk.

**The Python server and the page.** `WebClientProofs` proves about `WebClient`,
which contains `CounterServer`, for every set of clients (so for any number of
connections, of pages and of other clients), any `MaxStreams`, `MaxBytes`,
`MaxRequests` and `MaxSends`, assuming `ClientsAssumption`, `BoundsAssumption` and
`MaxSendsAssumption`:

| Theorem | Statement |
|---|---|
| `PageInvariant` | `Spec => []PageInv` |
| `PageTypesHold` | `Spec => []TypeOK` |
| `CountsHold` | `Spec => []CountsAreRight` |
| `CountersHold` | `Spec => []CountersAreForOpenStreams` |
| `OneSessionHolds` | `Spec => []OneSession` |
| `NumbersHold` | `Spec => []NumbersAreUnique` |
| `LengthsHold` | `Spec => []PageLearnsItsLengths` |
| `ServerImplementsByteCounter` | `Spec => CountsForItsClients`: CounterServer implements ByteCounter |

The argument. `ConnOK` is the invariant of one connection: counters are for
streams under way and equal what was read less what was missed; a reply's stream
is done, at its FIN, and counted in full; a request was accepted at most once. A
lemma per event of the server (`DataStep`, `ResetStep`, `RequestStep`, `EndStep`)
and of its client (`OpenStep`, `WriteStep`) keeps `ConnOK`. The page's part is
what holds across its awaits: a send that is between two awaits has a stream of
its own, open and, before the write, empty (`SendsInv`), so two overlapping calls
never write the same one; no transport is ready before its server has a handler
(`ConnectInv`), so nothing the page sends is missed, which is what
`PageLearnsItsLengths` needs; and the numbers given out are below the counter
(`ReadersInv`). `RankIsUnique` shows that a reader of the server's n-th stream
reads one reply.

For the refinement the same lemmas conclude more: the step of the connection,
from `k` to `l`, is one of ByteCounter (`Counts(k, l)`: a session is accepted, or
one stream hears n bytes and may be finished, or ends unanswered, and no other
stream looks different). `CountsOn` says so of the connection that moved, and
`CountsRefines` turns it into a step of the abstract book. It needs the invariant:
that a stream under way is counted in full makes the count in the reply the bytes
heard, and that done streams stay done makes an answer the only one.

**The server's threads and controllers.** `HQServerProofs` proves about `HQServer`, for every set `Connections`, every
`MaxStreams` and every set of command lines, assuming only
`MaxStreamsAssumption` (`MaxStreams \in Nat`) and `InvocationsAssumption` (the
command lines are records of flags, none for a client):

| Theorem | Statement |
|---|---|
| `ServerInvariant` | `Spec => []ServerInv` |
| `ServerTypes` | `Spec => []TypeOK`: `sessionCount`, a `uint64_t`, never wraps |
| `ControllersLiveLongEnough` | `Spec => []ControllerServesItsSessions` |
| `ThreadsInvariant` | `Spec => []ThreadsInv` |
| `DefaultCertificatesAgree` | `Spec => []DefaultCertificateIsShared` |
| `StopNeedsIgnoredSignal` | `Spec => []StopsOnlyIfSignalIgnored` |

The argument. Connections do not touch each other, so `ServerInv` is `TypeOK`
and `ConnectionInv` of every connection. `ControllerServesItsSessions` alone is
not inductive: nothing in it says that a connection is set up once (the count
must start from 0) or that its container is discarded once. `ConnectionInv` adds
that the container exists exactly while the transport is ready and that nobody
is counted before. There is a lemma for each thing that happens to a connection
(`ReadyKeeps`, `StreamKeeps`, `SessionEndKeeps`, `ConnectionEndKeeps`; the last
two rest on `DetachCounts`, which is about `detachSession`), and `OneConnection`
carries them over to a step of the server.

`ThreadsInv` is what the main thread and the HTTP/2 thread know of each other:
the main thread is past the start only if the QUIC certificate loaded, the
HTTP/2 thread serves only if its own did, and it has ended in a process that is
still up only if SIGINT was ignored. The lemma `PairsAgree` is the heart of
`DefaultCertificatesAgree`: two ways of reading two files that both load load the same.

**The client.** `HQClientProofs` proves about `HQClient`, for every set of
command lines (any number of paths, any gaps, files of any size), any credit, any
files that exist, any number of names tried, and any faults, assuming
`InvocationsAssumption`, `ExistingAssumption`, `MaxStreamsAssumption`,
`FaultsAssumption` and `CurlBoundsAssumption`:

| Theorem | Statement |
|---|---|
| `ClientInvariant` | `Spec => []ClientInv` |
| `ClientTypes` | `Spec => []TypeOK`: in particular no batch takes more than the credit |
| `CallbackHasWork` | `Spec => []CallbackFindsWork` |
| `ClientKeepsItsQueue` | `Spec => KeepsItsQueue`: HQClient implements RequestQueue |
| `SentInOrder` | `Spec => []SentOnceInOrder` |
| `DrainsOnce` | `Spec => []DrainsOnceAtTheEnd` |
| `EndsOnce` | `Spec => []EndsOnceWithTheFile` |
| `SessionUsed` | `Spec => []SessionUsedWhileAlive` |
| `ResponsesAreSaved` | `Spec => SavedResponses` |

The argument. `ClientOK` is the invariant of a connected client, in parts:
`QueueOK` (the queue holds the last paths, so its length says which come next),
`RequestsOK` (requests are for paths before those, rising), `FilesOK` (a saved
response's file exists and is its own), `PendingOK` and `TimerOK` (who has the one
callback, and that the gaps left are those between the paths left), `ModeOK`
(which callbacks a mode has, and that in sequential mode nothing but the last
request is open: without it a second response could end while the timer runs),
`DrainOK`. `CurlOK` is that of one request: no second EOM because `bodies` reaches
`reads` exactly when the EOM is sent, and an output whose chunks count up
(`OutputOK`). A callback that only concerns a request is covered by
`ContinuesKeeps`. What sends is taken apart along the calls: one request
(`RefusedSends`, `AddedSends`), a batch (`BatchSends`, an induction over the number
of requests that `BatchExists` and `SetInduction` make possible without a
RECURSIVE operator), `SendRequestsSends` with the drain and the next callback,
then the callbacks (`GapIsOver`, `RunnerFollows`, `DelayFollows`) and the first
batch (`ConnectFollows`). `SessionUsedWhileAlive` needs all of it: a timer means
that a path is left, so the session is not drained, so it is gone only by a fault.

For the refinement the same lemmas conclude what a step does to the queue. A batch
asks for the next paths (`Asked`: as many new requests as paths left the queue, each
for the path at its place, or none of them if the server goes away), which `AskedOn`
composes over the batch, and the EOM function that is set afterwards makes no
difference to it (`GoesTo`). So a step of a connected client (`StepOK`) is two: first
requests go on, and some of them end (`Continues`), then more are sent or not
(`Goes`). `StepMakes` reads that as sequences of requests, and `StepQueue` as a step of
RequestQueue. That a sequential client makes one request at a time needs the
invariant: its callback comes from the last request, and none before that is open
(`ModeOK`), or from a timer, and then none is (`TimerOK`). That the drain comes with
the last path and is the only one needs `DrainOK`.

**The log files.** `ConnIdLoggerProofs` proves about `ConnIdLogger`, for every set of ids, messages
and descriptors, any clock and any age, assuming `ClosedAssumption` and
`TimeAssumption`:

| Theorem | Statement |
|---|---|
| `LogInvariant` | `Spec => []LogInv` |
| `DescriptorsStayOwn` | `Spec => []DescriptorsAreOwn` |
| `IdleLogsClosed` | `Spec => []IdleLogsAreClosed` |
| `LogsImplemented` | `Spec => LogsAreComplete`: ConnIdLogger implements ConnectionLogs |

The argument. The descriptor that `send` found is written to after old entries
were erased, so the step of the refinement needs that its own entry was not:
it was used at `now`, and `now > now + kMaxAge` is false however the clock moved.
Then the file written to is the id's own, by `DescriptorsAreOwn`, which is
inductive together with the types: an erased entry's descriptor is closed and
no other entry has its number. `IdleLogsAreClosed` compares logs by the order of
their last messages, and `last` by a clock that may have gone back: `OrderInv`
adds that an open log is not empty and no message is later than the last one sent.
Then the log written to is no older than any, and of what stays open besides it
nothing is older than `now - kMaxAge` (`LogKeepsOrder`).

Every invariant, every action property and every refinement that a passing run
checks is proved. Out of the prover's reach and left to TLC are the liveness
properties (`DefaultGameEnds`, `ParallelSendsAll`, `RequestEnds`,
`ControllersGo`, `EverySendIsAnswered`). The three properties that a run finds
violated (section 6) are of course not proved.

## 5. What the models take for granted

* folly's `Cursor::isAtEnd` on a queue whose last bytes were read is true.
* A client opens WebTransport streams after it has seen the 200 (the page
  awaits `ready`); streams and datagrams are delivered only while the CONNECT
  stream is open. For the Python server early data is modelled: there the
  code has a branch for it.
* `closeSession` does not stop reads that are pending: they may still deliver.
* The credit for streams grows when the peer likes.
* Query parameters are a map: each has one value or none.
* proxygen delivers no pause or resume after the egress EOM (`Resumable`): what
  `CurlClient.cpp:342` would do with one is not examined.
* `getNumOpenable...` of a lost connection may be anything it was or 0; the use
  of a session that has deleted itself is undefined, and kept as such.
* An empty host does not resolve, as an unknown one.
* glog calls a sink's `send` for one message at a time. The kernel gives a new
  file any number that is not in use.
* Only this process makes files in `--outdir` while it runs: between `stat` and
  the opening of the file nobody else takes the name.
* proxygen's HTTPServer restores the disposition of SIGINT that it found.
* Which of its two certificates QUIC presents is Fizz's choice: the models say only
  which ones there are.
* The writes to a log file succeed: `ConnIdLogger.h:95-96` looks at neither
  result. An exception that leaves `send` costs the message and no more (whether
  the process survives one is for glog's version to say).
* The page's browser supports datagrams: the early return of
  `client.js:38-41`, after which the page reads no streams and does not enable
  sending, is left out.
* A bidirectional push stream may come without a WebTransport.
* aioquic reports `ProtocolNegotiated` first and each stream's events in order.
* A browser makes a connection per WebTransport object, creates streams in the
  order of the calls and runs a function undisturbed up to its next `await`.

## 6. Where code and comments disagree

Three runs are expected to be violated:

1. `short_credit`: `DeviousBaton::start` closes the session with `DA_YAMN` for
   want of credit (`DeviousBaton.cpp:103-104`) and then takes the value of the
   failed result (`:106`), which throws through a `noexcept` callback: the
   process ends. `DeviousBaton.h:12` calls `DA_YAMN` a code the session is
   closed with.
2. `sequential_chain`: a sequential client continues only if a stream can be
   opened at the very moment its callback runs (`HQClient.cpp:200, 211`);
   without credit then, the rest is never sent and the session not drained.
   `HQClient.cpp:179-181` promises that the callback "will keep scheduling
   itself until there are no more requests".
3. `knob`: the controller's session pointer is never assigned
   (`HQServer.cpp:93`), so with `--send_knob_frame` the first h3 connection
   dereferences null. `HQCommandLine.cpp:83-86` says that a frame is sent.

Noted while modelling, with no run of their own; the models have what the code
does:

* `GAME_OVER` is never sent. `DeviousBaton.h:14` describes it for a session
  whose streams were all reset, but `SampleHandler.cpp:199` only logs a reset;
  BatonSession, which the handler implements, has no such verdict.
* A zero that comes back when no baton is active closes with `BRUH`, though the
  message is well-formed (a peer may do so with `count=0` and a baton; `game` includes it, and
  `HowItEnds` says so).
* The comment at `HQServer.cpp:67` says that `detachSession` destroys the
  controller; on h1q only the last of several calls does.
* The signal that `H2Server.cpp:76-77` raises again is handled by nobody in the
  process: with the default disposition it ends it before the QUIC server
  is stopped.
* `--migrate_client` never switches in parallel mode (`HQClient.cpp:191`).
* `sendPushPromise` is called with the new push's transaction, under the comment
  "Send a promise for the pushed resource" (`SampleHandler.cpp:284-285`), and does
  not use it: it sends the promise's headers on the request's own (`:319`).
  The push has none, though `CurlClient.cpp:381-385` waits for them there, and the
  response begins with a request's headers. `requests` counts them
  (`ResponseIsLegal`).
* The two stacks read the same files, but only QUIC adds a second certificate
  (`FizzContext.cpp:155-157`), also when the flags name one: a client whose
  signature schemes fit that one sees another certificate over HTTP/3 than over
  HTTP/2. No comment says that they are alike.
* `/test` writes back only the chunk that came with the FIN.
* A second CONNECT for `/counter` on one connection fails an assertion and is
  not answered (`main.py:183`). What a stream brings before the CONNECT is
  dropped (`main.py:170`) and missing from its count.

* `--mode` other than the two ends the process in `baseParams()`
  (`HQCommandLine.h:79`), so that "only client/server are supported"
  (`HQCommandLine.cpp:490`) is never said; an empty `--host` throws before
  "HQClient expected --host" (`:499`) is; and `--httpversion` with one character
  that is no digit throws outside of the `try` (`HQParams.cpp:10`).
* `--threads` is described as "QUIC Server threads" (`HQCommandLine.cpp:13`) and
  sets only `httpServerThreads`; `--rate_limit` sets the secret of retry tokens
  and not `rateLimitPerThread`, which `HQServer.cpp:166` reads.
* `--log_response` says whether the response is logged "to stderr"
  (`HQCommandLine.cpp:35`). Its output goes to standard output, or to the file
  of `--outdir`, which `--log_response=false` leaves empty.
* An unknown `--client_auth_mode` is ignored.
* `ConnIdLogger.h:110` speaks of files open for more than a minute; they are
  those not used for a minute. By `ConnIdLogger.h:34-35` an id may be followed by
  a comma or a space, but with a space the piece is not alphanumeric and the
  message is not logged. An empty piece is logged, as the id "".

## 7. What is not modelled

* Flags that only configure the QUIC library (windows, pacing, versions, key
  updates, ECN, batching), and the other settings of the TLS contexts (ciphers,
  tickets, replay): copied once, read by libraries.
* `HQLoggerHelper` and the verifier that accepts everything: no state that
  anything else reads.
* What `CurlClient` has for uses outside of `HQClient` (its own `connectSuccess`,
  `initializeSsl`, flow control), which nothing calls.
* Datagrams: a datagram is echoed or logged, and no state depends on one
  (DeviousBaton's echo of a baton is kept, as `datagrams`).
* `connect_quic.py`, `client/server.py`: straight-line use of libraries.
* Contents of headers and bodies; wording of logs; HTTP/2's and QUIC's
  configuration.

## 8. The plan

Done: the modules of section 2, the abstract specifications BatonSession,
ByteCounter, RequestQueue and ConnectionLogs with their refinements, and the proofs of section
4: every safety property that a run checks.

Next, models: the liveness of a game in which a stream is reset.
