------------------------------ MODULE BatonGame ------------------------------
(***************************************************************************)
(* A whole game: the server's DeviousBaton against a DeviousBaton in       *)
(* CLIENT mode, over a transport that delivers every message whole, in any *)
(* order and with enough credit (DeviousBaton and BatonStream have the     *)
(* chunks, the errors and the credit).  The server's host is               *)
(* DeviousBatonHandler, which never reads a unidirectional stream; the     *)
(* client's host is not in the repository and reads every stream.          *)
(***************************************************************************)
EXTENDS BatonRules, FiniteSets

CONSTANT Requests

ASSUME RequestsAssumption == Requests \subseteq Request

VARIABLES start,   \* the batons the server started with, <<>> before
          tally,   \* per end, its tally
          opened,  \* per end, streams opened per kind
          flying,  \* messages written and not read: [to, id, wire]
          read,    \* per end, the streams whose message it has read
          codes    \* per end, the codes of its closeSession calls

gameVars == <<start, tally, opened, flying, read, codes>>

Peer(m) == IF m = "SERVER" THEN "CLIENT" ELSE "SERVER"
Message(to, id, baton) ==
  [to |-> to, id |-> id, wire |-> makeBatonMessage(kStreamPadLen, baton)]

GameInit ==
  /\ start = <<>>
  /\ tally = [m \in Modes |-> [active |-> 0, reset |-> 0, finished |-> 0]]
  /\ opened = [m \in Modes |-> [uni |-> 0, bidi |-> 0]]
  /\ flying = {}
  /\ read = [m \in Modes |-> {}]
  /\ codes = [m \in Modes |-> <<>>]

\* The client's makeRequest, then the server's onRequest and start.
Connect(r) ==
  /\ start = <<>>
  /\ RequestStatus(r) = 200
  /\ \E batons \in {StartingBatons(r)} :
       /\ start' = batons
       /\ opened' = [opened EXCEPT !["SERVER"].uni = Len(batons)]
       /\ flying' = {Message("CLIENT", LocalUni("SERVER", i - 1), batons[i]) :
                       i \in 1 .. Len(batons)}
  /\ tally' = [m \in Modes |-> [active |-> RequestedCount(r), reset |-> 0,
                                finished |-> 0]]
  /\ UNCHANGED <<read, codes>>

\* onWebTransportUniStream of the server's handler is empty.
Readable(x) == x.to = "CLIENT" \/ ~IsUni(x.id)

Parsed(x) == onBatonMessageData(x.wire, NewMessageState, x.wire.size, TRUE)

\* Mutant: the same bidirectional stream is opened for every baton.
Reply_SameStream(m, x, baton) ==
  CASE ArrivedOn(m, x.id) = "UNI" ->
         [msg |-> Message(Peer(m), LocalBidi(m, 0), baton + 1),
          opened |-> opened[m]]
    [] ArrivedOn(m, x.id) = "SELF_BIDI" ->
         [msg |-> Message(Peer(m), LocalUni(m, opened[m].uni), baton + 1),
          opened |-> [opened[m] EXCEPT !.uni = @ + 1]]
    [] OTHER ->
         [msg |-> Message(Peer(m), x.id, baton + 1), opened |-> opened[m]]

\* What end m answers to message x, and with which streams opened.
Reply(m, x, baton) ==
  CASE ArrivedOn(m, x.id) = "UNI" ->
         [msg |-> Message(Peer(m), LocalBidi(m, opened[m].bidi), baton + 1),
          opened |-> [opened[m] EXCEPT !.bidi = @ + 1]]
    [] ArrivedOn(m, x.id) = "SELF_BIDI" ->
         [msg |-> Message(Peer(m), LocalUni(m, opened[m].uni), baton + 1),
          opened |-> [opened[m] EXCEPT !.uni = @ + 1]]
    [] OTHER ->
         [msg |-> Message(Peer(m), x.id, baton + 1), opened |-> opened[m]]

\* onStreamData with a whole message: a malformed one closes the session, a
\* complete one goes through onBatonMessage and onBatonFinished.
Verdict(m, p) ==
  IF p.ok THEN onBatonFinished(tally[m], WhoFinished(p.ms.baton), FALSE)
  ELSE [tally |-> tally[m], closes |-> <<BRUH>>]

Account(m, p) == \E v \in {Verdict(m, p)} :
                   /\ tally' = [tally EXCEPT ![m] = v.tally]
                   /\ codes' = [codes EXCEPT ![m] = @ \o v.closes]

TakeBack(x, p) == /\ p.ok => p.ms.baton = 0
                  /\ flying' = flying \ {x}
                  /\ UNCHANGED opened

Answer(x, p) == /\ p.ok /\ p.ms.baton # 0
                /\ \E r \in {Reply(x.to, x, p.ms.baton)} :
                     /\ flying' = (flying \ {x}) \cup {r.msg}
                     /\ opened' = [opened EXCEPT ![x.to] = r.opened]

Deliver(x) == /\ Readable(x)
              /\ read' = [read EXCEPT ![x.to] = @ \cup {x.id}]
              /\ \E p \in {Parsed(x)} : /\ Account(x.to, p)
                                        /\ TakeBack(x, p) \/ Answer(x, p)
              /\ UNCHANGED start

GameNext == \/ \E r \in Requests : Connect(r)
            \/ \E x \in flying : Deliver(x)

\* The transport delivers what was written.
GameSpec == /\ GameInit /\ [][GameNext]_gameVars
            /\ WF_gameVars(\E x \in flying : Deliver(x))
-----------------------------------------------------------------------------
Starting(b) == Cardinality({i \in DOMAIN start : start[i] = b})
Over == start # <<>> /\ \A x \in flying : ~Readable(x)

\* The request's count, which is what an end expects to come back; it is 0
\* with one baton in play when the request says so and names a baton.
Asked(m) == tally[m].active + tally[m].finished

\* Both ends number streams without a clash: a message in flight is on a
\* stream that its receiver has not read yet, and no two are on the same.
StreamsDoNotClash ==
  /\ \A x \in flying : x.id \notin read[x.to]
  /\ \A x, y \in flying : x.to = y.to /\ x.id = y.id => x = y

\* No baton appears or disappears: each is in flight, was taken back, or was
\* taken for a fault by an end that expects none.
BatonsInPlay ==
  tally["SERVER"].finished + tally["CLIENT"].finished + Cardinality(flying)
    + Cardinality({m \in Modes : codes[m] = <<BRUH>>}) = Len(start)

\* How the game ends for each baton depends on where it started: 255 comes
\* back to the server, 254 to the client, and every other one is left after
\* three hops on a stream that the server's handler does not read.  An end
\* closes, once, if every baton comes back to it: without an error, unless the
\* request's count was 0.
HowItEnds ==
  Over =>
    /\ \A m \in Modes :
         LET back == Starting(IF m = "SERVER" THEN 255 ELSE 254)
         IN  /\ tally[m].finished = IF Asked(m) = 0 THEN 0 ELSE back
             /\ codes[m] = IF back < Len(start) THEN <<>>
                           ELSE IF Asked(m) = 0 THEN <<BRUH>> ELSE <<NoError>>
    /\ \A b \in 1 .. 253 :
         Cardinality({x \in flying : x.wire.baton = (b + 3) % 256}) = Starting(b)

\* Each end keeps the promise of BatonSession, whatever the other one sends:
\* it counts one baton down at a time, and only the last one closes the
\* session without an error.
Stage == IF start = <<>> THEN "idle" ELSE "playing"
ServerEnd == INSTANCE BatonSession WITH stage <- Stage,
               live <- tally["SERVER"].active, verdicts <- codes["SERVER"]
ClientEnd == INSTANCE BatonSession WITH stage <- Stage,
               live <- tally["CLIENT"].active, verdicts <- codes["CLIENT"]
EndsKeepPromise == ServerEnd!Spec /\ ClientEnd!Spec

\* The game that the default request starts is closed by the server.
DefaultGameEnds == (start = <<255>> /\ Asked("SERVER") = 1)
                      ~> (codes["SERVER"] = <<NoError>>)
=============================================================================
