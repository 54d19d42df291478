---------------------------- MODULE DeviousBaton ----------------------------
(***************************************************************************)
(* One endpoint of a Devious Baton session: the class DeviousBaton with    *)
(* the WebTransport session it drives (external) and a host that reads     *)
(* streams for it the way DeviousBatonHandler does.  A session runs on one *)
(* event base, so each callback is one step.                               *)
(*                                                                         *)
(* A closeSession call does not stop the callbacks that are under way: a   *)
(* pending read may still deliver data, or an error.                       *)
(***************************************************************************)
EXTENDS BatonRules, FiniteSets

CONSTANTS Ends,        \* the ends this may be, each with its surroundings
          Requests,    \* the CONNECT requests a client may make
          Wires,       \* what the peer may write on a stream
          MaxStreams   \* bound: streams of one kind and initiator

(***************************************************************************)
(* An end: its mode, whether its host reads the peer's unidirectional      *)
(* streams, the stream credit it has at first and the bounds of what the   *)
(* peer will grant and of the streams of a kind the peer opens.            *)
(***************************************************************************)
End == [mode : Modes, readsUni : BOOLEAN, uni : 0 .. MaxStreams,
        bidi : 0 .. MaxStreams, grants : 0 .. MaxStreams, opens : 0 .. MaxStreams]

ASSUME MaxStreamsAssumption == MaxStreams \in Nat
ASSUME EndsAssumption == Ends \subseteq End
ASSUME RequestsAssumption == Requests \subseteq Request
ASSUME WiresAssumption == Wires \subseteq Wire

StreamIds == 0 .. 4 * MaxStreams - 1

VARIABLES
  end,        \* which end this is
  phase,      \* "idle", "playing" once the session is accepted, "crashed"
  requested,  \* the count the session was accepted with
  tally,      \* activeBatons, resetBatons, finishedBatons
  streams,    \* the BatonMessageState of every stream (the host's map)
  awaiting,   \* streams with a pending read
  incoming,   \* what the peer writes on the streams it has begun, how much
              \*   of it has been delivered, and whether the FIN has
  failed,     \* streams whose read ended with an exception
  written,    \* per stream, the messages this end wrote (each with a FIN)
              \*   and the stream whose baton each one answers
  opened,     \* number of streams this end opened, per kind
  limit,      \* number of streams the peer lets it open, per kind
  datagrams,  \* the batons that were echoed in a datagram
  closes      \* the codes of the closeSession calls, in order

batonVars == <<end, phase, requested, tally, streams, awaiting, incoming, failed,
               written, opened, limit, datagrams, closes>>

Mode == end.mode
PeerMode == IF Mode = "SERVER" THEN "CLIENT" ELSE "SERVER"
Kinds == {"uni", "bidi"}
Unprompted == -1          \* the cause of a message sent by start

Init == /\ end \in Ends
        /\ phase = "idle"
        /\ requested = 0
        /\ tally = [active |-> 0, reset |-> 0, finished |-> 0]
        /\ streams = [id \in StreamIds |-> NewMessageState]
        /\ awaiting = {}
        /\ incoming = [id \in {} |-> {}]
        /\ failed = {}
        /\ written = [id \in StreamIds |-> <<>>]
        /\ opened = [k \in Kinds |-> 0]
        /\ limit = [k \in Kinds |-> IF k = "uni" THEN end.uni ELSE end.bidi]
        /\ datagrams = {}
        /\ closes = <<>>

Local(k, i) == IF k = "uni" THEN LocalUni(Mode, i) ELSE LocalBidi(Mode, i)
LocalStreams(k) == {Local(k, i) : i \in 0 .. opened[k] - 1}
CanOpen(k) == opened[k] < limit[k]

Message(baton, cause) ==
  [wire |-> makeBatonMessage(kStreamPadLen, baton), cause |-> cause]
-----------------------------------------------------------------------------
(* start: one unidirectional stream per baton.  Out of credit, it closes   *)
(* the session and then takes the value of the failed Expected, which      *)
(* throws through the noexcept callback that called it.                    *)

start(batons) ==
  LET k == AtMost(Len(batons), limit["uni"] - opened["uni"])
      Slot(id) == {i \in 1 .. k : id = Local("uni", opened["uni"] + i - 1)}
  IN  /\ written' = [id \in StreamIds |->
            IF Slot(id) = {} THEN written[id]
            ELSE Append(written[id],
                        Message(batons[CHOOSE i \in Slot(id) : TRUE], Unprompted))]
      /\ opened' = [opened EXCEPT !["uni"] = @ + k]
      /\ IF k < Len(batons)
         THEN phase' = "crashed" /\ closes' = Append(closes, DA_YAMN)
         ELSE phase' = "playing" /\ UNCHANGED closes

\* The server's side of an accepted request: activeBatons = count, start().
Accept(r) == /\ phase = "idle"
             /\ RequestStatus(r) = 200
             /\ requested' = RequestedCount(r)
             /\ tally' = [tally EXCEPT !.active = RequestedCount(r)]
             /\ start(StartingBatons(r))
             /\ UNCHANGED <<end, streams, awaiting, incoming, failed, limit, datagrams>>

\* The client's side: makeRequest sets activeBatons and waits for the server,
\* which accepts the request.
makeRequest(count) == /\ phase = "idle"
                      /\ phase' = "playing"
                      /\ requested' = count
                      /\ tally' = [tally EXCEPT !.active = count]
                      /\ UNCHANGED <<end, streams, awaiting, incoming, failed,
                                     written, opened, limit, datagrams, closes>>
-----------------------------------------------------------------------------
(* The transport and the peer. *)

GrantCredit(k) == /\ phase = "playing"
                  /\ limit[k] < end.grants
                  /\ limit' = [limit EXCEPT ![k] = @ + 1]
                  /\ UNCHANGED <<end, phase, requested, tally, streams, awaiting,
                                 incoming, failed, written, opened, datagrams,
                                 closes>>

Begin(id, w) ==
  incoming' = [i \in DOMAIN incoming \cup {id} |->
                 IF i = id THEN [wire |-> w, received |-> 0, fin |-> FALSE]
                 ELSE incoming[i]]

\* The peer opens its next stream of a kind: onWebTransportBidiStream starts
\* to read it, onWebTransportUniStream only if the host does.
PeerOpens(k, i, w) ==
  LET id == IF k = "uni" THEN LocalUni(PeerMode, i) ELSE LocalBidi(PeerMode, i)
  IN  /\ phase = "playing"
      /\ id \in StreamIds \ DOMAIN incoming
      /\ i > 0 => id - 4 \in DOMAIN incoming
      /\ Begin(id, w)
      /\ awaiting' = IF k = "bidi" \/ end.readsUni THEN awaiting \cup {id} ELSE awaiting
      /\ UNCHANGED <<end, phase, requested, tally, streams, failed, written, opened,
                     limit, datagrams, closes>>

\* The peer writes on a bidirectional stream that this end opened.
PeerReplies(id, w) ==
  /\ phase = "playing"
  /\ id \in LocalStreams("bidi") \ DOMAIN incoming
  /\ Begin(id, w)
  /\ UNCHANGED <<end, phase, requested, tally, streams, awaiting, failed, written,
                 opened, limit, datagrams, closes>>

\* The chunks that can come next on a stream, as in BatonStream.
Chunk(id, n, f) == LET rest == incoming[id].wire.size - incoming[id].received
                   IN  n <= rest /\ (n > 0 \/ f) /\ (f => n = rest)
-----------------------------------------------------------------------------
(* onBatonMessage, for the baton of stream id: the reply goes on a new     *)
(* bidirectional stream, on the same stream or on a new unidirectional     *)
(* stream, and the tally is updated.                                       *)

Echo(baton) == datagrams' = IF SendsDatagram(Mode, baton)
                            THEN datagrams \cup {baton} ELSE datagrams

\* Mutant: the baton is returned as it came.
WriteReply_Same(out, id, baton) ==
  written' = [written EXCEPT ![out] = Append(@, Message(baton, id))]

WriteReply(out, id, baton) ==
  written' = [written EXCEPT ![out] = Append(@, Message(baton + 1, id))]

\* onBatonFinished, with what is left of the stream's own pending read.
Finish(baton) ==
  LET r == onBatonFinished(tally, WhoFinished(baton), FALSE)
  IN  tally' = r.tally /\ closes' = closes \o r.closes

TakeBack(id, baton, stillAwaiting) ==
  /\ baton = 0
  /\ awaiting' = stillAwaiting
  /\ Finish(baton)
  /\ UNCHANGED <<written, opened>>

ReplyOnSame(id, baton, stillAwaiting) ==
  /\ baton # 0 /\ ArrivedOn(Mode, id) = "PEER_BIDI"
  /\ WriteReply(id, id, baton)
  /\ awaiting' = stillAwaiting
  /\ Finish(baton)
  /\ UNCHANGED opened

\* A new bidirectional stream is read as well (startReadFn).
ReplyOnNew(k, id, baton, stillAwaiting) ==
  LET out == Local(k, opened[k])
  IN  /\ baton # 0
      /\ ArrivedOn(Mode, id) = IF k = "bidi" THEN "UNI" ELSE "SELF_BIDI"
      /\ CanOpen(k)
      /\ opened' = [opened EXCEPT ![k] = @ + 1]
      /\ WriteReply(out, id, baton)
      /\ awaiting' = stillAwaiting \cup (IF k = "bidi" THEN {out} ELSE {})
      /\ Finish(baton)

NoCredit(k, id, baton, stillAwaiting) ==
  /\ baton # 0
  /\ ArrivedOn(Mode, id) = IF k = "bidi" THEN "UNI" ELSE "SELF_BIDI"
  /\ ~CanOpen(k)
  /\ closes' = Append(closes, DA_YAMN)
  /\ awaiting' = stillAwaiting
  /\ UNCHANGED <<tally, written, opened>>

onBatonMessage(id, baton, stillAwaiting) ==
  /\ Echo(baton)
  /\ \/ TakeBack(id, baton, stillAwaiting)
     \/ ReplyOnSame(id, baton, stillAwaiting)
     \/ \E k \in Kinds : ReplyOnNew(k, id, baton, stillAwaiting)
     \/ \E k \in Kinds : NoCredit(k, id, baton, stillAwaiting)
-----------------------------------------------------------------------------
(* readHandler with a chunk: onStreamData, then the next read unless this  *)
(* was the FIN.                                                            *)

Refuse(code, stillAwaiting) == /\ closes' = Append(closes, code)
                               /\ awaiting' = stillAwaiting
                               /\ UNCHANGED <<tally, written, opened, datagrams>>

Quiet(stillAwaiting) == /\ awaiting' = stillAwaiting
                        /\ UNCHANGED <<tally, written, opened, datagrams, closes>>

\* Mutant: a complete message is parsed, and relayed, again.
onStreamData_NoDoneCheck(id, n, f, stillAwaiting) ==
  LET r == onBatonMessageData(incoming[id].wire, streams[id], n, f)
  IN  /\ streams' = [streams EXCEPT ![id] = r.ms]
      /\ \/ ~r.ok /\ Refuse(BRUH, stillAwaiting)
         \/ r.ok /\ r.ms.state # "DONE" /\ Quiet(stillAwaiting)
         \/ r.ok /\ r.ms.state = "DONE"
                 /\ onBatonMessage(id, r.ms.baton, stillAwaiting)

onStreamData(id, n, f, stillAwaiting) ==
  LET r == onBatonMessageData(incoming[id].wire, streams[id], n, f)
  IN  IF streams[id].state = "DONE"
      THEN /\ UNCHANGED streams
           /\ IF n > 0 THEN Refuse(ExtraData, stillAwaiting) ELSE Quiet(stillAwaiting)
      ELSE /\ streams' = [streams EXCEPT ![id] = r.ms]
           /\ \/ ~r.ok /\ Refuse(BRUH, stillAwaiting)
              \/ r.ok /\ r.ms.state # "DONE" /\ Quiet(stillAwaiting)
              \/ r.ok /\ r.ms.state = "DONE"
                      /\ onBatonMessage(id, r.ms.baton, stillAwaiting)

\* Mutant: the next read is never requested.
ReadData_OneShot(id, n, f) ==
  /\ phase = "playing"
  /\ id \in awaiting \cap DOMAIN incoming
  /\ Chunk(id, n, f)
  /\ onStreamData(id, n, f, awaiting \ {id})
  /\ incoming' = [incoming EXCEPT ![id].received = @ + n, ![id].fin = f]
  /\ UNCHANGED <<end, phase, requested, failed, limit>>

ReadData(id, n, f) ==
  /\ phase = "playing"
  /\ id \in awaiting \cap DOMAIN incoming
  /\ Chunk(id, n, f)
  /\ onStreamData(id, n, f, IF f THEN awaiting \ {id} ELSE awaiting)
  /\ incoming' = [incoming EXCEPT ![id].received = @ + n, ![id].fin = f]
  /\ UNCHANGED <<end, phase, requested, failed, limit>>

\* readHandler with an exception (a reset, or the session going away): it is
\* logged, and DeviousBaton is not told.
ReadError(id) == /\ phase = "playing"
                 /\ id \in awaiting
                 /\ awaiting' = awaiting \ {id}
                 /\ failed' = failed \cup {id}
                 /\ UNCHANGED <<end, phase, requested, tally, streams, incoming,
                                written, opened, limit, datagrams, closes>>

Opening == \E r \in Requests :
             IF Mode = "SERVER" THEN Accept(r)
             ELSE RequestStatus(r) = 200 /\ makeRequest(RequestedCount(r))

Transport ==
  \/ \E k \in Kinds : GrantCredit(k)
  \/ \E k \in Kinds, i \in 0 .. end.opens - 1, w \in Wires : PeerOpens(k, i, w)
  \/ \E id \in StreamIds, w \in Wires : PeerReplies(id, w)

Reading(id) == \E f \in BOOLEAN : \E n \in 0 .. incoming[id].wire.size :
                 ReadData(id, n, f)

Play == \/ Transport
        \/ \E id \in awaiting \cap DOMAIN incoming : Reading(id)
        \/ \E id \in awaiting : ReadError(id)

Next == Opening \/ Play
Spec == Init /\ [][Next]_batonVars
-----------------------------------------------------------------------------
\* The types of the variables.
Incoming == [wire : Wires, received : Nat, fin : BOOLEAN]
Written == [wire : Wire, cause : StreamIds \cup {Unprompted}]
TypeOK == /\ end \in Ends
          /\ phase \in {"idle", "playing", "crashed"}
          /\ requested \in 0 .. kMaxParallelBatons
          /\ tally \in Tally
          /\ streams \in [StreamIds -> BatonMessageState]
          /\ awaiting \subseteq StreamIds
          /\ DOMAIN incoming \subseteq StreamIds
          /\ \A id \in DOMAIN incoming : incoming[id] \in Incoming
          /\ failed \subseteq StreamIds
          /\ written \in [StreamIds -> Seq(Written)]
          /\ opened \in [Kinds -> 0 .. MaxStreams]
          /\ limit \in [Kinds -> 0 .. MaxStreams]
          /\ datagrams \subseteq Byte
          /\ closes \in Seq(CloseCode)

\* A stream's baton went through onBatonMessage: the message was complete
\* and nothing followed it in its chunk, so its queue was trimmed empty.
Relayed(id) == /\ streams[id].state = "DONE"
               /\ streams[id].head = streams[id].tail
Returned == {id \in StreamIds : Relayed(id) /\ streams[id].baton = 0}
Closed(code) == \E i \in DOMAIN closes : closes[i] = code
Playing == phase = "playing"

\* No baton is lost or counted twice: those in play and those finished add
\* up to the count asked for, and those finished are the zeros that streams
\* carried back, however chunks of several streams interleave.
BatonsAreConserved ==
  Playing => /\ tally.active + tally.reset + tally.finished = requested
             /\ tally.finished = AtMost(requested, Cardinality(Returned))

\* The session is closed without an error exactly when the last baton has
\* come back, and that happens once.
CleanCloseMeansAllReturned ==
  /\ Playing => (Closed(NoError) <=> requested > 0 /\ tally.active = 0)
  /\ \A i, j \in DOMAIN closes : closes[i] = NoError /\ closes[j] = NoError => i = j

\* Every write carries a FIN, so no stream is written twice, and an endpoint
\* writes on streams it opened or on bidirectional streams of its peer.
WritesAreLegal ==
  \A id \in StreamIds :
    /\ Len(written[id]) <= 1
    /\ written[id] # <<>> => \/ \E k \in Kinds : id \in LocalStreams(k)
                             \/ ~IsUni(id) /\ id \in DOMAIN incoming

\* Each baton other than zero that a stream carried is answered once, with
\* its successor, on the kind of stream its arrival calls for; it stays
\* unanswered only if there was no credit, and then the session was closed.
Answers(id) == {out \in StreamIds : \E i \in DOMAIN written[out] :
                                      written[out][i].cause = id}
RightStream(id, out) ==
  CASE ArrivedOn(Mode, id) = "UNI"       -> out \in LocalStreams("bidi")
    [] ArrivedOn(Mode, id) = "SELF_BIDI" -> out \in LocalStreams("uni")
    [] OTHER                             -> out = id
BatonsAreAnswered ==
  \A id \in StreamIds :
    IF Relayed(id) /\ streams[id].baton # 0
    THEN /\ Cardinality(Answers(id)) <= 1
         /\ Answers(id) = {} => Closed(DA_YAMN)
         /\ \A out \in Answers(id) :
              /\ RightStream(id, out)
              /\ written[out][1].wire.baton = (streams[id].baton + 1) % 256
    ELSE Answers(id) = {}

\* A stream that can be read is being read until its FIN or an error: the
\* reply of one stream never costs another its pending read.
HostReads(id) == end.readsUni \/ ~IsUni(id)
Readable(id) == \/ id \in LocalStreams("bidi")
                \/ id \in DOMAIN incoming /\ HostReads(id)
ReadsArePending ==
  Playing =>
    \A id \in StreamIds :
      id \in awaiting <=> /\ Readable(id)
                          /\ id \notin failed
                          /\ id \in DOMAIN incoming => ~incoming[id].fin
=============================================================================
