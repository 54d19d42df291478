-------------------------- MODULE DeviousBatonProofs --------------------------
(***************************************************************************)
(* Proofs about one end of a Devious Baton session, for any credit, any    *)
(* requests and anything a peer may write: no baton is lost or counted     *)
(* twice, each is answered once, and the session keeps the promise of      *)
(* BatonSession.                                                           *)
(***************************************************************************)
EXTENDS DeviousBatonHandler, BatonMessageProofs, FiniteSetTheorems

\* Appending one more closing code, in the two ways the model does.
LEMMA Appended ==
  ASSUME NEW S, NEW s \in Seq(S), NEW e \in S
  PROVE  /\ Append(s, e) \in Seq(S)
         /\ Len(s) \in Nat /\ DOMAIN s = 1 .. Len(s)
         /\ Len(Append(s, e)) = Len(s) + 1
         /\ DOMAIN Append(s, e) = 1 .. Len(s) + 1
         /\ \A i \in DOMAIN s : Append(s, e)[i] = s[i]
         /\ Append(s, e)[Len(s) + 1] = e
         /\ s \o <<e>> = Append(s, e)
<1>1. Append(s, e) \in Seq(S) /\ Len(Append(s, e)) = Len(s) + 1 /\ Len(s) \in Nat
  OBVIOUS
<1>2. DOMAIN s = 1 .. Len(s) /\ DOMAIN Append(s, e) = 1 .. Len(s) + 1
  BY <1>1, LenProperties
<1>3. /\ \A i \in DOMAIN s : Append(s, e)[i] = s[i]
      /\ Append(s, e)[Len(s) + 1] = e
  BY <1>2
<1>4. s \o <<e>> = Append(s, e)
  OBVIOUS
<1> QED BY <1>1, <1>2, <1>3, <1>4

(***************************************************************************)
(* Stream ids.  From here on only these facts about them are used.         *)
(***************************************************************************)
LEMMA LocalIds ==
  ASSUME NEW k \in Kinds, NEW i \in Nat
  PROVE  /\ Local(k, i) \in Nat
         /\ Local(k, i) \in StreamIds <=> i < MaxStreams
         /\ IsUni(Local(k, i)) <=> k = "uni"
         /\ ByServer(Local(k, i)) <=> Mode = "SERVER"
         /\ \A l \in Kinds, j \in Nat : Local(k, i) = Local(l, j) => k = l /\ i = j
<1>1. /\ Bit(Mode = "SERVER") \in {0, 1}
      /\ Bit(Mode = "SERVER") = 1 <=> Mode = "SERVER"
  BY DEF Bit
<1> DEFINE b == Bit(Mode = "SERVER")
<1>2. Local(k, i) = 4 * i + b + (IF k = "uni" THEN 2 ELSE 0)
  BY <1>1 DEF Local, LocalUni, LocalBidi
<1>3. \A l \in Kinds, j \in Nat : Local(l, j) = 4 * j + b + (IF l = "uni" THEN 2 ELSE 0)
  BY <1>1 DEF Local, LocalUni, LocalBidi
<1> HIDE DEF b
<1>4. b \in {0, 1} /\ (b = 1 <=> Mode = "SERVER")
  BY <1>1 DEF b
<1>5. MaxStreams \in Nat
  BY MaxStreamsAssumption
<1>6. Local(k, i) \in Nat
  BY <1>2, <1>4
<1>7. Local(k, i) \in StreamIds <=> i < MaxStreams
  BY <1>2, <1>4, <1>5 DEF StreamIds, Kinds
<1>8. IsUni(Local(k, i)) <=> k = "uni"
  BY <1>2, <1>4 DEF IsUni
<1>9. ByServer(Local(k, i)) <=> Mode = "SERVER"
  BY <1>2, <1>4 DEF ByServer
<1>10. \A l \in Kinds, j \in Nat : Local(k, i) = Local(l, j) => k = l /\ i = j
  BY <1>2, <1>3, <1>4 DEF Kinds
<1> QED BY <1>6, <1>7, <1>8, <1>9, <1>10

\* The streams that the peer opens have the other parity.
LEMMA PeerIds ==
  ASSUME NEW i \in Nat, end \in Ends
  PROVE  /\ IsUni(LocalUni(PeerMode, i)) /\ ~IsUni(LocalBidi(PeerMode, i))
         /\ ByServer(LocalUni(PeerMode, i)) <=> Mode # "SERVER"
         /\ ByServer(LocalBidi(PeerMode, i)) <=> Mode # "SERVER"
<1>1. Bit(PeerMode = "SERVER") \in {0, 1} /\ (Bit(PeerMode = "SERVER") = 1 <=> Mode # "SERVER")
  BY DEF Bit, PeerMode
<1> DEFINE b == Bit(PeerMode = "SERVER")
<1>2. LocalUni(PeerMode, i) = 4 * i + 2 + b /\ LocalBidi(PeerMode, i) = 4 * i + b
  BY DEF LocalUni, LocalBidi
<1> HIDE DEF b
<1>3. b \in {0, 1} /\ (b = 1 <=> Mode # "SERVER")
  BY <1>1 DEF b
<1> QED BY <1>2, <1>3 DEF IsUni, ByServer
-----------------------------------------------------------------------------
(***************************************************************************)
(* The inductive invariant of DeviousBaton's Spec, part by part.           *)
(***************************************************************************)

\* Before the session is accepted nothing has happened.
IdleInv == phase = "idle" => /\ requested = 0
                             /\ tally = [active |-> 0, reset |-> 0, finished |-> 0]
                             /\ streams = [id \in StreamIds |-> NewMessageState]
                             /\ DOMAIN incoming = {}
                             /\ failed = {}
                             /\ written = [id \in StreamIds |-> <<>>]
                             /\ opened = [k \in Kinds |-> 0]
                             /\ closes = <<>>

\* Streams are opened within their credit.  What arrives on one of this
\* end's bidirectional streams arrives after the stream was opened, and a
\* read fails only on a stream that was read.
OpenedInv == /\ \A k \in Kinds : opened[k] <= limit[k]
             /\ \A id \in DOMAIN incoming :
                  (ByServer(id) <=> Mode = "SERVER") => id \in LocalStreams("bidi")
             /\ \A id \in failed : Readable(id)

\* ReadsArePending, also when the session is not being played.
ReadsInv == \A id \in StreamIds :
              id \in awaiting <=> /\ Readable(id)
                                  /\ id \notin failed
                                  /\ id \in DOMAIN incoming => ~incoming[id].fin

\* The parser can be resumed on every stream whose message is incomplete.
ParserInv ==
  /\ \A id \in StreamIds \ DOMAIN incoming : streams[id] = NewMessageState
  /\ \A id \in DOMAIN incoming : LET x == incoming[id] IN
       /\ x.received <= x.wire.size
       /\ ~x.fin /\ streams[id].state # "DONE" => Resumable(x.wire, streams[id], x.received)

\* out carries a message that answers the baton of id (Unprompted: a first
\* one), and what makes it the right answer.
IsAnswer(out, id) == written[out] # <<>> /\ written[out][1].cause = id
AnswerIsRight(id, out) ==
  /\ Relayed(id) /\ streams[id].baton # 0
  /\ RightStream(id, out)
  /\ written[out][1].wire.baton = (streams[id].baton + 1) % 256

\* Every message written is a first one or the only answer to a baton that
\* was relayed, and such a baton has an answer or the session was closed.
WritesInv ==
  /\ WritesAreLegal
  /\ \A out \in StreamIds : IsAnswer(out, Unprompted) =>
       out \in LocalStreams("uni") /\ written[out][1].wire.baton # 0
  /\ \A id, out \in StreamIds : IsAnswer(out, id) => AnswerIsRight(id, out)
  /\ \A id, out, other \in StreamIds : IsAnswer(out, id) /\ IsAnswer(other, id) => out = other
  /\ \A id \in StreamIds : Relayed(id) /\ streams[id].baton # 0 =>
       Closed(DA_YAMN) \/ \E out \in StreamIds : IsAnswer(out, id)

\* The tally adds up, and tells whether the session was closed.
TallyInv == /\ tally.reset = 0
            /\ phase # "playing" => ~Closed(NoError)
            /\ BatonsAreConserved
            /\ CleanCloseMeansAllReturned

SessionInv == /\ TypeOK /\ IdleInv /\ OpenedInv /\ ReadsInv
              /\ ParserInv /\ WritesInv /\ TallyInv
-----------------------------------------------------------------------------
(* What the steps have in common.                                            *)

\* Every id of a local stream is a stream id.
LEMMA LocalStreamsAreIds ==
  ASSUME TypeOK, NEW k \in Kinds
  PROVE  LocalStreams(k) \subseteq StreamIds
<1> SUFFICES ASSUME NEW i \in 0 .. opened[k] - 1 PROVE Local(k, i) \in StreamIds
  BY DEF LocalStreams
<1>1. i \in Nat /\ i < MaxStreams
  BY MaxStreamsAssumption DEF TypeOK
<1> QED BY <1>1, LocalIds

\* The next stream this end opens has a new id, on which nothing was written.
LEMMA NextStream ==
  ASSUME TypeOK, OpenedInv, WritesAreLegal, NEW k \in Kinds, CanOpen(k)
  PROVE  LET out == Local(k, opened[k])
         IN  /\ out \in StreamIds
             /\ \A l \in Kinds : out \notin LocalStreams(l)
             /\ out \notin DOMAIN incoming
             /\ out \notin failed
             /\ written[out] = <<>>
<1> DEFINE out == Local(k, opened[k])
<1>1. /\ opened[k] \in Nat /\ opened[k] < MaxStreams
      /\ \A l \in Kinds : opened[l] \in Nat
  BY MaxStreamsAssumption DEF TypeOK, CanOpen
<1>2. /\ out \in StreamIds
      /\ IsUni(out) <=> k = "uni"
      /\ ByServer(out) <=> Mode = "SERVER"
      /\ \A l \in Kinds, j \in Nat : out = Local(l, j) => k = l /\ opened[k] = j
  BY <1>1, LocalIds
<1> HIDE DEF out
<1>3. \A l \in Kinds : out \notin LocalStreams(l)
  BY <1>1, <1>2 DEF LocalStreams
<1>4. out \notin DOMAIN incoming
  BY <1>2, <1>3 DEF OpenedInv, Kinds
<1>5. out \notin failed
  BY <1>3, <1>4 DEF OpenedInv, Readable, Kinds
<1>6. written[out] = <<>>
  BY <1>2, <1>3, <1>4 DEF WritesAreLegal
<1> QED BY <1>2, <1>3, <1>4, <1>5, <1>6 DEF out

\* Opening it adds its id to those of its kind.
LEMMA LocalStreamsGrow ==
  ASSUME TypeOK, end' = end, NEW k \in Kinds,
         opened' = [opened EXCEPT ![k] = @ + 1]
  PROVE  /\ LocalStreams(k)' = LocalStreams(k) \cup {Local(k, opened[k])}
         /\ \A l \in Kinds \ {k} : LocalStreams(l)' = LocalStreams(l)
<1>1. opened \in [Kinds -> Nat]
  BY DEF TypeOK
<1>2. opened'[k] = opened[k] + 1 /\ \A l \in Kinds \ {k} : opened'[l] = opened[l]
  BY <1>1
<1>3. \A l, i : Local(l, i)' = Local(l, i)
  BY DEF Local, Mode
<1>4. 0 .. opened'[k] - 1 = (0 .. opened[k] - 1) \cup {opened[k]}
  BY <1>1, <1>2
<1>5. LocalStreams(k)' = {Local(k, i) : i \in 0 .. opened'[k] - 1}
  BY <1>3 DEF LocalStreams
<1>6. \A l \in Kinds \ {k} : LocalStreams(l)' = LocalStreams(l)
  BY <1>2, <1>3 DEF LocalStreams
<1> QED BY <1>4, <1>5, <1>6 DEF LocalStreams

\* A step that relays no baton.
SameRelays == \A id \in StreamIds :
                /\ Relayed(id)' <=> Relayed(id)
                /\ Relayed(id) => streams'[id].baton = streams[id].baton

\* A step that loses none, and one that relays none that calls for an answer
\* (unless the session is closed for want of credit).
RelaysLast == \A id \in StreamIds : Relayed(id) =>
                Relayed(id)' /\ streams'[id].baton = streams[id].baton
NoneToAnswer == \A id \in StreamIds : Relayed(id)' /\ streams'[id].baton # 0 =>
                  Relayed(id) \/ Closed(DA_YAMN)'

\* The first kind of step is of the others as well.
LEMMA SameRelaysFacts ==
  ASSUME SameRelays
  PROVE  RelaysLast /\ NoneToAnswer /\ Returned' = Returned
BY DEF SameRelays, RelaysLast, NoneToAnswer, Returned

\* A step that has nothing to answer and writes nothing keeps WritesInv.
LEMMA WritesKept ==
  ASSUME WritesInv, RelaysLast, NoneToAnswer, end' = end, written' = written, opened' = opened,
         DOMAIN incoming \subseteq DOMAIN incoming',
         Closed(DA_YAMN) => Closed(DA_YAMN)'
  PROVE  WritesInv'
<1>1. /\ \A k : LocalStreams(k)' = LocalStreams(k)
      /\ \A id : ArrivedOn(Mode, id)' = ArrivedOn(Mode, id)
  BY DEF LocalStreams, Local, Mode
<1>2. \A id, out : RightStream(id, out)' <=> RightStream(id, out)
  BY <1>1 DEF RightStream
<1>3. WritesAreLegal'
  BY <1>1 DEF WritesInv, WritesAreLegal
<1>4. \A out, id : IsAnswer(out, id)' <=> IsAnswer(out, id)
  BY DEF IsAnswer
<1>5. \A id \in StreamIds : \A out : AnswerIsRight(id, out) => AnswerIsRight(id, out)'
  BY <1>2 DEF AnswerIsRight, RelaysLast
<1>6. \A out \in StreamIds : IsAnswer(out, Unprompted)' =>
        out \in LocalStreams("uni")' /\ written'[out][1].wire.baton # 0
  BY <1>1, <1>4 DEF WritesInv
<1>7. \A id \in StreamIds : Relayed(id)' /\ streams'[id].baton # 0 =>
         Closed(DA_YAMN)' \/ \E out \in StreamIds : IsAnswer(out, id)'
  BY <1>4 DEF WritesInv, RelaysLast, NoneToAnswer
<1> QED BY <1>3, <1>4, <1>5, <1>6, <1>7 DEF WritesInv

\* A step that returns no baton, and closes the session only for an error,
\* keeps TallyInv.
LEMMA TallyKept ==
  ASSUME TallyInv, Returned' = Returned, closes \in Seq(CloseCode),
         phase' = phase, requested' = requested, tally' = tally,
         \/ closes' = closes
         \/ \E code \in CloseCode \ {NoError} : closes' = Append(closes, code)
  PROVE  TallyInv'
<1>1. Closed(NoError)' <=> Closed(NoError)
  <2>1. ASSUME NEW code \in CloseCode \ {NoError}, closes' = Append(closes, code)
        PROVE  Closed(NoError)' <=> Closed(NoError)
    BY <2>1, Appended DEF Closed
  <2>2. CASE closes' = closes
    BY <2>2 DEF Closed
  <2> QED BY <2>1, <2>2
<1>2. ASSUME NEW i \in DOMAIN closes', NEW j \in DOMAIN closes',
             closes'[i] = NoError, closes'[j] = NoError
      PROVE  i = j
  <2>1. ASSUME NEW code \in CloseCode \ {NoError}, closes' = Append(closes, code)
        PROVE  i = j
    <3>1. i \in DOMAIN closes /\ j \in DOMAIN closes
      BY <1>2, <2>1, Appended
    <3>2. closes[i] = NoError /\ closes[j] = NoError
      BY <1>2, <2>1, <3>1, Appended
    <3> QED BY <3>1, <3>2 DEF TallyInv, CleanCloseMeansAllReturned
  <2>2. CASE closes' = closes
    BY <1>2, <2>2 DEF TallyInv, CleanCloseMeansAllReturned
  <2> QED BY <2>1, <2>2
<1>3. BatonsAreConserved'
  BY DEF TallyInv, BatonsAreConserved, Playing
<1>4. CleanCloseMeansAllReturned'
  BY <1>1, <1>2 DEF TallyInv, CleanCloseMeansAllReturned, Playing
<1> QED BY <1>1, <1>3, <1>4 DEF TallyInv
-----------------------------------------------------------------------------
(* The transport's steps, and a read that fails.                             *)

\* What is readable, when the streams and what arrives on them do not change.
LEMMA ReadableKept ==
  ASSUME end' = end, opened' = opened, DOMAIN incoming' = DOMAIN incoming
  PROVE  /\ \A k : LocalStreams(k)' = LocalStreams(k)
         /\ \A id : Readable(id)' <=> Readable(id)
<1>1. \A k : LocalStreams(k)' = LocalStreams(k)
  BY DEF LocalStreams, Local, Mode
<1>2. \A id : HostReads(id)' <=> HostReads(id)
  BY DEF HostReads
<1> QED BY <1>1, <1>2 DEF Readable

\* The peer grants credit for one more stream.
LEMMA GrantCreditStep ==
  ASSUME SessionInv, NEW k \in Kinds, GrantCredit(k)
  PROVE  SessionInv'
<1>1. /\ phase = "playing" /\ limit[k] < end.grants
      /\ limit' = [limit EXCEPT ![k] = @ + 1]
      /\ end' = end /\ phase' = phase /\ requested' = requested /\ tally' = tally
      /\ streams' = streams /\ awaiting' = awaiting /\ incoming' = incoming
      /\ failed' = failed /\ written' = written /\ opened' = opened
      /\ datagrams' = datagrams /\ closes' = closes
  BY DEF GrantCredit
<1>2. end.grants <= MaxStreams
  BY EndsAssumption, MaxStreamsAssumption DEF SessionInv, TypeOK, End
<1>3. TypeOK'
  <2>1. limit' \in [Kinds -> 0 .. MaxStreams]
    BY <1>1, <1>2, EndsAssumption, MaxStreamsAssumption DEF SessionInv, TypeOK, End
  <2> QED BY <1>1, <2>1 DEF SessionInv, TypeOK
<1>4. SameRelays
  BY <1>1 DEF SameRelays, Relayed
<1>5. OpenedInv'
  <2>1. \A l \in Kinds : opened'[l] <= limit'[l]
    BY <1>1 DEF SessionInv, OpenedInv, TypeOK
  <2> QED BY <1>1, <2>1, ReadableKept DEF SessionInv, OpenedInv, Mode
<1>6. ReadsInv' /\ ParserInv' /\ IdleInv'
  BY <1>1, ReadableKept DEF SessionInv, ReadsInv, ParserInv, IdleInv
<1>7. WritesInv' /\ TallyInv'
  BY <1>1, <1>4, SameRelaysFacts, WritesKept, TallyKept DEF SessionInv, TypeOK, Closed
<1> QED BY <1>3, <1>5, <1>6, <1>7 DEF SessionInv

\* A read that ends with an exception is not started again.
LEMMA ReadErrorStep ==
  ASSUME SessionInv, NEW id, ReadError(id)
  PROVE  SessionInv'
<1>1. /\ phase = "playing" /\ id \in awaiting
      /\ awaiting' = awaiting \ {id} /\ failed' = failed \cup {id}
      /\ end' = end /\ phase' = phase /\ requested' = requested /\ tally' = tally
      /\ streams' = streams /\ incoming' = incoming /\ written' = written
      /\ opened' = opened /\ limit' = limit /\ datagrams' = datagrams /\ closes' = closes
  BY DEF ReadError
<1>2. id \in StreamIds /\ Readable(id)
  BY <1>1 DEF SessionInv, TypeOK, ReadsInv
<1>3. TypeOK'
  BY <1>1, <1>2 DEF SessionInv, TypeOK
<1>4. SameRelays
  BY <1>1 DEF SameRelays, Relayed
<1>5. OpenedInv'
  BY <1>1, <1>2, ReadableKept DEF SessionInv, OpenedInv, Mode
<1>6. ReadsInv' /\ ParserInv' /\ IdleInv'
  BY <1>1, <1>2, ReadableKept DEF SessionInv, ReadsInv, ParserInv, IdleInv
<1>7. WritesInv' /\ TallyInv'
  BY <1>1, <1>4, SameRelaysFacts, WritesKept, TallyKept DEF SessionInv, TypeOK, Closed
<1> QED BY <1>3, <1>5, <1>6, <1>7 DEF SessionInv

\* A stream begins to carry w: one the peer opened, or the other half of one
\* of this end's bidirectional streams.
Begins(id, w) ==
  /\ phase = "playing"
  /\ id \in StreamIds \ DOMAIN incoming
  /\ (ByServer(id) <=> Mode = "SERVER") => id \in LocalStreams("bidi")
  /\ Begin(id, w)
  /\ awaiting' = IF ~(id \in LocalStreams("bidi")) /\ HostReads(id)
                 THEN awaiting \cup {id} ELSE awaiting
  /\ UNCHANGED <<end, phase, requested, tally, streams, failed, written,
                 opened, limit, datagrams, closes>>

\* That step keeps the invariant: the parser of the stream is a new one.
LEMMA BeginsStep ==
  ASSUME SessionInv, NEW id, NEW w \in Wires, Begins(id, w)
  PROVE  SessionInv'
<1>1. /\ phase = "playing" /\ id \in StreamIds /\ id \notin DOMAIN incoming
      /\ awaiting' = IF ~(id \in LocalStreams("bidi")) /\ HostReads(id)
                     THEN awaiting \cup {id} ELSE awaiting
      /\ end' = end /\ phase' = phase /\ requested' = requested /\ tally' = tally
      /\ streams' = streams /\ failed' = failed /\ written' = written
      /\ opened' = opened /\ limit' = limit /\ datagrams' = datagrams /\ closes' = closes
  BY DEF Begins
<1>2. /\ DOMAIN incoming' = DOMAIN incoming \cup {id}
      /\ incoming'[id] = [wire |-> w, received |-> 0, fin |-> FALSE]
      /\ \A i \in DOMAIN incoming : incoming'[i] = incoming[i]
  BY <1>1 DEF Begins, Begin
<1>3. TypeOK'
  <2>1. [wire |-> w, received |-> 0, fin |-> FALSE] \in Incoming
    BY DEF Incoming
  <2>2. awaiting' \subseteq StreamIds
    BY <1>1 DEF SessionInv, TypeOK
  <2>3. DOMAIN incoming' \subseteq StreamIds /\ \A i \in DOMAIN incoming' : incoming'[i] \in Incoming
    BY <1>1, <1>2, <2>1 DEF SessionInv, TypeOK
  <2> QED BY <1>1, <2>2, <2>3 DEF SessionInv, TypeOK
<1>4. SameRelays
  BY <1>1 DEF SameRelays, Relayed
<1>5. /\ \A k : LocalStreams(k)' = LocalStreams(k)
      /\ \A i : HostReads(i)' <=> HostReads(i)
  BY <1>1 DEF LocalStreams, Local, Mode, HostReads
<1>6. \A i : Readable(i)' <=> Readable(i) \/ (i = id /\ HostReads(id))
  BY <1>2, <1>5 DEF Readable
<1>7. OpenedInv'
  BY <1>1, <1>2, <1>5, <1>6 DEF SessionInv, OpenedInv, Mode, Begins
<1>8. ReadsInv'
  <2> SUFFICES ASSUME NEW i \in StreamIds
               PROVE  i \in awaiting' <=> /\ Readable(i)'
                                          /\ i \notin failed'
                                          /\ i \in DOMAIN incoming' => ~incoming'[i].fin
    BY DEF ReadsInv
  <2>1. CASE i # id
    BY <1>1, <1>2, <1>6, <2>1 DEF SessionInv, ReadsInv
  <2>2. CASE i = id /\ id \in LocalStreams("bidi")
    BY <1>1, <1>2, <1>5, <1>6, <2>2 DEF SessionInv, ReadsInv, Readable
  <2>3. CASE i = id /\ id \notin LocalStreams("bidi")
    <3>1. ~Readable(id)
      BY <1>1, <2>3 DEF Readable
    <3>2. id \notin failed /\ id \notin awaiting
      BY <1>1, <3>1 DEF SessionInv, OpenedInv, ReadsInv
    <3> QED BY <1>1, <1>2, <1>6, <2>3, <3>1, <3>2
  <2> QED BY <2>1, <2>2, <2>3
<1>9. ParserInv'
  <2>1. streams[id] = NewMessageState
    BY <1>1 DEF SessionInv, ParserInv
  <2>2. w \in Wire /\ w.size \in Nat
    BY WiresAssumption DEF Wire
  <2>3. Resumable(w, NewMessageState, 0)
    BY <2>2, NewMessageStateResumable
  <2> QED BY <1>1, <1>2, <2>1, <2>2, <2>3 DEF SessionInv, ParserInv
<1>10. WritesInv' /\ TallyInv' /\ IdleInv'
  BY <1>1, <1>2, <1>4, SameRelaysFacts, WritesKept, TallyKept DEF SessionInv, TypeOK, Closed, IdleInv
<1> QED BY <1>3, <1>7, <1>8, <1>9, <1>10 DEF SessionInv

\* Both ways in which a stream begins are such steps.
LEMMA PeerSteps ==
  ASSUME SessionInv, NEW w \in Wires,
         \/ \E k \in Kinds, i \in 0 .. end.opens - 1 : PeerOpens(k, i, w)
         \/ \E id \in StreamIds : PeerReplies(id, w)
  PROVE  SessionInv'
<1>1. ASSUME NEW k \in Kinds, NEW i \in 0 .. end.opens - 1, PeerOpens(k, i, w)
      PROVE  SessionInv'
  <2> DEFINE id == IF k = "uni" THEN LocalUni(PeerMode, i) ELSE LocalBidi(PeerMode, i)
  <2>1. i \in Nat /\ end \in Ends
    BY <1>1 DEF SessionInv, TypeOK
  <2>2. /\ IsUni(id) <=> k = "uni"
        /\ ByServer(id) <=> Mode # "SERVER"
    BY <2>1, PeerIds
  <2>3. id \notin LocalStreams("bidi")
    <3> SUFFICES ASSUME NEW j \in 0 .. opened["bidi"] - 1, id = Local("bidi", j) PROVE FALSE
      BY DEF LocalStreams
    <3>1. j \in Nat /\ "bidi" \in Kinds
      BY DEF Kinds
    <3> QED BY <2>2, <3>1, LocalIds
  <2>4. HostReads(id) <=> k = "bidi" \/ end.readsUni
    BY <2>2 DEF HostReads, Kinds
  <2>5. /\ phase = "playing" /\ id \in StreamIds \ DOMAIN incoming /\ Begin(id, w)
        /\ awaiting' = IF k = "bidi" \/ end.readsUni THEN awaiting \cup {id} ELSE awaiting
        /\ UNCHANGED <<end, phase, requested, tally, streams, failed, written,
                       opened, limit, datagrams, closes>>
    BY <1>1 DEF PeerOpens
  <2> HIDE DEF id
  <2>6. Begins(id, w)
    BY <2>2, <2>3, <2>4, <2>5 DEF Begins
  <2> QED BY <2>6, BeginsStep
<1>2. ASSUME NEW id \in StreamIds, PeerReplies(id, w)
      PROVE  SessionInv'
  <2>1. Begins(id, w)
    BY <1>2 DEF PeerReplies, Begins
  <2> QED BY <2>1, BeginsStep
<1> QED BY <1>1, <1>2
-----------------------------------------------------------------------------
(* The session is accepted.                                                  *)

\* A message and the wire it is.
LEMMA MessageFacts ==
  ASSUME NEW baton \in Nat, NEW cause \in StreamIds \cup {Unprompted}
  PROVE  /\ Message(baton, cause) \in Written
         /\ Message(baton, cause).cause = cause
         /\ Message(baton, cause).wire.baton = baton % 256
<1>1. makeBatonMessage(kStreamPadLen, baton) \in Wire
  BY makeBatonMessageIsOneMessage DEF kStreamPadLen
<1>2. makeBatonMessage(kStreamPadLen, baton).baton = baton % 256
  BY DEF makeBatonMessage
<1> QED BY <1>1, <1>2 DEF Message, Written

\* What start writes: the first k batons, each on a stream of its own, where
\* k is what the credit allows; short of credit the process is gone.
LEMMA StartWrites ==
  ASSUME TypeOK, IdleInv, phase = "idle", NEW batons \in Seq(FirstBaton), start(batons),
         end' = end
  PROVE  \E k \in 0 .. Len(batons) :
           /\ k <= limit["uni"]
           /\ opened' = [opened EXCEPT !["uni"] = k]
           /\ LocalStreams("bidi")' = LocalStreams("bidi")
           /\ LocalStreams("uni")' = {Local("uni", i - 1) : i \in 1 .. k}
           /\ LocalStreams("uni")' \subseteq StreamIds
           /\ written' \in [StreamIds -> Seq(Written)]
           /\ \A i \in 1 .. k : written'[Local("uni", i - 1)] = <<Message(batons[i], Unprompted)>>
           /\ \A id \in StreamIds \ LocalStreams("uni")' : written'[id] = <<>>
           /\ \/ k = Len(batons) /\ phase' = "playing" /\ closes' = <<>>
              \/ k < Len(batons) /\ phase' = "crashed" /\ closes' = <<DA_YAMN>>
<1> DEFINE k == AtMost(Len(batons), limit["uni"] - opened["uni"])
           Slot(id) == {i \in 1 .. k : id = Local("uni", opened["uni"] + i - 1)}
<1>1. /\ opened = [j \in Kinds |-> 0] /\ opened["uni"] = 0 /\ "uni" \in Kinds /\ "bidi" \in Kinds
      /\ written = [id \in StreamIds |-> <<>>] /\ closes = <<>>
      /\ limit["uni"] \in 0 .. MaxStreams /\ Len(batons) \in Nat /\ MaxStreams \in Nat
  BY MaxStreamsAssumption DEF IdleInv, TypeOK, Kinds
<1>2. k \in 0 .. Len(batons) /\ k <= limit["uni"] /\ k <= MaxStreams
  BY <1>1 DEF AtMost
<1>3. /\ written' = [id \in StreamIds |->
            IF Slot(id) = {} THEN written[id]
            ELSE Append(written[id], Message(batons[CHOOSE i \in Slot(id) : TRUE], Unprompted))]
      /\ opened' = [opened EXCEPT !["uni"] = @ + k]
      /\ IF k < Len(batons)
         THEN phase' = "crashed" /\ closes' = Append(closes, DA_YAMN)
         ELSE phase' = "playing" /\ UNCHANGED closes
  BY DEF start
<1> HIDE DEF k
<1>4. opened' = [opened EXCEPT !["uni"] = k] /\ opened'["uni"] = k /\ opened'["bidi"] = 0
  BY <1>1, <1>2, <1>3
<1>5. \A l, i : Local(l, i)' = Local(l, i)
  BY DEF Local, Mode
<1>6. LocalStreams("bidi")' = LocalStreams("bidi")
  BY <1>1, <1>4, <1>5 DEF LocalStreams
<1>7. LocalStreams("uni")' = {Local("uni", i - 1) : i \in 1 .. k}
  <2>1. LocalStreams("uni")' = {Local("uni", i) : i \in 0 .. k - 1}
    BY <1>4, <1>5 DEF LocalStreams
  <2>2. \A i \in 0 .. k - 1 : i + 1 \in 1 .. k /\ i = (i + 1) - 1
    BY <1>2
  <2>3. \A i \in 1 .. k : i - 1 \in 0 .. k - 1
    BY <1>2
  <2> QED BY <2>1, <2>2, <2>3
<1>8. \A i \in 1 .. k : /\ Local("uni", i - 1) \in StreamIds
                        /\ \A j \in 1 .. k : Local("uni", i - 1) = Local("uni", j - 1) => i = j
  <2> SUFFICES ASSUME NEW i \in 1 .. k
               PROVE  /\ Local("uni", i - 1) \in StreamIds
                      /\ \A j \in 1 .. k : Local("uni", i - 1) = Local("uni", j - 1) => i = j
    OBVIOUS
  <2>1. i - 1 \in Nat /\ i - 1 < MaxStreams
    BY <1>1, <1>2
  <2>2. \A j \in 1 .. k : j - 1 \in Nat /\ (i - 1 = j - 1 => i = j)
    BY <1>2
  <2> QED BY <1>1, <2>1, <2>2, LocalIds
<1>9. \A i \in 1 .. k : Slot(Local("uni", i - 1)) = {i}
  <2>1. \A i \in 1 .. k : opened["uni"] + i - 1 = i - 1
    BY <1>1, <1>2
  <2> QED BY <1>8, <2>1
<1>10. \A id \in StreamIds \ LocalStreams("uni")' : Slot(id) = {}
  <2>1. \A i \in 1 .. k : opened["uni"] + i - 1 = i - 1
    BY <1>1, <1>2
  <2> QED BY <1>7, <2>1
<1>11. ASSUME NEW i \in 1 .. k
       PROVE  written'[Local("uni", i - 1)] = <<Message(batons[i], Unprompted)>>
  <2>1. Slot(Local("uni", i - 1)) = {i} /\ Local("uni", i - 1) \in StreamIds
    BY <1>8, <1>9
  <2>2. (CHOOSE j \in {i} : TRUE) = i
    OBVIOUS
  <2> HIDE DEF Slot
  <2>3. written'[Local("uni", i - 1)] = Append(<<>>, Message(batons[i], Unprompted))
    BY <1>1, <1>3, <2>1, <2>2
  <2> QED BY <2>3
<1>12. \A id \in StreamIds \ LocalStreams("uni")' : written'[id] = <<>>
  BY <1>1, <1>3, <1>10
<1>13. ASSUME NEW i \in 1 .. k PROVE Message(batons[i], Unprompted) \in Written
  <2>1. i \in 1 .. Len(batons)
    BY <1>1, <1>2
  <2>2. batons[i] \in Nat
    <3> HIDE DEF k, Slot
    <3>1. batons[i] \in FirstBaton
      BY <2>1, ElementOfSeq
    <3>2. FirstBaton \subseteq Nat
      BY DEF FirstBaton
    <3> QED BY <3>1, <3>2
  <2> QED BY <2>2, MessageFacts
<1>14. written' \in [StreamIds -> Seq(Written)]
  <2>1. ASSUME NEW id \in StreamIds PROVE written'[id] \in Seq(Written)
    <3>1. CASE id \in LocalStreams("uni")'
      <4>1. PICK i \in 1 .. k : id = Local("uni", i - 1)
        BY <1>7, <3>1
      <4>2. Message(batons[i], Unprompted) \in Written
        BY <1>13
      <4>3. written'[id] = <<Message(batons[i], Unprompted)>>
        BY <1>11, <4>1
      <4> HIDE DEF Slot
      <4> QED BY <4>2, <4>3
    <3>2. CASE id \notin LocalStreams("uni")'
      <4>1. written'[id] = <<>>
        BY <1>12, <3>2
      <4> HIDE DEF Slot
      <4> QED BY <4>1
    <3> QED BY <3>1, <3>2
  <2>2. DOMAIN written' = StreamIds /\ written' = [id \in DOMAIN written' |-> written'[id]]
    BY <1>3
  <2> QED BY <2>1, <2>2
<1>15. \/ k = Len(batons) /\ phase' = "playing" /\ closes' = <<>>
       \/ k < Len(batons) /\ phase' = "crashed" /\ closes' = <<DA_YAMN>>
  BY <1>1, <1>2, <1>3
<1>16. LocalStreams("uni")' \subseteq StreamIds
  BY <1>7, <1>8
<1> QED BY <1>2, <1>4, <1>6, <1>7, <1>11, <1>12, <1>14, <1>15, <1>16

\* At first no stream is read and no baton was relayed.
LEMMA IdleFacts ==
  ASSUME SessionInv, phase = "idle"
  PROVE  /\ LocalStreams("bidi") = {} /\ awaiting = {}
         /\ \A id \in StreamIds : ~Relayed(id)
<1>1. opened["bidi"] = 0
  BY DEF SessionInv, IdleInv, Kinds
<1>2. LocalStreams("bidi") = {}
  BY <1>1 DEF LocalStreams
<1>3. awaiting = {}
  BY <1>2 DEF SessionInv, IdleInv, ReadsInv, Readable, TypeOK
<1>4. \A id \in StreamIds : ~Relayed(id)
  BY DEF SessionInv, IdleInv, Relayed, NewMessageState
<1> QED BY <1>2, <1>3, <1>4

\* What a session looks like when it is accepted keeps the tally.
LEMMA TallyStarts ==
  ASSUME SessionInv, phase = "idle", streams' = streams,
         requested' \in Nat, tally' = [tally EXCEPT !.active = requested'],
         closes' \in {<<>>, <<DA_YAMN>>}, phase' = "playing" => closes' = <<>>
  PROVE  TallyInv'
<1>1. tally' = [active |-> requested', reset |-> 0, finished |-> 0]
  BY DEF SessionInv, IdleInv
<1>2. Returned' = {}
  BY IdleFacts DEF Returned, Relayed
<1>3. Cardinality(Returned') = 0
  BY <1>2, FS_EmptySet
<1>4. ~Closed(NoError)'
  BY DEF Closed, NoError, DA_YAMN
<1>5. BatonsAreConserved'
  BY <1>1, <1>3 DEF BatonsAreConserved, AtMost
<1>6. CleanCloseMeansAllReturned'
  BY <1>1, <1>4 DEF CleanCloseMeansAllReturned, Closed
<1> QED BY <1>1, <1>4, <1>5, <1>6 DEF TallyInv

\* The server accepts a request and starts.
LEMMA AcceptStep ==
  ASSUME SessionInv, NEW r \in Requests, Accept(r)
  PROVE  SessionInv'
<1>1. /\ phase = "idle" /\ RequestStatus(r) = 200
      /\ requested' = RequestedCount(r)
      /\ tally' = [tally EXCEPT !.active = RequestedCount(r)]
      /\ start(StartingBatons(r))
      /\ end' = end /\ streams' = streams /\ awaiting' = awaiting /\ incoming' = incoming
      /\ failed' = failed /\ limit' = limit /\ datagrams' = datagrams
  BY DEF Accept
<1> DEFINE batons == StartingBatons(r)
<1>2. RequestedCount(r) \in 0 .. kMaxParallelBatons /\ batons \in Seq(FirstBaton)
  BY <1>1, StartingBatonsFacts
<1>3. PICK k \in 0 .. Len(batons) :
        /\ k <= limit["uni"]
        /\ opened' = [opened EXCEPT !["uni"] = k]
        /\ LocalStreams("bidi")' = LocalStreams("bidi")
        /\ LocalStreams("uni")' = {Local("uni", i - 1) : i \in 1 .. k}
        /\ LocalStreams("uni")' \subseteq StreamIds
        /\ written' \in [StreamIds -> Seq(Written)]
        /\ \A i \in 1 .. k : written'[Local("uni", i - 1)] = <<Message(batons[i], Unprompted)>>
        /\ \A id \in StreamIds \ LocalStreams("uni")' : written'[id] = <<>>
        /\ \/ k = Len(batons) /\ phase' = "playing" /\ closes' = <<>>
           \/ k < Len(batons) /\ phase' = "crashed" /\ closes' = <<DA_YAMN>>
  <2>1. TypeOK /\ IdleInv
    BY DEF SessionInv
  <2> HIDE DEF batons
  <2> QED BY <1>1, <1>2, <2>1, StartWrites DEF batons
<1> HIDE DEF batons
<1>4. Len(batons) \in Nat /\ requested' \in Nat /\ tally' = [tally EXCEPT !.active = requested']
  BY <1>1, <1>2 DEF kMaxParallelBatons
<1>5. closes' \in {<<>>, <<DA_YAMN>>} /\ phase' \in {"playing", "crashed"}
      /\ (phase' = "playing" => closes' = <<>>)
  BY <1>3
<1>6. TypeOK'
  <2>1. tally' \in Tally /\ requested' \in 0 .. kMaxParallelBatons
    BY <1>1, <1>2, <1>4 DEF SessionInv, TypeOK, Tally
  <2>2. opened' \in [Kinds -> 0 .. MaxStreams]
    <3>1. k \in 0 .. MaxStreams
      BY <1>3, <1>4, MaxStreamsAssumption DEF SessionInv, TypeOK, Kinds
    <3> QED BY <1>3, <3>1 DEF SessionInv, TypeOK
  <2>3. closes' \in Seq(CloseCode)
    <3>1. DA_YAMN \in CloseCode
      BY DEF CloseCode
    <3>2. <<>> \in Seq(CloseCode) /\ <<DA_YAMN>> \in Seq(CloseCode)
      BY <3>1
    <3> QED BY <1>5, <3>2
  <2> QED BY <1>1, <1>3, <1>5, <2>1, <2>2, <2>3 DEF SessionInv, TypeOK
<1>7. IdleInv'
  BY <1>5 DEF IdleInv
<1>8. /\ DOMAIN incoming = {} /\ failed = {}
      /\ LocalStreams("bidi")' = {} /\ awaiting' = {}
      /\ \A id \in StreamIds : ~Relayed(id)
  BY <1>1, <1>3, IdleFacts DEF SessionInv, IdleInv
<1>9. OpenedInv'
  <2>1. \A l \in Kinds : opened'[l] <= limit'[l]
    BY <1>1, <1>3 DEF SessionInv, OpenedInv, TypeOK
  <2> QED BY <1>1, <1>8, <2>1 DEF OpenedInv
<1>10. ReadsInv'
  BY <1>1, <1>8 DEF ReadsInv, Readable
<1>11. ParserInv'
  BY <1>1 DEF SessionInv, ParserInv
<1>12. ASSUME NEW out \in StreamIds, written'[out] # <<>>
       PROVE  /\ out \in LocalStreams("uni")'
              /\ Len(written'[out]) = 1
              /\ written'[out][1].cause = Unprompted
              /\ written'[out][1].wire.baton # 0
  <2>1. out \in LocalStreams("uni")'
    BY <1>3, <1>12
  <2>2. PICK i \in 1 .. k : out = Local("uni", i - 1)
    BY <1>3, <2>1
  <2>3. written'[out] = <<Message(batons[i], Unprompted)>>
    BY <1>3, <2>2
  <2>4. i \in 1 .. Len(batons)
    BY <1>4
  <2>5. batons[i] \in FirstBaton
    BY <1>2, <2>4, ElementOfSeq
  <2>6. batons[i] \in Nat /\ batons[i] % 256 # 0
    <3>1. \A b \in FirstBaton : b \in Nat /\ b % 256 # 0
      BY DEF FirstBaton
    <3> QED BY <2>5, <3>1
  <2>7. /\ Message(batons[i], Unprompted).cause = Unprompted
        /\ Message(batons[i], Unprompted).wire.baton # 0
    BY <2>6, MessageFacts
  <2> QED BY <2>1, <2>3, <2>7
<1>13. WritesInv'
  <2>1. WritesAreLegal'
    <3> SUFFICES ASSUME NEW id \in StreamIds
                 PROVE  /\ Len(written'[id]) <= 1
                        /\ written'[id] # <<>> => id \in LocalStreams("uni")'
      BY DEF WritesAreLegal, Kinds
    <3>1. written'[id] # <<>> => id \in LocalStreams("uni")'
      BY <1>12
    <3>2. written'[id] = <<>> \/ Len(written'[id]) = 1
      BY <1>12
    <3>3. written'[id] = <<>> => Len(written'[id]) = 0
      OBVIOUS
    <3>4. Len(written'[id]) \in {0, 1}
      BY <3>2, <3>3
    <3>5. \A n \in {0, 1} : n <= 1
      OBVIOUS
    <3> QED BY <3>1, <3>4, <3>5
  <2>2. \A out \in StreamIds : IsAnswer(out, Unprompted)' =>
          out \in LocalStreams("uni")' /\ written'[out][1].wire.baton # 0
    BY <1>12 DEF IsAnswer
  <2>3. \A id, out \in StreamIds : ~IsAnswer(out, id)'
    <3>1. \A id \in StreamIds : id # Unprompted
      BY DEF StreamIds, Unprompted
    <3> QED BY <1>12, <3>1 DEF IsAnswer
  <2>4. \A id \in StreamIds : ~Relayed(id)'
    BY <1>1, <1>8 DEF Relayed
  <2> QED BY <2>1, <2>2, <2>3, <2>4 DEF WritesInv
<1>14. TallyInv'
  BY <1>1, <1>4, <1>5, TallyStarts
<1> QED BY <1>6, <1>7, <1>9, <1>10, <1>11, <1>13, <1>14 DEF SessionInv

\* A client's request is accepted.
LEMMA makeRequestStep ==
  ASSUME SessionInv, NEW count \in 0 .. kMaxParallelBatons, makeRequest(count)
  PROVE  SessionInv'
<1>1. /\ phase = "idle" /\ phase' = "playing" /\ requested' = count
      /\ tally' = [tally EXCEPT !.active = count]
      /\ end' = end /\ streams' = streams /\ awaiting' = awaiting /\ incoming' = incoming
      /\ failed' = failed /\ written' = written /\ opened' = opened /\ limit' = limit
      /\ datagrams' = datagrams /\ closes' = closes
  BY DEF makeRequest
<1>2. count \in Nat /\ closes = <<>>
  BY <1>1 DEF kMaxParallelBatons, SessionInv, IdleInv
<1>3. TypeOK'
  BY <1>1, <1>2 DEF SessionInv, TypeOK, Tally
<1>4. SameRelays
  BY <1>1 DEF SameRelays, Relayed
<1>5. OpenedInv'
  BY <1>1, ReadableKept DEF SessionInv, OpenedInv, Mode
<1>6. ReadsInv' /\ ParserInv' /\ IdleInv'
  BY <1>1, ReadableKept DEF SessionInv, ReadsInv, ParserInv, IdleInv
<1>7. WritesInv'
  BY <1>1, <1>4, SameRelaysFacts, WritesKept DEF SessionInv, Closed
<1>8. TallyInv'
  BY <1>1, <1>2, TallyStarts
<1> QED BY <1>3, <1>5, <1>6, <1>7, <1>8 DEF SessionInv
-----------------------------------------------------------------------------
(* A chunk is read.                                                          *)

\* What every chunk of stream id does, whatever its message says.
Delivers(id, f) ==
  /\ phase = "playing"
  /\ id \in StreamIds /\ id \in awaiting /\ id \in DOMAIN incoming
  /\ Readable(id) /\ id \notin failed
  /\ end' = end /\ phase' = phase /\ requested' = requested
  /\ failed' = failed /\ limit' = limit
  /\ DOMAIN incoming' = DOMAIN incoming
  /\ incoming'[id].fin = f
  /\ \A i \in DOMAIN incoming \ {id} : incoming'[i] = incoming[i]
  /\ \A i \in DOMAIN incoming : incoming'[i] \in Incoming
  /\ streams' \in [StreamIds -> BatonMessageState]
  /\ \A i \in StreamIds \ {id} : streams'[i] = streams[i]
  /\ ParserInv'

\* It leaves the relayed batons alone, and at most closes the session for an
\* error, or it completes the message of id, whose baton is relayed.
StillAwaiting(id, f) == IF f THEN awaiting \ {id} ELSE awaiting
NoBaton(id, f) == \/ Quiet(StillAwaiting(id, f))
                  \/ \E code \in {BRUH, ExtraData} : Refuse(code, StillAwaiting(id, f))
Relays(id) == ~Relayed(id) /\ Relayed(id)' /\ streams'[id].baton \in Byte

LEMMA ReadDataFacts ==
  ASSUME SessionInv, NEW id, NEW n \in Nat, NEW f \in BOOLEAN, ReadData(id, n, f)
  PROVE  /\ Delivers(id, f)
         /\ \/ SameRelays /\ NoBaton(id, f)
            \/ Relays(id) /\ onBatonMessage(id, streams'[id].baton, StillAwaiting(id, f))
<1> DEFINE x == incoming[id]
           r == onBatonMessageData(x.wire, streams[id], n, f)
<1>1. /\ phase = "playing" /\ id \in awaiting /\ id \in DOMAIN incoming
      /\ Chunk(id, n, f)
      /\ onStreamData(id, n, f, StillAwaiting(id, f))
      /\ incoming' = [incoming EXCEPT ![id].received = @ + n, ![id].fin = f]
      /\ end' = end /\ phase' = phase /\ requested' = requested
      /\ failed' = failed /\ limit' = limit
  BY DEF ReadData, StillAwaiting
<1>2. id \in StreamIds /\ Readable(id) /\ id \notin failed /\ ~x.fin
  BY <1>1 DEF SessionInv, TypeOK, ReadsInv
<1>3. x \in Incoming /\ x.wire \in Wire /\ x.received \in Nat /\ x.wire.size \in Nat
  BY <1>1, WiresAssumption DEF SessionInv, TypeOK, Incoming, Wire
<1>4. /\ DOMAIN incoming' = DOMAIN incoming
      /\ incoming'[id] = [x EXCEPT !.received = @ + n, !.fin = f]
      /\ \A i \in DOMAIN incoming \ {id} : incoming'[i] = incoming[i]
  BY <1>1
<1>5. /\ incoming'[id].fin = f /\ incoming'[id].wire = x.wire
      /\ incoming'[id].received = x.received + n
      /\ incoming'[id] \in Incoming
  <2>1. x = [wire |-> x.wire, received |-> x.received, fin |-> x.fin] /\ x.wire \in Wires
    BY <1>3 DEF Incoming
  <2> HIDE DEF x
  <2>2. incoming'[id] = [wire |-> x.wire, received |-> x.received + n, fin |-> f]
    BY <1>4, <2>1
  <2> QED BY <1>3, <2>1, <2>2 DEF Incoming
<1>6. x.received + n <= x.wire.size
  BY <1>1, <1>3 DEF Chunk
<1>7. streams \in [StreamIds -> BatonMessageState]
  BY DEF SessionInv, TypeOK
<1>8. \A i \in DOMAIN incoming : incoming'[i] \in Incoming
  BY <1>4, <1>5 DEF SessionInv, TypeOK
<1> HIDE DEF x
<1>9. ASSUME streams' \in [StreamIds -> BatonMessageState],
             \A i \in StreamIds \ {id} : streams'[i] = streams[i],
             ~f /\ streams'[id].state # "DONE" =>
               Resumable(x.wire, streams'[id], x.received + n)
      PROVE  Delivers(id, f)
  <2>1. ParserInv'
    <3>1. \A i \in StreamIds \ DOMAIN incoming' : streams'[i] = NewMessageState
      BY <1>1, <1>4, <1>9 DEF SessionInv, ParserInv
    <3>2. ASSUME NEW i \in DOMAIN incoming'
          PROVE  /\ incoming'[i].received <= incoming'[i].wire.size
                 /\ ~incoming'[i].fin /\ streams'[i].state # "DONE" =>
                      Resumable(incoming'[i].wire, streams'[i], incoming'[i].received)
      <4>1. CASE i = id
        BY <1>5, <1>6, <1>9, <4>1
      <4>2. CASE i # id
        <5>1. i \in StreamIds
          BY <1>4 DEF SessionInv, TypeOK
        <5> QED BY <1>4, <1>9, <4>2, <5>1 DEF SessionInv, ParserInv
      <4> QED BY <4>1, <4>2
    <3> QED BY <3>1, <3>2 DEF ParserInv
  <2> QED BY <1>1, <1>2, <1>4, <1>5, <1>8, <1>9, <2>1 DEF Delivers
<1>10. CASE streams[id].state = "DONE"
  <2>1. /\ streams' = streams
        /\ IF n > 0 THEN Refuse(ExtraData, StillAwaiting(id, f)) ELSE Quiet(StillAwaiting(id, f))
    BY <1>1, <1>10 DEF onStreamData
  <2>2. Delivers(id, f)
    BY <1>7, <1>9, <1>10, <2>1
  <2>3. SameRelays
    BY <2>1 DEF SameRelays, Relayed
  <2> QED BY <2>1, <2>2, <2>3 DEF NoBaton
<1>11. CASE streams[id].state # "DONE"
  <2>1. /\ streams' = [streams EXCEPT ![id] = r.ms]
        /\ \/ ~r.ok /\ Refuse(BRUH, StillAwaiting(id, f))
           \/ r.ok /\ r.ms.state # "DONE" /\ Quiet(StillAwaiting(id, f))
           \/ r.ok /\ r.ms.state = "DONE"
                   /\ onBatonMessage(id, r.ms.baton, StillAwaiting(id, f))
    BY <1>1, <1>11 DEF onStreamData, x
  <2>2. Resumable(x.wire, streams[id], x.received)
    BY <1>1, <1>2, <1>11 DEF SessionInv, ParserInv, x
  <2>3. Correct(x.wire, x.received, n, f, r)
    BY <1>3, <2>2, onBatonMessageDataCorrect
  <2>4. r.ms \in BatonMessageState
    BY <2>3 DEF Correct
  <2> HIDE DEF r
  <2>5. streams' \in [StreamIds -> BatonMessageState] /\ streams'[id] = r.ms
    BY <1>2, <1>7, <2>1, <2>4
  <2>6. \A i \in StreamIds \ {id} : streams'[i] = streams[i]
    BY <1>7, <2>1
  <2>7. ~f /\ r.ms.state # "DONE" => Resumable(x.wire, r.ms, x.received + n)
    <3>1. MessageSize(x.wire) \in Nat
      BY <1>3 DEF MessageSize, BatonOffset, Wire
    <3> QED BY <1>3, <2>3, <3>1 DEF Correct
  <2>8. Delivers(id, f)
    BY <1>9, <2>5, <2>6, <2>7
  <2>9. ~Relayed(id)
    BY <1>11 DEF Relayed
  <2>10. Relayed(id)' <=> r.ok /\ r.ms.state = "DONE"
    BY <2>3, <2>5 DEF Relayed, Correct
  <2>11. \A i \in StreamIds \ {id} : Relayed(i)' <=> Relayed(i)
    BY <2>6 DEF Relayed
  <2>12. CASE r.ok /\ r.ms.state = "DONE"
    <3>1. Relays(id)
      BY <2>4, <2>5, <2>9, <2>10, <2>12 DEF Relays, BatonMessageState
    <3> QED BY <2>1, <2>5, <2>8, <2>12, <3>1
  <2>13. CASE ~(r.ok /\ r.ms.state = "DONE")
    <3>1. SameRelays
      BY <2>6, <2>9, <2>10, <2>11, <2>13 DEF SameRelays
    <3>2. NoBaton(id, f)
      BY <2>1, <2>13 DEF NoBaton
    <3> QED BY <2>8, <3>1, <3>2
  <2> QED BY <2>12, <2>13
<1> QED BY <1>10, <1>11

\* The reads that remain pending: extra are the streams that this step makes
\* readable, and whose reading it starts.
LEMMA ReadsGoOn ==
  ASSUME SessionInv, NEW id, NEW f \in BOOLEAN, Delivers(id, f), NEW extra,
         awaiting' = StillAwaiting(id, f) \cup extra,
         \A i \in StreamIds : Readable(i)' <=> Readable(i) \/ i \in extra,
         extra \cap DOMAIN incoming = {}, extra \cap failed = {}
  PROVE  ReadsInv'
<1> SUFFICES ASSUME NEW i \in StreamIds
             PROVE  i \in awaiting' <=> /\ Readable(i)'
                                        /\ i \notin failed'
                                        /\ i \in DOMAIN incoming' => ~incoming'[i].fin
  BY DEF ReadsInv
<1>1. i \in awaiting <=> /\ Readable(i)
                         /\ i \notin failed
                         /\ i \in DOMAIN incoming => ~incoming[i].fin
  BY DEF SessionInv, ReadsInv
<1>2. failed' = failed /\ DOMAIN incoming' = DOMAIN incoming
  BY DEF Delivers
<1>3. CASE i = id
  <2>1. /\ i \in awaiting /\ i \in DOMAIN incoming /\ Readable(i) /\ i \notin failed
        /\ incoming'[i].fin = f
    BY <1>3 DEF Delivers
  <2> QED BY <1>2, <1>3, <2>1 DEF StillAwaiting
<1>4. CASE i # id
  <2>1. i \in DOMAIN incoming => incoming'[i] = incoming[i]
    BY <1>4 DEF Delivers
  <2>2. i \in StillAwaiting(id, f) <=> i \in awaiting
    BY <1>4 DEF StillAwaiting
  <2> QED BY <1>1, <1>2, <2>1, <2>2
<1> QED BY <1>3, <1>4

\* What is left to show of a chunk that opens no stream.
LEMMA DeliversOnOpened ==
  ASSUME SessionInv, NEW id, NEW f \in BOOLEAN, Delivers(id, f),
         opened' = opened, awaiting' = StillAwaiting(id, f),
         tally' \in Tally, written' \in [StreamIds -> Seq(Written)],
         datagrams' \subseteq Byte, closes' \in Seq(CloseCode),
         WritesInv', TallyInv'
  PROVE  SessionInv'
<1>1. TypeOK'
  <2>1. awaiting' \subseteq StreamIds
    BY DEF StillAwaiting, SessionInv, TypeOK
  <2>2. DOMAIN incoming' \subseteq StreamIds /\ \A i \in DOMAIN incoming' : incoming'[i] \in Incoming
    BY DEF Delivers, SessionInv, TypeOK
  <2> QED BY <2>1, <2>2 DEF Delivers, SessionInv, TypeOK
<1>2. /\ \A k : LocalStreams(k)' = LocalStreams(k)
      /\ \A i : Readable(i)' <=> Readable(i)
  BY ReadableKept DEF Delivers
<1>3. IdleInv'
  BY DEF IdleInv, Delivers
<1>4. OpenedInv'
  BY <1>2 DEF SessionInv, OpenedInv, Mode, Delivers
<1>5. ReadsInv'
  <2>1. awaiting' = StillAwaiting(id, f) \cup {}
    OBVIOUS
  <2>2. \A i \in StreamIds : Readable(i)' <=> Readable(i) \/ i \in {}
    BY <1>2
  <2>3. {} \cap DOMAIN incoming = {} /\ {} \cap failed = {}
    OBVIOUS
  <2> QED BY <2>1, <2>2, <2>3, ReadsGoOn
<1> QED BY <1>1, <1>3, <1>4, <1>5 DEF Delivers, SessionInv

\* A chunk that completes no message, or is refused.
LEMMA NoBatonStep ==
  ASSUME SessionInv, NEW id, NEW f \in BOOLEAN, Delivers(id, f), SameRelays, NoBaton(id, f)
  PROVE  SessionInv'
<1>1. /\ awaiting' = StillAwaiting(id, f)
      /\ tally' = tally /\ written' = written /\ opened' = opened /\ datagrams' = datagrams
      /\ \/ closes' = closes
         \/ \E code \in {BRUH, ExtraData} : closes' = Append(closes, code)
  BY DEF NoBaton, Quiet, Refuse
<1>2. closes \in Seq(CloseCode) /\ tally \in Tally /\ datagrams \subseteq Byte
      /\ written \in [StreamIds -> Seq(Written)]
  BY DEF SessionInv, TypeOK
<1>3. \A code \in {BRUH, ExtraData} : code \in CloseCode \ {NoError}
  BY DEF BRUH, ExtraData, CloseCode, NoError
<1>4. closes' \in Seq(CloseCode) /\ (Closed(DA_YAMN) => Closed(DA_YAMN)')
  <2>1. ASSUME NEW code \in {BRUH, ExtraData}, closes' = Append(closes, code)
        PROVE  closes' \in Seq(CloseCode) /\ (Closed(DA_YAMN) => Closed(DA_YAMN)')
    BY <1>2, <1>3, <2>1, Appended DEF Closed
  <2>2. CASE closes' = closes
    BY <1>2, <2>2 DEF Closed
  <2> QED BY <1>1, <2>1, <2>2
<1>5. WritesInv'
  BY <1>1, <1>4, SameRelaysFacts, WritesKept DEF SessionInv, Delivers
<1>6. TallyInv'
  BY <1>1, <1>2, <1>3, SameRelaysFacts, TallyKept DEF SessionInv, Delivers
<1> QED BY <1>1, <1>2, <1>4, <1>5, <1>6, DeliversOnOpened

\* What the relaying of a baton says of the others.
LEMMA RelaysFacts ==
  ASSUME NEW id \in StreamIds, Relays(id),
         \A i \in StreamIds \ {id} : streams'[i] = streams[i]
  PROVE  /\ RelaysLast
         /\ \A i \in StreamIds \ {id} : Relayed(i)' <=> Relayed(i)
         /\ id \notin Returned
         /\ Returned' = IF streams'[id].baton = 0 THEN Returned \cup {id} ELSE Returned
<1>1. \A i \in StreamIds \ {id} : Relayed(i)' <=> Relayed(i)
  BY DEF Relayed
<1> QED BY <1>1 DEF Relays, RelaysLast, Returned

\* The returned batons are finitely many.
LEMMA ReturnedFinite == IsFiniteSet(Returned)
<1>1. 0 \in Int /\ 4 * MaxStreams - 1 \in Int
  BY MaxStreamsAssumption
<1>2. IsFiniteSet(StreamIds)
  BY <1>1, FS_Interval DEF StreamIds
<1> QED BY <1>2, FS_Subset DEF Returned

\* onBatonFinished as onBatonMessage calls it, without a reset.
LEMMA FinishFacts ==
  ASSUME TypeOK, tally.reset = 0, NEW b \in Byte, Finish(b)
  PROVE  /\ b # 0 => tally' = tally /\ closes' = closes
         /\ b = 0 /\ tally.active = 0 => tally' = tally /\ closes' = Append(closes, BRUH)
         /\ b = 0 /\ tally.active # 0 =>
              /\ tally' = [active |-> tally.active - 1, reset |-> 0,
                           finished |-> tally.finished + 1]
              /\ closes' = IF tally.active = 1 THEN Append(closes, NoError) ELSE closes
<1> DEFINE r == onBatonFinished(tally, WhoFinished(b), FALSE)
<1>1. /\ closes \in Seq(CloseCode)
      /\ tally \in Tally /\ tally.active \in Nat /\ tally.finished \in Nat
  BY DEF TypeOK, Tally
<1>2. tally' = r.tally /\ closes' = closes \o r.closes
  BY DEF Finish
<1>3. /\ closes \o <<>> = closes
      /\ closes \o <<BRUH>> = Append(closes, BRUH)
      /\ closes \o <<NoError>> = Append(closes, NoError)
  BY <1>1, Appended, ConcatEmptySeq DEF CloseCode
<1> HIDE DEF r
<1>4. CASE b # 0
  <2>1. b + 1 # 0
    BY <1>4 DEF Byte
  <2>2. r = [tally |-> tally, closes |-> <<>>]
    BY <1>4, <2>1 DEF onBatonFinished, WhoFinished, r
  <2> QED BY <1>2, <1>3, <1>4, <2>2
<1>5. CASE b = 0 /\ tally.active = 0
  <2>1. r = [tally |-> tally, closes |-> <<BRUH>>]
    BY <1>5 DEF onBatonFinished, WhoFinished, r
  <2> QED BY <1>2, <1>3, <1>5, <2>1
<1>6. CASE b = 0 /\ tally.active # 0
  <2> DEFINE u == [active |-> tally.active - 1, reset |-> 0, finished |-> tally.finished + 1]
  <2>1. tally.reset + Bit(FALSE) = 0 /\ tally.finished + Bit(~FALSE) = tally.finished + 1
    BY <1>1 DEF Bit
  <2>2. u.finished > 0 /\ (u.active = 0 <=> tally.active = 1)
    BY <1>1, <1>6
  <2>3. WhoFinished(b) = "PEER"
    BY <1>6 DEF WhoFinished
  <2>4. r = [tally |-> u, closes |-> IF tally.active = 1 THEN <<NoError>> ELSE <<>>]
    BY <1>6, <2>1, <2>2, <2>3 DEF onBatonFinished, r
  <2> HIDE DEF u
  <2>5. tally' = u /\ closes' = IF tally.active = 1 THEN Append(closes, NoError) ELSE closes
    BY <1>2, <1>3, <2>4
  <2> QED BY <1>6, <2>5 DEF u
<1> QED BY <1>4, <1>5, <1>6

\* The tally after a baton that was relayed.
LEMMA FinishKeepsTally ==
  ASSUME SessionInv, NEW id, NEW f \in BOOLEAN, Delivers(id, f), Relays(id),
         Finish(streams'[id].baton)
  PROVE  /\ TallyInv' /\ tally' \in Tally /\ closes' \in Seq(CloseCode)
         /\ Closed(DA_YAMN) => Closed(DA_YAMN)'
<1> DEFINE b == streams'[id].baton
           C == Cardinality(Returned)
<1>1. /\ b \in Byte /\ id \in StreamIds
      /\ phase = "playing" /\ phase' = "playing" /\ requested' = requested
      /\ closes \in Seq(CloseCode) /\ requested \in Nat
      /\ tally \in Tally /\ tally.active \in Nat /\ tally.finished \in Nat /\ tally.reset = 0
  BY DEF Relays, Delivers, SessionInv, TypeOK, TallyInv, Tally, kMaxParallelBatons
<1>2. /\ id \notin Returned
      /\ Returned' = IF b = 0 THEN Returned \cup {id} ELSE Returned
  BY <1>1, RelaysFacts DEF Delivers
<1>3. /\ b # 0 => tally' = tally /\ closes' = closes
      /\ b = 0 /\ tally.active = 0 => tally' = tally /\ closes' = Append(closes, BRUH)
      /\ b = 0 /\ tally.active # 0 =>
           /\ tally' = [active |-> tally.active - 1, reset |-> 0,
                        finished |-> tally.finished + 1]
           /\ closes' = IF tally.active = 1 THEN Append(closes, NoError) ELSE closes
  BY <1>1, FinishFacts DEF SessionInv
<1>4. b = 0 => C \in Nat /\ Cardinality(Returned') = C + 1
  BY <1>2, ReturnedFinite, FS_CardinalityType, FS_AddElement
<1>5. tally.active + tally.finished = requested /\ tally.finished = AtMost(requested, C)
  BY <1>1 DEF SessionInv, TallyInv, BatonsAreConserved, Playing
<1>6. Closed(NoError) <=> requested > 0 /\ tally.active = 0
  BY <1>1 DEF SessionInv, TallyInv, CleanCloseMeansAllReturned, Playing
<1>7. \A i, j \in DOMAIN closes : closes[i] = NoError /\ closes[j] = NoError => i = j
  BY DEF SessionInv, TallyInv, CleanCloseMeansAllReturned
<1>8. NoError \in CloseCode /\ BRUH \in CloseCode /\ BRUH # NoError
  BY DEF CloseCode, NoError, BRUH
<1> HIDE DEF b, C
<1>9. CASE b # 0
  <2>1. tally' = tally /\ closes' = closes
    BY <1>3, <1>9
  <2>2. TallyInv'
    BY <1>1, <1>2, <1>9, <2>1, TallyKept DEF SessionInv
  <2> QED BY <1>1, <2>1, <2>2 DEF Closed
<1>10. CASE b = 0 /\ tally.active = 0
  <2>1. tally' = tally /\ closes' = Append(closes, BRUH)
    BY <1>3, <1>10
  <2>2. closes' \in Seq(CloseCode) /\ \A c : Closed(c)' <=> Closed(c) \/ c = BRUH
    BY <1>1, <1>8, <2>1, Appended DEF Closed
  <2>3. ASSUME NEW i \in DOMAIN closes', NEW j \in DOMAIN closes',
               closes'[i] = NoError, closes'[j] = NoError
        PROVE  i = j
    <3>1. i \in DOMAIN closes /\ j \in DOMAIN closes
      BY <1>1, <1>8, <2>1, <2>3, Appended
    <3>2. closes[i] = NoError /\ closes[j] = NoError
      BY <1>1, <1>8, <2>1, <2>3, <3>1, Appended
    <3> QED BY <1>7, <3>1, <3>2
  <2>4. CleanCloseMeansAllReturned'
    BY <1>1, <1>6, <1>8, <2>1, <2>2, <2>3 DEF CleanCloseMeansAllReturned
  <2>5. AtMost(requested, C + 1) = AtMost(requested, C)
    BY <1>1, <1>4, <1>5, <1>10 DEF AtMost
  <2>6. BatonsAreConserved'
    BY <1>1, <1>4, <1>5, <1>10, <2>1, <2>5 DEF BatonsAreConserved
  <2> QED BY <1>1, <2>1, <2>2, <2>4, <2>6 DEF TallyInv
<1>11. CASE b = 0 /\ tally.active # 0
  <2>1. ~Closed(NoError)
    BY <1>6, <1>11
  <2>2. \/ tally.active = 1 /\ closes' = Append(closes, NoError)
        \/ tally.active # 1 /\ closes' = closes
    BY <1>3, <1>11
  <2>3. closes' \in Seq(CloseCode)
        /\ \A c : Closed(c)' <=> Closed(c) \/ (tally.active = 1 /\ c = NoError)
    <3>1. CASE tally.active = 1 /\ closes' = Append(closes, NoError)
      BY <1>1, <1>8, <3>1, Appended DEF Closed
    <3>2. CASE tally.active # 1 /\ closes' = closes
      BY <1>1, <3>2 DEF Closed
    <3> QED BY <2>2, <3>1, <3>2
  <2>4. ASSUME NEW i \in DOMAIN closes', NEW j \in DOMAIN closes',
               closes'[i] = NoError, closes'[j] = NoError
        PROVE  i = j
    <3>1. CASE closes' = Append(closes, NoError)
      <4>1. i \in 1 .. Len(closes) + 1 /\ j \in 1 .. Len(closes) + 1 /\ Len(closes) \in Nat
            /\ DOMAIN closes = 1 .. Len(closes)
        BY <1>1, <1>8, <2>4, <3>1, Appended
      <4>2. \A m \in DOMAIN closes : closes'[m] # NoError
        BY <1>1, <1>8, <2>1, <3>1, Appended DEF Closed
      <4> QED BY <2>4, <4>1, <4>2
    <3>2. CASE closes' = closes
      BY <1>7, <2>4, <3>2
    <3> QED BY <2>2, <3>1, <3>2
  <2>5. tally' \in Tally /\ tally'.active = tally.active - 1
        /\ tally'.finished = tally.finished + 1 /\ tally'.reset = 0
    BY <1>1, <1>3, <1>11 DEF Tally
  <2>6. tally.finished < requested
    BY <1>1, <1>5, <1>11
  <2>7. AtMost(requested, C + 1) = tally.finished + 1
    BY <1>1, <1>4, <1>5, <1>11, <2>6 DEF AtMost
  <2>8. BatonsAreConserved'
    <3>1. tally'.active + tally'.reset + tally'.finished = requested
      BY <1>1, <1>5, <2>5
    <3> QED BY <1>1, <1>4, <1>11, <2>5, <2>7, <3>1 DEF BatonsAreConserved
  <2>9. CleanCloseMeansAllReturned'
    <3>1. Closed(NoError)' <=> requested' > 0 /\ tally'.active = 0
      BY <1>1, <2>1, <2>3, <2>5, <2>6
    <3> QED BY <2>4, <3>1 DEF CleanCloseMeansAllReturned
  <2>10. TallyInv'
    BY <1>1, <2>5, <2>8, <2>9 DEF TallyInv
  <2> QED BY <2>3, <2>5, <2>10
<1> QED BY <1>9, <1>10, <1>11

\* A baton comes back to be taken out of play.
LEMMA TakeBackStep ==
  ASSUME SessionInv, NEW id, NEW f \in BOOLEAN, Delivers(id, f), Relays(id),
         datagrams' \subseteq Byte,
         TakeBack(id, streams'[id].baton, StillAwaiting(id, f))
  PROVE  SessionInv'
<1>1. /\ streams'[id].baton = 0 /\ awaiting' = StillAwaiting(id, f)
      /\ Finish(streams'[id].baton) /\ written' = written /\ opened' = opened
  BY DEF TakeBack
<1>2. /\ TallyInv' /\ tally' \in Tally /\ closes' \in Seq(CloseCode)
      /\ Closed(DA_YAMN) => Closed(DA_YAMN)'
  BY <1>1, FinishKeepsTally
<1>3. RelaysLast /\ NoneToAnswer
  <2>1. id \in StreamIds /\ \A i \in StreamIds \ {id} : streams'[i] = streams[i]
    BY DEF Delivers
  <2>2. RelaysLast /\ \A i \in StreamIds \ {id} : Relayed(i)' <=> Relayed(i)
    BY <2>1, RelaysFacts
  <2> QED BY <1>1, <2>2 DEF NoneToAnswer
<1>4. WritesInv'
  BY <1>1, <1>2, <1>3, WritesKept DEF SessionInv, Delivers
<1>5. written' \in [StreamIds -> Seq(Written)]
  BY <1>1 DEF SessionInv, TypeOK
<1> QED BY <1>1, <1>2, <1>4, <1>5, DeliversOnOpened

\* There is no credit for the reply, and the session is closed.
LEMMA NoCreditStep ==
  ASSUME SessionInv, NEW id, NEW f \in BOOLEAN, Delivers(id, f), Relays(id),
         datagrams' \subseteq Byte, NEW k \in Kinds,
         NoCredit(k, id, streams'[id].baton, StillAwaiting(id, f))
  PROVE  SessionInv'
<1>1. /\ streams'[id].baton # 0 /\ awaiting' = StillAwaiting(id, f)
      /\ closes' = Append(closes, DA_YAMN)
      /\ tally' = tally /\ written' = written /\ opened' = opened
  BY DEF NoCredit
<1>2. /\ closes \in Seq(CloseCode) /\ tally' \in Tally
      /\ written' \in [StreamIds -> Seq(Written)]
      /\ DA_YAMN \in CloseCode \ {NoError}
  BY <1>1 DEF SessionInv, TypeOK, CloseCode, NoError, DA_YAMN
<1>3. closes' \in Seq(CloseCode) /\ Closed(DA_YAMN)'
  BY <1>1, <1>2, Appended DEF Closed
<1>4. RelaysLast /\ Returned' = Returned
  BY <1>1, RelaysFacts DEF Delivers
<1>5. WritesInv'
  BY <1>1, <1>3, <1>4, WritesKept DEF NoneToAnswer, SessionInv, Delivers
<1>6. TallyInv'
  BY <1>1, <1>2, <1>4, TallyKept DEF SessionInv, Delivers
<1> QED BY <1>1, <1>2, <1>3, <1>5, <1>6, DeliversOnOpened

\* A reply to the baton of id on a stream that carried nothing so far.
LEMMA ReplyKeepsWrites ==
  ASSUME SessionInv, NEW id, NEW f \in BOOLEAN, Delivers(id, f), Relays(id),
         NEW out \in StreamIds, written[out] = <<>>,
         streams'[id].baton # 0, WriteReply(out, id, streams'[id].baton),
         Closed(DA_YAMN) => Closed(DA_YAMN)',
         \A k \in Kinds : LocalStreams(k) \subseteq LocalStreams(k)',
         RightStream(id, out)',
         \/ \E k \in Kinds : out \in LocalStreams(k)'
         \/ ~IsUni(out) /\ out \in DOMAIN incoming
  PROVE  WritesInv' /\ written' \in [StreamIds -> Seq(Written)]
<1> DEFINE m == Message(streams'[id].baton + 1, id)
<1>1. /\ id \in StreamIds /\ end' = end /\ DOMAIN incoming' = DOMAIN incoming
      /\ \A i \in StreamIds \ {id} : streams'[i] = streams[i]
      /\ written \in [StreamIds -> Seq(Written)]
      /\ written' = [written EXCEPT ![out] = Append(@, m)]
  BY DEF Delivers, WriteReply, SessionInv, TypeOK
<1>2. m \in Written /\ m.cause = id /\ m.wire.baton = (streams'[id].baton + 1) % 256
  <2>1. streams'[id].baton \in Byte
    BY DEF Relays
  <2>2. streams'[id].baton + 1 \in Nat
    <3>1. \A b \in Byte : b + 1 \in Nat
      BY DEF Byte
    <3> QED BY <2>1, <3>1
  <2>3. id \in StreamIds \cup {Unprompted}
    BY <1>1
  <2> QED BY <2>2, <2>3, MessageFacts
<1> HIDE DEF m
<1>3. written'[out] = <<m>> /\ \A o \in StreamIds \ {out} : written'[o] = written[o]
  BY <1>1
<1>4. written' \in [StreamIds -> Seq(Written)]
  <2>1. <<m>> \in Seq(Written)
    BY <1>2
  <2>2. \A o \in StreamIds : written'[o] \in Seq(Written)
    BY <1>1, <1>3, <2>1
  <2>3. DOMAIN written' = StreamIds /\ written' = [o \in DOMAIN written' |-> written'[o]]
    BY <1>1
  <2> QED BY <2>2, <2>3
<1>5. /\ written'[out] # <<>> /\ Len(written'[out]) = 1
      /\ written'[out][1] = m
  BY <1>3
<1>6. \A j : IsAnswer(out, j)' <=> j = id
  BY <1>2, <1>5 DEF IsAnswer
<1>7. /\ \A o \in StreamIds \ {out} : \A j : IsAnswer(o, j)' <=> IsAnswer(o, j)
      /\ \A j : ~IsAnswer(out, j)
  BY <1>3 DEF IsAnswer
<1>8. /\ RelaysLast /\ \A i \in StreamIds \ {id} : Relayed(i)' <=> Relayed(i)
      /\ ~Relayed(id) /\ Relayed(id)'
  BY <1>1, RelaysFacts DEF Relays
<1>9. \A i : ArrivedOn(Mode, i)' = ArrivedOn(Mode, i)
  BY <1>1 DEF Mode
<1>10. \A i, o : RightStream(i, o) => RightStream(i, o)'
  BY <1>9 DEF RightStream, Kinds
<1>11. WritesAreLegal'
  <2> SUFFICES ASSUME NEW o \in StreamIds
               PROVE  /\ Len(written'[o]) <= 1
                      /\ written'[o] # <<>> => \/ \E k \in Kinds : o \in LocalStreams(k)'
                                               \/ ~IsUni(o) /\ o \in DOMAIN incoming'
    BY DEF WritesAreLegal
  <2>1. CASE o = out
    <3>1. Len(written'[o]) \in {1} /\ \A l \in {1} : l <= 1
      BY <1>5, <2>1
    <3> QED BY <1>1, <2>1, <3>1
  <2>2. CASE o # out
    <3>1. WritesAreLegal
      BY DEF SessionInv, WritesInv
    <3> QED BY <1>1, <1>3, <2>2, <3>1 DEF WritesAreLegal
  <2> QED BY <2>1, <2>2
<1>12. \A o \in StreamIds : IsAnswer(o, Unprompted)' =>
         o \in LocalStreams("uni")' /\ written'[o][1].wire.baton # 0
  <2>1. id # Unprompted
    BY <1>1 DEF StreamIds, Unprompted
  <2>2. "uni" \in Kinds
    BY DEF Kinds
  <2> QED BY <1>3, <1>6, <1>7, <2>1, <2>2 DEF SessionInv, WritesInv
<1>13. \A i, o \in StreamIds : IsAnswer(o, i)' => AnswerIsRight(i, o)'
  <2> SUFFICES ASSUME NEW i \in StreamIds, NEW o \in StreamIds, IsAnswer(o, i)'
               PROVE  AnswerIsRight(i, o)'
    OBVIOUS
  <2>1. CASE o = out
    <3>1. i = id
      BY <1>6, <2>1
    <3> QED BY <1>2, <1>5, <1>8, <2>1, <3>1 DEF AnswerIsRight
  <2>2. CASE o # out
    <3>1. AnswerIsRight(i, o)
      BY <1>7, <2>2 DEF SessionInv, WritesInv
    <3>2. Relayed(i)' /\ streams'[i].baton = streams[i].baton /\ RightStream(i, o)'
      BY <1>8, <1>10, <3>1 DEF AnswerIsRight, RelaysLast
    <3> QED BY <1>3, <2>2, <3>1, <3>2 DEF AnswerIsRight
  <2> QED BY <2>1, <2>2
<1>14. \A o \in StreamIds : ~IsAnswer(o, id)
  BY <1>1, <1>8 DEF SessionInv, WritesInv, AnswerIsRight
<1>15. \A i, o, other \in StreamIds : IsAnswer(o, i)' /\ IsAnswer(other, i)' => o = other
  <2> SUFFICES ASSUME NEW i \in StreamIds, NEW o \in StreamIds, NEW other \in StreamIds,
                      IsAnswer(o, i)', IsAnswer(other, i)'
               PROVE  o = other
    OBVIOUS
  <2>1. CASE i = id
    BY <1>7, <1>14, <2>1
  <2>2. CASE i # id
    <3>1. o # out /\ other # out
      BY <1>6, <2>2
    <3>2. IsAnswer(o, i) /\ IsAnswer(other, i)
      BY <1>7, <3>1
    <3> QED BY <3>2 DEF SessionInv, WritesInv
  <2> QED BY <2>1, <2>2
<1>16. \A i \in StreamIds : Relayed(i)' /\ streams'[i].baton # 0 =>
         Closed(DA_YAMN)' \/ \E o \in StreamIds : IsAnswer(o, i)'
  <2> SUFFICES ASSUME NEW i \in StreamIds, Relayed(i)', streams'[i].baton # 0,
                      ~Closed(DA_YAMN)'
               PROVE  \E o \in StreamIds : IsAnswer(o, i)'
    OBVIOUS
  <2>1. CASE i = id
    BY <1>6, <2>1
  <2>2. CASE i # id
    <3>1. Relayed(i) /\ streams[i].baton # 0 /\ ~Closed(DA_YAMN)
      BY <1>1, <1>8, <2>2
    <3>2. PICK o \in StreamIds : IsAnswer(o, i)
      BY <3>1 DEF SessionInv, WritesInv
    <3> QED BY <1>7, <3>2
  <2> QED BY <2>1, <2>2
<1> QED BY <1>4, <1>11, <1>12, <1>13, <1>15, <1>16 DEF WritesInv

\* Nothing was written yet on a bidirectional stream of the peer whose baton
\* was not relayed.
LEMMA PeerBidiUnwritten ==
  ASSUME SessionInv, NEW id \in StreamIds, ~Relayed(id), ArrivedOn(Mode, id) = "PEER_BIDI"
  PROVE  written[id] = <<>>
<1>1. ~IsUni(id) /\ ~(ByServer(id) <=> Mode = "SERVER")
  BY DEF ArrivedOn, ByServer
<1>2. \A k \in Kinds : id \notin LocalStreams(k)
  <2> SUFFICES ASSUME NEW k \in Kinds, NEW i \in 0 .. opened[k] - 1, id = Local(k, i)
               PROVE  FALSE
    BY DEF LocalStreams
  <2> QED BY <1>1, LocalIds
<1> SUFFICES ASSUME written[id] # <<>> PROVE FALSE
  OBVIOUS
<1>3. written[id] \in Seq(Written) /\ Len(written[id]) \in Nat /\ Len(written[id]) # 0
  BY DEF SessionInv, TypeOK
<1>4. written[id][1] \in Written
  BY <1>3, ElementOfSeq
<1>5. written[id][1].cause \in StreamIds \cup {Unprompted}
  BY <1>4 DEF Written
<1>6. IsAnswer(id, written[id][1].cause)
  BY DEF IsAnswer
<1>7. CASE written[id][1].cause = Unprompted
  BY <1>2, <1>6, <1>7 DEF SessionInv, WritesInv, Kinds
<1>8. CASE written[id][1].cause \in StreamIds
  <2>1. AnswerIsRight(written[id][1].cause, id)
    BY <1>6, <1>8 DEF SessionInv, WritesInv
  <2> QED BY <1>2, <2>1 DEF AnswerIsRight, RightStream, Kinds
<1> QED BY <1>5, <1>7, <1>8

\* The reply goes on the stream the baton came on.
LEMMA ReplyOnSameStep ==
  ASSUME SessionInv, NEW id, NEW f \in BOOLEAN, Delivers(id, f), Relays(id),
         datagrams' \subseteq Byte,
         ReplyOnSame(id, streams'[id].baton, StillAwaiting(id, f))
  PROVE  SessionInv'
<1>1. /\ streams'[id].baton # 0 /\ ArrivedOn(Mode, id) = "PEER_BIDI"
      /\ awaiting' = StillAwaiting(id, f) /\ WriteReply(id, id, streams'[id].baton)
      /\ Finish(streams'[id].baton) /\ opened' = opened
  BY DEF ReplyOnSame
<1>2. /\ TallyInv' /\ tally' \in Tally /\ closes' \in Seq(CloseCode)
      /\ Closed(DA_YAMN) => Closed(DA_YAMN)'
  BY <1>1, FinishKeepsTally
<1>3. /\ id \in StreamIds /\ id \in DOMAIN incoming /\ ~IsUni(id)
      /\ \A k \in Kinds : LocalStreams(k) \subseteq LocalStreams(k)'
      /\ RightStream(id, id)'
  <2>1. id \in StreamIds /\ id \in DOMAIN incoming /\ end' = end /\ DOMAIN incoming' = DOMAIN incoming
    BY DEF Delivers
  <2>2. ArrivedOn(Mode, id)' = "PEER_BIDI"
    BY <1>1, <2>1 DEF Mode
  <2>3. RightStream(id, id)'
    BY <2>2 DEF RightStream
  <2>4. ~IsUni(id)
    BY <1>1 DEF ArrivedOn
  <2> QED BY <1>1, <2>1, <2>3, <2>4, ReadableKept
<1>4. written[id] = <<>>
  BY <1>1, <1>3, PeerBidiUnwritten DEF Relays
<1>5. WritesInv' /\ written' \in [StreamIds -> Seq(Written)]
  BY <1>1, <1>2, <1>3, <1>4, ReplyKeepsWrites
<1> QED BY <1>1, <1>2, <1>5, DeliversOnOpened

\* The reply goes on a new stream, which is read if it is bidirectional.
LEMMA ReplyOnNewStep ==
  ASSUME SessionInv, NEW id, NEW f \in BOOLEAN, Delivers(id, f), Relays(id),
         datagrams' \subseteq Byte, NEW k \in Kinds,
         ReplyOnNew(k, id, streams'[id].baton, StillAwaiting(id, f))
  PROVE  SessionInv'
<1>1. PICK out : out = Local(k, opened[k])
  OBVIOUS
<1> DEFINE extra == IF k = "bidi" THEN {out} ELSE {}
<1>2. /\ streams'[id].baton # 0
      /\ ArrivedOn(Mode, id) = IF k = "bidi" THEN "UNI" ELSE "SELF_BIDI"
      /\ CanOpen(k) /\ opened' = [opened EXCEPT ![k] = @ + 1]
      /\ WriteReply(out, id, streams'[id].baton)
      /\ awaiting' = StillAwaiting(id, f) \cup extra
      /\ Finish(streams'[id].baton)
  BY <1>1 DEF ReplyOnNew
<1>3. /\ TallyInv' /\ tally' \in Tally /\ closes' \in Seq(CloseCode)
      /\ Closed(DA_YAMN) => Closed(DA_YAMN)'
  BY <1>2, FinishKeepsTally
<1>4. /\ out \in StreamIds /\ out \notin DOMAIN incoming /\ out \notin failed
      /\ written[out] = <<>>
  BY <1>1, <1>2, NextStream DEF SessionInv, WritesInv
<1>5. /\ end' = end /\ phase' = "playing" /\ failed' = failed /\ limit' = limit
      /\ DOMAIN incoming' = DOMAIN incoming /\ "bidi" \in Kinds /\ "uni" \in Kinds
  BY DEF Delivers, Kinds
<1>6. /\ LocalStreams(k)' = LocalStreams(k) \cup {out}
      /\ \A l \in Kinds \ {k} : LocalStreams(l)' = LocalStreams(l)
  BY <1>1, <1>2, <1>5, LocalStreamsGrow DEF SessionInv
<1>7. out \in LocalStreams(k)' /\ \A l \in Kinds : LocalStreams(l) \subseteq LocalStreams(l)'
  BY <1>6
<1>8. RightStream(id, out)'
  <2>1. ArrivedOn(Mode, id)' = ArrivedOn(Mode, id)
    BY <1>5 DEF Mode
  <2>2. CASE k = "bidi"
    <3>1. ArrivedOn(Mode, id)' = "UNI" /\ out \in LocalStreams("bidi")'
      BY <1>2, <1>7, <2>1, <2>2
    <3> QED BY <3>1 DEF RightStream
  <2>3. CASE k = "uni"
    <3>1. ArrivedOn(Mode, id)' = "SELF_BIDI" /\ out \in LocalStreams("uni")'
      BY <1>2, <1>7, <2>1, <2>3
    <3> QED BY <3>1 DEF RightStream
  <2> QED BY <2>2, <2>3 DEF Kinds
<1>9. WritesInv' /\ written' \in [StreamIds -> Seq(Written)]
  BY <1>2, <1>3, <1>4, <1>7, <1>8, ReplyKeepsWrites
<1>10. LocalStreams("bidi")' = LocalStreams("bidi") \cup extra
  BY <1>5, <1>6
<1>11. \A i \in StreamIds : Readable(i)' <=> Readable(i) \/ i \in extra
  <2>1. \A i : HostReads(i)' <=> HostReads(i)
    BY <1>5 DEF HostReads
  <2> QED BY <1>5, <1>10, <2>1 DEF Readable
<1>12. extra \cap DOMAIN incoming = {} /\ extra \cap failed = {} /\ extra \subseteq StreamIds
  BY <1>4
<1> HIDE DEF extra
<1>13. ReadsInv'
  BY <1>2, <1>11, <1>12, ReadsGoOn
<1>14. opened' \in [Kinds -> 0 .. MaxStreams] /\ \A l \in Kinds : opened'[l] <= limit'[l]
  BY <1>2, <1>5, MaxStreamsAssumption DEF CanOpen, SessionInv, TypeOK, OpenedInv
<1>15. OpenedInv'
  <2>1. \A i \in DOMAIN incoming' : (ByServer(i) <=> Mode' = "SERVER") => i \in LocalStreams("bidi")'
    BY <1>5, <1>10 DEF SessionInv, OpenedInv, Mode
  <2>2. \A i \in failed' : Readable(i)'
    BY <1>5, <1>11 DEF SessionInv, OpenedInv, TypeOK
  <2> QED BY <1>14, <2>1, <2>2 DEF OpenedInv
<1>16. TypeOK'
  <2>1. awaiting' \subseteq StreamIds
    BY <1>2, <1>12 DEF StillAwaiting, SessionInv, TypeOK
  <2>2. DOMAIN incoming' \subseteq StreamIds /\ \A i \in DOMAIN incoming' : incoming'[i] \in Incoming
    BY DEF Delivers, SessionInv, TypeOK
  <2> QED BY <1>3, <1>9, <1>14, <2>1, <2>2 DEF Delivers, SessionInv, TypeOK
<1>17. IdleInv' /\ ParserInv'
  BY <1>5 DEF IdleInv, Delivers
<1> QED BY <1>3, <1>9, <1>13, <1>15, <1>16, <1>17 DEF SessionInv

\* Any chunk on any stream.
LEMMA ReadDataStep ==
  ASSUME SessionInv, NEW id, NEW n \in Nat, NEW f \in BOOLEAN, ReadData(id, n, f)
  PROVE  SessionInv'
<1>1. /\ Delivers(id, f)
      /\ \/ SameRelays /\ NoBaton(id, f)
         \/ Relays(id) /\ onBatonMessage(id, streams'[id].baton, StillAwaiting(id, f))
  BY ReadDataFacts
<1>2. CASE SameRelays /\ NoBaton(id, f)
  BY <1>1, <1>2, NoBatonStep
<1>3. CASE Relays(id) /\ onBatonMessage(id, streams'[id].baton, StillAwaiting(id, f))
  <2>1. datagrams' \subseteq Byte
    BY <1>3 DEF onBatonMessage, Echo, Relays, SessionInv, TypeOK
  <2> QED BY <1>1, <1>3, <2>1, TakeBackStep, ReplyOnSameStep, ReplyOnNewStep, NoCreditStep
             DEF onBatonMessage
<1> QED BY <1>1, <1>2, <1>3
-----------------------------------------------------------------------------
(* The theorems about Spec.                                                  *)

\* At first the invariant holds for want of anything that could break it.
LEMMA InitSession == Init => SessionInv
<1> SUFFICES ASSUME Init PROVE SessionInv
  OBVIOUS
<1>1. /\ end \in Ends /\ phase = "idle" /\ requested = 0
      /\ tally = [active |-> 0, reset |-> 0, finished |-> 0]
      /\ streams = [id \in StreamIds |-> NewMessageState]
      /\ awaiting = {} /\ incoming = [id \in {} |-> {}] /\ failed = {}
      /\ written = [id \in StreamIds |-> <<>>]
      /\ opened = [k \in Kinds |-> 0]
      /\ limit = [k \in Kinds |-> IF k = "uni" THEN end.uni ELSE end.bidi]
      /\ datagrams = {} /\ closes = <<>>
  BY DEF Init
<1>2. MaxStreams \in Nat /\ end.uni \in 0 .. MaxStreams /\ end.bidi \in 0 .. MaxStreams
  BY <1>1, EndsAssumption, MaxStreamsAssumption DEF End
<1>3. NewMessageState \in BatonMessageState
  BY DEF NewMessageState, BatonMessageState, State, Byte
<1>4. <<>> \in Seq(Written) /\ <<>> \in Seq(CloseCode) /\ Len(<<>>) = 0 /\ DOMAIN incoming = {}
  BY <1>1
<1>5. TypeOK
  BY <1>1, <1>2, <1>3, <1>4 DEF TypeOK, kMaxParallelBatons, Tally
<1>6. IdleInv
  BY <1>1, <1>4 DEF IdleInv
<1>7. OpenedInv
  BY <1>1, <1>2, <1>4 DEF OpenedInv
<1>8. opened["bidi"] = 0
  BY <1>1 DEF Kinds
<1>9. ReadsInv
  BY <1>1, <1>4, <1>8 DEF ReadsInv, Readable, LocalStreams
<1>10. ParserInv
  BY <1>1, <1>4 DEF ParserInv
<1>11. /\ \A id \in StreamIds : ~Relayed(id) /\ written[id] = <<>>
       /\ \A id, out \in StreamIds : ~IsAnswer(out, id)
       /\ \A out \in StreamIds : ~IsAnswer(out, Unprompted)
  BY <1>1 DEF Relayed, NewMessageState, IsAnswer
<1>12. WritesInv
  <2>1. \A n \in {0} : n <= 1
    OBVIOUS
  <2>2. WritesAreLegal
    BY <1>4, <1>11, <2>1 DEF WritesAreLegal
  <2> QED BY <1>11, <2>2 DEF WritesInv
<1>13. TallyInv
  <2>1. Returned = {} /\ Cardinality(Returned) = 0
    BY <1>11, FS_EmptySet DEF Returned
  <2> QED BY <1>1, <2>1
          DEF TallyInv, BatonsAreConserved, CleanCloseMeansAllReturned, Closed, AtMost
<1> QED BY <1>5, <1>6, <1>7, <1>9, <1>10, <1>12, <1>13 DEF SessionInv

\* A stream that is read delivers some number of bytes.
LEMMA ReadingIsOfData ==
  ASSUME SessionInv, \E id \in awaiting \cap DOMAIN incoming : Reading(id)
  PROVE  \E id \in awaiting \cap DOMAIN incoming, f \in BOOLEAN, n \in Nat : ReadData(id, n, f)
<1>1. PICK id \in awaiting \cap DOMAIN incoming : Reading(id)
  OBVIOUS
<1>2. incoming[id].wire.size \in Nat
  BY <1>1, WiresAssumption DEF SessionInv, TypeOK, Incoming, Wire
<1>3. \A n \in 0 .. incoming[id].wire.size : n \in Nat
  BY <1>2
<1> QED BY <1>1, <1>3 DEF Reading

\* Every step once the session is being played.
LEMMA PlayStep ==
  ASSUME SessionInv, Play
  PROVE  SessionInv'
<1>1. CASE Transport
  BY <1>1, GrantCreditStep, PeerSteps DEF Transport
<1>2. CASE \E id \in awaiting \cap DOMAIN incoming : Reading(id)
  BY <1>2, ReadingIsOfData, ReadDataStep
<1>3. CASE \E id \in awaiting : ReadError(id)
  BY <1>3, ReadErrorStep
<1> QED BY <1>1, <1>2, <1>3 DEF Play

\* The invariant is about batonVars alone.
LEMMA StutterStep ==
  ASSUME SessionInv, UNCHANGED batonVars
  PROVE  SessionInv'
<1>1. /\ end' = end /\ phase' = phase /\ requested' = requested /\ tally' = tally
      /\ streams' = streams /\ awaiting' = awaiting /\ incoming' = incoming
      /\ failed' = failed /\ written' = written /\ opened' = opened
      /\ limit' = limit /\ datagrams' = datagrams /\ closes' = closes
  BY DEF batonVars
<1>2. SameRelays
  BY <1>1 DEF SameRelays, Relayed
<1>3. TypeOK' /\ IdleInv'
  BY <1>1 DEF SessionInv, TypeOK, IdleInv
<1>4. OpenedInv' /\ ReadsInv' /\ ParserInv'
  BY <1>1, ReadableKept DEF SessionInv, OpenedInv, ReadsInv, ParserInv, Mode
<1>5. WritesInv' /\ TallyInv'
  BY <1>1, <1>2, SameRelaysFacts, WritesKept, TallyKept DEF SessionInv, TypeOK, Closed
<1> QED BY <1>3, <1>4, <1>5 DEF SessionInv

\* A session may be opened in either mode.
LEMMA OpeningStep ==
  ASSUME SessionInv, Opening
  PROVE  SessionInv'
<1>1. PICK r \in Requests : IF Mode = "SERVER" THEN Accept(r)
                            ELSE RequestStatus(r) = 200 /\ makeRequest(RequestedCount(r))
  BY DEF Opening
<1>2. CASE Mode = "SERVER"
  BY <1>1, <1>2, AcceptStep
<1>3. CASE Mode # "SERVER"
  <2>1. RequestedCount(r) \in 0 .. kMaxParallelBatons
    BY <1>1, <1>3, StartingBatonsFacts
  <2> QED BY <1>1, <1>3, <2>1, makeRequestStep
<1> QED BY <1>2, <1>3

\* SessionInv holds in every state of one end of a session, for any credit,
\* any requests and anything the peer writes.
THEOREM SessionInvariant == Spec => []SessionInv
<1>1. SessionInv /\ [Next]_batonVars => SessionInv'
  BY PlayStep, OpeningStep, StutterStep DEF Next
<1> QED BY InitSession, <1>1, PTL DEF Spec

\* Types, among them that every message and every closing code is one the
\* code can produce.
THEOREM SessionTypes == Spec => []TypeOK
<1>1. SessionInv => TypeOK
  BY DEF SessionInv
<1> QED BY <1>1, SessionInvariant, PTL

\* No baton is lost or counted twice (onBatonFinished and its callers).
THEOREM Conservation == Spec => []BatonsAreConserved
<1>1. SessionInv => BatonsAreConserved
  BY DEF SessionInv, TallyInv
<1> QED BY <1>1, SessionInvariant, PTL

\* The session is closed without an error once, when the last baton is back.
THEOREM CleanClose == Spec => []CleanCloseMeansAllReturned
<1>1. SessionInv => CleanCloseMeansAllReturned
  BY DEF SessionInv, TallyInv
<1> QED BY <1>1, SessionInvariant, PTL

\* No stream is written after its FIN, nor one this end may not write.
THEOREM LegalWrites == Spec => []WritesAreLegal
<1>1. SessionInv => WritesAreLegal
  BY DEF SessionInv, WritesInv
<1> QED BY <1>1, SessionInvariant, PTL

\* A reply never costs another stream its pending read.
THEOREM PendingReads == Spec => []ReadsArePending
<1>1. SessionInv => ReadsArePending
  BY DEF SessionInv, ReadsInv, ReadsArePending
<1> QED BY <1>1, SessionInvariant, PTL

\* In terms of messages: since no stream carries two, out answers id exactly
\* if its first message does.
LEMMA AnswersAreFirst ==
  ASSUME TypeOK, WritesAreLegal, NEW id, NEW out \in StreamIds
  PROVE  (\E i \in DOMAIN written[out] : written[out][i].cause = id) <=> IsAnswer(out, id)
<1>1. written[out] \in Seq(Written) /\ Len(written[out]) <= 1
  BY DEF TypeOK, WritesAreLegal
<1>2. DOMAIN written[out] = 1 .. Len(written[out]) /\ Len(written[out]) \in Nat
  BY <1>1, LenProperties
<1>3. CASE written[out] = <<>>
  <2>1. DOMAIN written[out] = {}
    BY <1>3
  <2> QED BY <1>3, <2>1 DEF IsAnswer
<1>4. CASE written[out] # <<>>
  <2>1. Len(written[out]) # 0
    BY <1>1, <1>4, EmptySeq
  <2>2. DOMAIN written[out] = {1}
    BY <1>1, <1>2, <2>1
  <2> QED BY <1>4, <2>2 DEF IsAnswer
<1> QED BY <1>3, <1>4

\* Each baton other than zero is answered once, with its successor and on
\* the right kind of stream, or the session is closed for want of credit.
THEOREM AnsweredOnce == Spec => []BatonsAreAnswered
<1>1. SessionInv => BatonsAreAnswered
  <2> SUFFICES ASSUME SessionInv, NEW id \in StreamIds
               PROVE  IF Relayed(id) /\ streams[id].baton # 0
                      THEN /\ Cardinality(Answers(id)) <= 1
                           /\ Answers(id) = {} => Closed(DA_YAMN)
                           /\ \A out \in Answers(id) :
                                /\ RightStream(id, out)
                                /\ written[out][1].wire.baton = (streams[id].baton + 1) % 256
                      ELSE Answers(id) = {}
    BY DEF BatonsAreAnswered
  <2>1. Answers(id) = {out \in StreamIds : IsAnswer(out, id)}
    BY AnswersAreFirst DEF Answers, SessionInv, WritesInv
  <2>2. \A out \in Answers(id) : AnswerIsRight(id, out)
    BY <2>1 DEF SessionInv, WritesInv
  <2>3. Relayed(id) /\ streams[id].baton # 0 /\ Answers(id) = {} => Closed(DA_YAMN)
    BY <2>1 DEF SessionInv, WritesInv
  <2>4. Cardinality(Answers(id)) <= 1
    <3>1. CASE Answers(id) = {}
      <4>1. Cardinality(Answers(id)) = 0
        BY <3>1, FS_EmptySet
      <4> QED BY <4>1
    <3>2. CASE Answers(id) # {}
      <4>1. PICK out : out \in Answers(id)
        BY <3>2
      <4>2. Answers(id) = {out}
        BY <2>1, <4>1 DEF SessionInv, WritesInv
      <4>3. Cardinality(Answers(id)) = 1
        BY <4>2, FS_Singleton
      <4> QED BY <4>3
    <3> QED BY <3>1, <3>2
  <2> QED BY <2>2, <2>3, <2>4 DEF AnswerIsRight
<1> QED BY <1>1, SessionInvariant, PTL
-----------------------------------------------------------------------------
(* DeviousBatonHandler: the response beside the session.                     *)

\* A refused request has its response ended and leaves no session; one whose
\* response was not sent has neither.
ResponseInv ==
  /\ response \in {0, 200, 400, 404, 500}
  /\ egressEOMs \in {0, 1}
  /\ ~transaction \/ response \in {400, 404, 500} => egressEOMs = 1
  /\ response = 0 => egressEOMs = 0
  /\ phase # "idle" => response = 200

\* The first k of the batons that r asks for were started, and all of them
\* unless the process ended.
StartedFrom(r, k) ==
  /\ k = AskedFor(r) \/ (k < AskedFor(r) /\ phase = "crashed")
  /\ Started = {LocalUni("SERVER", i) : i \in 0 .. k - 1}
  /\ \A i \in 0 .. k - 1 : LET b == written[LocalUni("SERVER", i)][1].wire.baton
                          IN  b = Asked(r, i) /\ b # 0
StartedInv == phase # "idle" => \E r \in accepted, k \in 0 .. kMaxParallelBatons : StartedFrom(r, k)

HandlerInv == SessionInv /\ ServerEnd /\ ResponseInv /\ StartedInv

\* The batons of start are those that the request asked for, in their places.
LEMMA StartingBatonsAreAsked ==
  ASSUME NEW r, RequestStatus(r) = 200
  PROVE  /\ Len(StartingBatons(r)) = AskedFor(r) /\ AskedFor(r) \in 0 .. kMaxParallelBatons
         /\ \A i \in 1 .. AskedFor(r) : StartingBatons(r)[i] = Asked(r, i - 1)
<1> DEFINE given == IF r.baton = {} THEN <<>> ELSE <<CHOOSE b \in r.baton : TRUE>>
           g == Len(given)
           n == RequestedCount(r)
           fill == [i \in 1 .. n - g |-> 255 - (g + i - 1)]
<1>1. /\ n \in 0 .. kMaxParallelBatons
      /\ Len(StartingBatons(r)) = n \/ (Len(StartingBatons(r)) = 1 /\ n = 0)
  BY StartingBatonsFacts
<1>2. /\ r.baton = {} => given = <<>> /\ g = 0
      /\ r.baton # {} => given = <<Asked(r, 0)>> /\ g = 1
  <2>1. CASE r.baton = {}
    BY <2>1
  <2>2. CASE r.baton # {}
    <3>1. PICK b : b = CHOOSE x \in r.baton : TRUE
      OBVIOUS
    <3>2. Asked(r, 0) = b
      BY <2>2, <3>1 DEF Asked
    <3>3. given = <<b>>
      BY <2>2, <3>1
    <3>4. Len(<<b>>) = 1
      OBVIOUS
    <3> QED BY <2>2, <3>2, <3>3, <3>4
  <2> QED BY <2>1, <2>2
<1>3. StartingBatons(r) = given \o fill
  BY DEF StartingBatons
<1>4. fill \in Seq(Int) /\ Len(fill) = (IF n >= g THEN n - g ELSE 0)
      /\ \A i \in 1 .. n - g : fill[i] = 255 - (g + i - 1)
  <2>1. n \in Nat /\ g \in {0, 1} /\ n - g \in Int
    BY <1>1, <1>2 DEF kMaxParallelBatons
  <2> HIDE DEF n, g
  <2>2. fill \in [1 .. n - g -> Int]
    BY <2>1
  <2>3. CASE n >= g
    <3>1. n - g \in Nat
      BY <2>1, <2>3
    <3>2. fill \in Seq(Int)
      BY <2>2, <3>1, SeqDef
    <3>3. Len(fill) = n - g
      BY <2>2, <3>1, <3>2, LenProperties
    <3> QED BY <2>3, <3>2, <3>3
  <2>4. CASE ~(n >= g)
    <3>1. 1 .. n - g = {}
      BY <2>1, <2>4
    <3>2. fill = <<>>
      BY <3>1
    <3> HIDE DEF fill
    <3> QED BY <2>4, <3>1, <3>2
  <2> QED BY <2>3, <2>4
<1>5. \E S : given \in Seq(S) /\ fill \in Seq(S)
  <2> DEFINE S == Int \cup {Asked(r, 0)}
  <2>1. <<>> \in Seq(S) /\ <<Asked(r, 0)>> \in Seq(S)
    OBVIOUS
  <2>2. given \in Seq(S)
    BY <1>2, <2>1
  <2> HIDE DEF given, g
  <2>3. fill \in Seq(S)
    BY <1>4
  <2> QED BY <2>3, <2>2
<1> HIDE DEF given, fill, g, n
<1>6. /\ Len(given \o fill) = g + Len(fill) /\ g \in {0, 1} /\ g = Len(given)
      /\ \A i \in 1 .. Len(given \o fill) :
           (given \o fill)[i] = IF i <= g THEN given[i] ELSE fill[i - g]
  <2>1. g = Len(given) /\ g \in {0, 1}
    BY <1>2 DEF g
  <2> QED BY <1>5, <2>1, ConcatProperties
<1>7. /\ AskedFor(r) = g + Len(fill) /\ AskedFor(r) \in 0 .. kMaxParallelBatons
  <2>1. AskedFor(r) = IF n = 0 /\ r.baton # {} THEN 1 ELSE n
    BY DEF AskedFor, n
  <2>2. n \in Int /\ 0 <= n /\ n <= 10
    BY <1>1 DEF kMaxParallelBatons
  <2>3. CASE r.baton = {}
    <3>1. AskedFor(r) = n /\ g = 0
      BY <1>2, <2>1, <2>3
    <3>2. Len(fill) = n
      BY <1>4, <2>2, <3>1
    <3> QED BY <2>2, <3>1, <3>2 DEF kMaxParallelBatons
  <2>4. CASE r.baton # {}
    BY <1>2, <1>4, <2>1, <2>2, <2>4 DEF kMaxParallelBatons
  <2> QED BY <2>3, <2>4
<1>8. ASSUME NEW i \in 1 .. AskedFor(r) PROVE (given \o fill)[i] = Asked(r, i - 1)
  <2>1. i \in Int /\ 1 <= i /\ i <= g + Len(fill) /\ n \in Nat
    BY <1>1, <1>7 DEF kMaxParallelBatons
  <2>2. CASE i <= g
    <3>1. i = 1 /\ g = 1
      BY <1>6, <2>1, <2>2
    <3> QED BY <1>2, <1>6, <1>7, <3>1
  <2>3. CASE i > g
    <3>1. i - g \in 1 .. n - g
      BY <1>4, <1>6, <2>1, <2>3
    <3>2. (given \o fill)[i] = 255 - (i - 1)
      BY <1>4, <1>6, <1>7, <2>1, <2>3, <3>1
    <3>3. Asked(r, i - 1) = 255 - (i - 1)
      BY <1>2, <1>6, <2>1, <2>3 DEF Asked
    <3> QED BY <3>2, <3>3
  <2> QED BY <1>6, <2>1, <2>2, <2>3
<1> QED BY <1>3, <1>6, <1>7, <1>8

\* A started stream is one whose message is a first one,
StartedAreFirst == Started = {out \in StreamIds : IsAnswer(out, Unprompted)}
LEMMA StartedIsFirst == SessionInv => StartedAreFirst
BY AnswersAreFirst DEF StartedAreFirst, Started, SessionInv, WritesInv
\* in the next state as well.
LEMMA StartedIsFirstNext == SessionInv' => StartedAreFirst'
BY StartedIsFirst, PTL

\* Writing a reply starts no baton: it goes on a stream that carried nothing,
\* as otherwise it would carry two messages afterwards.
LEMMA ReplyStartsNone ==
  ASSUME SessionInv, WritesAreLegal', NEW out \in StreamIds, NEW id \in StreamIds,
         NEW baton \in Byte, WriteReply(out, id, baton)
  PROVE  \A o \in StreamIds : /\ IsAnswer(o, Unprompted)' <=> IsAnswer(o, Unprompted)
                              /\ IsAnswer(o, Unprompted) => written'[o][1] = written[o][1]
<1> DEFINE m == Message(baton + 1, id)
<1>1. /\ written \in [StreamIds -> Seq(Written)]
      /\ written' = [written EXCEPT ![out] = Append(@, m)]
  BY DEF WriteReply, SessionInv, TypeOK
<1>2. m \in Written /\ m.cause = id
  <2>1. \A b \in Byte : b + 1 \in Nat
    BY DEF Byte
  <2>2. baton + 1 \in Nat /\ id \in StreamIds \cup {Unprompted}
    BY <2>1
  <2> QED BY <2>2, MessageFacts
<1> HIDE DEF m
<1>3. /\ written'[out] = Append(written[out], m)
      /\ \A o \in StreamIds \ {out} : written'[o] = written[o]
  BY <1>1
<1>4. written[out] = <<>>
  <2>1. written[out] \in Seq(Written) /\ Len(written'[out]) = Len(written[out]) + 1
    BY <1>1, <1>2, <1>3, Appended
  <2>2. Len(written'[out]) <= 1
    BY DEF WritesAreLegal
  <2>3. Len(written[out]) = 0
    BY <2>1, <2>2
  <2> QED BY <2>1, <2>3, EmptySeq
<1>5. written'[out] = <<m>>
  BY <1>3, <1>4
<1>6. written'[out][1] = m
  BY <1>5
<1>7. id # Unprompted
  BY DEF StreamIds, Unprompted
<1> QED BY <1>2, <1>3, <1>4, <1>6, <1>7 DEF IsAnswer

\* A session that is being played has started all that it will.
LEMMA PlayStartsNone ==
  ASSUME SessionInv, SessionInv', Play
  PROVE  /\ phase = "playing" /\ phase' = phase /\ Started' = Started
         /\ \A o \in Started : written'[o][1] = written[o][1]
<1> DEFINE Same == /\ phase = "playing" /\ phase' = phase
                   /\ \A o \in StreamIds :
                        /\ IsAnswer(o, Unprompted)' <=> IsAnswer(o, Unprompted)
                        /\ IsAnswer(o, Unprompted) => written'[o][1] = written[o][1]
<1> SUFFICES Same
  <2>1. /\ Started = {out \in StreamIds : IsAnswer(out, Unprompted)}
        /\ Started' = {out \in StreamIds : IsAnswer(out, Unprompted)'}
    BY StartedIsFirst, StartedIsFirstNext DEF StartedAreFirst
  <2> QED BY <2>1
<1>1. ASSUME phase = "playing", phase' = phase, written' = written
      PROVE  Same
  BY <1>1 DEF IsAnswer
<1>2. CASE Transport
  <2>1. phase = "playing" /\ phase' = phase /\ written' = written
    BY <1>2 DEF Transport, GrantCredit, PeerOpens, PeerReplies
  <2> QED BY <1>1, <2>1
<1>3. CASE \E id \in awaiting : ReadError(id)
  <2>1. phase = "playing" /\ phase' = phase /\ written' = written
    BY <1>3 DEF ReadError
  <2> QED BY <1>1, <2>1
<1>4. CASE \E id \in awaiting \cap DOMAIN incoming : Reading(id)
  <2>1. PICK id \in awaiting \cap DOMAIN incoming, f \in BOOLEAN :
          \E n \in Nat : ReadData(id, n, f)
    BY <1>4, ReadingIsOfData
  <2>2. /\ Delivers(id, f)
        /\ \/ NoBaton(id, f)
           \/ Relays(id) /\ onBatonMessage(id, streams'[id].baton, StillAwaiting(id, f))
    BY <2>1, ReadDataFacts
  <2>3. /\ phase = "playing" /\ phase' = phase
        /\ id \in StreamIds
    BY <2>2 DEF Delivers
  <2>4. CASE NoBaton(id, f)
    BY <1>1, <2>3, <2>4 DEF NoBaton, Quiet, Refuse
  <2>5. CASE Relays(id) /\ onBatonMessage(id, streams'[id].baton, StillAwaiting(id, f))
    <3>1. \/ written' = written
          \/ WriteReply(id, id, streams'[id].baton)
          \/ \E k \in Kinds : CanOpen(k) /\ WriteReply(Local(k, opened[k]), id, streams'[id].baton)
      BY <2>5 DEF onBatonMessage, TakeBack, ReplyOnSame, ReplyOnNew, NoCredit
    <3>2. streams'[id].baton \in Byte /\ WritesAreLegal'
      BY <2>5 DEF Relays, SessionInv, WritesInv
    <3>3. ASSUME NEW k \in Kinds, CanOpen(k) PROVE Local(k, opened[k]) \in StreamIds
      BY <3>3, NextStream DEF SessionInv, WritesInv
    <3> QED BY <1>1, <2>3, <3>1, <3>2, <3>3, ReplyStartsNone
  <2> QED BY <2>2, <2>4, <2>5
<1> QED BY <1>2, <1>3, <1>4 DEF Play

\* A step that writes no first message and leaves the session what it is
\* leaves what was started right.
LEMMA StartedStays ==
  ASSUME StartedInv, phase' = phase, accepted' = accepted, Started' = Started,
         \A o \in Started : written'[o][1] = written[o][1]
  PROVE  StartedInv'
<1> SUFFICES ASSUME phase # "idle"
             PROVE  \E r \in accepted, k \in 0 .. kMaxParallelBatons : StartedFrom(r, k)'
  BY DEF StartedInv
<1>1. PICK r \in accepted, k \in 0 .. kMaxParallelBatons : StartedFrom(r, k)
  BY DEF StartedInv
<1>2. ASSUME NEW i \in 0 .. k - 1
      PROVE  written'[LocalUni("SERVER", i)][1] = written[LocalUni("SERVER", i)][1]
  BY <1>1 DEF StartedFrom
<1>3. StartedFrom(r, k)'
  BY <1>1, <1>2 DEF StartedFrom
<1> QED BY <1>1, <1>3

\* An accepted request starts the batons it asked for, each on a stream of its
\* own, as far as the credit goes.
LEMMA AcceptStarts ==
  ASSUME SessionInv, SessionInv', ServerEnd, NEW r \in Requests, Accept(r), accepted' = {r}
  PROVE  StartedInv'
<1>1. /\ phase = "idle" /\ RequestStatus(r) = 200
      /\ start(StartingBatons(r)) /\ end' = end
  BY DEF Accept
<1> DEFINE batons == StartingBatons(r)
<1>2. /\ batons \in Seq(FirstBaton)
      /\ Len(batons) = AskedFor(r) /\ AskedFor(r) \in 0 .. kMaxParallelBatons
      /\ \A i \in 1 .. AskedFor(r) : batons[i] = Asked(r, i - 1)
  BY <1>1, StartingBatonsFacts, StartingBatonsAreAsked
<1>3. PICK k \in 0 .. Len(batons) :
        /\ LocalStreams("uni")' = {Local("uni", i - 1) : i \in 1 .. k}
        /\ LocalStreams("uni")' \subseteq StreamIds
        /\ \A i \in 1 .. k : written'[Local("uni", i - 1)] = <<Message(batons[i], Unprompted)>>
        /\ \/ k = Len(batons) /\ phase' = "playing"
           \/ k < Len(batons) /\ phase' = "crashed"
  <2>1. TypeOK /\ IdleInv
    BY DEF SessionInv
  <2> HIDE DEF batons
  <2> QED BY <1>1, <1>2, <2>1, StartWrites DEF batons
<1> HIDE DEF batons
<1>4. k \in 0 .. kMaxParallelBatons /\ k \in Nat /\ k <= AskedFor(r)
  BY <1>2, <1>3 DEF kMaxParallelBatons
<1>5. \A i : Local("uni", i) = LocalUni("SERVER", i)
  BY DEF Local, ServerEnd
<1>6. ASSUME NEW i \in 1 .. k
      PROVE  LET out == LocalUni("SERVER", i - 1)
             IN  /\ written'[out] # <<>> /\ written'[out][1].cause = Unprompted
                 /\ written'[out][1].wire.baton = Asked(r, i - 1)
                 /\ written'[out][1].wire.baton # 0
  <2>1. batons[i] \in FirstBaton /\ batons[i] = Asked(r, i - 1)
    <3>1. i \in 1 .. Len(batons) /\ i \in 1 .. AskedFor(r)
      BY <1>2, <1>4
    <3> QED BY <1>2, <3>1, ElementOfSeq
  <2>2. batons[i] \in Nat /\ batons[i] % 256 = batons[i] /\ batons[i] # 0
    <3>1. \A b \in 1 .. 255 : b \in Nat /\ b % 256 = b /\ b # 0
      OBVIOUS
    <3> QED BY <2>1, <3>1 DEF FirstBaton
  <2> DEFINE m == Message(batons[i], Unprompted)
  <2>3. m.cause = Unprompted /\ m.wire.baton = batons[i] % 256
    BY <2>2, MessageFacts
  <2> HIDE DEF m
  <2>4. written'[LocalUni("SERVER", i - 1)] = <<m>>
    BY <1>3, <1>5 DEF m
  <2>5. /\ written'[LocalUni("SERVER", i - 1)] # <<>>
        /\ written'[LocalUni("SERVER", i - 1)][1] = m
    BY <2>4
  <2> QED BY <2>1, <2>2, <2>3, <2>5
<1>7. Started' = {out \in StreamIds : IsAnswer(out, Unprompted)'}
  BY StartedIsFirstNext DEF StartedAreFirst
<1>8. Started' = {LocalUni("SERVER", i - 1) : i \in 1 .. k}
  <2>1. LocalStreams("uni")' = {LocalUni("SERVER", i - 1) : i \in 1 .. k}
    BY <1>3, <1>5
  <2>2. \A out \in StreamIds : IsAnswer(out, Unprompted)' => out \in LocalStreams("uni")'
    BY DEF SessionInv, WritesInv
  <2>3. \A i \in 1 .. k : IsAnswer(LocalUni("SERVER", i - 1), Unprompted)'
    BY <1>6 DEF IsAnswer
  <2>4. \A i \in 1 .. k : LocalUni("SERVER", i - 1) \in StreamIds
    BY <1>3, <2>1
  <2> QED BY <1>7, <2>1, <2>2, <2>3, <2>4
<1>9. \A i \in 0 .. k - 1 : i + 1 \in 1 .. k /\ i + 1 - 1 = i
  BY <1>4
<1>10. \A i \in 1 .. k : i - 1 \in 0 .. k - 1
  BY <1>4
<1>11. Started' = {LocalUni("SERVER", i) : i \in 0 .. k - 1}
  BY <1>8, <1>9, <1>10
<1>12. \A i \in 0 .. k - 1 : /\ written'[LocalUni("SERVER", i)][1].wire.baton = Asked(r, i)
                            /\ written'[LocalUni("SERVER", i)][1].wire.baton # 0
  <2> SUFFICES ASSUME NEW i \in 0 .. k - 1
               PROVE  /\ written'[LocalUni("SERVER", i)][1].wire.baton = Asked(r, i)
                      /\ written'[LocalUni("SERVER", i)][1].wire.baton # 0
    OBVIOUS
  <2>1. PICK j \in 1 .. k : j = i + 1 /\ j - 1 = i
    BY <1>9
  <2> QED BY <1>6, <2>1
<1>13. k = AskedFor(r) \/ (k < AskedFor(r) /\ phase' = "crashed")
  BY <1>2, <1>3
<1>14. StartedFrom(r, k)'
  BY <1>11, <1>12, <1>13 DEF StartedFrom
<1> QED BY <1>4, <1>14 DEF StartedInv

\* Every step of the handler is one of the session, or none.
LEMMA HandlerSteps ==
  ASSUME ServerEnd, [HandlerNext]_allVars
  PROVE  [Next]_batonVars
<1>1. ASSUME NEW r \in Requests, Acceptance(r) PROVE Next
  <2>1. Mode = "SERVER" /\ Accept(r)
    BY <1>1 DEF ServerEnd, Acceptance
  <2> QED BY <2>1 DEF Next, Opening
<1>2. ASSUME NEW r \in Requests, NEW wt \in BOOLEAN, onHeadersComplete(r, wt)
      PROVE  Next \/ UNCHANGED batonVars
  BY <1>1, <1>2 DEF onHeadersComplete, Refusal
<1>3. onEOM \/ CloseEndsResponse => UNCHANGED batonVars
  BY DEF onEOM, CloseEndsResponse
<1>4. UNCHANGED allVars => UNCHANGED batonVars
  BY DEF allVars
<1> QED BY <1>2, <1>3, <1>4 DEF HandlerNext, Next

\* An end stays what it is.
LEMMA EndStays ==
  ASSUME [Next]_batonVars
  PROVE  end' = end
<1>1. Opening => end' = end
  BY DEF Opening, Accept, makeRequest
<1>2. Transport => end' = end
  BY DEF Transport, GrantCredit, PeerOpens, PeerReplies
<1>3. (\E id \in awaiting \cap DOMAIN incoming : Reading(id)) => end' = end
  BY DEF Reading, ReadData
<1>4. (\E id \in awaiting : ReadError(id)) => end' = end
  BY DEF ReadError
<1>5. UNCHANGED batonVars => end' = end
  BY DEF batonVars
<1> QED BY <1>1, <1>2, <1>3, <1>4, <1>5 DEF Next, Play

\* HandlerInv is inductive.
LEMMA HandlerStep ==
  ASSUME HandlerInv, [HandlerNext]_allVars
  PROVE  HandlerInv'
<1>1. SessionInv' /\ ServerEnd'
  <2>1. SessionInv'
    BY HandlerSteps, PlayStep, OpeningStep, StutterStep DEF HandlerInv, Next
  <2>2. end' = end
    BY HandlerSteps, EndStays DEF HandlerInv
  <2> QED BY <2>1, <2>2 DEF HandlerInv, ServerEnd, Mode
<1>2. UNCHANGED <<batonVars, accepted>> => StartedInv'
  <2> SUFFICES ASSUME UNCHANGED <<batonVars, accepted>> PROVE StartedInv'
    OBVIOUS
  <2>1. phase' = phase /\ accepted' = accepted /\ written' = written
    BY DEF batonVars
  <2>2. Started' = Started
    BY <2>1 DEF Started
  <2> QED BY <2>1, <2>2, StartedStays DEF HandlerInv
<1>3. ResponseInv
  BY DEF HandlerInv
<1>4. ASSUME NEW r \in Requests, NEW wt \in BOOLEAN, onHeadersComplete(r, wt)
      PROVE  HandlerInv'
  <2> DEFINE status == IF r.method # "CONNECT" THEN 400
                       ELSE IF wt THEN RequestStatus(r) ELSE 500
  <2>1. response = 0 /\ IF status \div 100 = 2 THEN Acceptance(r) ELSE Refusal(status)
    BY <1>4 DEF onHeadersComplete
  <2>2. status \in {200, 400, 404, 500} /\ (status \div 100 = 2 <=> status = 200)
    BY DEF RequestStatus
  <2> HIDE DEF status
  <2>3. CASE status = 200
    <3>1. /\ Accept(r) /\ response' = 200
          /\ transaction' = transaction /\ egressEOMs' = egressEOMs /\ accepted' = {r}
      BY <2>1, <2>2, <2>3 DEF Acceptance
    <3>2. StartedInv'
      BY <1>1, <3>1, AcceptStarts DEF HandlerInv
    <3>3. ResponseInv'
      BY <1>3, <3>1 DEF ResponseInv
    <3> QED BY <1>1, <3>2, <3>3 DEF HandlerInv
  <2>4. CASE status # 200
    <3>1. /\ response' = status /\ egressEOMs' = egressEOMs + 1
          /\ transaction' = FALSE /\ UNCHANGED <<batonVars, accepted>>
      BY <2>1, <2>2, <2>4 DEF Refusal
    <3>2. phase' = phase
      BY <3>1 DEF batonVars
    <3>3. ResponseInv'
      <4>1. egressEOMs' = 1 /\ phase' = "idle"
        BY <1>3, <2>1, <3>1, <3>2 DEF ResponseInv
      <4>2. response' \in {400, 404, 500}
        BY <2>2, <2>4, <3>1
      <4> QED BY <3>1, <4>1, <4>2 DEF ResponseInv
    <3> QED BY <1>1, <1>2, <3>1, <3>3 DEF HandlerInv
  <2> QED BY <2>3, <2>4
<1>5. CASE onEOM
  <2>1. /\ egressEOMs' = IF transaction /\ egressEOMs = 0 THEN 1 ELSE egressEOMs
        /\ response # 0 /\ response' = response /\ transaction' = transaction
        /\ UNCHANGED <<batonVars, accepted>>
    BY <1>5 DEF onEOM
  <2>2. phase' = phase
    BY <2>1 DEF batonVars
  <2>3. ResponseInv'
    BY <1>3, <2>1, <2>2 DEF ResponseInv
  <2> QED BY <1>1, <1>2, <2>1, <2>3 DEF HandlerInv
<1>6. CASE CloseEndsResponse
  <2>1. /\ closes # <<>> /\ egressEOMs' = 1
        /\ response' = response /\ transaction' = transaction
        /\ UNCHANGED <<batonVars, accepted>>
    BY <1>6 DEF CloseEndsResponse
  <2>2. phase' = phase /\ phase # "idle"
    BY <2>1 DEF batonVars, HandlerInv, SessionInv, IdleInv
  <2>3. ResponseInv'
    BY <1>3, <2>1, <2>2 DEF ResponseInv
  <2> QED BY <1>1, <1>2, <2>1, <2>3 DEF HandlerInv
<1>7. CASE Play /\ UNCHANGED handlerVars
  <2>1. /\ phase = "playing" /\ phase' = phase /\ Started' = Started
        /\ \A o \in Started : written'[o][1] = written[o][1]
    BY <1>1, <1>7, PlayStartsNone DEF HandlerInv
  <2>2. /\ response' = response /\ transaction' = transaction /\ egressEOMs' = egressEOMs
        /\ accepted' = accepted
    BY <1>7 DEF handlerVars
  <2>3. ResponseInv'
    BY <1>3, <2>1, <2>2 DEF ResponseInv
  <2>4. StartedInv'
    BY <2>1, <2>2, StartedStays DEF HandlerInv
  <2> QED BY <1>1, <2>3, <2>4 DEF HandlerInv
<1>8. CASE UNCHANGED allVars
  <2>1. /\ response' = response /\ transaction' = transaction /\ egressEOMs' = egressEOMs
        /\ UNCHANGED <<batonVars, accepted>>
    BY <1>8 DEF allVars, handlerVars
  <2>2. phase' = phase
    BY <2>1 DEF batonVars
  <2>3. ResponseInv'
    BY <1>3, <2>1, <2>2 DEF ResponseInv
  <2> QED BY <1>1, <1>2, <2>1, <2>3 DEF HandlerInv
<1> QED BY <1>4, <1>5, <1>6, <1>7, <1>8 DEF HandlerNext

\* HandlerInv holds in every state of the handler.
LEMMA HandlerInvariant == HandlerSpec => []HandlerInv
<1>1. HandlerInit => HandlerInv
  BY InitSession DEF HandlerInit, HandlerInv, ResponseInv, StartedInv, Init
<1>2. HandlerInv /\ [HandlerNext]_allVars => HandlerInv'
  BY HandlerStep
<1> QED BY <1>1, <1>2, PTL DEF HandlerSpec

\* The response is ended at most once, and a refusal ends it at once.
THEOREM OneEndOfResponse == HandlerSpec => []ResponseEndsOnce
<1>1. HandlerInv => ResponseEndsOnce
  BY DEF HandlerInv, ResponseInv, ResponseEndsOnce
<1> QED BY <1>1, HandlerInvariant, PTL

\* A session starts with the number and the values of the batons that its
\* request asked for, each on a stream of its own and none of them 0; fewer
\* only in a process that ended for lack of credit.
THEOREM StartsRight == HandlerSpec => []StartsAsRequested
<1>1. HandlerInv => StartsAsRequested
  <2> SUFFICES ASSUME HandlerInv, phase # "idle"
               PROVE  \E r \in accepted, k \in 0 .. kMaxParallelBatons :
                        response = 200 /\ StartedFrom(r, k)
    BY DEF StartsAsRequested, StartedFrom
  <2>1. response = 200
    BY DEF HandlerInv, ResponseInv
  <2> QED BY <2>1 DEF HandlerInv, StartedInv
<1> QED BY <1>1, HandlerInvariant, PTL

\* The handler only does to a session what DeviousBaton's Spec allows, so
\* everything proved of that holds under the handler.
THEOREM HandlerImplementsDeviousBaton == HandlerSpec => DrivesDeviousBaton
<1>1. HandlerInit => Init
  BY DEF HandlerInit
<1>2. HandlerInv /\ [HandlerNext]_allVars => [Next]_batonVars
  BY HandlerSteps DEF HandlerInv
<1> QED BY <1>1, <1>2, HandlerInvariant, PTL DEF HandlerSpec, DrivesDeviousBaton, Spec
-----------------------------------------------------------------------------
(* The session keeps the promise of BatonSession.                            *)

\* Closing for a fault is a Fault of the abstract session.
LEMMA FaultRefines ==
  ASSUME phase = "playing", phase' = phase, tally' = tally,
         NEW code \in {DA_YAMN, BRUH, ExtraData}, closes' = Append(closes, code)
  PROVE  Session!Next
<1>1. code \in Session!Faults
  BY DEF Session!Faults, Session!DA_YAMN, Session!BRUH, Session!ExtraData,
         DA_YAMN, BRUH, ExtraData
<1>2. Session!Fault(code)
  BY DEF Session!Fault
<1> QED BY <1>1, <1>2 DEF Session!Next

\* A baton that comes back is a Return while any is in play, and a fault
\* once none is; every other baton leaves the tally alone.
LEMMA FinishRefines ==
  ASSUME SessionInv, phase = "playing", phase' = phase, NEW b \in Byte, Finish(b)
  PROVE  [Session!Next]_Session!sessionVars
<1>1. /\ tally \in Tally /\ tally.active \in Nat /\ tally.reset = 0
  BY DEF SessionInv, TypeOK, TallyInv, Tally
<1>2. /\ b # 0 => tally' = tally /\ closes' = closes
      /\ b = 0 /\ tally.active = 0 => tally' = tally /\ closes' = Append(closes, BRUH)
      /\ b = 0 /\ tally.active # 0 =>
           /\ tally' = [active |-> tally.active - 1, reset |-> 0,
                        finished |-> tally.finished + 1]
           /\ closes' = IF tally.active = 1 THEN Append(closes, NoError) ELSE closes
  BY <1>1, FinishFacts DEF SessionInv
<1>3. CASE b # 0
  BY <1>2, <1>3 DEF Session!sessionVars
<1>4. CASE b = 0 /\ tally.active = 0
  <2>1. tally' = tally /\ closes' = Append(closes, BRUH)
    BY <1>2, <1>4
  <2> QED BY <2>1, FaultRefines
<1>5. CASE b = 0 /\ tally.active # 0
  <2>1. /\ tally'.active = tally.active - 1 /\ tally.active > 0
        /\ closes' = IF tally.active = 1 THEN Append(closes, NoError) ELSE closes
    BY <1>1, <1>2, <1>5
  <2>2. Session!NoError = NoError
    BY DEF Session!NoError, NoError
  <2>3. Session!Return
    BY <2>1, <2>2 DEF Session!Return
  <2> QED BY <2>3 DEF Session!Next
<1> QED BY <1>3, <1>4, <1>5

\* Accepting a request agrees on a count.
LEMMA AcceptRefines ==
  ASSUME SessionInv, NEW r \in Requests, Accept(r)
  PROVE  Session!Next
<1>1. /\ phase = "idle" /\ RequestStatus(r) = 200
      /\ tally' = [tally EXCEPT !.active = RequestedCount(r)]
      /\ start(StartingBatons(r))
  BY DEF Accept
<1>2. RequestedCount(r) \in 0 .. kMaxParallelBatons
  BY <1>1, StartingBatonsFacts
<1>3. tally'.active = RequestedCount(r)
  BY <1>1 DEF SessionInv, TypeOK, Tally
<1>4. \/ phase' = "playing" /\ closes' = closes
      \/ phase' = "crashed" /\ closes' = Append(closes, DA_YAMN)
  BY <1>1 DEF start
<1>5. Session!Agree(RequestedCount(r))
  BY <1>1, <1>3, <1>4 DEF Session!Agree, Session!DA_YAMN, DA_YAMN
<1>6. RequestedCount(r) \in 0 .. Session!kMaxParallelBatons
  BY <1>2 DEF Session!kMaxParallelBatons, kMaxParallelBatons
<1> QED BY <1>5, <1>6 DEF Session!Next

\* Whatever happens in a session that is being played.
LEMMA PlayRefines ==
  ASSUME SessionInv, Play
  PROVE  [Session!Next]_Session!sessionVars
<1>1. CASE Transport
  <2>1. phase' = phase /\ tally' = tally /\ closes' = closes
    BY <1>1 DEF Transport, GrantCredit, PeerOpens, PeerReplies
  <2> QED BY <2>1 DEF Session!sessionVars
<1>2. CASE \E id \in awaiting : ReadError(id)
  <2>1. phase' = phase /\ tally' = tally /\ closes' = closes
    BY <1>2 DEF ReadError
  <2> QED BY <2>1 DEF Session!sessionVars
<1>3. CASE \E id \in awaiting \cap DOMAIN incoming : Reading(id)
  <2>1. PICK id \in awaiting \cap DOMAIN incoming, f \in BOOLEAN :
          \E n \in Nat : ReadData(id, n, f)
    BY <1>3, ReadingIsOfData
  <2>2. /\ Delivers(id, f)
        /\ \/ NoBaton(id, f)
           \/ Relays(id) /\ onBatonMessage(id, streams'[id].baton, StillAwaiting(id, f))
    BY <2>1, ReadDataFacts
  <2>3. phase = "playing" /\ phase' = phase
    BY <2>2 DEF Delivers
  <2>4. ASSUME NEW code \in {BRUH, ExtraData}, Refuse(code, StillAwaiting(id, f))
        PROVE  Session!Next
    BY <2>3, <2>4, FaultRefines DEF Refuse
  <2>5. ASSUME Quiet(StillAwaiting(id, f))
        PROVE  UNCHANGED Session!sessionVars
    BY <2>3, <2>5 DEF Quiet, Session!sessionVars
  <2>6. CASE Relays(id) /\ onBatonMessage(id, streams'[id].baton, StillAwaiting(id, f))
    <3>1. streams'[id].baton \in Byte
      BY <2>6 DEF Relays
    <3>2. \/ Finish(streams'[id].baton)
          \/ tally' = tally /\ closes' = Append(closes, DA_YAMN)
      BY <2>6 DEF onBatonMessage, TakeBack, ReplyOnSame, ReplyOnNew, NoCredit
    <3> QED BY <2>3, <3>1, <3>2, FinishRefines, FaultRefines
  <2> QED BY <2>2, <2>4, <2>5, <2>6 DEF NoBaton
<1> QED BY <1>1, <1>2, <1>3 DEF Play

\* The session keeps the promise of BatonSession: a count is agreed once,
\* batons come back one at a time, the last one closes the session without an
\* error, and every other closing code reports a fault.
THEOREM SessionKeepsItsPromise == HandlerSpec => KeepsSessionPromise
<1>1. HandlerInit => Session!Init
  BY DEF HandlerInit, Init, Session!Init
<1>2. HandlerInv /\ [HandlerNext]_allVars => [Session!Next]_Session!sessionVars
  <2> SUFFICES ASSUME HandlerInv, [HandlerNext]_allVars
               PROVE  [Session!Next]_Session!sessionVars
    OBVIOUS
  <2>1. SessionInv
    BY DEF HandlerInv
  <2>2. UNCHANGED batonVars => UNCHANGED Session!sessionVars
    BY DEF batonVars, Session!sessionVars
  <2>3. ASSUME NEW r \in Requests, NEW wt \in BOOLEAN, onHeadersComplete(r, wt)
        PROVE  [Session!Next]_Session!sessionVars
    BY <2>1, <2>2, <2>3, AcceptRefines DEF onHeadersComplete, Acceptance, Refusal
  <2>4. onEOM \/ CloseEndsResponse \/ UNCHANGED allVars => UNCHANGED batonVars
    BY DEF onEOM, CloseEndsResponse, allVars
  <2>5. Play => [Session!Next]_Session!sessionVars
    BY <2>1, PlayRefines
  <2> QED BY <2>2, <2>3, <2>4, <2>5 DEF HandlerNext
<1> QED BY <1>1, <1>2, HandlerInvariant, PTL DEF HandlerSpec, KeepsSessionPromise, Session!Spec
=============================================================================
