------------------------- MODULE StreamAndGameProofs -------------------------
(***************************************************************************)
(* What BatonMessageProofs shows of one call of the parser, put to use     *)
(* twice: for a stream, whatever its wire and however it is cut into       *)
(* chunks, and for a whole game of two ends, whatever the request and in   *)
(* whatever order its messages arrive.                                     *)
(***************************************************************************)
EXTENDS BatonStream, BatonGame, BatonMessageProofs, FiniteSetTheorems

\* The stream carried more than a message, or ended short of one.
Refused == \/ received > MessageSize(wire)
           \/ fin /\ received < MessageSize(wire)

\* An inductive invariant behind the properties above: what has been
\* received decides the parser's state, the verdict and what was relayed.
StreamInv ==
  /\ TypeOK
  /\ ParserFollowsBytes
  /\ PaddingIsNotBuffered
  /\ awaiting => ~fin
  /\ fin => received = wire.size
  /\ awaiting /\ ms.state # "DONE" => Resumable(wire, ms, received)
  /\ closes = <<>> <=> ~Refused
  /\ relayed \in {<<>>, <<wire.baton>>}
  /\ ms.state # "DONE" => relayed = <<>>
  /\ ms.state = "DONE" /\ closes = <<>> => relayed = <<wire.baton>>
-----------------------------------------------------------------------------
\* The types the steps below need.
LEMMA TypeFacts ==
  ASSUME TypeOK
  PROVE  /\ wire \in Wire /\ wire.size \in Nat /\ wire.baton \in Byte
         /\ ms \in BatonMessageState /\ received \in Nat
         /\ MessageSize(wire) \in Nat /\ BatonOffset(wire) \in Nat
         /\ wire.lenBytes \in Nat /\ wire.lenBytes > 0
         /\ wire.lenBytes <= BatonOffset(wire)
         /\ MessageSize(wire) = BatonOffset(wire) + 1
BY WiresAssumption, SMTT(30) DEF TypeOK, Wire, MessageSize, BatonOffset

\* Initially nothing has been received.
LEMMA InitStreamInv == Init => StreamInv
<1> SUFFICES ASSUME Init PROVE StreamInv
  OBVIOUS
<1>1. TypeOK
  <2>1. ms \in BatonMessageState
    BY DEF Init, NewMessageState, BatonMessageState, State, Byte
  <2>2. wire \in Wires /\ received \in 0 .. wire.size
    BY WiresAssumption DEF Init, Wire
  <2>3. relayed \in Seq(Byte) /\ closes \in Seq({BRUH, ExtraData})
    BY DEF Init
  <2> QED BY <2>1, <2>2, <2>3 DEF Init, TypeOK
<1>2. ms.state = "PAD_LEN" /\ ms.head = 0 /\ ms.tail = 0
  BY DEF Init, NewMessageState
<1>3. ParserFollowsBytes /\ PaddingIsNotBuffered
  BY <1>1, <1>2, TypeFacts DEF Init, ParserFollowsBytes, PaddingIsNotBuffered
<1>4. Resumable(wire, ms, received)
  BY <1>1, <1>2, TypeFacts DEF Init, Resumable
<1>5. Refused <=> FALSE
  BY <1>1, TypeFacts DEF Refused, Init
<1> QED BY <1>1, <1>2, <1>3, <1>4, <1>5 DEF StreamInv, Init

\* A chunk for a stream whose message is complete.
LEMMA DoneStep ==
  ASSUME StreamInv, NEW n \in Nat, NEW f \in BOOLEAN,
         Read(n, f), DataAfterDone(n)
  PROVE  StreamInv'
<1>1. TypeOK /\ awaiting /\ fin = FALSE /\ ms.state = "DONE"
  BY DEF StreamInv, Read, DataAfterDone, TypeOK
<1>2. /\ wire' = wire /\ ms' = ms /\ relayed' = relayed
      /\ received' = received + n /\ fin' = f /\ awaiting' = ~f
      /\ closes' = IF n > 0 THEN Append(closes, ExtraData) ELSE closes
  BY DEF Read, DataAfterDone
<1>3. /\ n <= wire.size - received
      /\ f => received + n = wire.size
  BY DEF Read, Chunk
<1>4. received >= MessageSize(wire)
  BY <1>1 DEF StreamInv, ParserFollowsBytes
<1>5. TypeOK'
  <2>1. closes' \in Seq({BRUH, ExtraData})
    BY <1>1, <1>2 DEF TypeOK
  <2>2. received' \in 0 .. wire'.size
    BY <1>1, <1>2, <1>3, TypeFacts DEF TypeOK
  <2> QED BY <1>1, <1>2, <2>1, <2>2 DEF TypeOK
<1>6. ParserFollowsBytes'
  BY <1>1, <1>2, <1>4, TypeFacts
     DEF ParserFollowsBytes, StreamInv, MessageSize, BatonOffset
<1>7. (closes = <<>> <=> ~Refused)' /\ (closes' = <<>> => closes = <<>>)
  <2>1. CASE n > 0
    <3>1. closes' # <<>>
      BY <1>1, <1>2, <2>1 DEF TypeOK
    <3>2. Refused'
      BY <1>1, <1>2, <1>4, <2>1, TypeFacts DEF Refused, MessageSize, BatonOffset
    <3> QED BY <3>1, <3>2
  <2>2. CASE n = 0
    <3>1. closes' = closes
      BY <1>2, <2>2
    <3>2. Refused' <=> Refused
      BY <1>1, <1>2, <1>4, <2>2, TypeFacts DEF Refused, MessageSize, BatonOffset
    <3> QED BY <3>1, <3>2 DEF StreamInv
  <2> QED BY <2>1, <2>2
<1>8. PaddingIsNotBuffered'
  BY <1>2, <1>7 DEF PaddingIsNotBuffered, StreamInv
<1> QED
  BY <1>1, <1>2, <1>3, <1>5, <1>6, <1>7, <1>8 DEF StreamInv

\* A chunk for a stream whose message is not complete yet.
LEMMA ParseStep ==
  ASSUME StreamInv, NEW n \in Nat, NEW f \in BOOLEAN,
         Read(n, f), DataBeforeDone(n, f)
  PROVE  StreamInv'
<1> DEFINE res == onBatonMessageData(wire, ms, n, f)
<1>1. TypeOK /\ awaiting /\ fin = FALSE /\ ms.state # "DONE"
  BY DEF StreamInv, Read, DataBeforeDone, TypeOK
<1>2. /\ wire' = wire /\ ms' = res.ms
      /\ received' = received + n /\ fin' = f /\ awaiting' = ~f
      /\ closes' = IF res.ok THEN closes ELSE Append(closes, BRUH)
      /\ relayed' = IF res.ok /\ res.ms.state = "DONE"
                    THEN Append(relayed, res.ms.baton) ELSE relayed
  BY DEF Read, DataBeforeDone
<1>3. /\ n <= wire.size - received
      /\ f => received + n = wire.size
  BY DEF Read, Chunk
<1>4. Resumable(wire, ms, received) /\ relayed = <<>>
  BY <1>1 DEF StreamInv
<1>5. Correct(wire, received, n, f, res)
  <2>1. wire \in Wire /\ received \in Nat
    BY <1>1, TypeFacts
  <2> QED BY <1>4, <2>1, onBatonMessageDataCorrect
<1> HIDE DEF res
<1> USE DEF Correct
<1>6. closes = <<>>
  <2>1. ~Refused
    BY <1>1, TypeFacts DEF Refused, StreamInv, ParserFollowsBytes
  <2> QED BY <2>1 DEF StreamInv
<1>7. closes' = IF res.ok THEN <<>> ELSE <<BRUH>>
  BY <1>2, <1>6
<1>8. relayed' = IF res.ok /\ res.ms.state = "DONE" THEN <<wire.baton>> ELSE <<>>
  BY <1>2, <1>4, <1>5
<1>9. TypeOK'
  <2>1. received' \in 0 .. wire'.size
    BY <1>1, <1>2, <1>3, TypeFacts DEF TypeOK
  <2>2. relayed' \in Seq(Byte) /\ closes' \in Seq({BRUH, ExtraData})
    <3>1. wire.baton \in Byte
      BY <1>1, TypeFacts
    <3>2. <<wire.baton>> \in Seq(Byte) /\ <<>> \in Seq(Byte)
      BY <3>1
    <3>3. <<BRUH>> \in Seq({BRUH, ExtraData}) /\ <<>> \in Seq({BRUH, ExtraData})
      OBVIOUS
    <3> QED BY <1>7, <1>8, <3>2, <3>3
  <2> QED BY <1>1, <1>2, <1>5, <2>1, <2>2 DEF TypeOK
<1>10. ParserFollowsBytes'
  BY <1>2, <1>5 DEF ParserFollowsBytes, MessageSize, BatonOffset
<1>11. PaddingIsNotBuffered'
  BY <1>2, <1>5, <1>7 DEF PaddingIsNotBuffered
<1>12. (closes = <<>> <=> ~Refused)'
  <2>1. res.ok <=> ~Refused'
    BY <1>1, <1>2, <1>5, TypeFacts DEF Refused, MessageSize, BatonOffset
  <2> QED BY <1>7, <2>1
<1>13. awaiting' /\ ms'.state # "DONE" => Resumable(wire', ms', received')
  <2> SUFFICES ASSUME awaiting', ms'.state # "DONE"
               PROVE  Resumable(wire', ms', received')
    OBVIOUS
  <2>1. f = FALSE /\ res.ms.state # "DONE"
    BY <1>2
  <2>2. res.ok
    BY <1>1, <1>5, <2>1, TypeFacts
  <2> QED BY <1>2, <1>5, <2>1, <2>2
<1>14. /\ (awaiting => ~fin)'
       /\ (fin => received = wire.size)'
  BY <1>2, <1>3
<1>15. /\ (relayed \in {<<>>, <<wire.baton>>})'
       /\ (ms.state # "DONE" => relayed = <<>>)'
       /\ (ms.state = "DONE" /\ closes = <<>> => relayed = <<wire.baton>>)'
  <2>1. closes' = <<>> => res.ok
    BY <1>7
  <2> QED BY <1>2, <1>7, <1>8, <2>1
<1> QED
  BY <1>9, <1>10, <1>11, <1>12, <1>13, <1>14, <1>15 DEF StreamInv

\* A failed read changes nothing but the pending read.
LEMMA ReadErrorStep == StreamInv /\ ReadError => StreamInv'
<1> SUFFICES ASSUME StreamInv, ReadError PROVE StreamInv'
  OBVIOUS
<1>1. /\ wire' = wire /\ ms' = ms /\ received' = received /\ fin' = fin
      /\ relayed' = relayed /\ closes' = closes /\ awaiting' = FALSE
  BY DEF ReadError
<1>2. TypeOK'
  BY <1>1 DEF StreamInv, TypeOK
<1>3. ParserFollowsBytes' /\ PaddingIsNotBuffered' /\ (Refused <=> Refused')
  BY <1>1 DEF StreamInv, ParserFollowsBytes, PaddingIsNotBuffered, Refused,
              MessageSize, BatonOffset
<1> QED BY <1>1, <1>2, <1>3 DEF StreamInv

\* StreamInv holds in every reachable state, for every set of wires.
THEOREM StreamInvariant == Spec => []StreamInv
<1>1. StreamInv /\ [Next]_vars => StreamInv'
  <2> SUFFICES ASSUME StreamInv, [Next]_vars PROVE StreamInv'
    OBVIOUS
  <2>1. ASSUME NEW n \in 0 .. wire.size, NEW f \in BOOLEAN, Read(n, f)
        PROVE  StreamInv'
    <3>1. n \in Nat
      OBVIOUS
    <3>2. DataAfterDone(n) \/ DataBeforeDone(n, f)
      BY <2>1 DEF Read
    <3> QED BY <2>1, <3>1, <3>2, DoneStep, ParseStep
  <2>2. CASE ReadError
    BY <2>2, ReadErrorStep
  <2>3. CASE UNCHANGED vars
    BY <2>3 DEF vars, StreamInv, TypeOK, ParserFollowsBytes, PaddingIsNotBuffered,
                Refused, Resumable, MessageSize, BatonOffset
  <2> QED BY <2>1, <2>2, <2>3 DEF Next
<1> QED BY <1>1, InitStreamInv, PTL DEF Spec

\* The variables keep their types; the padding left never goes below zero.
THEOREM TypeCorrect == Spec => []TypeOK
<1>1. StreamInv => TypeOK
  BY DEF StreamInv
<1> QED BY <1>1, StreamInvariant, PTL

\* The parser's state is a function of the number of bytes received: chunk
\* boundaries make no difference (onBatonMessageData).
THEOREM ParserIsChunkIndependent == Spec => []ParserFollowsBytes
<1>1. StreamInv => ParserFollowsBytes
  BY DEF StreamInv
<1> QED BY <1>1, StreamInvariant, PTL

\* However much padding a peer announces, an accepted stream queues less than
\* one length field of it.
THEOREM BufferIsBounded == Spec => []PaddingIsNotBuffered
<1>1. StreamInv => PaddingIsNotBuffered
  BY DEF StreamInv
<1> QED BY <1>1, StreamInvariant, PTL

\* Every stream that was read to its FIN was accepted if and only if it
\* carried exactly one message, whose baton was then relayed once.
THEOREM VerdictIsRight == Spec => [](VerdictAtFin /\ RelaysTheBatonOnce)
<1>1. StreamInv => VerdictAtFin /\ RelaysTheBatonOnce
  <2> SUFFICES ASSUME StreamInv PROVE VerdictAtFin /\ RelaysTheBatonOnce
    OBVIOUS
  <2>1. RelaysTheBatonOnce
    <3>1. CASE relayed = <<>>
      BY <3>1 DEF RelaysTheBatonOnce
    <3>2. CASE relayed = <<wire.baton>>
      <4>1. Len(relayed) = 1 /\ DOMAIN relayed = {1} /\ relayed[1] = wire.baton
        BY <3>2
      <4> QED BY <4>1 DEF RelaysTheBatonOnce
    <3> QED BY <3>1, <3>2 DEF StreamInv
  <2>2. ASSUME fin PROVE VerdictAtFin
    <3>1. received = wire.size /\ received \in Nat /\ MessageSize(wire) \in Nat
      BY <2>2, TypeFacts DEF StreamInv
    <3>2. Refused <=> ~Accepted
      BY <2>2, <3>1 DEF Refused, Accepted
    <3>3. Accepted => ms.state = "DONE"
      BY <3>1 DEF Accepted, StreamInv, ParserFollowsBytes
    <3> QED BY <3>2, <3>3 DEF StreamInv, VerdictAtFin
  <2> QED BY <2>1, <2>2 DEF VerdictAtFin
<1> QED BY <1>1, StreamInvariant, PTL

\* Once a stream has made the session close, nothing more of it is relayed.
THEOREM RefusalIsFinal == Spec => NoRelayAfterRefusal
<1>1. StreamInv /\ [Next]_vars => [closes # <<>> => relayed' = relayed]_vars
  <2> SUFFICES ASSUME StreamInv, Next, closes # <<>> PROVE relayed' = relayed
    BY DEF vars
  <2>1. ASSUME NEW n \in 0 .. wire.size, NEW f \in BOOLEAN, Read(n, f)
        PROVE  relayed' = relayed
    <3>1. awaiting /\ fin = FALSE /\ Refused
      BY <2>1 DEF Read, StreamInv, TypeOK
    <3>2. ms.state = "DONE"
      BY <3>1, TypeFacts DEF Refused, StreamInv, ParserFollowsBytes
    <3> QED BY <2>1, <3>2 DEF Read, DataAfterDone, DataBeforeDone
  <2>2. CASE ReadError
    BY <2>2 DEF ReadError
  <2> QED BY <2>1, <2>2 DEF Next
<1> QED BY <1>1, StreamInvariant, PTL DEF Spec, NoRelayAfterRefusal
-----------------------------------------------------------------------------
(***************************************************************************)
(* The inductive invariant of the game, part by part.  A baton makes up to *)
(* three hops, each adding one to it: from the server on a unidirectional  *)
(* stream, back on a bidirectional one that the client opens, out again on *)
(* the same one, and to the server on a unidirectional stream.             *)
(***************************************************************************)
Hops(x) == IF x.to = "CLIENT" THEN IF IsUni(x.id) THEN 0 ELSE 2
           ELSE IF IsUni(x.id) THEN 3 ELSE 1

\* The baton that the server started with to get this message.
Origin(x) == IF x.wire.baton = 0 THEN 256 - Hops(x) ELSE x.wire.baton - Hops(x)
From(F, b) == {x \in F : Origin(x) = b}

\* How many batons m took back, and how many of those that started as b.
TakenBy(m) == tally[m].finished + (IF codes[m] = <<BRUH>> THEN 1 ELSE 0)
Taken(b) == IF b = 255 THEN TakenBy("SERVER")
            ELSE IF b = 254 THEN TakenBy("CLIENT") ELSE 0

GameTypes ==
  /\ start \in Seq(FirstBaton)
  /\ tally \in [Modes -> Tally]
  /\ opened \in [Modes -> [uni : Nat, bidi : Nat]]
  /\ IsFiniteSet(flying)
  /\ read \in [Modes -> SUBSET Nat]
  /\ codes \in [Modes -> {<<>>, <<NoError>>, <<BRUH>>}]

\* The streams opened so far; the server opens no bidirectional one.
IsOpened(id) == \/ \E i \in Nat : i < opened["SERVER"].uni /\ id = LocalUni("SERVER", i)
                \/ \E i \in Nat : i < opened["CLIENT"].uni /\ id = LocalUni("CLIENT", i)
                \/ \E i \in Nat : i < opened["CLIENT"].bidi /\ id = LocalBidi("CLIENT", i)

\* A message carries its baton as many hops on, and a bidirectional stream is
\* read by the server before the client.
InFlight(x) ==
  /\ x.to \in Modes
  /\ \E b \in FirstBaton : b + Hops(x) <= 256 /\ x = Message(x.to, x.id, b + Hops(x))
  /\ IsOpened(x.id)
  /\ ByServer(x.id) <=> Hops(x) = 0
  /\ x.id \notin read[x.to]
  /\ x.to = "SERVER" => x.id \notin read["CLIENT"]

StreamsInv == /\ \A x \in flying : InFlight(x)
              /\ \A x, y \in flying : x.id = y.id => x = y
              /\ \A m \in Modes : \A id \in read[m] : IsOpened(id)

\* Each baton that the server started with is on its way or was taken back.
OriginsInv == \A b \in FirstBaton : Cardinality(From(flying, b)) + Taken(b) = Starting(b)

\* An end that expects the batons closes with the last of them; one that
\* expects none, in a game of one, may take it for a fault.
CodesInv ==
  IF start = <<>>
  THEN /\ flying = {}
       /\ \A m \in Modes : /\ tally[m].active = 0 /\ tally[m].finished = 0
                           /\ read[m] = {} /\ codes[m] = <<>>
  ELSE \/ \A m \in Modes :
            /\ Asked(m) = Len(start)
            /\ codes[m] = IF tally[m].active = 0 THEN <<NoError>> ELSE <<>>
       \/ /\ Len(start) = 1
          /\ \A m \in Modes : Asked(m) = 0 /\ codes[m] # <<NoError>>

GameInv == GameTypes /\ StreamsInv /\ OriginsInv /\ BatonsInPlay /\ CodesInv
-----------------------------------------------------------------------------
\* The kinds of stream that are opened in a game have different ids, and an id
\* tells its kind.
LEMMA GameIds ==
  ASSUME NEW i \in Nat
  PROVE  LET su == LocalUni("SERVER", i)
             cu == LocalUni("CLIENT", i)
             cb == LocalBidi("CLIENT", i)
         IN  /\ IsUni(su) /\ ByServer(su)
             /\ IsUni(cu) /\ ~ByServer(cu)
             /\ ~IsUni(cb) /\ ~ByServer(cb)
             /\ \A j \in Nat : /\ su = LocalUni("SERVER", j) => i = j
                               /\ cu = LocalUni("CLIENT", j) => i = j
                               /\ cb = LocalBidi("CLIENT", j) => i = j
<1>1. \A j \in Nat : /\ LocalUni("SERVER", j) = 4 * j + 3
                     /\ LocalUni("CLIENT", j) = 4 * j + 2
                     /\ LocalBidi("CLIENT", j) = 4 * j
  BY DEF LocalUni, LocalBidi, Bit
<1>2. /\ ((4 * i + 3) \div 2) % 2 = 1 /\ (4 * i + 3) % 2 = 1
      /\ ((4 * i + 2) \div 2) % 2 = 1 /\ (4 * i + 2) % 2 # 1
      /\ ((4 * i) \div 2) % 2 # 1 /\ (4 * i) % 2 # 1
  OBVIOUS
<1> DEFINE su == LocalUni("SERVER", i)
           cu == LocalUni("CLIENT", i)
           cb == LocalBidi("CLIENT", i)
<1>3. su = 4 * i + 3 /\ cu = 4 * i + 2 /\ cb = 4 * i
  BY <1>1
<1>4. /\ IsUni(su) /\ ByServer(su)
      /\ IsUni(cu) /\ ~ByServer(cu)
      /\ ~IsUni(cb) /\ ~ByServer(cb)
  BY <1>2, <1>3 DEF IsUni, ByServer
<1> HIDE DEF su, cu, cb
<1>5. \A j \in Nat : /\ su = LocalUni("SERVER", j) => i = j
                     /\ cu = LocalUni("CLIENT", j) => i = j
                     /\ cb = LocalBidi("CLIENT", j) => i = j
  <2> TAKE j \in Nat
  <2>1. /\ LocalUni("SERVER", j) = 4 * j + 3
        /\ LocalUni("CLIENT", j) = 4 * j + 2
        /\ LocalBidi("CLIENT", j) = 4 * j
    BY <1>1
  <2> QED BY <1>3, <2>1
<1> QED BY <1>4, <1>5 DEF su, cu, cb

\* A stream that is opened next was not opened before.
LEMMA NextIsNew ==
  ASSUME GameTypes
  PROVE  /\ opened["CLIENT"].uni \in Nat /\ opened["CLIENT"].bidi \in Nat
         /\ opened["SERVER"].uni \in Nat
         /\ ~IsOpened(LocalUni("CLIENT", opened["CLIENT"].uni))
         /\ ~IsOpened(LocalBidi("CLIENT", opened["CLIENT"].bidi))
<1>1. /\ opened["CLIENT"].uni \in Nat /\ opened["CLIENT"].bidi \in Nat
      /\ opened["SERVER"].uni \in Nat
  BY DEF GameTypes, Modes
<1>2. ~IsOpened(LocalUni("CLIENT", opened["CLIENT"].uni))
  <2>1. \A j \in Nat : /\ LocalUni("CLIENT", opened["CLIENT"].uni) # LocalUni("SERVER", j)
                       /\ LocalUni("CLIENT", opened["CLIENT"].uni) # LocalBidi("CLIENT", j)
    BY <1>1, GameIds
  <2>2. \A j \in Nat : LocalUni("CLIENT", opened["CLIENT"].uni) = LocalUni("CLIENT", j)
                         => j = opened["CLIENT"].uni
    BY <1>1, GameIds
  <2> QED BY <1>1, <2>1, <2>2 DEF IsOpened
<1>3. ~IsOpened(LocalBidi("CLIENT", opened["CLIENT"].bidi))
  <2>1. \A j \in Nat : /\ LocalBidi("CLIENT", opened["CLIENT"].bidi) # LocalUni("SERVER", j)
                       /\ LocalBidi("CLIENT", opened["CLIENT"].bidi) # LocalUni("CLIENT", j)
    BY <1>1, GameIds
  <2>2. \A j \in Nat : LocalBidi("CLIENT", opened["CLIENT"].bidi) = LocalBidi("CLIENT", j)
                         => j = opened["CLIENT"].bidi
    BY <1>1, GameIds
  <2> QED BY <1>1, <2>1, <2>2 DEF IsOpened
<1> QED BY <1>1, <1>2, <1>3

\* A message of a game and what its receiver parses of it.
LEMMA GameMessage ==
  ASSUME NEW to, NEW id, NEW n \in Nat
  PROVE  /\ Message(to, id, n).to = to /\ Message(to, id, n).id = id
         /\ Message(to, id, n).wire.baton = n % 256
         /\ Parsed(Message(to, id, n)).ok
         /\ Parsed(Message(to, id, n)).ms.baton = n % 256
<1>1. kStreamPadLen \in Nat
  BY DEF kStreamPadLen
<1>2. Message(to, id, n).wire = makeBatonMessage(kStreamPadLen, n)
  BY DEF Message
<1>3. makeBatonMessage(kStreamPadLen, n).baton = n % 256
  BY <1>1, makeBatonMessageIsOneMessage
<1> DEFINE w == makeBatonMessage(kStreamPadLen, n)
<1>4. /\ onBatonMessageData(w, NewMessageState, w.size, TRUE).ok
      /\ onBatonMessageData(w, NewMessageState, w.size, TRUE).ms.baton = n % 256
  BY <1>1, MessagesRoundTrip, ZenonT(30)
<1>5. Parsed(Message(to, id, n)) = onBatonMessageData(w, NewMessageState, w.size, TRUE)
  BY <1>2 DEF Parsed
<1> QED BY <1>2, <1>3, <1>4, <1>5 DEF Message

\* Where a message in flight comes from, and what its receiver parses.
LEMMA OriginFacts ==
  ASSUME NEW x, InFlight(x)
  PROVE  /\ Hops(x) \in 0 .. 3 /\ Origin(x) \in FirstBaton /\ Origin(x) + Hops(x) <= 256
         /\ x.wire.baton \in 0 .. 255
         /\ x.wire.baton = 0 <=> Origin(x) + Hops(x) = 256
         /\ x.wire.baton # 0 => x.wire.baton = Origin(x) + Hops(x)
         /\ Parsed(x).ok /\ Parsed(x).ms.baton = x.wire.baton
<1>1. Hops(x) \in 0 .. 3
  BY DEF Hops
<1>2. PICK b \in FirstBaton : b + Hops(x) <= 256 /\ x = Message(x.to, x.id, b + Hops(x))
  BY DEF InFlight
<1>3. b + Hops(x) \in 1 .. 256
  BY <1>1, <1>2 DEF FirstBaton
<1>4. /\ x.wire.baton = (b + Hops(x)) % 256
      /\ Parsed(x).ok /\ Parsed(x).ms.baton = (b + Hops(x)) % 256
  BY <1>2, <1>3, GameMessage
<1>5. (b + Hops(x)) % 256 = IF b + Hops(x) = 256 THEN 0 ELSE b + Hops(x)
  BY <1>3
<1>6. Origin(x) = b
  BY <1>1, <1>3, <1>4, <1>5 DEF Origin, FirstBaton
<1> QED BY <1>1, <1>2, <1>3, <1>4, <1>5, <1>6
-----------------------------------------------------------------------------
(* Counting.                                                                 *)

\* As many things as there are things they are made of, one each.
LEMMA SameNumber ==
  ASSUME NEW S, IsFiniteSet(S), NEW T, NEW f \in [S -> T],
         \A i, j \in S : f[i] = f[j] => i = j,
         \A t \in T : \E i \in S : f[i] = t
  PROVE  IsFiniteSet(T) /\ Cardinality(T) = Cardinality(S)
<1>1. f \in Injection(S, T)
  BY DEF Injection, IsInjective
<1>2. f \in Surjection(S, T)
  BY DEF Surjection
<1>3. ExistsBijection(S, T)
  BY <1>1, <1>2 DEF ExistsBijection, Bijection
<1> QED BY <1>3, FS_Bijection

\* The starting batons that are b, among all.
LEMMA StartingCounted ==
  ASSUME NEW s \in Seq(FirstBaton), NEW b
  PROVE  LET n == Cardinality({i \in DOMAIN s : s[i] = b})
         IN  /\ IsFiniteSet({i \in DOMAIN s : s[i] = b})
             /\ n \in 0 .. Len(s) /\ Len(s) \in Nat
             /\ IsFiniteSet(DOMAIN s) /\ Cardinality(DOMAIN s) = Len(s)
<1>1. Len(s) \in Nat /\ DOMAIN s = 1 .. Len(s)
  BY LenProperties
<1>2. IsFiniteSet(DOMAIN s) /\ Cardinality(DOMAIN s) = Len(s)
  BY <1>1, FS_Interval
<1> DEFINE T == {i \in DOMAIN s : s[i] = b}
<1>3. T \in SUBSET DOMAIN s
  OBVIOUS
<1> HIDE DEF T
<1>4. IsFiniteSet(T) /\ Cardinality(T) <= Len(s) /\ Cardinality(T) \in Nat
  BY <1>2, <1>3, FS_Subset, FS_CardinalityType
<1> QED BY <1>1, <1>2, <1>4 DEF T

\* The ends that found fault.
LEMMA FaultsCounted ==
  ASSUME NEW c
  PROVE  Cardinality({m \in Modes : c[m] = <<BRUH>>})
           = (IF c["SERVER"] = <<BRUH>> THEN 1 ELSE 0)
               + (IF c["CLIENT"] = <<BRUH>> THEN 1 ELSE 0)
<1> DEFINE F == {m \in Modes : c[m] = <<BRUH>>}
           a == c["SERVER"] = <<BRUH>>
           b == c["CLIENT"] = <<BRUH>>
<1>1. /\ Cardinality({}) = 0 /\ Cardinality({"SERVER"}) = 1 /\ Cardinality({"CLIENT"}) = 1
      /\ IsFiniteSet({"SERVER"})
  BY FS_EmptySet, FS_Singleton
<1>2. Cardinality({"SERVER"} \cup {"CLIENT"})
        = IF "CLIENT" \in {"SERVER"} THEN Cardinality({"SERVER"})
          ELSE Cardinality({"SERVER"}) + 1
  BY <1>1, FS_AddElement
<1>3. Cardinality({"SERVER"} \cup {"CLIENT"}) = 2
  BY <1>1, <1>2
<1>4. /\ a /\ b => F = {"SERVER"} \cup {"CLIENT"}
      /\ a /\ ~b => F = {"SERVER"}
      /\ ~a /\ b => F = {"CLIENT"}
      /\ ~a /\ ~b => F = {}
  BY DEF Modes
<1> HIDE DEF F, a, b
<1>5. Cardinality(F) = (IF a THEN 1 ELSE 0) + (IF b THEN 1 ELSE 0)
  BY <1>1, <1>3, <1>4
<1> QED BY <1>5 DEF F, a, b

\* What BatonsInPlay says, in terms of what each end took back.
InPlay == BatonsInPlay <=>
  TakenBy("SERVER") + TakenBy("CLIENT") + Cardinality(flying) = Len(start)

LEMMA InPlayHolds ==
  GameTypes => /\ InPlay
               /\ \A m \in Modes : TakenBy(m) \in Nat /\ tally[m] \in Tally
               /\ Cardinality(flying) \in Nat /\ Len(start) \in Nat
<1> SUFFICES ASSUME GameTypes
             PROVE  /\ InPlay
                    /\ \A m \in Modes : TakenBy(m) \in Nat /\ tally[m] \in Tally
                    /\ Cardinality(flying) \in Nat /\ Len(start) \in Nat
  OBVIOUS
<1>1. \A m \in Modes : tally[m] \in Tally
  BY DEF GameTypes
<1>2. tally["SERVER"] \in Tally /\ tally["CLIENT"] \in Tally
  BY <1>1 DEF Modes
<1>3. Cardinality(flying) \in Nat /\ Len(start) \in Nat
  BY FS_CardinalityType DEF GameTypes
<1>4. \A m \in Modes : TakenBy(m) \in Nat
  BY <1>1 DEF TakenBy, Tally
<1> DEFINE faults == Cardinality({m \in Modes : codes[m] = <<BRUH>>})
<1>5. faults = (IF codes["SERVER"] = <<BRUH>> THEN 1 ELSE 0)
                 + (IF codes["CLIENT"] = <<BRUH>> THEN 1 ELSE 0)
  BY FaultsCounted
<1>6. BatonsInPlay <=> tally["SERVER"].finished + tally["CLIENT"].finished
                         + Cardinality(flying) + faults = Len(start)
  BY DEF BatonsInPlay
<1> HIDE DEF faults
<1>7. InPlay
  <2>1. tally["SERVER"].finished \in Nat /\ tally["CLIENT"].finished \in Nat
    BY <1>2 DEF Tally
  <2> DEFINE a == IF codes["SERVER"] = <<BRUH>> THEN 1 ELSE 0
             b == IF codes["CLIENT"] = <<BRUH>> THEN 1 ELSE 0
  <2>2. a \in Nat /\ b \in Nat
    OBVIOUS
  <2>3. /\ TakenBy("SERVER") = tally["SERVER"].finished + a
        /\ TakenBy("CLIENT") = tally["CLIENT"].finished + b
    BY DEF TakenBy
  <2>4. faults = a + b
    BY <1>5
  <2> HIDE DEF a, b
  <2>5. TakenBy("SERVER") + TakenBy("CLIENT") + Cardinality(flying)
          = tally["SERVER"].finished + tally["CLIENT"].finished + Cardinality(flying) + faults
    BY <1>3, <2>1, <2>2, <2>3, <2>4, SMTT(30)
  <2> QED BY <1>6, <2>5, SMTT(30) DEF InPlay
<1> QED BY <1>1, <1>3, <1>4, <1>7

\* A message less, among those that come from b and among all.
LEMMA OneLess ==
  ASSUME NEW F, IsFiniteSet(F), NEW x \in F, NEW b
  PROVE  /\ IsFiniteSet(F \ {x}) /\ Cardinality(F) \in Nat /\ Cardinality(F \ {x}) \in Nat
         /\ Cardinality(F \ {x}) = Cardinality(F) - 1
         /\ IsFiniteSet(From(F, b)) /\ Cardinality(From(F, b)) \in Nat
         /\ Cardinality(From(F \ {x}, b))
              = Cardinality(From(F, b)) - (IF Origin(x) = b THEN 1 ELSE 0)
<1>1. /\ IsFiniteSet(F \ {x}) /\ Cardinality(F) \in Nat /\ Cardinality(F \ {x}) \in Nat
      /\ Cardinality(F \ {x}) = Cardinality(F) - 1
  BY FS_RemoveElement, FS_CardinalityType
<1>2. From(F, b) \in SUBSET F
  BY DEF From
<1>3. From(F \ {x}, b) = From(F, b) \ {x} /\ (x \in From(F, b) <=> Origin(x) = b)
  BY DEF From
<1>4. IsFiniteSet(From(F, b)) /\ Cardinality(From(F, b)) \in Nat
  BY <1>2, FS_Subset, FS_CardinalityType
<1>5. Cardinality(From(F, b) \ {x})
        = IF x \in From(F, b) THEN Cardinality(From(F, b)) - 1 ELSE Cardinality(From(F, b))
  BY <1>4, FS_RemoveElement
<1> QED BY <1>1, <1>3, <1>4, <1>5 DEF Bit

\* A message for another that comes from the same baton.
LEMMA OneForAnother ==
  ASSUME NEW F, IsFiniteSet(F), NEW x \in F, NEW y, y \notin F \ {x},
         Origin(y) = Origin(x), NEW b
  PROVE  /\ IsFiniteSet((F \ {x}) \cup {y})
         /\ Cardinality((F \ {x}) \cup {y}) = Cardinality(F)
         /\ Cardinality(From((F \ {x}) \cup {y}, b)) = Cardinality(From(F, b))
<1> DEFINE H == F \ {x}
<1>1. /\ IsFiniteSet(H) /\ Cardinality(H) = Cardinality(F) - 1 /\ Cardinality(F) \in Nat
      /\ Cardinality(H) \in Nat /\ Cardinality(From(F, b)) \in Nat
      /\ Cardinality(From(H, b))
           = Cardinality(From(F, b)) - (IF Origin(x) = b THEN 1 ELSE 0)
  BY OneLess
<1> HIDE DEF H
<1>2. From(H, b) \in SUBSET H
  BY DEF From
<1>3. y \notin H
  BY DEF H
<1>4. From(H \cup {y}, b) = IF Origin(y) = b THEN From(H, b) \cup {y} ELSE From(H, b)
  BY DEF From
<1>5. /\ IsFiniteSet(H \cup {y})
      /\ Cardinality(H \cup {y}) = IF y \in H THEN Cardinality(H) ELSE Cardinality(H) + 1
  BY <1>1, FS_AddElement
<1>6. IsFiniteSet(From(H, b)) /\ y \notin From(H, b)
  BY <1>1, <1>2, <1>3, FS_Subset
<1>7. Cardinality(From(H, b) \cup {y})
        = IF y \in From(H, b) THEN Cardinality(From(H, b)) ELSE Cardinality(From(H, b)) + 1
  BY <1>6, FS_AddElement
<1>8. Cardinality(H \cup {y}) = Cardinality(F)
  BY <1>1, <1>3, <1>5
<1>9. Cardinality(From(H \cup {y}, b)) = Cardinality(From(F, b))
  BY <1>1, <1>4, <1>6, <1>7 DEF Bit
<1> QED BY <1>5, <1>8, <1>9 DEF H
-----------------------------------------------------------------------------
(* The game starts.                                                          *)

Started(s) == {Message("CLIENT", LocalUni("SERVER", i - 1), s[i]) : i \in 1 .. Len(s)}

\* Each of the server's first messages is the first of a baton.
LEMMA StartedFacts ==
  ASSUME NEW s \in Seq(FirstBaton), NEW i \in 1 .. Len(s)
  PROVE  LET x == Message("CLIENT", LocalUni("SERVER", i - 1), s[i])
         IN  /\ x.to = "CLIENT" /\ x.id = LocalUni("SERVER", i - 1)
             /\ IsUni(x.id) /\ ByServer(x.id)
             /\ Hops(x) = 0 /\ Origin(x) = s[i] /\ s[i] \in FirstBaton
             /\ i - 1 \in Nat /\ i - 1 < Len(s)
<1> DEFINE x == Message("CLIENT", LocalUni("SERVER", i - 1), s[i])
<1>1. Len(s) \in Nat /\ s[i] \in FirstBaton /\ i - 1 \in Nat /\ i - 1 < Len(s)
  BY ElementOfSeq, LenProperties
<1>2. s[i] \in Nat /\ s[i] % 256 = s[i] /\ s[i] # 0
  <2>1. \A b \in 1 .. 255 : b \in Nat /\ b % 256 = b /\ b # 0
    OBVIOUS
  <2> QED BY <1>1, <2>1 DEF FirstBaton
<1>3. /\ x.to = "CLIENT" /\ x.id = LocalUni("SERVER", i - 1)
      /\ x.wire.baton = s[i]
  BY <1>2, GameMessage
<1>4. IsUni(LocalUni("SERVER", i - 1)) /\ ByServer(LocalUni("SERVER", i - 1))
  BY <1>1, GameIds
<1> HIDE DEF x
<1>5. IsUni(x.id) /\ ByServer(x.id)
  BY <1>3, <1>4
<1>6. Hops(x) = 0
  BY <1>3, <1>5 DEF Hops
<1>7. Origin(x) = s[i]
  BY <1>2, <1>3, <1>6 DEF Origin
<1> QED BY <1>1, <1>3, <1>5, <1>6, <1>7 DEF x

\* There is one for each baton.
LEMMA StartedCounted ==
  ASSUME NEW s \in Seq(FirstBaton)
  PROVE  /\ IsFiniteSet(Started(s)) /\ Cardinality(Started(s)) = Len(s)
         /\ \A b : Cardinality(From(Started(s), b)) = Cardinality({i \in DOMAIN s : s[i] = b})
         /\ \A x, y \in Started(s) : x.id = y.id => x = y
<1> DEFINE f(i) == Message("CLIENT", LocalUni("SERVER", i - 1), s[i])
<1>1. Len(s) \in Nat /\ DOMAIN s = 1 .. Len(s)
  BY LenProperties
<1>2. \A i, j \in DOMAIN s : f(i).id = f(j).id => i = j
  <2> TAKE i, j \in DOMAIN s
  <2>1. f(i).id = LocalUni("SERVER", i - 1) /\ f(j).id = LocalUni("SERVER", j - 1)
    BY <1>1, StartedFacts
  <2>2. i - 1 \in Nat /\ j - 1 \in Nat
    BY <1>1
  <2>3. LocalUni("SERVER", i - 1) = LocalUni("SERVER", j - 1) => i - 1 = j - 1
    BY <2>2, GameIds
  <2> QED BY <1>1, <2>1, <2>3
<1>3. \A i \in DOMAIN s : f(i) \in Started(s) /\ Origin(f(i)) = s[i]
  BY <1>1, StartedFacts DEF Started
<1>4. \A x \in Started(s) : \E i \in DOMAIN s : x = f(i)
  BY <1>1 DEF Started
<1> HIDE DEF f
<1>5. \A x, y \in Started(s) : x.id = y.id => x = y
  BY <1>2, <1>4
<1>6. IsFiniteSet(Started(s)) /\ Cardinality(Started(s)) = Len(s)
  <2> DEFINE g == [i \in DOMAIN s |-> f(i)]
  <2>1. g \in [DOMAIN s -> Started(s)]
    BY <1>3
  <2>2. \A i, j \in DOMAIN s : g[i] = g[j] => i = j
    BY <1>2
  <2>3. \A t \in Started(s) : \E i \in DOMAIN s : g[i] = t
    BY <1>4
  <2>4. IsFiniteSet(DOMAIN s) /\ Cardinality(DOMAIN s) = Len(s)
    BY <1>1, FS_Interval
  <2> HIDE DEF g
  <2> QED BY <2>1, <2>2, <2>3, <2>4, SameNumber
<1>7. ASSUME NEW b
      PROVE  Cardinality(From(Started(s), b)) = Cardinality({i \in DOMAIN s : s[i] = b})
  <2> DEFINE S == {i \in DOMAIN s : s[i] = b}
             g == [i \in S |-> f(i)]
             T == From(Started(s), b)
  <2>1. g \in [S -> T]
    BY <1>3 DEF From
  <2>2. \A i, j \in S : g[i] = g[j] => i = j
    BY <1>2
  <2>3. \A t \in T : \E i \in S : g[i] = t
    BY <1>3, <1>4 DEF From
  <2>4. IsFiniteSet(S)
    BY StartingCounted
  <2> HIDE DEF g, S, T
  <2>5. Cardinality(T) = Cardinality(S)
    BY <2>1, <2>2, <2>3, <2>4, SameNumber
  <2> QED BY <2>5 DEF S, T
<1> QED BY <1>5, <1>6, <1>7

\* Nothing has happened before the session.
LEMMA GameInitInv == GameInit => GameInv
<1> SUFFICES ASSUME GameInit PROVE GameInv
  OBVIOUS
<1>1. start = <<>> /\ flying = {} /\ Len(start) = 0 /\ start \in Seq(FirstBaton)
  BY DEF GameInit
<1>2. \A m \in Modes : /\ tally[m] = [active |-> 0, reset |-> 0, finished |-> 0]
                       /\ read[m] = {} /\ codes[m] = <<>>
  BY DEF GameInit
<1>3. "SERVER" \in Modes /\ "CLIENT" \in Modes
  BY DEF Modes
<1>4. GameTypes
  <2>1. tally \in [Modes -> Tally] /\ opened \in [Modes -> [uni : Nat, bidi : Nat]]
    BY DEF GameInit, Tally
  <2>2. codes \in [Modes -> {<<>>, <<NoError>>, <<BRUH>>}]
    BY DEF GameInit
  <2>3. read \in [Modes -> SUBSET Nat]
    BY DEF GameInit
  <2> QED BY <1>1, <2>1, <2>2, <2>3, FS_EmptySet DEF GameTypes
<1>5. StreamsInv
  BY <1>1, <1>2 DEF StreamsInv
<1>6. \A m \in Modes : TakenBy(m) = 0 /\ codes[m] # <<BRUH>>
  BY <1>2 DEF TakenBy
<1>7. \A b : Cardinality(From(flying, b)) = 0 /\ Starting(b) = 0
  <2> TAKE b
  <2>1. From(flying, b) = {} /\ {i \in DOMAIN start : start[i] = b} = {}
    BY <1>1 DEF From
  <2> QED BY <2>1, FS_EmptySet DEF Starting
<1>8. OriginsInv
  BY <1>3, <1>6, <1>7 DEF OriginsInv, Taken
<1>9. BatonsInPlay
  <2>1. Cardinality(flying) = 0
    BY <1>1, FS_EmptySet
  <2> QED BY <1>1, <1>3, <1>4, <1>6, <2>1, InPlayHolds DEF InPlay
<1>10. CodesInv
  BY <1>1, <1>2 DEF CodesInv
<1> QED BY <1>4, <1>5, <1>8, <1>9, <1>10 DEF GameInv

\* The session is accepted and the server starts.
LEMMA ConnectStep ==
  ASSUME GameInv, NEW r \in Requests, Connect(r)
  PROVE  GameInv'
<1>1. start = <<>> /\ RequestStatus(r) = 200
  BY DEF Connect
<1> DEFINE s == StartingBatons(r)
           n == RequestedCount(r)
<1>2. s \in Seq(FirstBaton) /\ n \in Nat /\ (Len(s) = n \/ (Len(s) = 1 /\ n = 0)) /\ Len(s) \in Nat
  BY <1>1, StartingBatonsFacts DEF kMaxParallelBatons
<1>3. /\ start' = s /\ flying' = Started(s)
      /\ opened' = [opened EXCEPT !["SERVER"].uni = Len(s)]
      /\ tally' = [m \in Modes |-> [active |-> n, reset |-> 0, finished |-> 0]]
      /\ read' = read /\ codes' = codes
  BY DEF Connect, Started
<1> HIDE DEF s, n
<1>4. \A m \in Modes : read[m] = {} /\ codes[m] = <<>>
  BY <1>1 DEF GameInv, CodesInv
<1>5. "SERVER" \in Modes /\ "CLIENT" \in Modes
  BY DEF Modes
<1>6. /\ opened' \in [Modes -> [uni : Nat, bidi : Nat]]
      /\ opened'["SERVER"].uni = Len(s)
  BY <1>2, <1>3, <1>5 DEF GameInv, GameTypes
<1>7. GameTypes'
  <2>1. tally' \in [Modes -> Tally]
    BY <1>2, <1>3 DEF Tally
  <2>2. /\ codes' \in [Modes -> {<<>>, <<NoError>>, <<BRUH>>}]
        /\ read' \in [Modes -> SUBSET Nat]
    BY <1>3 DEF GameInv, GameTypes
  <2> QED BY <1>2, <1>3, <1>6, <2>1, <2>2, StartedCounted DEF GameTypes
<1>8. ASSUME NEW x \in flying'
      PROVE  InFlight(x)'
  <2>1. PICK i \in 1 .. Len(s) : x = Message("CLIENT", LocalUni("SERVER", i - 1), s[i])
    BY <1>3 DEF Started
  <2>2. /\ x.to = "CLIENT" /\ x.id = LocalUni("SERVER", i - 1) /\ ByServer(x.id)
        /\ Hops(x) = 0 /\ s[i] \in FirstBaton /\ i - 1 \in Nat /\ i - 1 < Len(s)
    BY <1>2, <2>1, StartedFacts
  <2>3. s[i] + Hops(x) <= 256 /\ x = Message(x.to, x.id, s[i] + Hops(x))
    <3>1. \A b \in 1 .. 255 : b + 0 = b /\ b <= 256
      OBVIOUS
    <3> QED BY <2>1, <2>2, <3>1 DEF FirstBaton
  <2>4. IsOpened(x.id)'
    BY <1>6, <2>2 DEF IsOpened
  <2>5. x.id \notin read'[x.to]
    BY <1>3, <1>4, <1>5, <2>2
  <2> QED BY <1>5, <2>2, <2>3, <2>4, <2>5 DEF InFlight
<1>9. StreamsInv'
  BY <1>2, <1>3, <1>4, <1>8, StartedCounted DEF StreamsInv
<1>10. \A m \in Modes : TakenBy(m)' = 0 /\ codes'[m] # <<BRUH>> /\ tally'[m].finished = 0
  BY <1>3, <1>4 DEF TakenBy
<1>11. OriginsInv'
  <2>1. ASSUME NEW b \in FirstBaton
        PROVE  Cardinality(From(Started(s), b)) = Starting(b)' /\ Starting(b)' \in Nat
    <3>1. Cardinality(From(Started(s), b)) = Cardinality({i \in DOMAIN s : s[i] = b})
      BY <1>2, StartedCounted
    <3>2. Starting(b)' = Cardinality({i \in DOMAIN s : s[i] = b})
      BY <1>3 DEF Starting
    <3>3. Cardinality({i \in DOMAIN s : s[i] = b}) \in 0 .. Len(s)
      BY <1>2, StartingCounted
    <3> QED BY <1>2, <3>1, <3>2, <3>3
  <2>2. \A b : Taken(b)' = 0
    BY <1>5, <1>10 DEF Taken
  <2> QED BY <1>3, <2>1, <2>2 DEF OriginsInv
<1>12. BatonsInPlay'
  <2>1. GameTypes' => InPlay'
    BY InPlayHolds, PTL
  <2>2. Cardinality(flying') = Len(start') /\ Len(start') \in Nat
    BY <1>2, <1>3, StartedCounted
  <2> QED BY <1>5, <1>7, <1>10, <2>1, <2>2 DEF InPlay
<1>13. CodesInv'
  <2>1. \A m \in Modes : /\ tally'[m] = [active |-> n, reset |-> 0, finished |-> 0]
                         /\ Asked(m)' = n /\ codes'[m] = <<>>
    BY <1>2, <1>3, <1>4 DEF Asked
  <2>2. CASE s = <<>>
    <3>1. flying' = {}
      BY <1>3, <2>2 DEF Started
    <3>2. n = 0
      BY <1>2, <2>2
    <3> QED BY <1>3, <1>4, <2>1, <2>2, <3>1, <3>2 DEF CodesInv
  <2>3. CASE s # <<>> /\ Len(s) = n
    <3>1. n # 0
      BY <1>2, <2>3, EmptySeq
    <3> QED BY <1>3, <2>1, <2>3, <3>1 DEF CodesInv
  <2>4. CASE s # <<>> /\ Len(s) = 1 /\ n = 0
    BY <1>3, <2>1, <2>4 DEF CodesInv, NoError
  <2> QED BY <1>2, <2>2, <2>3, <2>4
<1> QED BY <1>7, <1>9, <1>11, <1>12, <1>13 DEF GameInv
-----------------------------------------------------------------------------
(* A message is delivered.                                                   *)

\* m takes a baton back.
TakesBack(m) == LET v == onBatonFinished(tally[m], "PEER", FALSE)
                IN  /\ tally' = [tally EXCEPT ![m] = v.tally]
                    /\ codes' = [codes EXCEPT ![m] = @ \o v.closes]

\* It is counted, or taken for a fault when none is expected.
LEMMA TakesBackCounts ==
  ASSUME GameInv, flying # {}, NEW m \in Modes, TakesBack(m), start' = start
  PROVE  /\ tally' \in [Modes -> Tally]
         /\ codes' \in [Modes -> {<<>>, <<NoError>>, <<BRUH>>}]
         /\ TakenBy(m)' = TakenBy(m) + 1
         /\ \A o \in Modes \ {m} : TakenBy(o)' = TakenBy(o)
         /\ CodesInv'
<1> DEFINE v == onBatonFinished(tally[m], "PEER", FALSE)
<1>1. PICK a \in Nat, z \in Nat, f \in Nat :
        tally[m] = [active |-> a, reset |-> z, finished |-> f]
  BY DEF GameInv, GameTypes, Tally
<1>2. tally[m].active = a /\ tally[m].reset = z /\ tally[m].finished = f /\ Asked(m) = a + f
  BY <1>1 DEF Asked
<1>3. v = IF a = 0 THEN [tally |-> tally[m], closes |-> <<BRUH>>]
          ELSE [tally  |-> [active |-> a - 1, reset |-> z, finished |-> f + 1],
                closes |-> IF a = 1 THEN <<NoError>> ELSE <<>>]
  <2>1. CASE a = 0
    BY <1>2, <2>1 DEF onBatonFinished
  <2>2. CASE a # 0
    <3>1. z + 0 = z /\ f + 1 > 0 /\ (a - 1 = 0 <=> a = 1)
      OBVIOUS
    <3>2. v = LET u == [active |-> a - 1, reset |-> z + 0, finished |-> f + 1]
              IN  [tally |-> u, closes |-> IF u.active = 0 /\ "PEER" = "PEER"
                                           THEN <<IF u.finished > 0 THEN NoError ELSE GAME_OVER>>
                                           ELSE <<>>]
      BY <1>2, <2>2 DEF onBatonFinished, Bit
    <3> QED BY <2>2, <3>1, <3>2
  <2> QED BY <2>1, <2>2
<1>4. /\ tally' = [tally EXCEPT ![m] = v.tally]
      /\ codes' = [codes EXCEPT ![m] = @ \o v.closes]
  BY DEF TakesBack
<1> HIDE DEF v
<1>5. /\ tally'[m] = v.tally /\ codes'[m] = codes[m] \o v.closes
      /\ \A o \in Modes \ {m} : tally'[o] = tally[o] /\ codes'[o] = codes[o]
  BY <1>4 DEF GameInv, GameTypes
<1>6. /\ TakenBy("SERVER") + TakenBy("CLIENT") + Cardinality(flying) = Len(start)
      /\ Cardinality(flying) \in Nat /\ Cardinality(flying) # 0 /\ Len(start) \in Nat
      /\ \A o \in Modes : TakenBy(o) \in Nat
  BY InPlayHolds, FS_EmptySet DEF GameInv, InPlay, GameTypes
<1>7. /\ \A o \in Modes : TakenBy(o) < Len(start)
      /\ Len(start) = 1 => \A o \in Modes : TakenBy(o) = 0
  BY <1>6 DEF Modes
<1>8. start # <<>>
  BY DEF GameInv, CodesInv
<1>9. ASSUME \A o \in Modes : /\ Asked(o) = Len(start)
                               /\ codes[o] = IF tally[o].active = 0 THEN <<NoError>> ELSE <<>>
       PROVE  /\ a # 0 /\ codes[m] = <<>> /\ TakenBy(m) = f
              /\ tally'[m] = [active |-> a - 1, reset |-> z, finished |-> f + 1]
              /\ codes'[m] = IF a = 1 THEN <<NoError>> ELSE <<>>
              /\ TakenBy(m)' = f + 1
              /\ Asked(m)' = Len(start)
  <2>1. codes[m] # <<BRUH>>
    BY <1>9 DEF NoError, BRUH
  <2>2. TakenBy(m) = f
    BY <1>2, <2>1 DEF TakenBy
  <2>3. a # 0 /\ codes[m] = <<>>
    BY <1>2, <1>7, <1>9, <2>2
  <2>4. /\ tally'[m] = [active |-> a - 1, reset |-> z, finished |-> f + 1]
        /\ codes'[m] = <<>> \o (IF a = 1 THEN <<NoError>> ELSE <<>>)
    BY <1>3, <1>5, <2>3
  <2>5. codes'[m] = IF a = 1 THEN <<NoError>> ELSE <<>>
    BY <2>4
  <2>6. TakenBy(m)' = f + 1
    BY <2>4, <2>5 DEF TakenBy, NoError, BRUH
  <2>7. Asked(m)' = Len(start)
    BY <1>2, <1>9, <2>3, <2>4 DEF Asked
  <2> QED BY <2>2, <2>3, <2>4, <2>5, <2>6, <2>7
<1>10. ASSUME Len(start) = 1, \A o \in Modes : Asked(o) = 0 /\ codes[o] # <<NoError>>
       PROVE  /\ TakenBy(m) = 0
              /\ tally'[m] = tally[m]
              /\ codes'[m] = <<BRUH>>
              /\ TakenBy(m)' = 1
              /\ Asked(m)' = 0
  <2>1. a = 0 /\ f = 0
    BY <1>2, <1>10
  <2>2. TakenBy(m) = 0
    BY <1>7, <1>10
  <2>3. codes[m] # <<BRUH>>
    BY <1>2, <2>1, <2>2 DEF TakenBy
  <2>4. codes[m] = <<>>
    BY <1>10, <2>3 DEF GameInv, GameTypes
  <2>5. tally'[m] = tally[m] /\ codes'[m] = <<BRUH>>
    BY <1>3, <1>5, <2>1, <2>4
  <2>6. TakenBy(m)' = 1 /\ Asked(m)' = 0
    BY <1>2, <2>1, <2>5 DEF TakenBy, Asked
  <2> QED BY <2>2, <2>5, <2>6
<1>11. \A o \in Modes \ {m} : TakenBy(o)' = TakenBy(o) /\ Asked(o)' = Asked(o)
  BY <1>5 DEF TakenBy, Asked
<1>12. CASE \A o \in Modes : /\ Asked(o) = Len(start)
                             /\ codes[o] = IF tally[o].active = 0 THEN <<NoError>> ELSE <<>>
  <2>1. tally'[m] \in Tally /\ codes'[m] \in {<<>>, <<NoError>>, <<BRUH>>}
    BY <1>9, <1>12 DEF Tally
  <2>2. /\ tally' \in [Modes -> Tally]
        /\ codes' \in [Modes -> {<<>>, <<NoError>>, <<BRUH>>}]
    BY <1>4, <1>5, <2>1 DEF GameInv, GameTypes
  <2>3. \A o \in Modes :
          /\ Asked(o)' = Len(start)
          /\ codes'[o] = IF tally'[o].active = 0 THEN <<NoError>> ELSE <<>>
    <3>1. tally'[m].active = a - 1 /\ (a - 1 = 0 <=> a = 1)
      BY <1>9, <1>12
    <3>2. codes'[m] = IF tally'[m].active = 0 THEN <<NoError>> ELSE <<>>
      BY <1>9, <1>12, <3>1
    <3>3. ASSUME NEW o \in Modes \ {m}
          PROVE  codes'[o] = IF tally'[o].active = 0 THEN <<NoError>> ELSE <<>>
      BY <1>5, <1>12
    <3>4. \A o \in Modes : Asked(o)' = Len(start)
      BY <1>9, <1>11, <1>12
    <3> QED BY <3>2, <3>3, <3>4
  <2>4. CodesInv'
    BY <1>8, <2>3 DEF CodesInv
  <2> QED BY <1>9, <1>11, <1>12, <2>2, <2>4
<1>13. CASE Len(start) = 1 /\ \A o \in Modes : Asked(o) = 0 /\ codes[o] # <<NoError>>
  <2>1. tally'[m] \in Tally /\ codes'[m] \in {<<>>, <<NoError>>, <<BRUH>>} /\ codes'[m] # <<NoError>>
    <3>1. tally'[m] = tally[m] /\ codes'[m] = <<BRUH>>
      BY <1>10, <1>13
    <3>2. <<BRUH>> # <<NoError>>
      BY DEF NoError, BRUH
    <3>3. tally[m] \in Tally
      BY DEF GameInv, GameTypes
    <3> QED BY <3>1, <3>2, <3>3
  <2>2. /\ tally' \in [Modes -> Tally]
        /\ codes' \in [Modes -> {<<>>, <<NoError>>, <<BRUH>>}]
    BY <1>4, <1>5, <2>1 DEF GameInv, GameTypes
  <2>3. CodesInv'
    BY <1>5, <1>8, <1>10, <1>11, <1>13, <2>1 DEF CodesInv
  <2> QED BY <1>10, <1>11, <1>13, <2>2, <2>3
<1> QED BY <1>8, <1>12, <1>13 DEF GameInv, CodesInv

\* What a delivery does, by the baton it brings.
LEMMA DeliverFacts ==
  ASSUME GameInv, NEW x \in flying, Deliver(x)
  PROVE  /\ start' = start /\ read' = [read EXCEPT ![x.to] = @ \cup {x.id}]
         /\ x.wire.baton = 0 => /\ TakesBack(x.to)
                                /\ flying' = flying \ {x} /\ opened' = opened
         /\ x.wire.baton # 0 => LET r == Reply(x.to, x, x.wire.baton)
                                IN  /\ tally' = tally /\ codes' = codes
                                    /\ flying' = (flying \ {x}) \cup {r.msg}
                                    /\ opened' = [opened EXCEPT ![x.to] = r.opened]
<1> DEFINE b == x.wire.baton
<1>1. InFlight(x)
  BY DEF GameInv, StreamsInv
<1>2. /\ x.to \in Modes /\ b \in 0 .. 255
      /\ Parsed(x).ok /\ Parsed(x).ms.baton = b
  BY <1>1, OriginFacts DEF InFlight
<1> HIDE DEF b
<1>3. /\ start' = start /\ read' = [read EXCEPT ![x.to] = @ \cup {x.id}]
      /\ Account(x.to, Parsed(x))
      /\ TakeBack(x, Parsed(x)) \/ Answer(x, Parsed(x))
  BY DEF Deliver
<1>4. PICK v : /\ v = onBatonFinished(tally[x.to], WhoFinished(b), FALSE)
               /\ tally' = [tally EXCEPT ![x.to] = v.tally]
               /\ codes' = [codes EXCEPT ![x.to] = @ \o v.closes]
  BY <1>2, <1>3 DEF Account, Verdict
<1>5. CASE b = 0
  <2>1. WhoFinished(b) = "PEER"
    BY <1>5 DEF WhoFinished
  <2>2. TakesBack(x.to)
    BY <1>4, <2>1 DEF TakesBack
  <2>3. flying' = flying \ {x} /\ opened' = opened
    BY <1>2, <1>3, <1>5 DEF TakeBack, Answer
  <2> QED BY <1>3, <1>5, <2>2, <2>3 DEF b
<1>6. CASE b # 0
  <2>1. b + 1 # 0
    BY <1>2
  <2>2. WhoFinished(b) = "NO_ONE"
    BY <1>6, <2>1 DEF WhoFinished
  <2>3. v.tally = tally[x.to] /\ v.closes = <<>>
    BY <1>4, <2>2 DEF onBatonFinished
  <2>4. /\ tally' = [tally EXCEPT ![x.to] = tally[x.to]]
        /\ codes' = [codes EXCEPT ![x.to] = @ \o <<>>]
    BY <1>4, <2>3
  <2>5. tally' = tally
    BY <2>4 DEF GameInv, GameTypes
  <2>6. codes[x.to] \o <<>> = codes[x.to]
    <3>1. codes[x.to] \in {<<>>, <<NoError>>, <<BRUH>>}
      BY <1>2 DEF GameInv, GameTypes
    <3>2. \A c \in {NoError, BRUH} : <<c>> \in Seq({NoError, BRUH})
      OBVIOUS
    <3>3. <<>> \in Seq({NoError, BRUH})
      OBVIOUS
    <3>4. codes[x.to] \in Seq({NoError, BRUH})
      BY <3>1, <3>2, <3>3, Zenon
    <3> QED BY <3>4, ConcatEmptySeq
  <2>7. codes' = codes
    BY <2>4, <2>6 DEF GameInv, GameTypes
  <2>8. /\ flying' = (flying \ {x}) \cup {Reply(x.to, x, b).msg}
        /\ opened' = [opened EXCEPT ![x.to] = Reply(x.to, x, b).opened]
    BY <1>2, <1>3, <1>6 DEF TakeBack, Answer
  <2> QED BY <1>3, <1>6, <2>5, <2>7, <2>8 DEF b
<1> QED BY <1>5, <1>6

\* The streams of the other messages, which is not that of x, and those read.
LEMMA OthersFly ==
  ASSUME GameInv, NEW x \in flying,
         read' = [read EXCEPT ![x.to] = @ \cup {x.id}],
         \A id : IsOpened(id) => IsOpened(id)'
  PROVE  /\ \A z \in flying \ {x} : InFlight(z)'
         /\ \A m \in Modes : \A id \in read'[m] : IsOpened(id)'
         /\ read' \in [Modes -> SUBSET Nat]
<1>1. /\ InFlight(x) /\ \A z \in flying : InFlight(z)
      /\ \A y, z \in flying : y.id = z.id => y = z
      /\ \A m \in Modes : \A id \in read[m] : IsOpened(id)
      /\ read \in [Modes -> SUBSET Nat]
  BY DEF GameInv, StreamsInv, GameTypes
<1>2. x.to \in Modes /\ IsOpened(x.id)
  BY <1>1 DEF InFlight
<1>3. x.id \in Nat
  <2>1. \A i \in Nat : /\ LocalUni("SERVER", i) \in Nat /\ LocalUni("CLIENT", i) \in Nat
                       /\ LocalBidi("CLIENT", i) \in Nat
    BY DEF LocalUni, LocalBidi, Bit
  <2> QED BY <1>2, <2>1 DEF IsOpened
<1>4. \A m \in Modes : read'[m] = IF m = x.to THEN read[m] \cup {x.id} ELSE read[m]
  BY <1>1
<1>5. read' \in [Modes -> SUBSET Nat]
  BY <1>1, <1>2, <1>3
<1>6. \A m \in Modes : \A id \in read'[m] : IsOpened(id)'
  BY <1>1, <1>2, <1>4
<1>7. ASSUME NEW z \in flying \ {x}
      PROVE  InFlight(z)'
  <2>1. InFlight(z) /\ z.id # x.id
    BY <1>1
  <2>2. IsOpened(z.id)'
    BY <2>1 DEF InFlight
  <2>3. z.id \notin read'[z.to]
    BY <1>4, <2>1 DEF InFlight
  <2>4. z.to = "SERVER" => z.id \notin read'["CLIENT"]
    BY <1>4, <2>1 DEF InFlight, Modes
  <2> QED BY <2>1, <2>2, <2>3, <2>4 DEF InFlight
<1> QED BY <1>5, <1>6, <1>7

\* A baton is taken back.
LEMMA TakeBackStep ==
  ASSUME GameInv, NEW x \in flying, Readable(x), Deliver(x), x.wire.baton = 0
  PROVE  GameInv'
<1>1. /\ start' = start /\ read' = [read EXCEPT ![x.to] = @ \cup {x.id}]
      /\ TakesBack(x.to) /\ flying' = flying \ {x} /\ opened' = opened
  BY DeliverFacts
<1>2. InFlight(x)
  BY DEF GameInv, StreamsInv
<1>3. x.to \in Modes
  BY <1>2 DEF InFlight
<1>4. /\ tally' \in [Modes -> Tally]
      /\ codes' \in [Modes -> {<<>>, <<NoError>>, <<BRUH>>}]
      /\ TakenBy(x.to)' = TakenBy(x.to) + 1
      /\ \A o \in Modes \ {x.to} : TakenBy(o)' = TakenBy(o)
      /\ CodesInv'
  BY <1>1, <1>3, TakesBackCounts
<1>5. IsFiniteSet(flying)
  BY DEF GameInv, GameTypes
<1>6. IsFiniteSet(flying') /\ Cardinality(flying') = Cardinality(flying) - 1
  BY <1>1, <1>5, OneLess
<1>7. /\ \A z \in flying \ {x} : InFlight(z)'
      /\ \A m \in Modes : \A id \in read'[m] : IsOpened(id)'
      /\ read' \in [Modes -> SUBSET Nat]
  <2>1. \A id : IsOpened(id) => IsOpened(id)'
    BY <1>1 DEF IsOpened
  <2> QED BY <1>1, <2>1, OthersFly
<1>8. GameTypes'
  BY <1>1, <1>4, <1>6, <1>7 DEF GameInv, GameTypes
<1>9. StreamsInv'
  BY <1>1, <1>7 DEF GameInv, StreamsInv
<1>10. Origin(x) = IF x.to = "SERVER" THEN 255 ELSE 254
  <2>1. /\ Hops(x) \in 0 .. 3 /\ Origin(x) \in FirstBaton
        /\ Origin(x) + Hops(x) = 256
    BY <1>2, OriginFacts
  <2>2. Hops(x) # 0
    BY <2>1 DEF FirstBaton
  <2>3. x.to = "CLIENT" => Hops(x) = 2
    BY <2>2 DEF Hops
  <2>4. x.to = "SERVER" => Hops(x) = 1
    BY DEF Hops, Readable
  <2> QED BY <1>3, <2>1, <2>3, <2>4 DEF Modes, FirstBaton
<1>11. \A o \in Modes : TakenBy(o) \in Nat
  BY InPlayHolds DEF GameInv
<1>12. OriginsInv'
  <2> SUFFICES ASSUME NEW b \in FirstBaton
               PROVE  Cardinality(From(flying', b)) + Taken(b)' = Starting(b)'
    BY DEF OriginsInv
  <2>1. Cardinality(From(flying, b)) + Taken(b) = Starting(b) /\ Starting(b)' = Starting(b)
    BY <1>1 DEF GameInv, OriginsInv, Starting
  <2>2. /\ Cardinality(From(flying, b)) \in Nat
        /\ Cardinality(From(flying', b))
             = Cardinality(From(flying, b)) - (IF Origin(x) = b THEN 1 ELSE 0)
    BY <1>1, <1>5, OneLess
  <2>3. Taken(b) \in Nat /\ Taken(b)' = Taken(b) + (IF Origin(x) = b THEN 1 ELSE 0)
    BY <1>3, <1>4, <1>10, <1>11 DEF Taken, Modes
  <2> QED BY <2>1, <2>2, <2>3
<1>13. BatonsInPlay'
  <2>1. GameTypes' => InPlay'
    BY InPlayHolds, PTL
  <2>2. TakenBy("SERVER") + TakenBy("CLIENT") + Cardinality(flying) = Len(start)
    BY InPlayHolds DEF GameInv, InPlay
  <2>3. TakenBy("SERVER")' + TakenBy("CLIENT")' = TakenBy("SERVER") + TakenBy("CLIENT") + 1
    BY <1>3, <1>4, <1>11 DEF Modes
  <2>4. Cardinality(flying) \in Nat
    BY <1>5, FS_CardinalityType
  <2>5. TakenBy("SERVER")' + TakenBy("CLIENT")' + Cardinality(flying') = Len(start)
    BY <1>6, <1>11, <2>2, <2>3, <2>4 DEF Modes
  <2> QED BY <1>1, <1>8, <2>1, <2>5 DEF InPlay
<1> QED BY <1>4, <1>8, <1>9, <1>12, <1>13 DEF GameInv

\* The answer y to x: the next message of the same baton, on a stream that its
\* receiver has not read and no message is on; done says what was opened.
AnswerTo(x, y, done) ==
  /\ y.to \in Modes /\ y.to # x.to
  /\ Hops(y) = Hops(x) + 1
  /\ y = Message(y.to, y.id, Origin(x) + Hops(y))
  /\ ~ByServer(y.id)
  /\ y.to = "CLIENT" => y.id = x.id
  /\ y.to = "SERVER" => ~IsOpened(y.id)
  /\ \/ /\ done = opened[x.to]
        /\ IsOpened(y.id)
     \/ /\ done = [opened["CLIENT"] EXCEPT !.uni = @ + 1]
        /\ y.id = LocalUni("CLIENT", opened["CLIENT"].uni) /\ x.to = "CLIENT"
     \/ /\ done = [opened["CLIENT"] EXCEPT !.bidi = @ + 1]
        /\ y.id = LocalBidi("CLIENT", opened["CLIENT"].bidi) /\ x.to = "CLIENT"

\* What Reply gives, by the hops made so far.
LEMMA ReplyFacts ==
  ASSUME GameInv, NEW x \in flying, Readable(x), x.wire.baton # 0
  PROVE  LET r == Reply(x.to, x, x.wire.baton)
         IN  AnswerTo(x, r.msg, r.opened)
<1>1. InFlight(x) /\ GameTypes
  BY DEF GameInv, StreamsInv
<1> DEFINE b == x.wire.baton
           r == Reply(x.to, x, b)
           y == r.msg
           cu == opened["CLIENT"].uni
           cb == opened["CLIENT"].bidi
<1>2. /\ x.to \in Modes /\ IsOpened(x.id) /\ (ByServer(x.id) <=> Hops(x) = 0)
      /\ Hops(x) \in 0 .. 3 /\ b = Origin(x) + Hops(x) /\ b \in Nat /\ Origin(x) \in Nat
  <2>1. x.to \in Modes /\ IsOpened(x.id) /\ (ByServer(x.id) <=> Hops(x) = 0)
    BY <1>1 DEF InFlight
  <2>2. Hops(x) \in 0 .. 3 /\ b = Origin(x) + Hops(x) /\ Origin(x) \in FirstBaton
    BY <1>1, OriginFacts
  <2> HIDE DEF b
  <2>3. Origin(x) \in Nat /\ b \in Nat
    BY <2>2 DEF FirstBaton
  <2> QED BY <2>1, <2>2, <2>3
<1>3. /\ cu \in Nat /\ cb \in Nat
      /\ ~IsOpened(LocalUni("CLIENT", cu)) /\ ~IsOpened(LocalBidi("CLIENT", cb))
  BY <1>1, NextIsNew
<1>4. /\ IsUni(LocalUni("CLIENT", cu)) /\ ~ByServer(LocalUni("CLIENT", cu))
      /\ ~IsUni(LocalBidi("CLIENT", cb)) /\ ~ByServer(LocalBidi("CLIENT", cb))
  BY <1>3, GameIds
<1> HIDE DEF b, cu, cb
<1>5. CASE x.to = "CLIENT" /\ IsUni(x.id)
  <2>1. Hops(x) = 0 /\ ArrivedOn("CLIENT", x.id) = "UNI"
    BY <1>5 DEF Hops, ArrivedOn
  <2>2. /\ y = Message("SERVER", LocalBidi("CLIENT", cb), b + 1)
        /\ r.opened = [opened["CLIENT"] EXCEPT !.bidi = @ + 1]
    BY <1>5, <2>1 DEF Reply, Peer, cb
  <2>3. y.to = "SERVER" /\ y.id = LocalBidi("CLIENT", cb)
    BY <1>2, <2>2, GameMessage
  <2> HIDE DEF r
  <2>4. Hops(y) = 1
    BY <1>4, <2>3 DEF Hops
  <2>5. y = Message(y.to, y.id, Origin(x) + Hops(y))
    BY <1>2, <2>1, <2>2, <2>3, <2>4
  <2> QED BY <1>3, <1>4, <1>5, <2>1, <2>2, <2>3, <2>4, <2>5 DEF AnswerTo, Modes, r, b, cb
<1>6. CASE x.to = "CLIENT" /\ ~IsUni(x.id)
  <2>1. Hops(x) = 2
    BY <1>6 DEF Hops
  <2>2. ArrivedOn("CLIENT", x.id) = "SELF_BIDI"
    <3>1. ~ByServer(x.id) /\ ~("CLIENT" = "SERVER")
      BY <1>2, <2>1
    <3>2. ByServer(x.id) = ("CLIENT" = "SERVER")
      BY <3>1 DEF ByServer
    <3> QED BY <1>6, <3>2, Zenon DEF ArrivedOn
  <2>3. /\ y = Message("SERVER", LocalUni("CLIENT", cu), b + 1)
        /\ r.opened = [opened["CLIENT"] EXCEPT !.uni = @ + 1]
    BY <1>6, <2>2 DEF Reply, Peer, cu
  <2>4. y.to = "SERVER" /\ y.id = LocalUni("CLIENT", cu)
    BY <1>2, <2>3, GameMessage
  <2> HIDE DEF r
  <2>5. Hops(y) = 3
    BY <1>4, <2>4 DEF Hops
  <2>6. y = Message(y.to, y.id, Origin(x) + Hops(y))
    BY <1>2, <2>1, <2>3, <2>4, <2>5
  <2> QED BY <1>3, <1>4, <1>6, <2>1, <2>3, <2>4, <2>5, <2>6 DEF AnswerTo, Modes, r, b, cu
<1>7. CASE x.to = "SERVER" /\ ~IsUni(x.id)
  <2>1. Hops(x) = 1
    BY <1>7 DEF Hops
  <2>2. ArrivedOn("SERVER", x.id) = "PEER_BIDI"
    <3>1. ~ByServer(x.id)
      BY <1>2, <2>1
    <3> QED BY <1>7, <3>1, Zenon DEF ArrivedOn
  <2>3. /\ y = Message("CLIENT", x.id, b + 1)
        /\ r.opened = opened["SERVER"]
    BY <1>7, <2>2 DEF Reply, Peer
  <2>4. y.to = "CLIENT" /\ y.id = x.id
    BY <1>2, <2>3, GameMessage
  <2> HIDE DEF r
  <2>5. Hops(y) = 2
    BY <1>7, <2>4 DEF Hops
  <2>6. y = Message(y.to, y.id, Origin(x) + Hops(y))
    BY <1>2, <2>1, <2>3, <2>4, <2>5
  <2>7. ~ByServer(y.id) /\ IsOpened(y.id)
    BY <1>2, <2>1, <2>4
  <2> QED BY <1>7, <2>1, <2>3, <2>4, <2>5, <2>6, <2>7 DEF AnswerTo, Modes, r, b
<1> QED BY <1>2, <1>5, <1>6, <1>7 DEF Readable, Modes

\* What was opened stays so, and the stream of the answer is opened.
LEMMA AnswerOpens ==
  ASSUME GameInv, NEW x \in flying, NEW y, NEW done, AnswerTo(x, y, done),
         opened' = [opened EXCEPT ![x.to] = done]
  PROVE  /\ opened' \in [Modes -> [uni : Nat, bidi : Nat]]
         /\ \A id : IsOpened(id) => IsOpened(id)'
         /\ IsOpened(y.id)'
<1>1. InFlight(x) /\ GameTypes
  BY DEF GameInv, StreamsInv
<1>2. opened \in [Modes -> [uni : Nat, bidi : Nat]] /\ x.to \in Modes
  BY <1>1 DEF GameTypes, InFlight
<1>3. /\ opened["CLIENT"].uni \in Nat /\ opened["CLIENT"].bidi \in Nat
      /\ opened["SERVER"].uni \in Nat
  BY <1>1, NextIsNew
<1>4. CASE done = opened[x.to] /\ IsOpened(y.id)
  <2>1. opened' = opened
    BY <1>2, <1>4
  <2> QED BY <1>2, <1>4, <2>1 DEF IsOpened
<1>5. CASE /\ done = [opened["CLIENT"] EXCEPT !.uni = @ + 1]
           /\ y.id = LocalUni("CLIENT", opened["CLIENT"].uni) /\ x.to = "CLIENT"
  <2>1. /\ opened' \in [Modes -> [uni : Nat, bidi : Nat]]
        /\ opened'["SERVER"].uni = opened["SERVER"].uni
        /\ opened'["CLIENT"].uni = opened["CLIENT"].uni + 1
        /\ opened'["CLIENT"].bidi = opened["CLIENT"].bidi
    BY <1>2, <1>3, <1>5 DEF Modes
  <2> QED BY <1>3, <1>5, <2>1 DEF IsOpened
<1>6. CASE /\ done = [opened["CLIENT"] EXCEPT !.bidi = @ + 1]
           /\ y.id = LocalBidi("CLIENT", opened["CLIENT"].bidi) /\ x.to = "CLIENT"
  <2>1. /\ opened' \in [Modes -> [uni : Nat, bidi : Nat]]
        /\ opened'["SERVER"].uni = opened["SERVER"].uni
        /\ opened'["CLIENT"].uni = opened["CLIENT"].uni
        /\ opened'["CLIENT"].bidi = opened["CLIENT"].bidi + 1
    BY <1>2, <1>3, <1>6 DEF Modes
  <2> QED BY <1>3, <1>6, <2>1 DEF IsOpened
<1> QED BY <1>4, <1>5, <1>6 DEF AnswerTo

\* The answer is in flight, on a stream of its own.
LEMMA AnswerFlies ==
  ASSUME GameInv, NEW x \in flying, x.wire.baton # 0, NEW y, NEW done, AnswerTo(x, y, done),
         IsOpened(y.id)', read' = [read EXCEPT ![x.to] = @ \cup {x.id}]
  PROVE  /\ InFlight(y)' /\ Origin(y) = Origin(x)
         /\ \A z \in flying \ {x} : z.id # y.id
<1>1. /\ InFlight(x) /\ \A z \in flying : InFlight(z)
      /\ \A u, z \in flying : u.id = z.id => u = z
      /\ \A m \in Modes : \A id \in read[m] : IsOpened(id)
      /\ read \in [Modes -> SUBSET Nat]
  BY DEF GameInv, StreamsInv, GameTypes
<1>2. /\ x.to \in Modes /\ IsOpened(x.id)
      /\ Hops(x) \in 0 .. 3 /\ Origin(x) \in FirstBaton /\ Origin(x) + Hops(x) <= 256
      /\ Origin(x) + Hops(x) # 256
  BY <1>1, OriginFacts DEF InFlight
<1>3. Origin(x) + Hops(y) <= 256 /\ Hops(y) \in 1 .. 3 /\ Hops(y) = Hops(x) + 1
  BY <1>2 DEF AnswerTo, FirstBaton, Hops
<1>4. Origin(y) = Origin(x)
  <2>1. Origin(x) + Hops(y) \in 1 .. 256
    BY <1>2, <1>3 DEF FirstBaton
  <2>2. y.wire.baton = (Origin(x) + Hops(y)) % 256
    BY <2>1, GameMessage DEF AnswerTo
  <2>3. \A n \in 1 .. 256 : n % 256 = IF n = 256 THEN 0 ELSE n
    OBVIOUS
  <2>4. y.wire.baton = IF Origin(x) + Hops(y) = 256 THEN 0 ELSE Origin(x) + Hops(y)
    BY <2>1, <2>2, <2>3
  <2> QED BY <1>2, <1>3, <2>4, SMTT(30) DEF Origin, FirstBaton
<1>5. \A z \in flying \ {x} : z.id # y.id
  BY <1>1 DEF AnswerTo, Modes, InFlight
<1>6. \A m \in Modes : read'[m] = IF m = x.to THEN read[m] \cup {x.id} ELSE read[m]
  BY <1>1
<1>7. CASE y.to = "CLIENT"
  <2>1. y.id = x.id /\ x.to = "SERVER" /\ x.id \notin read["CLIENT"]
    BY <1>1, <1>2, <1>7 DEF AnswerTo, InFlight, Modes
  <2>2. y.id \notin read'["CLIENT"]
    BY <1>6, <2>1 DEF Modes
  <2> QED BY <1>2, <1>3, <1>4, <1>5, <1>7, <2>2 DEF InFlight, AnswerTo
<1>8. CASE y.to = "SERVER"
  <2>1. y.id # x.id /\ ~IsOpened(y.id)
    BY <1>2, <1>8 DEF AnswerTo
  <2>2. \A m \in Modes : y.id \notin read'[m]
    BY <1>1, <1>6, <2>1
  <2> QED BY <1>2, <1>3, <1>4, <1>5, <1>8, <2>2 DEF InFlight, AnswerTo, Modes
<1> QED BY <1>7, <1>8 DEF AnswerTo, Modes

\* A baton is answered.
LEMMA AnswerStep ==
  ASSUME GameInv, NEW x \in flying, Readable(x), Deliver(x), x.wire.baton # 0
  PROVE  GameInv'
<1> DEFINE r == Reply(x.to, x, x.wire.baton)
<1>1. AnswerTo(x, r.msg, r.opened)
  BY ReplyFacts
<1>2. /\ start' = start /\ read' = [read EXCEPT ![x.to] = @ \cup {x.id}]
      /\ tally' = tally /\ codes' = codes
      /\ flying' = (flying \ {x}) \cup {r.msg}
      /\ opened' = [opened EXCEPT ![x.to] = r.opened]
  BY DeliverFacts
<1>3. PICK y, done : y = r.msg /\ done = r.opened
  OBVIOUS
<1> HIDE DEF r
<1>4. AnswerTo(x, y, done) /\ flying' = (flying \ {x}) \cup {y}
      /\ opened' = [opened EXCEPT ![x.to] = done]
  BY <1>1, <1>2, <1>3
<1>5. /\ opened' \in [Modes -> [uni : Nat, bidi : Nat]]
      /\ \A id : IsOpened(id) => IsOpened(id)'
      /\ IsOpened(y.id)'
  BY <1>4, AnswerOpens
<1>6. /\ \A z \in flying \ {x} : InFlight(z)'
      /\ \A m \in Modes : \A id \in read'[m] : IsOpened(id)'
      /\ read' \in [Modes -> SUBSET Nat]
  BY <1>2, <1>5, OthersFly
<1>7. /\ InFlight(y)' /\ Origin(y) = Origin(x)
      /\ \A z \in flying \ {x} : z.id # y.id
  BY <1>2, <1>4, <1>5, AnswerFlies
<1>8. IsFiniteSet(flying) /\ y \notin flying \ {x}
  BY <1>7 DEF GameInv, GameTypes
<1>9. /\ IsFiniteSet(flying') /\ Cardinality(flying') = Cardinality(flying)
      /\ \A b : Cardinality(From(flying', b)) = Cardinality(From(flying, b))
  <2>1. ASSUME NEW b
        PROVE  /\ IsFiniteSet((flying \ {x}) \cup {y})
               /\ Cardinality((flying \ {x}) \cup {y}) = Cardinality(flying)
               /\ Cardinality(From((flying \ {x}) \cup {y}, b)) = Cardinality(From(flying, b))
    BY <1>7, <1>8, OneForAnother
  <2> QED BY <1>4, <2>1
<1>10. GameTypes'
  BY <1>2, <1>5, <1>6, <1>9 DEF GameInv, GameTypes
<1>11. StreamsInv'
  <2>1. \A u, z \in flying \ {x} : u.id = z.id => u = z
    BY DEF GameInv, StreamsInv
  <2>2. \A u, z \in flying' : u.id = z.id => u = z
    BY <1>4, <1>7, <2>1
  <2> QED BY <1>4, <1>6, <1>7, <2>2 DEF StreamsInv
<1>12. \A m : TakenBy(m)' = TakenBy(m) /\ Asked(m)' = Asked(m)
  BY <1>2 DEF TakenBy, Asked
<1>13. OriginsInv'
  <2>1. \A b : Taken(b)' = Taken(b) /\ Starting(b)' = Starting(b)
    BY <1>2, <1>12 DEF Taken, Starting
  <2> QED BY <1>9, <2>1 DEF GameInv, OriginsInv
<1>14. BatonsInPlay'
  BY <1>2, <1>9 DEF GameInv, BatonsInPlay
<1>15. CodesInv'
  <2>1. start # <<>>
    BY DEF GameInv, CodesInv
  <2> QED BY <1>2, <1>12, <2>1 DEF GameInv, CodesInv
<1> QED BY <1>10, <1>11, <1>13, <1>14, <1>15 DEF GameInv

\* The inductive invariant of the game, for any requests a client may make
\* and any order of the deliveries.
THEOREM GameInvariant == GameSpec => []GameInv
<1>1. GameInv /\ [GameNext]_gameVars => GameInv'
  <2> SUFFICES ASSUME GameInv, [GameNext]_gameVars PROVE GameInv'
    OBVIOUS
  <2>1. ASSUME NEW r \in Requests, Connect(r) PROVE GameInv'
    BY <2>1, ConnectStep
  <2>2. ASSUME NEW x \in flying, Deliver(x) PROVE GameInv'
    <3>1. Readable(x)
      BY <2>2 DEF Deliver
    <3> QED BY <2>2, <3>1, TakeBackStep, AnswerStep
  <2>3. CASE UNCHANGED gameVars
    <3>1. /\ start' = start /\ tally' = tally /\ opened' = opened
          /\ flying' = flying /\ read' = read /\ codes' = codes
      BY <2>3 DEF gameVars
    <3>2. GameTypes'
      BY <3>1 DEF GameInv, GameTypes
    <3>3. StreamsInv'
      BY <3>1 DEF GameInv, StreamsInv, InFlight, IsOpened
    <3>4. \A b : Taken(b)' = Taken(b) /\ Starting(b)' = Starting(b)
      BY <3>1 DEF Taken, TakenBy, Starting
    <3>5. OriginsInv' /\ BatonsInPlay'
      BY <3>1, <3>4 DEF GameInv, OriginsInv, BatonsInPlay
    <3>6. CodesInv'
      BY <3>1 DEF GameInv, CodesInv, Asked
    <3> QED BY <3>2, <3>3, <3>5, <3>6 DEF GameInv
  <2> QED BY <2>1, <2>2, <2>3 DEF GameNext
<1> QED BY <1>1, GameInitInv, PTL DEF GameSpec

\* StreamsDoNotClash: whatever batons a game starts with, the two ends never
\* write on a stream that is in use or was read.
THEOREM StreamsNeverClash == GameSpec => []StreamsDoNotClash
<1>1. GameInv => StreamsDoNotClash
  BY DEF GameInv, StreamsInv, InFlight, StreamsDoNotClash
<1> QED BY <1>1, GameInvariant, PTL

\* BatonsInPlay: no baton of a game is lost, multiplied or counted twice.
THEOREM BatonsStayInPlay == GameSpec => []BatonsInPlay
<1>1. GameInv => BatonsInPlay
  BY DEF GameInv
<1> QED BY <1>1, GameInvariant, PTL

\* A message that the server's handler leaves has made three hops.
LEMMA LeftFacts ==
  ASSUME GameInv, Over, NEW x \in flying
  PROVE  /\ Origin(x) \in 1 .. 253
         /\ \A b \in 1 .. 253 : Origin(x) = b <=> x.wire.baton = (b + 3) % 256
<1>1. InFlight(x) /\ ~Readable(x)
  BY DEF GameInv, StreamsInv, Over
<1>2. Hops(x) = 3
  BY <1>1 DEF InFlight, Readable, Hops, Modes
<1>3. /\ Origin(x) \in 1 .. 255 /\ Origin(x) + 3 <= 256
      /\ x.wire.baton = 0 <=> Origin(x) + 3 = 256
      /\ x.wire.baton # 0 => x.wire.baton = Origin(x) + 3
  BY <1>1, <1>2, OriginFacts DEF FirstBaton
<1>4. \A b \in 1 .. 253 : (b + 3) % 256 = IF b = 253 THEN 0 ELSE b + 3
  OBVIOUS
<1>5. Origin(x) \in 1 .. 253
  BY <1>3
<1>6. ASSUME NEW b \in 1 .. 253
      PROVE  Origin(x) = b <=> x.wire.baton = (b + 3) % 256
  <2>1. x.wire.baton = IF Origin(x) = 253 THEN 0 ELSE Origin(x) + 3
    BY <1>3
  <2>2. (b + 3) % 256 = IF b = 253 THEN 0 ELSE b + 3
    BY <1>4
  <2> HIDE DEF Origin
  <2> QED BY <1>5, <2>1, <2>2
<1> QED BY <1>5, <1>6

\* When a game is over every baton is where HowItEnds says.
LEMMA OverFacts ==
  ASSUME GameInv, Over
  PROVE  /\ TakenBy("SERVER") = Starting(255) /\ TakenBy("CLIENT") = Starting(254)
         /\ \A b \in 1 .. 253 :
              Cardinality({x \in flying : x.wire.baton = (b + 3) % 256}) = Starting(b)
<1>1. \A b \in FirstBaton : Cardinality(From(flying, b)) + Taken(b) = Starting(b)
  BY DEF GameInv, OriginsInv
<1>2. \A m \in Modes : TakenBy(m) \in Nat
  BY InPlayHolds DEF GameInv
<1>3. From(flying, 255) = {} /\ From(flying, 254) = {}
  BY LeftFacts DEF From
<1>4. TakenBy("SERVER") = Starting(255) /\ TakenBy("CLIENT") = Starting(254)
  <2>1. Taken(255) = TakenBy("SERVER") /\ Taken(254) = TakenBy("CLIENT")
    BY DEF Taken
  <2>2. TakenBy("SERVER") \in Nat /\ TakenBy("CLIENT") \in Nat
    BY <1>2 DEF Modes
  <2>3. Cardinality(From(flying, 255)) = 0 /\ Cardinality(From(flying, 254)) = 0
    BY <1>3, FS_EmptySet
  <2>4. 255 \in FirstBaton /\ 254 \in FirstBaton
    BY DEF FirstBaton
  <2>5. 0 + Taken(255) = Starting(255) /\ 0 + Taken(254) = Starting(254)
    BY <1>1, <2>3, <2>4
  <2> QED BY <2>1, <2>2, <2>5
<1>5. ASSUME NEW b \in 1 .. 253
      PROVE  Cardinality({x \in flying : x.wire.baton = (b + 3) % 256}) = Starting(b)
  <2>1. {x \in flying : x.wire.baton = (b + 3) % 256} = From(flying, b)
    BY LeftFacts DEF From
  <2>2. Cardinality(From(flying, b)) + 0 = Starting(b)
    BY <1>1 DEF Taken, FirstBaton
  <2>3. IsFiniteSet(flying) /\ From(flying, b) \in SUBSET flying
    BY DEF GameInv, GameTypes, From
  <2>4. Cardinality(From(flying, b)) \in Nat
    BY <2>3, FS_Subset, FS_CardinalityType
  <2>5. Cardinality(From(flying, b)) = Starting(b)
    BY <2>2, <2>4
  <2> QED BY <2>1, <2>5, Zenon
<1> QED BY <1>4, <1>5

\* HowItEnds: which baton ends where, and with which code each end closes,
\* for every request and every order of the deliveries.
THEOREM GamesEndAsTheyStart == GameSpec => []HowItEnds
<1>1. ASSUME GameInv, Over, NEW m \in Modes
      PROVE  LET back == Starting(IF m = "SERVER" THEN 255 ELSE 254)
             IN  /\ tally[m].finished = IF Asked(m) = 0 THEN 0 ELSE back
                 /\ codes[m] = IF back < Len(start) THEN <<>>
                               ELSE IF Asked(m) = 0 THEN <<BRUH>> ELSE <<NoError>>
  <2> DEFINE back == Starting(IF m = "SERVER" THEN 255 ELSE 254)
  <2>1. TakenBy(m) = back
    <3>1. TakenBy("SERVER") = Starting(255) /\ TakenBy("CLIENT") = Starting(254)
      BY <1>1, OverFacts
    <3>2. CASE m = "SERVER"
      BY <3>1, <3>2
    <3>3. CASE m = "CLIENT"
      BY <3>1, <3>3
    <3> QED BY <3>2, <3>3 DEF Modes
  <2> HIDE DEF back
  <2>2. PICK a \in Nat, f \in Nat :
          tally[m].active = a /\ tally[m].finished = f /\ Asked(m) = a + f
    BY <1>1 DEF GameInv, GameTypes, Tally, Asked
  <2>3. TakenBy(m) = f + (IF codes[m] = <<BRUH>> THEN 1 ELSE 0)
    BY <2>2 DEF TakenBy
  <2>4. start # <<>> /\ Len(start) \in Nat /\ Len(start) # 0
    BY <1>1, EmptySeq DEF Over, GameInv, GameTypes
  <2>5. codes[m] \in {<<>>, <<NoError>>, <<BRUH>>} /\ <<NoError>> # <<BRUH>>
    BY <1>1 DEF GameInv, GameTypes, NoError, BRUH
  <2>6. CASE Asked(m) = Len(start) /\ codes[m] = IF a = 0 THEN <<NoError>> ELSE <<>>
    BY <2>1, <2>2, <2>3, <2>4, <2>5, <2>6 DEF back
  <2>7. CASE Len(start) = 1 /\ Asked(m) = 0 /\ codes[m] # <<NoError>>
    BY <2>1, <2>2, <2>3, <2>4, <2>5, <2>7 DEF back
  <2> QED BY <1>1, <2>2, <2>4, <2>6, <2>7 DEF GameInv, CodesInv
<1>2. GameInv => HowItEnds
  BY <1>1, OverFacts DEF HowItEnds
<1> QED BY <1>2, GameInvariant, PTL

-----------------------------------------------------------------------------
(* Each end implements BatonSession.                                         *)

\* A step as m's session sees it: nothing, the start, a baton that came back,
\* or one that is taken for a fault.
PlaysOn(m) ==
  \/ Stage' = Stage /\ tally'[m].active = tally[m].active /\ codes'[m] = codes[m]
  \/ /\ start = <<>> /\ start' # <<>>
     /\ tally'[m].active \in 0 .. kMaxParallelBatons /\ codes'[m] = codes[m]
  \/ /\ start # <<>> /\ start' = start
     /\ \/ /\ tally[m].active > 0 /\ tally'[m].active = tally[m].active - 1
           /\ codes'[m] = IF tally[m].active = 1 THEN Append(codes[m], NoError)
                          ELSE codes[m]
        \/ tally'[m].active = tally[m].active /\ codes'[m] = Append(codes[m], BRUH)

LEMMA TakesBackPlays ==
  ASSUME GameInv, flying # {}, NEW m \in Modes, TakesBack(m), start' = start
  PROVE  \A o \in Modes : PlaysOn(o)
<1> DEFINE v == onBatonFinished(tally[m], "PEER", FALSE)
           c == codes[m]
<1>1. PICK a \in Nat, z \in Nat, f \in Nat :
        tally[m] = [active |-> a, reset |-> z, finished |-> f]
  BY DEF GameInv, GameTypes, Tally
<1>2. v = IF a = 0 THEN [tally |-> tally[m], closes |-> <<BRUH>>]
          ELSE [tally  |-> [active |-> a - 1, reset |-> z, finished |-> f + 1],
                closes |-> IF a = 1 THEN <<NoError>> ELSE <<>>]
  <2>1. CASE a = 0
    BY <1>1, <2>1 DEF onBatonFinished
  <2>2. CASE a # 0
    <3>1. z + 0 = z /\ f + 1 > 0 /\ (a - 1 = 0 <=> a = 1)
      OBVIOUS
    <3>2. v = LET u == [active |-> a - 1, reset |-> z + 0, finished |-> f + 1]
              IN  [tally |-> u, closes |-> IF u.active = 0 /\ "PEER" = "PEER"
                                           THEN <<IF u.finished > 0 THEN NoError ELSE GAME_OVER>>
                                           ELSE <<>>]
      BY <1>1, <2>2 DEF onBatonFinished, Bit
    <3> QED BY <2>2, <3>1, <3>2
  <2> QED BY <2>1, <2>2
<1>3. /\ tally' = [tally EXCEPT ![m] = v.tally]
      /\ codes' = [codes EXCEPT ![m] = @ \o v.closes]
  BY DEF TakesBack
<1> HIDE DEF v
<1>4. /\ tally'[m] = v.tally /\ codes'[m] = c \o v.closes
      /\ \A o \in Modes \ {m} : tally'[o] = tally[o] /\ codes'[o] = codes[o]
  BY <1>3 DEF GameInv, GameTypes
<1>5. start # <<>>
  BY DEF GameInv, CodesInv
<1>6. c \in Seq({NoError, BRUH})
  <2>1. c \in {<<>>, <<NoError>>, <<BRUH>>}
    BY DEF GameInv, GameTypes
  <2>2. \A d \in {NoError, BRUH} : <<d>> \in Seq({NoError, BRUH})
    OBVIOUS
  <2>3. <<>> \in Seq({NoError, BRUH})
    OBVIOUS
  <2> QED BY <2>1, <2>2, <2>3, Zenon
<1> HIDE DEF c
<1>7. /\ c \o <<>> = c
      /\ c \o <<NoError>> = Append(c, NoError)
      /\ c \o <<BRUH>> = Append(c, BRUH)
  BY <1>6
<1>8. ASSUME a = 0 PROVE PlaysOn(m)
  BY <1>1, <1>2, <1>4, <1>5, <1>7, <1>8 DEF PlaysOn, c
<1>9. ASSUME a # 0 PROVE PlaysOn(m)
  <2>1. /\ tally'[m].active = a - 1 /\ tally[m].active = a /\ a > 0
        /\ codes'[m] = IF a = 1 THEN Append(c, NoError) ELSE c
    <3>1. v = [tally  |-> [active |-> a - 1, reset |-> z, finished |-> f + 1],
               closes |-> IF a = 1 THEN <<NoError>> ELSE <<>>]
      BY <1>2, <1>9
    <3>2. codes'[m] = c \o (IF a = 1 THEN <<NoError>> ELSE <<>>)
      BY <1>4, <3>1
    <3>3. codes'[m] = IF a = 1 THEN Append(c, NoError) ELSE c
      BY <1>7, <3>2, Zenon
    <3>4. tally'[m].active = a - 1 /\ tally[m].active = a /\ a > 0
      BY <1>1, <1>4, <1>9, <3>1
    <3> QED BY <3>3, <3>4
  <2> QED BY <1>5, <2>1 DEF PlaysOn, c
<1>10. ASSUME NEW o \in Modes \ {m} PROVE PlaysOn(o)
  BY <1>4 DEF PlaysOn, Stage
<1> QED BY <1>8, <1>9, <1>10

LEMMA StepPlays ==
  ASSUME GameInv, [GameNext]_gameVars, NEW m \in Modes
  PROVE  PlaysOn(m)
<1>1. ASSUME NEW r \in Requests, Connect(r) PROVE PlaysOn(m)
  <2>1. /\ start = <<>> /\ RequestStatus(r) = 200 /\ start' = StartingBatons(r)
        /\ tally'[m].active = RequestedCount(r) /\ codes' = codes
    BY <1>1 DEF Connect
  <2>2. /\ RequestedCount(r) \in 0 .. kMaxParallelBatons
        /\ StartingBatons(r) = <<>> => RequestedCount(r) = 0
    BY <2>1, StartingBatonsFacts DEF kMaxParallelBatons
  <2>3. tally[m].active = 0
    BY <2>1 DEF GameInv, CodesInv
  <2> QED BY <2>1, <2>2, <2>3 DEF PlaysOn, Stage
<1>2. ASSUME NEW x \in flying, Deliver(x) PROVE PlaysOn(m)
  <2>1. InFlight(x)
    BY DEF GameInv, StreamsInv
  <2>2. CASE x.wire.baton = 0
    <3>1. TakesBack(x.to) /\ start' = start /\ x.to \in Modes
      BY <1>2, <2>1, <2>2, DeliverFacts DEF InFlight
    <3> QED BY <3>1, TakesBackPlays
  <2>3. CASE x.wire.baton # 0
    <3>1. tally' = tally /\ codes' = codes /\ start' = start
      BY <1>2, <2>3, DeliverFacts
    <3> QED BY <3>1 DEF PlaysOn, Stage
  <2> QED BY <2>2, <2>3
<1>3. CASE UNCHANGED gameVars
  BY <1>3 DEF gameVars, PlaysOn, Stage
<1> QED BY <1>1, <1>2, <1>3 DEF GameNext

\* EndsKeepPromise: in a game of two DeviousBatons, in either mode, each
\* end's session is one of BatonSession.
THEOREM EndsImplementBatonSession == GameSpec => EndsKeepPromise
<1>1. GameInit => ServerEnd!Init /\ ClientEnd!Init
  BY DEF GameInit, Stage, ServerEnd!Init, ClientEnd!Init, Modes
<1>2. GameInv /\ [GameNext]_gameVars => [ServerEnd!Next]_ServerEnd!sessionVars
  <2> SUFFICES ASSUME GameInv, [GameNext]_gameVars
               PROVE  [ServerEnd!Next]_ServerEnd!sessionVars
    OBVIOUS
  <2>1. PlaysOn("SERVER")
    BY StepPlays DEF Modes
  <2> QED BY <2>1
          DEF PlaysOn, Stage, ServerEnd!Next, ServerEnd!sessionVars, ServerEnd!Agree,
              ServerEnd!Return, ServerEnd!Fault, ServerEnd!Faults,
              ServerEnd!kMaxParallelBatons, kMaxParallelBatons,
              ServerEnd!NoError, NoError, ServerEnd!BRUH, BRUH
<1>3. GameInv /\ [GameNext]_gameVars => [ClientEnd!Next]_ClientEnd!sessionVars
  <2> SUFFICES ASSUME GameInv, [GameNext]_gameVars
               PROVE  [ClientEnd!Next]_ClientEnd!sessionVars
    OBVIOUS
  <2>1. PlaysOn("CLIENT")
    BY StepPlays DEF Modes
  <2> QED BY <2>1
          DEF PlaysOn, Stage, ClientEnd!Next, ClientEnd!sessionVars, ClientEnd!Agree,
              ClientEnd!Return, ClientEnd!Fault, ClientEnd!Faults,
              ClientEnd!kMaxParallelBatons, kMaxParallelBatons,
              ClientEnd!NoError, NoError, ClientEnd!BRUH, BRUH
<1> QED BY <1>1, <1>2, <1>3, GameInvariant, PTL
        DEF GameSpec, EndsKeepPromise, ServerEnd!Spec, ClientEnd!Spec
=============================================================================
