----------------------------- MODULE BatonStream -----------------------------
(***************************************************************************)
(* One readable WebTransport stream as DeviousBatonHandler::readHandler    *)
(* and DeviousBaton::onStreamData see it: the peer's bytes arrive in any   *)
(* chunks, the FIN with the last one or alone, and the stream may be reset *)
(* under the read.  One pending read delivers one chunk.                   *)
(***************************************************************************)
EXTENDS BatonMessage, Sequences

CONSTANT Wires   \* what the peer may write on the stream

ASSUME WiresAssumption == Wires \subseteq Wire

VARIABLES wire,      \* what the peer writes before its FIN
          ms,        \* the stream's BatonMessageState
          received,  \* bytes of the wire delivered so far
          fin,       \* the FIN has been delivered
          awaiting,  \* a read is pending (awaitNextRead)
          relayed,   \* the batons handed to onBatonMessage
          closes     \* the codes of the closeSession calls

vars == <<wire, ms, received, fin, awaiting, relayed, closes>>

Init == /\ wire \in Wires
        /\ ms = NewMessageState
        /\ received = 0
        /\ fin = FALSE
        /\ awaiting = TRUE
        /\ relayed = <<>>
        /\ closes = <<>>

\* The chunks the transport can deliver next: n bytes, and the FIN only
\* with or after the last byte.
Chunk(n, f) == /\ n <= wire.size - received
               /\ n > 0 \/ f
               /\ f => received + n = wire.size

\* onStreamData on a stream whose message is complete: only a FIN is legal.
DataAfterDone(n) ==
  /\ ms.state = "DONE"
  /\ closes' = IF n > 0 THEN Append(closes, ExtraData) ELSE closes
  /\ UNCHANGED <<ms, relayed>>

\* Mutant: a complete message is parsed, and relayed, again.
DataBeforeDone_NoDoneCheck(n, f) ==
  LET r == onBatonMessageData(wire, ms, n, f)
  IN  /\ ms' = r.ms
      /\ closes' = IF r.ok THEN closes ELSE Append(closes, BRUH)
      /\ relayed' = IF r.ok /\ r.ms.state = "DONE"
                    THEN Append(relayed, r.ms.baton) ELSE relayed

\* onStreamData on any other stream: parse, then relay a complete baton.
DataBeforeDone(n, f) ==
  LET r == onBatonMessageData(wire, ms, n, f)
  IN  /\ ms.state # "DONE"
      /\ ms' = r.ms
      /\ closes' = IF r.ok THEN closes ELSE Append(closes, BRUH)
      /\ relayed' = IF r.ok /\ r.ms.state = "DONE"
                    THEN Append(relayed, r.ms.baton) ELSE relayed

\* readHandler with data: the next read is requested unless this was the FIN.
Read(n, f) == /\ awaiting
              /\ Chunk(n, f)
              /\ DataAfterDone(n) \/ DataBeforeDone(n, f)
              /\ received' = received + n
              /\ fin' = f
              /\ awaiting' = ~f
              /\ UNCHANGED wire

\* readHandler with an exception: it is logged, and nothing else happens.
ReadError == /\ awaiting
             /\ awaiting' = FALSE
             /\ UNCHANGED <<wire, ms, received, fin, relayed, closes>>

Next == \/ \E n \in 0 .. wire.size, f \in BOOLEAN : Read(n, f)
        \/ ReadError

Spec == Init /\ [][Next]_vars
-----------------------------------------------------------------------------
\* The variables have their types; in particular the padding counter never
\* goes below zero, where the code's uint64_t would wrap.
TypeOK == /\ wire \in Wires
          /\ ms \in BatonMessageState
          /\ received \in 0 .. wire.size
          /\ fin \in BOOLEAN
          /\ awaiting \in BOOLEAN
          /\ relayed \in Seq(Byte)
          /\ closes \in Seq({BRUH, ExtraData})

\* Where the parser stands depends on how many bytes have arrived and not
\* on how they were cut into chunks: onBatonMessageData resumes in the
\* right case with the right amount of padding left to skip.
ParserFollowsBytes ==
  /\ ms.state = "PAD_LEN" <=> received < wire.lenBytes
  /\ ms.state = "DONE"    <=> received >= MessageSize(wire)
  /\ ms.state = "PAD"   => ms.paddingRemaining = BatonOffset(wire) - received
  /\ ms.state = "BATON" => received = BatonOffset(wire)

\* While the stream is well-formed the queue keeps no byte but those of an
\* incomplete length field: padding is discarded as it arrives.
PaddingIsNotBuffered == closes = <<>> => ms.tail - ms.head < wire.lenBytes

\* A stream relays at most one baton, the one its peer wrote, and a stream
\* that was refused for what it carried relays nothing later.
RelaysTheBatonOnce == /\ Len(relayed) <= 1
                      /\ \A i \in DOMAIN relayed : relayed[i] = wire.baton
NoRelayAfterRefusal == [][closes # <<>> => relayed' = relayed]_vars

\* Once the FIN has been read the session was closed for this stream exactly
\* when the peer did not write one message, whatever the chunks; and exactly
\* one well-formed message was relayed.
Accepted == wire.size = MessageSize(wire)
VerdictAtFin == fin => /\ closes = <<>> <=> Accepted
                       /\ Accepted => relayed = <<wire.baton>>
=============================================================================
