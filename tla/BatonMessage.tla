---------------------------- MODULE BatonMessage ----------------------------
(***************************************************************************)
(* The Baton message and its incremental parser (cpp/src/DeviousBaton.cpp).*)
(*                                                                         *)
(* A message is a variable-length integer that holds the padding length,   *)
(* that many bytes of padding and one byte of baton.  What a peer writes   *)
(* on a stream before its FIN is a *wire*: the number of bytes its length  *)
(* field takes, the padding it announces, the byte at the baton's place,   *)
(* and the number of bytes the stream really carries, which may be too few *)
(* or too many for one message.                                            *)
(***************************************************************************)
EXTENDS Integers

Byte == 0 .. 255

\* DeviousBaton.h: BatonSessionError; NoError is folly::none, and
\* ExtraData the literal 100 of onStreamData.
NoError   == -1
DA_YAMN   == 1
BRUH      == 2
GAME_OVER == 3
ExtraData == 100
CloseCode == {NoError, DA_YAMN, BRUH, GAME_OVER, ExtraData}

kStreamPadLen == 2000
kDatagramPadLen == 1000

Wire == [lenBytes : {1, 2, 4, 8}, padLen : Nat, baton : Byte, size : Nat]

\* The offset of the baton, and the size of the message a wire announces.
BatonOffset(w) == w.lenBytes + w.padLen
MessageSize(w) == BatonOffset(w) + 1

\* quic::encodeQuicInteger (external) takes the fewest bytes that fit.
VarintSize(v) == IF v < 64 THEN 1
                 ELSE IF v < 16384 THEN 2
                 ELSE IF v < 1073741824 THEN 4 ELSE 8

\* The parameter baton is a uint8_t: baton + 1 wraps.
makeBatonMessage(padLen, baton) ==
  [lenBytes |-> VarintSize(padLen), padLen |-> padLen, baton |-> baton % 256,
   size |-> VarintSize(padLen) + padLen + 1]

(***************************************************************************)
(* The parser keeps, per stream, its state and the bytes it has queued:    *)
(* those at offsets head .. tail-1 of the stream.                          *)
(***************************************************************************)
State == {"PAD_LEN", "PAD", "BATON", "DONE"}

BatonMessageState ==
  [state : State, head : Nat, tail : Nat, paddingRemaining : Nat, baton : Byte]

\* A value-initialised BatonMessageState: map's operator[] zeroes the
\* members that have no initialiser.
NewMessageState ==
  [state |-> "PAD_LEN", head |-> 0, tail |-> 0, paddingRemaining |-> 0,
   baton |-> 0]

\* Every byte other than the baton reads as padding ('a').
Filler == 97
ByteAt(w, offset) == IF offset = BatonOffset(w) THEN w.baton ELSE Filler

AtMost(a, b) == IF a < b THEN a ELSE b

(***************************************************************************)
(* The cases of onBatonMessageData's switch, over the local variables of   *)
(* one call.  A case that underflows leaves the state it was entered in,   *)
(* so the next case, which a C++ break would skip, does not apply.         *)
(***************************************************************************)
PadLenCase(w, p, tail) ==
  IF p.state # "PAD_LEN" THEN p
  ELSE IF tail - p.cursor < w.lenBytes THEN [p EXCEPT !.underflow = TRUE]
  ELSE [p EXCEPT !.state = "PAD", !.paddingRemaining = w.padLen,
                 !.cursor = @ + w.lenBytes, !.consumed = @ + w.lenBytes]

\* Mutant: what is skipped is not consumed.
PadCase_NotConsumed(p, tail) ==
  IF p.state # "PAD" THEN p
  ELSE LET skipped == AtMost(p.paddingRemaining, tail - p.cursor)
           left    == p.paddingRemaining - skipped
       IN  [p EXCEPT !.state = IF left > 0 THEN "PAD" ELSE "BATON",
                     !.underflow = left > 0, !.paddingRemaining = left,
                     !.cursor = @ + skipped]

PadCase(p, tail) ==
  IF p.state # "PAD" THEN p
  ELSE LET skipped == AtMost(p.paddingRemaining, tail - p.cursor)
           left    == p.paddingRemaining - skipped
       IN  [p EXCEPT !.state = IF left > 0 THEN "PAD" ELSE "BATON",
                     !.underflow = left > 0, !.paddingRemaining = left,
                     !.cursor = @ + skipped, !.consumed = @ + skipped]

BatonCase(w, p, tail) ==
  IF p.state # "BATON" THEN p
  ELSE IF p.cursor = tail THEN [p EXCEPT !.underflow = TRUE]
  ELSE [p EXCEPT !.state = "DONE", !.baton = ByteAt(w, p.cursor),
                 !.cursor = @ + 1, !.consumed = @ + 1]

Parse(w, ms, tail) ==
  LET entry == [state |-> ms.state, paddingRemaining |-> ms.paddingRemaining,
                baton |-> ms.baton, cursor |-> ms.head, consumed |-> 0,
                underflow |-> FALSE]
  IN  BatonCase(w, PadCase(PadLenCase(w, entry, tail), tail), tail)

\* Mutant: a FIN before the baton is not noticed.
Malformed_IgnoresFin(p, tail, fin) == p.state = "DONE" /\ p.cursor < tail

\* Bytes left over after the baton, or a FIN before it.
Malformed(p, tail, fin) == \/ p.state = "DONE" /\ p.cursor < tail
                           \/ p.underflow /\ fin

\* Mutant: the queue is never trimmed.
onBatonMessageData_NoTrim(w, ms, n, fin) ==
  LET tail == ms.tail + n
      p    == Parse(w, ms, tail)
  IN  [ok |-> ~Malformed(p, tail, fin),
       ms |-> [state |-> p.state, paddingRemaining |-> p.paddingRemaining,
               baton |-> p.baton, tail |-> tail, head |-> ms.head]]

\* n more bytes of the wire, with or without the FIN.  A malformed message
\* returns before the queue is trimmed.
onBatonMessageData(w, ms, n, fin) ==
  LET tail == ms.tail + n
      p    == Parse(w, ms, tail)
      bad  == Malformed(p, tail, fin)
  IN  [ok |-> ~bad,
       ms |-> [state |-> p.state, paddingRemaining |-> p.paddingRemaining,
               baton |-> p.baton, tail |-> tail,
               head |-> IF bad THEN ms.head
                        ELSE ms.head + AtMost(p.consumed, tail - ms.head)]]
=============================================================================
