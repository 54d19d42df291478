-------------------------- MODULE BatonMessageProofs --------------------------
(***************************************************************************)
(* Proofs about the parser, for every wire, every state of a stream that   *)
(* can be resumed and every chunk: the cases of the switch one by one,     *)
(* then one call of onBatonMessageData.  At the end, what a request makes  *)
(* the server start with.                                                  *)
(***************************************************************************)
EXTENDS BatonRules, SequenceTheorems, TLAPS

(***************************************************************************)
(* Resumable: the state m of a stream of which r bytes have been queued    *)
(* and nothing refused, before its message is complete.                    *)
(***************************************************************************)
Resumable(w, m, r) ==
  /\ m \in BatonMessageState
  /\ m.state # "DONE"
  /\ m.tail = r
  /\ m.state = "PAD_LEN" => m.head = 0 /\ r < w.lenBytes
  /\ m.state = "PAD" => /\ m.head = r
                        /\ w.lenBytes <= r
                        /\ r < BatonOffset(w)
                        /\ m.paddingRemaining = BatonOffset(w) - r
  /\ m.state = "BATON" => m.head = r /\ r = BatonOffset(w)

\* The local variables of one call.
ParseState == [state : State, paddingRemaining : Nat, baton : Byte,
               cursor : Nat, consumed : Nat, underflow : BOOLEAN]

\* What is known of the local variables when the queue holds the bytes up to
\* tail and a case has consumed those from head to cursor: the cursor stands
\* where the state says, and an underflow means the queue is used up.
Stands(w, p, head, tail) ==
  /\ p \in ParseState
  /\ p.cursor = head + p.consumed
  /\ p.cursor <= tail
  /\ p.state = "PAD_LEN" => p.cursor = 0 /\ p.consumed = 0
  /\ p.state = "PAD" => /\ w.lenBytes <= p.cursor
                        /\ p.cursor + p.paddingRemaining = BatonOffset(w)
  /\ p.state = "BATON" => p.cursor = BatonOffset(w)
  /\ p.state = "DONE" => p.cursor = MessageSize(w) /\ p.baton = w.baton

\* A call starts with underflow = false.
Fresh(p) == p.underflow = FALSE

\* The first case leaves PAD_LEN unless the length field is incomplete.
LEMMA PadLenCaseStands ==
  ASSUME NEW w \in Wire, NEW p, NEW head \in Nat, NEW tail \in Nat,
         Stands(w, p, head, tail), p.state # "DONE", Fresh(p)
  PROVE  LET q == PadLenCase(w, p, tail)
         IN  /\ Stands(w, q, head, tail)
             /\ q.state # "DONE"
             /\ q.underflow = (q.state = "PAD_LEN")
             /\ q.state = "PAD_LEN" => tail < w.lenBytes
<1> DEFINE q == PadLenCase(w, p, tail)
<1>1. p \in ParseState /\ p.cursor \in Nat /\ p.consumed \in Nat
  BY DEF Stands, ParseState
<1>2. w.lenBytes \in Nat /\ w.padLen \in Nat
  BY DEF Wire
<1>3. CASE p.state # "PAD_LEN"
  <2>1. q = p
    BY <1>3 DEF PadLenCase
  <2> QED BY <1>3, <2>1 DEF Fresh
<1>4. CASE p.state = "PAD_LEN" /\ tail - p.cursor < w.lenBytes
  <2>1. q = [p EXCEPT !.underflow = TRUE]
    BY <1>4 DEF PadLenCase
  <2>2. q \in ParseState
    BY <1>1, <2>1 DEF ParseState
  <2>3. /\ q.state = "PAD_LEN" /\ q.underflow = TRUE
        /\ q.cursor = p.cursor /\ q.consumed = p.consumed
    BY <1>1, <1>4, <2>1 DEF ParseState
  <2>4. tail < w.lenBytes
    BY <1>2, <1>4 DEF Stands
  <2> HIDE DEF q
  <2>5. Stands(w, q, head, tail)
    BY <1>4, <2>2, <2>3 DEF Stands
  <2> QED BY <2>3, <2>4, <2>5 DEF q
<1>5. CASE p.state = "PAD_LEN" /\ ~(tail - p.cursor < w.lenBytes)
  <2>1. q = [state |-> "PAD", paddingRemaining |-> w.padLen, baton |-> p.baton,
             cursor |-> p.cursor + w.lenBytes,
             consumed |-> p.consumed + w.lenBytes, underflow |-> FALSE]
    BY <1>1, <1>5 DEF PadLenCase, ParseState, Fresh
  <2>2. q \in ParseState
    BY <1>1, <1>2, <2>1 DEF ParseState, State
  <2>3. /\ q.state = "PAD" /\ q.underflow = FALSE
        /\ q.cursor = p.cursor + w.lenBytes
        /\ q.consumed = p.consumed + w.lenBytes
        /\ q.paddingRemaining = w.padLen
    BY <1>1, <2>1 DEF ParseState
  <2> HIDE DEF q
  <2>4. Stands(w, q, head, tail)
    BY <1>1, <1>2, <1>5, <2>2, <2>3 DEF Stands, BatonOffset
  <2> QED BY <2>3, <2>4 DEF q
<1> QED BY <1>3, <1>4, <1>5

\* The second case leaves PAD unless the queue ends in the padding.
LEMMA PadCaseStands ==
  ASSUME NEW w \in Wire, NEW p, NEW head \in Nat, NEW tail \in Nat,
         Stands(w, p, head, tail), p.state # "DONE",
         p.underflow = (p.state = "PAD_LEN")
  PROVE  LET q == PadCase(p, tail)
         IN  /\ Stands(w, q, head, tail)
             /\ q.state # "DONE"
             /\ q.underflow = (q.state # "BATON")
             /\ q.state = "PAD" => q.cursor = tail /\ q.paddingRemaining > 0
             /\ q.state = "PAD_LEN" => q = p
<1> DEFINE q == PadCase(p, tail)
<1>1. /\ p \in ParseState /\ p.cursor \in Nat /\ p.consumed \in Nat
      /\ p.paddingRemaining \in Nat
  BY DEF Stands, ParseState
<1>2. w.lenBytes \in Nat /\ w.padLen \in Nat
  BY DEF Wire
<1>3. CASE p.state # "PAD"
  <2>1. q = p
    BY <1>3 DEF PadCase
  <2>2. (p.state = "PAD_LEN") = (p.state # "BATON")
    BY <1>1, <1>3 DEF ParseState, State
  <2> QED BY <1>3, <2>1, <2>2
<1>4. CASE p.state = "PAD" /\ p.paddingRemaining <= tail - p.cursor
  <2>1. AtMost(p.paddingRemaining, tail - p.cursor) = p.paddingRemaining
    BY <1>1, <1>4 DEF AtMost
  <2>2. q = [state |-> "BATON", paddingRemaining |-> 0, baton |-> p.baton,
             cursor |-> p.cursor + p.paddingRemaining,
             consumed |-> p.consumed + p.paddingRemaining, underflow |-> FALSE]
    <3>1. (p.paddingRemaining - p.paddingRemaining > 0) = FALSE
      BY <1>1
    <3>2. p.paddingRemaining - p.paddingRemaining = 0
      BY <1>1
    <3>3. q = [p EXCEPT !.state = "BATON", !.underflow = FALSE,
                        !.paddingRemaining = 0,
                        !.cursor = p.cursor + p.paddingRemaining,
                        !.consumed = p.consumed + p.paddingRemaining]
      BY <1>4, <2>1, <3>1, <3>2, Zenon DEF PadCase
    <3> QED BY <1>1, <3>3 DEF ParseState
  <2>3. q \in ParseState
    BY <1>1, <2>2 DEF ParseState, State
  <2>4. /\ q.state = "BATON" /\ q.underflow = FALSE
        /\ q.cursor = p.cursor + p.paddingRemaining
        /\ q.consumed = p.consumed + p.paddingRemaining
    BY <1>1, <2>2 DEF ParseState
  <2> HIDE DEF q
  <2>5. Stands(w, q, head, tail)
    BY <1>1, <1>2, <1>4, <2>3, <2>4 DEF Stands
  <2>6. q.underflow = (q.state # "BATON")
    BY <2>4
  <2> QED BY <2>4, <2>5, <2>6 DEF q
<1>5. CASE p.state = "PAD" /\ ~(p.paddingRemaining <= tail - p.cursor)
  <2> DEFINE rest == tail - p.cursor
  <2>1. rest \in Nat /\ p.paddingRemaining - rest \in Nat /\ p.paddingRemaining > rest
    BY <1>1, <1>5 DEF Stands
  <2>2. AtMost(p.paddingRemaining, rest) = rest
    BY <1>1, <2>1 DEF AtMost
  <2>3. q = [state |-> "PAD", paddingRemaining |-> p.paddingRemaining - rest,
             baton |-> p.baton, cursor |-> p.cursor + rest,
             consumed |-> p.consumed + rest, underflow |-> TRUE]
    <3>1. (p.paddingRemaining - rest > 0) = TRUE
      BY <1>1, <2>1
    <3>2. q = [p EXCEPT !.state = "PAD", !.underflow = TRUE,
                        !.paddingRemaining = p.paddingRemaining - rest,
                        !.cursor = p.cursor + rest,
                        !.consumed = p.consumed + rest]
      BY <1>5, <2>2, <3>1, Zenon DEF PadCase
    <3> QED BY <1>1, <3>2 DEF ParseState
  <2>4. q \in ParseState
    BY <1>1, <2>1, <2>3 DEF ParseState, State
  <2>5. /\ q.state = "PAD" /\ q.underflow = TRUE
        /\ q.cursor = tail
        /\ q.consumed = p.consumed + rest
        /\ q.paddingRemaining = p.paddingRemaining - rest
    BY <1>1, <2>3 DEF ParseState
  <2> HIDE DEF q
  <2>6. Stands(w, q, head, tail)
    BY <1>1, <1>2, <1>5, <2>1, <2>4, <2>5 DEF Stands
  <2>7. q.underflow = (q.state # "BATON")
    BY <2>5
  <2>8. q.paddingRemaining > 0
    BY <1>1, <2>1, <2>5
  <2> QED BY <2>5, <2>6, <2>7, <2>8 DEF q
<1> QED BY <1>3, <1>4, <1>5

\* The third case leaves BATON unless the queue ends before the baton.
LEMMA BatonCaseStands ==
  ASSUME NEW w \in Wire, NEW p, NEW head \in Nat, NEW tail \in Nat,
         Stands(w, p, head, tail), p.state # "DONE",
         p.underflow = (p.state # "BATON")
  PROVE  LET q == BatonCase(w, p, tail)
         IN  /\ Stands(w, q, head, tail)
             /\ q.underflow = (q.state # "DONE")
             /\ q.state = "BATON" => q.cursor = tail
             /\ q.state \in {"PAD_LEN", "PAD"} => q = p
<1> DEFINE q == BatonCase(w, p, tail)
<1>1. /\ p \in ParseState /\ p.cursor \in Nat /\ p.consumed \in Nat
      /\ p.state \in State
  BY DEF Stands, ParseState
<1>2. w.lenBytes \in Nat /\ w.padLen \in Nat /\ w.baton \in Byte
  BY DEF Wire
<1>3. CASE p.state # "BATON"
  <2>1. q = p
    BY <1>3 DEF BatonCase
  <2> QED BY <1>1, <1>3, <2>1 DEF State
<1>4. CASE p.state = "BATON" /\ p.cursor = tail
  <2>1. q = [p EXCEPT !.underflow = TRUE]
    BY <1>4 DEF BatonCase
  <2>2. q \in ParseState
    BY <1>1, <2>1 DEF ParseState
  <2>3. /\ q.state = "BATON" /\ q.underflow = TRUE
        /\ q.cursor = p.cursor /\ q.consumed = p.consumed
    BY <1>1, <1>4, <2>1 DEF ParseState
  <2> HIDE DEF q
  <2>4. Stands(w, q, head, tail)
    BY <1>4, <2>2, <2>3 DEF Stands
  <2> QED BY <1>4, <2>3, <2>4 DEF q
<1>5. CASE p.state = "BATON" /\ p.cursor # tail
  <2>1. ByteAt(w, p.cursor) = w.baton
    BY <1>5 DEF Stands, ByteAt
  <2>2. q = [state |-> "DONE", paddingRemaining |-> p.paddingRemaining,
             baton |-> w.baton, cursor |-> p.cursor + 1,
             consumed |-> p.consumed + 1, underflow |-> p.underflow]
    BY <1>1, <1>5, <2>1 DEF BatonCase, ParseState
  <2>3. q \in ParseState
    BY <1>1, <1>2, <2>2 DEF ParseState, State
  <2>4. /\ q.state = "DONE" /\ q.underflow = FALSE /\ q.baton = w.baton
        /\ q.cursor = p.cursor + 1 /\ q.consumed = p.consumed + 1
    BY <1>1, <1>5, <2>2 DEF ParseState
  <2> HIDE DEF q
  <2>5. Stands(w, q, head, tail)
    BY <1>1, <1>2, <1>5, <2>3, <2>4 DEF Stands, MessageSize, BatonOffset
  <2> QED BY <2>4, <2>5 DEF q
<1> QED BY <1>3, <1>4, <1>5

(***************************************************************************)
(* One call with n more bytes, on a stream that is Resumable after r: the  *)
(* message is refused exactly when it was overrun, or cut short by a FIN;  *)
(* otherwise the stream is Resumable again or its baton is known, and then *)
(* no byte is left in the queue.                                           *)
(***************************************************************************)
Correct(w, r, n, f, res) ==
  /\ res.ms \in BatonMessageState
  /\ res.ms.tail = r + n
  /\ res.ok <=> r + n <= MessageSize(w) /\ (f => r + n = MessageSize(w))
  /\ res.ms.state = "DONE" <=> r + n >= MessageSize(w)
  /\ res.ms.state = "DONE" => res.ms.baton = w.baton
  /\ res.ms.state = "PAD_LEN" <=> r + n < w.lenBytes
  /\ res.ms.state = "PAD" => res.ms.paddingRemaining = BatonOffset(w) - (r + n)
  /\ res.ms.state = "BATON" => r + n = BatonOffset(w)
  /\ res.ok /\ res.ms.state # "DONE" => Resumable(w, res.ms, r + n)
  /\ res.ok => res.ms.tail - res.ms.head < w.lenBytes
  /\ res.ms.state = "DONE" => (res.ok <=> res.ms.head = res.ms.tail)

\* One call of onBatonMessageData on a state that can be resumed is Correct.
LEMMA onBatonMessageDataCorrect ==
  ASSUME NEW w \in Wire, NEW m, NEW r \in Nat, NEW n \in Nat, NEW f \in BOOLEAN,
         Resumable(w, m, r)
  PROVE  Correct(w, r, n, f, onBatonMessageData(w, m, n, f))
<1> DEFINE tail  == m.tail + n
           entry == [state |-> m.state, paddingRemaining |-> m.paddingRemaining,
                     baton |-> m.baton, cursor |-> m.head, consumed |-> 0,
                     underflow |-> FALSE]
           p1    == PadLenCase(w, entry, tail)
           p2    == PadCase(p1, tail)
           p     == Parse(w, m, tail)
           bad   == Malformed(p, tail, f)
           res   == onBatonMessageData(w, m, n, f)
<1>1. /\ w.lenBytes \in Nat /\ w.lenBytes > 0 /\ w.padLen \in Nat
      /\ BatonOffset(w) \in Nat /\ MessageSize(w) = BatonOffset(w) + 1
      /\ w.lenBytes <= BatonOffset(w)
  BY DEF Wire, BatonOffset, MessageSize
<1>2. /\ m \in BatonMessageState /\ m.tail = r /\ m.state # "DONE"
      /\ m.head \in Nat /\ m.head <= r /\ tail = r + n /\ tail \in Nat
  <2>1. m \in BatonMessageState /\ m.tail = r /\ m.state # "DONE"
    BY DEF Resumable
  <2>2. m.state \in State /\ m.head \in Nat
    BY <2>1 DEF BatonMessageState
  <2>3. m.head <= r
    BY <2>1, <2>2 DEF Resumable, State
  <2> QED BY <2>1, <2>2, <2>3
<1>3. Stands(w, entry, m.head, tail) /\ entry.state # "DONE" /\ Fresh(entry)
  <2>1. entry \in ParseState
    BY <1>2 DEF ParseState, BatonMessageState
  <2>2. /\ entry.state = m.state /\ entry.cursor = m.head /\ entry.consumed = 0
        /\ entry.paddingRemaining = m.paddingRemaining /\ entry.underflow = FALSE
    OBVIOUS
  <2> HIDE DEF entry
  <2> QED BY <1>1, <1>2, <2>1, <2>2 DEF Stands, Resumable, Fresh
<1>4. /\ Stands(w, p1, m.head, tail) /\ p1.state # "DONE"
      /\ p1.underflow = (p1.state = "PAD_LEN")
      /\ p1.state = "PAD_LEN" => tail < w.lenBytes
  <2> HIDE DEF entry, tail
  <2> QED BY <1>2, <1>3, PadLenCaseStands
<1>5. /\ Stands(w, p2, m.head, tail) /\ p2.state # "DONE"
      /\ p2.underflow = (p2.state # "BATON")
      /\ p2.state = "PAD" => p2.cursor = tail /\ p2.paddingRemaining > 0
      /\ p2.state = "PAD_LEN" => tail < w.lenBytes
  <2> HIDE DEF p1, tail
  <2> QED BY <1>2, <1>4, PadCaseStands
<1>6. /\ Stands(w, p, m.head, tail)
      /\ p.underflow = (p.state # "DONE")
      /\ p.state = "PAD" => p.cursor = tail /\ p.paddingRemaining > 0
      /\ p.state = "PAD_LEN" => tail < w.lenBytes
      /\ p.state = "BATON" => p.cursor = tail
  <2>1. p = BatonCase(w, p2, tail)
    BY DEF Parse
  <2> HIDE DEF p2, p, tail
  <2> QED BY <1>2, <1>5, <2>1, BatonCaseStands
<1>7. /\ p \in ParseState /\ p.state \in State /\ p.baton \in Byte
      /\ p.cursor \in Nat /\ p.consumed \in Nat /\ p.paddingRemaining \in Nat
      /\ p.cursor = m.head + p.consumed /\ p.cursor <= tail
  BY <1>6 DEF Stands, ParseState
<1>8. /\ p.state = "DONE" <=> r + n >= MessageSize(w)
      /\ p.state = "PAD_LEN" <=> r + n < w.lenBytes
      /\ p.state = "PAD" => /\ p.paddingRemaining = BatonOffset(w) - (r + n)
                            /\ p.cursor = r + n /\ w.lenBytes <= r + n
                            /\ r + n < BatonOffset(w)
      /\ p.state = "BATON" => r + n = BatonOffset(w) /\ p.cursor = r + n
      /\ p.state = "DONE" => p.cursor = MessageSize(w) /\ p.baton = w.baton
      /\ p.state = "PAD_LEN" => p.cursor = 0 /\ m.head = 0
  <2> HIDE DEF p, tail
  <2>1. p.state = "DONE" => r + n >= MessageSize(w) /\ p.cursor = MessageSize(w)
                            /\ p.baton = w.baton /\ ~(r + n < w.lenBytes)
    BY <1>1, <1>2, <1>6, <1>7 DEF Stands
  <2>2. p.state = "PAD_LEN" => /\ r + n < w.lenBytes /\ ~(r + n >= MessageSize(w))
                               /\ p.cursor = 0 /\ m.head = 0
    BY <1>1, <1>2, <1>6, <1>7 DEF Stands
  <2>3. p.state = "PAD" => /\ p.paddingRemaining = BatonOffset(w) - (r + n)
                           /\ p.cursor = r + n /\ w.lenBytes <= r + n
                           /\ r + n < BatonOffset(w)
                           /\ ~(r + n >= MessageSize(w))
    BY <1>1, <1>2, <1>6, <1>7 DEF Stands
  <2>4. p.state = "BATON" => /\ r + n = BatonOffset(w) /\ p.cursor = r + n
                             /\ ~(r + n < w.lenBytes) /\ ~(r + n >= MessageSize(w))
    BY <1>1, <1>2, <1>6, <1>7 DEF Stands
  <2>5. p.state \in {"PAD_LEN", "PAD", "BATON", "DONE"}
    BY <1>7 DEF State
  <2> QED BY <1>1, <2>1, <2>2, <2>3, <2>4, <2>5
<1>9. bad <=> \/ r + n > MessageSize(w)
              \/ f /\ r + n < MessageSize(w)
  <2>1. p.underflow <=> p.state # "DONE"
    BY <1>6
  <2> HIDE DEF p, tail
  <2> QED BY <1>1, <1>2, <1>7, <1>8, <2>1 DEF Malformed
<1> DEFINE head == IF bad THEN m.head ELSE m.head + AtMost(p.consumed, tail - m.head)
<1>10. /\ res.ok <=> ~bad
       /\ res.ms = [state |-> p.state, paddingRemaining |-> p.paddingRemaining,
                    baton |-> p.baton, tail |-> tail, head |-> head]
  BY DEF onBatonMessageData
<1>11. head \in Nat /\ (~bad => head = p.cursor)
  <2> HIDE DEF p, tail, bad
  <2> QED BY <1>2, <1>7 DEF AtMost
<1>12. /\ res.ms \in BatonMessageState
       /\ res.ms.state = p.state /\ res.ms.paddingRemaining = p.paddingRemaining
       /\ res.ms.baton = p.baton /\ res.ms.tail = r + n /\ res.ms.head = head
  <2> HIDE DEF p, tail, bad, head, res
  <2> QED BY <1>2, <1>7, <1>10, <1>11 DEF BatonMessageState
<1> HIDE DEF p, tail, bad, head, res
<1>13. ~bad /\ p.state # "DONE" => Resumable(w, res.ms, r + n)
  BY <1>1, <1>2, <1>7, <1>8, <1>11, <1>12 DEF Resumable
<1>14. ~bad => r + n - head < w.lenBytes
  <2>1. CASE p.state = "DONE"
    BY <1>1, <1>2, <1>8, <1>9, <1>11, <2>1
  <2>2. CASE p.state # "DONE"
    BY <1>1, <1>2, <1>7, <1>8, <1>11, <2>2 DEF State
  <2> QED BY <2>1, <2>2
<1>15. res.ok <=> r + n <= MessageSize(w) /\ (f => r + n = MessageSize(w))
  BY <1>1, <1>9, <1>10
<1>16. /\ res.ms.state = "DONE" <=> r + n >= MessageSize(w)
       /\ res.ms.state = "DONE" => res.ms.baton = w.baton
       /\ res.ms.state = "PAD_LEN" <=> r + n < w.lenBytes
       /\ res.ms.state = "PAD" => res.ms.paddingRemaining = BatonOffset(w) - (r + n)
       /\ res.ms.state = "BATON" => r + n = BatonOffset(w)
  BY <1>8, <1>12
<1>17. /\ res.ok /\ res.ms.state # "DONE" => Resumable(w, res.ms, r + n)
       /\ res.ok => res.ms.tail - res.ms.head < w.lenBytes
  <2>1. res.ok /\ res.ms.state # "DONE" => Resumable(w, res.ms, r + n)
    BY <1>10, <1>12, <1>13
  <2>2. res.ok => res.ms.tail - res.ms.head < w.lenBytes
    BY <1>1, <1>10, <1>11, <1>12, <1>14
  <2> QED BY <2>1, <2>2
<1>18. res.ms \in BatonMessageState /\ res.ms.tail = r + n
  BY <1>12
<1>19. ASSUME p.state = "DONE" PROVE ~bad <=> head = r + n
  <2>1. p.cursor = MessageSize(w) /\ r + n >= MessageSize(w) /\ m.head <= p.cursor
    BY <1>2, <1>7, <1>8, <1>19
  <2>2. bad => head = m.head
    BY DEF head
  <2> QED BY <1>1, <1>2, <1>7, <1>9, <1>11, <2>1, <2>2
<1>20. res.ms.state = "DONE" => (res.ok <=> res.ms.head = res.ms.tail)
  BY <1>10, <1>12, <1>19
<1>21. Correct(w, r, n, f, res)
  BY <1>15, <1>16, <1>17, <1>18, <1>20 DEF Correct
<1> QED BY <1>21 DEF res

\* A fresh stream can be resumed from its first byte.
LEMMA NewMessageStateResumable ==
  ASSUME NEW w \in Wire
  PROVE  Resumable(w, NewMessageState, 0)
BY DEF Resumable, NewMessageState, BatonMessageState, State, Byte, Wire

\* What makeBatonMessage writes is a wire that carries one message.
LEMMA makeBatonMessageIsOneMessage ==
  ASSUME NEW padLen \in Nat, NEW baton \in Nat
  PROVE  LET w == makeBatonMessage(padLen, baton)
         IN  w \in Wire /\ w.size = MessageSize(w) /\ w.baton = baton % 256
<1>1. VarintSize(padLen) \in {1, 2, 4, 8}
  BY DEF VarintSize
<1>2. baton % 256 \in Byte
  BY DEF Byte
<1> QED BY <1>1, <1>2 DEF makeBatonMessage, Wire, MessageSize, BatonOffset

\* Parsing undoes makeBatonMessage, but for the byte the baton is cut to: a
\* message that arrives whole with its FIN is accepted and its baton known.
THEOREM MessagesRoundTrip ==
  ASSUME NEW padLen \in Nat, NEW baton \in Nat
  PROVE  LET w   == makeBatonMessage(padLen, baton)
             res == onBatonMessageData(w, NewMessageState, w.size, TRUE)
         IN  res.ok /\ res.ms.state = "DONE" /\ res.ms.baton = baton % 256
<1> DEFINE w   == makeBatonMessage(padLen, baton)
           res == onBatonMessageData(w, NewMessageState, w.size, TRUE)
<1>1. w \in Wire /\ w.size = MessageSize(w) /\ w.baton = baton % 256
  BY makeBatonMessageIsOneMessage
<1> HIDE DEF w
<1>2. w.size \in Nat
  BY <1>1 DEF Wire
<1>3. Correct(w, 0, w.size, TRUE, res)
  BY <1>1, <1>2, NewMessageStateResumable, onBatonMessageDataCorrect
<1> HIDE DEF res
<1>4. res.ok /\ res.ms.state = "DONE" /\ res.ms.baton = baton % 256
  BY <1>1, <1>2, <1>3 DEF Correct
<1> QED BY <1>4 DEF res, w
-----------------------------------------------------------------------------
\* A baton that may start; 0 may not, as the first receiver would take it back.
FirstBaton == 1 .. 255

\* The batons a server starts with: as many as were asked for, or the one
\* that was given.
LEMMA StartingBatonsFacts ==
  ASSUME NEW r, RequestStatus(r) = 200
  PROVE  /\ RequestedCount(r) \in 0 .. kMaxParallelBatons
         /\ StartingBatons(r) \in Seq(FirstBaton)
         /\ \/ Len(StartingBatons(r)) = RequestedCount(r)
            \/ Len(StartingBatons(r)) = 1 /\ RequestedCount(r) = 0
<1> DEFINE given == IF r.baton = {} THEN <<>> ELSE <<CHOOSE b \in r.baton : TRUE>>
           g == Len(given)
           n == RequestedCount(r)
           fill == [i \in 1 .. n - g |-> 255 - (g + i - 1)]
<1>1. ValidParams(r)
  BY DEF RequestStatus
<1>2. n \in 0 .. kMaxParallelBatons
  BY <1>1 DEF ValidParams, RequestedCount, kMaxParallelBatons
<1>3. given \in Seq(FirstBaton) /\ (g = 0 \/ g = 1)
  <2>1. CASE r.baton = {}
    BY <2>1
  <2>2. CASE r.baton # {}
    <3>1. (CHOOSE b \in r.baton : TRUE) \in FirstBaton
      BY <1>1, <2>2 DEF ValidParams, FirstBaton
    <3> QED BY <2>2, <3>1
  <2> QED BY <2>1, <2>2
<1> HIDE DEF given, n, g
<1>4. CASE n >= g
  <2>1. \A i \in 1 .. n - g : 255 - (g + i - 1) \in FirstBaton
    <3> SUFFICES ASSUME NEW i \in 1 .. n - g PROVE 255 - (g + i - 1) \in 1 .. 255
      BY DEF FirstBaton
    <3>1. i \in Nat /\ i >= 1 /\ g + i <= 10
      BY <1>2, <1>3, <1>4 DEF kMaxParallelBatons
    <3>2. g \in Nat
      BY <1>3
    <3> QED BY <3>1, <3>2
  <2>2. fill \in [1 .. n - g -> FirstBaton] /\ n - g \in Nat
    BY <1>2, <1>3, <1>4, <2>1 DEF kMaxParallelBatons
  <2>3. fill \in Seq(FirstBaton) /\ Len(fill) = n - g
    <3>1. fill \in Seq(FirstBaton)
      BY <2>2, SeqDef
    <3>2. Len(fill) = n - g
      BY <2>2, <3>1, LenProperties
    <3> QED BY <3>1, <3>2
  <2> HIDE DEF fill
  <2>4. given \o fill \in Seq(FirstBaton) /\ Len(given \o fill) = n
    BY <1>2, <1>3, <2>3, ConcatProperties DEF kMaxParallelBatons, g
  <2>5. StartingBatons(r) = given \o fill
    BY DEF StartingBatons, given, g, n, fill
  <2> QED BY <1>2, <2>4, <2>5 DEF n
<1>5. CASE n < g
  <2>1. n = 0 /\ g = 1
    BY <1>2, <1>3, <1>5 DEF kMaxParallelBatons
  <2>2. fill = <<>>
    BY <2>1
  <2> HIDE DEF fill
  <2>3. given \o fill = given
    BY <1>3, <2>2, ConcatEmptySeq
  <2>4. StartingBatons(r) = given \o fill
    BY DEF StartingBatons, given, g, n, fill
  <2>5. Len(given) = 1
    BY <2>1 DEF g
  <2> QED BY <1>2, <1>3, <2>1, <2>3, <2>4, <2>5 DEF n
<1> QED BY <1>2, <1>3, <1>4, <1>5 DEF kMaxParallelBatons
=============================================================================
