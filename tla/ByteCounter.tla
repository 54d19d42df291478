----------------------------- MODULE ByteCounter -----------------------------
(***************************************************************************)
(* What the Python server promises its clients, without chunks, requests   *)
(* or dictionaries: a connection gets at most one session; from then on    *)
(* every stream that its client finishes is answered with the bytes heard  *)
(* on it, in the step that hears the end, once and on the right stream.    *)
(* One that ended before the session, or was reset, is never answered.     *)
(***************************************************************************)
EXTENDS Integers, Sequences

CONSTANTS Streams,   \* their names: a kind and a number
          Amounts    \* how many bytes may be heard at once

VARIABLE book   \* for each connection: whether it has a session, and what
                \*   was heard, how streams ended and what was answered

Blank == [session |-> FALSE, heard |-> [id \in Streams |-> 0],
          ending |-> [id \in Streams |-> "open"], answered |-> <<>>]

Init == \A c \in DOMAIN book : book[c] = Blank

Accept(c) == /\ ~book[c].session
             /\ book' = [book EXCEPT ![c].session = TRUE]

Hear(c, id, n) == /\ book[c].session
                  /\ book[c].ending[id] = "open"
                  /\ book' = [book EXCEPT ![c].heard[id] = @ + n]

\* The end of a stream, with the last n bytes, and its answer: on the stream
\* itself, or on a new one if it goes one way.
Answer(id, total) == [to |-> id, on |-> IF id[1] = "uni" THEN "new" ELSE "same",
                      count |-> total]
Finish(c, id, n) ==
  /\ book[c].session
  /\ book[c].ending[id] = "open"
  /\ book' = [book EXCEPT ![c].heard[id] = @ + n,
                          ![c].ending[id] = "fin",
                          ![c].answered = Append(@, Answer(id, book[c].heard[id] + n))]

\* An end that is not answered.
Drop(c, id) == /\ book[c].ending[id] = "open"
               /\ \E end \in {"fin", "reset"} :
                    /\ end = "fin" => ~book[c].session
                    /\ book' = [book EXCEPT ![c].ending[id] = end]

Next == \E c \in DOMAIN book :
          \/ Accept(c)
          \/ \E id \in Streams :
               \/ \E n \in Amounts : Hear(c, id, n) \/ Finish(c, id, n)
               \/ Drop(c, id)

Spec == Init /\ [][Next]_book
=============================================================================
