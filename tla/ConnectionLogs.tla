---------------------------- MODULE ConnectionLogs ----------------------------
(***************************************************************************)
(* What a ConnIdLogSink promises: a log per connection id, to which every  *)
(* message that names the id is appended, in the order of the messages,    *)
(* however many logs there are and however long one was not written to.    *)
(***************************************************************************)
EXTENDS Naturals, Sequences

CONSTANTS Cid,       \* connection ids
          Lines,     \* for a message, the pieces that follow its "CID="
          MaxLines   \* bound: messages logged

VARIABLES logs,    \* the messages, by their numbers, in the log of each id
          pieces,  \* what is left of the message being logged
          number   \* messages so far

vars == <<logs, pieces, number>>

Init == /\ logs = [c \in Cid |-> <<>>]
        /\ pieces = <<>>
        /\ number = 0

Message == /\ pieces = <<>>
           /\ number < MaxLines
           /\ pieces' \in Lines
           /\ number' = number + 1
           /\ UNCHANGED logs

\* A piece that is an id; one that is not.
Write == /\ pieces # <<>>
         /\ Head(pieces) \in Cid
         /\ logs' = [logs EXCEPT ![Head(pieces)] = Append(@, number)]
         /\ pieces' = Tail(pieces)
         /\ UNCHANGED number
Skip == /\ pieces # <<>>
        /\ Head(pieces) \notin Cid
        /\ pieces' = Tail(pieces)
        /\ UNCHANGED <<logs, number>>

\* The rest of a message is lost when a log cannot be opened.
Abandon == /\ pieces # <<>>
           /\ Head(pieces) \in Cid
           /\ pieces' = <<>>
           /\ UNCHANGED <<logs, number>>

Next == Message \/ Write \/ Skip \/ Abandon

Spec == Init /\ [][Next]_vars
=============================================================================
