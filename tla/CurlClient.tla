----------------------------- MODULE CurlClient -----------------------------
(***************************************************************************)
(* One CurlClient with its transaction, and the transaction pushed with    *)
(* its response: the request with its pauses, the file the response goes   *)
(* to and what is written there.  HQClient keeps these records and says    *)
(* when their callbacks run.                                               *)
(***************************************************************************)
EXTENDS Integers, Sequences, FiniteSetsExt

CONSTANTS MaxTries,   \* file names tried for a response: 65535 in the code
          MaxChunks   \* bound: body chunks of a response, and of a push

ASSUME CurlBoundsAssumption == MaxTries \in Nat \ {0} /\ MaxChunks \in Nat

\* An output file is a name and the number appended to it, 0 for none.
FileName == {"hq.out", "a", "b"}
OutputFile == FileName \X Nat
Stdout == <<"stdout", 0>>

\* What is written to the output: the response's headers, its chunks by
\* their numbers, and chunks of a push.
Headers == -1
Pushed  == 0

\* path: the position of its path; txn: open, ended (no more ingress) or
\* detached; reads: the reads the input file is good for, 0 if it cannot be
\* opened, else one more than full blocks; bodies: sendBody calls made;
\* egress: how the request stands ("twice": two EOMs); push: the pushed
\* transaction.
CurlType == [path : Nat, eomFunc : {"none", "sequential", "runner"},
             txn : {"open", "ended", "detached"},
             reads : Nat, bodies : Nat, egressPaused : BOOLEAN,
             egress : {"headers", "eom", "twice", "failed"},
             file : OutputFile \cup {Stdout}, response : BOOLEAN,
             chunks : Nat, output : Seq(Int), push : {"none", "open", "ended"}]

\* A CurlClient whose request has no body ends it at once.
NewCurl(path, file) ==
  [path |-> path, eomFunc |-> "none", txn |-> "open",
   reads |-> 0, bodies |-> 0, egressPaused |-> FALSE, egress |-> "eom", file |-> file,
   response |-> FALSE, chunks |-> 0, output |-> <<>>, push |-> "none"]
-----------------------------------------------------------------------------
(* The request.                                                              *)

SendEOM(e) == IF e \in {"eom", "twice"} THEN "twice" ELSE "eom"

\* The end of sendBodyFromFile, p: egress was paused meanwhile.  Mutants: the
\* EOM is sent though it was; it is sent only by a loop that read something.
Finish_Always(c, n, p) == [c EXCEPT !.bodies = n, !.egressPaused = p, !.egress = SendEOM(@)]
Finish_AfterRead(c, n, p) ==
  [c EXCEPT !.bodies = n, !.egressPaused = p,
            !.egress = IF p \/ n = c.bodies THEN "headers" ELSE SendEOM(@)]
Finish(c, n, p) == [c EXCEPT !.bodies = n, !.egressPaused = p,
                             !.egress = IF p THEN "headers" ELSE SendEOM(@)]

\* sendBodyFromFile, not paused, can come to these: its loop reads the file
\* to its end, or to the sendBody in which the transaction pauses.
sendBodyFromFile(c) ==
  {Finish(c, c.reads, FALSE)} \cup {Finish(c, n, TRUE) : n \in c.bodies + 1 .. c.reads}

\* CurlClient::sendRequest of a POST; the headers too may pause it.
sendRequest(c, reads) ==
  LET d == [c EXCEPT !.reads = reads, !.egress = "headers"]
  IN  {Finish(d, 0, TRUE)} \cup sendBodyFromFile(d)

\* onEgressResumed.
Resumable(c) == c.egressPaused /\ c.egress = "headers"
onEgressResumed(c) == sendBodyFromFile([c EXCEPT !.egressPaused = FALSE])
-----------------------------------------------------------------------------
(* The response.                                                             *)

\* The name is the last part of the path, if there is one.
NameOf(path) == CASE path = "/" -> "hq.out"
                  [] path \in {"/a", "/dir/a"} -> "a"
                  [] path = "/b" -> "b"

\* saveResponseToFile: the first name that is free, unless the directory
\* cannot be written to; else standard output.  Mutant: a name is taken
\* whether or not there is such a file.
saveResponseToFile_Overwrites(name, files, writable) ==
  IF writable THEN <<name, 0>> ELSE Stdout
saveResponseToFile(name, files, writable) ==
  LET free == {t \in 0 .. MaxTries - 1 : <<name, t>> \notin files}
  IN  IF writable /\ free # {} THEN <<name, Min(free)>> ELSE Stdout

\* onHeadersComplete, and CurlPushHandler's prints only.
onHeadersComplete(c, logHeaders) ==
  [c EXCEPT !.response = TRUE, !.output = IF logHeaders THEN Append(@, Headers) ELSE @]

\* onBody of a client that logs; a push handler passes its chunks on to it.
onBody(c)     == [c EXCEPT !.chunks = @ + 1, !.output = Append(@, c.chunks + 1)]
onPushBody(c) == [c EXCEPT !.output = Append(@, Pushed)]

PushesWritten(c) == Cardinality({i \in DOMAIN c.output : c.output[i] = Pushed})
-----------------------------------------------------------------------------
\* A transaction is detached when both directions are done with.
Done(c) == c.txn = "ended" /\ c.egress # "headers"

\* A failed transaction, with onError, that neither brings nor takes more.
Fail(c) == [c EXCEPT !.txn = IF @ = "open" THEN "ended" ELSE @,
                     !.egress = IF @ = "headers" THEN "failed" ELSE @]
Lose(c) == [Fail(c) EXCEPT !.txn = "detached",
                           !.push = IF @ = "open" THEN "ended" ELSE @]
=============================================================================
