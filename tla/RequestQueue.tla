---------------------------- MODULE RequestQueue ----------------------------
(***************************************************************************)
(* What the client promises whoever started it, without credit, callbacks, *)
(* gaps or timers: the paths are requested in the order of the command     *)
(* line, none twice, and none before it is its turn; a sequential client   *)
(* has at most one request open and makes the next one when that is over.  *)
(* With the request for the last path, and only then, the session is       *)
(* drained.  A server that goes away may take requests without a stream.   *)
(***************************************************************************)
EXTENDS Integers, Sequences

VARIABLES
  job,       \* how many paths there are, whether one request follows the
             \*   other, and whether the client migrates
  stage,     \* idle or started
  server,    \* there, or away
  left,      \* how many paths are still to be requested: the last ones
  requests,  \* those that were made, in order: of which path, and whether
             \*   they are open or over
  drains     \* how often the session was drained

queueVars == <<job, stage, server, left, requests, drains>>

Init == /\ job \in [paths : Nat \ {0}, sequential : BOOLEAN, migrates : BOOLEAN]
        /\ stage = "idle" /\ server = "there"
        /\ left = 0 /\ requests = <<>> /\ drains = 0

Open == {i \in DOMAIN requests : requests[i].is = "open"}
Over(S) == [i \in DOMAIN requests |->
              IF i \in S THEN [requests[i] EXCEPT !.is = "over"] ELSE requests[i]]

\* Requests for the first n of the m paths that are left.
Made(m, n) == [i \in 1 .. n |-> [path |-> job.paths - m + i, is |-> "open"]]

\* The first requests.  A client that migrates does not drain with them.
Start(n) == /\ stage = "idle"
            /\ job.sequential => n = 1
            /\ stage' = "started"
            /\ requests' = Made(job.paths, n)
            /\ left' = job.paths - n
            /\ drains' = IF n = job.paths /\ ~job.migrates THEN 1 ELSE 0
            /\ UNCHANGED <<job, server>>

End(S) == /\ requests' = Over(S)
          /\ UNCHANGED <<job, stage, server, left, drains>>

\* The next n, as those in S end or have ended.
Continue(S, n) == /\ stage = "started"
                  /\ job.sequential => n = 1 /\ Open \subseteq S
                  /\ \/ requests' = Over(S) \o Made(left, n)
                     \/ server = "away" /\ requests' = Over(S)
                  /\ left' = left - n
                  /\ drains' = IF n = left THEN 1 ELSE 0
                  /\ UNCHANGED <<job, stage, server>>

GoAway == /\ stage = "started"
          /\ server' = "away"
          /\ UNCHANGED <<job, stage, left, requests, drains>>

Next == \/ \E n \in 1 .. job.paths : Start(n)
        \/ \E S \in SUBSET Open : \/ End(S)
                                  \/ \E n \in 1 .. left : Continue(S, n)
        \/ GoAway

Spec == Init /\ [][Next]_queueVars
=============================================================================
