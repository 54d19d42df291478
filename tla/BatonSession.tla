---------------------------- MODULE BatonSession ----------------------------
(***************************************************************************)
(* What one end of a Devious Baton session promises, without streams or    *)
(* bytes: a number of batons is agreed once; they come back one at a time; *)
(* the session is closed without an error by the return of the last one    *)
(* and by nothing else; every other closing code reports a fault and       *)
(* leaves the count alone.                                                 *)
(***************************************************************************)
EXTENDS BatonRules

VARIABLES stage,     \* "idle", "playing", "crashed"
          live,      \* batons still in play
          verdicts   \* closing codes, in order

sessionVars == <<stage, live, verdicts>>

Faults == {DA_YAMN, BRUH, ExtraData}

Init == stage = "idle" /\ live = 0 /\ verdicts = <<>>

Agree(count) == /\ stage = "idle"
                /\ live' = count
                /\ \/ stage' = "playing" /\ UNCHANGED verdicts
                   \/ stage' = "crashed" /\ verdicts' = Append(verdicts, DA_YAMN)

Return == /\ stage = "playing"
          /\ live > 0
          /\ live' = live - 1
          /\ verdicts' = IF live = 1 THEN Append(verdicts, NoError) ELSE verdicts
          /\ UNCHANGED stage

Fault(code) == /\ stage = "playing"
               /\ verdicts' = Append(verdicts, code)
               /\ UNCHANGED <<stage, live>>

Next == \/ \E count \in 0 .. kMaxParallelBatons : Agree(count)
        \/ Return
        \/ \E code \in Faults : Fault(code)

Spec == Init /\ [][Next]_sessionVars
=============================================================================
