----------------------------- MODULE BatonRules -----------------------------
(***************************************************************************)
(* The decisions of DeviousBaton that depend on nothing but their          *)
(* arguments: how a stream id is classified, what a baton makes its        *)
(* receiver do, and how the tally of batons is kept.  Both ends of a       *)
(* session play by them, each in its mode.                                 *)
(***************************************************************************)
EXTENDS BatonMessage, Sequences

Modes == {"CLIENT", "SERVER"}

kMaxParallelBatons == 10

\* QUIC stream ids: bit 1 tells unidirectional streams, bit 0 those the
\* server opened.  The k-th stream (from 0) that an endpoint opens:
Bit(b) == IF b THEN 1 ELSE 0
LocalUni(mode, k)  == 4 * k + 2 + Bit(mode = "SERVER")
LocalBidi(mode, k) == 4 * k + Bit(mode = "SERVER")

IsUni(id) == (id \div 2) % 2 = 1
ByServer(id) == id % 2 = 1

\* Mutant: the two kinds of bidirectional stream are taken for each other.
ArrivedOn_Swapped(mode, id) ==
  IF IsUni(id) THEN "UNI"
  ELSE IF ByServer(id) = (mode = "SERVER") THEN "PEER_BIDI" ELSE "SELF_BIDI"

ArrivedOn(mode, id) ==
  IF IsUni(id) THEN "UNI"
  ELSE IF ByServer(id) = (mode = "SERVER") THEN "SELF_BIDI" ELSE "PEER_BIDI"

SendsDatagram(mode, baton) == baton % 7 = IF mode = "SERVER" THEN 0 ELSE 1

\* Mutant: the addition is done in a byte.
WhoFinished_Wraps(baton) == IF baton = 0 THEN "PEER"
                            ELSE IF (baton + 1) % 256 = 0 THEN "SELF" ELSE "NO_ONE"

\* The value onBatonMessage returns.  baton is promoted to int before the
\* addition, so baton + 1 does not wrap here.
WhoFinished(baton) == IF baton = 0 THEN "PEER"
                      ELSE IF baton + 1 = 0 THEN "SELF" ELSE "NO_ONE"

Tally == [active : Nat, reset : Nat, finished : Nat]

\* Mutants: the count is not decremented; any return closes the session; only
\* a SELF return does.
Finished(t, who, wasReset, step, closing) ==
  IF who = "NO_ONE" THEN [tally |-> t, closes |-> <<>>]
  ELSE IF t.active = 0 THEN [tally |-> t, closes |-> <<BRUH>>]
  ELSE [tally |-> [active |-> t.active - step, reset |-> t.reset + Bit(wasReset),
                   finished |-> t.finished + Bit(~wasReset)],
        closes |-> IF closing THEN <<NoError>> ELSE <<>>]
onBatonFinished_NoDecrement(t, who, wasReset) ==
  Finished(t, who, wasReset, 0, FALSE)
onBatonFinished_AnyCloses(t, who, wasReset) ==
  Finished(t, who, wasReset, 1, TRUE)
onBatonFinished_SelfCloses(t, who, wasReset) ==
  Finished(t, who, wasReset, 1, t.active = 1 /\ who = "SELF")

\* onBatonFinished: the new tally, and the closeSession call it makes if any.
onBatonFinished(t, who, wasReset) ==
  IF who = "NO_ONE" THEN [tally |-> t, closes |-> <<>>]
  ELSE IF t.active = 0 THEN [tally |-> t, closes |-> <<BRUH>>]
  ELSE LET u == [active   |-> t.active - 1,
                 reset    |-> t.reset + Bit(wasReset),
                 finished |-> t.finished + Bit(~wasReset)]
       IN  [tally |-> u,
            closes |-> IF u.active = 0 /\ who = "PEER"
                       THEN <<IF u.finished > 0 THEN NoError ELSE GAME_OVER>>
                       ELSE <<>>]

(***************************************************************************)
(* The CONNECT request.  A query parameter is absent, {}, or has one value *)
(* (the parameters are kept in a map); a negative value stands for a text  *)
(* that is not a number.                                                   *)
(***************************************************************************)
Param == {p \in SUBSET Int : \A v, w \in p : v = w}
Request == [method : {"CONNECT", "GET"}, exactPath : BOOLEAN,
            version : Param, count : Param, baton : Param]

\* folly::to<uint64_t> and folly::to<uint8_t>, and the checks that throw.
ValidParams(r) == /\ \A v \in r.version : v = 0
                  /\ \A c \in r.count : c \in 0 .. kMaxParallelBatons
                  /\ \A b \in r.baton : b \in 1 .. 255

RequestStatus(r) == IF r.method # "CONNECT" THEN 400
                    ELSE IF r.exactPath /\ ValidParams(r) THEN 200 ELSE 404

RequestedCount(r) == IF r.count = {} THEN 1 ELSE CHOOSE c \in r.count : TRUE

\* Mutant: the fill does not skip the place of the baton that was given.
StartingBatons_IgnoresGiven(r) ==
  LET given == IF r.baton = {} THEN <<>> ELSE <<CHOOSE b \in r.baton : TRUE>>
  IN  given \o [i \in 1 .. RequestedCount(r) - Len(given) |-> 255 - (i - 1)]

\* The batons the server starts with: the one given, then 255 - i for each
\* position i that is left up to the count.
StartingBatons(r) ==
  LET given == IF r.baton = {} THEN <<>> ELSE <<CHOOSE b \in r.baton : TRUE>>
  IN  given \o [i \in 1 .. RequestedCount(r) - Len(given) |->
                  255 - (Len(given) + i - 1)]
=============================================================================
