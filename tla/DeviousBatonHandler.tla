------------------------- MODULE DeviousBatonHandler -------------------------
(***************************************************************************)
(* DeviousBatonHandler: the server's handler of one CONNECT transaction.   *)
(* It answers the request, creates the DeviousBaton of an accepted one,    *)
(* reads the client's bidirectional streams and leaves its unidirectional  *)
(* ones alone (onWebTransportUniStream is empty).  onDatagram,             *)
(* onWebTransportSessionClose, onBody and onError change no state.         *)
(*                                                                         *)
(* A client opens streams once it has seen the 200 (as client.js does,     *)
(* which awaits transport.ready).                                          *)
(***************************************************************************)
EXTENDS DeviousBaton

VARIABLES response,     \* the status sent, 0 before
          transaction,  \* the handler still holds its transaction
          egressEOMs,   \* EOMs sent on the response
          accepted      \* history: the request of the session, if there is one

handlerVars == <<response, transaction, egressEOMs, accepted>>
allVars == <<batonVars, handlerVars>>

\* The DeviousBaton it makes is a server, and is given no unidirectional stream.
ServerEnd == Mode = "SERVER" /\ ~end.readsUni

HandlerInit == /\ Init
               /\ ServerEnd
               /\ response = 0
               /\ transaction = TRUE
               /\ egressEOMs = 0
               /\ accepted = {}

\* onHeadersComplete: a refusal ends the response and lets the transaction
\* go; an acceptance starts the game, and the response stays open.
Refusal(status) == /\ response' = status
                   /\ egressEOMs' = egressEOMs + 1
                   /\ transaction' = FALSE
                   /\ UNCHANGED <<batonVars, accepted>>

Acceptance(r) == /\ Accept(r)
                 /\ response' = 200
                 /\ accepted' = {r}
                 /\ UNCHANGED <<transaction, egressEOMs>>

onHeadersComplete(r, hasWebTransport) ==
  LET status == IF r.method # "CONNECT" THEN 400
                ELSE IF hasWebTransport THEN RequestStatus(r) ELSE 500
  IN  /\ response = 0
      /\ IF status \div 100 = 2 THEN Acceptance(r) ELSE Refusal(status)

\* Mutants: the end of the request also resets the DeviousBaton; nothing is
\* checked before the EOM.
onEOM_ResetsDevious == /\ phase # "crashed"
                       /\ response # 0
                       /\ egressEOMs' = IF transaction /\ egressEOMs = 0 THEN 1
                                        ELSE egressEOMs
                       /\ phase' = "idle"
                       /\ UNCHANGED <<end, requested, tally, streams, awaiting, incoming,
                                      failed, written, opened, limit, datagrams,
                                      closes, response, transaction, accepted>>
onEOM_Unchecked == /\ phase # "crashed"
                   /\ response # 0
                   /\ egressEOMs < 2
                   /\ egressEOMs' = egressEOMs + 1
                   /\ UNCHANGED <<batonVars, response, transaction, accepted>>

\* The client ends its side of the CONNECT stream.
onEOM == /\ phase # "crashed"
         /\ response # 0
         /\ egressEOMs' = IF transaction /\ egressEOMs = 0 THEN 1 ELSE egressEOMs
         /\ UNCHANGED <<batonVars, response, transaction, accepted>>

\* External: closing the session may itself end the CONNECT stream.
CloseEndsResponse == /\ closes # <<>> /\ egressEOMs = 0
                     /\ egressEOMs' = 1
                     /\ UNCHANGED <<batonVars, response, transaction, accepted>>

HandlerNext == \/ \E r \in Requests, wt \in BOOLEAN : onHeadersComplete(r, wt)
               \/ onEOM
               \/ CloseEndsResponse
               \/ Play /\ UNCHANGED handlerVars

HandlerSpec == HandlerInit /\ [][HandlerNext]_allVars
-----------------------------------------------------------------------------
\* The response is ended at most once: a refusal ends it at once and drops
\* the transaction, so that the client's own end of stream, which arrives
\* later, does not end it again; nor does it after a closed session.
ResponseEndsOnce == /\ egressEOMs <= 1
                    /\ response \in {400, 404, 500} => egressEOMs = 1

\* A session exists only for a client that was told 200.  It starts with as
\* many batons as the client asked for, or the one it gave if it asked for
\* none: first the one it gave and then 255 - i in place i, each on the next
\* stream of its own and none of them 0, which the first receiver would take
\* back.  Only a process that ended for lack of credit has started fewer.
Asked(r, i) == IF i = 0 /\ r.baton # {} THEN CHOOSE b \in r.baton : TRUE ELSE 255 - i
AskedFor(r) == IF RequestedCount(r) = 0 /\ r.baton # {} THEN 1 ELSE RequestedCount(r)
Started == {id \in StreamIds : \E i \in DOMAIN written[id] :
                                 written[id][i].cause = Unprompted}
StartsAsRequested ==
  phase # "idle" =>
    \E r \in accepted, k \in 0 .. kMaxParallelBatons :
      /\ response = 200
      /\ k = AskedFor(r) \/ (k < AskedFor(r) /\ phase = "crashed")
      /\ Started = {LocalUni("SERVER", i) : i \in 0 .. k - 1}
      /\ \A i \in 0 .. k - 1 : LET b == written[LocalUni("SERVER", i)][1].wire.baton
                              IN  b = Asked(r, i) /\ b # 0

\* The handler drives DeviousBaton the way that module's specification allows.
DrivesDeviousBaton == Spec

\* The session keeps the promise of BatonSession; among other things
\* GAME_OVER is never a verdict, because no reset is ever reported.
Session == INSTANCE BatonSession WITH stage <- phase, live <- tally.active,
                                      verdicts <- closes
KeepsSessionPromise == Session!Spec
-----------------------------------------------------------------------------
(* What the comments beside the error codes of DeviousBaton.h say of them. *)

\* DeviousBaton.h:12: DA_YAMN reports too little stream credit, a verdict on
\* the session and not the end of the process.
CreditShortageIsAVerdict == Closed(DA_YAMN) => phase # "crashed"
=============================================================================
