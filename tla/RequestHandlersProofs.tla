------------------------ MODULE RequestHandlersProofs ------------------------
(***************************************************************************)
(* Proofs about one request and its handler, for any request, any number   *)
(* of onBody calls and any streams of a TestHandler session: whatever is   *)
(* sent is a legal response, and TestHandler answers at the FIN.           *)
(***************************************************************************)
EXTENDS RequestHandlers, SequenceTheorems, FiniteSetTheorems, TLAPS

(***************************************************************************)
(* The invariant.  Legal is what ResponseIsLegal asks of the order of what *)
(* was sent, of any sequence of events and any number of headers, so that  *)
(* it can be followed while the sequence grows.                            *)
(***************************************************************************)
Has(s, e) == \E i \in DOMAIN s : s[i] = e
Legal(s, k) ==
  /\ k \in Nat /\ k <= Len(s)
  /\ \A i \in DOMAIN s : s[i] = "headers" <=> i <= k
  /\ \A i, j \in DOMAIN s : s[i] = "eom" /\ i < j => s[j] = "abort"

\* What a handler has sent when: it has not ended the response before the
\* request has ended, unless it is one that answers at once.
EgressInv ==
  /\ egress # <<>> => Legal(egress, Len(pushed) + 1)
  /\ ingress = "none" => egress = <<>> /\ pushed = <<>>
  /\ ingress # "none" /\ process = "up" =>
       /\ egress # <<>>
       /\ Handler = "ServerPushHandler" => Has(egress, "eom")
  /\ ingress = "headers" /\ Handler \in {"EchoHandler", "DummyHandler"} => ~Has(egress, "eom")
  /\ Handler = "TestHandler" /\ ~transaction => Has(egress, "eom")
  /\ ingress = "eom" => Has(egress, "eom")

\* The pushes, and what can end the process.
ProcessInv ==
  /\ \A i \in DOMAIN pushed : pushed[i] = sendPushResponse
  /\ process = "terminated" => /\ request.path = "/push" /\ request.method = "GET"
                               /\ request.pushSize < 0 \/ request.pushCount > 0

\* TestHandler's streams: a stream under way has had a chunk exactly if
\* something was read.
StreamsInv ==
  /\ wt = [open |-> wt.open, credit |-> wt.credit, streams |-> wt.streams]
  /\ TestAnswersAtFin
  /\ \A id \in DOMAIN wt.streams : LET s == wt.streams[id] IN
       /\ s.read <= s.size
       /\ s.at = "awaiting" => (s.chunks = 0 <=> s.read = 0)

HandlersInv == TypeOK /\ EgressInv /\ ProcessInv /\ StreamsInv
-----------------------------------------------------------------------------
(* Sequences of events that grow by one event.                               *)

\* One more event leaves what was sent legal if nothing but an abort follows
\* an EOM, and it is no further headers.
LEMMA AppendLegal ==
  ASSUME NEW s \in Seq(Event), NEW e \in Event, NEW k \in Nat, Legal(s, k),
         e # "abort" => ~Has(s, "eom"),
         e # "headers"
  PROVE  /\ Append(s, e) \in Seq(Event) /\ Legal(Append(s, e), k) /\ Append(s, e) # <<>>
         /\ \A x : Has(Append(s, e), x) <=> Has(s, x) \/ x = e
<1> DEFINE t == Append(s, e)
           n == Len(s)
<1>1. n \in Nat /\ DOMAIN s = 1 .. n
  BY LenProperties
<1>2. t \in Seq(Event) /\ DOMAIN t = 1 .. n + 1 /\ Len(t) = n + 1
  BY AppendProperties, LenProperties
<1>3. t[n + 1] = e /\ \A i \in 1 .. n : t[i] = s[i]
  BY AppendProperties
<1>4. k <= n /\ \A i \in DOMAIN s : s[i] = "headers" <=> i <= k
  BY DEF Legal
<1>5. t # <<>>
  BY AppendProperties
<1> HIDE DEF t, n
<1>6. \A i \in DOMAIN t : i \in DOMAIN s \/ i = n + 1
  BY <1>1, <1>2
<1>7. \A x : Has(t, x) <=> Has(s, x) \/ x = e
  <2>1. DOMAIN s \subseteq DOMAIN t /\ n + 1 \in DOMAIN t
    BY <1>1, <1>2
  <2> QED BY <1>1, <1>3, <1>6, <2>1 DEF Has
<1>8. \A i \in DOMAIN t : t[i] = "headers" <=> i <= k
  <2> SUFFICES ASSUME NEW i \in DOMAIN t PROVE t[i] = "headers" <=> i <= k
    OBVIOUS
  <2>1. CASE i \in DOMAIN s
    BY <1>1, <1>3, <1>4, <2>1
  <2>2. CASE i = n + 1
    BY <1>1, <1>3, <1>4, <2>2
  <2> QED BY <1>6, <2>1, <2>2
<1>9. \A i, j \in DOMAIN t : t[i] = "eom" /\ i < j => t[j] = "abort"
  <2> SUFFICES ASSUME NEW i \in DOMAIN t, NEW j \in DOMAIN t, t[i] = "eom", i < j
               PROVE  t[j] = "abort"
    OBVIOUS
  <2>1. i \in DOMAIN s /\ s[i] = "eom"
    BY <1>1, <1>2, <1>3
  <2>2. CASE j \in DOMAIN s
    BY <1>1, <1>3, <2>1, <2>2 DEF Legal
  <2>3. CASE j = n + 1
    BY <1>3, <2>1, <2>3 DEF Has
  <2> QED BY <1>6, <2>2, <2>3
<1>10. k <= Len(t)
  BY <1>1, <1>2, <1>4
<1>11. Legal(t, k)
  BY <1>8, <1>9, <1>10 DEF Legal
<1> QED BY <1>2, <1>5, <1>7, <1>11 DEF t

\* A sequence of headers alone is legal, and so it is with a body and an EOM.
LEMMA ResponsesLegal ==
  ASSUME NEW h \in Seq(Event), h # <<>>, \A i \in DOMAIN h : h[i] = "headers"
  PROVE  LET hb == Append(h, "body")
             f  == Append(hb, "eom")
             he == Append(h, "eom")
         IN  /\ h \in Seq(Event) /\ hb \in Seq(Event) /\ f \in Seq(Event) /\ he \in Seq(Event)
             /\ h # <<>> /\ hb # <<>> /\ f # <<>> /\ he # <<>>
             /\ Legal(h, Len(h)) /\ Legal(hb, Len(h)) /\ Legal(f, Len(h)) /\ Legal(he, Len(h))
             /\ ~Has(h, "eom") /\ ~Has(hb, "eom") /\ Has(f, "eom") /\ Has(he, "eom")
<1> DEFINE hb == Append(h, "body")
           f  == Append(hb, "eom")
           he == Append(h, "eom")
<1>1. "body" \in Event /\ "eom" \in Event
  BY DEF Event
<1>2. Len(h) \in Nat /\ DOMAIN h = 1 .. Len(h)
  BY LenProperties
<1>3. Legal(h, Len(h)) /\ ~Has(h, "eom")
  BY <1>2 DEF Legal, Has
<1>4. /\ hb \in Seq(Event) /\ Legal(hb, Len(h)) /\ hb # <<>>
      /\ \A x : Has(hb, x) <=> Has(h, x) \/ x = "body"
  BY <1>1, <1>2, <1>3, AppendLegal
<1>5. /\ he \in Seq(Event) /\ Legal(he, Len(h)) /\ he # <<>>
      /\ \A x : Has(he, x) <=> Has(h, x) \/ x = "eom"
  BY <1>1, <1>2, <1>3, AppendLegal
<1> HIDE DEF hb, he
<1>6. /\ f \in Seq(Event) /\ Legal(f, Len(h)) /\ f # <<>>
      /\ \A x : Has(f, x) <=> Has(hb, x) \/ x = "eom"
  BY <1>1, <1>2, <1>3, <1>4, AppendLegal
<1> HIDE DEF f
<1> QED BY <1>3, <1>4, <1>5, <1>6 DEF hb, he, f
-----------------------------------------------------------------------------
(* The request arrives.                                                      *)

\* The handler is chosen by the request alone.
LEMMA HandlerKept ==
  ASSUME request' = request
  PROVE  Handler' = Handler
BY DEF Handler

\* TestHandler's streams, when a step leaves them alone.
LEMMA StreamsKept ==
  ASSUME StreamsInv, wt'.streams = wt.streams,
         wt' = [open |-> wt'.open, credit |-> wt'.credit, streams |-> wt'.streams]
  PROVE  StreamsInv'
<1>1. TestAnswersAtFin'
  BY DEF StreamsInv, TestAnswersAtFin
<1> QED BY <1>1 DEF StreamsInv

\* onHeadersComplete, from what it sends and what it does to the process.
LEMMA HeadersSent ==
  ASSUME HandlersInv, Arrives("none", "headers"), request' = request, bodies' = bodies,
         egress' \in Seq(Event), Legal(egress', Len(pushed') + 1), egress' # <<>>,
         pushed' \in Seq(Seq(Event)), \A i \in DOMAIN pushed' : pushed'[i] = sendPushResponse,
         process' = process, transaction' \in BOOLEAN,
         Handler \in {"EchoHandler", "DummyHandler"} => ~Has(egress', "eom"),
         Handler = "ServerPushHandler" => Has(egress', "eom"),
         Handler = "TestHandler" /\ ~transaction' => Has(egress', "eom"),
         wt'.streams = wt.streams, wt'.open \in BOOLEAN, wt'.credit = wt.credit,
         wt' = [open |-> wt'.open, credit |-> wt'.credit, streams |-> wt'.streams]
  PROVE  HandlersInv'
<1>1. process = "up" /\ ingress' = "headers" /\ Handler' = Handler
  BY HandlerKept DEF Arrives
<1>2. TypeOK'
  BY <1>1 DEF HandlersInv, TypeOK
<1>3. EgressInv'
  BY <1>1 DEF EgressInv
<1>4. ProcessInv'
  BY <1>1 DEF ProcessInv
<1>5. StreamsInv'
  BY StreamsKept DEF HandlersInv
<1> QED BY <1>2, <1>3, <1>4, <1>5 DEF HandlersInv

\* The responses that are sent at once, each in one piece.
LEMMA WholeResponses ==
  /\ <<"headers">> \in Seq(Event) /\ Legal(<<"headers">>, 1)
  /\ <<"headers", "body">> \in Seq(Event) /\ Legal(<<"headers", "body">>, 1)
  /\ <<"headers", "body", "eom">> \in Seq(Event) /\ Legal(<<"headers", "body", "eom">>, 1)
  /\ <<"headers", "eom">> \in Seq(Event) /\ Legal(<<"headers", "eom">>, 1)
  /\ <<"headers">> # <<>> /\ <<"headers", "body">> # <<>>
  /\ <<"headers", "body", "eom">> # <<>> /\ <<"headers", "eom">> # <<>>
  /\ ~Has(<<"headers">>, "eom") /\ ~Has(<<"headers", "body">>, "eom")
  /\ Has(<<"headers", "body", "eom">>, "eom") /\ Has(<<"headers", "eom">>, "eom")
<1>1. "headers" \in Event /\ "body" \in Event /\ "eom" \in Event
  BY DEF Event
<1>2. PICK p \in Seq(Event) : p = <<>>
  <2>1. <<>> \in Seq(Event)
    OBVIOUS
  <2> QED BY <2>1
<1>3. <<"headers">> \in Seq(Event) /\ Append(p, "headers") = <<"headers">>
  <2>1. Append(p, "headers") = p \o <<"headers">>
    BY <1>1
  <2>2. <<"headers">> \in Seq(Event)
    BY <1>1
  <2> QED BY <1>2, <2>1, <2>2, ConcatEmptySeq
<1>4. <<"headers", "body">> \in Seq(Event) /\ Append(Append(p, "headers"), "body") = <<"headers", "body">>
  <2>1. Append(Append(p, "headers"), "body") = p \o <<"headers", "body">>
    BY <1>1
  <2>2. <<"headers", "body">> \in Seq(Event)
    BY <1>1
  <2> QED BY <1>2, <2>1, <2>2, ConcatEmptySeq
<1>5. <<"headers", "body", "eom">> \in Seq(Event) /\ Append(Append(Append(p, "headers"), "body"), "eom") = <<"headers", "body", "eom">>
  <2>1. Append(Append(Append(p, "headers"), "body"), "eom") = p \o <<"headers", "body", "eom">>
    BY <1>1
  <2>2. <<"headers", "body", "eom">> \in Seq(Event)
    BY <1>1
  <2> QED BY <1>2, <2>1, <2>2, ConcatEmptySeq
<1>6. <<"headers", "eom">> \in Seq(Event) /\ Append(Append(p, "headers"), "eom") = <<"headers", "eom">>
  <2>1. Append(Append(p, "headers"), "eom") = p \o <<"headers", "eom">>
    BY <1>1
  <2>2. <<"headers", "eom">> \in Seq(Event)
    BY <1>1
  <2> QED BY <1>2, <2>1, <2>2, ConcatEmptySeq
<1> DEFINE h  == Append(p, "headers")
           hb == Append(h, "body")
           f  == Append(hb, "eom")
           he == Append(h, "eom")
<1>7. h \in Seq(Event) /\ h # <<>> /\ Len(h) = 1 /\ \A i \in DOMAIN h : h[i] = "headers"
  BY <1>3
<1>8. /\ h # <<>> /\ hb # <<>> /\ f # <<>> /\ he # <<>>
      /\ Legal(h, 1) /\ Legal(hb, 1) /\ Legal(f, 1) /\ Legal(he, 1)
      /\ ~Has(h, "eom") /\ ~Has(hb, "eom") /\ Has(f, "eom") /\ Has(he, "eom")
  BY <1>7, ResponsesLegal
<1>9. /\ h = <<"headers">> /\ hb = <<"headers", "body">>
      /\ f = <<"headers", "body", "eom">> /\ he = <<"headers", "eom">>
  BY <1>3, <1>4, <1>5, <1>6
<1> HIDE DEF h, hb, f, he
<1> QED BY <1>3, <1>4, <1>5, <1>6, <1>8, <1>9

\* Every handler's onHeadersComplete.
LEMMA HeadersStep ==
  ASSUME HandlersInv, onHeadersComplete
  PROVE  HandlersInv'
<1>1. Arrives("none", "headers") /\ request' = request /\ bodies' = bodies
  BY DEF onHeadersComplete
<1>2. /\ pushed \in Seq(Seq(Event)) /\ transaction \in BOOLEAN /\ wt.open \in BOOLEAN
      /\ wt.credit \in 0 .. MaxStreams
      /\ \A i \in DOMAIN pushed : pushed[i] = sendPushResponse
      /\ wt = [open |-> wt.open, credit |-> wt.credit, streams |-> wt.streams]
  BY DEF HandlersInv, TypeOK, ProcessInv, StreamsInv
<1>3. egress = <<>> /\ pushed = <<>> /\ Len(pushed) + 1 = 1
  BY <1>1 DEF HandlersInv, EgressInv, Arrives
<1>4. CASE EchoHeaders
  BY <1>1, <1>2, <1>4, <1>3, WholeResponses, HeadersSent DEF EchoHeaders
<1>5. CASE DummyHeaders
  BY <1>1, <1>2, <1>5, <1>3, WholeResponses, HeadersSent DEF DummyHeaders
<1>6. CASE TestRefuses
  BY <1>1, <1>2, <1>6, <1>3, WholeResponses, HeadersSent DEF TestRefuses
<1>7. CASE TestAnswers
  <2>1. PICK open \in BOOLEAN : wt' = [wt EXCEPT !.open = open]
    BY <1>7 DEF TestAnswers
  <2>2. wt' = [open |-> open, credit |-> wt.credit, streams |-> wt.streams]
    BY <1>2, <2>1
  <2>3. /\ wt'.streams = wt.streams /\ wt'.open \in BOOLEAN /\ wt'.credit = wt.credit
        /\ wt' = [open |-> wt'.open, credit |-> wt'.credit, streams |-> wt'.streams]
    BY <2>2
  <2>4. /\ egress' = <<"headers">> /\ Handler = "TestHandler" /\ process' = process
        /\ transaction' = transaction /\ pushed' = pushed
    BY <1>7 DEF TestAnswers
  <2>5. <<"headers">> # <<>> /\ <<"headers">> \in Seq(Event) /\ Legal(<<"headers">>, 1)
    BY WholeResponses
  <2>6. Handler = "TestHandler" /\ ~transaction' => Has(egress', "eom")
    <3>1. Handler = "TestHandler" /\ ~transaction => Has(egress, "eom")
      BY DEF HandlersInv, EgressInv
    <3>2. ~Has(egress, "eom")
      BY <1>3 DEF Has
    <3> QED BY <2>4, <3>1, <3>2
  <2> QED BY <1>1, <1>2, <1>3, <2>3, <2>4, <2>5, <2>6, HeadersSent
<1>8. CASE PushRefuses
  BY <1>1, <1>2, <1>8, <1>3, WholeResponses, HeadersSent DEF PushRefuses, sendErrorResponse
<1>9. CASE Pushes
  <2>1. PICK n \in {0} \cup (1 .. request.pushCount) :
               /\ pushed' = [i \in 1 .. n |-> sendPushResponse]
               /\ egress' = [i \in 1 .. n |-> sendPushPromise[1]] \o sendOkResponse
    BY <1>9 DEF Pushes
  <2>2. n \in Nat
    <3>1. request.pushCount \in Int
      BY RequestsAssumption DEF HandlersInv, TypeOK, Request
    <3> QED BY <3>1
  <2> DEFINE p == [i \in 1 .. n |-> "headers"]
             h == Append(p, "headers")
  <2>3. /\ p \in Seq(Event) /\ Len(p) = n /\ \A i \in DOMAIN p : p[i] = "headers"
        /\ sendPushPromise[1] = "headers"
    <3>1. p \in [1 .. n -> Event]
      BY DEF Event
    <3>2. p \in Seq(Event)
      BY <2>2, <3>1, SeqDef
    <3>3. sendPushPromise[1] = "headers"
      BY DEF sendPushPromise
    <3> QED BY <2>2, <3>1, <3>2, <3>3, LenProperties
  <2>4. egress' = Append(Append(h, "body"), "eom")
    <3>1. egress' = p \o <<"headers", "body", "eom">>
      BY <2>1, <2>3 DEF sendOkResponse
    <3>2. {"headers", "body", "eom"} \subseteq Event
      BY DEF Event
    <3> HIDE DEF p
    <3> QED BY <2>3, <3>1, <3>2
  <2>5. /\ h \in Seq(Event) /\ Len(h) = n + 1 /\ h # <<>>
        /\ \A i \in DOMAIN h : h[i] = "headers"
    <3>1. "headers" \in Event
      BY DEF Event
    <3> HIDE DEF p
    <3> QED BY <2>2, <2>3, <3>1, AppendProperties, LenProperties
  <2> HIDE DEF h, p
  <2>6. egress' \in Seq(Event) /\ Legal(egress', n + 1) /\ egress' # <<>> /\ Has(egress', "eom")
    BY <2>4, <2>5, ResponsesLegal
  <2>7. /\ pushed' \in Seq(Seq(Event)) /\ Len(pushed') = n
        /\ \A i \in DOMAIN pushed' : pushed'[i] = sendPushResponse
    <3>1. sendPushResponse \in Seq(Event)
      BY WholeResponses DEF sendPushResponse
    <3>2. pushed' \in [1 .. n -> Seq(Event)]
      BY <2>1, <3>1
    <3>3. pushed' \in Seq(Seq(Event))
      BY <2>2, <3>2, SeqDef
    <3>4. Len(pushed') = n
      BY <2>2, <3>2, <3>3, LenProperties
    <3> QED BY <2>1, <3>3, <3>4
  <2> QED BY <1>1, <1>2, <1>9, <2>7, <2>6, HeadersSent DEF Pushes
<1>10. CASE PushTerminates \/ PushWithoutWebTransport
  <2>1. /\ Handler = "ServerPushHandler" /\ request.method = "GET"
        /\ request.pushSize < 0 \/ request.pushCount > 0
        /\ process' = "terminated" /\ transaction' = transaction /\ egress' = egress
        /\ pushed' = pushed /\ wt' = wt /\ ingress = "none" /\ ingress' = "headers"
    BY <1>1, <1>10 DEF PushTerminates, PushWithoutWebTransport, Arrives
  <2>2. request.path = "/push"
    <3>1. request.path \in {"/", "/echo", "/push", "/test", "other"}
      BY RequestsAssumption DEF HandlersInv, TypeOK, Request
    <3> QED BY <2>1, <3>1 DEF Handler
  <2>3. Handler' = Handler
    BY <1>1, HandlerKept
  <2>4. TypeOK'
    BY <1>1, <2>1 DEF HandlersInv, TypeOK
  <2>5. EgressInv'
    BY <2>1, <2>3 DEF HandlersInv, EgressInv
  <2>6. ProcessInv'
    BY <1>1, <1>2, <2>1, <2>2 DEF ProcessInv
  <2>7. StreamsInv'
    BY <1>2, <2>1, StreamsKept DEF HandlersInv
  <2> QED BY <2>4, <2>5, <2>6, <2>7 DEF HandlersInv
<1> QED BY <1>4, <1>5, <1>6, <1>7, <1>8, <1>9, <1>10 DEF onHeadersComplete
-----------------------------------------------------------------------------
(* The rest of the request.                                                  *)

\* A step of the request that leaves all but what was sent alone.
LEMMA RequestGoesOn ==
  ASSUME HandlersInv, Arrives(ingress, ingress'), ingress \in {"headers", "eom"},
         ingress' \in {"headers", "eom", "error"},
         request' = request, bodies' \in 0 .. MaxBodies,
         egress' \in Seq(Event), Legal(egress', Len(pushed) + 1), egress' # <<>>,
         Has(egress, "eom") => Has(egress', "eom"),
         ingress' = "headers" /\ Handler \in {"EchoHandler", "DummyHandler"} => ~Has(egress', "eom"),
         ingress' = "eom" => Has(egress', "eom"),
         UNCHANGED <<process, transaction, pushed, wt>>
  PROVE  HandlersInv'
<1>1. process = "up" /\ Handler' = Handler
  BY HandlerKept DEF Arrives
<1>2. TypeOK'
  BY DEF HandlersInv, TypeOK
<1>3. EgressInv'
  BY <1>1 DEF HandlersInv, EgressInv
<1>4. ProcessInv'
  BY DEF HandlersInv, ProcessInv
<1>5. StreamsInv'
  BY StreamsKept DEF HandlersInv, StreamsInv
<1> QED BY <1>2, <1>3, <1>4, <1>5 DEF HandlersInv

\* onBody: EchoHandler and DummyHandler send a body.
LEMMA BodyStep ==
  ASSUME HandlersInv, onBody
  PROVE  HandlersInv'
<1>1. /\ ingress = "headers" /\ ingress' = "headers" /\ process = "up" /\ request' = request
      /\ UNCHANGED <<process, transaction, pushed, wt>>
      /\ egress' = IF Handler \in {"EchoHandler", "DummyHandler"}
                   THEN Append(egress, "body") ELSE egress
  BY DEF onBody, Arrives
<1>2. bodies' \in 0 .. MaxBodies
  BY BoundsAssumption DEF onBody, HandlersInv, TypeOK
<1>3. /\ egress \in Seq(Event) /\ Legal(egress, Len(pushed) + 1) /\ egress # <<>>
      /\ Handler \in {"EchoHandler", "DummyHandler"} => ~Has(egress, "eom")
  BY <1>1 DEF HandlersInv, TypeOK, EgressInv
<1>4. Len(pushed) + 1 \in Nat
  BY DEF HandlersInv, TypeOK
<1>5. Arrives(ingress, ingress')
  BY <1>1 DEF Arrives
<1>6. CASE Handler \in {"EchoHandler", "DummyHandler"}
  <2>1. /\ egress' \in Seq(Event) /\ Legal(egress', Len(pushed) + 1) /\ egress' # <<>>
        /\ \A x : Has(egress', x) <=> Has(egress, x) \/ x = "body"
    <3>1. "body" \in Event
      BY DEF Event
    <3>2. PICK s : s = Append(egress, "body")
      OBVIOUS
    <3>3. /\ s \in Seq(Event) /\ Legal(s, Len(pushed) + 1) /\ s # <<>>
          /\ \A x : Has(s, x) <=> Has(egress, x) \/ x = "body"
      BY <1>3, <1>6, <1>4, <3>1, <3>2, AppendLegal
    <3>4. egress' = s
      BY <1>1, <1>6, <3>2
    <3> QED BY <3>3, <3>4
  <2> QED BY <1>1, <1>2, <1>3, <1>5, <1>6, <2>1, RequestGoesOn
<1>7. CASE ~(Handler \in {"EchoHandler", "DummyHandler"})
  <2>1. egress' = egress
    BY <1>1, <1>7
  <2> QED BY <1>1, <1>2, <1>3, <1>5, <1>7, <2>1, RequestGoesOn
<1> QED BY <1>6, <1>7

\* Each request has one of the four handlers.
LEMMA FourHandlers ==
  Handler \in {"EchoHandler", "DummyHandler", "TestHandler", "ServerPushHandler"}
BY DEF Handler

\* What a handler sends at the end of the request, after what it has sent.
LEMMA EndingLegal ==
  ASSUME NEW s \in Seq(Event), NEW k \in Nat, Legal(s, k), s # <<>>,
         NEW e \in {<<>>, <<"eom">>, <<"body", "eom">>},
         e = <<>> \/ ~Has(s, "eom")
  PROVE  /\ s \o e \in Seq(Event) /\ Legal(s \o e, k) /\ s \o e # <<>>
         /\ \A x : Has(s, x) => Has(s \o e, x)
         /\ e # <<>> => Has(s \o e, "eom")
<1>1. "body" \in Event /\ "eom" \in Event
  BY DEF Event
<1>2. CASE e = <<>>
  <2>1. s \o e = s
    BY <1>2, ConcatEmptySeq
  <2> QED BY <1>2, <2>1
<1>3. CASE e = <<"eom">>
  <2>1. PICK t : t = Append(s, "eom")
    OBVIOUS
  <2>2. /\ t \in Seq(Event) /\ Legal(t, k) /\ t # <<>>
        /\ \A x : Has(t, x) <=> Has(s, x) \/ x = "eom"
    BY <1>1, <1>3, <2>1, AppendLegal
  <2>3. s \o e = t
    BY <1>1, <1>3, <2>1
  <2> QED BY <2>2, <2>3
<1>4. CASE e = <<"body", "eom">>
  <2>1. PICK b : b = Append(s, "body")
    OBVIOUS
  <2>2. /\ b \in Seq(Event) /\ Legal(b, k) /\ b # <<>>
        /\ \A x : Has(b, x) <=> Has(s, x) \/ x = "body"
    BY <1>1, <1>4, <2>1, AppendLegal
  <2>3. PICK t : t = Append(b, "eom")
    OBVIOUS
  <2>4. /\ t \in Seq(Event) /\ Legal(t, k) /\ t # <<>>
        /\ \A x : Has(t, x) <=> Has(b, x) \/ x = "eom"
    BY <1>1, <1>4, <2>2, <2>3, AppendLegal
  <2>5. s \o e = t
    BY <1>1, <1>4, <2>1, <2>3
  <2> QED BY <2>2, <2>4, <2>5
<1> QED BY <1>2, <1>3, <1>4

\* onEOM: the response ends, unless it has ended before.
LEMMA EOMStep ==
  ASSUME HandlersInv, onEOM
  PROVE  HandlersInv'
<1>1. /\ ingress = "headers" /\ ingress' = "eom" /\ process = "up" /\ request' = request
      /\ UNCHANGED <<process, transaction, pushed, wt>> /\ bodies' = bodies
      /\ egress' = egress \o Ending
  BY DEF onEOM, Arrives
<1>2. Arrives(ingress, ingress') /\ bodies' \in 0 .. MaxBodies
  BY <1>1 DEF Arrives, HandlersInv, TypeOK
<1>3. /\ egress \in Seq(Event) /\ Legal(egress, Len(pushed) + 1) /\ egress # <<>>
      /\ Handler \in {"EchoHandler", "DummyHandler"} => ~Has(egress, "eom")
      /\ Handler = "TestHandler" /\ ~transaction => Has(egress, "eom")
      /\ Handler = "ServerPushHandler" => Has(egress, "eom")
  BY <1>1 DEF HandlersInv, TypeOK, EgressInv
<1>4. PICK e : e = Ending
  OBVIOUS
<1>5. /\ e \in {<<>>, <<"eom">>, <<"body", "eom">>}
      /\ e = <<>> \/ ~Has(egress, "eom")
      /\ e # <<>> \/ Has(egress, "eom")
  <2>1. EgressEOMSeen <=> Has(egress, "eom")
    BY DEF EgressEOMSeen, Has
  <2>2. <<"eom">> # <<>> /\ <<"body", "eom">> # <<>>
    OBVIOUS
  <2>3. CASE Handler = "EchoHandler"
    <3>1. e = IF request.http09 THEN <<"body", "eom">> ELSE <<"eom">>
      BY <1>4, <2>3 DEF Ending
    <3> QED BY <1>3, <2>2, <2>3, <3>1
  <2>4. CASE Handler = "DummyHandler"
    <3>1. e = <<"eom">>
      BY <1>4, <2>4 DEF Ending
    <3> QED BY <1>3, <2>2, <2>4, <3>1
  <2>5. CASE Handler = "TestHandler"
    <3>1. e = IF transaction /\ ~EgressEOMSeen THEN <<"eom">> ELSE <<>>
      BY <1>4, <2>5 DEF Ending
    <3> QED BY <1>3, <2>1, <2>2, <2>5, <3>1
  <2>6. CASE Handler = "ServerPushHandler"
    <3>1. e = <<>>
      BY <1>4, <2>6 DEF Ending
    <3> QED BY <1>3, <2>6, <3>1
  <2> QED BY <2>3, <2>4, <2>5, <2>6, FourHandlers
<1>6. PICK s : s = egress \o e
  OBVIOUS
<1>7. /\ s \in Seq(Event) /\ Legal(s, Len(pushed) + 1) /\ s # <<>>
      /\ \A x : Has(egress, x) => Has(s, x)
      /\ e # <<>> => Has(s, "eom")
  <2>1. Len(pushed) + 1 \in Nat
    BY DEF HandlersInv, TypeOK
  <2> QED BY <1>3, <1>5, <1>6, <2>1, EndingLegal
<1>8. egress' = s
  BY <1>1, <1>4, <1>6
<1> QED BY <1>1, <1>2, <1>5, <1>7, <1>8, RequestGoesOn

\* onError: EchoHandler and DummyHandler abort.
LEMMA ErrorStep ==
  ASSUME HandlersInv, onError
  PROVE  HandlersInv'
<1>1. /\ ingress \in {"headers", "eom"} /\ ingress' = "error" /\ process = "up" /\ request' = request
      /\ UNCHANGED <<process, transaction, pushed, wt>> /\ bodies' = bodies
      /\ egress' = IF Handler \in {"EchoHandler", "DummyHandler"}
                   THEN Append(egress, "abort") ELSE egress
  BY DEF onError, Arrives
<1>2. Arrives(ingress, ingress') /\ bodies' \in 0 .. MaxBodies
  BY <1>1 DEF Arrives, HandlersInv, TypeOK
<1>3. /\ egress \in Seq(Event) /\ Legal(egress, Len(pushed) + 1) /\ egress # <<>>
      /\ Len(pushed) + 1 \in Nat
  BY <1>1 DEF HandlersInv, TypeOK, EgressInv
<1>4. CASE Handler \in {"EchoHandler", "DummyHandler"}
  <2>1. "abort" \in Event
    BY DEF Event
  <2>2. PICK s : s = Append(egress, "abort")
    OBVIOUS
  <2>3. /\ s \in Seq(Event) /\ Legal(s, Len(pushed) + 1) /\ s # <<>>
        /\ \A x : Has(s, x) <=> Has(egress, x) \/ x = "abort"
    BY <1>3, <2>1, <2>2, AppendLegal
  <2>4. egress' = s
    BY <1>1, <1>4, <2>2
  <2> QED BY <1>1, <1>2, <2>3, <2>4, RequestGoesOn
<1>5. CASE ~(Handler \in {"EchoHandler", "DummyHandler"})
  <2>1. egress' = egress
    BY <1>1, <1>5
  <2> QED BY <1>1, <1>2, <1>3, <2>1, RequestGoesOn
<1> QED BY <1>4, <1>5
-----------------------------------------------------------------------------
(* TestHandler's streams.                                                    *)

\* What StreamsInv asks of one stream.
StreamOK(id, s) ==
  /\ s \in Stream
  /\ s.at = "fin" <=> s.reply # NoReply
  /\ s.at = "fin" => (s.reply = s.size <=> s.chunks = 1)
  /\ s.at = "none" => id[1] = "uni"
  /\ s.read <= s.size
  /\ s.at = "awaiting" => (s.chunks = 0 <=> s.read = 0)

\* Every stream is as it should be.
LEMMA StreamsAreOK ==
  ASSUME HandlersInv
  PROVE  /\ wt = [open |-> wt.open, credit |-> wt.credit, streams |-> wt.streams]
         /\ wt.credit \in 0 .. MaxStreams
         /\ DOMAIN wt.streams \subseteq StreamId
         /\ \A id \in DOMAIN wt.streams : StreamOK(id, wt.streams[id])
BY DEF HandlersInv, TypeOK, StreamsInv, TestAnswersAtFin, StreamOK

\* A step of the streams that leaves every one of them as it should be.
LEMMA StreamsGoOn ==
  ASSUME HandlersInv, UNCHANGED streamless,
         wt' = [open |-> wt.open, credit |-> wt'.credit, streams |-> wt'.streams],
         wt'.credit \in 0 .. MaxStreams,
         DOMAIN wt'.streams \subseteq StreamId,
         \A id \in DOMAIN wt'.streams : StreamOK(id, wt'.streams[id])
  PROVE  HandlersInv'
<1>1. /\ UNCHANGED <<request, ingress, bodies, process, transaction, egress, pushed>>
      /\ Handler' = Handler
  BY HandlerKept DEF streamless
<1>2. TypeOK'
  BY <1>1 DEF HandlersInv, TypeOK, StreamOK
<1>3. EgressInv'
  BY <1>1 DEF HandlersInv, EgressInv
<1>4. ProcessInv'
  BY <1>1 DEF HandlersInv, ProcessInv
<1>5. TestAnswersAtFin'
  BY DEF TestAnswersAtFin, StreamOK
<1>6. StreamsInv'
  BY <1>5 DEF StreamsInv, StreamOK
<1> QED BY <1>2, <1>3, <1>4, <1>6 DEF HandlersInv

\* There is a number for the next stream of each kind.
LEMMA StreamNumber ==
  ASSUME HandlersInv, Cardinality(DOMAIN wt.streams) < MaxStreams, NEW kind \in {"bidi", "uni"}
  PROVE  <<kind, Known(kind) + 1>> \in StreamId
<1> DEFINE S == {id \in DOMAIN wt.streams : id[1] = kind}
<1>1. IsFiniteSet(StreamId)
  <2>1. IsFiniteSet({"bidi", "uni"})
    <3>1. IsFiniteSet({"bidi"} \cup {"uni"})
      BY FS_Singleton, FS_Union
    <3>2. {"bidi"} \cup {"uni"} = {"bidi", "uni"}
      OBVIOUS
    <3> QED BY <3>1, <3>2
  <2>2. IsFiniteSet(1 .. MaxStreams)
    <3>1. 1 \in Int /\ MaxStreams \in Int
      BY BoundsAssumption
    <3> QED BY <3>1, FS_Interval
  <2> QED BY <2>1, <2>2, FS_Product DEF StreamId
<1>2. IsFiniteSet(DOMAIN wt.streams)
  BY <1>1, FS_Subset, StreamsAreOK
<1>3. /\ IsFiniteSet(S) /\ Cardinality(S) <= Cardinality(DOMAIN wt.streams)
      /\ Cardinality(S) \in Nat /\ Cardinality(DOMAIN wt.streams) \in Nat
  <2>1. S \subseteq DOMAIN wt.streams
    OBVIOUS
  <2> HIDE DEF S
  <2> QED BY <1>2, <2>1, FS_Subset, FS_CardinalityType
<1>4. Known(kind) = Cardinality(S)
  BY DEF Known
<1> HIDE DEF S
<1>5. Known(kind) + 1 \in 1 .. MaxStreams
  BY <1>3, <1>4, BoundsAssumption
<1> QED BY <1>5 DEF StreamId

\* A stream of the client begins as it should.
LEMMA NewStreamOK ==
  ASSUME NEW id, NEW size \in 0 .. MaxBytes, NEW at \in {"awaiting", "none"},
         at = "none" => id[1] = "uni"
  PROVE  StreamOK(id, NewStream(size, at))
<1>1. NewStream(size, at) \in Stream
  BY BoundsAssumption DEF NewStream, Stream, NoReply
<1> QED BY <1>1 DEF NewStream, StreamOK, NoReply

\* A bidirectional stream is awaited.
LEMMA BidiStep ==
  ASSUME HandlersInv, onWebTransportBidiStream
  PROVE  HandlersInv'
<1>1. PICK size \in 0 .. MaxBytes :
        wt' = [wt EXCEPT !.streams = With(@, <<"bidi", Known("bidi") + 1>>, NewStream(size, "awaiting"))]
  BY DEF onWebTransportBidiStream
<1>2. PICK new : new = <<"bidi", Known("bidi") + 1>>
  OBVIOUS
<1>3. new \in StreamId
  BY <1>2, StreamNumber DEF onWebTransportBidiStream
<1>4. StreamOK(new, NewStream(size, "awaiting"))
  BY NewStreamOK
<1>5. PICK f : f = With(wt.streams, new, NewStream(size, "awaiting"))
  OBVIOUS
<1>6. DOMAIN f \subseteq StreamId /\ \A id \in DOMAIN f : StreamOK(id, f[id])
  BY <1>3, <1>4, <1>5, StreamsAreOK DEF With
<1>7. wt' = [open |-> wt.open, credit |-> wt.credit, streams |-> f]
  BY <1>1, <1>2, <1>5, StreamsAreOK
<1>8. UNCHANGED streamless
  BY DEF onWebTransportBidiStream
<1> QED BY <1>6, <1>7, <1>8, StreamsAreOK, StreamsGoOn

\* A unidirectional stream is awaited if there is credit for its reply.
LEMMA UniStep ==
  ASSUME HandlersInv, onWebTransportUniStream
  PROVE  HandlersInv'
<1>1. PICK size \in 0 .. MaxBytes :
        wt' = Opens(wt, With(wt.streams, <<"uni", Known("uni") + 1>>, NewStream(size, "awaiting")))
  BY DEF onWebTransportUniStream
<1>2. PICK new : new = <<"uni", Known("uni") + 1>>
  OBVIOUS
<1>3. new \in StreamId /\ new[1] = "uni"
  BY <1>2, StreamNumber DEF onWebTransportUniStream
<1>4. PICK f : f = With(wt.streams, new, NewStream(size, "awaiting"))
  OBVIOUS
<1>5. DOMAIN f = DOMAIN wt.streams \cup {new} /\ f[new] = NewStream(size, "awaiting")
      /\ \A id \in DOMAIN f \ {new} : id \in DOMAIN wt.streams /\ f[id] = wt.streams[id]
  BY <1>4 DEF With
<1>6. UNCHANGED streamless
  BY DEF onWebTransportUniStream
<1>7. wt' = Opens(wt, f)
  BY <1>1, <1>2, <1>4
<1>8. CASE wt.credit = 0
  <2>1. PICK g : g = [f EXCEPT ![new].at = "none"]
    OBVIOUS
  <2>2. wt' = [open |-> wt.open, credit |-> wt.credit, streams |-> g]
    BY <1>2, <1>7, <1>8, <2>1, StreamsAreOK DEF Opens
  <2>3. g[new] = NewStream(size, "none")
    BY <1>5, <2>1 DEF NewStream
  <2>4. DOMAIN g = DOMAIN f /\ \A id \in DOMAIN f \ {new} : g[id] = f[id]
    BY <2>1
  <2>5. StreamOK(new, g[new])
    BY <1>3, <2>3, NewStreamOK
  <2>6. DOMAIN g \subseteq StreamId /\ \A id \in DOMAIN g : StreamOK(id, g[id])
    BY <1>3, <1>5, <2>4, <2>5, StreamsAreOK
  <2> QED BY <1>6, <2>2, <2>6, StreamsAreOK, StreamsGoOn
<1>9. CASE wt.credit # 0
  <2>1. wt' = [open |-> wt.open, credit |-> wt.credit - 1, streams |-> f]
    BY <1>7, <1>9, StreamsAreOK DEF Opens
  <2>2. wt.credit - 1 \in 0 .. MaxStreams
    BY <1>9, StreamsAreOK, BoundsAssumption
  <2>3. StreamOK(new, f[new])
    BY <1>5, NewStreamOK
  <2>4. DOMAIN f \subseteq StreamId /\ \A id \in DOMAIN f : StreamOK(id, f[id])
    BY <1>3, <1>5, <2>3, StreamsAreOK
  <2> QED BY <1>6, <2>1, <2>2, <2>4, StreamsAreOK, StreamsGoOn
<1> QED BY <1>8, <1>9

\* A step that replaces one stream by one that is as it should be.
LEMMA StreamChanges ==
  ASSUME HandlersInv, UNCHANGED streamless, NEW id \in DOMAIN wt.streams, NEW s, StreamOK(id, s),
         wt' = [wt EXCEPT !.streams[id] = s]
  PROVE  HandlersInv'
<1>1. PICK f : f = [wt.streams EXCEPT ![id] = s]
  OBVIOUS
<1>2. wt' = [open |-> wt.open, credit |-> wt.credit, streams |-> f]
  BY <1>1, StreamsAreOK
<1>3. DOMAIN f = DOMAIN wt.streams /\ f[id] = s /\ \A i \in DOMAIN f \ {id} : f[i] = wt.streams[i]
  BY <1>1
<1>4. DOMAIN f \subseteq StreamId /\ \A i \in DOMAIN f : StreamOK(i, f[i])
  BY <1>3, StreamsAreOK
<1> QED BY <1>2, <1>4, StreamsAreOK, StreamsGoOn

\* A chunk is read: the one that comes with the FIN is the reply.
LEMMA ReadStep ==
  ASSUME HandlersInv, NEW id \in DOMAIN wt.streams, NEW n \in 0 .. MaxBytes, NEW fin \in BOOLEAN,
         Read(id, n, fin)
  PROVE  HandlersInv'
<1>1. PICK s : s = wt.streams[id]
  OBVIOUS
<1>2. StreamOK(id, s)
  BY <1>1, StreamsAreOK
<1>3. /\ s.at = "awaiting" /\ n <= s.size - s.read /\ (n > 0 \/ fin)
      /\ fin => n = s.size - s.read
  BY <1>1 DEF Read
<1>4. PICK t : t = [s EXCEPT !.read = @ + n, !.chunks = @ + 1, !.reply = Replied(s, n, fin),
                             !.at = IF fin THEN "fin" ELSE "awaiting"]
  OBVIOUS
<1>5. wt' = [wt EXCEPT !.streams[id] = t] /\ UNCHANGED streamless
  BY <1>1, <1>4 DEF Read
<1>6. t = [size |-> s.size, read |-> s.read + n, chunks |-> s.chunks + 1,
           at |-> IF fin THEN "fin" ELSE "awaiting", reply |-> IF fin THEN n ELSE s.reply]
  BY <1>2, <1>4 DEF StreamOK, Stream, Replied
<1>7. /\ s.size \in 0 .. MaxBytes /\ s.read \in 0 .. MaxBytes /\ s.chunks \in Nat
      /\ s.reply \in {NoReply} \cup (0 .. MaxBytes) /\ s.read <= s.size
      /\ s.chunks = 0 <=> s.read = 0
      /\ s.reply = NoReply
  BY <1>2, <1>3 DEF StreamOK, Stream
<1>8. s.read + n <= s.size /\ s.read + n \in 0 .. MaxBytes
  BY <1>3, <1>7, BoundsAssumption
<1>9. t \in Stream
  BY <1>6, <1>7, <1>8 DEF Stream
<1>10. s.chunks + 1 # 0 /\ (s.read + n # 0 \/ fin)
  BY <1>3, <1>7
<1>11. fin => (n = s.size <=> s.chunks + 1 = 1)
  BY <1>3, <1>7
<1>12. n # NoReply
  BY DEF NoReply
<1>13. StreamOK(id, t)
  <2>1. CASE fin
    BY <1>6, <1>8, <1>9, <1>11, <1>12, <2>1 DEF StreamOK
  <2>2. CASE ~fin
    BY <1>6, <1>7, <1>8, <1>9, <1>10, <2>2 DEF StreamOK
  <2> QED BY <2>1, <2>2
<1> QED BY <1>5, <1>13, StreamChanges

\* The read fails: the stream stays without a reply.
LEMMA ReadErrorStep ==
  ASSUME HandlersInv, NEW id \in DOMAIN wt.streams, ReadError(id)
  PROVE  HandlersInv'
<1>1. PICK s : s = wt.streams[id]
  OBVIOUS
<1>2. StreamOK(id, s) /\ s.at = "awaiting"
  BY <1>1, StreamsAreOK DEF ReadError
<1>3. PICK t : t = [s EXCEPT !.at = "failed"]
  OBVIOUS
<1>4. t = [size |-> s.size, read |-> s.read, chunks |-> s.chunks, at |-> "failed", reply |-> s.reply]
  BY <1>2, <1>3 DEF StreamOK, Stream
<1>5. t \in Stream
  BY <1>2, <1>4 DEF StreamOK, Stream
<1>6. StreamOK(id, t)
  BY <1>2, <1>4, <1>5 DEF StreamOK
<1>7. wt' = [wt EXCEPT !.streams[id] = t] /\ UNCHANGED streamless
  <2>1. wt' = [wt EXCEPT !.streams[id].at = "failed"] /\ UNCHANGED streamless
    BY DEF ReadError
  <2> QED BY <1>1, <1>3, <2>1
<1> QED BY <1>6, <1>7, StreamChanges
-----------------------------------------------------------------------------
(* The theorems.                                                             *)

\* It holds at first.
LEMMA HandlersInit == Init => HandlersInv
<1> SUFFICES ASSUME Init PROVE HandlersInv
  OBVIOUS
<1>1. PICK n \in 0 .. MaxStreams : wt = [open |-> FALSE, credit |-> n, streams |-> <<>>]
  BY DEF Init
<1>2. /\ request \in Requests /\ ingress = "none" /\ bodies = 0 /\ process = "up"
      /\ transaction = TRUE /\ egress = <<>> /\ pushed = <<>>
  BY DEF Init
<1>3. DOMAIN wt.streams = {} /\ wt.open \in BOOLEAN /\ wt.credit \in 0 .. MaxStreams
      /\ wt = [open |-> wt.open, credit |-> wt.credit, streams |-> wt.streams]
  BY <1>1
<1>4. TypeOK
  <2>1. pushed \in Seq(Seq(Event)) /\ egress \in Seq(Event)
    BY <1>2
  <2> QED BY <1>2, <1>3, <2>1, BoundsAssumption DEF TypeOK
<1>5. EgressInv
  BY <1>2 DEF EgressInv, Has
<1>6. ProcessInv
  BY <1>2 DEF ProcessInv
<1>7. StreamsInv
  BY <1>3 DEF StreamsInv, TestAnswersAtFin
<1> QED BY <1>4, <1>5, <1>6, <1>7 DEF HandlersInv

\* Every step keeps it, and so does a step that changes nothing.
LEMMA HandlersStep == HandlersInv /\ [Next]_vars => HandlersInv'
<1> SUFFICES ASSUME HandlersInv, [Next]_vars PROVE HandlersInv'
  OBVIOUS
<1>1. CASE onHeadersComplete
  BY <1>1, HeadersStep
<1>2. CASE onBody
  BY <1>2, BodyStep
<1>3. CASE onEOM
  BY <1>3, EOMStep
<1>4. CASE onError
  BY <1>4, ErrorStep
<1>5. CASE onWebTransportBidiStream
  BY <1>5, BidiStep
<1>6. CASE onWebTransportUniStream
  BY <1>6, UniStep
<1>7. ASSUME NEW id \in DOMAIN wt.streams, NEW n \in 0 .. MaxBytes, NEW fin \in BOOLEAN,
             Read(id, n, fin)
      PROVE  HandlersInv'
  BY <1>7, ReadStep
<1>8. ASSUME NEW id \in DOMAIN wt.streams, ReadError(id)
      PROVE  HandlersInv'
  BY <1>8, ReadErrorStep
<1>9. CASE UNCHANGED vars
  BY <1>9 DEF vars, HandlersInv, TypeOK, EgressInv, Handler, ProcessInv, StreamsInv, TestAnswersAtFin
<1> QED BY <1>1, <1>2, <1>3, <1>4, <1>5, <1>6, <1>7, <1>8, <1>9 DEF Next

\* Whatever is requested and however the request goes on, the invariant of
\* the plain handlers holds.
THEOREM HandlersInvariant == Spec => []HandlersInv
BY HandlersInit, HandlersStep, PTL DEF Spec

\* Every variable keeps its type, and no more streams are opened than there
\* was credit for.
THEOREM HandlersTypes == Spec => []TypeOK
<1>1. HandlersInv => TypeOK
  BY DEF HandlersInv
<1> QED BY <1>1, HandlersInvariant, PTL

\* Whatever the handler and wherever an error strikes, HEADERS come first,
\* once for each push's promise and once for the response; it ends once, and
\* has ended when the whole request has arrived; only a push can end the
\* process.
THEOREM ResponsesAreLegal == Spec => []ResponseIsLegal
<1>1. HandlersInv => ResponseIsLegal
  <2> SUFFICES ASSUME HandlersInv PROVE ResponseIsLegal
    OBVIOUS
  <2>1. /\ egress # <<>> => Legal(egress, Len(pushed) + 1)
        /\ ingress = "eom" => Has(egress, "eom")
    BY DEF HandlersInv, EgressInv
  <2>2. DOMAIN egress = 1 .. Len(egress) /\ Len(egress) \in Nat
    BY LenProperties DEF HandlersInv, TypeOK
  <2>3. ASSUME egress # <<>> PROVE Positions("headers") = 1 .. Len(pushed) + 1
    <3>1. /\ Len(pushed) + 1 \in Nat /\ Len(pushed) + 1 <= Len(egress)
          /\ \A i \in DOMAIN egress : egress[i] = "headers" <=> i <= Len(pushed) + 1
      BY <2>1, <2>3 DEF Legal
    <3>2. ASSUME NEW i PROVE i \in Positions("headers") <=> i \in 1 .. Len(pushed) + 1
      BY <2>2, <3>1 DEF Positions
    <3> QED BY <3>2
  <2>4. \A i \in Positions("eom") : \A j \in DOMAIN egress : j > i => egress[j] = "abort"
    <3> SUFFICES ASSUME NEW i \in Positions("eom"), NEW j \in DOMAIN egress, j > i
                 PROVE  egress[j] = "abort"
      OBVIOUS
    <3>1. i \in DOMAIN egress /\ egress[i] = "eom" /\ egress # <<>>
      BY DEF Positions
    <3>2. i < j
      BY <2>2, <3>1
    <3> QED BY <2>1, <3>1, <3>2 DEF Legal
  <2>5. ingress = "eom" => Positions("eom") # {}
    BY <2>1 DEF Has, Positions
  <2> QED BY <2>3, <2>4, <2>5 DEF ResponseIsLegal, HandlersInv, ProcessInv
<1> QED BY <1>1, HandlersInvariant, PTL

\* TestHandler answers each stream at its FIN with the last chunk alone, and
\* leaves only a unidirectional one unread.
THEOREM TestHandlerAnswers ==
  Spec => []TestAnswersAtFin
<1>1. HandlersInv => TestAnswersAtFin
  BY DEF HandlersInv, StreamsInv
<1> QED BY <1>1, HandlersInvariant, PTL
=============================================================================
