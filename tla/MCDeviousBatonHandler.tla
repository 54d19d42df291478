------------------------ MODULE MCDeviousBatonHandler ------------------------
(* Every kind of request, acceptable or not, and a short game after it.      *)
EXTENDS DeviousBatonHandler

MCRequests == [method : {"CONNECT", "GET"}, exactPath : BOOLEAN,
               version : {{}, {0}, {1}}, count : {{}, {0}, {10}, {11}},
               baton : {{}, {0}, {7}, {256}, {-1}}]
Short(b, size) == [lenBytes |-> 1, padLen |-> 0, baton |-> b, size |-> size]
MCWires == {Short(0, 2), Short(7, 2), Short(255, 3)}

\* Servers that start with u unidirectional streams of credit.
Servers(us, opens) == [mode : {"SERVER"}, readsUni : {FALSE}, uni : us, bidi : {1},
                       grants : {MaxStreams}, opens : {opens}]
MCEnds == Servers({0, 4, MaxStreams}, 1)
AnyEnds == Servers(0 .. MaxStreams, MaxStreams)

\* For the run about a single comment: well-formed messages only.
ZeroWires == {Short(0, 2)}
=============================================================================
