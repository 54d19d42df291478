--------------------------- MODULE MCDeviousBaton ---------------------------
(* Small instances of one endpoint.  A message is a one-byte length, no      *)
(* padding and the baton; a wire may stop short of it or run past it.        *)
EXTENDS DeviousBaton

MCRequests == {r \in [method : {"CONNECT"}, exactPath : {TRUE},
                      version : {{}}, count : {{}, {0}, {2}},
                      baton : {{}, {7}}] : TRUE}

Short(b, size) == [lenBytes |-> 1, padLen |-> 0, baton |-> b, size |-> size]
MCWires == {Short(0, 2), Short(7, 2), Short(255, 3), Short(0, 1)}

\* A server with no, one or two unidirectional streams of credit (it needs
\* them in start only), and a client whose host reads everything, with all
\* credit or none at first.
MCEnds ==
  [mode : {"SERVER"}, readsUni : {FALSE}, uni : 0 .. 2, bidi : {2}, grants : {0}, opens : {2}]
  \cup {[mode |-> "CLIENT", readsUni |-> TRUE, uni |-> n, bidi |-> n, grants |-> 1, opens |-> 1]
          : n \in {0, 1}}
=============================================================================
