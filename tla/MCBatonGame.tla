----------------------------- MODULE MCBatonGame -----------------------------
(* Up to three batons, with the first one anywhere near the wrap-around; a    *)
(* count of 0 plays with one that neither end expects back.                   *)
EXTENDS BatonGame

MCRequests == {r \in [method : {"CONNECT"}, exactPath : {TRUE}, version : {{}},
                      count : {{}, {0}, {2}, {3}},
                      baton : {{}, {1}, {252}, {253}, {254}, {255}}] : TRUE}
=============================================================================
