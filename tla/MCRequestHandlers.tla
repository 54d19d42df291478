-------------------------- MODULE MCRequestHandlers --------------------------
(* Every handler with every method; up to two pushes.                        *)
EXTENDS RequestHandlers

MCRequests ==
  {r \in [method : {"GET", "POST", "CONNECT"}, path : {"/", "/echo", "/push", "/test", "other"},
          http09 : BOOLEAN, pushSize : {-1, 0}, pushCount : {-1, 1, 2}] :
     /\ r.path # "/push" => r.pushSize = 0 /\ r.pushCount = 1
     /\ r.path # "/" => ~r.http09}
=============================================================================
