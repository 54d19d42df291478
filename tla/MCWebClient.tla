---------------------------- MODULE MCWebClient ----------------------------
(* A page whose user clicks Connect twice, or any other client.              *)
EXTENDS WebClient

MCClients == {<<"page", "page">>, <<"other">>}
=============================================================================
