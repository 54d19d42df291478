---------------------------- MODULE MCHQServer ----------------------------
(* Every certificate and key; protocols; command lines that are refused.     *)
EXTENDS HQServer

Serving == [Default EXCEPT !.mode = "server"]

MCInvocations ==
  {[Serving EXCEPT !.cert = c, !.key = k] : c \in File, k \in File}
    \cup {[Serving EXCEPT !.protocol = p] : p \in {"hq", "hq-draft"}}
    \cup {[Serving EXCEPT !.send_knob_frame = TRUE], [Serving EXCEPT !.congestion = "unknown"],
          [Serving EXCEPT !.local_address = "address"], [Serving EXCEPT !.mode = "other"]}

KnobInvocations == {[Serving EXCEPT !.send_knob_frame = TRUE]}
=============================================================================
