---------------------------- MODULE MCHQClient ----------------------------
(* Requests in every mode, with gaps that fit and gaps that don't; saved     *)
(* responses; uploads; and command lines that do not get that far.           *)
EXTENDS HQClient

Paths(n) == [i \in 1 .. n |-> IF i = 1 THEN "/" ELSE "/b"]

Chains == {[Default EXCEPT !.path = Paths(n), !.gap_ms = g, !.sequential = s,
                           !.migrate_client = m, !.log_response = FALSE, !.protocol = "hq"] :
             n \in 1 .. 4, g \in {<<0>>, <<1>>, <<1, 0>>, <<0, 1, 0>>, <<NotANumber>>},
             s \in BOOLEAN, m \in BOOLEAN}

Repeated == {[Default EXCEPT !.path = Paths(2), !.num_requests = 2, !.gap_ms = <<1>>,
                             !.sequential = s, !.log_response = FALSE] : s \in BOOLEAN}

Saved == {[Default EXCEPT !.path = <<"/a", "/dir/a">>, !.outdir = "writable"],
          [Default EXCEPT !.path = <<"/a">>, !.outdir = "unwritable",
                          !.log_response_headers = TRUE]}

Uploads == {[Default EXCEPT !.path = <<"/", "/b">>, !.sequential = s, !.body = b,
                            !.protocol = "hq", !.log_response = FALSE] :
              s \in BOOLEAN, b \in 0 .. 3}

Refused == {[Default EXCEPT !.mode = "other"],
            [Default EXCEPT !.host = "unknown"],
            [Default EXCEPT !.host = "", !.connect_to_address = "address"],
            [Default EXCEPT !.port = 2 ^ 16],
            [Default EXCEPT !.max_receive_packet_size = "small"],
            [Default EXCEPT !.max_receive_packet_size = "no uint16_t"],
            [Default EXCEPT !.httpversion = "letter"],
            [Default EXCEPT !.rate_limit = 1],
            [Default EXCEPT !.local_address = "malformed"],
            [Default EXCEPT !.cert = "missing"]}

MCInvocations == Chains \cup Repeated \cup Saved \cup Uploads \cup Refused
MCExisting == {<<"a", 0>>}

\* Two paths, of which the second is sent from a callback.
SequentialInvocations == {[Default EXCEPT !.path = Paths(2), !.gap_ms = g, !.sequential = TRUE,
                                          !.log_response = FALSE] : g \in {<<0>>, <<1>>}}
=============================================================================
