----------------------------- MODULE CommandLine -----------------------------
(***************************************************************************)
(* From the flags to the parameters of a client or a server.  A flag is a  *)
(* member of a small set that says what the code can tell about it.  The   *)
(* flags are refused one by one in validate, but many a wrong one ends the *)
(* process before that: by a CHECK, by an exception that main does not     *)
(* catch, or in HQToolParams::baseParams.                                  *)
(***************************************************************************)
EXTENDS Integers, Sequences

NotANumber == -1   \* a piece of --gap_ms that no uint32_t can be made of
NoBody     == -1   \* an empty --body; else how many reads the file is good for

\* The flags that decide something.  path: the URLs' paths; outdir: not
\* given, or a directory that can be written to or not; cert and key: not
\* given, a file that cannot be read, a half of one pair, or something else.
Path == {"/", "/a", "/dir/a", "/b"}
File == {"", "missing", "pair", "garbage"}
Flag == [mode : {"client", "server", "other"}, host : {"name", "unknown", ""},
         connect_to_address : {"", "address", "name"}, port : Int,
         local_address : {"", "address", "malformed"},
         path : Seq(Path) \ {<<>>}, num_requests : Int, body : Nat \cup {NoBody},
         gap_ms : Seq(Nat \cup {NotANumber}),
         sequential : BOOLEAN, migrate_client : BOOLEAN,
         outdir : {"", "writable", "unwritable"},
         log_response : BOOLEAN, log_response_headers : BOOLEAN,
         protocol : {"", "hq", "h3", "hq-draft"}, send_knob_frame : BOOLEAN,
         congestion : {"", "known", "unknown"}, rate_limit : Int,
         max_receive_packet_size : {"enough", "small", "no uint16_t"},
         httpversion : {"number", "malformed", "letter"}, cert : File, key : File]

\* The defaults of the flags, but for the mode.
Default == [mode |-> "client", host |-> "name", connect_to_address |-> "", port |-> 4433,
            local_address |-> "", path |-> <<"/">>, num_requests |-> 1, body |-> NoBody,
            gap_ms |-> <<0>>, sequential |-> FALSE, migrate_client |-> FALSE,
            outdir |-> "", log_response |-> TRUE, log_response_headers |-> FALSE,
            protocol |-> "", send_knob_frame |-> FALSE, congestion |-> "known",
            rate_limit |-> -1, max_receive_packet_size |-> "enough",
            httpversion |-> "number", cert |-> "pair", key |-> "pair"]
-----------------------------------------------------------------------------
\* host and port become an address while the flags are read.  (External: an
\* empty host, like an unknown one, does not resolve.)
Resolves(f) == IF f.mode = "client" /\ f.connect_to_address # ""
               THEN f.connect_to_address = "address" ELSE f.host = "name"

CommonSettingsAbort(f) ==
  \/ ~Resolves(f)
  \/ f.mode = "server" /\ f.local_address # ""
  \/ f.mode = "client" /\ f.local_address = "malformed"

\* baseParams() is fatal for a mode that was not set; a rate limit is for a
\* server only.
TransportSettingsAbort(f) == \/ f.mode = "other"
                             \/ f.rate_limit >= 0 /\ f.mode = "client"

\* A version of one character is converted outside of the try block.
HttpSettingsAbort(f) == f.httpversion = "letter"

Aborts(f) == \/ CommonSettingsAbort(f)
             \/ TransportSettingsAbort(f)
             \/ HttpSettingsAbort(f)
             \/ f.max_receive_packet_size = "no uint16_t"

\* The port is kept in 16 bits, and the client's must not be 0 in them.
Port(f) == f.port % (2 ^ 16)

validate(f) ==
  {p \in {"host", "port", "max_receive_packet_size", "congestion"} :
     \/ p = "host" /\ f.mode = "client" /\ f.host = ""
     \/ p = "port" /\ f.mode = "client" /\ Port(f) = 0
     \/ p = "max_receive_packet_size" /\ f.max_receive_packet_size = "small"
     \/ p = "congestion" /\ f.congestion = "unknown"}

\* The whole list of paths, as often as it is to be requested.
httpPaths(f) ==
  LET n == IF f.num_requests > 1 THEN f.num_requests ELSE 1
  IN  [i \in 1 .. n * Len(f.path) |-> f.path[((i - 1) % Len(f.path)) + 1]]

\* initializeHttpClientSettings, and the protocol a server agrees to: without
\* --protocol that is h3, the first of the list both ends have.
ClientParams(f) ==
  [httpPaths |-> httpPaths(f), requestGaps |-> f.gap_ms,
   httpMethod |-> IF f.body = NoBody THEN "GET" ELSE "POST", httpBody |-> f.body,
   sendRequestsSequentially |-> f.sequential, migrateClient |-> f.migrate_client,
   outdir |-> f.outdir, logResponse |-> f.log_response,
   logResponseHeaders |-> f.log_response_headers,
   alpn |-> IF f.protocol = "hq" THEN "h1q" ELSE "h3"]

\* main: what becomes of the flags of a process in this mode.
Accepted(f) == ~Aborts(f) /\ validate(f) = {}
Rejected(f) == ~Aborts(f) /\ validate(f) # {}
-----------------------------------------------------------------------------
(* FizzContext.cpp: the certificates that each of the stacks may present.     *)

Throws == "throws"

\* The pair that the flags name for QUIC: a file that cannot be read leaves the
\* built-in one in place, and the two halves must belong together.
Read(file) == IF file \in {"", "missing"} THEN "default" ELSE file
FizzPair(f) == IF Read(f.cert) = Read(f.key) /\ f.cert # "garbage" THEN Read(f.cert)
               ELSE Throws

\* What createFizzServerContext gives its CertManager, the default first.  No
\* flag changes the second.  Which one a client gets is the library's choice,
\* by the name and the signature schemes that the client sends.
kPrime256v1 == "prime256v1"
FizzCertificates(f) == IF FizzPair(f) = Throws THEN <<>> ELSE <<FizzPair(f), kPrime256v1>>

\* HTTP/2: the files if both are given, the default otherwise.  Mutant: the
\* default always.
SslPair_Default(f) == "default"
SslPair(f) == IF "" \in {f.cert, f.key} THEN "default"
              ELSE IF f.cert = "pair" /\ f.key = "pair" THEN "pair" ELSE Throws
=============================================================================
