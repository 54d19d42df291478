--------------------------- MODULE HQClientProofs ---------------------------
(***************************************************************************)
(* Proofs about the client process, for any command line, any number of    *)
(* paths, any credit and any faults: one callback at most is pending and   *)
(* finds work, paths are requested in order and once, the session is       *)
(* drained once, at the end, a request ends once with the whole file, and  *)
(* all in all the client implements RequestQueue.                          *)
(***************************************************************************)
EXTENDS HQClient, SequenceTheorems, FiniteSetTheorems, NaturalsInduction,
        WellFoundedInduction, TLAPS

(***************************************************************************)
(* Numbers and parameters.                                                 *)
(***************************************************************************)
Below == {s \in Nat \X Nat : s[1] < s[2]}

\* A set of numbers that is not empty has a least one.
LEMMA LeastNumber ==
  ASSUME NEW S, S \subseteq Nat, S # {}
  PROVE  \E x \in S : \A y \in S : x <= y
<1>1. IsWellFoundedOn(Below, Nat)
  BY NatLessThanWellFounded DEF OpToRel, Below
<1>2. PICK x \in S : \A y \in S : ~(<<y, x>> \in Below)
  BY <1>1, WFMin
<1>3. \A y \in S : ~(y < x)
  BY <1>2 DEF Below
<1> QED BY <1>3

\* A set with 0 that has the successor of each of its numbers has them all.
LEMMA SetInduction ==
  ASSUME NEW S, 0 \in S, \A n \in Nat : n \in S => n + 1 \in S
  PROVE  Nat \subseteq S
<1> SUFFICES ASSUME ~(Nat \subseteq S) PROVE FALSE
  OBVIOUS
<1>1. PICK x \in Nat \ S : \A y \in Nat \ S : x <= y
  BY LeastNumber
<1>2. x # 0 /\ x - 1 \in Nat
  BY <1>1
<1> QED BY <1>1, <1>2

\* There is a path to request, and every path is one.
LEMMA PathsAreGiven ==
  ASSUME NEW f \in Flag
  PROVE  /\ httpPaths(f) \in Seq(Path) /\ Len(httpPaths(f)) >= 1
<1>1. PICK m \in Nat : m = Len(f.path) /\ m >= 1 /\ DOMAIN f.path = 1 .. m
  <2>1. f.path \in Seq(Path) /\ f.path # <<>>
    BY DEF Flag
  <2> QED BY <2>1, LenProperties, EmptySeq
<1>2. PICK n : n = IF f.num_requests > 1 THEN f.num_requests ELSE 1
  OBVIOUS
<1>3. n \in Nat /\ n >= 1
  <2>1. f.num_requests \in Int
    BY DEF Flag
  <2> QED BY <1>2, <2>1
<1>4. n * m \in Nat /\ n * m >= 1
  BY <1>1, <1>3
<1>5. httpPaths(f) = [i \in 1 .. n * m |-> f.path[((i - 1) % m) + 1]]
  BY <1>1, <1>2 DEF httpPaths
<1>6. ASSUME NEW i \in 1 .. n * m
      PROVE  f.path[((i - 1) % m) + 1] \in Path
  <2>1. (i - 1) % m \in 0 .. m - 1
    <3>1. \A a \in Nat, b \in Nat : b >= 1 => a % b \in 0 .. b - 1
      OBVIOUS
    <3>2. i - 1 \in Nat
      BY <1>4
    <3> QED BY <1>1, <3>1, <3>2
  <2>2. ((i - 1) % m) + 1 \in 1 .. m
    <3>1. \A r \in 0 .. m - 1 : r + 1 \in 1 .. m
      OBVIOUS
    <3> QED BY <2>1, <3>1, Zenon
  <2> QED BY <1>1, <2>2, ElementOfSeq DEF Flag
<1>7. httpPaths(f) \in Seq(Path) /\ Len(httpPaths(f)) = n * m
  BY <1>4, <1>5, <1>6, SeqDef, LenProperties
<1> QED BY <1>4, <1>7

\* The parameters of a client.
LEMMA ParamsOfClient ==
  ASSUME flags \in Flag
  PROVE  /\ params.httpPaths \in Seq(Path) /\ Len(params.httpPaths) >= 1
         /\ params.requestGaps \in Seq(Nat \cup {NotANumber})
         /\ params.httpMethod = "POST" => params.httpBody \in Nat
         /\ params.sendRequestsSequentially \in BOOLEAN /\ params.migrateClient \in BOOLEAN
<1>1. params.httpPaths = httpPaths(flags) /\ params.requestGaps = flags.gap_ms
      /\ params.httpMethod = (IF flags.body = NoBody THEN "GET" ELSE "POST")
      /\ params.httpBody = flags.body
      /\ params.sendRequestsSequentially = flags.sequential
      /\ params.migrateClient = flags.migrate_client
  BY DEF ClientParams, params
<1>2. flags.gap_ms \in Seq(Nat \cup {NotANumber}) /\ flags.body \in Nat \cup {NoBody}
      /\ flags.sequential \in BOOLEAN /\ flags.migrate_client \in BOOLEAN
  BY DEF Flag
<1> QED BY <1>1, <1>2, PathsAreGiven

\* A response is saved under a name that no file has.
LEMMA SavedIsNew ==
  ASSUME NEW name \in FileName, NEW found, NEW w \in BOOLEAN
  PROVE  LET file == saveResponseToFile(name, found, w)
         IN  /\ file \in OutputFile \cup {Stdout}
             /\ file # Stdout => file \notin found
<1>1. PICK free : free = {t \in 0 .. MaxTries - 1 : <<name, t>> \notin found}
  OBVIOUS
<1>2. saveResponseToFile(name, found, w) = IF w /\ free # {} THEN <<name, Min(free)>> ELSE Stdout
  BY <1>1 DEF saveResponseToFile
<1>3. free \subseteq Nat
  BY <1>1, CurlBoundsAssumption
<1>4. free # {} => Min(free) \in free
  BY <1>3, LeastNumber DEF Min
<1>5. free # {} => <<name, Min(free)>> \in OutputFile /\ <<name, Min(free)>> \notin found
  BY <1>1, <1>3, <1>4 DEF OutputFile
<1> QED BY <1>2, <1>5
-----------------------------------------------------------------------------
(* One request and its response.                                             *)

\* What was written to the output: the response's chunks, all and in order,
\* and no push's before there was one.
OutputOK(x) ==
  /\ 1 .. x.chunks = {y \in Range(x.output) : y > 0}
  /\ \A k, l \in DOMAIN x.output : 0 < x.output[k] /\ k < l /\ 0 < x.output[l] =>
       x.output[k] < x.output[l]
  /\ x.push = "none" => \A k \in DOMAIN x.output : x.output[k] # Pushed

\* The request ends once, and with the whole file.
CurlOK(x) == /\ x \in CurlType
             /\ x.egress # "twice"
             /\ x.egress = "eom" => x.bodies = x.reads
             /\ x.bodies <= x.reads
             /\ OutputOK(x)

\* A CurlClient that goes on keeps its path, its file and its EOM function,
\* and its transaction is not opened again.
GoesOn(x, y) == /\ CurlOK(y)
                /\ y.path = x.path /\ y.file = x.file /\ y.eomFunc = x.eomFunc
                /\ y.txn = "open" => x.txn = "open"

\* A new one.
LEMMA NewCurlOK ==
  ASSUME NEW path \in Nat, NEW file \in OutputFile \cup {Stdout}
  PROVE  /\ CurlOK(NewCurl(path, file))
         /\ LET x == NewCurl(path, file) IN
              /\ x.path = path /\ x.file = file /\ x.eomFunc = "none" /\ x.txn = "open"
<1>1. PICK x : x = NewCurl(path, file)
  OBVIOUS
<1>2. x \in CurlType
  BY <1>1 DEF NewCurl, CurlType
<1>3. /\ x.path = path /\ x.file = file /\ x.eomFunc = "none" /\ x.txn = "open"
      /\ x.egress = "eom" /\ x.bodies = 0 /\ x.reads = 0 /\ x.chunks = 0 /\ x.output = <<>>
  BY <1>1 DEF NewCurl
<1>4. DOMAIN x.output = {} /\ Range(x.output) = {}
  BY <1>3 DEF Range
<1>5. OutputOK(x)
  BY <1>3, <1>4 DEF OutputOK
<1> QED BY <1>1, <1>2, <1>3, <1>5 DEF CurlOK

\* What sendBodyFromFile makes of a request that is still to be sent.
LEMMA UploadGoesOn ==
  ASSUME NEW x, CurlOK(x), x.egress = "headers", NEW d \in sendBodyFromFile(x)
  PROVE  GoesOn(x, d) /\ d.txn = x.txn
<1>1. x \in CurlType /\ x.bodies \in Nat /\ x.reads \in Nat /\ x.bodies <= x.reads
  BY DEF CurlOK, CurlType
<1>2. PICK n \in Nat, p \in BOOLEAN : d = Finish(x, n, p) /\ n <= x.reads /\ (~p => n = x.reads)
  <2>1. d = Finish(x, x.reads, FALSE) \/ \E n \in x.bodies + 1 .. x.reads : d = Finish(x, n, TRUE)
    BY DEF sendBodyFromFile
  <2>2. CASE d = Finish(x, x.reads, FALSE)
    <3>1. FALSE \in BOOLEAN /\ x.reads <= x.reads
      BY <1>1
    <3> QED BY <1>1, <2>2, <3>1, Zenon
  <2>3. ASSUME NEW n \in x.bodies + 1 .. x.reads, d = Finish(x, n, TRUE)
        PROVE  \E m \in Nat, p \in BOOLEAN :
                 d = Finish(x, m, p) /\ m <= x.reads /\ (~p => m = x.reads)
    <3>1. n \in Nat /\ n <= x.reads
      BY <1>1
    <3> QED BY <2>3, <3>1
  <2> QED BY <2>1, <2>2, <2>3
<1>3. d = [x EXCEPT !.bodies = n, !.egressPaused = p, !.egress = IF p THEN "headers" ELSE "eom"]
  BY <1>2 DEF Finish, SendEOM
<1>4. d \in CurlType
  BY <1>1, <1>3 DEF CurlType
<1>5. /\ d.path = x.path /\ d.file = x.file /\ d.eomFunc = x.eomFunc /\ d.txn = x.txn
      /\ d.bodies = n /\ d.reads = x.reads /\ d.egress = (IF p THEN "headers" ELSE "eom")
      /\ d.chunks = x.chunks /\ d.output = x.output /\ d.push = x.push
  BY <1>1, <1>3 DEF CurlType
<1>6. OutputOK(d)
  BY <1>5 DEF CurlOK, OutputOK
<1> QED BY <1>2, <1>4, <1>5, <1>6 DEF CurlOK, GoesOn

\* Of a POST that is sent anew.
LEMMA PostGoesOn ==
  ASSUME NEW path \in Nat, NEW file \in OutputFile \cup {Stdout}, NEW reads \in Nat,
         NEW d \in sendRequest(NewCurl(path, file), reads)
  PROVE  GoesOn(NewCurl(path, file), d) /\ d.txn = "open"
<1>1. PICK x : x = NewCurl(path, file)
  OBVIOUS
<1>2. /\ CurlOK(x) /\ x \in CurlType /\ x.bodies = 0 /\ x.txn = "open"
  BY <1>1, NewCurlOK DEF CurlOK, NewCurl
<1>3. PICK y : y = [x EXCEPT !.reads = reads, !.egress = "headers"]
  OBVIOUS
<1>4. y \in CurlType
  BY <1>2, <1>3 DEF CurlType
<1>5. /\ y.path = x.path /\ y.file = x.file /\ y.eomFunc = x.eomFunc /\ y.txn = x.txn
      /\ y.bodies = 0 /\ y.reads = reads /\ y.egress = "headers"
      /\ y.chunks = x.chunks /\ y.output = x.output /\ y.push = x.push
  BY <1>2, <1>3 DEF CurlType
<1>6. CurlOK(y) /\ GoesOn(x, y)
  BY <1>2, <1>4, <1>5 DEF CurlOK, OutputOK, GoesOn
<1>7. d = Finish(y, 0, TRUE) \/ d \in sendBodyFromFile(y)
  BY <1>1, <1>3 DEF sendRequest
<1>8. CASE d \in sendBodyFromFile(y)
  BY <1>1, <1>2, <1>5, <1>6, <1>8, UploadGoesOn DEF GoesOn
<1>9. CASE d = Finish(y, 0, TRUE)
  <2>1. d = [y EXCEPT !.bodies = 0, !.egressPaused = TRUE, !.egress = "headers"]
    BY <1>9 DEF Finish
  <2>2. d \in CurlType
    BY <1>4, <2>1 DEF CurlType
  <2>3. /\ d.path = y.path /\ d.file = y.file /\ d.eomFunc = y.eomFunc /\ d.txn = y.txn
        /\ d.bodies = 0 /\ d.reads = reads /\ d.egress = "headers"
        /\ d.chunks = y.chunks /\ d.output = y.output /\ d.push = y.push
    BY <1>4, <1>5, <2>1 DEF CurlType
  <2> QED BY <1>1, <1>2, <1>5, <1>6, <2>2, <2>3 DEF CurlOK, OutputOK, GoesOn
<1> QED BY <1>7, <1>8, <1>9

\* Writing what is no chunk leaves the chunks as they were; writing the next
\* chunk adds it.
LEMMA OutputGrows ==
  ASSUME NEW x, x \in CurlType, OutputOK(x),
         NEW y, y \in CurlType, NEW e \in Int, y.output = Append(x.output, e),
         y.push = "none" => x.push = "none" /\ e # Pushed,
         \/ e <= 0 /\ y.chunks = x.chunks
         \/ e = x.chunks + 1 /\ y.chunks = x.chunks + 1
  PROVE  OutputOK(y)
<1>1. x.output \in Seq(Int) /\ x.chunks \in Nat
  BY DEF CurlType
<1>2. PICK n \in Nat : n = Len(x.output) /\ DOMAIN x.output = 1 .. n
  BY <1>1, LenProperties
<1>3. PICK s, t : s = x.output /\ t = y.output
  OBVIOUS
<1>4. /\ DOMAIN t = 1 .. n + 1 /\ t[n + 1] = e /\ \A i \in 1 .. n : t[i] = s[i]
  BY <1>1, <1>2, <1>3, AppendProperties, LenProperties
<1>5. \A i \in DOMAIN t : i \in 1 .. n \/ i = n + 1
  BY <1>4
<1>6. /\ DOMAIN s = 1 .. n /\ \A i \in 1 .. n : s[i] \in Int /\ i \in DOMAIN t
      /\ n + 1 \in DOMAIN t
  BY <1>1, <1>2, <1>3, <1>4, ElementOfSeq
<1>7. {v \in Range(t) : v > 0} = {v \in Range(s) : v > 0} \cup {v \in {e} : v > 0}
  BY <1>4, <1>5, <1>6 DEF Range
<1>8. 1 .. y.chunks = {v \in Range(t) : v > 0}
  <2>1. 1 .. x.chunks = {v \in Range(s) : v > 0}
    BY <1>3 DEF OutputOK
  <2>2. CASE e <= 0 /\ y.chunks = x.chunks
    BY <1>7, <2>1, <2>2
  <2>3. CASE e = x.chunks + 1 /\ y.chunks = x.chunks + 1
    BY <1>1, <1>7, <2>1, <2>3
  <2> QED BY <2>2, <2>3
<1>9. \A i \in 1 .. n : s[i] > 0 => s[i] <= x.chunks
  <2>1. \A v \in Range(s) : v > 0 => v \in 1 .. x.chunks
    BY <1>3 DEF OutputOK
  <2>2. \A i \in 1 .. n : s[i] \in Range(s)
    BY <1>6 DEF Range
  <2>3. \A v \in 1 .. x.chunks : v <= x.chunks
    BY <1>1
  <2> QED BY <2>1, <2>2, <2>3
<1>10. ASSUME NEW k \in DOMAIN t, NEW l \in DOMAIN t, 0 < t[k], k < l, 0 < t[l]
       PROVE  t[k] < t[l]
  <2>1. k \in 1 .. n
    BY <1>4, <1>10
  <2>2. CASE l \in 1 .. n
    <3>1. \A i, j \in 1 .. n : 0 < s[i] /\ i < j /\ 0 < s[j] => s[i] < s[j]
      BY <1>3, <1>6 DEF OutputOK
    <3> QED BY <1>4, <1>10, <2>1, <2>2, <3>1
  <2>3. CASE l = n + 1
    BY <1>1, <1>4, <1>6, <1>9, <1>10, <2>1, <2>3
  <2> QED BY <1>5, <2>2, <2>3
<1>11. y.push = "none" => \A k \in DOMAIN t : t[k] # Pushed
  BY <1>3, <1>4, <1>5, <1>6 DEF OutputOK
<1> QED BY <1>3, <1>8, <1>10, <1>11 DEF OutputOK

\* The response's headers, and its chunks and those of a push.
LEMMA ResponseGoesOn ==
  ASSUME NEW x, CurlOK(x), NEW b \in BOOLEAN
  PROVE  /\ GoesOn(x, onHeadersComplete(x, b))
         /\ GoesOn(x, onBody(x))
         /\ x.push = "open" => GoesOn(x, onPushBody(x))
<1>1. x \in CurlType /\ OutputOK(x) /\ x.chunks \in Nat /\ x.output \in Seq(Int)
  BY DEF CurlOK, CurlType
<1>2. GoesOn(x, onHeadersComplete(x, b))
  <2>1. PICK y : y = onHeadersComplete(x, b)
    OBVIOUS
  <2>2. y = [x EXCEPT !.response = TRUE, !.output = IF b THEN Append(x.output, Headers) ELSE x.output]
    BY <1>1, <2>1 DEF onHeadersComplete, CurlType
  <2>3. (IF b THEN Append(x.output, Headers) ELSE x.output) \in Seq(Int)
    BY <1>1, AppendProperties DEF Headers
  <2>4. y \in CurlType
    BY <1>1, <2>2, <2>3 DEF CurlType
  <2>5. /\ y.path = x.path /\ y.file = x.file /\ y.eomFunc = x.eomFunc /\ y.txn = x.txn
        /\ y.bodies = x.bodies /\ y.reads = x.reads /\ y.egress = x.egress
        /\ y.chunks = x.chunks /\ y.push = x.push
        /\ y.output = IF b THEN Append(x.output, Headers) ELSE x.output
    BY <1>1, <2>2 DEF CurlType
  <2>6. OutputOK(y)
    <3>1. CASE b
      <4>1. Headers \in Int /\ Headers <= 0 /\ Headers # Pushed
        BY DEF Headers, Pushed
      <4> QED BY <1>1, <2>4, <2>5, <3>1, <4>1, OutputGrows
    <3>2. CASE ~b
      BY <1>1, <2>5, <3>2 DEF OutputOK
    <3> QED BY <3>1, <3>2
  <2> QED BY <2>1, <2>4, <2>5, <2>6 DEF CurlOK, GoesOn
<1>3. GoesOn(x, onBody(x))
  <2>1. PICK y : y = onBody(x)
    OBVIOUS
  <2>2. y = [x EXCEPT !.chunks = x.chunks + 1, !.output = Append(x.output, x.chunks + 1)]
    BY <1>1, <2>1 DEF onBody, CurlType
  <2>3. Append(x.output, x.chunks + 1) \in Seq(Int) /\ x.chunks + 1 \in Nat
    BY <1>1, AppendProperties
  <2>4. y \in CurlType
    BY <1>1, <2>2, <2>3 DEF CurlType
  <2>5. /\ y.path = x.path /\ y.file = x.file /\ y.eomFunc = x.eomFunc /\ y.txn = x.txn
        /\ y.bodies = x.bodies /\ y.reads = x.reads /\ y.egress = x.egress /\ y.push = x.push
        /\ y.chunks = x.chunks + 1 /\ y.output = Append(x.output, x.chunks + 1)
    BY <1>1, <2>2 DEF CurlType
  <2>6. OutputOK(y)
    <3>1. x.chunks + 1 \in Int /\ x.chunks + 1 # Pushed
      BY <1>1 DEF Pushed
    <3> QED BY <1>1, <2>4, <2>5, <3>1, OutputGrows
  <2> QED BY <2>1, <2>4, <2>5, <2>6 DEF CurlOK, GoesOn
<1>4. ASSUME x.push = "open" PROVE GoesOn(x, onPushBody(x))
  <2>1. PICK y : y = onPushBody(x)
    OBVIOUS
  <2>2. y = [x EXCEPT !.output = Append(x.output, Pushed)]
    BY <1>1, <2>1 DEF onPushBody, CurlType
  <2>3. Append(x.output, Pushed) \in Seq(Int)
    BY <1>1, AppendProperties DEF Pushed
  <2>4. y \in CurlType
    BY <1>1, <2>2, <2>3 DEF CurlType
  <2>5. /\ y.path = x.path /\ y.file = x.file /\ y.eomFunc = x.eomFunc /\ y.txn = x.txn
        /\ y.bodies = x.bodies /\ y.reads = x.reads /\ y.egress = x.egress /\ y.push = x.push
        /\ y.chunks = x.chunks /\ y.output = Append(x.output, Pushed)
    BY <1>1, <2>2 DEF CurlType
  <2>6. OutputOK(y)
    <3>1. Pushed \in Int /\ Pushed <= 0 /\ y.push # "none"
      BY <1>4, <2>5 DEF Pushed
    <3> QED BY <1>1, <2>4, <2>5, <3>1, OutputGrows
  <2> QED BY <2>1, <2>4, <2>5, <2>6 DEF CurlOK, GoesOn
<1> QED BY <1>2, <1>3, <1>4

\* A step that writes nothing and sends nothing.
LEMMA OnlyGoesOn ==
  ASSUME NEW x, CurlOK(x), NEW y, y \in CurlType,
         y.path = x.path, y.file = x.file, y.eomFunc = x.eomFunc,
         y.txn = "open" => x.txn = "open",
         y.bodies = x.bodies, y.reads = x.reads, y.egress \in {x.egress, "failed"},
         y.chunks = x.chunks, y.output = x.output, y.push = "none" => x.push = "none"
  PROVE  GoesOn(x, y)
<1>1. OutputOK(y)
  BY DEF CurlOK, OutputOK
<1> QED BY <1>1 DEF CurlOK, GoesOn

\* Egress is resumed.
LEMMA ResumedGoesOn ==
  ASSUME NEW x, CurlOK(x), Resumable(x), NEW d \in onEgressResumed(x)
  PROVE  GoesOn(x, d)
<1>1. x \in CurlType /\ x.egress = "headers"
  BY DEF CurlOK, Resumable
<1>2. PICK y : y = [x EXCEPT !.egressPaused = FALSE]
  OBVIOUS
<1>3. y \in CurlType
  BY <1>1, <1>2 DEF CurlType
<1>4. /\ y.path = x.path /\ y.file = x.file /\ y.eomFunc = x.eomFunc /\ y.txn = x.txn
      /\ y.bodies = x.bodies /\ y.reads = x.reads /\ y.egress = x.egress
      /\ y.chunks = x.chunks /\ y.output = x.output /\ y.push = x.push
  BY <1>1, <1>2 DEF CurlType
<1>5. GoesOn(x, y)
  BY <1>3, <1>4, OnlyGoesOn
<1>6. d \in sendBodyFromFile(y)
  BY <1>2 DEF onEgressResumed
<1>7. GoesOn(y, d)
  BY <1>1, <1>4, <1>5, <1>6, UploadGoesOn DEF GoesOn
<1> QED BY <1>4, <1>7 DEF GoesOn

\* A transaction ends or is detached, or a pushed one starts or ends.
LEMMA TransactionGoesOn ==
  ASSUME NEW x, CurlOK(x)
  PROVE  /\ \A t \in {"ended", "detached"} : GoesOn(x, [x EXCEPT !.txn = t])
         /\ \A q \in {"open", "ended"} : GoesOn(x, [x EXCEPT !.push = q])
<1>1. x \in CurlType
  BY DEF CurlOK
<1>2. ASSUME NEW t \in {"ended", "detached"} PROVE GoesOn(x, [x EXCEPT !.txn = t])
  <2>1. PICK y : y = [x EXCEPT !.txn = t]
    OBVIOUS
  <2>2. y \in CurlType
    BY <1>1, <2>1 DEF CurlType
  <2>3. /\ y.path = x.path /\ y.file = x.file /\ y.eomFunc = x.eomFunc /\ y.txn = t
        /\ y.bodies = x.bodies /\ y.reads = x.reads /\ y.egress = x.egress
        /\ y.chunks = x.chunks /\ y.output = x.output /\ y.push = x.push
    BY <1>1, <2>1 DEF CurlType
  <2> QED BY <2>1, <2>2, <2>3, OnlyGoesOn
<1>3. ASSUME NEW q \in {"open", "ended"} PROVE GoesOn(x, [x EXCEPT !.push = q])
  <2>1. PICK y : y = [x EXCEPT !.push = q]
    OBVIOUS
  <2>2. y \in CurlType
    BY <1>1, <2>1 DEF CurlType
  <2>3. /\ y.path = x.path /\ y.file = x.file /\ y.eomFunc = x.eomFunc /\ y.txn = x.txn
        /\ y.bodies = x.bodies /\ y.reads = x.reads /\ y.egress = x.egress
        /\ y.chunks = x.chunks /\ y.output = x.output /\ y.push = q
    BY <1>1, <2>1 DEF CurlType
  <2> QED BY <2>1, <2>2, <2>3, OnlyGoesOn
<1> QED BY <1>2, <1>3

\* A transaction fails, alone or with its connection.
LEMMA FailureGoesOn ==
  ASSUME NEW x, CurlOK(x)
  PROVE  GoesOn(x, Fail(x)) /\ GoesOn(x, Lose(x))
<1>1. x \in CurlType
  BY DEF CurlOK
<1>2. PICK y : y = Fail(x)
  OBVIOUS
<1>3. y = [x EXCEPT !.txn = IF x.txn = "open" THEN "ended" ELSE x.txn,
                    !.egress = IF x.egress = "headers" THEN "failed" ELSE x.egress]
  BY <1>1, <1>2 DEF Fail, CurlType
<1>4. y \in CurlType
  BY <1>1, <1>3 DEF CurlType
<1>5. /\ y.path = x.path /\ y.file = x.file /\ y.eomFunc = x.eomFunc /\ y.txn # "open"
      /\ y.bodies = x.bodies /\ y.reads = x.reads /\ y.egress \in {x.egress, "failed"}
      /\ y.chunks = x.chunks /\ y.output = x.output /\ y.push = x.push
  BY <1>1, <1>3 DEF CurlType
<1>6. GoesOn(x, y)
  BY <1>4, <1>5, OnlyGoesOn
<1>7. PICK z : z = Lose(x)
  OBVIOUS
<1>8. z = [y EXCEPT !.txn = "detached", !.push = IF y.push = "open" THEN "ended" ELSE y.push]
  BY <1>2, <1>4, <1>7 DEF Lose, CurlType
<1>9. z \in CurlType
  BY <1>4, <1>8 DEF CurlType
<1>10. /\ z.path = y.path /\ z.file = y.file /\ z.eomFunc = y.eomFunc /\ z.txn = "detached"
       /\ z.bodies = y.bodies /\ z.reads = y.reads /\ z.egress = y.egress
       /\ z.chunks = y.chunks /\ z.output = y.output /\ (z.push = "none" => y.push = "none")
  BY <1>4, <1>8 DEF CurlType
<1>11. GoesOn(x, z)
  BY <1>5, <1>9, <1>10, OnlyGoesOn
<1> QED BY <1>2, <1>6, <1>7, <1>11
-----------------------------------------------------------------------------
(***************************************************************************)
(* The invariant of a client c with the parameters p; away: a server that  *)
(* went away may have refused requests.                                    *)
(***************************************************************************)
Left(c) == Len(c.httpPaths)

\* The queue holds the last paths, in order.
QueueOK(p, c) ==
  /\ Left(c) <= Len(p.httpPaths)
  /\ \A k \in DOMAIN c.httpPaths : c.httpPaths[k] = Len(p.httpPaths) - Left(c) + k

\* The requests are for paths before those, in order.
RequestsOK(p, away, c) ==
  /\ \A i \in DOMAIN c.curls : /\ CurlOK(c.curls[i])
                               /\ c.curls[i].path <= Len(p.httpPaths) - Left(c)
  /\ \A i, j \in DOMAIN c.curls : i < j => c.curls[i].path < c.curls[j].path
  /\ ~away => Len(c.curls) = Len(p.httpPaths) - Left(c)

\* The responses are saved in files of their own.
FilesOK(c) ==
  /\ \A i \in DOMAIN c.curls : c.curls[i].file # Stdout => c.curls[i].file \in c.files
  /\ \A i, j \in DOMAIN c.curls :
       c.curls[i].file # Stdout /\ c.curls[i].file = c.curls[j].file => i = j

\* One request at most has a callback pending; it finds a path and, if one
\* request follows the other, a gap.  Then also none but the last is open.
IsPending(x) == x.txn = "open" /\ x.eomFunc # "none"
ModeOK(p, c) ==
  \A i \in DOMAIN c.curls :
    /\ c.curls[i].eomFunc = "sequential" => p.sendRequestsSequentially
    /\ c.curls[i].eomFunc = "runner" => ~p.sendRequestsSequentially
    /\ p.sendRequestsSequentially /\ c.curls[i].txn = "open" => i = Len(c.curls)
PendingOK(c) ==
  /\ \A i, j \in DOMAIN c.curls : IsPending(c.curls[i]) /\ IsPending(c.curls[j]) => i = j
  /\ \A i \in DOMAIN c.curls : IsPending(c.curls[i]) =>
       /\ Left(c) > 0
       /\ c.curls[i].eomFunc = "sequential" => Len(c.requestGaps) = Left(c)

\* Between two batches.
BatchOK(p, away, c) == /\ c \in Client
                       /\ QueueOK(p, c) /\ RequestsOK(p, away, c) /\ FilesOK(c)
                       /\ ModeOK(p, c) /\ PendingOK(c)

DrainOK(p, c) == /\ c.drains <= 1
                 /\ c.drains = 1 => Left(c) = 0
                 /\ Left(c) = 0 /\ ~p.migrateClient => c.drains = 1

\* While the timer runs no callback of a request is pending, and none is open
\* if one follows the other.
Quiet(c) == \A i \in DOMAIN c.curls : ~IsPending(c.curls[i])
NoneOpen(c) == \A i \in DOMAIN c.curls : c.curls[i].txn # "open"
TimerOK(p, c) ==
  /\ c.timer # "none" => Left(c) > 0 /\ Quiet(c)
  /\ c.timer = "gap" => /\ p.sendRequestsSequentially /\ NoneOpen(c)
                        /\ Len(c.requestGaps) = Left(c) - 1
  /\ c.timer = "rtt" => ~p.sendRequestsSequentially

ClientOK(p, away, c) == BatchOK(p, away, c) /\ DrainOK(p, c) /\ TimerOK(p, c)

\* What the record of a client is made of.
LEMMA ClientFields ==
  ASSUME NEW c, c \in Client
  PROVE  /\ c.httpPaths \in Seq(Nat) /\ Left(c) \in Nat /\ DOMAIN c.httpPaths = 1 .. Left(c)
         /\ c.requestGaps \in Seq(Nat) /\ Len(c.requestGaps) \in Nat
         /\ c.curls \in Seq(CurlType) /\ Len(c.curls) \in Nat /\ DOMAIN c.curls = 1 .. Len(c.curls)
         /\ c.timer \in {"none", "gap", "rtt"} /\ c.drains \in Nat /\ c.switches \in Nat
         /\ c.openable \in Nat /\ c.files \subseteq OutputFile
<1>1. /\ c.httpPaths \in Seq(Nat) /\ c.requestGaps \in Seq(Nat) /\ c.curls \in Seq(CurlType)
      /\ c.timer \in {"none", "gap", "rtt"} /\ c.drains \in Nat /\ c.switches \in Nat
      /\ c.openable \in Nat /\ c.files \subseteq OutputFile
  BY DEF Client
<1> QED BY <1>1, LenProperties DEF Left

\* The client goes on: its requests do, and no path is sent.
Continues(c, l) ==
  /\ l \in Client
  /\ l.httpPaths = c.httpPaths /\ l.requestGaps = c.requestGaps /\ l.timer = c.timer
  /\ l.drains = c.drains /\ l.files = c.files
  /\ Len(l.curls) = Len(c.curls) /\ DOMAIN l.curls = DOMAIN c.curls
  /\ \A i \in DOMAIN c.curls : GoesOn(c.curls[i], l.curls[i])

LEMMA ContinuesKeeps ==
  ASSUME NEW p, NEW away, NEW c, NEW l, BatchOK(p, away, c), Continues(c, l)
  PROVE  /\ BatchOK(p, away, l)
         /\ DrainOK(p, c) => DrainOK(p, l)
         /\ TimerOK(p, c) => TimerOK(p, l)
         /\ Quiet(c) => Quiet(l)
         /\ NoneOpen(c) => NoneOpen(l)
<1>1. Left(l) = Left(c)
  BY DEF Continues, Left
<1>2. QueueOK(p, l)
  BY <1>1 DEF BatchOK, QueueOK, Continues
<1>3. \A i \in DOMAIN l.curls :
        /\ i \in DOMAIN c.curls /\ CurlOK(l.curls[i])
        /\ l.curls[i].path = c.curls[i].path /\ l.curls[i].file = c.curls[i].file
        /\ l.curls[i].eomFunc = c.curls[i].eomFunc
        /\ l.curls[i].txn = "open" => c.curls[i].txn = "open"
        /\ IsPending(l.curls[i]) => IsPending(c.curls[i])
  BY DEF Continues, GoesOn, IsPending
<1>4. RequestsOK(p, away, l)
  BY <1>1, <1>3 DEF BatchOK, RequestsOK, Continues
<1>5. FilesOK(l)
  BY <1>3 DEF BatchOK, FilesOK, Continues
<1>6. ModeOK(p, l)
  BY <1>3 DEF BatchOK, ModeOK, Continues
<1>7. PendingOK(l)
  BY <1>1, <1>3 DEF BatchOK, PendingOK, Continues
<1>8. BatchOK(p, away, l)
  BY <1>2, <1>4, <1>5, <1>6, <1>7 DEF BatchOK, Continues
<1>9. (Quiet(c) => Quiet(l)) /\ (NoneOpen(c) => NoneOpen(l))
  BY <1>3 DEF Quiet, NoneOpen
<1>10. (DrainOK(p, c) => DrainOK(p, l)) /\ (TimerOK(p, c) => TimerOK(p, l))
  BY <1>1, <1>9 DEF DrainOK, TimerOK, Continues
<1> QED BY <1>8, <1>9, <1>10

\* One of the requests goes on.
LEMMA OneContinues ==
  ASSUME NEW c, c \in Client, \A i \in DOMAIN c.curls : CurlOK(c.curls[i]),
         NEW i \in DOMAIN c.curls, NEW x, GoesOn(c.curls[i], x)
  PROVE  Continues(c, [c EXCEPT !.curls[i] = x])
<1>1. PICK s : s = [c.curls EXCEPT ![i] = x]
  OBVIOUS
<1>2. x \in CurlType
  BY DEF GoesOn, CurlOK
<1>3. c.curls \in Seq(CurlType)
  BY ClientFields
<1>4. s \in Seq(CurlType) /\ Len(s) = Len(c.curls) /\ DOMAIN s = DOMAIN c.curls
  BY <1>1, <1>2, <1>3, ExceptSeq, LenProperties
<1>5. PICK l : l = [c EXCEPT !.curls = s]
  OBVIOUS
<1>6. l = [c EXCEPT !.curls[i] = x]
  BY <1>1, <1>5 DEF Client
<1>7. l \in Client
  BY <1>4, <1>5 DEF Client
<1>8. /\ l.httpPaths = c.httpPaths /\ l.requestGaps = c.requestGaps /\ l.timer = c.timer
      /\ l.drains = c.drains /\ l.files = c.files /\ l.curls = s
  BY <1>5 DEF Client
<1>9. \A j \in DOMAIN c.curls : GoesOn(c.curls[j], s[j])
  BY <1>1 DEF GoesOn
<1> QED BY <1>4, <1>6, <1>7, <1>8, <1>9 DEF Continues
-----------------------------------------------------------------------------
(* Sending requests.                                                         *)

\* From c to d requests were added, whose responses go to new files.
Grows(c, d) ==
  /\ DOMAIN c.curls \subseteq DOMAIN d.curls
  /\ \A i \in DOMAIN c.curls : d.curls[i] = c.curls[i]
  /\ \A i \in DOMAIN d.curls \ DOMAIN c.curls :
       d.curls[i].eomFunc = "none" /\ (d.curls[i].file # Stdout => d.curls[i].file \notin c.files)
  /\ c.files \subseteq d.files
  /\ d.requestGaps = c.requestGaps /\ d.drains = c.drains /\ d.timer = c.timer

\* The next path is popped.
LEMMA PopPathPops ==
  ASSUME NEW p, NEW c, c \in Client, QueueOK(p, c), Left(c) > 0, Len(p.httpPaths) \in Nat,
         NEW e, e = PopPath(c)
  PROVE  /\ e \in Client /\ QueueOK(p, e) /\ Left(e) = Left(c) - 1
         /\ e.requestGaps = c.requestGaps /\ e.curls = c.curls /\ e.timer = c.timer
         /\ e.drains = c.drains /\ e.switches = c.switches /\ e.openable = c.openable
         /\ e.files = c.files
         /\ Head(c.httpPaths) \in 1 .. Len(p.httpPaths)
         /\ Head(c.httpPaths) = Len(p.httpPaths) - Left(e)
<1>1. c.httpPaths \in Seq(Nat) /\ Left(c) \in Nat /\ DOMAIN c.httpPaths = 1 .. Left(c)
  BY ClientFields
<1>2. PICK s : s = Tail(c.httpPaths)
  OBVIOUS
<1>3. c.httpPaths # <<>>
  BY <1>1, EmptySeq DEF Left
<1>4. /\ s \in Seq(Nat) /\ Len(s) = Left(c) - 1
      /\ \A k \in 1 .. Len(s) : s[k] = c.httpPaths[k + 1]
      /\ Head(c.httpPaths) = c.httpPaths[1]
  BY <1>1, <1>2, <1>3, HeadTailProperties DEF Left
<1>5. e = [c EXCEPT !.httpPaths = s]
  BY <1>2 DEF PopPath
<1>6. e \in Client /\ e.httpPaths = s
  BY <1>4, <1>5 DEF Client
<1>7. /\ e.requestGaps = c.requestGaps /\ e.curls = c.curls /\ e.timer = c.timer
      /\ e.drains = c.drains /\ e.switches = c.switches /\ e.openable = c.openable
      /\ e.files = c.files
  BY <1>5 DEF Client
<1>8. Left(e) = Left(c) - 1
  BY <1>4, <1>6 DEF Left
<1>9. Left(c) <= Len(p.httpPaths) /\ \A k \in 1 .. Left(c) : c.httpPaths[k] = Len(p.httpPaths) - Left(c) + k
  BY <1>1 DEF QueueOK
<1>10. DOMAIN s = 1 .. Left(c) - 1
  BY <1>4, LenProperties
<1>11. QueueOK(p, e)
  <2>1. ASSUME NEW k \in 1 .. Left(c) - 1
        PROVE  s[k] = Len(p.httpPaths) - (Left(c) - 1) + k
    <3>1. s[k] = c.httpPaths[k + 1] /\ k + 1 \in 1 .. Left(c)
      BY <1>1, <1>4
    <3>2. c.httpPaths[k + 1] = Len(p.httpPaths) - Left(c) + (k + 1)
      BY <1>9, <3>1
    <3>3. k \in Nat /\ Left(c) \in Nat /\ Len(p.httpPaths) \in Nat
      BY <1>1
    <3> QED BY <3>1, <3>2, <3>3
  <2> QED BY <1>1, <1>6, <1>8, <1>9, <1>10, <2>1 DEF QueueOK
<1>12. Head(c.httpPaths) = Len(p.httpPaths) - Left(c) + 1
  <2>1. 1 \in 1 .. Left(c)
    BY <1>1
  <2> QED BY <1>4, <1>9, <2>1
<1> QED BY <1>1, <1>6, <1>7, <1>8, <1>9, <1>11, <1>12, SMTT(30)

\* A response goes to a new file, or to standard output.
LEMMA OutputIsNew ==
  ASSUME flags \in Flag, NEW c, Head(c.httpPaths) \in 1 .. Len(params.httpPaths)
  PROVE  /\ Output(c) \in OutputFile \cup {Stdout}
         /\ Output(c) # Stdout => Output(c) \notin c.files
<1>1. PICK path : path = params.httpPaths[Head(c.httpPaths)]
  OBVIOUS
<1>2. path \in Path
  BY <1>1, ParamsOfClient, ElementOfSeq
<1>3. NameOf(path) \in FileName
  BY <1>2 DEF NameOf, Path, FileName
<1>4. PICK w \in BOOLEAN : w = (params.outdir = "writable")
  OBVIOUS
<1>5. Output(c) = IF params.outdir = "" THEN Stdout ELSE saveResponseToFile(NameOf(path), c.files, w)
  BY <1>1, <1>4 DEF Output
<1>6. PICK name, file : name = NameOf(path) /\ file = saveResponseToFile(name, c.files, w)
  OBVIOUS
<1>7. file \in OutputFile \cup {Stdout} /\ (file # Stdout => file \notin c.files)
  BY <1>3, <1>6, SavedIsNew
<1>8. Output(c) = Stdout \/ Output(c) = file
  BY <1>5, <1>6
<1> QED BY <1>7, <1>8

\* A request is added to those of e.
Adds(e, x, d) == /\ d \in Client
                 /\ d.httpPaths = e.httpPaths /\ d.requestGaps = e.requestGaps
                 /\ d.timer = e.timer /\ d.drains = e.drains /\ d.switches = e.switches
                 /\ d.openable = e.openable - 1
                 /\ d.curls = Append(e.curls, x)
                 /\ d.files = e.files \cup ({x.file} \ {Stdout})

\* SendRequest pops a path and adds its request.
LEMMA SendRequestAdds ==
  ASSUME flags \in Flag, NEW c, c \in Client, QueueOK(params, c), Left(c) > 0, c.openable > 0,
         session # "goaway", NEW d \in SendRequest(c)
  PROVE  \E x : /\ CurlOK(x) /\ x.path = Head(c.httpPaths) /\ x.eomFunc = "none" /\ x.txn = "open"
                /\ x.file # Stdout => x.file \notin c.files
                /\ Adds(PopPath(c), x, d)
<1>1. params.httpPaths \in Seq(Path) /\ Len(params.httpPaths) \in Nat
      /\ (params.httpMethod = "POST" => params.httpBody \in Nat)
  BY ParamsOfClient, LenProperties
<1>2. PICK e : e = PopPath(c)
  OBVIOUS
<1>3. /\ e \in Client /\ e.curls = c.curls /\ e.openable = c.openable /\ e.files = c.files
      /\ Head(c.httpPaths) \in 1 .. Len(params.httpPaths)
  BY <1>1, <1>2, PopPathPops
<1>4. PICK path, file : path = Head(c.httpPaths) /\ file = Output(c)
  OBVIOUS
<1>5. path \in Nat /\ file \in OutputFile \cup {Stdout} /\ (file # Stdout => file \notin c.files)
  BY <1>1, <1>3, <1>4, OutputIsNew
<1>6. PICK x : /\ x \in (IF params.httpMethod = "POST"
                         THEN sendRequest(NewCurl(path, file), params.httpBody)
                         ELSE {NewCurl(path, file)})
               /\ d = [e EXCEPT !.curls = Append(e.curls, x), !.openable = e.openable - 1,
                                !.files = e.files \cup ({x.file} \ {Stdout})]
  BY <1>2, <1>3, <1>4 DEF SendRequest, Client
<1>7. CurlOK(x) /\ x.path = path /\ x.file = file /\ x.eomFunc = "none" /\ x.txn = "open"
  <2>1. CASE params.httpMethod = "POST"
    BY <1>1, <1>5, <1>6, <2>1, PostGoesOn, NewCurlOK DEF GoesOn
  <2>2. CASE params.httpMethod # "POST"
    BY <1>5, <1>6, <2>2, NewCurlOK
  <2> QED BY <2>1, <2>2
<1>8. Append(e.curls, x) \in Seq(CurlType)
  BY <1>3, <1>7, ClientFields, AppendProperties DEF CurlOK
<1>9. e.openable - 1 \in Nat /\ e.files \cup ({x.file} \ {Stdout}) \subseteq OutputFile
  BY <1>3, <1>5, <1>7, ClientFields
<1>10. d \in Client
  BY <1>3, <1>6, <1>8, <1>9 DEF Client
<1>11. Adds(e, x, d)
  BY <1>3, <1>6, <1>10 DEF Adds, Client
<1> QED BY <1>2, <1>4, <1>5, <1>7, <1>11

\* From c to d the next paths were requested, unless the server goes away.
Asked(p, c, d) ==
  /\ Left(d) <= Left(c)
  /\ Len(d.curls) = IF session = "goaway" THEN Len(c.curls) ELSE Len(c.curls) + (Left(c) - Left(d))
  /\ \A i \in DOMAIN d.curls \ DOMAIN c.curls :
       d.curls[i].path = Len(p.httpPaths) - Left(c) + (i - Len(c.curls)) /\ d.curls[i].txn = "open"

\* What one request does to a client between two batches.
Sends(p, away, c, d) ==
  /\ BatchOK(p, away, d) /\ Quiet(d) /\ Grows(c, d) /\ Asked(p, c, d)
  /\ Left(d) = Left(c) - 1
  /\ d.openable >= c.openable - 1

\* One that is refused is lost.
LEMMA RefusedSends ==
  ASSUME session = "goaway",
         NEW p, Len(p.httpPaths) \in Nat, NEW c, BatchOK(p, TRUE, c), Quiet(c), Left(c) > 0
  PROVE  Sends(p, TRUE, c, PopPath(c))
<1>1. PICK e : e = PopPath(c)
  OBVIOUS
<1>2. c \in Client /\ QueueOK(p, c)
  BY DEF BatchOK
<1>3. /\ e \in Client /\ QueueOK(p, e) /\ Left(e) = Left(c) - 1
      /\ e.requestGaps = c.requestGaps /\ e.curls = c.curls /\ e.timer = c.timer
      /\ e.drains = c.drains /\ e.switches = c.switches /\ e.openable = c.openable
      /\ e.files = c.files
  BY <1>1, <1>2, PopPathPops
<1>4. Left(c) \in Nat /\ c.openable \in Nat
  BY <1>2, ClientFields
<1>5. \A i \in DOMAIN c.curls : /\ CurlOK(c.curls[i])
                                /\ c.curls[i].path <= Len(p.httpPaths) - Left(c)
  BY DEF BatchOK, RequestsOK
<1>6. \A i \in DOMAIN c.curls : c.curls[i].path <= Len(p.httpPaths) - Left(e)
  <2> SUFFICES ASSUME NEW i \in DOMAIN c.curls
               PROVE  c.curls[i].path <= Len(p.httpPaths) - Left(e)
    OBVIOUS
  <2>1. c.curls[i].path \in Nat
    BY <1>5 DEF CurlOK, CurlType
  <2>2. c.curls[i].path <= Len(p.httpPaths) - Left(c)
    BY <1>5
  <2> QED BY <1>3, <1>4, <2>1, <2>2
<1>7. RequestsOK(p, TRUE, e)
  BY <1>3, <1>5, <1>6 DEF RequestsOK, BatchOK
<1>8. FilesOK(e) /\ ModeOK(p, e)
  BY <1>3 DEF BatchOK, FilesOK, ModeOK
<1>9. Quiet(e) /\ PendingOK(e)
  BY <1>3 DEF Quiet, PendingOK
<1>10. Grows(c, e)
  BY <1>3 DEF Grows
<1>11. BatchOK(p, TRUE, e)
  BY <1>3, <1>7, <1>8, <1>9 DEF BatchOK
<1>12. e.openable >= c.openable - 1
  BY <1>3, <1>4
<1>13. Asked(p, c, e)
  BY <1>3, <1>4 DEF Asked
<1> QED BY <1>1, <1>3, <1>9, <1>10, <1>11, <1>12, <1>13 DEF Sends

\* One that is made is the last of the client's requests.
LEMMA AddedSends ==
  ASSUME session # "goaway",
         NEW p, Len(p.httpPaths) \in Nat, NEW away, NEW c, BatchOK(p, away, c), Quiet(c),
         Left(c) > 0, p.sendRequestsSequentially => NoneOpen(c),
         NEW x, CurlOK(x), x.path = Head(c.httpPaths), x.eomFunc = "none", x.txn = "open",
         x.file # Stdout => x.file \notin c.files,
         NEW d, Adds(PopPath(c), x, d)
  PROVE  Sends(p, away, c, d)
<1>1. PICK e : e = PopPath(c)
  OBVIOUS
<1>2. c \in Client /\ QueueOK(p, c)
  BY DEF BatchOK
<1>3. /\ e \in Client /\ QueueOK(p, e) /\ Left(e) = Left(c) - 1
      /\ e.requestGaps = c.requestGaps /\ e.curls = c.curls /\ e.timer = c.timer
      /\ e.drains = c.drains /\ e.switches = c.switches /\ e.openable = c.openable
      /\ e.files = c.files
      /\ x.path = Len(p.httpPaths) - Left(e)
  BY <1>1, <1>2, PopPathPops
<1>4. /\ d \in Client /\ d.httpPaths = e.httpPaths /\ d.requestGaps = c.requestGaps
      /\ d.timer = c.timer /\ d.drains = c.drains /\ d.switches = c.switches
      /\ d.openable = c.openable - 1 /\ d.curls = Append(c.curls, x)
      /\ d.files = c.files \cup ({x.file} \ {Stdout})
  BY <1>1, <1>3 DEF Adds
<1>5. Left(c) \in Nat /\ c.openable \in Nat /\ c.curls \in Seq(CurlType)
  BY <1>2, ClientFields
<1>6. PICK n \in Nat : n = Len(c.curls) /\ DOMAIN c.curls = 1 .. n
  BY <1>2, ClientFields
<1>7. PICK s : s = d.curls
  OBVIOUS
<1>8. /\ DOMAIN s = 1 .. n + 1 /\ Len(s) = n + 1 /\ s[n + 1] = x
      /\ \A i \in 1 .. n : s[i] = c.curls[i]
  <2>1. x \in CurlType
    BY DEF CurlOK
  <2> QED BY <1>4, <1>5, <1>6, <1>7, <2>1, AppendProperties, LenProperties
<1>9. \A i \in DOMAIN s : i \in 1 .. n \/ i = n + 1
  BY <1>8
<1>10. n + 1 \in DOMAIN s /\ 1 .. n \subseteq DOMAIN s /\ n + 1 \notin 1 .. n
  BY <1>8
<1>11. Left(d) = Left(c) - 1
  BY <1>3, <1>4 DEF Left
<1>12. QueueOK(p, d)
  BY <1>3, <1>4 DEF QueueOK, Left
<1>13. \A i \in 1 .. n : /\ CurlOK(c.curls[i]) /\ c.curls[i].path \in Nat
                         /\ c.curls[i].path <= Len(p.httpPaths) - Left(c)
  BY <1>6 DEF BatchOK, RequestsOK, CurlOK, CurlType
<1>14. /\ x.path \in Nat /\ x.path = Len(p.httpPaths) - Left(d)
       /\ \A i \in 1 .. n : c.curls[i].path < x.path
  <2>1. x.path \in Nat /\ x.path = Len(p.httpPaths) - (Left(c) - 1)
    BY <1>3 DEF CurlOK, CurlType
  <2>2. Left(c) \in Int /\ Len(p.httpPaths) \in Int
    BY <1>5
  <2>3. x.path = Len(p.httpPaths) - Left(d)
    BY <1>11, <2>1
  <2>4. \A i \in 1 .. n : c.curls[i].path < x.path
    BY <1>13, <2>1, <2>2
  <2> QED BY <2>1, <2>3, <2>4
<1>15. RequestsOK(p, away, d)
  <2>1. \A i \in DOMAIN s : CurlOK(s[i]) /\ s[i].path <= Len(p.httpPaths) - Left(d)
    <3>1. ASSUME NEW i \in 1 .. n PROVE s[i].path <= Len(p.httpPaths) - Left(d)
      BY <1>8, <1>13, <1>14
    <3>2. x.path <= Len(p.httpPaths) - Left(d)
      BY <1>14
    <3> QED BY <1>8, <1>9, <1>13, <3>1, <3>2
  <2>2. ASSUME NEW i \in DOMAIN s, NEW j \in DOMAIN s, i < j
        PROVE  s[i].path < s[j].path
    <3>1. i \in 1 .. n
      BY <1>8, <2>2
    <3>2. CASE j \in 1 .. n
      BY <1>6, <1>8, <2>2, <3>1, <3>2 DEF BatchOK, RequestsOK
    <3>3. CASE j = n + 1
      BY <1>8, <1>14, <3>1, <3>3
    <3> QED BY <1>9, <3>2, <3>3
  <2>3. ~away => Len(s) = Len(p.httpPaths) - Left(d)
    <3>1. ~away => n = Len(p.httpPaths) - Left(c)
      BY <1>6 DEF BatchOK, RequestsOK
    <3>2. Len(s) = n + 1 /\ Left(c) \in Nat
      BY <1>5, <1>8
    <3> QED BY <1>11, <3>1, <3>2
  <2> QED BY <1>7, <2>1, <2>2, <2>3 DEF RequestsOK
<1>16. FilesOK(d)
  <2>1. /\ \A i \in 1 .. n : c.curls[i].file # Stdout => c.curls[i].file \in c.files
        /\ \A i, j \in 1 .. n :
             c.curls[i].file # Stdout /\ c.curls[i].file = c.curls[j].file => i = j
    BY <1>6 DEF BatchOK, FilesOK
  <2>2. \A i \in DOMAIN s : s[i].file # Stdout => s[i].file \in d.files
    BY <1>4, <1>8, <1>9, <2>1
  <2>3. ASSUME NEW i \in DOMAIN s, NEW j \in DOMAIN s, s[i].file # Stdout, s[i].file = s[j].file
        PROVE  i = j
    BY <1>8, <1>9, <2>1, <2>3
  <2> QED BY <1>7, <2>2, <2>3 DEF FilesOK
<1>17. /\ \A i \in DOMAIN s : ~IsPending(s[i])
       /\ p.sendRequestsSequentially => \A i \in 1 .. n : s[i].txn # "open"
  BY <1>4, <1>6, <1>8, <1>9 DEF Quiet, NoneOpen, IsPending
<1>18. ModeOK(p, d)
  <2>1. \A i \in 1 .. n : /\ c.curls[i].eomFunc = "sequential" => p.sendRequestsSequentially
                          /\ c.curls[i].eomFunc = "runner" => ~p.sendRequestsSequentially
    BY <1>6 DEF BatchOK, ModeOK
  <2>2. \A i \in DOMAIN s : /\ s[i].eomFunc = "sequential" => p.sendRequestsSequentially
                            /\ s[i].eomFunc = "runner" => ~p.sendRequestsSequentially
    BY <1>8, <1>9, <2>1
  <2>3. \A i \in DOMAIN s : p.sendRequestsSequentially /\ s[i].txn = "open" => i = n + 1
    BY <1>9, <1>17
  <2> QED BY <1>7, <1>8, <1>17, <2>2, <2>3 DEF ModeOK
<1>19. Quiet(d) /\ PendingOK(d)
  BY <1>7, <1>17 DEF Quiet, PendingOK
<1>20. Grows(c, d)
  <2>1. \A i \in DOMAIN s \ 1 .. n : s[i] = x
    BY <1>8, <1>9
  <2> QED BY <1>4, <1>6, <1>7, <1>8, <1>10, <2>1 DEF Grows
<1>21. Asked(p, c, d)
  <2>1. \A i \in DOMAIN s \ 1 .. n : i = n + 1 /\ s[i] = x
    BY <1>8, <1>9
  <2>2. Len(p.httpPaths) - Left(d) = Len(p.httpPaths) - Left(c) + (n + 1 - n)
    BY <1>5, <1>11
  <2>3. Left(d) <= Left(c) /\ n + 1 = n + (Left(c) - Left(d))
    BY <1>5, <1>11
  <2> QED BY <1>6, <1>7, <1>8, <1>14, <2>1, <2>2, <2>3 DEF Asked
<1> QED BY <1>4, <1>5, <1>11, <1>12, <1>15, <1>16, <1>18, <1>19, <1>20, <1>21 DEF Sends, BatchOK

\* Either way.
LEMMA SendRequestSends ==
  ASSUME flags \in Flag, NEW away \in BOOLEAN, session = "goaway" => away,
         NEW c, BatchOK(params, away, c), Quiet(c), Left(c) > 0, c.openable > 0,
         params.sendRequestsSequentially => NoneOpen(c), NEW d \in SendRequest(c)
  PROVE  Sends(params, away, c, d)
<1>1. Len(params.httpPaths) \in Nat
  BY ParamsOfClient, LenProperties
<1>2. CASE session = "goaway"
  <2>1. away = TRUE /\ d = PopPath(c)
    BY <1>2 DEF SendRequest
  <2> QED BY <1>1, <1>2, <2>1, RefusedSends
<1>3. CASE session # "goaway"
  <2>1. c \in Client /\ QueueOK(params, c)
    BY DEF BatchOK
  <2>2. PICK x : /\ CurlOK(x) /\ x.path = Head(c.httpPaths) /\ x.eomFunc = "none" /\ x.txn = "open"
                 /\ x.file # Stdout => x.file \notin c.files
                 /\ Adds(PopPath(c), x, d)
    BY <1>3, <2>1, SendRequestAdds
  <2>3. PICK p : p = params
    OBVIOUS
  <2>4. Sends(p, away, c, d)
    BY <1>1, <1>3, <2>2, <2>3, AddedSends
  <2> QED BY <2>3, <2>4
<1> QED BY <1>2, <1>3

\* What n requests do.
SendsAll(p, away, c, n, d) ==
  /\ BatchOK(p, away, d) /\ Quiet(d) /\ Grows(c, d) /\ Asked(p, c, d)
  /\ Left(d) = Left(c) - n
  /\ d.openable >= c.openable - n
  /\ n = 0 => d = c

LEMMA GrowsOn ==
  ASSUME NEW c, NEW e, NEW d, Grows(c, e), Grows(e, d)
  PROVE  Grows(c, d)
<1>1. ASSUME NEW i \in DOMAIN d.curls \ DOMAIN c.curls
      PROVE  d.curls[i].eomFunc = "none" /\ (d.curls[i].file # Stdout => d.curls[i].file \notin c.files)
  <2>1. CASE i \in DOMAIN e.curls
    BY <2>1 DEF Grows
  <2>2. CASE i \notin DOMAIN e.curls
    BY <2>2 DEF Grows
  <2> QED BY <2>1, <2>2
<1> QED BY <1>1 DEF Grows

\* The next paths after those that were requested.
LEMMA AskedOn ==
  ASSUME NEW p, Len(p.httpPaths) \in Nat, NEW c, NEW e, NEW d,
         c \in Client, e \in Client, d \in Client,
         Grows(c, e), Asked(p, c, e), Grows(e, d), Asked(p, e, d)
  PROVE  Asked(p, c, d)
<1>1. /\ Len(c.curls) \in Nat /\ Len(e.curls) \in Nat /\ Len(d.curls) \in Nat
      /\ Left(c) \in Nat /\ Left(e) \in Nat /\ Left(d) \in Nat
      /\ DOMAIN c.curls = 1 .. Len(c.curls) /\ DOMAIN e.curls = 1 .. Len(e.curls)
      /\ DOMAIN d.curls = 1 .. Len(d.curls)
  BY ClientFields
<1>2. /\ Left(d) <= Left(c)
      /\ Len(d.curls) = IF session = "goaway" THEN Len(c.curls) ELSE Len(c.curls) + (Left(c) - Left(d))
  BY <1>1 DEF Asked
<1>3. ASSUME NEW i \in DOMAIN d.curls \ DOMAIN c.curls
      PROVE  d.curls[i].path = Len(p.httpPaths) - Left(c) + (i - Len(c.curls)) /\ d.curls[i].txn = "open"
  <2>1. CASE i \in DOMAIN e.curls
    BY <2>1 DEF Grows, Asked
  <2>2. CASE i \notin DOMAIN e.curls
    <3>1. session # "goaway"
      BY <1>1, <2>2 DEF Asked
    <3>2. Len(e.curls) = Len(c.curls) + (Left(c) - Left(e))
      BY <3>1 DEF Asked
    <3>3. d.curls[i].path = Len(p.httpPaths) - Left(e) + (i - Len(e.curls)) /\ d.curls[i].txn = "open"
      BY <2>2 DEF Asked
    <3>4. i \in Nat
      BY <1>1
    <3>5. Len(p.httpPaths) - Left(e) + (i - Len(e.curls)) = Len(p.httpPaths) - Left(c) + (i - Len(c.curls))
      BY <1>1, <3>2, <3>4, SMTT(30)
    <3> QED BY <3>3, <3>5
  <2> QED BY <2>1, <2>2
<1> QED BY <1>2, <1>3 DEF Asked

\* The function of Batch exists.
AllSent(S) == UNION {SendRequest(d) : d \in S}

LEMMA BatchExists ==
  ASSUME NEW c, NEW n \in Nat
  PROVE  \E f : /\ f = [k \in 0 .. n |-> IF k = 0 THEN {c} ELSE AllSent(f[k - 1])]
                /\ Batch(c, n) = f[n]
<1>1. PICK S : S = {m \in Nat : \E f : f = [k \in 0 .. m |-> IF k = 0 THEN {c} ELSE AllSent(f[k - 1])]}
  OBVIOUS
<1>2. 0 \in S
  <2>1. PICK f : f = [k \in 0 .. 0 |-> {c}]
    OBVIOUS
  <2>2. f = [k \in 0 .. 0 |-> IF k = 0 THEN {c} ELSE AllSent(f[k - 1])]
    BY <2>1
  <2> QED BY <1>1, <2>2
<1>3. ASSUME NEW m \in Nat, m \in S PROVE m + 1 \in S
  <2>1. PICK f : f = [k \in 0 .. m |-> IF k = 0 THEN {c} ELSE AllSent(f[k - 1])]
    BY <1>1, <1>3
  <2>2. PICK g : g = [k \in 0 .. m + 1 |-> IF k = m + 1 THEN AllSent(f[m]) ELSE f[k]]
    OBVIOUS
  <2>3. \A k \in 0 .. m : g[k] = f[k]
    BY <2>2
  <2>4. ASSUME NEW k \in 0 .. m + 1
        PROVE  g[k] = IF k = 0 THEN {c} ELSE AllSent(g[k - 1])
    <3>1. CASE k = m + 1
      BY <2>2, <2>3, <3>1
    <3>2. CASE k # m + 1
      <4>1. k \in 0 .. m /\ (k # 0 => k - 1 \in 0 .. m)
        BY <3>2
      <4>2. f[k] = IF k = 0 THEN {c} ELSE AllSent(f[k - 1])
        BY ONLY <2>1, <4>1
      <4> QED BY <2>3, <4>1, <4>2
    <3> QED BY <3>1, <3>2
  <2>5. g = [k \in 0 .. m + 1 |-> IF k = 0 THEN {c} ELSE AllSent(g[k - 1])]
    BY <2>2, <2>4
  <2> QED BY <1>1, <2>5
<1>4. n \in S
  BY <1>2, <1>3, SetInduction
<1>5. PICK f : f = CHOOSE g : g = [k \in 0 .. n |-> IF k = 0 THEN {c} ELSE AllSent(g[k - 1])]
  OBVIOUS
<1>6. f = [k \in 0 .. n |-> IF k = 0 THEN {c} ELSE AllSent(f[k - 1])]
  BY <1>1, <1>4, <1>5
<1>7. Batch(c, n) = f[n]
  BY <1>5 DEF Batch, AllSent
<1> QED BY <1>6, <1>7

\* A batch sends n requests, wherever each of them is paused.
LEMMA BatchSends ==
  ASSUME flags \in Flag, NEW away \in BOOLEAN, session = "goaway" => away,
         NEW c, BatchOK(params, away, c), Quiet(c),
         NEW n \in Nat, n <= Left(c), n <= c.openable,
         params.sendRequestsSequentially => n <= 1 /\ NoneOpen(c),
         NEW d \in Batch(c, n)
  PROVE  SendsAll(params, away, c, n, d)
<1>1. PICK f : /\ f = [k \in 0 .. n |-> IF k = 0 THEN {c} ELSE AllSent(f[k - 1])]
               /\ Batch(c, n) = f[n]
  BY BatchExists
<1>2. PICK p : p = params
  OBVIOUS
<1>3. c \in Client /\ Left(c) \in Nat /\ c.openable \in Nat
  BY ClientFields DEF BatchOK
<1>4. PICK S : S = {k \in Nat : k <= n => \A e \in f[k] : SendsAll(p, away, c, k, e)}
  OBVIOUS
<1>5. 0 \in S
  <2>1. f[0] = {c}
    BY <1>1
  <2>2. Len(c.curls) \in Nat
    BY <1>3, ClientFields
  <2>3. Grows(c, c) /\ Asked(p, c, c)
    BY <1>3, <2>2 DEF Grows, Asked
  <2>4. SendsAll(p, away, c, 0, c)
    BY <1>2, <1>3, <2>3 DEF SendsAll
  <2> QED BY <1>4, <2>1, <2>4
<1>6. ASSUME NEW k \in Nat, k \in S PROVE k + 1 \in S
  <2> SUFFICES ASSUME k + 1 <= n, NEW g \in f[k + 1]
               PROVE  SendsAll(p, away, c, k + 1, g)
    BY <1>4
  <2>1. f[k + 1] = AllSent(f[k])
    <3>1. k + 1 \in 0 .. n /\ k + 1 # 0 /\ k + 1 - 1 = k
      OBVIOUS
    <3>2. ASSUME NEW j \in 0 .. n
          PROVE  f[j] = IF j = 0 THEN {c} ELSE AllSent(f[j - 1])
      BY ONLY <1>1
    <3> QED BY <3>1, <3>2
  <2>2. PICK e \in f[k] : g \in SendRequest(e)
    BY <2>1 DEF AllSent
  <2>3. SendsAll(p, away, c, k, e)
    BY <1>4, <1>6
  <2>4. e \in Client /\ Left(e) \in Nat /\ e.openable \in Nat
    BY <2>3, ClientFields DEF SendsAll, BatchOK
  <2>5. Left(e) > 0 /\ e.openable > 0
    BY <1>3, <2>3, <2>4 DEF SendsAll
  <2>6. params.sendRequestsSequentially => NoneOpen(e)
    <3>1. params.sendRequestsSequentially => k = 0
      OBVIOUS
    <3> QED BY <2>3, <3>1 DEF SendsAll
  <2>7. Sends(p, away, e, g)
    BY <1>2, <2>2, <2>3, <2>5, <2>6, SendRequestSends DEF SendsAll
  <2>8. Grows(c, g)
    BY <2>3, <2>7, GrowsOn DEF SendsAll, Sends
  <2>9. g \in Client /\ Left(g) \in Nat /\ g.openable \in Nat
    BY <2>7, ClientFields DEF Sends, BatchOK
  <2>10. Left(g) = Left(c) - (k + 1) /\ g.openable >= c.openable - (k + 1) /\ k + 1 # 0
    BY <1>3, <2>3, <2>4, <2>7, <2>9 DEF SendsAll, Sends
  <2>11. Asked(p, c, g)
    <3>1. Len(p.httpPaths) \in Nat
      BY <1>2, ParamsOfClient, LenProperties
    <3>2. Grows(c, e) /\ Asked(p, c, e) /\ Grows(e, g) /\ Asked(p, e, g)
      BY <2>3, <2>7 DEF SendsAll, Sends
    <3> QED BY <1>3, <2>4, <2>9, <3>1, <3>2, AskedOn
  <2> QED BY <2>7, <2>8, <2>10, <2>11 DEF SendsAll, Sends
<1>7. n \in S
  BY <1>5, <1>6, SetInduction
<1> QED BY <1>1, <1>2, <1>4, <1>7
-----------------------------------------------------------------------------
(* The callbacks that send.                                                  *)

LEMMA NothingLeft ==
  ASSUME NEW c, c \in Client
  PROVE  c.httpPaths = <<>> <=> Left(c) = 0
<1>1. c.httpPaths \in Seq(Nat)
  BY ClientFields
<1> QED BY <1>1, EmptySeq DEF Left

\* The request sent last is given a callback.
LastCalls(d, f, l) ==
  /\ l \in Client
  /\ l.httpPaths = d.httpPaths /\ l.requestGaps = d.requestGaps /\ l.timer = d.timer
  /\ l.files = d.files /\ DOMAIN l.curls = DOMAIN d.curls /\ Len(l.curls) = Len(d.curls)
  /\ \A i \in DOMAIN d.curls :
       l.curls[i] = IF i = Len(d.curls) THEN [d.curls[i] EXCEPT !.eomFunc = f] ELSE d.curls[i]

LEMMA SetEOMFuncSets ==
  ASSUME NEW curls \in Seq(CurlType), NEW f \in {"sequential", "runner"},
         NEW s, s = SetEOMFunc(curls, f)
  PROVE  /\ s \in Seq(CurlType) /\ DOMAIN s = DOMAIN curls /\ Len(s) = Len(curls)
         /\ \A i \in DOMAIN curls :
              s[i] = IF i = Len(curls) THEN [curls[i] EXCEPT !.eomFunc = f] ELSE curls[i]
<1>1. PICK n \in Nat : n = Len(curls) /\ DOMAIN curls = 1 .. n
  BY LenProperties
<1>2. DOMAIN s = 1 .. n
  BY <1>1 DEF SetEOMFunc
<1>3. \A i \in 1 .. n : s[i] = IF i = n THEN [curls[i] EXCEPT !.eomFunc = f] ELSE curls[i]
  BY <1>1 DEF SetEOMFunc
<1>4. \A i \in 1 .. n : s[i] \in CurlType
  <2> SUFFICES ASSUME NEW i \in 1 .. n PROVE s[i] \in CurlType
    OBVIOUS
  <2>1. curls[i] \in CurlType
    BY <1>1, ElementOfSeq
  <2>2. PICK x : x = [curls[i] EXCEPT !.eomFunc = f]
    OBVIOUS
  <2>3. x \in CurlType
    BY <2>1, <2>2 DEF CurlType
  <2> QED BY <1>3, <2>1, <2>2, <2>3
<1>5. s = [i \in 1 .. n |-> s[i]]
  BY <1>1 DEF SetEOMFunc
<1>6. s \in Seq(CurlType)
  BY <1>4, <1>5, SeqDef
<1>7. Len(s) = n
  BY <1>2, <1>6, LenProperties
<1> QED BY <1>1, <1>2, <1>3, <1>6, <1>7

\* It is a request that goes on, but for its callback.
LEMMA CallbackSet ==
  ASSUME NEW x, CurlOK(x), NEW f \in {"sequential", "runner"}, NEW y, y = [x EXCEPT !.eomFunc = f]
  PROVE  /\ CurlOK(y) /\ y.eomFunc = f
         /\ y.path = x.path /\ y.file = x.file /\ y.txn = x.txn
<1>1. x \in CurlType
  BY DEF CurlOK
<1>2. y \in CurlType
  BY <1>1 DEF CurlType
<1>3. /\ y.path = x.path /\ y.file = x.file /\ y.eomFunc = f /\ y.txn = x.txn
      /\ y.bodies = x.bodies /\ y.reads = x.reads /\ y.egress = x.egress
      /\ y.chunks = x.chunks /\ y.output = x.output /\ y.push = x.push
  BY <1>1 DEF CurlType
<1>4. OutputOK(y)
  BY <1>3 DEF CurlOK, OutputOK
<1> QED BY <1>2, <1>3, <1>4 DEF CurlOK

LEMMA LastCallsKeeps ==
  ASSUME NEW p, NEW away, NEW d, BatchOK(p, away, d), Quiet(d), Left(d) > 0,
         NEW f \in {"sequential", "runner"},
         f = "sequential" => p.sendRequestsSequentially /\ Len(d.requestGaps) = Left(d),
         f = "runner" => ~p.sendRequestsSequentially,
         NEW l, LastCalls(d, f, l)
  PROVE  BatchOK(p, away, l)
<1>1. Left(l) = Left(d) /\ l.requestGaps = d.requestGaps /\ l.files = d.files /\ l \in Client
      /\ DOMAIN l.curls = DOMAIN d.curls /\ Len(l.curls) = Len(d.curls)
  BY DEF LastCalls, Left
<1>2. QueueOK(p, l)
  BY <1>1 DEF BatchOK, QueueOK, LastCalls
<1>3. \A i \in DOMAIN d.curls :
        /\ CurlOK(l.curls[i])
        /\ l.curls[i].path = d.curls[i].path /\ l.curls[i].file = d.curls[i].file
        /\ l.curls[i].txn = d.curls[i].txn
        /\ l.curls[i].eomFunc = IF i = Len(d.curls) THEN f ELSE d.curls[i].eomFunc
  <2> SUFFICES ASSUME NEW i \in DOMAIN d.curls
               PROVE  /\ CurlOK(l.curls[i])
                      /\ l.curls[i].path = d.curls[i].path /\ l.curls[i].file = d.curls[i].file
                      /\ l.curls[i].txn = d.curls[i].txn
                      /\ l.curls[i].eomFunc = IF i = Len(d.curls) THEN f ELSE d.curls[i].eomFunc
    OBVIOUS
  <2>1. CurlOK(d.curls[i])
    BY DEF BatchOK, RequestsOK
  <2>2. CASE i = Len(d.curls)
    <3>1. l.curls[i] = [d.curls[i] EXCEPT !.eomFunc = f]
      BY <2>2 DEF LastCalls
    <3> QED BY <2>1, <2>2, <3>1, CallbackSet
  <2>3. CASE i # Len(d.curls)
    BY <2>1, <2>3 DEF LastCalls
  <2> QED BY <2>2, <2>3
<1>4. RequestsOK(p, away, l)
  BY <1>1, <1>3 DEF BatchOK, RequestsOK
<1>5. FilesOK(l)
  BY <1>1, <1>3 DEF BatchOK, FilesOK
<1>6. ModeOK(p, l)
  BY <1>1, <1>3 DEF BatchOK, ModeOK
<1>7. \A i \in DOMAIN l.curls : IsPending(l.curls[i]) => i = Len(d.curls) /\ l.curls[i].eomFunc = f
  BY <1>1, <1>3 DEF Quiet, IsPending
<1>8. PendingOK(l)
  BY <1>1, <1>7 DEF PendingOK
<1> QED BY <1>1, <1>2, <1>4, <1>5, <1>6, <1>8 DEF BatchOK

\* A client that may send: no callback is pending, a path is left and there
\* is credit for it; the gaps are those between the paths that follow.
GapsOK(p, c) == p.sendRequestsSequentially =>
                  NoneOpen(c) /\ (Left(c) > 1 => Len(c.requestGaps) = Left(c) - 1)
Ready(p, away, c) == BatchOK(p, away, c) /\ Quiet(c) /\ Left(c) > 0 /\ c.drains = 0 /\ GapsOK(p, c)

\* What it comes to: the timer is as it was, and new responses go to new files.
NewFiles(c, d) == \A i \in DOMAIN d.curls \ DOMAIN c.curls :
                    d.curls[i].file # Stdout => d.curls[i].file \notin c.files

\* The requests of c are also those of d, as they are.
Retains(c, d) ==
  /\ DOMAIN c.curls \subseteq DOMAIN d.curls
  /\ \A i \in DOMAIN c.curls :
       d.curls[i].path = c.curls[i].path /\ d.curls[i].txn = c.curls[i].txn

\* Nothing was sent; or the next paths were, one if one request follows the
\* other.
Waits(c, d) == /\ Left(d) = Left(c) /\ d.drains = c.drains
               /\ Retains(c, d) /\ Len(d.curls) = Len(c.curls)
Asks(p, c, d) == /\ Left(d) < Left(c)
                 /\ p.sendRequestsSequentially => Left(d) = Left(c) - 1 /\ NoneOpen(c)
                 /\ Retains(c, d) /\ Asked(p, c, d)
Goes(p, c, d) == \/ Waits(c, d)
                 \/ Asks(p, c, d) /\ d.drains = IF Left(d) = 0 THEN 1 ELSE 0

\* Timers and callbacks make no difference.
LEMMA GoesFrom ==
  ASSUME NEW p, NEW b, NEW c, NEW d, Goes(p, c, d),
         b.httpPaths = c.httpPaths, b.curls = c.curls, b.drains = c.drains
  PROVE  Goes(p, b, d)
<1>1. Left(b) = Left(c) /\ (NoneOpen(c) => NoneOpen(b))
  BY DEF Left, NoneOpen
<1>2. Waits(c, d) => Waits(b, d)
  BY <1>1 DEF Waits, Retains
<1>3. Asks(p, c, d) => Asks(p, b, d)
  BY <1>1 DEF Asks, Retains, Asked
<1> QED BY <1>2, <1>3 DEF Goes

LEMMA GoesTo ==
  ASSUME NEW p, NEW c, NEW d, NEW e,
         e.httpPaths = d.httpPaths, e.drains = d.drains, DOMAIN e.curls = DOMAIN d.curls,
         Len(e.curls) = Len(d.curls),
         \A i \in DOMAIN d.curls : e.curls[i].path = d.curls[i].path /\ e.curls[i].txn = d.curls[i].txn
  PROVE  (Goes(p, c, d) => Goes(p, c, e)) /\ (Asks(p, c, d) => Asks(p, c, e))
<1>1. Left(e) = Left(d)
  BY DEF Left
<1>2. Waits(c, d) => Waits(c, e)
  BY <1>1 DEF Waits, Retains
<1>3. Asks(p, c, d) => Asks(p, c, e)
  BY <1>1 DEF Asks, Retains, Asked
<1> QED BY <1>1, <1>2, <1>3 DEF Goes

Sent(p, away, c, d) ==
  /\ BatchOK(p, away, d) /\ DrainOK(p, d)
  /\ p.sendRequestsSequentially \/ Quiet(d)
  /\ d.timer = c.timer
  /\ NewFiles(c, d)

LEMMA SendRequestsSends ==
  ASSUME flags \in Flag, NEW away \in BOOLEAN, session = "goaway" => away,
         NEW c, Ready(params, away, c), c.openable > 0,
         NEW closeSession \in BOOLEAN, closeSession \/ params.migrateClient,
         NEW d \in sendRequests(c, closeSession, c.openable)
  PROVE  /\ Sent(params, away, c, d) /\ Asks(params, c, d)
         /\ d.drains = IF closeSession /\ Left(d) = 0 THEN 1 ELSE 0
<1>1. PICK p : p = params
  OBVIOUS
<1>2. c \in Client /\ Left(c) \in Nat /\ c.openable \in Nat /\ Left(c) > 0 /\ c.drains = 0
  BY ClientFields DEF Ready, BatchOK
<1>3. PICK n : n = IF p.sendRequestsSequentially THEN 1 ELSE Lesser(c.openable, Len(c.httpPaths))
  OBVIOUS
<1>4. n \in Nat /\ n >= 1 /\ n <= Left(c) /\ n <= c.openable /\ (p.sendRequestsSequentially => n = 1)
  BY <1>2, <1>3 DEF Lesser, Left
<1>5. PICK e \in Batch(c, n) :
        d = [e EXCEPT !.drains = IF Drains(closeSession, e.httpPaths) THEN e.drains + 1 ELSE e.drains,
                      !.curls = IF p.sendRequestsSequentially /\ e.httpPaths # <<>>
                                THEN SetEOMFunc(e.curls, "sequential") ELSE e.curls]
  BY <1>1, <1>3 DEF sendRequests, Dispatch
<1>6. SendsAll(p, away, c, n, e)
  BY <1>1, <1>4, BatchSends DEF Ready, GapsOK
<1>7. e \in Client /\ Left(e) \in Nat /\ e.curls \in Seq(CurlType) /\ (e.httpPaths = <<>> <=> Left(e) = 0)
  BY <1>6, ClientFields, NothingLeft DEF SendsAll, BatchOK
<1>8. /\ e.drains = 0 /\ e.timer = c.timer /\ e.requestGaps = c.requestGaps
      /\ Left(e) = Left(c) - n /\ BatchOK(p, away, e) /\ Quiet(e) /\ Grows(c, e) /\ Asked(p, c, e)
  BY <1>2, <1>6 DEF SendsAll, Grows
<1>9. PICK x, s : /\ x = IF closeSession /\ Left(e) = 0 THEN 1 ELSE 0
                  /\ s = IF p.sendRequestsSequentially /\ Left(e) # 0
                         THEN SetEOMFunc(e.curls, "sequential") ELSE e.curls
  OBVIOUS
<1>10. d = [e EXCEPT !.drains = x, !.curls = s]
  <2>1. (IF Drains(closeSession, e.httpPaths) THEN e.drains + 1 ELSE e.drains) = x
    BY <1>7, <1>8, <1>9 DEF Drains
  <2>2. (IF p.sendRequestsSequentially /\ e.httpPaths # <<>>
         THEN SetEOMFunc(e.curls, "sequential") ELSE e.curls) = s
    BY <1>7, <1>9
  <2> QED BY <1>5, <2>1, <2>2, Zenon
<1>11. x \in Nat /\ s \in Seq(CurlType)
  BY <1>7, <1>9, SetEOMFuncSets
<1>12. /\ d \in Client /\ d.httpPaths = e.httpPaths /\ d.requestGaps = c.requestGaps
       /\ d.timer = c.timer /\ d.drains = x /\ d.curls = s /\ d.files = e.files
  BY <1>7, <1>8, <1>10, <1>11 DEF Client
<1>13. Left(d) = Left(e)
  BY <1>12 DEF Left
<1>14. DrainOK(p, d) /\ d.drains = IF closeSession /\ Left(d) = 0 THEN 1 ELSE 0
  BY <1>1, <1>9, <1>12, <1>13 DEF DrainOK
<1>15. Asks(p, c, e)
  <2>1. Left(e) < Left(c) /\ (p.sendRequestsSequentially => Left(e) = Left(c) - 1)
    BY <1>2, <1>4, <1>8
  <2>2. p.sendRequestsSequentially => NoneOpen(c)
    BY <1>1 DEF Ready, GapsOK
  <2>3. Retains(c, e)
    BY <1>8 DEF Grows, Retains
  <2> QED BY <1>8, <2>1, <2>2, <2>3 DEF Asks
<1>16. ASSUME DOMAIN s = DOMAIN e.curls, Len(s) = Len(e.curls),
              \A i \in DOMAIN e.curls : s[i].path = e.curls[i].path /\ s[i].txn = e.curls[i].txn
       PROVE  Asks(p, c, d)
  <2>1. PICK b : b = [e EXCEPT !.drains = x]
    OBVIOUS
  <2>2. b.httpPaths = e.httpPaths /\ b.curls = e.curls /\ b.drains = x
    BY <1>7, <2>1 DEF Client
  <2>3. Asks(p, c, b)
    BY <1>15, <2>2 DEF Asks, Retains, Asked, Left
  <2>4. /\ d.httpPaths = b.httpPaths /\ d.drains = b.drains /\ DOMAIN d.curls = DOMAIN b.curls
        /\ Len(d.curls) = Len(b.curls)
        /\ \A i \in DOMAIN b.curls : d.curls[i].path = b.curls[i].path /\ d.curls[i].txn = b.curls[i].txn
    BY <1>12, <1>16, <2>2
  <2> QED BY ONLY <2>3, <2>4, GoesTo
<1>17. CASE p.sendRequestsSequentially /\ Left(e) # 0
  <2>1. LastCalls(e, "sequential", d)
    BY <1>7, <1>8, <1>9, <1>12, <1>17, SetEOMFuncSets DEF LastCalls
  <2>2. Len(e.requestGaps) = Left(e)
    BY <1>1, <1>2, <1>4, <1>7, <1>8, <1>17 DEF Ready, GapsOK
  <2>3. BatchOK(p, away, d)
    BY <1>7, <1>8, <1>17, <2>1, <2>2, LastCallsKeeps
  <2>4. ASSUME NEW i \in DOMAIN d.curls
        PROVE  /\ i \in DOMAIN e.curls /\ d.curls[i].file = e.curls[i].file
               /\ d.curls[i].path = e.curls[i].path /\ d.curls[i].txn = e.curls[i].txn
    <3>1. i \in DOMAIN e.curls /\ CurlOK(e.curls[i])
      BY <1>8, <2>1, <2>4 DEF LastCalls, BatchOK, RequestsOK
    <3>2. d.curls[i] = e.curls[i] \/ d.curls[i] = [e.curls[i] EXCEPT !.eomFunc = "sequential"]
      BY <2>1, <3>1 DEF LastCalls
    <3> QED BY <3>1, <3>2, CallbackSet
  <2>5. NewFiles(c, d)
    BY <1>8, <2>4 DEF NewFiles, Grows
  <2>6. Asks(p, c, d)
    BY <1>12, <1>16, <2>1, <2>4 DEF LastCalls
  <2> QED BY <1>1, <1>12, <1>14, <1>17, <2>3, <2>5, <2>6 DEF Sent
<1>18. CASE ~(p.sendRequestsSequentially /\ Left(e) # 0)
  <2>1. d.curls = e.curls
    BY <1>9, <1>12, <1>18
  <2>2. QueueOK(p, d) /\ RequestsOK(p, away, d) /\ FilesOK(d) /\ ModeOK(p, d) /\ PendingOK(d) /\ Quiet(d)
    BY <1>8, <1>12, <1>13, <2>1 DEF BatchOK, QueueOK, RequestsOK, FilesOK, ModeOK, PendingOK, Quiet
  <2>3. NewFiles(c, d)
    BY <1>8, <2>1 DEF NewFiles, Grows
  <2>4. Asks(p, c, d)
    BY <1>12, <1>16, <2>1
  <2> QED BY <1>1, <1>12, <1>14, <2>2, <2>3, <2>4 DEF Sent, BatchOK
<1> QED BY <1>17, <1>18

\* Without credit nothing is sent.
LEMMA TryMoreSends ==
  ASSUME flags \in Flag, NEW away \in BOOLEAN, session = "goaway" => away,
         NEW c, Ready(params, away, c), NEW d \in TryMore(c)
  PROVE  Sent(params, away, c, d) /\ Goes(params, c, d)
<1>1. c.openable \in Nat /\ Left(c) \in Nat
  BY ClientFields DEF Ready, BatchOK
<1>2. CASE c.openable > 0
  <2>1. d \in sendRequests(c, TRUE, c.openable)
    BY <1>2 DEF TryMore
  <2> QED BY <1>2, <2>1, SendRequestsSends DEF Goes
<1>3. CASE ~(c.openable > 0)
  <2>1. d = c
    BY <1>3 DEF TryMore
  <2>2. DrainOK(params, c)
    BY <1>1 DEF Ready, DrainOK
  <2>3. Goes(params, c, c)
    BY DEF Goes, Waits, Retains
  <2> QED BY <2>1, <2>2, <2>3 DEF Sent, Ready, NewFiles
<1> QED BY <1>2, <1>3

\* What the client is after a callback.
Follows(p, away, c, d) == ClientOK(p, away, d) /\ NewFiles(c, d)

\* The timer is set, or the gaps are shortened, while no callback is pending.
LEMMA QuietKeeps ==
  ASSUME NEW p, NEW away, NEW c, BatchOK(p, away, c), Quiet(c),
         NEW d, d \in Client, d.httpPaths = c.httpPaths, d.curls = c.curls, d.files = c.files
  PROVE  BatchOK(p, away, d) /\ Quiet(d) /\ Left(d) = Left(c)
<1>1. Left(d) = Left(c) /\ Quiet(d)
  BY DEF Left, Quiet
<1>2. QueueOK(p, d) /\ RequestsOK(p, away, d) /\ FilesOK(d) /\ ModeOK(p, d) /\ PendingOK(d)
  BY <1>1 DEF BatchOK, QueueOK, RequestsOK, FilesOK, ModeOK, PendingOK, Quiet
<1> QED BY <1>1, <1>2 DEF BatchOK

\* The callback of a gap that is over.
LEMMA GapIsOver ==
  ASSUME flags \in Flag, NEW away \in BOOLEAN, session = "goaway" => away,
         NEW c, Ready(params, away, c), c.timer = "none", NEW d \in TryMore(c)
  PROVE  Follows(params, away, c, d) /\ Goes(params, c, d)
<1>1. Sent(params, away, c, d) /\ Goes(params, c, d)
  BY TryMoreSends
<1>2. TimerOK(params, d)
  BY <1>1 DEF Sent, TimerOK
<1> QED BY <1>1, <1>2 DEF Sent, Follows, ClientOK

LEMMA RunnerFollows ==
  ASSUME flags \in Flag, NEW away \in BOOLEAN, session = "goaway" => away,
         NEW c, Ready(params, away, c), ~params.sendRequestsSequentially,
         NEW e \in selfSchedulingRequestRunner(c)
  PROVE  Follows(params, away, c, e) /\ Goes(params, c, e)
<1>1. PICK p : p = params
  OBVIOUS
<1>2. PICK d \in TryMore(c) : e = [d EXCEPT !.timer = IF d.httpPaths # <<>> THEN "rtt" ELSE "none"]
  BY DEF selfSchedulingRequestRunner
<1>3. Sent(p, away, c, d) /\ Goes(p, c, d)
  BY <1>1, TryMoreSends
<1>4. d \in Client /\ Left(d) \in Nat /\ (d.httpPaths = <<>> <=> Left(d) = 0)
  BY <1>3, ClientFields, NothingLeft DEF Sent, BatchOK
<1>5. PICK t : t = IF Left(d) # 0 THEN "rtt" ELSE "none"
  OBVIOUS
<1>6. e = [d EXCEPT !.timer = t]
  BY <1>2, <1>4, <1>5
<1>7. t \in {"none", "gap", "rtt"}
  BY <1>5
<1>8. /\ e \in Client /\ e.httpPaths = d.httpPaths /\ e.curls = d.curls /\ e.files = d.files
      /\ e.drains = d.drains /\ e.timer = t
  BY <1>4, <1>6, <1>7 DEF Client
<1>9. BatchOK(p, away, e) /\ Quiet(e) /\ Left(e) = Left(d)
  BY <1>1, <1>3, <1>8, QuietKeeps DEF Sent
<1>10. DrainOK(p, e) /\ TimerOK(p, e) /\ NewFiles(c, e)
  BY <1>1, <1>3, <1>4, <1>5, <1>8, <1>9 DEF Sent, DrainOK, TimerOK, NewFiles
<1>11. Goes(p, c, e)
  BY <1>3, <1>8, GoesTo
<1> QED BY <1>1, <1>9, <1>10, <1>11 DEF Follows, ClientOK

\* The callback of a request that ended, before its gap.
LEMMA DelayFollows ==
  ASSUME flags \in Flag, NEW away \in BOOLEAN, session = "goaway" => away,
         NEW c, BatchOK(params, away, c), Quiet(c), NoneOpen(c), c.timer = "none",
         params.sendRequestsSequentially, c.drains = 0,
         Left(c) > 0, Len(c.requestGaps) = Left(c),
         NEW e \in callSendRequestsAfterADelay(c)
  PROVE  Follows(params, away, c, e) /\ Goes(params, c, e)
<1>1. PICK p : p = params
  OBVIOUS
<1>2. c \in Client /\ Left(c) \in Nat /\ c.requestGaps \in Seq(Nat) /\ c.switches \in Nat
  BY ClientFields DEF BatchOK
<1>3. PICK g, n : g = Tail(c.requestGaps) /\ n = IF p.migrateClient THEN c.switches + 1 ELSE c.switches
  OBVIOUS
<1>4. g \in Seq(Nat) /\ Len(g) = Left(c) - 1 /\ n \in Nat
  <2>1. c.requestGaps # <<>>
    BY <1>2, EmptySeq
  <2> QED BY <1>2, <1>3, <2>1, HeadTailProperties
<1>5. PICK d : d = [c EXCEPT !.switches = n, !.requestGaps = g]
  OBVIOUS
<1>6. /\ d \in Client /\ d.httpPaths = c.httpPaths /\ d.curls = c.curls /\ d.files = c.files
      /\ d.drains = 0 /\ d.timer = "none" /\ d.requestGaps = g
  BY <1>2, <1>4, <1>5 DEF Client
<1>7. BatchOK(p, away, d) /\ Quiet(d) /\ Left(d) = Left(c) /\ NoneOpen(d)
  BY <1>1, <1>6, QuietKeeps DEF NoneOpen
<1>8. e \in IF Head(c.requestGaps) > 0 THEN {[d EXCEPT !.timer = "gap"]} ELSE TryMore(d)
  BY <1>1, <1>3, <1>5 DEF callSendRequestsAfterADelay
<1>9. CASE e = [d EXCEPT !.timer = "gap"]
  <2>1. /\ e \in Client /\ e.httpPaths = d.httpPaths /\ e.curls = d.curls /\ e.files = d.files
        /\ e.drains = 0 /\ e.timer = "gap" /\ e.requestGaps = g
    BY <1>6, <1>9 DEF Client
  <2>2. BatchOK(p, away, e) /\ Quiet(e) /\ Left(e) = Left(c) /\ NoneOpen(e)
    BY <1>6, <1>7, <2>1, QuietKeeps DEF NoneOpen
  <2>3. DrainOK(p, e) /\ TimerOK(p, e) /\ NewFiles(c, e)
    BY <1>1, <1>2, <1>4, <1>6, <2>1, <2>2 DEF DrainOK, TimerOK, NewFiles
  <2>4. Goes(p, c, e)
    BY <1>6, <2>1, <2>2 DEF Goes, Waits, Retains
  <2> QED BY <1>1, <2>2, <2>3, <2>4 DEF Follows, ClientOK
<1>10. CASE e \in TryMore(d)
  <2>1. Ready(p, away, d)
    BY <1>4, <1>6, <1>7 DEF Ready, GapsOK
  <2>2. Follows(p, away, d, e) /\ Goes(p, d, e)
    BY <1>1, <1>6, <1>10, <2>1, GapIsOver
  <2>3. Goes(p, c, e)
    BY <1>6, <2>2, GoesFrom
  <2> QED BY <1>1, <1>6, <2>2, <2>3 DEF Follows, NewFiles
<1> QED BY <1>8, <1>9, <1>10

\* A request with a callback ends: then none is pending.
EndedAt(c, i) == [c EXCEPT !.curls[i].txn = "ended"]

LEMMA EndedIsQuiet ==
  ASSUME NEW p, NEW away, NEW c, ClientOK(p, away, c), NEW i \in DOMAIN c.curls,
         IsPending(c.curls[i]), NEW l, l = EndedAt(c, i)
  PROVE  /\ BatchOK(p, away, l) /\ Quiet(l) /\ l.timer = "none" /\ l.drains = 0
         /\ p.sendRequestsSequentially => NoneOpen(l)
         /\ Left(l) > 0
         /\ c.curls[i].eomFunc = "sequential" =>
              p.sendRequestsSequentially /\ Len(l.requestGaps) = Left(l)
         /\ c.curls[i].eomFunc = "runner" => ~p.sendRequestsSequentially
         /\ DOMAIN l.curls = DOMAIN c.curls /\ l.files = c.files /\ Continues(c, l)
<1>1. c \in Client /\ c.drains \in Nat /\ \A j \in DOMAIN c.curls : CurlOK(c.curls[j])
  BY ClientFields DEF ClientOK, BatchOK, RequestsOK
<1>2. PICK x : x = [c.curls[i] EXCEPT !.txn = "ended"]
  OBVIOUS
<1>3. GoesOn(c.curls[i], x) /\ x.txn = "ended"
  BY <1>1, <1>2, TransactionGoesOn DEF CurlOK, CurlType
<1>4. l = [c EXCEPT !.curls[i] = x]
  BY <1>2 DEF EndedAt
<1>5. Continues(c, l)
  BY <1>1, <1>3, <1>4, OneContinues
<1>6. l.curls[i] = x
  BY <1>1, <1>4 DEF Client
<1>7. BatchOK(p, away, l)
  BY <1>5, ContinuesKeeps DEF ClientOK
<1>8. /\ Left(l) = Left(c) /\ l.requestGaps = c.requestGaps /\ l.timer = c.timer
      /\ l.drains = c.drains /\ l.files = c.files /\ DOMAIN l.curls = DOMAIN c.curls
      /\ Len(l.curls) = Len(c.curls)
  BY <1>5 DEF Continues, Left
<1>9. \A j \in DOMAIN c.curls : /\ l.curls[j].txn = "open" => c.curls[j].txn = "open" /\ j # i
                                /\ l.curls[j].eomFunc = c.curls[j].eomFunc
  BY <1>3, <1>5, <1>6 DEF Continues, GoesOn
<1>10. Quiet(l)
  BY <1>8, <1>9 DEF Quiet, IsPending, ClientOK, BatchOK, PendingOK
<1>11. l.timer = "none"
  BY <1>8 DEF ClientOK, TimerOK, Quiet
<1>12. Left(c) > 0 /\ (c.curls[i].eomFunc = "sequential" => Len(c.requestGaps) = Left(c))
  BY DEF ClientOK, BatchOK, PendingOK
<1>13. l.drains = 0
  <2>1. Left(c) \in Nat
    BY <1>1, ClientFields
  <2> QED BY <1>1, <1>8, <1>12, <2>1 DEF ClientOK, DrainOK
<1>14. p.sendRequestsSequentially => NoneOpen(l)
  BY <1>8, <1>9 DEF NoneOpen, ClientOK, BatchOK, ModeOK, IsPending
<1>15. /\ c.curls[i].eomFunc = "sequential" => p.sendRequestsSequentially
       /\ c.curls[i].eomFunc = "runner" => ~p.sendRequestsSequentially
  BY DEF ClientOK, BatchOK, ModeOK
<1> QED BY <1>5, <1>7, <1>8, <1>10, <1>11, <1>12, <1>13, <1>14, <1>15

\* One step of a client that is connected: requests go on, and then more are
\* sent or not.
StepOK(p, away, c, d) == /\ Follows(p, away, c, d) /\ (c.drains > 0 => d.drains > 0)
                         /\ \E l : Continues(c, l) /\ Goes(p, l, d)

LEMMA ContinuesSteps ==
  ASSUME NEW p, NEW away, NEW c, ClientOK(p, away, c), NEW d, Continues(c, d)
  PROVE  StepOK(p, away, c, d)
<1>1. ClientOK(p, away, d)
  BY ContinuesKeeps DEF ClientOK
<1>2. NewFiles(c, d) /\ d.drains = c.drains
  BY DEF Continues, NewFiles
<1>3. Goes(p, d, d)
  BY DEF Goes, Waits, Retains
<1> QED BY <1>1, <1>2, <1>3 DEF StepOK, Follows

\* The i-th request goes on.
LEMMA RequestSteps ==
  ASSUME NEW p, NEW away, NEW c, ClientOK(p, away, c), NEW i \in DOMAIN c.curls,
         NEW x, CurlOK(c.curls[i]) => GoesOn(c.curls[i], x)
  PROVE  StepOK(p, away, c, [c EXCEPT !.curls[i] = x])
<1>1. c \in Client /\ \A j \in DOMAIN c.curls : CurlOK(c.curls[j])
  BY DEF ClientOK, BatchOK, RequestsOK
<1>2. Continues(c, [c EXCEPT !.curls[i] = x])
  BY <1>1, OneContinues
<1>3. PICK d : d = [c EXCEPT !.curls[i] = x]
  OBVIOUS
<1> QED BY <1>2, <1>3, ContinuesSteps

\* Only the credit changes; or the connection is lost.
LEMMA CreditSteps ==
  ASSUME NEW p, NEW away, NEW c, ClientOK(p, away, c), NEW n \in Nat
  PROVE  StepOK(p, away, c, [c EXCEPT !.openable = n])
<1>1. c \in Client /\ \A j \in DOMAIN c.curls : CurlOK(c.curls[j])
  BY DEF ClientOK, BatchOK, RequestsOK
<1>2. PICK d : d = [c EXCEPT !.openable = n]
  OBVIOUS
<1>3. /\ d \in Client /\ d.httpPaths = c.httpPaths /\ d.requestGaps = c.requestGaps
      /\ d.timer = c.timer /\ d.drains = c.drains /\ d.files = c.files /\ d.curls = c.curls
  BY <1>1, <1>2 DEF Client
<1>4. Continues(c, d)
  BY <1>1, <1>3 DEF Continues, GoesOn
<1> QED BY <1>2, <1>4, ContinuesSteps

LEMMA LossSteps ==
  ASSUME NEW p, NEW away, NEW c, ClientOK(p, away, c), NEW n \in {0, c.openable},
         NEW d, d = [c EXCEPT !.openable = n, !.curls = [i \in DOMAIN @ |-> Lose(@[i])]]
  PROVE  StepOK(p, away, c, d)
<1>1. c \in Client /\ n \in Nat /\ \A j \in DOMAIN c.curls : CurlOK(c.curls[j])
  BY ClientFields DEF ClientOK, BatchOK, RequestsOK
<1>2. PICK m \in Nat : m = Len(c.curls) /\ DOMAIN c.curls = 1 .. m
  BY <1>1, ClientFields
<1>3. PICK s : s = [i \in 1 .. m |-> Lose(c.curls[i])]
  OBVIOUS
<1>4. \A i \in 1 .. m : GoesOn(c.curls[i], s[i])
  BY <1>1, <1>2, <1>3, FailureGoesOn
<1>5. \A i \in 1 .. m : s[i] \in CurlType
  BY <1>4 DEF GoesOn, CurlOK
<1>6. s \in Seq(CurlType) /\ Len(s) = m /\ DOMAIN s = 1 .. m
  <2>1. s = [i \in 1 .. m |-> s[i]]
    BY <1>3
  <2>2. s \in Seq(CurlType)
    BY <1>5, <2>1, SeqDef
  <2> QED BY <1>3, <2>2, LenProperties
<1>7. d = [c EXCEPT !.openable = n, !.curls = s]
  BY <1>1, <1>2, <1>3 DEF Client
<1>8. /\ d \in Client /\ d.httpPaths = c.httpPaths /\ d.requestGaps = c.requestGaps
      /\ d.timer = c.timer /\ d.drains = c.drains /\ d.files = c.files /\ d.curls = s
  BY <1>1, <1>6, <1>7 DEF Client
<1>9. Continues(c, d)
  BY <1>2, <1>4, <1>6, <1>8 DEF Continues
<1> QED BY <1>9, ContinuesSteps

\* The end of a response.
LEMMA EOMSteps ==
  ASSUME flags \in Flag, NEW away \in BOOLEAN, session = "goaway" => away,
         ClientOK(params, away, client), NEW i \in DOMAIN client.curls,
         client.curls[i].txn = "open",
         NEW d \in CASE client.curls[i].eomFunc = "none" -> {Ended(i)}
                     [] client.curls[i].eomFunc = "sequential" -> callSendRequestsAfterADelay(Ended(i))
                     [] client.curls[i].eomFunc = "runner" -> selfSchedulingRequestRunner(Ended(i))
  PROVE  StepOK(params, away, client, d)
<1>1. PICK p, c, l : p = params /\ c = client /\ l = Ended(i)
  OBVIOUS
<1>2. l = [c EXCEPT !.curls[i].txn = "ended"] /\ c \in Client /\ ClientOK(p, away, c)
  BY <1>1 DEF Ended, ClientOK, BatchOK
<1>3. CurlOK(c.curls[i])
  BY <1>1, <1>2 DEF ClientOK, BatchOK, RequestsOK
<1>4. c.curls[i].eomFunc \in {"none", "sequential", "runner"}
  BY <1>3 DEF CurlOK, CurlType
<1>5. CASE c.curls[i].eomFunc = "none"
  <2>1. d = l
    BY <1>1, <1>5
  <2>2. PICK x : x = [c.curls[i] EXCEPT !.txn = "ended"]
    OBVIOUS
  <2>3. l = [c EXCEPT !.curls[i] = x]
    BY <1>2, <2>2
  <2>4. GoesOn(c.curls[i], x)
    BY <1>3, <2>2, TransactionGoesOn
  <2>5. StepOK(p, away, c, [c EXCEPT !.curls[i] = x])
    BY <1>1, <1>2, <2>4, RequestSteps
  <2> QED BY <1>1, <2>1, <2>3, <2>5
<1>6. CASE c.curls[i].eomFunc # "none"
  <2>1. IsPending(c.curls[i])
    BY <1>1, <1>6 DEF IsPending
  <2>2. /\ BatchOK(p, away, l) /\ Quiet(l) /\ l.timer = "none" /\ l.drains = 0
        /\ p.sendRequestsSequentially => NoneOpen(l)
        /\ Left(l) > 0
        /\ c.curls[i].eomFunc = "sequential" =>
             p.sendRequestsSequentially /\ Len(l.requestGaps) = Left(l)
        /\ c.curls[i].eomFunc = "runner" => ~p.sendRequestsSequentially
        /\ DOMAIN l.curls = DOMAIN c.curls /\ l.files = c.files /\ Continues(c, l)
    <3>1. i \in DOMAIN c.curls
      BY <1>1
    <3>2. l = EndedAt(c, i) /\ ClientOK(p, away, c)
      BY <1>2 DEF EndedAt
    <3> QED BY ONLY <2>1, <3>1, <3>2, EndedIsQuiet
  <2>3. c.drains = 0
    <3>1. l.drains = c.drains
      BY <1>2 DEF Client
    <3> QED BY <2>2, <3>1
  <2>4. CASE c.curls[i].eomFunc = "sequential"
    <3>1. d \in callSendRequestsAfterADelay(l)
      BY <1>1, <2>4
    <3>2. Follows(p, away, l, d) /\ Goes(p, l, d)
      BY <1>1, <2>2, <2>4, <3>1, DelayFollows
    <3> QED BY <1>1, <2>2, <2>3, <3>2 DEF StepOK, Follows, NewFiles
  <2>5. CASE c.curls[i].eomFunc = "runner"
    <3>1. d \in selfSchedulingRequestRunner(l)
      BY <1>1, <2>5
    <3>2. Ready(p, away, l)
      BY <2>2, <2>5 DEF Ready, GapsOK
    <3>3. Follows(p, away, l, d) /\ Goes(p, l, d)
      BY <1>1, <2>2, <2>5, <3>1, <3>2, RunnerFollows
    <3> QED BY <1>1, <2>2, <2>3, <3>3 DEF StepOK, Follows, NewFiles
  <2> QED BY <1>4, <1>6, <2>4, <2>5
<1> QED BY <1>5, <1>6

\* The timer.
LEMMA FiredSteps ==
  ASSUME flags \in Flag, NEW away \in BOOLEAN, session = "goaway" => away,
         ClientOK(params, away, client), client.timer # "none", NEW d \in Fired
  PROVE  StepOK(params, away, client, d)
<1>1. PICK p, c : p = params /\ c = client
  OBVIOUS
<1>2. c \in Client /\ BatchOK(p, away, c) /\ Quiet(c) /\ Left(c) > 0 /\ Left(c) \in Nat
  BY <1>1, ClientFields DEF ClientOK, BatchOK, TimerOK
<1>3. c.drains = 0
  BY <1>1, <1>2, ClientFields DEF ClientOK, DrainOK
<1>4. c.timer \in {"gap", "rtt"}
  BY <1>1, <1>2, ClientFields
<1>5. Continues(c, c)
  BY <1>2 DEF BatchOK, RequestsOK, Continues, GoesOn
<1>6. CASE c.timer = "gap"
  <2>1. PICK l : l = [c EXCEPT !.timer = "none"]
    OBVIOUS
  <2>2. /\ l \in Client /\ l.httpPaths = c.httpPaths /\ l.curls = c.curls /\ l.files = c.files
        /\ l.drains = 0 /\ l.timer = "none" /\ l.requestGaps = c.requestGaps
    BY <1>2, <1>3, <2>1 DEF Client
  <2>3. BatchOK(p, away, l) /\ Quiet(l) /\ Left(l) = Left(c)
    BY <1>2, <2>2, QuietKeeps
  <2>4. NoneOpen(l) /\ Len(l.requestGaps) = Left(l) - 1
    BY <1>1, <1>6, <2>2, <2>3 DEF ClientOK, TimerOK, NoneOpen
  <2>5. Ready(p, away, l)
    BY <1>2, <2>2, <2>3, <2>4 DEF Ready, GapsOK
  <2>6. d \in TryMore(l)
    BY <1>1, <1>6, <2>1 DEF Fired
  <2>7. Follows(p, away, l, d) /\ Goes(p, l, d)
    BY <1>1, <2>2, <2>5, <2>6, GapIsOver
  <2>8. Goes(p, c, d)
    BY <1>3, <2>2, <2>7, GoesFrom
  <2> QED BY <1>1, <1>3, <1>5, <2>2, <2>7, <2>8 DEF StepOK, Follows, NewFiles
<1>7. CASE c.timer = "rtt"
  <2>1. ~p.sendRequestsSequentially
    BY <1>1, <1>7 DEF ClientOK, TimerOK
  <2>2. Ready(p, away, c)
    BY <1>2, <1>3, <2>1 DEF Ready, GapsOK
  <2>3. d \in selfSchedulingRequestRunner(c)
    BY <1>1, <1>7 DEF Fired
  <2>4. Follows(p, away, c, d) /\ Goes(p, c, d)
    BY <1>1, <2>1, <2>2, <2>3, RunnerFollows
  <2> QED BY <1>1, <1>3, <1>5, <2>4 DEF StepOK
<1> QED BY <1>4, <1>6, <1>7
-----------------------------------------------------------------------------
(* The connection succeeds.                                                  *)

Fresh(c) == /\ c \in Client
            /\ c.httpPaths = <<>> /\ c.requestGaps = <<>> /\ c.curls = <<>>
            /\ c.timer = "none" /\ c.drains = 0

\* The gaps are numbers, and as many as connectSuccess wants.
LEMMA GapsAreNumbers ==
  ASSUME flags \in Flag, GapsFit
  PROVE  /\ Gaps \in Seq(Nat)
         /\ Len(params.httpPaths) > 1 => Len(Gaps) = Len(params.httpPaths) - 1
<1>1. PICK g : g = params.requestGaps
  OBVIOUS
<1>2. PICK n \in Nat : n = Len(params.httpPaths) /\ n >= 1
  BY ParamsOfClient, LenProperties
<1>3. g \in Seq(Nat \cup {NotANumber}) /\ NotANumber \notin Range(g)
  BY <1>1, ParamsOfClient DEF GapsFit
<1>4. PICK m \in Nat : m = Len(g) /\ DOMAIN g = 1 .. m
  BY <1>3, LenProperties
<1>5. \A i \in 1 .. m : g[i] \in Nat
  <2>1. \A i \in DOMAIN g : g[i] # NotANumber
    BY <1>3 DEF Range
  <2>2. \A i \in DOMAIN g : g[i] \in Nat \cup {NotANumber}
    BY <1>3, <1>4, ElementOfSeq
  <2> QED BY <1>4, <2>1, <2>2
<1>6. g = [i \in 1 .. m |-> g[i]]
  <2>1. g \in [1 .. m -> Nat \cup {NotANumber}]
    BY <1>3, <1>4, LenProperties
  <2> QED BY <2>1
<1>7. g \in Seq(Nat)
  BY <1>5, <1>6, SeqDef
<1>8. Gaps = IF m = 1 /\ n > 2 THEN [i \in 1 .. n - 1 |-> g[1]] ELSE g
  BY <1>1, <1>2, <1>4 DEF Gaps
<1>9. Gaps \in Seq(Nat)
  <2>1. CASE m = 1 /\ n > 2
    <3>1. PICK h : h = [i \in 1 .. n - 1 |-> g[1]]
      OBVIOUS
    <3>2. g[1] \in Nat /\ n - 1 \in Nat
      BY <1>5, <2>1
    <3>3. h \in Seq(Nat)
      BY <3>1, <3>2, SeqDef
    <3> QED BY <1>8, <2>1, <3>1, <3>3
  <2>2. CASE ~(m = 1 /\ n > 2)
    BY <1>7, <1>8, <2>2
  <2> QED BY <2>1, <2>2
<1>10. n > 1 => n = Len(Gaps) + 1
  BY <1>2 DEF GapsFit
<1>11. n > 1 => Len(Gaps) = n - 1
  <2>1. Len(Gaps) \in Nat
    BY <1>9, LenProperties
  <2> QED BY <1>10, <2>1
<1> QED BY <1>2, <1>9, <1>11

\* The first batch is of the first paths.
Starts(p, l) == \E d : /\ d \in Client /\ Left(d) = Len(p.httpPaths) /\ d.curls = <<>>
                       /\ Asks(p, d, l)
                       /\ l.drains = IF ~p.migrateClient /\ Left(l) = 0 THEN 1 ELSE 0

LEMMA ConnectFollows ==
  ASSUME flags \in Flag, session = "none", GapsFit,
         NEW c, Fresh(c), c.openable > 0,
         NEW d, d = [c EXCEPT !.httpPaths = [i \in DOMAIN params.httpPaths |-> i], !.requestGaps = Gaps],
         NEW e \in sendRequests(d, ~params.migrateClient, c.openable),
         NEW l, l = IF ~params.sendRequestsSequentially /\ e.httpPaths # <<>>
                    THEN [e EXCEPT !.curls = SetEOMFunc(@, "runner")] ELSE e
  PROVE  Follows(params, FALSE, c, l) /\ Starts(params, l)
<1>1. PICK p : p = params
  OBVIOUS
<1>2. PICK n \in Nat : n = Len(p.httpPaths) /\ DOMAIN p.httpPaths = 1 .. n /\ n >= 1
  BY <1>1, ParamsOfClient, LenProperties
<1>3. PICK q, g : q = [i \in 1 .. n |-> i] /\ g = Gaps
  OBVIOUS
<1>4. q \in Seq(Nat) /\ Len(q) = n /\ DOMAIN q = 1 .. n /\ \A k \in 1 .. n : q[k] = k
  <2>1. q \in [1 .. n -> Nat]
    BY <1>3
  <2>2. q \in Seq(Nat)
    BY <2>1, SeqDef
  <2> QED BY <1>3, <2>2, LenProperties
<1>5. g \in Seq(Nat) /\ (n > 1 => Len(g) = n - 1)
  BY <1>1, <1>2, <1>3, GapsAreNumbers
<1>6. d = [c EXCEPT !.httpPaths = q, !.requestGaps = g]
  BY <1>1, <1>2, <1>3
<1>7. /\ d \in Client /\ d.httpPaths = q /\ d.requestGaps = g /\ d.curls = <<>>
      /\ d.timer = "none" /\ d.drains = 0 /\ d.openable = c.openable /\ d.files = c.files
  BY <1>4, <1>5, <1>6 DEF Fresh, Client
<1>8. Left(d) = n
  BY <1>4, <1>7 DEF Left
<1>9. DOMAIN d.curls = {} /\ Len(d.curls) = 0
  BY <1>7
<1>10. QueueOK(p, d)
  <2>1. Left(d) = n /\ Len(p.httpPaths) = n /\ n <= n
    BY <1>2, <1>8
  <2>2. ASSUME NEW k \in 1 .. n PROVE k = n - n + k
    OBVIOUS
  <2> QED BY <1>4, <1>7, <2>1, <2>2 DEF QueueOK
<1>11. BatchOK(p, FALSE, d) /\ Quiet(d) /\ NoneOpen(d)
  <2>1. Len(d.curls) = Len(p.httpPaths) - Left(d)
    BY <1>2, <1>8, <1>9
  <2>2. RequestsOK(p, FALSE, d)
    BY <1>9, <2>1 DEF RequestsOK
  <2>3. FilesOK(d) /\ ModeOK(p, d) /\ PendingOK(d)
    BY <1>9 DEF FilesOK, ModeOK, PendingOK
  <2>4. Quiet(d) /\ NoneOpen(d)
    BY <1>9 DEF Quiet, NoneOpen
  <2> QED BY <1>7, <1>10, <2>2, <2>3, <2>4 DEF BatchOK
<1>12. Ready(p, FALSE, d)
  <2>1. Left(d) > 0 /\ (Left(d) > 1 => Len(d.requestGaps) = Left(d) - 1)
    BY <1>2, <1>5, <1>7, <1>8
  <2> QED BY <1>7, <1>11, <2>1 DEF Ready, GapsOK
<1>13. PICK close \in BOOLEAN : close = ~p.migrateClient
  OBVIOUS
<1>14. Sent(p, FALSE, d, e) /\ Asks(p, d, e) /\ e.drains = IF close /\ Left(e) = 0 THEN 1 ELSE 0
  <2>1. close \/ p.migrateClient
    BY <1>1, <1>13, ParamsOfClient
  <2>2. Ready(params, FALSE, d) /\ e \in sendRequests(d, close, d.openable) /\ d.openable > 0
    BY <1>1, <1>7, <1>12, <1>13
  <2>3. close \/ params.migrateClient
    BY <1>1, <2>1
  <2>4. flags \in Flag /\ FALSE \in BOOLEAN /\ (session = "goaway" => FALSE)
    OBVIOUS
  <2>5. Sent(params, FALSE, d, e) /\ Asks(params, d, e)
        /\ e.drains = IF close /\ Left(e) = 0 THEN 1 ELSE 0
    BY ONLY <2>2, <2>3, <2>4, SendRequestsSends
  <2> QED BY <1>1, <2>5
<1>15. e \in Client /\ Left(e) \in Nat /\ (e.httpPaths = <<>> <=> Left(e) = 0) /\ e.curls \in Seq(CurlType)
  BY <1>14, ClientFields, NothingLeft DEF Sent, BatchOK
<1>16. e.timer = "none" /\ BatchOK(p, FALSE, e) /\ DrainOK(p, e)
       /\ (p.sendRequestsSequentially \/ Quiet(e)) /\ NewFiles(c, e)
  <2>1. NewFiles(c, e)
    <3>1. c.curls = <<>>
      BY DEF Fresh
    <3> QED BY <1>7, <1>14, <3>1 DEF Sent, NewFiles
  <2> QED BY <1>7, <1>14, <2>1 DEF Sent
<1>17. Asks(p, d, l) /\ l.httpPaths = e.httpPaths /\ l.drains = e.drains => Starts(p, l)
  <2>1. Left(d) = Len(p.httpPaths)
    BY <1>2, <1>8
  <2>2. l.httpPaths = e.httpPaths => Left(l) = Left(e)
    BY DEF Left
  <2> QED BY <1>7, <1>13, <1>14, <2>1, <2>2 DEF Starts
<1>18. CASE ~p.sendRequestsSequentially /\ Left(e) # 0
  <2>1. PICK s : s = SetEOMFunc(e.curls, "runner")
    OBVIOUS
  <2>2. l = [e EXCEPT !.curls = s]
    BY <1>1, <1>15, <1>18, <2>1
  <2>3. /\ s \in Seq(CurlType) /\ DOMAIN s = DOMAIN e.curls /\ Len(s) = Len(e.curls)
        /\ \A i \in DOMAIN e.curls :
             s[i] = IF i = Len(e.curls) THEN [e.curls[i] EXCEPT !.eomFunc = "runner"] ELSE e.curls[i]
    BY <1>15, <2>1, SetEOMFuncSets
  <2>4. /\ l \in Client /\ l.httpPaths = e.httpPaths /\ l.requestGaps = e.requestGaps
        /\ l.timer = e.timer /\ l.drains = e.drains /\ l.files = e.files /\ l.curls = s
    BY <1>15, <2>2, <2>3 DEF Client
  <2>5. LastCalls(e, "runner", l)
    BY <2>3, <2>4 DEF LastCalls
  <2>6. BatchOK(p, FALSE, l)
    <3>1. Left(e) > 0 /\ Quiet(e) /\ ~p.sendRequestsSequentially
      BY <1>15, <1>16, <1>18
    <3> QED BY <1>16, <2>5, <3>1, LastCallsKeeps
  <2>7. DrainOK(p, l) /\ TimerOK(p, l)
    BY <1>16, <2>4 DEF DrainOK, TimerOK, Left
  <2>8. ASSUME NEW i \in DOMAIN l.curls
        PROVE  /\ i \in DOMAIN e.curls /\ l.curls[i].file = e.curls[i].file
               /\ l.curls[i].path = e.curls[i].path /\ l.curls[i].txn = e.curls[i].txn
    <3>1. i \in DOMAIN e.curls /\ CurlOK(e.curls[i])
      BY <1>16, <2>3, <2>4, <2>8 DEF BatchOK, RequestsOK
    <3>2. l.curls[i] = e.curls[i] \/ l.curls[i] = [e.curls[i] EXCEPT !.eomFunc = "runner"]
      BY <2>5, <3>1 DEF LastCalls
    <3> QED BY <3>1, <3>2, CallbackSet
  <2>9. NewFiles(c, l)
    BY <1>16, <2>8 DEF NewFiles
  <2>10. Asks(p, d, l)
    <3>1. /\ l.httpPaths = e.httpPaths /\ l.drains = e.drains /\ DOMAIN l.curls = DOMAIN e.curls
          /\ Len(l.curls) = Len(e.curls)
          /\ \A i \in DOMAIN e.curls : l.curls[i].path = e.curls[i].path /\ l.curls[i].txn = e.curls[i].txn
      BY <2>3, <2>4, <2>8
    <3>2. Asks(p, d, e)
      BY <1>14
    <3> QED BY ONLY <3>1, <3>2, GoesTo
  <2> QED BY <1>1, <1>17, <2>4, <2>6, <2>7, <2>9, <2>10 DEF Follows, ClientOK
<1>19. CASE ~(~p.sendRequestsSequentially /\ Left(e) # 0)
  <2>1. l = e
    BY <1>1, <1>15, <1>19
  <2> QED BY <1>1, <1>14, <1>16, <1>17, <2>1 DEF Follows, ClientOK, TimerOK
<1> QED BY <1>18, <1>19
-----------------------------------------------------------------------------
(***************************************************************************)
(* The invariant of the process.  Until it is connected nothing is sent;   *)
(* from then on the client is as above.  A session is gone only because it *)
(* was drained, because the connection ended or because the server went    *)
(* away: so a timer that still finds paths to send finds an undrained one. *)
(***************************************************************************)
Connected == phase \in {"connected", "undefined"}
LostSession == faults \cap {"connection", "goaway"} # {}

ProcessOK ==
  /\ flags \in Invocations /\ faults \subseteq Faults
  /\ phase \in {"begin", "rejected", "aborted", "connecting", "failed",
                "connected", "terminated", "undefined"}
  /\ ~Connected => Fresh(client) /\ faults = {}
  /\ Connected => ClientOK(params, "goaway" \in faults, client)

SessionOK ==
  /\ session \in {"none", "open", "goaway", "gone"}
  /\ session = "none" <=> phase \notin {"connected", "terminated", "undefined"}
  /\ session = "goaway" => "goaway" \in faults
  /\ Connected /\ session = "gone" => client.drains > 0 \/ LostSession
  /\ phase = "undefined" => LostSession

ClientInv == ProcessOK /\ SessionOK

\* A server that goes away refuses nothing that was sent.
LEMMA AwayKeeps ==
  ASSUME NEW p, NEW c, NEW away, ClientOK(p, away, c)
  PROVE  StepOK(p, TRUE, c, c)
<1>1. RequestsOK(p, TRUE, c)
  BY DEF ClientOK, BatchOK, RequestsOK
<1>2. Continues(c, c) /\ Goes(p, c, c)
  BY DEF ClientOK, BatchOK, RequestsOK, Continues, GoesOn, Goes, Waits, Retains
<1> QED BY <1>1, <1>2 DEF ClientOK, BatchOK, StepOK, Follows, NewFiles

LEMMA AfterGoes ==
  ASSUME NEW c, NEW s, NEW t \in After(c, s)
  PROVE  t = s \/ (t = "gone" /\ (c.drains > 0 \/ s = "goaway"))
BY DEF After

LEMMA InitClient == Init => ClientInv
<1> SUFFICES ASSUME Init PROVE ClientInv
  OBVIOUS
<1>1. \A m \in 0 .. MaxStreams : m \in Nat
  BY MaxStreamsAssumption
<1>2. /\ flags \in Invocations /\ phase = "begin" /\ session = "none" /\ faults = {}
  BY DEF Init
<1>3. PICK n \in 0 .. MaxStreams, found \in IF flags.outdir = "" THEN {{}} ELSE SUBSET Existing :
        client = [httpPaths |-> <<>>, requestGaps |-> <<>>, curls |-> <<>>,
                  timer |-> "none", drains |-> 0, switches |-> 0,
                  openable |-> n, files |-> found]
  BY DEF Init
<1>4. n \in Nat /\ found \subseteq OutputFile
  <2>1. n \in Nat
    BY <1>1, Zenon
  <2>2. found \subseteq OutputFile
    <3>1. found = {} \/ found \in SUBSET Existing
      OBVIOUS
    <3> QED BY <3>1, ExistingAssumption
  <2> QED BY <2>1, <2>2
<1>5. <<>> \in Seq(Nat) /\ <<>> \in Seq(CurlType)
  BY EmptySeq
<1>6. Fresh(client)
  BY <1>3, <1>4, <1>5 DEF Fresh, Client
<1> QED BY <1>2, <1>6 DEF ClientInv, ProcessOK, SessionOK, Connected

\* What becomes of the queue and its requests.
QueueStep ==
  \/ flags' = flags /\ client' = client /\ faults' = faults /\ (Connected' <=> Connected)
  \/ /\ phase = "connecting" /\ phase' = "connected" /\ flags' = flags
     /\ session = "none" /\ faults = {} /\ faults' = {} /\ Starts(params, client')
  \/ /\ Connected /\ Connected' /\ flags' = flags
     /\ "goaway" \in faults' <=> "goaway" \in faults
     /\ \E l : Continues(client, l) /\ Goes(params, l, client')
  \/ Connected /\ Connected' /\ flags' = flags /\ client' = client /\ "goaway" \in faults'

Stepped == ClientInv' /\ NewFiles(client, client') /\ QueueStep

\* Every step keeps the invariant, and saves new responses in new files.
LEMMA StepClient == ClientInv /\ [Next]_vars => Stepped
<1> SUFFICES ASSUME ClientInv, [Next]_vars
             PROVE  Stepped
  OBVIOUS
<1>1. PICK p, away : p = params /\ away = ("goaway" \in faults)
  OBVIOUS
<1>2. /\ flags \in Flag /\ away \in BOOLEAN /\ (session = "goaway" => away)
      /\ faults \subseteq Faults /\ Faults \subseteq Fault
  <2>1. flags \in Flag
    BY InvocationsAssumption DEF ClientInv, ProcessOK
  <2>2. session = "goaway" => "goaway" \in faults
    BY DEF ClientInv, SessionOK
  <2>3. ("goaway" \in faults) \in BOOLEAN
    BY SMT
  <2>4. away \in BOOLEAN /\ ("goaway" \in faults => away)
    BY <1>1, <2>3, Zenon
  <2> QED BY <2>1, <2>2, <2>4, FaultsAssumption DEF ClientInv, ProcessOK
<1>3. phase = "connected" => ClientOK(p, away, client)
  BY <1>1 DEF ClientInv, ProcessOK, Connected
<1>4. ASSUME phase = "connected", phase' = "connected", flags' = flags,
             faults \subseteq faults', faults' \subseteq Faults,
             StepOK(p, "goaway" \in faults', client, client'),
             \/ session' = session
             \/ session' = "gone" /\ (client'.drains > 0 \/ LostSession')
             \/ session' = "goaway" /\ "goaway" \in faults',
             "goaway" \in faults' => "goaway" \in faults \/ client' = client
      PROVE  Stepped
  <2>1. params' = p
    BY <1>1, <1>4 DEF params
  <2>2. ProcessOK'
    BY <1>4, <2>1 DEF ClientInv, ProcessOK, Connected, StepOK, Follows
  <2>3. LostSession => LostSession'
    BY <1>4 DEF LostSession
  <2>4. SessionOK'
    BY <1>4, <2>3 DEF ClientInv, SessionOK, Connected, StepOK
  <2>5. QueueStep
    <3>1. Connected /\ Connected' /\ ("goaway" \in faults => "goaway" \in faults')
      BY <1>4 DEF Connected
    <3>2. \E l : Continues(client, l) /\ Goes(params, l, client')
      BY <1>1, <1>4 DEF StepOK
    <3> QED BY <1>4, <3>1, <3>2 DEF QueueStep
  <2>6. NewFiles(client, client')
    BY <1>4 DEF StepOK, Follows
  <2> QED BY <2>2, <2>4, <2>5, <2>6 DEF ClientInv, Stepped
<1>5. ASSUME UNCHANGED vars PROVE Stepped
  <2>1. /\ flags' = flags /\ phase' = phase /\ client' = client /\ session' = session
        /\ faults' = faults /\ params' = params
    BY <1>5 DEF vars, params
  <2>2. QueueStep
    BY <2>1 DEF QueueStep, Connected
  <2> QED BY <2>1, <2>2 DEF ClientInv, ProcessOK, SessionOK, Connected, LostSession, NewFiles, Stepped
<1>6. ASSUME Main \/ onConnectionSetupError PROVE Stepped
  <2>1. /\ phase \in {"begin", "connecting"}
        /\ phase' \in {"aborted", "rejected", "connecting", "failed"}
        /\ flags' = flags /\ client' = client /\ session' = session /\ faults' = faults
    BY <1>6 DEF Main, onConnectionSetupError
  <2>2. QueueStep
    BY <2>1 DEF QueueStep, Connected
  <2> QED BY <2>1, <2>2
          DEF ClientInv, ProcessOK, SessionOK, Connected, LostSession, NewFiles, Fresh, Stepped
<1>7. ASSUME onTransportReady PROVE Stepped
  <2>1. /\ phase = "connecting" /\ session' = "open" /\ flags' = flags /\ faults' = faults
        /\ params' = params
    BY <1>7 DEF onTransportReady, params
  <2>2. Fresh(client) /\ faults = {} /\ session = "none"
    BY <2>1 DEF ClientInv, ProcessOK, SessionOK, Connected
  <2>3. CASE client.openable > 0 /\ GapsFit
    <3>1. phase' = "connected" /\ connectSuccess
      BY <1>7, <2>3 DEF onTransportReady
    <3>2. PICK d : d = [client EXCEPT !.httpPaths = [i \in DOMAIN params.httpPaths |-> i],
                                      !.requestGaps = Gaps]
      OBVIOUS
    <3>3. PICK c \in sendRequests(d, ~params.migrateClient, client.openable) :
            client' = IF ~params.sendRequestsSequentially /\ c.httpPaths # <<>>
                      THEN [c EXCEPT !.curls = SetEOMFunc(@, "runner")] ELSE c
      BY <3>1, <3>2 DEF connectSuccess
    <3>4. PICK l : l = client'
      OBVIOUS
    <3>5. Follows(params, FALSE, client, l) /\ Starts(params, l)
      BY <1>2, <2>2, <2>3, <3>2, <3>3, <3>4, ConnectFollows
    <3>6. Follows(params, FALSE, client, client')
      BY <3>4, <3>5
    <3>7. ClientOK(params', "goaway" \in faults', client') /\ NewFiles(client, client')
      <4>1. ("goaway" \in faults') = FALSE
        BY <2>1, <2>2
      <4> QED BY <2>1, <3>6, <4>1 DEF Follows
    <3>8. QueueStep
      BY <2>1, <2>2, <3>1, <3>4, <3>5 DEF QueueStep
    <3> QED BY <2>1, <2>2, <3>1, <3>7, <3>8
            DEF ClientInv, ProcessOK, SessionOK, Connected, LostSession, Stepped
  <2>4. CASE ~(client.openable > 0 /\ GapsFit)
    <3>1. phase' = "terminated" /\ client' = client
      BY <1>7, <2>4 DEF onTransportReady
    <3>2. QueueStep
      BY <2>1, <3>1 DEF QueueStep, Connected
    <3> QED BY <2>1, <2>2, <3>1, <3>2
            DEF ClientInv, ProcessOK, SessionOK, Connected, LostSession, NewFiles, Fresh, Stepped
  <2> QED BY <2>3, <2>4
<1>8. ASSUME NEW i \in DOMAIN client.curls, NEW c, Callback(i, c),
             CurlOK(client.curls[i]) => GoesOn(client.curls[i], c)
      PROVE  Stepped
  <2>1. /\ phase = "connected" /\ phase' = "connected" /\ flags' = flags /\ faults' = faults
        /\ session' = session /\ client' = [client EXCEPT !.curls[i] = c]
    BY <1>8 DEF Callback
  <2>2. StepOK(p, away, client, client')
    BY <1>3, <1>8, <2>1, RequestSteps
  <2> QED BY <1>1, <1>2, <1>4, <2>1, <2>2
<1>9. ASSUME NEW i \in DOMAIN client.curls, OnHeadersComplete(i) \/ OnBody(i)
      PROVE  Stepped
  <2>1. params.logResponseHeaders \in BOOLEAN
    BY <1>2 DEF params, ClientParams, Flag
  <2>2. CASE OnHeadersComplete(i)
    BY <1>8, <2>1, <2>2, ResponseGoesOn DEF OnHeadersComplete
  <2>3. CASE OnBody(i)
    BY <1>8, <2>3, ResponseGoesOn DEF OnBody
  <2> QED BY <1>9, <2>2, <2>3
<1>10. ASSUME NEW i \in DOMAIN client.curls, OnEgressResumed(i)
       PROVE  Stepped
  <2>1. PICK d \in onEgressResumed(client.curls[i]) : Callback(i, d)
    BY <1>10 DEF OnEgressResumed
  <2>2. Resumable(client.curls[i])
    BY <1>10 DEF OnEgressResumed
  <2> QED BY <1>8, <2>1, <2>2, ResumedGoesOn
<1>11. ASSUME NEW i \in DOMAIN client.curls, OnPushedTransaction(i) \/ OnPushBody(i)
       PROVE  Stepped
  <2>1. CASE OnPushedTransaction(i)
    BY <1>8, <2>1, TransactionGoesOn DEF OnPushedTransaction
  <2>2. CASE OnPushBody(i)
    BY <1>8, <2>2, ResponseGoesOn DEF OnPushBody
  <2> QED BY <1>11, <2>1, <2>2
<1>12. ASSUME NEW i \in DOMAIN client.curls, OnEOM(i)
       PROVE  Stepped
  <2>1. /\ phase = "connected" /\ phase' = "connected" /\ flags' = flags /\ faults' = faults
        /\ session' = session /\ client.curls[i].txn = "open"
        /\ client' \in CASE client.curls[i].eomFunc = "none" -> {Ended(i)}
                         [] client.curls[i].eomFunc = "sequential" -> callSendRequestsAfterADelay(Ended(i))
                         [] client.curls[i].eomFunc = "runner" -> selfSchedulingRequestRunner(Ended(i))
    BY <1>12 DEF OnEOM
  <2>2. StepOK(p, away, client, client')
    BY <1>1, <1>2, <1>3, <2>1, EOMSteps
  <2> QED BY <1>1, <1>2, <1>4, <2>1, <2>2
<1>13. ASSUME NEW i \in DOMAIN client.curls, OnError(i)
       PROVE  Stepped
  <2>1. /\ phase = "connected" /\ phase' = "connected" /\ flags' = flags
        /\ "transaction" \in Faults /\ faults' = faults \cup {"transaction"}
        /\ session' = session /\ client' = [client EXCEPT !.curls[i] = Fail(client.curls[i])]
    BY <1>13 DEF OnError
  <2>2. StepOK(p, away, client, client')
    BY <1>3, <2>1, RequestSteps, FailureGoesOn
  <2>3. away = ("goaway" \in faults')
    BY <1>1, <2>1
  <2> QED BY <1>2, <1>4, <2>1, <2>2, <2>3
<1>14. ASSUME NEW i \in DOMAIN client.curls, OnDestroy(i) \/ PushEnds(i)
       PROVE  Stepped
  <2>1. /\ phase = "connected" /\ phase' = "connected" /\ flags' = flags /\ faults' = faults
        /\ session' \in After(client', session)
        /\ \/ client' = [client EXCEPT !.curls[i].txn = "detached"]
           \/ client' = [client EXCEPT !.curls[i].push = "ended"]
    BY <1>14 DEF OnDestroy, PushEnds
  <2>2. PICK x : /\ x = [client.curls[i] EXCEPT !.txn = "detached"] \/ x = [client.curls[i] EXCEPT !.push = "ended"]
                 /\ client' = [client EXCEPT !.curls[i] = x]
    BY <2>1
  <2>3. StepOK(p, away, client, client')
    BY <1>3, <2>1, <2>2, RequestSteps, TransactionGoesOn
  <2>4. session' = session \/ (session' = "gone" /\ (client'.drains > 0 \/ session = "goaway"))
    BY <2>1, AfterGoes
  <2>5. session = "goaway" => LostSession'
    BY <1>1, <1>2, <2>1 DEF LostSession
  <2> QED BY <1>1, <1>2, <1>4, <2>1, <2>3, <2>4, <2>5
<1>15. ASSUME TimerFires PROVE Stepped
  <2>1. phase = "connected" /\ client.timer # "none" /\ flags' = flags /\ faults' = faults
        /\ params' = params
    BY <1>15 DEF TimerFires, params
  <2>2. CASE session = "gone" /\ client.openable > 0
    <3>1. phase' = "undefined" /\ client' = client /\ session' = session
      BY <1>15, <2>2 DEF TimerFires
    <3>2. client.drains = 0
      <4>1. client \in Client /\ Left(client) > 0 /\ DrainOK(p, client)
        BY <1>3, <2>1 DEF ClientOK, BatchOK, TimerOK
      <4> QED BY <4>1, ClientFields DEF DrainOK
    <3>3. LostSession
      BY <2>1, <2>2, <3>2 DEF ClientInv, SessionOK, Connected
    <3>4. QueueStep
      BY <2>1, <3>1 DEF QueueStep, Connected
    <3> QED BY <2>1, <3>1, <3>3, <3>4
            DEF ClientInv, ProcessOK, SessionOK, Connected, LostSession, NewFiles, Stepped
  <2>3. CASE ~(session = "gone" /\ client.openable > 0)
    <3>1. client' \in Fired /\ session' \in After(client', session) /\ phase' = "connected"
      BY <1>15, <2>1, <2>3 DEF TimerFires
    <3>2. StepOK(p, away, client, client')
      BY <1>1, <1>2, <1>3, <2>1, <3>1, FiredSteps
    <3>3. session' = session \/ (session' = "gone" /\ (client'.drains > 0 \/ session = "goaway"))
      BY <3>1, AfterGoes
    <3>4. session = "goaway" => LostSession'
      BY <1>1, <1>2, <2>1 DEF LostSession
    <3> QED BY <1>1, <1>2, <1>4, <2>1, <3>1, <3>2, <3>3, <3>4
  <2> QED BY <2>2, <2>3
<1>16. ASSUME ConnectionEnds PROVE Stepped
  <2>1. /\ phase = "connected" /\ phase' = "connected" /\ flags' = flags /\ session' = "gone"
        /\ "connection" \in Faults /\ faults' = faults \cup {"connection"}
    BY <1>16 DEF ConnectionEnds
  <2>2. PICK n \in {0, client.openable} :
          client' = [client EXCEPT !.openable = n, !.curls = [j \in DOMAIN @ |-> Lose(@[j])]]
    BY <1>16 DEF ConnectionEnds
  <2>3. StepOK(p, away, client, client')
    BY <1>3, <2>1, <2>2, LossSteps
  <2>4. away = ("goaway" \in faults') /\ LostSession'
    BY <1>1, <2>1 DEF LostSession
  <2> QED BY <1>2, <1>4, <2>1, <2>3, <2>4
<1>17. ASSUME GoAway PROVE Stepped
  <2>1. /\ phase = "connected" /\ phase' = "connected" /\ flags' = flags /\ client' = client
        /\ "goaway" \in Faults /\ faults' = faults \cup {"goaway"}
        /\ session' \in After(client, "goaway")
    BY <1>17 DEF GoAway
  <2>2. StepOK(p, TRUE, client, client')
    BY <1>3, <2>1, AwayKeeps
  <2>3. "goaway" \in faults' /\ LostSession'
    BY <2>1 DEF LostSession
  <2>4. session' \in {"goaway", "gone"}
    BY <2>1, AfterGoes
  <2> QED BY <1>2, <1>4, <2>1, <2>2, <2>3, <2>4
<1>18. ASSUME MaxStreamsFrame PROVE Stepped
  <2>1. /\ phase = "connected" /\ phase' = "connected" /\ flags' = flags /\ session' = session
        /\ faults' = faults /\ client' = [client EXCEPT !.openable = client.openable + 1]
    BY <1>18 DEF MaxStreamsFrame
  <2>2. client.openable + 1 \in Nat
    BY <1>3, <2>1, ClientFields DEF ClientOK, BatchOK
  <2>3. StepOK(p, away, client, client')
    BY <1>3, <2>1, <2>2, CreditSteps
  <2> QED BY <1>1, <1>2, <1>4, <2>1, <2>3
<1> QED BY <1>5, <1>6, <1>7, <1>9, <1>10, <1>11, <1>12, <1>13, <1>14, <1>15, <1>16, <1>17, <1>18 DEF Next

\* Everything above in one invariant.
THEOREM ClientInvariant == Spec => []ClientInv
<1>1. Init => ClientInv
  BY InitClient
<1>2. ClientInv /\ [Next]_vars => ClientInv'
  BY StepClient DEF Stepped
<1> QED BY <1>1, <1>2, PTL DEF Spec
-----------------------------------------------------------------------------
(* What it means for the properties.                                         *)

\* Connected or not, the requests are as in ClientOK.
LEMMA ClientState ==
  ASSUME ClientInv
  PROVE  /\ client \in Client
         /\ \A i \in DOMAIN client.curls : CurlOK(client.curls[i])
         /\ FilesOK(client) /\ PendingOK(client)
         /\ Connected \/ Fresh(client)
         /\ Connected => ClientOK(params, "goaway" \in faults, client)
         /\ client.drains \in Nat
<1>1. Connected \/ Fresh(client)
  BY DEF ClientInv, ProcessOK
<1>2. CASE Connected
  <2>1. ClientOK(params, "goaway" \in faults, client)
    BY <1>2 DEF ClientInv, ProcessOK
  <2> QED BY <1>1, <2>1, ClientFields DEF ClientOK, BatchOK, RequestsOK
<1>3. CASE ~Connected
  <2>1. Fresh(client)
    BY <1>1, <1>3
  <2>2. client.curls = <<>> /\ DOMAIN client.curls = {} /\ client \in Client
    BY <2>1 DEF Fresh
  <2>3. FilesOK(client) /\ PendingOK(client)
    BY <2>2 DEF FilesOK, PendingOK
  <2> QED BY <1>1, <1>3, <2>2, <2>3, ClientFields
<1> QED BY <1>2, <1>3

\* The variables have their types.
THEOREM ClientTypes == Spec => []TypeOK
<1>1. ClientInv => TypeOK
  BY ClientState DEF ClientInv, ProcessOK, SessionOK, TypeOK
<1> QED BY <1>1, ClientInvariant, PTL

\* Every request ends once and with its file, wherever it was paused.
THEOREM EndsOnce == Spec => []EndsOnceWithTheFile
<1>1. ClientInv => EndsOnceWithTheFile
  BY ClientState DEF CurlOK, EndsOnceWithTheFile
<1> QED BY <1>1, ClientInvariant, PTL

\* The session is drained once, with the last path.
THEOREM DrainsOnce == Spec => []DrainsOnceAtTheEnd
<1>1. ASSUME ClientInv PROVE DrainsOnceAtTheEnd
  <2>1. client \in Client /\ (client.httpPaths = <<>> <=> Left(client) = 0)
    BY <1>1, ClientState, NothingLeft
  <2>2. CASE Connected
    BY <1>1, <2>1, <2>2, ClientState DEF ClientOK, DrainOK, DrainsOnceAtTheEnd
  <2>3. CASE ~Connected
    BY <1>1, <2>3, ClientState DEF Fresh, DrainsOnceAtTheEnd, Connected
  <2> QED BY <2>2, <2>3
<1> QED BY <1>1, ClientInvariant, PTL

\* A session that is gone is used only after the connection or the server
\* went away.
THEOREM SessionUsed == Spec => []SessionUsedWhileAlive
<1>1. ClientInv => SessionUsedWhileAlive
  BY DEF ClientInv, SessionOK, LostSession, SessionUsedWhileAlive
<1> QED BY <1>1, ClientInvariant, PTL

\* One callback at most is pending, and what it pops is there.
THEOREM CallbackHasWork == Spec => []CallbackFindsWork
<1>1. ASSUME ClientInv PROVE CallbackFindsWork
  <2>1. PICK c : c = client
    OBVIOUS
  <2>2. /\ c \in Client /\ PendingOK(c) /\ (Connected \/ Fresh(c))
        /\ Connected => ClientOK(params, "goaway" \in faults, c)
        /\ c.timer \in {"none", "gap", "rtt"} /\ Left(c) \in Nat
    BY <1>1, <2>1, ClientState, ClientFields
  <2>3. Pending = {i \in DOMAIN c.curls : IsPending(c.curls[i])}
    BY <2>1 DEF Pending, IsPending
  <2>4. \A i, j \in Pending : i = j
    BY <2>2, <2>3 DEF PendingOK
  <2>5. IsFiniteSet(Pending) /\ Cardinality(Pending) \in {0, 1}
        /\ (Cardinality(Pending) = 1 => Pending # {})
    <3>1. CASE Pending = {}
      BY <3>1, FS_EmptySet
    <3>2. CASE Pending # {}
      <4>1. PICK i : i \in Pending
        BY <3>2
      <4>2. Pending = {i}
        BY <2>4, <4>1
      <4> QED BY <4>2, FS_Singleton
    <3> QED BY <3>1, <3>2
  <2>6. c.timer # "none" => Pending = {} /\ Left(c) > 0
    BY <2>2, <2>3 DEF ClientOK, TimerOK, Quiet, Fresh
  <2>7. Cardinality(Pending) + (IF c.timer = "none" THEN 0 ELSE 1) <= 1
    BY <2>5, <2>6
  <2>8. /\ Pending # {} => Left(c) > 0
        /\ \A i \in Pending : c.curls[i].eomFunc = "sequential" => Len(c.requestGaps) = Left(c)
    BY <2>2, <2>3 DEF PendingOK
  <2>9. c.timer = "gap" => Len(c.requestGaps) = Left(c) - 1
    BY <2>2 DEF ClientOK, TimerOK, Fresh
  <2> QED BY <2>1, <2>6, <2>7, <2>8, <2>9 DEF CallbackFindsWork, Left
<1> QED BY <1>1, ClientInvariant, PTL

\* The paths made and those left are in order; no path is passed over.
THEOREM SentInOrder == Spec => []SentOnceInOrder
<1>1. ASSUME ClientInv PROVE SentOnceInOrder
  <2>1. PICK c, p : c = client /\ p = params
    OBVIOUS
  <2>2. /\ c \in Client /\ Left(c) \in Nat
        /\ c.httpPaths \in Seq(Nat) /\ DOMAIN c.httpPaths = 1 .. Left(c)
    BY <1>1, <2>1, ClientState, ClientFields
  <2>3. PICK m \in Nat : m = Len(c.curls) /\ DOMAIN c.curls = 1 .. m
    BY <2>2, ClientFields
  <2>4. PICK made, all : /\ made = [i \in DOMAIN c.curls |-> c.curls[i].path]
                         /\ all = made \o c.httpPaths
    OBVIOUS
  <2>5. \A i \in 1 .. m : c.curls[i].path \in Nat
    BY <1>1, <2>1, <2>3, ClientState DEF CurlOK, CurlType
  <2>6. made \in Seq(Nat) /\ Len(made) = m /\ \A i \in 1 .. m : made[i] = c.curls[i].path
    <3>1. made = [i \in 1 .. m |-> c.curls[i].path]
      BY <2>3, <2>4
    <3>2. made \in Seq(Nat)
      BY <2>5, <3>1, SeqDef
    <3> QED BY <3>1, <3>2, LenProperties
  <2>7. /\ all \in Seq(Nat) /\ Len(all) = m + Left(c)
        /\ DOMAIN all = 1 .. m + Left(c)
        /\ \A i \in 1 .. m : all[i] = c.curls[i].path
        /\ \A i \in 1 .. m + Left(c) : i > m => all[i] = c.httpPaths[i - m]
    <3>1. PICK q : q = c.httpPaths
      OBVIOUS
    <3>2. q \in Seq(Nat) /\ Len(q) = Left(c) /\ all = made \o q
      BY <2>2, <2>4, <3>1 DEF Left
    <3>3. /\ all \in Seq(Nat) /\ Len(all) = m + Left(c)
          /\ \A i \in 1 .. Len(made) + Len(q) :
               all[i] = IF i <= Len(made) THEN made[i] ELSE q[i - Len(made)]
      BY <2>6, <3>2, ConcatProperties
    <3>4. DOMAIN all = 1 .. m + Left(c)
      BY <3>3, LenProperties
    <3>5. \A i \in 1 .. m : i \in 1 .. m + Left(c) /\ i <= m
      BY <2>2
    <3>6. \A i \in 1 .. m : all[i] = c.curls[i].path
      BY <2>6, <3>2, <3>3, <3>5
    <3>7. \A i \in 1 .. m + Left(c) : i > m => all[i] = q[i - m]
      BY <2>6, <3>2, <3>3
    <3> QED BY <3>1, <3>3, <3>4, <3>6, <3>7
  <2>8. CASE Connected
    <3>1. PICK n \in Nat : n = Len(p.httpPaths)
      <4>1. flags \in Flag
        BY <1>1, InvocationsAssumption DEF ClientInv, ProcessOK
      <4> QED BY <2>1, <4>1, ParamsOfClient, LenProperties
    <3>2. /\ \A k \in 1 .. Left(c) : c.httpPaths[k] = n - Left(c) + k
          /\ \A i \in 1 .. m : c.curls[i].path <= n - Left(c)
          /\ \A i, j \in 1 .. m : i < j => c.curls[i].path < c.curls[j].path
          /\ "goaway" \notin faults => m = n - Left(c)
      <4>1. QueueOK(p, c) /\ RequestsOK(p, "goaway" \in faults, c)
        BY <1>1, <2>1, <2>8, ClientState DEF ClientOK, BatchOK
      <4> QED BY <2>2, <2>3, <3>1, <4>1 DEF QueueOK, RequestsOK
    <3>3. ASSUME NEW i \in 1 .. m + Left(c), NEW j \in 1 .. m + Left(c), i < j
          PROVE  all[i] < all[j]
      <4>1. CASE j <= m
        BY <2>2, <2>7, <3>2, <3>3, <4>1
      <4>2. CASE j > m
        <5>1. j - m \in 1 .. Left(c) /\ all[j] = n - Left(c) + (j - m)
          <6>1. j - m \in 1 .. Left(c)
            BY <2>2, <4>2
          <6>2. all[j] = c.httpPaths[j - m]
            BY <2>7, <4>2
          <6>3. c.httpPaths[j - m] = n - Left(c) + (j - m)
            BY <3>2, <6>1
          <6> QED BY <6>1, <6>2, <6>3
        <5>2. CASE i <= m
          <6>1. all[i] \in Nat /\ all[i] <= n - Left(c)
            BY <2>5, <2>7, <3>2, <5>2
          <6> QED BY <2>2, <5>1, <6>1
        <5>3. CASE i > m
          <6>1. i - m \in 1 .. Left(c) /\ all[i] = n - Left(c) + (i - m)
            <7>1. i - m \in 1 .. Left(c)
              BY <2>2, <5>3
            <7>2. all[i] = c.httpPaths[i - m]
              BY <2>7, <5>3
            <7>3. c.httpPaths[i - m] = n - Left(c) + (i - m)
              BY <3>2, <7>1
            <7> QED BY <7>1, <7>2, <7>3
          <6> QED BY <2>2, <3>3, <5>1, <6>1
        <5> QED BY <5>2, <5>3
      <4> QED BY <4>1, <4>2
    <3>4. "goaway" \notin faults => Len(all) = n
      BY <2>2, <2>7, <3>2
    <3> QED BY <2>1, <2>4, <2>7, <3>1, <3>3, <3>4 DEF SentOnceInOrder
  <2>9. CASE ~Connected
    <3>1. m = 0 /\ Left(c) = 0
      BY <1>1, <2>1, <2>2, <2>3, <2>9, ClientState DEF Fresh, Left
    <3>2. DOMAIN all = {}
      BY <2>7, <3>1
    <3> QED BY <2>1, <2>4, <2>9, <3>2 DEF SentOnceInOrder, Connected
  <2> QED BY <2>8, <2>9
<1> QED BY <1>1, ClientInvariant, PTL

ResponsesOK == (\A i \in DOMAIN client.curls : CurlOK(client.curls[i])) /\ FilesOK(client)

\* A response is saved in a new file of its own, and there is what it says.
THEOREM ResponsesAreSaved == Spec => SavedResponses
<1>1. ClientInv' => ResponsesOK'
  <2>1. ClientInv => ResponsesOK
    BY ClientState DEF ResponsesOK
  <2> QED BY <2>1, PTL
<1>2. ASSUME ClientInv, [Next]_vars
      PROVE  \A i \in DOMAIN client'.curls :
               LET c == client'.curls[i]
               IN  /\ c.file # Stdout => /\ i \notin DOMAIN client.curls => c.file \notin client.files
                                         /\ \A j \in DOMAIN client'.curls \ {i} :
                                              client'.curls[j].file # c.file
                   /\ 1 .. c.chunks = {x \in Range(c.output) : x > 0}
                   /\ \A k, l \in DOMAIN c.output : 0 < c.output[k] /\ k < l /\ 0 < c.output[l] =>
                        c.output[k] < c.output[l]
                   /\ c.push = "none" => PushesWritten(c) = 0
  <2> SUFFICES ASSUME NEW i \in DOMAIN client'.curls, NEW c, c = client'.curls[i]
               PROVE  /\ c.file # Stdout => /\ i \notin DOMAIN client.curls => c.file \notin client.files
                                            /\ \A j \in DOMAIN client'.curls \ {i} :
                                                 client'.curls[j].file # c.file
                      /\ 1 .. c.chunks = {x \in Range(c.output) : x > 0}
                      /\ \A k, l \in DOMAIN c.output : 0 < c.output[k] /\ k < l /\ 0 < c.output[l] =>
                           c.output[k] < c.output[l]
                      /\ c.push = "none" => PushesWritten(c) = 0
    OBVIOUS
  <2>1. CurlOK(c) /\ FilesOK(client') /\ NewFiles(client, client')
    BY <1>1, <1>2, StepClient DEF ResponsesOK, Stepped
  <2>2. c.file # Stdout => /\ i \notin DOMAIN client.curls => c.file \notin client.files
                           /\ \A j \in DOMAIN client'.curls \ {i} : client'.curls[j].file # c.file
    BY <2>1 DEF NewFiles, FilesOK
  <2>3. c.push = "none" => PushesWritten(c) = 0
    <3>1. c.push = "none" => {k \in DOMAIN c.output : c.output[k] = Pushed} = {}
      BY <2>1 DEF CurlOK, OutputOK
    <3> QED BY <3>1, FS_EmptySet DEF PushesWritten
  <2> QED BY <2>1, <2>2, <2>3 DEF CurlOK, OutputOK
<1> QED BY <1>2, ClientInvariant, PTL DEF Spec, SavedResponses
-----------------------------------------------------------------------------
(***************************************************************************)
(* The client implements RequestQueue: what a step does to its requests    *)
(* ends some of them and then makes the next ones, or not.                 *)
(***************************************************************************)
RequestsOf(c) == [i \in DOMAIN c.curls |->
                    [path |-> c.curls[i].path,
                     is |-> IF c.curls[i].txn = "open" THEN "open" ELSE "over"]]
OpenOf(r) == {i \in DOMAIN r : r[i].is = "open"}
OverIn(r, S) == [i \in DOMAIN r |-> IF i \in S THEN [r[i] EXCEPT !.is = "over"] ELSE r[i]]
MadeAt(p, m, i) == [path |-> Len(p.httpPaths) - m + i, is |-> "open"]
MadeOf(p, m, n) == [i \in 1 .. n |-> MadeAt(p, m, i)]
RequestType == [path : Int, is : {"open", "over"}]

\* They are requests, as many as there are CurlClients.
LEMMA RequestsAre ==
  ASSUME NEW c, c \in Client
  PROVE  /\ RequestsOf(c) \in Seq(RequestType)
         /\ Len(RequestsOf(c)) = Len(c.curls) /\ DOMAIN RequestsOf(c) = DOMAIN c.curls
         /\ \A i \in DOMAIN c.curls :
              /\ RequestsOf(c)[i].path = c.curls[i].path
              /\ RequestsOf(c)[i].is = IF c.curls[i].txn = "open" THEN "open" ELSE "over"
<1>1. PICK m \in Nat : m = Len(c.curls) /\ DOMAIN c.curls = 1 .. m
  BY ClientFields
<1>2. PICK r : r = RequestsOf(c)
  OBVIOUS
<1>3. \A i \in 1 .. m : c.curls[i].path \in Nat
  <2> SUFFICES ASSUME NEW i \in 1 .. m PROVE c.curls[i].path \in Nat
    OBVIOUS
  <2>1. c.curls[i] \in CurlType
    BY <1>1, ClientFields, ElementOfSeq
  <2> QED BY <2>1 DEF CurlType
<1>4. DOMAIN r = 1 .. m /\ \A i \in 1 .. m :
        r[i] = [path |-> c.curls[i].path, is |-> IF c.curls[i].txn = "open" THEN "open" ELSE "over"]
  BY <1>1, <1>2 DEF RequestsOf
<1>5. \A i \in 1 .. m : r[i] \in RequestType
  BY <1>3, <1>4 DEF RequestType
<1>6. r = [i \in 1 .. m |-> r[i]]
  BY <1>1, <1>2 DEF RequestsOf
<1>7. r \in Seq(RequestType)
  BY <1>5, <1>6, SeqDef
<1>8. Len(r) = m
  BY <1>4, <1>7, LenProperties
<1>9. \A i \in 1 .. m : /\ r[i].path = c.curls[i].path
                        /\ r[i].is = IF c.curls[i].txn = "open" THEN "open" ELSE "over"
  BY <1>4
<1> QED BY <1>1, <1>2, <1>4, <1>7, <1>8, <1>9

\* Two sequences of requests are the same if their requests are.
LEMMA SameRequests ==
  ASSUME NEW r \in Seq(RequestType), NEW s \in Seq(RequestType), Len(r) = Len(s),
         \A i \in 1 .. Len(r) : r[i].path = s[i].path /\ r[i].is = s[i].is
  PROVE  r = s
<1>1. \A i \in 1 .. Len(r) : r[i] \in RequestType /\ s[i] \in RequestType
  BY ElementOfSeq
<1>2. ASSUME NEW i \in 1 .. Len(r) PROVE r[i] = s[i]
  <2>1. PICK x, y : x = r[i] /\ y = s[i]
    OBVIOUS
  <2>2. x \in RequestType /\ y \in RequestType /\ x.path = y.path /\ x.is = y.is
    BY <1>1, <2>1
  <2>3. x = y
    BY ONLY <2>2 DEF RequestType
  <2> QED BY <2>1, <2>3
<1> QED BY <1>2, SeqEqual

\* Those that end.
LEMMA RequestsEnd ==
  ASSUME NEW r \in Seq(RequestType), NEW S, NEW s, s = OverIn(r, S)
  PROVE  /\ s \in Seq(RequestType) /\ Len(s) = Len(r)
         /\ \A i \in 1 .. Len(r) :
              s[i].path = r[i].path /\ s[i].is = IF i \in S THEN "over" ELSE r[i].is
<1>1. PICK m \in Nat : m = Len(r) /\ DOMAIN r = 1 .. m
  BY LenProperties
<1>2. \A i \in 1 .. m : r[i] \in RequestType
  BY <1>1, ElementOfSeq
<1>3. DOMAIN s = 1 .. m /\ \A i \in 1 .. m : s[i] = IF i \in S THEN [r[i] EXCEPT !.is = "over"] ELSE r[i]
  BY <1>1 DEF OverIn
<1>4. \A i \in 1 .. m : /\ s[i] \in RequestType /\ s[i].path = r[i].path
                        /\ s[i].is = IF i \in S THEN "over" ELSE r[i].is
  BY <1>2, <1>3 DEF RequestType
<1>5. s = [i \in 1 .. m |-> s[i]]
  BY <1>1 DEF OverIn
<1>6. s \in Seq(RequestType)
  BY <1>4, <1>5, SeqDef
<1> QED BY <1>1, <1>3, <1>4, <1>6, LenProperties

\* Those that are made.
LEMMA RequestsMade ==
  ASSUME NEW p, NEW m \in Nat, NEW n \in Nat, Len(p.httpPaths) \in Nat
  PROVE  /\ MadeOf(p, m, n) \in Seq(RequestType) /\ Len(MadeOf(p, m, n)) = n
         /\ \A i \in 1 .. n : MadeOf(p, m, n)[i] = MadeAt(p, m, i)
<1>1. PICK s : s = MadeOf(p, m, n)
  OBVIOUS
<1>2. ASSUME NEW i \in 1 .. n PROVE s[i] = MadeAt(p, m, i) /\ s[i] \in RequestType
  <2>1. PICK k : k = Len(p.httpPaths) - m + i
    OBVIOUS
  <2>2. k \in Int
    BY <2>1
  <2>3. s[i] = [path |-> k, is |-> "open"]
    BY <1>1, <2>1 DEF MadeOf, MadeAt
  <2> QED BY <2>1, <2>2, <2>3 DEF RequestType, MadeAt
<1>3. DOMAIN s = 1 .. n /\ s = [i \in 1 .. n |-> s[i]]
  BY <1>1 DEF MadeOf
<1>4. s \in Seq(RequestType)
  BY <1>2, <1>3, SeqDef
<1> QED BY <1>1, <1>2, <1>3, <1>4, LenProperties

\* What a batch makes of the requests of c.
LEMMA BatchMakes ==
  ASSUME NEW p, Len(p.httpPaths) \in Nat, NEW c, c \in Client, NEW d, d \in Client,
         Asks(p, c, d)
  PROVE  /\ Left(c) - Left(d) \in 1 .. Left(c)
         /\ RequestsOf(d) = IF session = "goaway" THEN RequestsOf(c)
                            ELSE RequestsOf(c) \o MadeOf(p, Left(c), Left(c) - Left(d))
<1>1. /\ Left(c) \in Nat /\ Left(d) \in Nat /\ Len(c.curls) \in Nat /\ Len(d.curls) \in Nat
      /\ DOMAIN c.curls = 1 .. Len(c.curls) /\ DOMAIN d.curls = 1 .. Len(d.curls)
  BY ClientFields
<1>2. PICK n : n = Left(c) - Left(d)
  OBVIOUS
<1>3. n \in Nat /\ n \in 1 .. Left(c)
  BY <1>1, <1>2 DEF Asks
<1>4. PICK r, s, k, m : /\ r = RequestsOf(c) /\ s = RequestsOf(d)
                        /\ k = Len(c.curls) /\ m = MadeOf(p, Left(c), n)
  OBVIOUS
<1>5. /\ r \in Seq(RequestType) /\ Len(r) = k /\ s \in Seq(RequestType) /\ Len(s) = Len(d.curls)
      /\ \A i \in 1 .. k : /\ r[i].path = c.curls[i].path
                           /\ r[i].is = IF c.curls[i].txn = "open" THEN "open" ELSE "over"
      /\ \A i \in 1 .. Len(s) : /\ s[i].path = d.curls[i].path
                                /\ s[i].is = IF d.curls[i].txn = "open" THEN "open" ELSE "over"
  BY <1>1, <1>4, RequestsAre
<1>6. /\ m \in Seq(RequestType) /\ Len(m) = n
      /\ \A i \in 1 .. n : m[i] = MadeAt(p, Left(c), i)
  BY <1>1, <1>3, <1>4, RequestsMade
<1>7. \A i \in 1 .. k : i \in 1 .. Len(s) /\ s[i].path = r[i].path /\ s[i].is = r[i].is
  <2> SUFFICES ASSUME NEW i \in 1 .. k
               PROVE  i \in 1 .. Len(s) /\ s[i].path = r[i].path /\ s[i].is = r[i].is
    OBVIOUS
  <2>1. /\ i \in DOMAIN c.curls /\ i \in DOMAIN d.curls
        /\ d.curls[i].path = c.curls[i].path /\ d.curls[i].txn = c.curls[i].txn
    BY <1>1, <1>4 DEF Asks, Retains
  <2> QED BY <1>1, <1>5, <2>1
<1>8. CASE session = "goaway"
  <2>1. Len(s) = k
    BY <1>4, <1>5, <1>8 DEF Asks, Asked
  <2>2. r = s
    BY <1>5, <1>7, <2>1, SameRequests
  <2> QED BY <1>2, <1>3, <1>4, <1>8, <2>2
<1>9. CASE session # "goaway"
  <2>1. Len(s) = k + n
    BY <1>2, <1>4, <1>5, <1>9 DEF Asks, Asked
  <2>2. PICK u : u = r \o m
    OBVIOUS
  <2>3. /\ u \in Seq(RequestType) /\ Len(u) = k + n
        /\ \A i \in 1 .. k + n : u[i] = IF i <= k THEN r[i] ELSE m[i - k]
    <3>1. r \in Seq(RequestType) /\ m \in Seq(RequestType) /\ Len(r) = k /\ Len(m) = n
      BY <1>5, <1>6
    <3>2. /\ u \in Seq(RequestType) /\ Len(u) = Len(r) + Len(m)
          /\ \A i \in 1 .. Len(r) + Len(m) : u[i] = IF i <= Len(r) THEN r[i] ELSE m[i - Len(r)]
      BY ONLY <2>2, <3>1, ConcatProperties
    <3> QED BY <3>1, <3>2
  <2>4. ASSUME NEW i \in 1 .. k + n
        PROVE  s[i].path = u[i].path /\ s[i].is = u[i].is
    <3>1. CASE i <= k
      <4>1. i \in 1 .. k
        BY <1>1, <1>4, <3>1
      <4> QED BY <1>7, <2>3, <3>1, <4>1
    <3>2. CASE i > k
      <4>1. i - k \in 1 .. n /\ i \in 1 .. Len(s) /\ i \notin 1 .. k
        BY <1>1, <1>3, <1>4, <2>1, <3>2
      <4>2. u[i] = m[i - k]
        BY <1>1, <1>4, <2>3, <3>2
      <4>3. u[i].path = Len(p.httpPaths) - Left(c) + (i - k) /\ u[i].is = "open"
        BY <1>6, <4>1, <4>2 DEF MadeAt
      <4>4. i \in DOMAIN d.curls /\ i \notin DOMAIN c.curls
        BY <1>1, <1>4, <1>5, <4>1
      <4>5. d.curls[i].path = Len(p.httpPaths) - Left(c) + (i - k) /\ d.curls[i].txn = "open"
        BY <1>4, <4>4 DEF Asks, Asked
      <4> QED BY <1>5, <4>1, <4>3, <4>5
    <3> QED BY <1>1, <1>4, <3>1, <3>2
  <2>5. s = u
    BY <1>5, <2>1, <2>3, <2>4, SameRequests
  <2> QED BY <1>2, <1>3, <1>4, <1>9, <2>2, <2>5
<1> QED BY <1>8, <1>9

\* What a step between two states of a connected client makes of them.
Makes(p, c, d) ==
  \E S \in SUBSET OpenOf(RequestsOf(c)) :
    \/ /\ RequestsOf(d) = OverIn(RequestsOf(c), S)
       /\ Left(d) = Left(c) /\ d.drains = c.drains
    \/ \E n \in 1 .. Left(c) :
         /\ p.sendRequestsSequentially => n = 1 /\ OpenOf(RequestsOf(c)) \subseteq S
         /\ RequestsOf(d) = IF session = "goaway" THEN OverIn(RequestsOf(c), S)
                            ELSE OverIn(RequestsOf(c), S) \o MadeOf(p, Left(c), n)
         /\ Left(d) = Left(c) - n
         /\ d.drains = IF n = Left(c) THEN 1 ELSE 0

LEMMA StepMakes ==
  ASSUME NEW p, Len(p.httpPaths) \in Nat, NEW c, c \in Client, NEW l, Continues(c, l),
         NEW d, d \in Client, Goes(p, l, d)
  PROVE  Makes(p, c, d)
<1>1. PICK r, s : r = RequestsOf(c) /\ s = RequestsOf(l)
  OBVIOUS
<1>2. /\ l \in Client /\ Left(l) = Left(c) /\ l.drains = c.drains
      /\ Len(l.curls) = Len(c.curls) /\ DOMAIN l.curls = DOMAIN c.curls
  BY DEF Continues, Left
<1>3. /\ Left(c) \in Nat /\ Left(d) \in Nat /\ Len(c.curls) \in Nat /\ Len(d.curls) \in Nat
      /\ DOMAIN c.curls = 1 .. Len(c.curls) /\ DOMAIN d.curls = 1 .. Len(d.curls)
  BY ClientFields
<1>4. /\ r \in Seq(RequestType) /\ Len(r) = Len(c.curls) /\ DOMAIN r = 1 .. Len(c.curls)
      /\ \A i \in 1 .. Len(c.curls) : /\ r[i].path = c.curls[i].path
                                      /\ r[i].is = IF c.curls[i].txn = "open" THEN "open" ELSE "over"
  BY <1>1, <1>3, RequestsAre
<1>5. /\ s \in Seq(RequestType) /\ Len(s) = Len(c.curls)
      /\ \A i \in 1 .. Len(c.curls) : /\ s[i].path = l.curls[i].path
                                      /\ s[i].is = IF l.curls[i].txn = "open" THEN "open" ELSE "over"
  BY <1>1, <1>2, <1>3, RequestsAre
<1>6. PICK S : S = {i \in 1 .. Len(c.curls) : c.curls[i].txn = "open" /\ l.curls[i].txn # "open"}
  OBVIOUS
<1>7. S \subseteq OpenOf(r)
  BY <1>4, <1>6 DEF OpenOf
<1>8. PICK o : o = OverIn(r, S)
  OBVIOUS
<1>9. s = o
  <2>1. /\ o \in Seq(RequestType) /\ Len(o) = Len(r)
        /\ \A i \in 1 .. Len(r) : o[i].path = r[i].path /\ o[i].is = IF i \in S THEN "over" ELSE r[i].is
    BY <1>4, <1>8, RequestsEnd
  <2>2. \A i \in 1 .. Len(c.curls) : /\ l.curls[i].path = c.curls[i].path
                                     /\ l.curls[i].txn = "open" => c.curls[i].txn = "open"
    BY <1>3 DEF Continues, GoesOn
  <2>3. ASSUME NEW i \in 1 .. Len(s) PROVE s[i].path = o[i].path /\ s[i].is = o[i].is
    <3>1. i \in 1 .. Len(c.curls) /\ i \in 1 .. Len(r)
      BY <1>4, <1>5
    <3>2. i \in S <=> c.curls[i].txn = "open" /\ l.curls[i].txn # "open"
      BY <1>6, <3>1
    <3> QED BY <1>4, <1>5, <2>1, <2>2, <3>1, <3>2
  <2>4. Len(s) = Len(o)
    BY <1>4, <1>5, <2>1
  <2> QED BY <1>5, <2>1, <2>3, <2>4, SameRequests
<1>10. CASE Waits(l, d)
  <2>1. PICK u : u = RequestsOf(d)
    OBVIOUS
  <2>2. /\ u \in Seq(RequestType) /\ Len(u) = Len(c.curls)
        /\ \A i \in 1 .. Len(c.curls) : /\ u[i].path = d.curls[i].path
                                        /\ u[i].is = IF d.curls[i].txn = "open" THEN "open" ELSE "over"
    BY <1>2, <1>3, <1>10, <2>1, RequestsAre DEF Waits
  <2>3. \A i \in 1 .. Len(c.curls) : u[i].path = s[i].path /\ u[i].is = s[i].is
    BY <1>2, <1>3, <1>5, <1>10, <2>2 DEF Waits, Retains
  <2>4. u = s
    BY <1>5, <2>2, <2>3, SameRequests
  <2>5. Left(d) = Left(c) /\ d.drains = c.drains
    BY <1>2, <1>10 DEF Waits
  <2> QED BY <1>1, <1>7, <1>8, <1>9, <2>1, <2>4, <2>5 DEF Makes
<1>11. CASE Asks(p, l, d) /\ d.drains = IF Left(d) = 0 THEN 1 ELSE 0
  <2>1. PICK n : n = Left(l) - Left(d)
    OBVIOUS
  <2>2. /\ Left(l) - Left(d) \in 1 .. Left(l)
        /\ RequestsOf(d) = IF session = "goaway" THEN RequestsOf(l)
                           ELSE RequestsOf(l) \o MadeOf(p, Left(l), Left(l) - Left(d))
    BY <1>2, <1>11, BatchMakes
  <2>3. n \in 1 .. Left(c) /\ Left(d) = Left(c) - n /\ (n = Left(c) <=> Left(d) = 0)
    BY <1>2, <1>3, <2>1, <2>2
  <2>4. RequestsOf(d) = IF session = "goaway" THEN o ELSE o \o MadeOf(p, Left(c), n)
    BY <1>1, <1>2, <1>9, <2>1, <2>2
  <2>5. p.sendRequestsSequentially => n = 1 /\ OpenOf(r) \subseteq S
    <3> SUFFICES ASSUME p.sendRequestsSequentially PROVE n = 1 /\ OpenOf(r) \subseteq S
      OBVIOUS
    <3>1. Left(d) = Left(l) - 1 /\ NoneOpen(l)
      BY <1>11 DEF Asks
    <3>2. n = 1
      BY <1>2, <1>3, <2>1, <3>1
    <3>3. \A i \in 1 .. Len(c.curls) : l.curls[i].txn # "open"
      BY <1>2, <1>3, <3>1 DEF NoneOpen
    <3>4. OpenOf(r) \subseteq S
      BY <1>4, <1>6, <3>3 DEF OpenOf
    <3> QED BY <3>2, <3>4
  <2>6. d.drains = IF n = Left(c) THEN 1 ELSE 0
    BY <1>11, <2>3
  <2> QED BY <1>1, <1>7, <1>8, <2>3, <2>4, <2>5, <2>6 DEF Makes
<1> QED BY <1>10, <1>11 DEF Goes

\* At first nothing is requested.
LEMMA InitQueue == Init => Queue!Init
<1> SUFFICES ASSUME Init PROVE Queue!Init
  OBVIOUS
<1>1. flags \in Flag /\ phase = "begin" /\ faults = {} /\ Fresh(client)
  BY InitClient, InvocationsAssumption DEF Init, ClientInv, ProcessOK, Connected
<1>2. PICK n : n = Len(params.httpPaths)
  OBVIOUS
<1>3. n \in Nat \ {0}
  BY <1>1, <1>2, ParamsOfClient, LenProperties
<1>4. params.sendRequestsSequentially \in BOOLEAN /\ params.migrateClient \in BOOLEAN
  BY <1>1, ParamsOfClient
<1>5. client.curls = <<>> /\ client.httpPaths = <<>> /\ client.drains = 0
  BY <1>1 DEF Fresh
<1>6. Requests = <<>>
  BY <1>5 DEF Requests
<1> QED BY <1>1, <1>2, <1>3, <1>4, <1>5, <1>6 DEF Queue!Init

\* A step of the client is one of the queue, or none.
LEMMA StepQueue == ClientInv /\ ClientInv' /\ QueueStep => [Queue!Next]_Queue!queueVars
<1> SUFFICES ASSUME ClientInv, ClientInv', QueueStep PROVE [Queue!Next]_Queue!queueVars
  OBVIOUS
<1>1. flags' = flags /\ params' = params /\ flags \in Flag
  BY InvocationsAssumption DEF QueueStep, ClientInv, ProcessOK, params
<1>2. PICK p, c, d : p = params /\ c = client /\ d = client'
  OBVIOUS
<1>3. PICK n : n = Len(p.httpPaths)
  OBVIOUS
<1>4. n \in Nat
  BY <1>1, <1>2, <1>3, ParamsOfClient, LenProperties
<1>5. c \in Client /\ d \in Client
  BY <1>2 DEF ClientInv, ProcessOK, ClientOK, BatchOK, Fresh
<1>6. Left(c) \in Nat /\ Left(d) \in Nat
  BY <1>5, ClientFields
<1>7. PICK q, r : q = RequestsOf(c) /\ r = RequestsOf(d)
  OBVIOUS
<1>8. Requests = q /\ Requests' = r
  BY <1>2, <1>7 DEF Requests, RequestsOf
<1>9. /\ Queue!Open = OpenOf(q)
      /\ \A S : Queue!Over(S) = OverIn(q, S)
      /\ \A m, k : Queue!Made(m, k) = MadeOf(p, m, k)
  BY <1>2, <1>8 DEF Queue!Open, Queue!Over, Queue!Made, OpenOf, OverIn, MadeOf, MadeAt
<1>10. session = "goaway" => "goaway" \in faults
  BY DEF ClientInv, SessionOK
<1>11. CASE flags' = flags /\ client' = client /\ faults' = faults /\ (Connected' <=> Connected)
  <2>1. Requests' = Requests
    BY <1>2, <1>7, <1>8, <1>11
  <2> QED BY <1>1, <1>11, <2>1 DEF Queue!queueVars, Connected
<1>12. CASE /\ phase = "connecting" /\ phase' = "connected" /\ flags' = flags
            /\ session = "none" /\ faults = {} /\ faults' = {} /\ Starts(params, client')
  <2>1. PICK b : /\ b \in Client /\ Left(b) = n /\ b.curls = <<>> /\ Asks(p, b, d)
                 /\ d.drains = IF ~p.migrateClient /\ Left(d) = 0 THEN 1 ELSE 0
    BY <1>2, <1>3, <1>12 DEF Starts
  <2>2. RequestsOf(b) = <<>>
    BY <2>1 DEF RequestsOf
  <2>3. PICK k : k = n - Left(d)
    OBVIOUS
  <2>4. k \in 1 .. n /\ r = <<>> \o MadeOf(p, n, k)
    <3>1. Len(p.httpPaths) \in Nat
      BY <1>3, <1>4
    <3>2. /\ Left(b) - Left(d) \in 1 .. Left(b)
          /\ RequestsOf(d) = IF session = "goaway" THEN RequestsOf(b)
                             ELSE RequestsOf(b) \o MadeOf(p, Left(b), Left(b) - Left(d))
      BY <1>5, <2>1, <3>1, BatchMakes
    <3> QED BY <1>7, <1>12, <2>1, <2>2, <2>3, <3>2
  <2>5. r = MadeOf(p, n, k)
    <3>1. MadeOf(p, n, k) \in Seq(RequestType)
      BY <1>3, <1>4, <2>4, RequestsMade
    <3> QED BY <2>4, <3>1
  <2>6. p.sendRequestsSequentially => k = 1
    BY <1>4, <1>6, <2>1, <2>3 DEF Asks
  <2>7. Left(d) = n - k /\ (Left(d) = 0 <=> k = n)
    BY <1>4, <1>6, <2>3
  <2>8. Queue!Start(k)
    BY <1>1, <1>2, <1>3, <1>8, <1>9, <1>12, <2>1, <2>5, <2>6, <2>7 DEF Queue!Start, Left
  <2> QED BY <1>2, <1>3, <2>4, <2>8 DEF Queue!Next
<1>13. CASE /\ Connected /\ Connected' /\ flags' = flags
            /\ "goaway" \in faults' <=> "goaway" \in faults
            /\ \E l : Continues(client, l) /\ Goes(params, l, client')
  <2>1. PICK l : Continues(c, l) /\ Goes(p, l, d)
    BY <1>2, <1>13
  <2>2. Len(p.httpPaths) \in Nat
    BY <1>3, <1>4
  <2>3. PICK S \in SUBSET OpenOf(q) :
          \/ r = OverIn(q, S) /\ Left(d) = Left(c) /\ d.drains = c.drains
          \/ \E k \in 1 .. Left(c) :
               /\ p.sendRequestsSequentially => k = 1 /\ OpenOf(q) \subseteq S
               /\ r = IF session = "goaway" THEN OverIn(q, S)
                      ELSE OverIn(q, S) \o MadeOf(p, Left(c), k)
               /\ Left(d) = Left(c) - k
               /\ d.drains = IF k = Left(c) THEN 1 ELSE 0
    <3>1. Makes(p, c, d)
      BY <1>5, <2>1, <2>2, StepMakes
    <3> QED BY <1>7, <3>1 DEF Makes
  <2>4. S \in SUBSET Queue!Open
    BY <1>9, <2>3
  <2>5. CASE r = OverIn(q, S) /\ Left(d) = Left(c) /\ d.drains = c.drains
    <3>1. Queue!End(S)
      BY <1>1, <1>2, <1>8, <1>9, <1>13, <2>5 DEF Queue!End, Left, Connected
    <3> QED BY <2>4, <3>1 DEF Queue!Next
  <2>6. ASSUME NEW k \in 1 .. Left(c),
               /\ p.sendRequestsSequentially => k = 1 /\ OpenOf(q) \subseteq S
               /\ r = IF session = "goaway" THEN OverIn(q, S)
                      ELSE OverIn(q, S) \o MadeOf(p, Left(c), k)
               /\ Left(d) = Left(c) - k
               /\ d.drains = IF k = Left(c) THEN 1 ELSE 0
        PROVE  Queue!Next
    <3>1. \/ r = Queue!Over(S) \o Queue!Made(Left(c), k)
          \/ "goaway" \in faults /\ r = Queue!Over(S)
      BY <1>9, <1>10, <2>6
    <3>2. Queue!Continue(S, k)
      BY <1>1, <1>2, <1>8, <1>9, <1>13, <2>6, <3>1 DEF Queue!Continue, Left, Connected
    <3> QED BY <1>2, <2>4, <3>2 DEF Queue!Next, Left
  <2> QED BY <2>3, <2>5, <2>6
<1>14. CASE Connected /\ Connected' /\ flags' = flags /\ client' = client /\ "goaway" \in faults'
  <2>1. Requests' = Requests
    BY <1>2, <1>7, <1>8, <1>14
  <2>2. Queue!GoAway
    BY <1>1, <1>14, <2>1 DEF Queue!GoAway, Connected
  <2> QED BY <2>2 DEF Queue!Next
<1> QED BY <1>11, <1>12, <1>13, <1>14 DEF QueueStep

\* The client keeps what RequestQueue promises whoever started it.
THEOREM ClientKeepsItsQueue == Spec => KeepsItsQueue
<1>1. ClientInv /\ [Next]_vars => ClientInv' /\ QueueStep
  BY StepClient DEF Stepped
<1>2. ClientInv /\ [Next]_vars => [Queue!Next]_Queue!queueVars
  BY <1>1, StepQueue
<1> QED BY <1>2, InitQueue, ClientInvariant, PTL DEF Spec, KeepsItsQueue, Queue!Spec
=============================================================================
