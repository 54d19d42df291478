-------------------------- MODULE ConnIdLoggerProofs --------------------------
(***************************************************************************)
(* Proofs about ConnIdLogger, for any ids, descriptors and maximal age:    *)
(* the descriptors are those of the map, a log that is idle is closed when *)
(* another is written to, and every message reaches the logs it names, so  *)
(* that a sink implements ConnectionLogs.                                  *)
(***************************************************************************)
EXTENDS ConnIdLogger, SequenceTheorems, TLAPS

(***************************************************************************)
(* Beyond the property that is wanted, the types: the map's entries have   *)
(* descriptors of the table, or nothing would be known of a write.         *)
(***************************************************************************)
LogInv == /\ now \in 0 .. MaxTime
          /\ DOMAIN fdMap \subseteq Cid
          /\ fdMap \in [DOMAIN fdMap -> Entry]
          /\ files \in [Fd -> Cid \cup {Closed}]
          /\ DescriptorsAreOwn

\* fd is, or may become, the descriptor of cid's log.
Usable(cid, fd) == \/ cid \in DOMAIN fdMap /\ fd = fdMap[cid].fd
                   \/ cid \notin DOMAIN fdMap /\ files[fd] = Closed
-----------------------------------------------------------------------------
\* The map after an id was used, and that the id's own entry is not erased.
LEMMA Used ==
  ASSUME LogInv, NEW cid \in Cid, NEW fd \in Fd
  PROVE  /\ DOMAIN Use(fdMap, cid, fd) = DOMAIN fdMap \cup {cid}
         /\ Use(fdMap, cid, fd)[cid] = [fd |-> fd, last |-> now]
         /\ \A c \in DOMAIN fdMap \ {cid} : Use(fdMap, cid, fd)[c] = fdMap[c]
         /\ \A c \in DOMAIN fdMap \cup {cid} : Use(fdMap, cid, fd)[c] \in Entry
         /\ cid \in Kept(Use(fdMap, cid, fd))
<1>1. /\ DOMAIN Use(fdMap, cid, fd) = DOMAIN fdMap \cup {cid}
      /\ Use(fdMap, cid, fd)[cid] = [fd |-> fd, last |-> now]
      /\ \A c \in DOMAIN fdMap \ {cid} : Use(fdMap, cid, fd)[c] = fdMap[c]
  BY DEF Use
<1>2. [fd |-> fd, last |-> now] \in Entry
  BY DEF LogInv, Entry
<1>3. \A c \in DOMAIN fdMap \cup {cid} : Use(fdMap, cid, fd)[c] \in Entry
  BY <1>1, <1>2 DEF LogInv
<1>4. now <= Use(fdMap, cid, fd)[cid].last + kMaxAge
  BY <1>1, TimeAssumption DEF LogInv
<1>5. cid \in Kept(Use(fdMap, cid, fd))
  BY <1>1, <1>4 DEF Kept
<1> QED BY <1>1, <1>3, <1>5

\* Two entries never have the same descriptor.
LEMMA Distinct ==
  ASSUME LogInv, NEW cid \in Cid, NEW fd \in Fd, Usable(cid, fd),
         NEW c \in DOMAIN fdMap \ {cid}
  PROVE  fdMap[c].fd \in Fd /\ fdMap[c].fd # fd
<1>1. fdMap[c].fd \in Fd
  BY DEF LogInv, Entry
<1>2. files[fdMap[c].fd] = c /\ c \in Cid
  BY DEF LogInv, DescriptorsAreOwn
<1>3. files[fd] \in {cid, Closed}
  BY DEF Usable, LogInv, DescriptorsAreOwn
<1> QED BY <1>1, <1>2, <1>3, ClosedAssumption

\* The table after a turn of the loop: what the descriptor in use is of, what
\* the others are.
LEMMA Tabled ==
  ASSUME LogInv, NEW cid \in Cid, NEW fd \in Fd, Usable(cid, fd)
  PROVE  LET map == Use(fdMap, cid, fd)
             table == Table(map, cid, fd)
         IN  /\ table \in [Fd -> Cid \cup {Closed}]
             /\ table[fd] = cid
             /\ \A f \in Fd \ {fd} :
                  table[f] = IF \E c \in DOMAIN map \ Kept(map) : map[c].fd = f
                             THEN Closed ELSE files[f]
<1> DEFINE map == Use(fdMap, cid, fd)
<1>1. ASSUME NEW c \in DOMAIN map \ Kept(map)
      PROVE  c \in DOMAIN fdMap \ {cid} /\ map[c] = fdMap[c]
  <2>1. /\ DOMAIN map = DOMAIN fdMap \cup {cid} /\ cid \in Kept(map)
        /\ \A b \in DOMAIN fdMap \ {cid} : map[b] = fdMap[b]
    BY Used
  <2> HIDE DEF map
  <2> QED BY <2>1
<1>2. \A c \in DOMAIN map \ Kept(map) : map[c].fd # fd
  BY <1>1, Distinct
<1>3. [files EXCEPT ![fd] = cid] \in [Fd -> Cid \cup {Closed}]
  BY DEF LogInv
<1>4. /\ [files EXCEPT ![fd] = cid][fd] = cid
      /\ \A f \in Fd \ {fd} : [files EXCEPT ![fd] = cid][f] = files[f]
  BY DEF LogInv
<1> HIDE DEF map
<1>5. Table(map, cid, fd) \in [Fd -> Cid \cup {Closed}]
  BY <1>3 DEF Table
<1>6. Table(map, cid, fd)[fd] = cid
  BY <1>2, <1>4 DEF Table
<1>7. \A f \in Fd \ {fd} :
        Table(map, cid, fd)[f] = IF \E c \in DOMAIN map \ Kept(map) : map[c].fd = f
                                 THEN Closed ELSE files[f]
  BY <1>4 DEF Table
<1> QED BY <1>5, <1>6, <1>7 DEF map

\* A turn of the loop keeps LogInv.
LEMMA LogKeeps ==
  ASSUME LogInv, NEW cid \in Cid, NEW fd \in Fd, Usable(cid, fd), Log(cid, fd)
  PROVE  LogInv'
<1> DEFINE map == Use(fdMap, cid, fd)
<1>1. /\ fdMap' = [c \in Kept(map) |-> map[c]] /\ files' = Table(map, cid, fd)
      /\ now' = now
  BY DEF Log
<1>2. /\ DOMAIN map = DOMAIN fdMap \cup {cid} /\ map[cid] = [fd |-> fd, last |-> now]
      /\ \A c \in DOMAIN fdMap \ {cid} : map[c] = fdMap[c]
      /\ \A c \in DOMAIN map : map[c] \in Entry
      /\ cid \in Kept(map)
  BY Used
<1>3. /\ files' \in [Fd -> Cid \cup {Closed}] /\ files'[fd] = cid
      /\ \A f \in Fd \ {fd} :
           files'[f] = IF \E c \in DOMAIN map \ Kept(map) : map[c].fd = f
                       THEN Closed ELSE files[f]
  BY <1>1, Tabled
<1>4. Kept(map) \subseteq DOMAIN map
  BY DEF Kept
<1> HIDE DEF map
<1>5. /\ DOMAIN fdMap' = Kept(map) /\ Kept(map) \subseteq Cid
      /\ \A c \in Kept(map) : fdMap'[c] = map[c]
  BY <1>1, <1>2, <1>4 DEF LogInv
<1>6. fdMap' \in [DOMAIN fdMap' -> Entry]
  BY <1>1, <1>2, <1>4, <1>5
<1>7. ASSUME NEW c \in Kept(map) PROVE files'[fdMap'[c].fd] = c
  <2>1. CASE c = cid
    BY <1>2, <1>3, <1>5, <2>1
  <2>2. CASE c # cid
    <3>1. c \in DOMAIN fdMap \ {cid} /\ fdMap'[c].fd = fdMap[c].fd
      BY <1>2, <1>4, <1>5, <2>2
    <3>2. fdMap[c].fd \in Fd \ {fd}
      BY <3>1, Distinct
    <3>3. files[fdMap[c].fd] = c
      BY <3>1 DEF LogInv, DescriptorsAreOwn
    <3>4. ASSUME NEW b \in DOMAIN map \ Kept(map) PROVE map[b].fd # fdMap[c].fd
      <4>1. b \in DOMAIN fdMap /\ map[b] = fdMap[b] /\ b # c
        BY <1>2, <3>4
      <4>2. files[fdMap[b].fd] = b
        BY <4>1 DEF LogInv, DescriptorsAreOwn
      <4> QED BY <3>3, <4>1, <4>2
    <3> QED BY <1>3, <3>1, <3>2, <3>3, <3>4
  <2> QED BY <2>1, <2>2
<1>8. ASSUME NEW f \in Fd, files'[f] # Closed
      PROVE  files'[f] \in Kept(map) /\ fdMap'[files'[f]].fd = f
  <2>1. CASE f = fd
    BY <1>2, <1>3, <1>5, <2>1
  <2>2. CASE f # fd
    <3>1. files'[f] = files[f] /\ ~ \E c \in DOMAIN map \ Kept(map) : map[c].fd = f
      BY <1>3, <1>8, <2>2
    <3>2. files[f] \in DOMAIN fdMap /\ fdMap[files[f]].fd = f
      BY <1>8, <3>1 DEF LogInv, DescriptorsAreOwn
    <3>3. files[f] # cid
      BY <2>2, <3>2 DEF Usable
    <3>4. files[f] \in DOMAIN map /\ map[files[f]].fd = f
      BY <1>2, <3>2, <3>3
    <3> QED BY <1>5, <3>1, <3>4
  <2> QED BY <2>1, <2>2
<1>9. DescriptorsAreOwn'
  BY <1>5, <1>7, <1>8 DEF DescriptorsAreOwn
<1> QED BY <1>1, <1>3, <1>5, <1>6, <1>9 DEF LogInv

\* Found and Opened are turns of the loop with a descriptor that may be used.
LEMMA Turns ==
  ASSUME LogInv, Found \/ Opened
  PROVE  /\ pieces # <<>> /\ Head(pieces) \in Cid
         /\ \E fd \in Fd : Usable(Head(pieces), fd) /\ Log(Head(pieces), fd)
<1>1. CASE Found
  <2>1. Head(pieces) \in DOMAIN fdMap /\ Head(pieces) \in Cid
    BY <1>1 DEF Found, LogInv
  <2>2. fdMap[Head(pieces)].fd \in Fd
    BY <2>1 DEF LogInv, Entry
  <2> QED BY <1>1, <2>1, <2>2 DEF Found, Usable
<1>2. CASE Opened
  BY <1>2 DEF Opened, Usable
<1> QED BY <1>1, <1>2
-----------------------------------------------------------------------------
\* LogInv is an invariant of the sink.
THEOREM LogInvariant == Spec => []LogInv
<1>1. Init => LogInv
  BY DEF Init, LogInv, DescriptorsAreOwn
<1>2. LogInv /\ [Next]_vars => LogInv'
  <2> SUFFICES ASSUME LogInv, [Next]_vars PROVE LogInv'
    OBVIOUS
  <2>1. CASE Clock
    BY <2>1 DEF Clock, LogInv, DescriptorsAreOwn
  <2>2. CASE Found \/ Opened
    BY <2>2, Turns, LogKeeps
  <2>3. CASE send \/ OpenFails \/ Skip \/ UNCHANGED vars
    BY <2>3 DEF send, OpenFails, Skip, vars, LogInv, DescriptorsAreOwn
  <2> QED BY <2>1, <2>2, <2>3 DEF Next
<1> QED BY <1>1, <1>2, PTL DEF Spec

\* The files ConnIdLogSink has open are those of its map, each of its own id.
THEOREM DescriptorsStayOwn == Spec => []DescriptorsAreOwn
<1>1. LogInv => DescriptorsAreOwn
  BY DEF LogInv
<1> QED BY <1>1, LogInvariant, PTL

\* What IdleLogsAreClosed needs besides: a log that is open was written to,
\* and no message in it is later than the one being logged.
OrderInv == /\ number \in Nat
            /\ logs \in [Cid -> Seq(Nat)]
            /\ \A c \in DOMAIN fdMap : logs[c] # <<>> /\ LastIn(c) <= number
            /\ IdleLogsAreClosed

\* A turn of the loop keeps it: what remains open besides the log in use was
\* used within kMaxAge of it, and no message is later than its last.
LEMMA LogKeepsOrder ==
  ASSUME LogInv, OrderInv, NEW cid \in Cid, NEW fd \in Fd, Usable(cid, fd), Log(cid, fd)
  PROVE  OrderInv'
<1> DEFINE map == Use(fdMap, cid, fd)
<1>1. /\ DOMAIN map = DOMAIN fdMap \cup {cid} /\ map[cid] = [fd |-> fd, last |-> now]
      /\ \A c \in DOMAIN fdMap \ {cid} : map[c] = fdMap[c]
      /\ \A c \in DOMAIN map : map[c] \in Entry
  BY Used
<1>2. /\ fdMap' = [c \in Kept(map) |-> map[c]] /\ number' = number
  BY DEF Log
<1>3. logs' = [logs EXCEPT ![cid] = Append(@, number)]
  <2>1. files'[fd] = cid
    BY Tabled DEF Log
  <2> QED BY <2>1, ClosedAssumption DEF Log
<1> HIDE DEF map
<1>4. /\ DOMAIN fdMap' \subseteq DOMAIN fdMap \cup {cid} /\ DOMAIN fdMap' \subseteq Cid
      /\ \A c \in DOMAIN fdMap' : fdMap'[c] = map[c] /\ now <= map[c].last + kMaxAge
  BY <1>1, <1>2 DEF Kept, LogInv
<1>5. /\ logs' \in [Cid -> Seq(Nat)]
      /\ logs'[cid] = Append(logs[cid], number) /\ logs[cid] \in Seq(Nat) /\ number \in Nat
      /\ \A c \in Cid \ {cid} : logs'[c] = logs[c]
  BY <1>3, AppendProperties DEF OrderInv
<1>6. logs'[cid] # <<>> /\ LastIn(cid)' = number
  <2>1. LastIn(cid)' = logs'[cid][Len(logs'[cid])]
    BY DEF LastIn
  <2> QED BY <1>5, <2>1, AppendProperties, LenProperties
<1>7. ASSUME NEW c \in DOMAIN fdMap', c # cid
      PROVE  /\ c \in DOMAIN fdMap /\ fdMap'[c] = fdMap[c] /\ logs'[c] = logs[c]
             /\ LastIn(c)' = LastIn(c) /\ LastIn(c) <= number
  BY <1>1, <1>4, <1>5, <1>7 DEF LastIn, OrderInv
<1>8. \A c \in DOMAIN fdMap' : logs'[c] # <<>> /\ LastIn(c)' <= number'
  <2> SUFFICES ASSUME NEW c \in DOMAIN fdMap' PROVE logs'[c] # <<>> /\ LastIn(c)' <= number'
    OBVIOUS
  <2>1. CASE c = cid
    BY <1>2, <1>5, <1>6, <2>1
  <2>2. CASE c # cid
    BY <1>2, <1>7, <2>2 DEF OrderInv
  <2> QED BY <2>1, <2>2
<1>9. ASSUME NEW b \in DOMAIN fdMap', NEW c \in DOMAIN fdMap', LastIn(c)' < LastIn(b)'
      PROVE  fdMap'[b].last <= fdMap'[c].last + kMaxAge
  <2>1. CASE b = cid
    BY <1>1, <1>4, <2>1
  <2>2. CASE b # cid /\ c = cid
    <3>1. LastIn(b)' <= number /\ LastIn(b)' \in Nat
      <4>1. logs[b] # <<>> /\ logs[b] \in Seq(Nat)
        BY <1>4, <1>7, <2>2 DEF OrderInv
      <4>2. LastIn(b) \in Nat
        BY <4>1, LenProperties DEF LastIn
      <4> QED BY <1>7, <2>2, <4>2
    <3>2. LastIn(c)' = number
      BY <1>6, <2>2
    <3> QED BY <1>5, <1>9, <3>1, <3>2
  <2>3. CASE b # cid /\ c # cid
    BY <1>7, <1>9, <2>3 DEF OrderInv, IdleLogsAreClosed
  <2> QED BY <2>1, <2>2, <2>3
<1>10. IdleLogsAreClosed'
  BY <1>9 DEF IdleLogsAreClosed
<1> QED BY <1>2, <1>5, <1>8, <1>10 DEF OrderInv

\* No log is still open that was idle for longer than kMaxAge when another
\* was written to: closeOldFds saw to it in that turn of the loop.
THEOREM IdleLogsClosed == Spec => []IdleLogsAreClosed
<1>1. Init => OrderInv
  BY DEF Init, OrderInv, IdleLogsAreClosed
<1>2. LogInv /\ OrderInv /\ [Next]_vars => OrderInv'
  <2> SUFFICES ASSUME LogInv, OrderInv, [Next]_vars PROVE OrderInv'
    OBVIOUS
  <2>1. CASE Found \/ Opened
    BY <2>1, Turns, LogKeepsOrder
  <2>2. CASE send
    <3>1. /\ number' = number + 1 /\ fdMap' = fdMap /\ logs' = logs
          /\ number \in Nat /\ logs \in [Cid -> Seq(Nat)] /\ DOMAIN fdMap \subseteq Cid
      BY <2>2 DEF send, OrderInv, LogInv
    <3>2. ASSUME NEW c \in DOMAIN fdMap'
          PROVE  logs'[c] # <<>> /\ LastIn(c)' <= number'
      <4>1. logs[c] # <<>> /\ logs[c] \in Seq(Nat) /\ LastIn(c) <= number
        BY <3>1 DEF OrderInv
      <4>2. LastIn(c) \in Nat
        BY <4>1, LenProperties DEF LastIn
      <4>3. LastIn(c)' = LastIn(c)
        BY <3>1 DEF LastIn
      <4> QED BY <3>1, <4>1, <4>2, <4>3
    <3>3. IdleLogsAreClosed'
      BY <3>1 DEF OrderInv, IdleLogsAreClosed, LastIn
    <3> QED BY <3>1, <3>2, <3>3 DEF OrderInv
  <2>3. CASE Clock \/ OpenFails \/ Skip \/ UNCHANGED vars
    BY <2>3 DEF Clock, OpenFails, Skip, vars, OrderInv, IdleLogsAreClosed, LastIn
  <2> QED BY <2>1, <2>2, <2>3 DEF Next
<1>3. OrderInv => IdleLogsAreClosed
  BY DEF OrderInv
<1> QED BY <1>1, <1>2, <1>3, LogInvariant, PTL DEF Spec

\* ConnIdLogSink::send implements ConnectionLogs: a message is appended to
\* the log of every id it names, although the descriptor is found under the
\* lock and written to after closeOldFds has closed others.
THEOREM LogsImplemented == Spec => LogsAreComplete
<1>1. Init => Abstract!Init
  BY DEF Init, Abstract!Init
<1>2. LogInv /\ [Next]_vars => [Abstract!Next]_(Abstract!vars)
  <2> SUFFICES ASSUME LogInv, [Next]_vars PROVE [Abstract!Next]_(Abstract!vars)
    OBVIOUS
  <2>1. CASE Clock \/ UNCHANGED vars
    BY <2>1 DEF Clock, vars, Abstract!vars
  <2>2. CASE send
    BY <2>2 DEF send, Abstract!Next, Abstract!Message
  <2>3. CASE Found \/ Opened
    <3>1. PICK fd \in Fd : Usable(Head(pieces), fd) /\ Log(Head(pieces), fd)
      BY <2>3, Turns
    <3>2. pieces # <<>> /\ Head(pieces) \in Cid
      BY <2>3, Turns
    <3>3. files'[fd] = Head(pieces)
      BY <3>1, <3>2, Tabled DEF Log
    <3>4. /\ logs' = [logs EXCEPT ![Head(pieces)] = Append(@, number)]
          /\ pieces' = Tail(pieces) /\ number' = number
      BY <3>1, <3>2, <3>3, ClosedAssumption DEF Log
    <3> QED BY <3>2, <3>4 DEF Abstract!Next, Abstract!Write
  <2>4. CASE OpenFails
    BY <2>4 DEF OpenFails, Abstract!Next, Abstract!Abandon
  <2>5. CASE Skip
    BY <2>5 DEF Skip, Abstract!Next, Abstract!Skip
  <2> QED BY <2>1, <2>2, <2>3, <2>4, <2>5 DEF Next
<1> QED BY <1>1, <1>2, LogInvariant, PTL DEF Spec, LogsAreComplete, Abstract!Spec
=============================================================================
