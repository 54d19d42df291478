----------------------------- MODULE ConnIdLogger -----------------------------
(***************************************************************************)
(* ConnIdLogSink: it keeps a file open per connection id, opens one when   *)
(* an id turns up that has none, and closes those that were not used for a *)
(* minute.  A write goes to a descriptor's number, whatever file that is.  *)
(* glog calls send under a lock of its own, so that messages do not        *)
(* overlap; the clock is the system's, and may be set at any time.         *)
(***************************************************************************)
EXTENDS Naturals, Sequences

CONSTANTS Cid,        \* pieces that are alphanumeric; the empty one is too
          Lines,      \* for a message, what follows its "CID=", split at the
                      \* commas: nothing unless "CID=" occurs exactly once
          Fd,         \* the descriptors a process may have
          Closed,     \* no file
          kMaxAge,    \* 60 s in the code
          MaxTime,    \* bound: what the clock shows
          MaxLines    \* bound: messages logged

ASSUME ClosedAssumption == Closed \notin Cid
ASSUME TimeAssumption == kMaxAge \in Nat /\ MaxTime \in Nat

VARIABLES now,     \* the system's clock
          fdMap,   \* the map: id to descriptor and time of last use
          files,   \* the kernel's table: the id whose log a descriptor is of
          logs, pieces, number   \* as in ConnectionLogs

vars == <<now, fdMap, files, logs, pieces, number>>

Entry == [fd : Fd, last : 0 .. MaxTime]

Init == /\ now \in 0 .. MaxTime
        /\ fdMap = [c \in {} |-> 0]
        /\ files = [f \in Fd |-> Closed]
        /\ logs = [c \in Cid |-> <<>>]
        /\ pieces = <<>>
        /\ number = 0

\* External: time passes, or the clock is set.
Clock == /\ now' \in 0 .. MaxTime
         /\ UNCHANGED <<fdMap, files, logs, pieces, number>>

\* send, up to its loop.
send == /\ pieces = <<>>
        /\ number < MaxLines
        /\ pieces' \in Lines
        /\ number' = number + 1
        /\ UNCHANGED <<now, fdMap, files, logs>>

\* The entry of an id after it was looked up.  Mutant: the time of one that
\* was found is not renewed.
Use_Stale(map, cid, fd) ==
  IF cid \in DOMAIN map THEN map
  ELSE [c \in DOMAIN map \cup {cid} |-> IF c = cid THEN [fd |-> fd, last |-> now] ELSE map[c]]
Use(map, cid, fd) ==
  [c \in DOMAIN map \cup {cid} |-> IF c = cid THEN [fd |-> fd, last |-> now] ELSE map[c]]

\* closeOldFds keeps these entries.  Mutant: only the oldest is ever erased.
Kept_Oldest(map) ==
  {c \in DOMAIN map : \/ now <= map[c].last + kMaxAge
                      \/ \E b \in DOMAIN map : map[b].last < map[c].last}
Kept(map) == {c \in DOMAIN map : now <= map[c].last + kMaxAge}

\* What the descriptors are of: fd of cid's log, and those of the entries that
\* were erased of nothing.  Mutant: an erased entry's file is not closed.
Table_Leaks(map, cid, fd) == [files EXCEPT ![fd] = cid]
Table(map, cid, fd) ==
  LET open == [files EXCEPT ![fd] = cid]
  IN  [f \in Fd |-> IF \E c \in DOMAIN map \ Kept(map) : map[c].fd = f THEN Closed
                    ELSE open[f]]

\* One turn of the loop with an id whose log has this descriptor.
Log(cid, fd) ==
  LET map == Use(fdMap, cid, fd)
  IN  /\ fdMap' = [c \in Kept(map) |-> map[c]]
      /\ files' = Table(map, cid, fd)
      /\ logs' = IF files'[fd] = Closed THEN logs
                 ELSE [logs EXCEPT ![files'[fd]] = Append(@, number)]
      /\ pieces' = Tail(pieces)
      /\ UNCHANGED <<now, number>>

Found == /\ pieces # <<>>
         /\ Head(pieces) \in DOMAIN fdMap
         /\ Log(Head(pieces), fdMap[Head(pieces)].fd)

\* The file is created or opened for appending.
Opened == /\ pieces # <<>>
          /\ Head(pieces) \in Cid \ DOMAIN fdMap
          /\ \E fd \in Fd : files[fd] = Closed /\ Log(Head(pieces), fd)

\* folly::File throws, out of send: the map is as it was.
OpenFails == /\ pieces # <<>>
             /\ Head(pieces) \in Cid \ DOMAIN fdMap
             /\ pieces' = <<>>
             /\ UNCHANGED <<now, fdMap, files, logs, number>>

\* A piece that is not alphanumeric.
Skip == /\ pieces # <<>>
        /\ Head(pieces) \notin Cid
        /\ pieces' = Tail(pieces)
        /\ UNCHANGED <<now, fdMap, files, logs, number>>

Next == Clock \/ send \/ Found \/ Opened \/ OpenFails \/ Skip

Spec == Init /\ [][Next]_vars
-----------------------------------------------------------------------------
\* The descriptors that are open are exactly those of the map, each of the
\* log of its own id: none leaks when an entry is erased, and none is kept
\* whose number the next file will get.
DescriptorsAreOwn ==
  /\ \A c \in DOMAIN fdMap : files[fdMap[c].fd] = c
  /\ \A f \in Fd : files[f] # Closed =>
       files[f] \in DOMAIN fdMap /\ fdMap[files[f]].fd = f

\* A log that is still open although another was written to later, be it
\* through a file that was found or one that was opened, was last used no
\* longer than a minute before that one: also if the clock was set back
\* meanwhile, and although nothing closes a file but the use of another.
LastIn(c) == logs[c][Len(logs[c])]
IdleLogsAreClosed ==
  \A b, c \in DOMAIN fdMap :
    LastIn(c) < LastIn(b) => fdMap[b].last <= fdMap[c].last + kMaxAge

\* Every message goes to the logs of the ids it names, whichever files were
\* closed meanwhile, and whatever the clock does.
Abstract == INSTANCE ConnectionLogs
LogsAreComplete == Abstract!Spec
=============================================================================
