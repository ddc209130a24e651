---------------------------- MODULE SegmentManager ----------------------------
(***************************************************************************)
(* SegmentManager.resolve (server/segment_manager.py), called by several   *)
(* handler threads at once: a cache in front of a media directory that     *)
(* other programs may write to while the server runs.                      *)
(*                                                                         *)
(* Bytes are told apart by a number: 0 for the synthetic bytes, which are  *)
(* the same every time (their generator is seeded with the segment's       *)
(* name), 1 and up for what a file of the segment can hold, the half that  *)
(* a writer has written so far included.                                   *)
(***************************************************************************)
EXTENDS Integers

CONSTANTS Handlers,     \* the threads that call resolve
          Segments,     \* each (representation, segment_id) of the manifest
          MaxContents   \* contents of a file told apart, a number that VideoServer assumes

Synthetic == 0
NotCached == -1
Contents  == 0..MaxContents

VARIABLES files,     \* what the file of each segment holds, Synthetic if there is none
          cache,     \* _file_cache
          pc,        \* where each thread is in _load_bytes
          key,       \* the segment it loads, the last one when idle
          data,      \* the bytes it has and has not stored yet
          calm,      \* whether that segment was settled when it called (history)
          returned   \* what calls on a settled segment have returned (history)

vars == <<files, cache, pc, key, data, calm, returned>>

Init ==
  /\ files \in [Segments -> Contents]
  /\ cache = [s \in Segments |-> NotCached]
  /\ pc = [h \in Handlers |-> "idle"]
  /\ key \in [Handlers -> Segments]
  /\ data = [h \in Handlers |-> NotCached]
  /\ calm = [h \in Handlers |-> FALSE]
  /\ returned = [s \in Segments |-> {}]

\* Another program writes, replaces or removes the file of a segment.
ChangeFile(s) ==
  /\ \E c \in Contents \ {files[s]} : files' = [files EXCEPT ![s] = c]
  /\ UNCHANGED <<cache, pc, key, data, calm, returned>>

\* The segment is cached, and no thread is about to cache it again.
Settled(s) ==
  /\ cache[s] # NotCached
  /\ \A h \in Handlers : pc[h] # "idle" => key[h] # s

\* The call of h returns the bytes c of segment s.
Note(s, c, wasCalm) ==
  returned' = IF wasCalm THEN [returned EXCEPT ![s] = @ \cup {c}] ELSE returned

\* The cache is never asked (a fault).
MissAlways(h, s) ==
  /\ pc[h] = "idle"
  /\ pc' = [pc EXCEPT ![h] = "exists"]
  /\ key' = [key EXCEPT ![h] = s]
  /\ calm' = [calm EXCEPT ![h] = Settled(s)]
  /\ UNCHANGED <<files, cache, data, returned>>

\* resolve of a segment of the manifest, up to the end of the first critical
\* section: a hit returns the cached bytes.  (Outside the manifest resolve
\* returns None and touches nothing.)
Lookup(h, s) ==
  /\ pc[h] = "idle"
  /\ IF cache[s] # NotCached
     THEN /\ Note(s, cache[s], Settled(s))
          /\ UNCHANGED <<pc, key, calm>>
     ELSE /\ pc' = [pc EXCEPT ![h] = "exists"]
          /\ key' = [key EXCEPT ![h] = s]
          /\ calm' = [calm EXCEPT ![h] = Settled(s)]
          /\ UNCHANGED returned
  /\ UNCHANGED <<files, cache, data>>

\* path.exists(); without a file the bytes are generated.
CheckFile(h) ==
  /\ pc[h] = "exists"
  /\ IF files[key[h]] = Synthetic
     THEN /\ pc' = [pc EXCEPT ![h] = "store"]
          /\ data' = [data EXCEPT ![h] = Synthetic]
     ELSE /\ pc' = [pc EXCEPT ![h] = "read"]
          /\ UNCHANGED data
  /\ UNCHANGED <<files, cache, key, calm, returned>>

\* path.read_bytes(): the file may have changed since.
ReadFile(h) ==
  /\ pc[h] = "read"
  /\ files[key[h]] # Synthetic
  /\ pc' = [pc EXCEPT ![h] = "store"]
  /\ data' = [data EXCEPT ![h] = files[key[h]]]
  /\ UNCHANGED <<files, cache, key, calm, returned>>

\* ... or be gone, or unreadable: read_bytes raises an OSError.
ReadRaises(h) ==
  /\ pc[h] = "read"
  /\ pc' = [pc EXCEPT ![h] = "idle"]
  /\ calm' = [calm EXCEPT ![h] = FALSE]
  /\ UNCHANGED <<files, cache, key, data, returned>>

\* The second critical section stores over whatever another thread has stored.
Store(h) ==
  /\ pc[h] = "store"
  /\ cache' = [cache EXCEPT ![key[h]] = data[h]]
  /\ Note(key[h], data[h], calm[h])
  /\ pc' = [pc EXCEPT ![h] = "idle"]
  /\ data' = [data EXCEPT ![h] = NotCached]
  /\ calm' = [calm EXCEPT ![h] = FALSE]
  /\ UNCHANGED <<files, key>>

-----------------------------------------------------------------------------
Next ==
  \/ \E h \in Handlers :
       \/ \E s \in Segments : Lookup(h, s)
       \/ CheckFile(h) \/ ReadFile(h) \/ ReadRaises(h) \/ Store(h)
  \/ \E s \in Segments : ChangeFile(s)

Spec == Init /\ [][Next]_vars

-----------------------------------------------------------------------------
(* Properties *)

TypeOK ==
  /\ files \in [Segments -> Contents]
  /\ cache \in [Segments -> Contents \cup {NotCached}]
  /\ pc \in [Handlers -> {"idle", "exists", "read", "store"}]
  /\ key \in [Handlers -> Segments]
  /\ data \in [Handlers -> Contents \cup {NotCached}]
  /\ \A h \in Handlers : pc[h] = "store" => data[h] # NotCached
  /\ calm \in [Handlers -> BOOLEAN]
  /\ returned \in [Segments -> SUBSET Contents]

\* Once a segment is cached and no thread is loading it, every later call gets
\* the same bytes, whatever becomes of its file and whoever calls: clients do
\* not get different encodings of one segment.  Before that they may, because
\* the file is read outside the lock and a later store wins with older bytes
\* (segment_manager.py:80-96).
SettledBytes == \A s \in Segments : \A b, c \in returned[s] : b = c
=============================================================================
