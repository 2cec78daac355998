------------------------- MODULE SerialSavesProofs -------------------------
(***************************************************************************)
(* What a lock around persist would give the callers of CertificateStore:  *)
(* the map of DurableStore, for any number of threads, any records,        *)
(* reasons and inodes, and whatever fails or crashes.  One caller at a     *)
(* time is the special case that the code has today; two callers without   *)
(* the lock do not get it: store_lost_file.                                *)
(***************************************************************************)
EXTENDS CertificateStoreProofs

\* No two saves overlap.
SavesSerial ==
    \A t, u \in Threads : HoldsReadLock(t) /\ HoldsReadLock(u) => t = u

-----------------------------------------------------------------------------
(* The inductive invariant.                                                *)

\* The one thread that saves writes the file that is called tmp.
OwnFile ==
    \A t \in Threads :
        /\ pc[t] \in {"write", "rename"} => fd[t] = dir["tmp"]
        /\ pc[t] = "rename" => content[fd[t]] = Json(snap[t])

\* The file in place is whole, and the store could open it.
Readable == phase # "refused" /\ OnDisk.kind # "torn"

\* The record of a call under way is as the call left it, or as another call
\* has changed it since.
CallStands ==
    \A t \in Threads :
        pc[t] # "idle" => /\ Kept(op[t].id, op[t].status, records[op[t].id])
                          /\ life[op[t].id] # "fresh"

\* An id nobody stored yet is nowhere.
FreshIsNew ==
    /\ \A id \in Ids : life[id] = "fresh" =>
         records[id] = "absent" /\ OnDisk.map[id] = "absent"
    /\ \A a \in acked : life[a.id] # "fresh"

\* What was acknowledged is in the file, too.
AckedIsSaved == \A a \in acked : Kept(a.id, a.status, OnDisk.map[a.id])

SerialInv ==
    /\ TypeInv
    /\ SnapshotIsCurrent
    /\ OwnFile
    /\ Readable
    /\ CallStands
    /\ FreshIsNew
    /\ AckedIsSaved
    /\ AckedIsKept

LEMMA SerialInit == Init => SerialInv
  <1> SUFFICES ASSUME Init PROVE SerialInv
    OBVIOUS
  <1>1. TypeInv /\ OnDisk = Empty
    BY TypeInit DEF Init, OnDisk, Names
  <1> QED
    BY <1>1
       DEF Init, SerialInv, SnapshotIsCurrent, HoldsReadLock, OwnFile,
           Readable, CallStands, FreshIsNew, AckedIsSaved, AckedIsKept, Empty,
           NoRecords

LEMMA SameFile ==
    ASSUME dir'["json"] = dir["json"],
           dir["json"] # None => content'[dir["json"]] = content[dir["json"]]
    PROVE  OnDisk' = OnDisk
  BY DEF OnDisk

LEMMA FileIsNotTemporary ==
    ASSUME SerialInv
    PROVE  \/ dir["json"] = None
           \/ dir["json"] \in Inodes /\ dir["json"] # dir["tmp"]
  BY DEF SerialInv, TypeInv, TypeOK, Names

\* Only the rename changes what a restart would read: the rest of persist,
LEMMA DiskStays ==
    ASSUME SerialInv, NEW t \in Threads, Persist(t), ~Rename(t)
    PROVE  OnDisk' = OnDisk
  <1>1. CASE Serialize(t) \/ OpenFails(t) \/ RenameMissing(t) \/ RenameFails(t)
    BY <1>1, SameFile DEF Serialize, OpenFails, RenameMissing, RenameFails, fs
  <1>2. CASE OpenTemporary(t)
    <2>1. PICK i \in Inodes :
            /\ IF dir["tmp"] = None THEN Unreferenced(i) ELSE i = dir["tmp"]
            /\ dir' = [dir EXCEPT !["tmp"] = i]
            /\ content' = [content EXCEPT ![i] = Empty]
      BY <1>2 DEF OpenTemporary, TemporaryPath
    <2>2. i # dir["json"]
      BY <2>1, FileIsNotTemporary DEF Unreferenced, Names
    <2> QED
      BY <2>1, <2>2, SameFile DEF SerialInv, TypeInv, TypeOK, Names
  <1>3. CASE WriteTemporary(t) \/ WriteFails(t)
    <2>1. fd[t] = dir["tmp"] /\ fd[t] \in Inodes /\ fd[t] # dir["json"]
      BY <1>3, FileIsNotTemporary
         DEF WriteTemporary, WriteFails, SerialInv, OwnFile, TypeInv, TypeOK
    <2> QED
      BY <1>3, <2>1, FileIsNotTemporary, SameFile
         DEF WriteTemporary, WriteFails, SerialInv, TypeInv, TypeOK
  <1> QED
    BY <1>1, <1>2, <1>3 DEF Persist

\* ... a crash and a restart leave it alone.
LEMMA DiskSurvives ==
    ASSUME SerialInv, Crash \/ Open
    PROVE  OnDisk' = OnDisk
  <1>1. CASE Crash
    <2>1. PICK cut \in SUBSET {fd[t] : t \in {u \in Threads : pc[u] = "write"}} :
            content' = [i \in Inodes |-> IF i \in cut THEN Prefix(content[i])
                                                      ELSE content[i]]
      BY <1>1 DEF Crash
    <2>2. dir["json"] \notin cut \/ dir["json"] = None
      BY FileIsNotTemporary DEF SerialInv, OwnFile
    <2> QED
      BY <1>1, <2>1, <2>2, FileIsNotTemporary, SameFile DEF Crash
  <1>2. CASE Open
    BY <1>2, SameFile DEF Open, fs
  <1> QED
    BY <1>1, <1>2

\* The rename puts the current map in place.
LEMMA RenameInstalls ==
    ASSUME SerialInv, NEW t \in Threads, Rename(t)
    PROVE  OnDisk' = Json(records)
  <1>1. /\ dir'["json"] = dir["tmp"] /\ content' = content
        /\ dir["tmp"] \in Inodes /\ dir["tmp"] # None
    BY DEF Rename, SerialInv, TypeInv, TypeOK, Names
  <1>2. content[dir["tmp"]] = Json(records)
    BY DEF Rename, SerialInv, OwnFile, SnapshotIsCurrent, HoldsReadLock
  <1> QED
    BY <1>1, <1>2 DEF OnDisk

-----------------------------------------------------------------------------
(* The steps.                                                              *)

\* What a call that changes a record does: it takes it where its life allows,
\* from one status to the next.
Takes(t, id, status) ==
    /\ phase = "up" /\ pc[t] = "idle"
    /\ records' = [records EXCEPT ![id] = status]
    /\ \/ /\ records[id] = "absent" /\ status = "issued"
          /\ life[id] = "fresh"
          /\ life' = [life EXCEPT ![id] = "stored"]
       \/ /\ records[id] # "absent"
          /\ status = records[id] \/ (records[id] = "issued" /\ status \in Reasons)
          /\ life' = life
       \/ /\ records[id] # "absent" /\ status = "absent"
          /\ life' = [life EXCEPT ![id] = "removed"]
    /\ op' = [op EXCEPT ![t] = [id |-> id, status |-> status]]
    /\ pc' = [pc EXCEPT ![t] = "persist"]
    /\ UNCHANGED <<phase, snap, fd, dir, content, acked>>

LEMMA CallEffect ==
    ASSUME SerialInv, NEW t \in Threads, Call(t)
    PROVE  UNCHANGED vars \/ \E id \in Ids, status \in Status : Takes(t, id, status)
  <1>1. PICK id \in Ids :
           \/ Insert(t, id)
           \/ \E reason \in Reasons : Revoke(t, id, reason)
           \/ Remove(t, id)
           \/ NotFound(t, id)
    BY DEF Call
  <1>2. records \in [Ids -> Status] /\ records[id] \in Status
    BY DEF SerialInv, TypeInv, TypeOK, Maps
  <1>3. CASE Insert(t, id)
    <2>1. records[id] = "absent"
      BY <1>3 DEF Insert, SerialInv, FreshIsNew
    <2> QED
      BY <1>2, <1>3, <2>1 DEF Takes, Insert, Change, fs, Status
  <1>4. ASSUME NEW reason \in Reasons, Revoke(t, id, reason)
        PROVE  \E status \in Status : Takes(t, id, status)
    <2>1. CASE records[id] \in Reasons
      BY <1>2, <1>4, <2>1 DEF Takes, Revoke, Change, Revoked, fs
    <2>2. CASE records[id] \notin Reasons
      BY <1>2, <1>4, <2>2 DEF Takes, Revoke, Change, Revoked, fs, Status
    <2> QED
      BY <2>1, <2>2
  <1>5. CASE Remove(t, id)
    BY <1>2, <1>5 DEF Takes, Remove, Change, fs, Status
  <1>6. CASE NotFound(t, id)
    BY <1>6 DEF NotFound
  <1> QED
    BY <1>1, <1>3, <1>4, <1>5, <1>6

LEMMA CallStep ==
    ASSUME SerialInv, NEW t \in Threads, Call(t),
           TypeInv', SnapshotIsCurrent', ~UNCHANGED vars
    PROVE  SerialInv'
  <1>1. PICK id \in Ids, status \in Status : Takes(t, id, status)
    BY CallEffect
  <1> USE DEF Takes
  <1>2. /\ records \in [Ids -> Status]
        /\ life \in [Ids -> {"fresh", "stored", "removed"}]
        /\ op \in [Threads -> Ops \cup {None}]
        /\ pc \in [Threads -> {"idle", "persist", "open", "write", "rename"}]
        /\ \A a \in acked : a.id \in Ids /\ a.status \in Status
    BY DEF SerialInv, TypeInv, TypeOK, Maps, Ops
  <1>3. OnDisk' = OnDisk
    BY <1>1 DEF OnDisk
  <1>4. OwnFile' /\ Readable'
    <2>1. \A u \in Threads : pc'[u] \notin {"write", "rename"}
      BY CallsNeedTheLock DEF SerialInv, HoldsReadLock
    <2> QED
      BY <1>1, <1>3, <2>1 DEF SerialInv, OwnFile, Readable
  <1>5. \A other \in Ids : life[other] = "removed" => life'[other] = "removed"
    BY <1>1, <1>2
  <1>6. FreshIsNew'
    BY <1>1, <1>2, <1>3 DEF SerialInv, FreshIsNew
  <1>7. ASSUME NEW other \in Ids, NEW old \in Status,
               Kept(other, old, records[other]), life[other] # "fresh"
        PROVE  Kept(other, old, records[other])'
    <2>1. CASE other # id
      BY <1>1, <1>2, <1>5, <1>7, <2>1 DEF Kept
    <2>2. CASE other = id
      BY <1>1, <1>2, <1>5, <1>7, <2>2 DEF Kept, Status
    <2> QED
      BY <2>1, <2>2
  <1>8. AckedIsSaved'
    BY <1>1, <1>2, <1>3, <1>5 DEF SerialInv, AckedIsSaved, Kept
  <1>9. AckedIsKept'
    BY <1>1, <1>2, <1>7 DEF SerialInv, AckedIsKept, FreshIsNew
  <1>10. CallStands'
    <2>1. op'[t] = [id |-> id, status |-> status]
      BY <1>1, <1>2
    <2>2. records'[id] = status /\ life'[id] # "fresh"
      BY <1>1, <1>2 DEF SerialInv, FreshIsNew
    <2>3. ASSUME NEW u \in Threads, u # t, pc'[u] # "idle"
          PROVE  /\ Kept(op[u].id, op[u].status, records[op[u].id])'
                 /\ life'[op'[u].id] # "fresh"
      <3>1. /\ op'[u] = op[u] /\ pc'[u] = pc[u] /\ pc[u] # "idle"
            /\ op[u].id \in Ids /\ op[u].status \in Status
        BY <1>1, <1>2, <2>3 DEF SerialInv, TypeInv, Busy, Ops
      <3>2. /\ Kept(op[u].id, op[u].status, records[op[u].id])
            /\ life[op[u].id] # "fresh"
        BY <3>1 DEF SerialInv, CallStands
      <3>3. Kept(op[u].id, op[u].status, records[op[u].id])'
        BY <1>7, <3>1, <3>2 DEF Kept
      <3>4. life'[op[u].id] # "fresh"
        BY <1>1, <1>2, <3>1, <3>2
      <3> QED
        BY <3>1, <3>3, <3>4
    <2> QED
      BY <2>1, <2>2, <2>3 DEF CallStands, Kept
  <1> QED
    BY <1>4, <1>6, <1>8, <1>9, <1>10 DEF SerialInv

LEMMA PersistStep ==
    ASSUME SerialInv, SavesSerial, NEW t \in Threads, Persist(t),
           TypeInv', SnapshotIsCurrent'
    PROVE  SerialInv'
  <1>1. /\ \A u \in Threads : HoldsReadLock(t) /\ u # t =>
             pc[u] \notin {"write", "rename"}
        /\ records \in Maps /\ content \in [Inodes -> Images]
        /\ op[t] \in Ops \cup {None}
    BY DEF SerialInv, TypeInv, TypeOK, SavesSerial, HoldsReadLock
  <1>2. phase' = phase /\ records' = records /\ life' = life /\ pc[t] # "idle"
    BY DEF Persist, Serialize, OpenTemporary, OpenFails, WriteTemporary,
           WriteFails, Rename, RenameMissing, RenameFails, history
  <1>3. phase = "up"
    BY <1>2 DEF SerialInv, TypeInv, TypeOK
  <1>4. OwnFile'
    <2>1. CASE Serialize(t)
      BY <2>1 DEF Serialize, OwnFile, SerialInv, TypeInv, TypeOK, fs
    <2>2. CASE OpenTemporary(t)
      BY <1>1, <2>2
         DEF HoldsReadLock, OpenTemporary, TemporaryPath, OwnFile, SerialInv,
             TypeInv, TypeOK, Names
    <2>3. CASE WriteTemporary(t)
      BY <1>1, <2>3
         DEF HoldsReadLock, WriteTemporary, OwnFile, SerialInv, TypeInv,
             TypeOK, Names
    <2>4. ASSUME NEW results, Return(t, results), HoldsReadLock(t)
          PROVE  OwnFile'
      BY <1>1, <2>4 DEF Return, OwnFile, SerialInv, TypeInv, TypeOK
    <2> QED
      BY <2>1, <2>2, <2>3, <2>4
         DEF Persist, OpenFails, WriteFails, Rename, RenameMissing,
             RenameFails, ReturnOk, ReturnErr, HoldsReadLock
  <1>5. CallStands'
    <2>1. \A u \in Threads :
            pc'[u] # "idle" => pc[u] # "idle" /\ op'[u] = op[u]
      BY DEF Persist, Serialize, OpenTemporary, OpenFails, WriteTemporary,
             WriteFails, Rename, RenameMissing, RenameFails, ReturnOk,
             ReturnErr, Return, SerialInv, TypeInv, TypeOK
    <2> QED
      BY <1>2, <2>1 DEF SerialInv, CallStands, Kept
  <1>6. CASE ~Rename(t)
    <2>1. acked' = acked
      BY <1>6
         DEF Persist, Serialize, OpenTemporary, OpenFails, WriteTemporary,
             WriteFails, RenameMissing, RenameFails, ReturnErr, Return, history
    <2>2. OnDisk' = OnDisk
      BY <1>6, DiskStays
    <2>3. Readable' /\ FreshIsNew' /\ AckedIsSaved' /\ AckedIsKept'
      BY <1>2, <2>1, <2>2
         DEF SerialInv, Readable, FreshIsNew, AckedIsSaved, AckedIsKept, Kept
    <2> QED
      BY <1>4, <1>5, <2>3 DEF SerialInv
  <1>7. CASE Rename(t)
    <2>1. OnDisk' = Json(records)
      BY <1>7, RenameInstalls
    <2>2. acked' = acked \cup {op[t]}
      BY <1>7 DEF Rename, ReturnOk, Return
    <2>3. /\ Kept(op[t].id, op[t].status, records[op[t].id])
          /\ life[op[t].id] # "fresh"
      BY <1>2 DEF SerialInv, CallStands
    <2>4. Readable' /\ FreshIsNew' /\ AckedIsSaved' /\ AckedIsKept'
      BY <1>2, <1>3, <2>1, <2>2, <2>3
         DEF SerialInv, Readable, FreshIsNew, AckedIsSaved, AckedIsKept, Kept,
             Json
    <2> QED
      BY <1>4, <1>5, <2>4 DEF SerialInv
  <1> QED
    BY <1>6, <1>7

LEMMA SerialStep ==
    ASSUME SerialInv, SavesSerial, [Next]_vars PROVE SerialInv'
  <1>1. TypeInv' /\ SnapshotIsCurrent'
    BY TypeStep, SnapshotStep DEF SerialInv
  <1>2. CASE UNCHANGED vars
    BY <1>1, <1>2
       DEF vars, fs, history, SerialInv, OwnFile, Readable, CallStands,
           FreshIsNew, AckedIsSaved, AckedIsKept, Kept, OnDisk
  <1>3. CASE Crash \/ Open
    <2>1. OnDisk' = OnDisk
      BY <1>3, DiskSurvives
    <2>2. \A t \in Threads : pc'[t] = "idle"
      BY <1>3 DEF Crash, Open, SerialInv, TypeInv, TypeOK
    <2>3. OwnFile' /\ CallStands'
      BY <2>2 DEF OwnFile, CallStands
    <2>4. UNCHANGED <<life, acked>>
      BY <1>3 DEF Crash, Open, history
    <2>5. CASE Crash
      BY <1>1, <2>1, <2>3, <2>4, <2>5
         DEF Crash, SerialInv, Readable, FreshIsNew, AckedIsSaved, AckedIsKept,
             Kept, NoRecords
    <2>6. CASE Open
      BY <1>1, <2>1, <2>3, <2>4, <2>6
         DEF Open, SerialInv, Readable, FreshIsNew, AckedIsSaved, AckedIsKept,
             Kept
    <2> QED
      BY <1>3, <2>5, <2>6
  <1> QED
    BY <1>1, <1>2, <1>3, CallStep, PersistStep DEF Next

LEMMA SerialHolds == Spec /\ []SavesSerial => []SerialInv
  <1>1. SerialInv /\ SavesSerial /\ [Next]_vars => SerialInv'
    BY SerialStep
  <1> QED
    BY <1>1, SerialInit, PTL DEF Spec

-----------------------------------------------------------------------------
(* The theorems.                                                           *)

\* Were no two saves to overlap, whatever a call returned Ok for would be in
\* the store for good, over I/O errors and any number of crashes.
THEOREM SerialSavesKeep == Spec /\ []SavesSerial => []AckedIsKept
  <1>1. SerialInv => AckedIsKept
    BY DEF SerialInv
  <1> QED
    BY <1>1, SerialHolds, PTL

\* ... and no restart would find a file it cannot read.
THEOREM SerialSavesReopen == Spec /\ []SavesSerial => []AlwaysReopens
  <1>1. SerialInv => AlwaysReopens
    BY DEF SerialInv, Readable, AlwaysReopens
  <1> QED
    BY <1>1, SerialHolds, PTL

-----------------------------------------------------------------------------
(* The store implements DurableStore.                                      *)

LEMMA DurableInit == Init => Durable!Init
  <1> SUFFICES ASSUME Init PROVE Durable!Init
    OBVIOUS
  <1>1. OnDisk = Empty
    BY DEF Init, OnDisk, Names
  <1> QED
    BY <1>1 DEF Init, Durable!Init, Durable!NoRecords, Empty, NoRecords

\* insert, revoke and remove are changes; a second revocation changes nothing.
LEMMA CallIsChange ==
    ASSUME SerialInv, NEW t \in Threads, Call(t)
    PROVE  [Durable!Next]_Durable!vars
  <1>1. CASE UNCHANGED vars
    BY <1>1 DEF vars, fs, history, OnDisk, Durable!vars
  <1>2. CASE ~UNCHANGED vars
    <2>1. PICK id \in Ids, status \in Status : Takes(t, id, status)
      BY <1>2, CallEffect
    <2>2. OnDisk' = OnDisk
      BY <2>1 DEF Takes, OnDisk
    <2>3. Durable!Step(records[id], status)
      BY <2>1 DEF Takes, Durable!Step
    <2>4. Durable!Change(id, status) /\ status \in Durable!Status
      BY <2>1, <2>2, <2>3 DEF Takes, Durable!Change, Durable!Status, Status
    <2> QED
      BY <2>4 DEF Durable!Next
  <1> QED
    BY <1>1, <1>2

\* A rename that succeeds is the save, with the answer it makes true; every
\* other step of persist is a stutter.
LEMMA PersistIsSave ==
    ASSUME SerialInv, NEW t \in Threads, Persist(t)
    PROVE  [Durable!Next]_Durable!vars
  <1>1. phase' = phase /\ records' = records /\ phase = "up" /\ op[t] \in Ops
    BY DEF Persist, Serialize, OpenTemporary, OpenFails, WriteTemporary,
           WriteFails, Rename, RenameMissing, RenameFails, SerialInv, TypeInv,
           TypeOK, Busy
  <1>2. CASE Rename(t)
    <2>1. OnDisk'.map = records
      BY <1>2, RenameInstalls DEF Json
    <2>2. acked' = acked \cup {op[t]} /\ pc[t] # "idle"
      BY <1>2 DEF Rename, ReturnOk, Return
    <2>3. /\ op[t] = [id |-> op[t].id, status |-> op[t].status]
          /\ op[t].id \in Ids /\ op[t].status \in Durable!Status
      BY <1>1 DEF Ops, Durable!Status, Status
    <2>4. Durable!Later(op[t].status, records[op[t].id])
      BY <2>2 DEF SerialInv, CallStands, Kept, Durable!Later
    <2>5. Durable!Save(op[t].id, op[t].status)
      BY <1>1, <2>1, <2>2, <2>3, <2>4 DEF Durable!Save
    <2> QED
      BY <2>3, <2>5 DEF Durable!Next
  <1>3. CASE ~Rename(t)
    <2>1. acked' = acked
      BY <1>3
         DEF Persist, Serialize, OpenTemporary, OpenFails, WriteTemporary,
             WriteFails, RenameMissing, RenameFails, ReturnErr, Return, history
    <2>2. OnDisk' = OnDisk
      BY <1>3, DiskStays
    <2> QED
      BY <1>1, <2>1, <2>2 DEF Durable!vars
  <1> QED
    BY <1>2, <1>3

LEMMA DurableStep ==
    ASSUME SerialInv, [Next]_vars PROVE [Durable!Next]_Durable!vars
  <1>1. CASE Crash \/ Open
    <2>1. OnDisk' = OnDisk
      BY <1>1, DiskSurvives
    <2>2. CASE Crash
      <3>1. Durable!Stop
        BY <2>1, <2>2
           DEF Crash, history, Durable!Stop, Durable!NoRecords, NoRecords
      <3> QED
        BY <3>1 DEF Durable!Next
    <2>3. CASE Open
      <3>1. Durable!Start
        BY <2>1, <2>3 DEF Open, history, SerialInv, Readable, Durable!Start
      <3> QED
        BY <3>1 DEF Durable!Next
    <2> QED
      BY <1>1, <2>2, <2>3
  <1>2. CASE UNCHANGED vars
    BY <1>2 DEF vars, fs, history, OnDisk, Durable!vars
  <1> QED
    BY <1>1, <1>2, CallIsChange, PersistIsSave DEF Next

\* Were no two saves to overlap, the callers would get the durable map that
\* DurableStore specifies: persist's write and rename are one atomic save.
THEOREM SerialSavesImplementDurable ==
    Spec /\ []SavesSerial => ImplementsDurable
  <1>1. SerialInv /\ [Next]_vars => [Durable!Next]_Durable!vars
    BY DurableStep
  <1> QED
    BY <1>1, DurableInit, SerialHolds, PTL
       DEF Spec, ImplementsDurable, Durable!Spec

-----------------------------------------------------------------------------
(* One caller at a time.                                                   *)

OneThread == \A t, u \in Threads : t = u

\* A thread does not overlap with itself, so one caller at a time loses
\* nothing that was acknowledged,
COROLLARY AckedAlwaysKept == ASSUME OneThread PROVE Spec => []AckedIsKept
  <1>1. SavesSerial
    BY DEF OneThread, SavesSerial
  <1> QED
    BY <1>1, SerialSavesKeep, PTL

\* ... always starts again,
COROLLARY StoreAlwaysReopens == ASSUME OneThread PROVE Spec => []AlwaysReopens
  <1>1. SavesSerial
    BY DEF OneThread, SavesSerial
  <1> QED
    BY <1>1, SerialSavesReopen, PTL

\* ... and has the durable map.
COROLLARY StoreImplementsDurable ==
    ASSUME OneThread PROVE Spec => ImplementsDurable
  <1>1. SavesSerial
    BY DEF OneThread, SavesSerial
  <1> QED
    BY <1>1, SerialSavesImplementDurable, PTL
=============================================================================
