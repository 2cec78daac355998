----------------------- MODULE CertificateStoreProofs -----------------------
(***************************************************************************)
(* Proofs about CertificateStore, for any number of threads, records,      *)
(* reasons and inodes and for any Faults.                                  *)
(***************************************************************************)
EXTENDS CertificateStore, TLAPS

USE StoreAssumption

-----------------------------------------------------------------------------
(* The types.                                                              *)

\* The states of the data that the steps build again and again.
LEMMA ImageFacts ==
    /\ Empty \in Images /\ Torn \in Images
    /\ NoRecords \in Maps
    /\ \A m \in Maps : Json(m) \in Images
    /\ \A image \in Images : Prefix(image) \in Images /\ image.map \in Maps
  BY DEF Empty, Torn, Json, Images, Maps, NoRecords, Status, Prefix

\* Revoking keeps a map of records one.
LEMMA RevokedType ==
    ASSUME NEW m \in Maps, NEW id \in Ids, NEW reason \in Reasons
    PROVE  Revoked(m, id, reason) \in Maps
  BY DEF Revoked, Maps, Status

LEMMA OnDiskType == TypeOK => OnDisk \in Images
  BY ImageFacts DEF TypeOK, OnDisk, Names

\* A change of the map keeps the types.
LEMMA ChangeType ==
    ASSUME TypeOK, NEW t \in Threads, NEW id \in Ids, NEW m \in Maps,
           Change(t, id, m), life' \in [Ids -> {"fresh", "stored", "removed"}]
    PROVE  TypeOK'
  <1>1. m[id] \in Status
    BY DEF Maps
  <1>2. [id |-> id, status |-> m[id]] \in Ops
    BY <1>1 DEF Ops
  <1> QED
    BY <1>2 DEF TypeOK, Change, fs

\* Returning keeps the types, whatever the call leaves on the disk.
LEMMA ReturnType ==
    ASSUME TypeOK, NEW t \in Threads, NEW results \in SUBSET Ops,
           Return(t, results),
           content' \in [Inodes -> Images],
           dir' \in [Names -> Inodes \cup {None}],
           dir'["json"] = None \/ dir'["json"] # dir'["tmp"],
           UNCHANGED <<records, phase, life>>
    PROVE  TypeOK'
  BY ImageFacts DEF TypeOK, Return

\* While a call is under way its operation is known: what it will report.
Busy == \A t \in Threads : pc[t] # "idle" => op[t] \in Ops

LEMMA ReturnBusy ==
    ASSUME TypeOK, Busy, NEW t \in Threads, NEW results, Return(t, results)
    PROVE  Busy'
  BY DEF TypeOK, Busy, Return

\* The types, strengthened by Busy: without it a returning call could report
\* no operation at all, and acked would not stay a set of operations.
TypeInv == TypeOK /\ Busy

LEMMA TypeInit == Init => TypeInv
  BY ImageFacts DEF Init, TypeInv, TypeOK, Busy, Names, Maps, Status, NoRecords

LEMMA ChangeBusy ==
    ASSUME TypeOK, Busy, NEW t \in Threads, NEW id \in Ids, NEW m \in Maps,
           Change(t, id, m)
    PROVE  Busy'
  <1>1. [id |-> id, status |-> m[id]] \in Ops
    BY DEF Maps, Ops
  <1> QED
    BY <1>1 DEF TypeOK, Busy, Change

\* A call keeps TypeInv: insert, revoke, remove, or nothing to do.
LEMMA CallType ==
    ASSUME TypeInv, NEW t \in Threads, Call(t)
    PROVE  TypeInv'
  <1>1. PICK id \in Ids :
           \/ Insert(t, id)
           \/ \E reason \in Reasons : Revoke(t, id, reason)
           \/ Remove(t, id)
           \/ NotFound(t, id)
    BY DEF Call
  <1>2. CASE Insert(t, id)
    <2>1. [records EXCEPT ![id] = "issued"] \in Maps
      BY DEF TypeInv, TypeOK, Maps, Status
    <2>2. life' \in [Ids -> {"fresh", "stored", "removed"}]
      BY <1>2 DEF Insert, TypeInv, TypeOK
    <2> QED
      BY <1>2, <2>1, <2>2, ChangeType, ChangeBusy DEF Insert, TypeInv
  <1>3. ASSUME NEW reason \in Reasons, Revoke(t, id, reason)
        PROVE  TypeInv'
    <2>1. Revoked(records, id, reason) \in Maps
      BY RevokedType DEF TypeInv, TypeOK
    <2>2. life' \in [Ids -> {"fresh", "stored", "removed"}]
      BY <1>3 DEF Revoke, TypeInv, TypeOK
    <2> QED
      BY <1>3, <2>1, <2>2, ChangeType, ChangeBusy DEF Revoke, TypeInv
  <1>4. CASE Remove(t, id)
    <2>1. [records EXCEPT ![id] = "absent"] \in Maps
      BY DEF TypeInv, TypeOK, Maps, Status
    <2>2. life' \in [Ids -> {"fresh", "stored", "removed"}]
      BY <1>4 DEF Remove, TypeInv, TypeOK
    <2> QED
      BY <1>4, <2>1, <2>2, ChangeType, ChangeBusy DEF Remove, TypeInv
  <1>5. CASE NotFound(t, id)
    BY <1>5 DEF NotFound, vars, fs, history, TypeInv, TypeOK, Busy
  <1> QED
    BY <1>1, <1>2, <1>3, <1>4, <1>5

\* The steps of persist keep TypeInv.
LEMMA PersistType ==
    ASSUME TypeInv, NEW t \in Threads, Persist(t)
    PROVE  TypeInv'
  <1> USE DEF TypeInv
  <1>1. CASE Serialize(t)
    BY <1>1 DEF Serialize, TypeOK, Busy, fs, history
  <1>2. CASE OpenTemporary(t)
    BY <1>2, ImageFacts
    DEF OpenTemporary, TemporaryPath, Unreferenced, TypeOK, Busy, Names, history
  <1>3. CASE OpenFails(t)
    BY <1>3, ReturnType, ReturnBusy DEF OpenFails, ReturnErr, fs, TypeOK
  <1>4. CASE WriteTemporary(t)
    <2>1. Json(snap[t]) \in Images
      BY ImageFacts DEF TypeOK
    <2> QED
      BY <1>4, <2>1 DEF WriteTemporary, TypeOK, Busy, history
  <1>5. CASE WriteFails(t)
    <2>1. fd[t] \in Inodes
      BY <1>5 DEF WriteFails, TypeOK
    <2>2. content[fd[t]] \in Images /\ Prefix(content[fd[t]]) \in Images
      BY <2>1, ImageFacts DEF TypeOK
    <2>3. content' \in [Inodes -> Images]
      BY <1>5, <2>2 DEF WriteFails, TypeOK
    <2> QED
      BY <1>5, <2>3, ReturnType, ReturnBusy DEF WriteFails, ReturnErr, TypeOK
  <1>6. CASE Rename(t)
    <2>1. {op[t]} \in SUBSET Ops
      BY <1>6 DEF Rename, Busy
    <2>2. /\ dir' \in [Names -> Inodes \cup {None}]
          /\ dir'["json"] = None \/ dir'["json"] # dir'["tmp"]
      BY <1>6 DEF Rename, TypeOK, Names
    <2> QED
      BY <1>6, <2>1, <2>2, ReturnType, ReturnBusy DEF Rename, ReturnOk, TypeOK
  <1>7. CASE RenameMissing(t)
    BY <1>7, ReturnType, ReturnBusy DEF RenameMissing, ReturnErr, fs, TypeOK
  <1>8. CASE RenameFails(t)
    BY <1>8, ReturnType, ReturnBusy DEF RenameFails, ReturnErr, fs, TypeOK
  <1> QED
    BY <1>1, <1>2, <1>3, <1>4, <1>5, <1>6, <1>7, <1>8 DEF Persist

LEMMA TypeStep == TypeInv /\ [Next]_vars => TypeInv'
  <1> SUFFICES ASSUME TypeInv, [Next]_vars
               PROVE  TypeInv'
    OBVIOUS
  <1>1. ASSUME NEW t \in Threads, Call(t) \/ Persist(t)
        PROVE  TypeInv'
    BY <1>1, CallType, PersistType
  <1>2. CASE Crash
    <2>1. content' \in [Inodes -> Images]
      BY <1>2, ImageFacts DEF Crash, TypeInv, TypeOK
    <2> QED
      BY <1>2, <2>1, ImageFacts DEF Crash, TypeInv, TypeOK, Busy, history
  <1>3. CASE Open
    <2>1. OnDisk.map \in Maps
      BY OnDiskType, ImageFacts DEF TypeInv
    <2> QED
      BY <1>3, <2>1 DEF Open, TypeInv, TypeOK, Busy, fs, history
  <1>4. CASE UNCHANGED vars
    BY <1>4 DEF vars, fs, history, TypeInv, TypeOK, Busy
  <1> QED
    BY <1>1, <1>2, <1>3, <1>4 DEF Next

\* Every reachable state of the store is well typed, and a descriptor is open
\* exactly during the write and the rename.
THEOREM TypeCorrect == Spec => []TypeOK
  BY TypeInit, TypeStep, PTL DEF Spec, TypeInv

-----------------------------------------------------------------------------
(* Who changes what.  A call that changes the map finds the lock free, so   *)
(* afterwards nobody is between serialize and rename.                       *)

Saving(t) == pc[t] \in {"write", "rename"}

LEMMA CallsNeedTheLock ==
    ASSUME TypeInv, NEW t \in Threads, Call(t)
    PROVE  \/ UNCHANGED vars
           \/ /\ \A u \in Threads : ~HoldsReadLock(u)'
              /\ UNCHANGED <<phase, dir, content>>
              /\ pc'[t] = "persist"
  <1>1. ASSUME NEW id, NEW m, Change(t, id, m)
        PROVE  /\ \A u \in Threads : ~HoldsReadLock(u)'
               /\ UNCHANGED <<phase, dir, content>>
               /\ pc'[t] = "persist"
    BY <1>1 DEF Change, WriteLockFree, HoldsReadLock, TypeInv, TypeOK, fs
  <1> QED
    BY <1>1 DEF Call, Insert, Revoke, Remove, NotFound

\* A return ends one thread's save and nobody else's.
LEMMA ReturnEnds ==
    ASSUME TypeInv, NEW t \in Threads, NEW results, Return(t, results)
    PROVE  /\ pc'[t] = "idle"
           /\ \A u \in Threads : u # t =>
                pc'[u] = pc[u] /\ fd'[u] = fd[u] /\ snap'[u] = snap[u]
  BY DEF Return, TypeInv, TypeOK

-----------------------------------------------------------------------------
(* The read lock protects the snapshot.                                    *)

\* While a thread is inside persist, nobody changes the map: the bytes it
\* writes are those of the current map.
SnapshotIsCurrent ==
    \A t \in Threads : HoldsReadLock(t) => snap[t] = records

LEMMA SnapshotStep ==
    TypeInv /\ SnapshotIsCurrent /\ [Next]_vars => SnapshotIsCurrent'
  <1> SUFFICES ASSUME TypeInv, SnapshotIsCurrent, [Next]_vars,
                      NEW u \in Threads, HoldsReadLock(u)'
               PROVE  snap'[u] = records'
    BY DEF SnapshotIsCurrent, HoldsReadLock
  <1>1. ASSUME HoldsReadLock(u), snap'[u] = snap[u], UNCHANGED records
        PROVE  snap'[u] = records'
    BY <1>1 DEF SnapshotIsCurrent
  <1>2. ASSUME NEW t \in Threads, Call(t)
        PROVE  snap'[u] = records'
    BY <1>1, <1>2, CallsNeedTheLock DEF vars, HoldsReadLock
  <1>3. ASSUME NEW t \in Threads, NEW results, Return(t, results),
               UNCHANGED records
        PROVE  snap'[u] = records'
    BY <1>1, <1>3, ReturnEnds DEF HoldsReadLock
  <1>4. ASSUME NEW t \in Threads, Persist(t)
        PROVE  snap'[u] = records'
    <2>1. CASE Serialize(t)
      BY <1>1, <2>1 DEF Serialize, HoldsReadLock, TypeInv, TypeOK
    <2>2. CASE OpenTemporary(t)
      BY <1>1, <2>2 DEF OpenTemporary, HoldsReadLock, TypeInv, TypeOK
    <2>3. CASE WriteTemporary(t)
      BY <1>1, <2>3 DEF WriteTemporary, HoldsReadLock, TypeInv, TypeOK
    <2>4. CASE OpenFails(t) \/ WriteFails(t) \/ Rename(t)
                 \/ RenameMissing(t) \/ RenameFails(t)
      BY <1>3, <2>4 DEF OpenFails, WriteFails, Rename, RenameMissing,
                        RenameFails, ReturnOk, ReturnErr
    <2> QED
      BY <1>4, <2>1, <2>2, <2>3, <2>4 DEF Persist
  <1>5. CASE Crash
    BY <1>5 DEF Crash, HoldsReadLock
  <1>6. CASE Open
    BY <1>6 DEF Open, HoldsReadLock, TypeInv, TypeOK
  <1>7. CASE UNCHANGED vars
    BY <1>1, <1>7 DEF vars, HoldsReadLock
  <1> QED
    BY <1>2, <1>4, <1>5, <1>6, <1>7 DEF Next

\* What a thread is about to write is the map as it is now, not as it was
\* when it serialized it: the read guard of persist lives that long.
THEOREM SnapshotCorrect == Spec => []SnapshotIsCurrent
  <1>1. Init => SnapshotIsCurrent
    BY DEF Init, SnapshotIsCurrent, HoldsReadLock
  <1> QED
    BY <1>1, TypeInit, TypeStep, SnapshotStep, PTL DEF Spec

-----------------------------------------------------------------------------
(* No save installs an older map over a newer one.                         *)

\* As long as somebody is saving, a complete temporary file holds the
\* current map.  (Left behind by a failed save, it may hold any older one.)
TemporaryIsCurrent ==
    \A t \in Threads :
        Saving(t) /\ dir["tmp"] # None /\ content[dir["tmp"]].kind = "json"
            => content[dir["tmp"]].map = records

InstallInv == TypeInv /\ SnapshotIsCurrent /\ TemporaryIsCurrent

\* Saves that end, for any outcome that does not touch a complete file.
LEMMA TemporaryKept ==
    ASSUME InstallInv, UNCHANGED <<records, dir>>,
           \A u \in Threads : Saving(u)' => Saving(u),
           \A i \in Inodes : content'[i].kind = "json"
                               => content'[i] = content[i]
    PROVE  TemporaryIsCurrent'
  <1> SUFFICES ASSUME NEW u \in Threads, Saving(u)', dir'["tmp"] # None,
                      content'[dir'["tmp"]].kind = "json"
               PROVE  content'[dir'["tmp"]].map = records'
    BY DEF TemporaryIsCurrent, Saving
  <1>1. dir["tmp"] \in Inodes
    BY DEF InstallInv, TypeInv, TypeOK, Names
  <1> QED
    BY <1>1 DEF InstallInv, TemporaryIsCurrent

LEMMA PersistTemporary ==
    ASSUME InstallInv, NEW t \in Threads, Persist(t)
    PROVE  TemporaryIsCurrent'
  <1>1. ASSUME NEW results, Return(t, results)
        PROVE  \A u \in Threads : Saving(u)' => Saving(u)
    BY <1>1, ReturnEnds DEF Saving, InstallInv
  <1>2. CASE Serialize(t)
    BY <1>2, TemporaryKept
    DEF Serialize, Saving, InstallInv, TypeInv, TypeOK, fs
  <1>3. CASE OpenTemporary(t)
    <2>1. content'[dir'["tmp"]] = Empty
      BY <1>3 DEF OpenTemporary, TemporaryPath, InstallInv, TypeInv, TypeOK,
                  Names
    <2> QED
      BY <2>1 DEF TemporaryIsCurrent, Empty
  <1>4. CASE WriteTemporary(t)
    <2>1. content' = [content EXCEPT ![fd[t]] = Json(records)]
      BY <1>4 DEF WriteTemporary, InstallInv, SnapshotIsCurrent, HoldsReadLock
    <2>2. UNCHANGED <<records, dir>> /\ Saving(t)
          /\ \A u \in Threads : Saving(u)' => Saving(u)
      BY <1>4 DEF WriteTemporary, Saving, InstallInv, TypeInv, TypeOK
    <2> SUFFICES ASSUME dir["tmp"] # None, content'[dir["tmp"]].kind = "json"
                 PROVE  content'[dir["tmp"]].map = records
      BY <2>2 DEF TemporaryIsCurrent
    <2>3. dir["tmp"] \in Inodes
      BY DEF InstallInv, TypeInv, TypeOK, Names
    <2> QED
      BY <2>1, <2>2, <2>3
      DEF InstallInv, TypeInv, TypeOK, TemporaryIsCurrent, Json
  <1>5. CASE WriteFails(t)
    <2>1. \A i \in Inodes : content'[i].kind = "json"
                              => content'[i] = content[i]
      BY <1>5 DEF WriteFails, Prefix, Torn, InstallInv, TypeInv, TypeOK
    <2> QED
      BY <1>1, <1>5, <2>1, TemporaryKept DEF WriteFails, ReturnErr
  <1>6. CASE Rename(t)
    BY <1>6 DEF Rename, TemporaryIsCurrent, InstallInv, TypeInv, TypeOK, Names
  <1>7. CASE OpenFails(t) \/ RenameMissing(t) \/ RenameFails(t)
    BY <1>1, <1>7, TemporaryKept
    DEF OpenFails, RenameMissing, RenameFails, ReturnErr, fs
  <1> QED
    BY <1>2, <1>3, <1>4, <1>5, <1>6, <1>7 DEF Persist

LEMMA InstallStep == InstallInv /\ [Next]_vars => InstallInv'
  <1> SUFFICES ASSUME InstallInv, [Next]_vars
               PROVE  TemporaryIsCurrent'
    BY TypeStep, SnapshotStep DEF InstallInv
  <1>1. ASSUME NEW t \in Threads, Call(t)
        PROVE  TemporaryIsCurrent'
    <2>1. UNCHANGED vars \/ \A u \in Threads : ~Saving(u)'
      BY <1>1, CallsNeedTheLock DEF InstallInv, HoldsReadLock, Saving
    <2> QED
      BY <2>1 DEF vars, fs, Saving, TemporaryIsCurrent, InstallInv
  <1>2. CASE Crash
    BY <1>2 DEF Crash, TemporaryIsCurrent, Saving
  <1>3. CASE Open
    BY <1>3 DEF Open, TemporaryIsCurrent, Saving, InstallInv, TypeInv, TypeOK
  <1>4. CASE UNCHANGED vars
    BY <1>4 DEF vars, fs, TemporaryIsCurrent, Saving, InstallInv
  <1> QED
    BY <1>1, <1>2, <1>3, <1>4, PersistTemporary DEF Next

\* Only a rename changes what the path certificates.json names.
LEMMA InstalledByRename ==
    ASSUME TypeInv, [Next]_vars, dir'["json"] # dir["json"]
    PROVE  \E t \in Threads : Rename(t)
  <1>1. ~UNCHANGED dir
    OBVIOUS
  <1>2. \A t \in Threads : ~Call(t)
    BY <1>1, CallsNeedTheLock DEF vars, fs
  <1>3. ~Crash /\ ~Open /\ ~UNCHANGED vars
    BY <1>1 DEF Crash, Open, vars, fs
  <1>4. PICK t \in Threads : Persist(t)
    BY <1>2, <1>3 DEF Next
  <1>5. ~OpenTemporary(t)
    BY DEF OpenTemporary, TemporaryPath, TypeInv, TypeOK, Names
  <1> QED
    BY <1>1, <1>4, <1>5 DEF Persist, Serialize, OpenFails, WriteTemporary,
         WriteFails, RenameMissing, RenameFails, fs

\* A complete file that a save puts in place is the current map: saves cannot
\* overtake each other, although they share one temporary file.
THEOREM InstallCorrect == Spec => NoStaleInstall
  <1>1. Init => InstallInv
    BY TypeInit DEF Init, InstallInv, SnapshotIsCurrent, HoldsReadLock,
                    TemporaryIsCurrent, Saving
  <1>2. ASSUME InstallInv, [Next]_vars, dir'["json"] # dir["json"],
               content'[dir'["json"]].kind = "json"
        PROVE  content'[dir'["json"]].map = records'
    <2>1. PICK t \in Threads : Rename(t)
      BY <1>2, InstalledByRename DEF InstallInv
    <2>2. dir'["json"] = dir["tmp"] /\ UNCHANGED <<records, content>>
      BY <1>2, <2>1 DEF Rename, InstallInv, TypeInv, TypeOK, Names
    <2> QED
      BY <1>2, <2>1, <2>2 DEF Rename, InstallInv, TemporaryIsCurrent, Saving
  <1>3. InstallInv /\ [Next]_vars =>
          [dir'["json"] # dir["json"] /\ content'[dir'["json"]].kind = "json"
             => content'[dir'["json"]].map = records']_vars
    BY <1>2
  <1> QED
    BY <1>1, <1>3, InstallStep, PTL DEF Spec, NoStaleInstall

-----------------------------------------------------------------------------
(* Without I/O errors the file is the map whenever nobody is changing it.  *)

OnlyCrashes == Faults \subseteq {"crash"}

\* The inode holds the current map, or a thread is going to write it there.
BeingWritten(i) == \E u \in Threads : pc[u] = "write" /\ fd[u] = i
Settles(i) == content[i] = Json(records) \/ BeingWritten(i)

\* The inode that the next rename installs, or that the last one did.
Latest == IF dir["tmp"] # None THEN dir["tmp"] ELSE dir["json"]

\* As long as somebody is saving, that inode exists and settles.
LatestSettles ==
    \A t \in Threads : Saving(t) => Latest # None /\ Settles(Latest)

DiskInv ==
    TypeInv /\ SnapshotIsCurrent /\ LatestSettles /\ QuiescentDiskCurrent

\* Ending a save after its write leaves the disk to the others.
LEMMA EndKeepsWriters ==
    ASSUME TypeInv, NEW t \in Threads, NEW results, pc[t] = "rename",
           Return(t, results)
    PROVE  \A i : BeingWritten(i) => BeingWritten(i)'
  BY ReturnEnds DEF BeingWritten, TypeInv

\* A save that ends when the latest inode settles: true of whoever still
\* saves, and of the file once nobody does.
LEMMA EndOfSave ==
    ASSUME DiskInv, NEW t \in Threads, NEW results, pc[t] = "rename",
           Return(t, results), UNCHANGED <<records, content>>,
           Latest' = Latest, dir'["tmp"] = None
    PROVE  LatestSettles' /\ QuiescentDiskCurrent'
  <1>1. Latest' # None /\ Settles(Latest)'
    <2>1. Latest # None /\ Settles(Latest)
      BY DEF DiskInv, LatestSettles, Saving
    <2>2. BeingWritten(Latest) => BeingWritten(Latest)'
      BY EndKeepsWriters DEF DiskInv, BeingWritten
    <2> QED
      BY <2>1, <2>2 DEF Settles, Json
  <1>2. LatestSettles'
    BY <1>1 DEF LatestSettles
  <1>3. ASSUME Quiescent'
        PROVE  OnDisk' = Json(records')
    <2>1. ~BeingWritten(Latest)'
      BY <1>3 DEF Quiescent, BeingWritten
    <2> QED
      BY <1>1, <2>1 DEF Settles, OnDisk, Latest
  <1>4. QuiescentDiskCurrent'
    BY <1>3 DEF QuiescentDiskCurrent, Json
  <1> QED
    BY <1>2, <1>4

LEMMA PersistDisk ==
    ASSUME OnlyCrashes, DiskInv, NEW t \in Threads, Persist(t)
    PROVE  LatestSettles' /\ QuiescentDiskCurrent'
  <1>1. CASE Serialize(t)
    <2>1. ~Quiescent' /\ \A u \in Threads : Saving(u)' => Saving(u)
      BY <1>1 DEF Serialize, Quiescent, Saving, DiskInv, TypeInv, TypeOK
    <2>2. \A i : Settles(i) => Settles(i)'
      BY <1>1 DEF Serialize, Settles, BeingWritten, DiskInv, TypeInv, TypeOK, fs
    <2> QED
      BY <1>1, <2>1, <2>2
      DEF Serialize, LatestSettles, Latest, DiskInv, QuiescentDiskCurrent, fs
  <1>2. CASE OpenTemporary(t)
    <2>1. BeingWritten(dir["tmp"])' /\ dir'["tmp"] # None
      BY <1>2 DEF OpenTemporary, TemporaryPath, BeingWritten, DiskInv,
                  TypeInv, TypeOK, Names
    <2>2. ~Quiescent'
      BY <1>2 DEF OpenTemporary, Quiescent, DiskInv, TypeInv, TypeOK
    <2> QED
      BY <2>1, <2>2
      DEF LatestSettles, Latest, Settles, QuiescentDiskCurrent
  <1>3. CASE WriteTemporary(t)
    <2>1. content' = [content EXCEPT ![fd[t]] = Json(records)]
      BY <1>3 DEF WriteTemporary, DiskInv, SnapshotIsCurrent, HoldsReadLock
    <2>2. /\ ~Quiescent' /\ Saving(t) /\ Latest' = Latest
          /\ \A u \in Threads : u # t => pc'[u] = pc[u]
          /\ UNCHANGED <<records, fd>>
      BY <1>3 DEF WriteTemporary, Quiescent, Saving, Latest, DiskInv, TypeInv,
                  TypeOK
    <2>3. Latest # None /\ Settles(Latest)
      BY <2>2 DEF DiskInv, LatestSettles
    <2>4. Latest \in Inodes
      BY <2>3 DEF Latest, DiskInv, TypeInv, TypeOK, Names
    <2>5. CASE content'[Latest] = Json(records)
      BY <2>2, <2>3, <2>5
      DEF LatestSettles, Settles, Json, QuiescentDiskCurrent
    <2>6. CASE content'[Latest] # Json(records)
      <3>1. fd[t] # Latest /\ content[Latest] # Json(records)
        BY <2>1, <2>4, <2>6 DEF DiskInv, TypeInv, TypeOK
      <3>2. BeingWritten(Latest)'
        BY <2>2, <2>3, <3>1 DEF Settles, BeingWritten
      <3> QED
        BY <2>2, <2>3, <3>2 DEF LatestSettles, Settles, QuiescentDiskCurrent
    <2> QED
      BY <2>5, <2>6
  <1>4. CASE Rename(t)
    <2>1. Latest' = Latest /\ dir'["tmp"] = None
      BY <1>4 DEF Rename, Latest, DiskInv, TypeInv, TypeOK, Names
    <2> QED
      BY <1>4, <2>1, EndOfSave DEF Rename, ReturnOk
  <1>5. CASE RenameMissing(t)
    BY <1>5, EndOfSave DEF RenameMissing, ReturnErr, Latest, fs
  <1>6. ~OpenFails(t) /\ ~WriteFails(t) /\ ~RenameFails(t)
    BY DEF OnlyCrashes, OpenFails, WriteFails, RenameFails
  <1> QED
    BY <1>1, <1>2, <1>3, <1>4, <1>5, <1>6 DEF Persist

LEMMA DiskStep == OnlyCrashes /\ DiskInv /\ [Next]_vars => DiskInv'
  <1> SUFFICES ASSUME OnlyCrashes, DiskInv, [Next]_vars
               PROVE  LatestSettles' /\ QuiescentDiskCurrent'
    BY TypeStep, SnapshotStep DEF DiskInv
  <1>1. CASE UNCHANGED vars
    BY <1>1 DEF vars, fs, DiskInv, LatestSettles, QuiescentDiskCurrent, Latest,
                Saving, Settles, BeingWritten, Quiescent, OnDisk
  <1>2. ASSUME NEW t \in Threads, Call(t)
        PROVE  LatestSettles' /\ QuiescentDiskCurrent'
    <2>1. CASE ~UNCHANGED vars
      <3>1. (\A u \in Threads : ~Saving(u)') /\ ~Quiescent'
        BY <1>2, <2>1, CallsNeedTheLock
        DEF DiskInv, HoldsReadLock, Saving, Quiescent
      <3> QED
        BY <3>1 DEF LatestSettles, QuiescentDiskCurrent
    <2> QED
      BY <1>1, <2>1
  <1>3. CASE Crash
    BY <1>3 DEF Crash, LatestSettles, Saving, QuiescentDiskCurrent, Quiescent
  <1>4. CASE Open
    <2>1. \A u \in Threads : ~Saving(u)'
      BY <1>4 DEF Open, Saving, DiskInv, TypeInv, TypeOK
    <2>2. OnDisk' = OnDisk
      BY <1>4 DEF Open, OnDisk, fs
    <2> QED
      BY <1>4, <2>1, <2>2
      DEF Open, LatestSettles, QuiescentDiskCurrent, Quiescent
  <1> QED
    BY <1>1, <1>2, <1>3, <1>4, PersistDisk DEF Next

\* As long as no I/O call fails, and whatever crashes there were, the file is
\* complete and equal to the map in every moment without a call under way.
THEOREM QuiescentDiskCorrect == Spec => []QuiescentDiskCurrent
  <1>1. Init => DiskInv
    BY TypeInit DEF Init, DiskInv, SnapshotIsCurrent, HoldsReadLock,
         LatestSettles, Saving, QuiescentDiskCurrent, OnDisk, Empty, Names
  <1>2. CASE OnlyCrashes
    BY <1>1, <1>2, DiskStep, PTL DEF Spec, DiskInv
  <1>3. CASE ~OnlyCrashes
    <2>1. QuiescentDiskCurrent
      BY <1>3 DEF QuiescentDiskCurrent, OnlyCrashes
    <2> QED
      BY <2>1, PTL
  <1> QED
    BY <1>2, <1>3

=============================================================================
