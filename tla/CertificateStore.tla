-------------------------- MODULE CertificateStore --------------------------
(***************************************************************************)
(* daemon-pki-api/src/certificates.rs: a map of certificate records behind *)
(* an RwLock, saved as one JSON file after every change by                 *)
(*                                                                         *)
(*     write(certificates.json.tmp); rename(.json.tmp, .json)              *)
(*                                                                         *)
(* Handlers of concurrent connections call it from several threads.  The   *)
(* change of the map (write lock) and the save (read lock, held until the  *)
(* rename is done) are two critical sections, and every thread writes the  *)
(* SAME temporary path.  fs::write is an open that truncates followed by   *)
(* the write, on an inode: whoever opens a path keeps writing to that      *)
(* inode after somebody renamed it.                                        *)
(*                                                                         *)
(* A record is reduced to its status: absent, issued, or revoked for a     *)
(* reason.  A crash is a crash of the process: what write(2) was given     *)
(* survives, only a write that was cut short does not.                     *)
(***************************************************************************)
EXTENDS Naturals, FiniteSets

CONSTANTS
    Threads,    \* threads that run request handlers
    Ids,        \* record ids (Uuid::new_v4, never used twice)
    Reasons,    \* revocation reasons a caller can give
    Inodes,     \* inodes the file system can hand out
    Faults,     \* which of "open", "write", "rename", "crash" may happen
    None        \* no inode, no operation

ASSUME StoreAssumption ==
    /\ None \notin Inodes
    /\ Reasons \cap {"absent", "issued"} = {}
    /\ Faults \subseteq {"open", "write", "rename", "crash"}

Status == {"absent", "issued"} \cup Reasons
Maps   == [Ids -> Status]
NoRecords == [id \in Ids |-> "absent"]

\* What one path of the data directory can hold.  A blank file and a missing
\* one both read back as the empty map (open), a torn one does not parse.
Images      == [kind : {"empty", "torn", "json"}, map : Maps]
Empty       == [kind |-> "empty", map |-> NoRecords]
Torn        == [kind |-> "torn",  map |-> NoRecords]
Json(m)     == [kind |-> "json",  map |-> m]
Names       == {"json", "tmp"}

VARIABLES
    records,    \* the map behind the RwLock; NoRecords when there is no process
    phase,      \* "up", "down" (crashed), "refused" (open returned an error)
    pc,         \* per thread: where in insert/revoke/remove + persist it is
    op,         \* per thread: the record and the status its call left behind
    snap,       \* per thread: `serialized`, the map persist read
    fd,         \* per thread: the inode its fs::write has open
    dir,        \* directory entries of the two paths
    content,    \* what each inode holds
    life,       \* history: "fresh", "stored" or "removed" by a call, per id
    acked       \* history: the calls that returned Ok

vars == <<records, phase, pc, op, snap, fd, dir, content, life, acked>>

fs      == <<dir, content>>
history == <<life, acked>>

Ops == [id : Ids, status : Status]

TypeOK ==
    /\ records \in Maps
    /\ phase \in {"up", "down", "refused"}
    /\ pc \in [Threads -> {"idle", "persist", "open", "write", "rename"}]
    /\ op \in [Threads -> Ops \cup {None}]
    /\ snap \in [Threads -> Maps]
    /\ fd \in [Threads -> Inodes \cup {None}]
    /\ dir \in [Names -> Inodes \cup {None}]
    /\ content \in [Inodes -> Images]
    /\ life \in [Ids -> {"fresh", "stored", "removed"}]
    /\ acked \subseteq Ops
    /\ phase # "up" => \A t \in Threads : pc[t] = "idle"
    /\ \A t \in Threads : (fd[t] # None) <=> (pc[t] \in {"write", "rename"})
    /\ dir["json"] = None \/ dir["json"] # dir["tmp"]

Init ==
    /\ records = NoRecords
    /\ phase = "up"
    /\ pc = [t \in Threads |-> "idle"]
    /\ op = [t \in Threads |-> None]
    /\ snap = [t \in Threads |-> NoRecords]
    /\ fd = [t \in Threads |-> None]
    /\ dir = [n \in Names |-> None]
    /\ content = [i \in Inodes |-> Empty]
    /\ life = [id \in Ids |-> "fresh"]
    /\ acked = {}

-----------------------------------------------------------------------------
(* The map and its lock.                                                   *)

\* persist's read guard lives until persist returns.
HoldsReadLock(t) == pc[t] \in {"open", "write", "rename"}

ReleasedEarly == \A t \in Threads : pc[t] # "open"
WriteLockFree == \A t \in Threads : ~HoldsReadLock(t)

\* The first revocation wins: a later one keeps its time and its reason.
RevokedAgain(m, id, reason)   == [m EXCEPT ![id] = reason]
ReasonForgotten(m, id, reason) == [m EXCEPT ![id] = None]
Revoked(m, id, reason) ==
    IF m[id] \in Reasons THEN m ELSE [m EXCEPT ![id] = reason]

\* The write-locked section of a call that changes `id`; persist comes next.
Change(t, id, m) ==
    /\ phase = "up"
    /\ pc[t] = "idle"
    /\ WriteLockFree
    /\ records' = m
    /\ op' = [op EXCEPT ![t] = [id |-> id, status |-> m[id]]]
    /\ pc' = [pc EXCEPT ![t] = "persist"]
    /\ UNCHANGED <<phase, snap, fd, fs, acked>>

Insert(t, id) ==
    /\ life[id] = "fresh"
    /\ life' = [life EXCEPT ![id] = "stored"]
    /\ Change(t, id, [records EXCEPT ![id] = "issued"])

Revoke(t, id, reason) ==
    /\ records[id] # "absent"
    /\ Change(t, id, Revoked(records, id, reason))
    /\ UNCHANGED life

RemoveUnsaved(t, id) ==
    /\ records[id] # "absent"
    /\ phase = "up" /\ pc[t] = "idle" /\ WriteLockFree
    /\ records' = [records EXCEPT ![id] = "absent"]
    /\ life' = [life EXCEPT ![id] = "removed"]
    /\ UNCHANGED <<phase, pc, op, snap, fd, fs, acked>>
Remove(t, id) ==
    /\ records[id] # "absent"
    /\ life' = [life EXCEPT ![id] = "removed"]
    /\ Change(t, id, [records EXCEPT ![id] = "absent"])

\* revoke and remove of an unknown id: Ok(None), nothing changes, no persist.
NotFound(t, id) ==
    /\ phase = "up"
    /\ pc[t] = "idle"
    /\ WriteLockFree
    /\ records[id] = "absent"
    /\ UNCHANGED vars
-----------------------------------------------------------------------------
(* persist: serialize, fs::write(temporary_path), rename.                  *)

\* path.with_extension("json.tmp"): one temporary name for all threads.
TemporaryIsFinal == "json"
TemporaryPath    == "tmp"

Unreferenced(i) ==
    /\ \A n \in Names : dir[n] # i
    /\ \A t \in Threads : fd[t] # i

\* A call returns; what it returned Ok for is remembered.
Return(t, results) ==
    /\ pc' = [pc EXCEPT ![t] = "idle"]
    /\ op' = [op EXCEPT ![t] = None]
    /\ snap' = [snap EXCEPT ![t] = NoRecords]
    /\ fd' = [fd EXCEPT ![t] = None]
    /\ acked' = acked \cup results

ReturnOk(t)  == Return(t, {op[t]})
ReturnErr(t) == Return(t, {})

Serialize(t) ==
    /\ pc[t] = "persist"
    /\ snap' = [snap EXCEPT ![t] = records]
    /\ pc' = [pc EXCEPT ![t] = "open"]
    /\ UNCHANGED <<records, phase, op, fd, fs, history>>

\* The first half of fs::write: create the file, or truncate what is there.
OpenTemporary(t) ==
    /\ pc[t] = "open"
    /\ pc' = [pc EXCEPT ![t] = "write"]
    /\ \E i \in Inodes :
         /\ IF dir[TemporaryPath] = None THEN Unreferenced(i)
                                         ELSE i = dir[TemporaryPath]
         /\ dir' = [dir EXCEPT ![TemporaryPath] = i]
         /\ fd' = [fd EXCEPT ![t] = i]
         /\ content' = [content EXCEPT ![i] = Empty]
    /\ UNCHANGED <<records, phase, op, snap, history>>

\* create_dir_all or the open fails.
OpenFails(t) ==
    /\ "open" \in Faults
    /\ pc[t] = "open"
    /\ ReturnErr(t)
    /\ UNCHANGED <<records, phase, fs, life>>

WriteTemporary(t) ==
    /\ pc[t] = "write"
    /\ content' = [content EXCEPT ![fd[t]] = Json(snap[t])]
    /\ pc' = [pc EXCEPT ![t] = "rename"]
    /\ UNCHANGED <<records, phase, op, snap, fd, dir, history>>

\* A write that stops early leaves a prefix.  Threads that write one inode
\* together write the same bytes, so bytes already there stay as they are.
Prefix(image) == IF image.kind = "empty" THEN Torn ELSE image

WriteFails(t) ==
    /\ "write" \in Faults
    /\ pc[t] = "write"
    /\ \E image \in {content[fd[t]], Prefix(content[fd[t]])} :
         content' = [content EXCEPT ![fd[t]] = image]
    /\ ReturnErr(t)
    /\ UNCHANGED <<records, phase, dir, life>>

Rename(t) ==
    /\ pc[t] = "rename"
    /\ dir["tmp"] # None
    /\ dir' = [dir EXCEPT !["json"] = dir["tmp"], !["tmp"] = None]
    /\ ReturnOk(t)
    /\ UNCHANGED <<records, phase, content, life>>

\* Another thread has renamed the temporary file away: ENOENT.
RenameRetried(t) ==
    /\ pc[t] = "rename"
    /\ dir["tmp"] = None
    /\ UNCHANGED vars
RenameMissing(t) ==
    /\ pc[t] = "rename"
    /\ dir["tmp"] = None
    /\ ReturnErr(t)
    /\ UNCHANGED <<records, phase, fs, life>>

RenameFails(t) ==
    /\ "rename" \in Faults
    /\ pc[t] = "rename"
    /\ ReturnErr(t)
    /\ UNCHANGED <<records, phase, fs, life>>

Persist(t) ==
    \/ Serialize(t)
    \/ OpenTemporary(t) \/ OpenFails(t)
    \/ WriteTemporary(t) \/ WriteFails(t)
    \/ Rename(t) \/ RenameMissing(t) \/ RenameFails(t)

-----------------------------------------------------------------------------
(* The process dies and is started again.                                  *)

\* A write in progress may be cut short.
Crash ==
    /\ "crash" \in Faults
    /\ phase = "up"
    /\ \E cut \in SUBSET {fd[t] : t \in {u \in Threads : pc[u] = "write"}} :
         content' = [i \in Inodes |-> IF i \in cut THEN Prefix(content[i])
                                                   ELSE content[i]]
    /\ phase' = "down"
    /\ records' = NoRecords
    /\ pc' = [t \in Threads |-> "idle"]
    /\ op' = [t \in Threads |-> None]
    /\ snap' = [t \in Threads |-> NoRecords]
    /\ fd' = [t \in Threads |-> None]
    /\ UNCHANGED <<dir, history>>

OnDisk == IF dir["json"] = None THEN Empty ELSE content[dir["json"]]

\* open; the service manager tries again after an error.
Open ==
    /\ phase \in {"down", "refused"}
    /\ IF OnDisk.kind = "torn"
       THEN phase' = "refused" /\ UNCHANGED records
       ELSE phase' = "up" /\ records' = OnDisk.map
    /\ UNCHANGED <<pc, op, snap, fd, fs, history>>

-----------------------------------------------------------------------------
Call(t) == \E id \in Ids :
    \/ Insert(t, id)
    \/ \E reason \in Reasons : Revoke(t, id, reason)
    \/ Remove(t, id)
    \/ NotFound(t, id)

Next == (\E t \in Threads : Call(t) \/ Persist(t)) \/ Crash \/ Open

Spec == Init /\ [][Next]_vars

\* A thread inside persist is scheduled; nothing forces a call to be made.
FairSpec == Spec /\ \A t \in Threads : WF_vars(Persist(t))

-----------------------------------------------------------------------------
(* Safety                                                                  *)

\* A save never puts an older version of the map over a newer one: what a
\* rename installs is the current map, unless it is a file another thread
\* has truncated (or failed to write).
NoStaleInstall ==
    [][dir'["json"] # dir["json"] /\ content'[dir'["json"]].kind = "json"
         => content'[dir'["json"]].map = records']_vars

\* Without I/O errors, and whatever crashes happened before, the file holds
\* the map as soon as nobody is changing it.
Quiescent == phase = "up" /\ \A t \in Threads : pc[t] = "idle"

QuiescentDiskCurrent ==
    Faults \subseteq {"crash"} /\ Quiescent
        => OnDisk.kind # "torn" /\ OnDisk.map = records

\* What a status may have become since a call reported it.
Kept(id, old, new) ==
    \/ new = old
    \/ old = "issued" /\ new \in Reasons
    \/ new = "absent" /\ life[id] = "removed"

\* "certificate should persist": what a call returned Ok for is in the store
\* for good, over any number of restarts.
AckedIsKept ==
    phase = "up" =>
        \A a \in acked : Kept(a.id, a.status, records[a.id])

\* A restart finds a file it can read.
AlwaysReopens == phase # "refused"

\* One caller at a time gets the durable map of DurableStore: what it is
\* told is saved, and nothing saved is lost.
Durable == INSTANCE DurableStore WITH
    memory <- records, disk <- OnDisk.map, running <- (phase = "up"),
    promised <- acked

ImplementsDurable == Durable!Spec

(* Liveness                                                                *)

\* Every call that changed the map returns (or its process dies).
CallsReturn == \A t \in Threads : pc[t] # "idle" ~> pc[t] = "idle"
=============================================================================
