----------------------------- MODULE SavedFile -----------------------------
(***************************************************************************)
(* certificates.json as CertificateStore::persist writes it                *)
(* (daemon-pki-api/src/certificates.rs), for the components that save from *)
(* several threads: CertificateApi and RevocationService.  CertificateStore *)
(* models the same steps down to inodes and directory entries; here a      *)
(* thread that has the temporary file open knows what has become of it.    *)
(*                                                                         *)
(* Every thread writes the SAME temporary file, under a read lock that     *)
(* others share: one may truncate or rename away what another has written. *)
(* The lock is held from before the map is read until the save ends, so    *)
(* reading the map and opening the file are one step here.                 *)
(***************************************************************************)
CONSTANTS
    Missing,  \* no file
    Blank,    \* a file truncated and not yet written: reads as no records
    Torn      \* what a write that failed leaves: does not parse

VARIABLES
    saved,      \* what certificates.json holds: a map, Blank or Torn
    temporary,  \* the same of certificates.json.tmp, while somebody saves;
                \* what is left of it is truncated by whoever saves next
    io          \* per thread: where the file it has open is, or "written"
                \* when only the rename is left, or "none"

file == <<saved, temporary, io>>

Damaged == {Blank, Torn}
Opened  == {"tmp", "json", "unlinked"}
Places  == {"none", "written"} \cup Opened

Whole       == saved \notin Damaged
Saving(t)   == io[t] # "none"
SavesSerial == \A t, u \in DOMAIN io : Saving(t) /\ Saving(u) => t = u

\* Nobody changes the map while it is being saved.
WriteLockFree == \A t \in DOMAIN io : ~Saving(t)

\* fs::write: create the temporary file, or truncate the one that is there.
OpenTemporary(t) ==
    /\ io[t] = "none"
    /\ io' = [io EXCEPT ![t] = "tmp"]
    /\ temporary' = Blank
    /\ UNCHANGED saved

\* ... and write it, wherever it is by now.
WriteSkipped(t, map) ==
    /\ io[t] \in Opened
    /\ io' = [io EXCEPT ![t] = "written"]
    /\ UNCHANGED <<saved, temporary>>
Write(t, map) ==
    /\ io[t] \in Opened
    /\ io' = [io EXCEPT ![t] = "written"]
    /\ temporary' = IF io[t] = "tmp" THEN map ELSE temporary
    /\ saved' = IF io[t] = "json" THEN map ELSE saved

\* What is called tmp becomes the file, whoever has written or truncated it.
Renamed(place) ==
    CASE place = "tmp"  -> "json"
      [] place = "json" -> "unlinked"
      [] OTHER          -> place

Rename(t) ==
    /\ io[t] = "written" /\ temporary # Missing
    /\ saved' = temporary
    /\ temporary' = Missing
    /\ io' = [u \in DOMAIN io |-> IF u = t THEN "none" ELSE Renamed(io[u])]

-----------------------------------------------------------------------------
(* A save that fails, and the process that dies.                           *)

\* A write that stops early.  Threads that write one file together write the
\* same bytes, so what is there already stays as it is.
Prefixes(image) == {image} \cup IF image = Blank THEN {Torn} ELSE {}

\* persist returns an error, and leaves the temporary file as it is.
StopSaving(t, image) ==
    /\ io' = [io EXCEPT ![t] = "none"]
    /\ temporary' = IF \E u \in DOMAIN io \ {t} : Saving(u) THEN image
                                                          ELSE Missing

\* create_dir_all or the open fails.
OpenFails(t) ==
    /\ io[t] = "none"
    /\ UNCHANGED file

WriteFails(t) ==
    /\ io[t] \in Opened
    /\ \E image \in IF io[t] = "tmp" THEN Prefixes(temporary) ELSE {temporary} :
         StopSaving(t, image)
    /\ saved' \in IF io[t] = "json" THEN Prefixes(saved) ELSE {saved}

\* Another thread has renamed the temporary file away: ENOENT.
RenameMissing(t) ==
    /\ io[t] = "written" /\ temporary = Missing
    /\ StopSaving(t, temporary)
    /\ UNCHANGED saved

RenameFails(t) ==
    /\ io[t] = "written"
    /\ StopSaving(t, temporary)
    /\ UNCHANGED saved

\* A write in progress may be cut short.
LoseSaves ==
    /\ io' = [t \in DOMAIN io |-> "none"]
    /\ temporary' = Missing
    /\ saved' \in IF \E t \in DOMAIN io : io[t] = "json" THEN Prefixes(saved)
                                                        ELSE {saved}
=============================================================================
