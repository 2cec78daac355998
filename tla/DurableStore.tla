---------------------------- MODULE DurableStore ----------------------------
(***************************************************************************)
(* What callers of CertificateStore (daemon-pki-api/src/certificates.rs)   *)
(* rely on: a map whose changes are saved whole, and whose Ok replies are  *)
(* given together with the save that makes them durable.  Between a change *)
(* and its save a restart may forget the change, never a saved one.        *)
(***************************************************************************)
CONSTANTS Ids, Reasons

VARIABLES
    memory,     \* the map the running process answers from
    disk,       \* the map a restart would answer from
    running,
    promised    \* [id, status] pairs callers were told of

vars == <<memory, disk, running, promised>>

Status == {"absent", "issued"} \cup Reasons
NoRecords == [id \in Ids |-> "absent"]

Init ==
    /\ memory = NoRecords
    /\ disk = NoRecords
    /\ running = TRUE
    /\ promised = {}

\* A record is issued once, revoked at most once, and removed for good.
Step(old, new) ==
    \/ new = old
    \/ old = "absent" /\ new = "issued"
    \/ old = "issued" /\ new \in Reasons
    \/ old # "absent" /\ new = "absent"

Change(id, status) ==
    /\ running
    /\ Step(memory[id], status)
    /\ memory' = [memory EXCEPT ![id] = status]
    /\ UNCHANGED <<disk, running, promised>>

\* Other calls may have taken the record further before the save.
Later(old, new) ==
    \/ new = old
    \/ old = "issued" /\ new \in Reasons
    \/ new = "absent"

\* A save of the map and the reply to the call that made it.
Save(id, status) ==
    /\ running
    /\ Later(status, memory[id])
    /\ disk' = memory
    /\ promised' = promised \cup {[id |-> id, status |-> status]}
    /\ UNCHANGED <<memory, running>>

Stop ==
    /\ running
    /\ running' = FALSE
    /\ memory' = NoRecords
    /\ UNCHANGED <<disk, promised>>

Start ==
    /\ ~running
    /\ running' = TRUE
    /\ memory' = disk
    /\ UNCHANGED <<disk, promised>>

Next ==
    \/ \E id \in Ids, status \in Status : Save(id, status) \/ Change(id, status)
    \/ Stop
    \/ Start

Spec == Init /\ [][Next]_vars
=============================================================================
