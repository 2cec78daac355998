-------------------------- MODULE CertificateLedger --------------------------
(***************************************************************************)
(* What the clients of daemon-pki-api rely on, whatever happens inside:    *)
(* the record of a certificate on disk only moves forward, from absent to  *)
(* issued to revoked for one reason, and nobody is told that a certificate *)
(* is issued or revoked before the disk says so.  A restart answers from   *)
(* the disk, so what was told is never taken back.                         *)
(*                                                                         *)
(* RevocationService implements it for revocation over crashes, where      *)
(* saves do not overlap.  CertificateApi implements it for issuance and    *)
(* revocation with saves that overlap and without crashes: its disk is the *)
(* last whole file, or the map while a save is still writing the file.     *)
(***************************************************************************)
CONSTANTS
    Ids,     \* certificates
    Reasons  \* revocation reasons

VARIABLES
    ledger,  \* the status of each certificate on disk
    told     \* the [id, status] pairs successful answers stand for

ledgerVars == <<ledger, told>>

Status == {"absent", "issued"} \cup Reasons

\* The statuses in the order a certificate goes through them; a save may
\* carry several steps at once.
Reaches(old, new) ==
    \/ new = old
    \/ old = "absent"
    \/ old = "issued" /\ new \in Reasons

\* The server starts on the records it has, none of them revoked.
Init ==
    /\ ledger \in [Ids -> {"absent", "issued"}]
    /\ told = {}

\* One save of the map takes any number of certificates forward.
Save ==
    /\ ledger' \in [Ids -> Status]
    /\ \A id \in Ids : Reaches(ledger[id], ledger'[id])
    /\ UNCHANGED told

\* An answer says what the disk has reached.
Tell(id, status) ==
    /\ Reaches(status, ledger[id])
    /\ told' = told \cup {[id |-> id, status |-> status]}
    /\ UNCHANGED ledger

Next ==
    \/ Save
    \/ \E id \in Ids, status \in {"issued"} \cup Reasons : Tell(id, status)

Spec == Init /\ [][Next]_ledgerVars
=============================================================================
