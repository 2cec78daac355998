------------------------ MODULE CertificateInventory ------------------------
(***************************************************************************)
(* daemon-pki-core/src/certificate: the inventory of certificate metadata  *)
(* (inventory.rs, metadata.rs) and the lifecycle of its entries: state     *)
(* transitions, expiry, the renewal queue and the registration of renewed  *)
(* certificates (lifecycle.rs).                                            *)
(*                                                                         *)
(* Every call takes &mut self, so calls do not overlap.  What makes it     *)
(* hard is the order of calls: an evaluation stops at the first entry that *)
(* cannot expire, a work item outlives the state it was made from, a       *)
(* renewal changes its predecessor before it can fail.                     *)
(*                                                                         *)
(* Time is in seconds.  The workload, device, service and tags of an entry *)
(* are one value, its owner.                                               *)
(***************************************************************************)
EXTENDS Integers, FiniteSets, HashMaps

CONSTANTS
    Ids, Serials, Fingerprints, Owners,
    Lifetimes,      \* the not_after times of new certificates
    Window,         \* renewal_window_seconds
    MaxTime,        \* bound on the time explored
    MaxAttempts,    \* u32::MAX
    MaxItems,       \* bound on the work items made one by one
    None            \* no fingerprint

ASSUME InventoryAssumption ==
    /\ Lifetimes \subseteq Nat
    /\ Window \in Nat /\ MaxTime \in Nat /\ MaxAttempts \in Nat
    /\ MaxItems \in Nat
    /\ None \notin Fingerprints

States == {"Active", "Expiring", "RenewalPending", "Renewed", "Revoked",
           "Expired"}
Usable   == {"Active", "Expiring"}
Terminal == {"Revoked", "Expired"}

Metadata == [serial : Serials, fingerprint : Fingerprints \cup {None},
             owner : Owners, notAfter : Lifetimes, state : States]
WorkItems == [id : Ids, action : {"Renew", "Revoke"}, attempts : 0..MaxAttempts]

VARIABLES
    certificates,       \* Id -> Metadata
    serialIndex,        \* Serial -> Id
    fingerprintIndex,   \* Fingerprint -> Id
    queue,              \* the work items the caller holds
    now,                \* OffsetDateTime::now_utc
    replaced,           \* history: the predecessor of each renewal registered
    marked,             \* history: entries whose fingerprint was set late
    assigned            \* history: entries whose owner was set by a caller

indexes == <<serialIndex, fingerprintIndex>>
history == <<replaced, marked, assigned>>
vars == <<certificates, indexes, queue, now, history>>

Tracked == DOMAIN certificates

TypeOK ==
    /\ certificates \in MapsFrom(Ids, Metadata)
    /\ serialIndex \in MapsFrom(Serials, Ids)
    /\ fingerprintIndex \in MapsFrom(Fingerprints, Ids)
    /\ queue \subseteq WorkItems
    /\ now \in 0..MaxTime
    /\ replaced \in MapsFrom(Ids, Ids)
    /\ marked \subseteq Ids /\ assigned \subseteq Ids

Init ==
    /\ certificates = EmptyMap
    /\ serialIndex = EmptyMap /\ fingerprintIndex = EmptyMap
    /\ queue = {}
    /\ now = 0
    /\ replaced = EmptyMap
    /\ marked = {} /\ assigned = {}

-----------------------------------------------------------------------------
(* metadata.rs, lifecycle.rs: one entry.                                   *)

RenewalDueAnyState(c) == c.notAfter - now <= Window
RenewalDue(c)         == c.notAfter - now <= Window /\ c.state \in Usable

Allowed ==
    {"Active"}         \X {"Expiring", "RenewalPending", "Revoked", "Expired"}
    \cup {"Expiring"}       \X {"RenewalPending", "Revoked", "Expired"}
    \cup {"RenewalPending"} \X {"Renewed", "Revoked", "Expired"}
    \cup {"Renewed"} \X {"Active", "Expiring", "RenewalPending", "Revoked",
                         "Expired"}

\* LifecycleManager::transition: to the state it has, or along Allowed, which
\* leads out of no terminal state.
CanMoveAnywhere(from, to) == from = to \/ to \in States
CanMoveIfLive(from, to)   == from = to \/ to = "Renewed" \/ <<from, to>> \in Allowed
CanMove(from, to)         == from = to \/ <<from, to>> \in Allowed

\* LifecycleManager::evaluate: the state it leaves, when it does not fail.
EvaluationFails(c) == now >= c.notAfter /\ ~CanMove(c.state, "Expired")
EvaluatedLate(c) ==
    IF now > c.notAfter THEN "Expired"
    ELSE IF RenewalDue(c) /\ c.state = "Active" THEN "Expiring"
    ELSE c.state
Evaluated(c) ==
    IF now >= c.notAfter THEN "Expired"
    ELSE IF RenewalDue(c) /\ c.state = "Active" THEN "Expiring"
    ELSE c.state

RenewalAction(c) ==
    CASE c.state = "Active" /\ RenewalDue(c)          -> "Renew"
      [] c.state \in {"Expiring", "RenewalPending"}   -> "Renew"
      [] c.state \in Terminal                         -> "Revoke"
      [] OTHER                                        -> "None"

-----------------------------------------------------------------------------
(* inventory.rs                                                            *)

\* A call that returns an error and changes nothing.
Fails == UNCHANGED <<certificates, indexes, history>>

\* register: fingerprints are indexed but not checked.
TakenId(id, serial) == id \in Tracked
Taken(id, serial)   == id \in Tracked \/ serial \in DOMAIN serialIndex

Entered(map, id, c) ==
    /\ certificates' = Put(map, id, c)
    /\ serialIndex' = Put(serialIndex, c.serial, id)
    /\ fingerprintIndex' = IF c.fingerprint = None THEN fingerprintIndex
                           ELSE Put(fingerprintIndex, c.fingerprint, id)

New == [serial : Serials, fingerprint : Fingerprints \cup {None},
        owner : Owners, notAfter : Lifetimes, state : {"Active"}]

Register(id, c) ==
    /\ IF Taken(id, c.serial)
       THEN Fails
       ELSE Entered(certificates, id, c) /\ UNCHANGED history
    /\ UNCHANGED <<queue, now>>

WithState(id, state) == [certificates EXCEPT ![id].state = state]

\* register_renewal: the predecessor is Renewed before register can refuse
\* the replacement, and stays so.
InheritedNothing(previous, c) == c
Inherited(previous, c) == [c EXCEPT !.owner = certificates[previous].owner]

RegisterRenewal(previous, id, c) ==
    \/ /\ previous \notin Tracked
       /\ Fails
    \/ /\ previous \in Tracked
       /\ ~CanMove(certificates[previous].state, "Renewed")
       /\ Fails
    \/ /\ previous \in Tracked
       /\ CanMove(certificates[previous].state, "Renewed")
       /\ IF Taken(id, c.serial)
          THEN /\ certificates' = WithState(previous, "Renewed")
               /\ UNCHANGED <<indexes, history>>
          ELSE /\ Entered(WithState(previous, "Renewed"), id,
                          Inherited(previous, c))
               /\ replaced' = Put(replaced, id, previous)
               /\ UNCHANGED <<marked, assigned>>

\* remove: drops the index entries of its serial and fingerprint.
KeptIn(index, key)      == index
DroppedFrom(index, key) == Drop(index, key)

Remove(id) ==
    /\ IF id \in Tracked
       THEN LET c == certificates[id] IN
            /\ certificates' = Drop(certificates, id)
            /\ serialIndex' = Drop(serialIndex, c.serial)
            /\ fingerprintIndex' = DroppedFrom(fingerprintIndex, c.fingerprint)
            /\ replaced' = Drop([k \in {i \in DOMAIN replaced : replaced[i] # id}
                                  |-> replaced[k]], id)
            /\ UNCHANGED <<marked, assigned>>
       ELSE Fails
    /\ UNCHANGED <<queue, now>>

\* revoke, mark_renewed, and get_mut followed by LifecycleManager::transition.
Transition(id, state) ==
    /\ IF id \in Tracked /\ CanMove(certificates[id].state, state)
       THEN /\ certificates' = WithState(id, state)
            /\ UNCHANGED <<indexes, history>>
       ELSE Fails
    /\ UNCHANGED <<queue, now>>

\* get_mut followed by mark_fingerprint: the index is not told.
MarkFingerprint(id, fingerprint) ==
    /\ id \in Tracked
    /\ certificates' = [certificates EXCEPT ![id].fingerprint = fingerprint]
    /\ marked' = marked \cup {id}
    /\ UNCHANGED <<indexes, queue, now, replaced, assigned>>

\* get_mut followed by assign_workload, assign_device, assign_service, add_tag.
Assign(id, owner) ==
    /\ id \in Tracked
    /\ certificates' = [certificates EXCEPT ![id].owner = owner]
    /\ assigned' = assigned \cup {id}
    /\ UNCHANGED <<indexes, queue, now, replaced, marked>>

\* evaluate_lifecycle: in the order of the hash map, up to the first failure.
Failing == {id \in Tracked : EvaluationFails(certificates[id])}

AfterEvaluating(ids) ==
    [id \in Tracked |->
        IF id \in ids
        THEN [certificates[id] EXCEPT !.state = Evaluated(certificates[id])]
        ELSE certificates[id]]

\* It returns Ok.
EvaluateAll ==
    /\ Failing = {}
    /\ certificates' = AfterEvaluating(Tracked)
    /\ UNCHANGED <<indexes, queue, now, history>>

\* It returns the error of the first entry that cannot expire.
EvaluateStops ==
    /\ Failing # {}
    /\ \E ids \in SUBSET (Tracked \ Failing) :
          certificates' = AfterEvaluating(ids)
    /\ UNCHANGED <<indexes, queue, now, history>>

EvaluateLifecycle == EvaluateAll \/ EvaluateStops

-----------------------------------------------------------------------------
(* lifecycle.rs: work items and the renewal queue.                         *)

WorkItem(id) ==
    [id |-> id, action |-> RenewalAction(certificates[id]), attempts |-> 0]

\* RenewalWorkItem::new, for one entry: none when there is nothing to do.
NewWorkItem(id) ==
    /\ id \in Tracked
    /\ Cardinality(queue) < MaxItems
    /\ queue' = IF RenewalAction(certificates[id]) = "None" THEN queue
                ELSE queue \cup {WorkItem(id)}
    /\ UNCHANGED <<certificates, indexes, now, history>>

\* renewal_queue: the candidates that are due, with their action.
RenewalQueue ==
    /\ queue' = {item \in {WorkItem(id) :
                           id \in {i \in Tracked : RenewalDue(certificates[i])}} :
                 item.action # "None"}
    /\ UNCHANGED <<certificates, indexes, now, history>>

\* What issue_replacement and renew_into_inventory do with other items.
RefuseItem(item) ==
    /\ item.action # "Renew"
    /\ Fails
    /\ UNCHANGED <<queue, now>>

\* issue_replacement: the CA signs or fails; the inventory is not consulted.
AttemptedUnbounded(n) == n + 1
Attempted(n)          == IF n = MaxAttempts THEN n ELSE n + 1

IssueReplacement(item) ==
    /\ item.action = "Renew"
    /\ queue' = (queue \ {item})
                \cup {[item EXCEPT !.attempts = Attempted(item.attempts)]}
    /\ UNCHANGED <<certificates, indexes, now, history>>

\* renew_into_inventory, possibly long after the item was made.
RenewIntoInventory(item, id, c) ==
    /\ item.action = "Renew"
    /\ RegisterRenewal(item.id, id, c)
    /\ UNCHANGED <<queue, now>>

Tick ==
    /\ now < MaxTime
    /\ now' = now + 1
    /\ UNCHANGED <<certificates, indexes, queue, history>>

Next ==
    \/ EvaluateLifecycle
    \/ \E id \in Ids :
         \/ \E c \in New : Register(id, c)
         \/ \E item \in queue, c \in New : RenewIntoInventory(item, id, c)
         \/ \E previous \in Ids, c \in New :
              RegisterRenewal(previous, id, c) /\ UNCHANGED <<queue, now>>
         \/ Remove(id)
         \/ NewWorkItem(id)
         \/ \E fingerprint \in Fingerprints : MarkFingerprint(id, fingerprint)
         \/ \E owner \in Owners : Assign(id, owner)
         \/ \E state \in States : Transition(id, state)
    \/ \E item \in queue : IssueReplacement(item) \/ RefuseItem(item)
    \/ RenewalQueue
    \/ Tick

Spec == Init /\ [][Next]_vars

-----------------------------------------------------------------------------
(* Safety                                                                  *)

\* find_by_serial finds exactly the entries of the inventory, one per serial.
SerialIndexExact ==
    /\ \A s \in DOMAIN serialIndex :
         /\ serialIndex[s] \in Tracked
         /\ certificates[serialIndex[s]].serial = s
    /\ \A id \in Tracked :
         /\ certificates[id].serial \in DOMAIN serialIndex
         /\ serialIndex[certificates[id].serial] = id

\* find_by_fingerprint never gives a certificate with another fingerprint,
\* nor one that was removed, as long as mark_fingerprint comes before register.
FingerprintHitIsRight ==
    \A f \in DOMAIN fingerprintIndex :
        LET id == fingerprintIndex[f] IN
        id \notin marked => id \in Tracked /\ certificates[id].fingerprint = f

\* A revoked or expired entry keeps its state until it is removed, whatever
\* renewals, evaluations and late work items come.
TerminalIsFinal ==
    [][\A id \in Tracked \cap DOMAIN certificates' :
         certificates[id].state \in Terminal
             => certificates'[id].state = certificates[id].state]_certificates

\* A work item that waited while its certificate was revoked, expired or
\* removed brings no replacement into the inventory.
NoReplacementForTerminal ==
    [][\A id \in DOMAIN replaced' \ DOMAIN replaced :
         /\ replaced'[id] \in Tracked
         /\ certificates[replaced'[id]].state \notin Terminal]_replaced

\* A replacement belongs to the workload, device and service of the
\* certificate it replaces, along chains of renewals too, unless a caller
\* assigned one of the two to somebody else.
OwnersInherited ==
    \A id \in DOMAIN replaced :
        id \in Tracked /\ {id, replaced[id]} \cap assigned = {} =>
            /\ replaced[id] \in Tracked
            /\ certificates[id].owner = certificates[replaced[id]].owner

\* An evaluation that succeeds leaves no entry in a state its dates deny.
EvaluatedIsCurrent ==
    [][EvaluateAll =>
         \A id \in Tracked :
           LET c == certificates'[id] IN
           /\ now >= c.notAfter => c.state = "Expired"
           /\ c.notAfter - now <= Window => c.state # "Active"]_vars

\* renewal_queue never makes work that issue_replacement would refuse, nor
\* work for an entry that is revoked or expired.
QueueOnlyRenews ==
    [][RenewalQueue =>
         \A item \in queue' :
           /\ item.action = "Renew"
           /\ certificates[item.id].state \notin Terminal]_queue

\* "Evaluate lifecycle state for every certificate."
EvaluatesEveryCertificate ==
    [][EvaluateLifecycle =>
         \A id \in Tracked :
           now >= certificates[id].notAfter /\ certificates[id].state \notin Terminal
             => certificates'[id].state = "Expired"]_vars
=============================================================================
