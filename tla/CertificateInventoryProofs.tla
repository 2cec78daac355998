--------------------- MODULE CertificateInventoryProofs ---------------------
(***************************************************************************)
(* Proofs about CertificateInventory, for any ids, serials, fingerprints,  *)
(* owners and lifetimes, any renewal window and any bounds.                *)
(***************************************************************************)
EXTENDS CertificateInventory, HashMapsProofs

-----------------------------------------------------------------------------
(* The inductive invariant.                                                *)

\* The strengthening: what is recorded as a replacement is in the inventory,
\* so an id that is registered again starts without a predecessor.
IInv ==
    /\ TypeOK
    /\ SerialIndexExact
    /\ FingerprintHitIsRight
    /\ OwnersInherited
    /\ DOMAIN replaced \subseteq Tracked

LEMMA InitHolds == Init => IInv
  BY MapEmpty, InventoryAssumption
  DEF Init, IInv, TypeOK, SerialIndexExact, FingerprintHitIsRight,
      OwnersInherited, Tracked

-----------------------------------------------------------------------------
(* One entry, and maps whose entries differ in their states only.          *)

LEMMA Typed ==
    ASSUME TypeOK, NEW id \in Tracked
    PROVE  id \in Ids /\ certificates[id] \in Metadata
  BY MapValue DEF TypeOK, Tracked

LEMMA StateSet ==
    ASSUME NEW c \in Metadata, NEW state \in States
    PROVE  /\ [c EXCEPT !.state = state] \in Metadata
           /\ [c EXCEPT !.state = state].state = state
           /\ [c EXCEPT !.state = state].serial = c.serial
           /\ [c EXCEPT !.state = state].fingerprint = c.fingerprint
           /\ [c EXCEPT !.state = state].owner = c.owner
           /\ [c EXCEPT !.state = state].notAfter = c.notAfter
  BY DEF Metadata

SameButStates(map) ==
    /\ map \in MapsFrom(Ids, Metadata)
    /\ DOMAIN map = Tracked
    /\ \A id \in Tracked :
         /\ map[id].serial = certificates[id].serial
         /\ map[id].fingerprint = certificates[id].fingerprint
         /\ map[id].owner = certificates[id].owner

LEMMA WithStateSame ==
    ASSUME TypeOK, NEW id \in Tracked, NEW state \in States
    PROVE  SameButStates(WithState(id, state))
  <1>1. [certificates[id] EXCEPT !.state = state] \in Metadata
    BY Typed, StateSet
  <1>2. WithState(id, state)
          = [certificates EXCEPT ![id] =
                [certificates[id] EXCEPT !.state = state]]
    BY DEF WithState
  <1>3. WithState(id, state) \in MapsFrom(Ids, Metadata)
    <2>1. certificates \in MapsFrom(Ids, Metadata)
      BY DEF TypeOK
    <2> DEFINE c == [certificates[id] EXCEPT !.state = state]
    <2>2. c \in Metadata
      BY <1>1
    <2> HIDE DEF c
    <2>3. [certificates EXCEPT ![id] = c] \in MapsFrom(Ids, Metadata)
      BY <2>1, <2>2, MapUpdate
    <2> QED
      BY <1>2, <2>3 DEF c
  <1>4. DOMAIN WithState(id, state) = Tracked
    BY DEF WithState, Tracked
  <1>5. \A i \in Tracked :
          /\ WithState(id, state)[i].serial = certificates[i].serial
          /\ WithState(id, state)[i].fingerprint = certificates[i].fingerprint
          /\ WithState(id, state)[i].owner = certificates[i].owner
    BY Typed, StateSet, <1>2 DEF Tracked
  <1> QED
    BY <1>3, <1>4, <1>5 DEF SameButStates

LEMMA EvaluatedState ==
    ASSUME TypeOK, NEW id \in Tracked
    PROVE  Evaluated(certificates[id]) \in States
  BY Typed DEF Evaluated, States, Metadata

LEMMA EvaluatedSame ==
    ASSUME TypeOK, NEW ids \in SUBSET Tracked
    PROVE  SameButStates(AfterEvaluating(ids))
  <1>1. DOMAIN AfterEvaluating(ids) = Tracked
    BY DEF AfterEvaluating
  <1>2. \A id \in Tracked :
          /\ AfterEvaluating(ids)[id] \in Metadata
          /\ AfterEvaluating(ids)[id].serial = certificates[id].serial
          /\ AfterEvaluating(ids)[id].fingerprint = certificates[id].fingerprint
          /\ AfterEvaluating(ids)[id].owner = certificates[id].owner
    <2> SUFFICES ASSUME NEW id \in Tracked
                 PROVE  /\ AfterEvaluating(ids)[id] \in Metadata
                        /\ AfterEvaluating(ids)[id].serial
                             = certificates[id].serial
                        /\ AfterEvaluating(ids)[id].fingerprint
                             = certificates[id].fingerprint
                        /\ AfterEvaluating(ids)[id].owner
                             = certificates[id].owner
      OBVIOUS
    <2> DEFINE state == Evaluated(certificates[id])
    <2>1. AfterEvaluating(ids)[id]
            = IF id \in ids THEN [certificates[id] EXCEPT !.state = state]
                            ELSE certificates[id]
      BY DEF AfterEvaluating
    <2>2. state \in States
      BY EvaluatedState
    <2> HIDE DEF state
    <2> QED
      BY <2>1, <2>2, Typed, StateSet
  <1>3. Tracked \subseteq Ids
    BY Typed
  <1>4. AfterEvaluating(ids) \in [Tracked -> Metadata]
    BY <1>1, <1>2 DEF AfterEvaluating
  <1>5. AfterEvaluating(ids) \in MapsFrom(Ids, Metadata)
    BY <1>1, <1>3, <1>4, MapIs
  <1> QED
    BY <1>1, <1>2, <1>5 DEF SameButStates

-----------------------------------------------------------------------------
(* What the steps keep.                                                    *)

\* A step that changes states only.
LEMMA StatesKeep ==
    ASSUME IInv, SameButStates(certificates'), UNCHANGED <<indexes, history>>,
           queue' \subseteq WorkItems, now' \in 0..MaxTime
    PROVE  IInv'
  BY DEF IInv, TypeOK, SerialIndexExact, FingerprintHitIsRight, OwnersInherited,
         SameButStates, Tracked, indexes, history

\* A step that changes no entry at all.
LEMMA NothingKeeps ==
    ASSUME IInv, UNCHANGED <<certificates, indexes, history>>,
           queue' \subseteq WorkItems, now' \in 0..MaxTime
    PROVE  IInv'
  BY DEF IInv, TypeOK, SerialIndexExact, FingerprintHitIsRight, OwnersInherited,
         Tracked, indexes, history

\* A new entry: its serial was free, and its fingerprint leads to it.
LEMMA EnteredKeeps ==
    ASSUME IInv, NEW map, SameButStates(map), NEW id \in Ids,
           NEW c \in Metadata, ~Taken(id, c.serial), Entered(map, id, c),
           UNCHANGED <<marked, assigned, queue, now>>
    PROVE  /\ certificates' \in MapsFrom(Ids, Metadata)
           /\ serialIndex' \in MapsFrom(Serials, Ids)
           /\ fingerprintIndex' \in MapsFrom(Fingerprints, Ids)
           /\ SerialIndexExact' /\ FingerprintHitIsRight'
           /\ Tracked' = Tracked \cup {id}
           /\ certificates'[id] = c
           /\ \A i \in Tracked : certificates'[i].owner = certificates[i].owner
  <1>1. /\ certificates' = Put(map, id, c)
        /\ serialIndex' = Put(serialIndex, c.serial, id)
    BY DEF Entered
  <1>2. c.serial \in Serials /\ c.fingerprint \in Fingerprints \cup {None}
    BY DEF Metadata
  <1>3. certificates' \in MapsFrom(Ids, Metadata)
    BY <1>1, MapPut DEF SameButStates
  <1>4. serialIndex' \in MapsFrom(Serials, Ids)
    BY <1>1, <1>2, MapPut DEF IInv, TypeOK
  <1>5. fingerprintIndex' \in MapsFrom(Fingerprints, Ids)
    <2>1. CASE c.fingerprint = None
      BY <2>1 DEF Entered, IInv, TypeOK
    <2>2. CASE c.fingerprint # None
      <3>1. Put(fingerprintIndex, c.fingerprint, id)
              \in MapsFrom(Fingerprints, Ids)
        BY <1>2, <2>2, MapPut DEF IInv, TypeOK
      <3> QED
        BY <2>2, <3>1 DEF Entered
    <2> QED
      BY <2>1, <2>2
  <1>6. Tracked' = Tracked \cup {id} /\ id \notin Tracked
    <2>1. DOMAIN Put(map, id, c) = DOMAIN map \cup {id}
      BY PutDomain
    <2> QED
      BY <1>1, <2>1 DEF SameButStates, Tracked, Taken
  <1>7. certificates'[id] = c
    BY <1>1 DEF Put
  <1>8. \A i \in Tracked : certificates'[i] = map[i]
    BY <1>1, <1>6 DEF Put, SameButStates
  <1>9. SerialIndexExact'
    <2>1. DOMAIN serialIndex' = DOMAIN serialIndex \cup {c.serial}
      BY <1>1, PutDomain
    <2>2. c.serial \notin DOMAIN serialIndex
      BY DEF Taken
    <2>3. /\ serialIndex'[c.serial] = id
          /\ \A s \in DOMAIN serialIndex : serialIndex'[s] = serialIndex[s]
      BY <1>1, <2>2 DEF Put
    <2> QED
      BY <1>6, <1>7, <1>8, <2>1, <2>2, <2>3
      DEF SerialIndexExact, IInv, SameButStates
  <1>10. FingerprintHitIsRight'
    <2> SUFFICES ASSUME NEW f \in DOMAIN fingerprintIndex',
                        fingerprintIndex'[f] \notin marked
                 PROVE  /\ fingerprintIndex'[f] \in Tracked'
                        /\ certificates'[fingerprintIndex'[f]].fingerprint = f
      BY DEF FingerprintHitIsRight
    <2>1. CASE f = c.fingerprint /\ c.fingerprint # None
      <3>1. fingerprintIndex'[f] = id
        BY <2>1 DEF Entered, Put
      <3> QED
        BY <1>6, <1>7, <2>1, <3>1
    <2>2. CASE ~(f = c.fingerprint /\ c.fingerprint # None)
      <3>1. f \in DOMAIN fingerprintIndex
            /\ fingerprintIndex'[f] = fingerprintIndex[f]
        BY <2>2 DEF Entered, Put
      <3>2. /\ fingerprintIndex[f] \in Tracked
            /\ certificates[fingerprintIndex[f]].fingerprint = f
        BY <3>1 DEF IInv, FingerprintHitIsRight
      <3> QED
        BY <1>6, <1>8, <3>1, <3>2 DEF SameButStates
    <2> QED
      BY <2>1, <2>2
  <1> QED
    BY <1>3, <1>4, <1>5, <1>6, <1>7, <1>8, <1>9, <1>10 DEF SameButStates

LEMMA NewIsMetadata == New \subseteq Metadata
  BY DEF New, Metadata, States

LEMMA RegisterKeeps ==
    ASSUME IInv, NEW id \in Ids, NEW c \in New, Register(id, c)
    PROVE  IInv'
  <1>1. queue' \subseteq WorkItems /\ now' \in 0..MaxTime
    BY DEF Register, IInv, TypeOK
  <1>2. CASE Taken(id, c.serial)
    BY <1>1, <1>2, NothingKeeps DEF Register, Fails
  <1>3. CASE ~Taken(id, c.serial)
    <2>1. SameButStates(certificates)
      BY DEF SameButStates, IInv, TypeOK, Tracked
    <2>2. Entered(certificates, id, c) /\ UNCHANGED <<history, queue, now>>
      BY <1>3 DEF Register
    <2>3. UNCHANGED <<marked, assigned, replaced, queue, now>>
      BY <2>2 DEF history
    <2>4. c \in Metadata
      BY NewIsMetadata
    <2>5. /\ certificates' \in MapsFrom(Ids, Metadata)
          /\ serialIndex' \in MapsFrom(Serials, Ids)
          /\ fingerprintIndex' \in MapsFrom(Fingerprints, Ids)
          /\ SerialIndexExact' /\ FingerprintHitIsRight'
          /\ Tracked' = Tracked \cup {id}
          /\ \A i \in Tracked : certificates'[i].owner = certificates[i].owner
      BY <1>3, <2>1, <2>2, <2>3, <2>4, EnteredKeeps
    <2>6. TypeOK'
      BY <1>1, <2>3, <2>5 DEF TypeOK, IInv
    <2>7. OwnersInherited' /\ DOMAIN replaced' \subseteq Tracked'
      BY <2>3, <2>5 DEF OwnersInherited, IInv
    <2> QED
      BY <2>5, <2>6, <2>7 DEF IInv
  <1> QED
    BY <1>2, <1>3

LEMMA RenewalKeeps ==
    ASSUME IInv, NEW previous \in Ids, NEW id \in Ids, NEW c \in New,
           RegisterRenewal(previous, id, c), UNCHANGED <<queue, now>>
    PROVE  IInv'
  <1>1. queue' \subseteq WorkItems /\ now' \in 0..MaxTime
    BY DEF IInv, TypeOK
  <1>2. CASE Fails
    BY <1>1, <1>2, NothingKeeps DEF Fails
  <1>3. CASE ~Fails
    <2>1. previous \in Tracked
      BY <1>3 DEF RegisterRenewal
    <2> DEFINE map == WithState(previous, "Renewed")
               new == Inherited(previous, c)
    <2>2. SameButStates(map)
      BY <2>1, WithStateSame DEF States, IInv
    <2>3. CASE Taken(id, c.serial)
      <3>1. certificates' = map /\ UNCHANGED <<indexes, history>>
        BY <1>3, <2>3 DEF RegisterRenewal
      <3> QED
        BY <1>1, <2>2, <3>1, StatesKeep
    <2>4. CASE ~Taken(id, c.serial)
      <3>1. /\ Entered(map, id, new)
            /\ replaced' = Put(replaced, id, previous)
            /\ UNCHANGED <<marked, assigned>>
        BY <1>3, <2>4 DEF RegisterRenewal
      <3>2. /\ new \in Metadata
            /\ new.serial = c.serial /\ new.owner = certificates[previous].owner
        <4>1. c \in Metadata /\ certificates[previous] \in Metadata
          BY <2>1, NewIsMetadata, Typed DEF IInv
        <4> QED
          BY <4>1 DEF Inherited, Metadata
      <3> HIDE DEF map, new
      <3>3. /\ certificates' \in MapsFrom(Ids, Metadata)
            /\ serialIndex' \in MapsFrom(Serials, Ids)
            /\ fingerprintIndex' \in MapsFrom(Fingerprints, Ids)
            /\ SerialIndexExact' /\ FingerprintHitIsRight'
            /\ Tracked' = Tracked \cup {id}
            /\ certificates'[id] = new
            /\ \A i \in Tracked : certificates'[i].owner = certificates[i].owner
        BY <2>2, <2>4, <3>1, <3>2, EnteredKeeps
      <3>4. replaced' \in MapsFrom(Ids, Ids)
        BY <3>1, MapPut DEF IInv, TypeOK
      <3>5. TypeOK'
        BY <1>1, <3>1, <3>3, <3>4 DEF TypeOK, IInv
      <3>6. id \notin Tracked
        BY <2>4 DEF Taken
      <3>7. /\ DOMAIN replaced' = DOMAIN replaced \cup {id}
            /\ replaced'[id] = previous
            /\ \A i \in DOMAIN replaced : replaced'[i] = replaced[i]
        BY <3>1, <3>6, PutDomain DEF Put, IInv
      <3>8. OwnersInherited' /\ DOMAIN replaced' \subseteq Tracked'
        BY <2>1, <3>1, <3>2, <3>3, <3>6, <3>7 DEF OwnersInherited, IInv
      <3> QED
        BY <3>3, <3>5, <3>8 DEF IInv
    <2> QED
      BY <2>3, <2>4
  <1> QED
    BY <1>2, <1>3

\* Removal takes the entry out of both indexes and out of the history.
LEMMA RemoveKeeps ==
    ASSUME IInv, NEW id \in Ids, Remove(id)
    PROVE  IInv'
  <1>1. queue' \subseteq WorkItems /\ now' \in 0..MaxTime
    BY DEF Remove, IInv, TypeOK
  <1>2. CASE id \notin Tracked
    BY <1>1, <1>2, NothingKeeps DEF Remove, Fails
  <1>3. CASE id \in Tracked
    <2> DEFINE c == certificates[id]
               kept == {i \in DOMAIN replaced : replaced[i] # id}
               left == [k \in kept |-> replaced[k]]
    <2>1. /\ certificates' = Drop(certificates, id)
          /\ serialIndex' = Drop(serialIndex, c.serial)
          /\ fingerprintIndex' = Drop(fingerprintIndex, c.fingerprint)
          /\ replaced' = Drop(left, id)
          /\ UNCHANGED <<marked, assigned>>
      BY <1>3 DEF Remove, DroppedFrom
    <2>2. /\ certificates' \in MapsFrom(Ids, Metadata)
          /\ serialIndex' \in MapsFrom(Serials, Ids)
          /\ fingerprintIndex' \in MapsFrom(Fingerprints, Ids)
      BY <2>1, MapDrop DEF IInv, TypeOK
    <2>3. /\ DOMAIN replaced' = kept \ {id}
          /\ \A i \in kept \ {id} : replaced'[i] = replaced[i]
      BY <2>1 DEF Drop
    <2>4. replaced' \in MapsFrom(Ids, Ids)
      <3>1. \A i \in DOMAIN replaced : i \in Ids /\ replaced[i] \in Ids
        BY MapValue DEF IInv, TypeOK
      <3>2. left \in MapsFrom(Ids, Ids)
        BY <3>1, MapIs
      <3> HIDE DEF left
      <3> QED
        BY <2>1, <3>2, MapDrop
    <2>5. TypeOK'
      BY <1>1, <2>1, <2>2, <2>4 DEF IInv, TypeOK
    <2>6. /\ Tracked' = Tracked \ {id}
          /\ \A i \in Tracked' : certificates'[i] = certificates[i]
      BY <2>1 DEF Drop, Tracked
    <2>7. SerialIndexExact'
      <3>1. /\ DOMAIN serialIndex' = DOMAIN serialIndex \ {c.serial}
            /\ \A s \in DOMAIN serialIndex' : serialIndex'[s] = serialIndex[s]
        BY <2>1 DEF Drop
      <3>2. serialIndex[c.serial] = id
        BY <1>3 DEF IInv, SerialIndexExact
      <3> QED
        BY <1>3, <2>6, <3>1, <3>2 DEF IInv, SerialIndexExact
    <2>8. FingerprintHitIsRight'
      <3>1. /\ DOMAIN fingerprintIndex'
                 = DOMAIN fingerprintIndex \ {c.fingerprint}
            /\ \A f \in DOMAIN fingerprintIndex' :
                 fingerprintIndex'[f] = fingerprintIndex[f]
        BY <2>1 DEF Drop
      <3> QED
        BY <2>1, <2>6, <3>1 DEF IInv, FingerprintHitIsRight
    <2>9. OwnersInherited' /\ DOMAIN replaced' \subseteq Tracked'
      BY <2>1, <2>3, <2>6 DEF IInv, OwnersInherited
    <2> QED
      BY <2>5, <2>7, <2>8, <2>9 DEF IInv
  <1> QED
    BY <1>2, <1>3

LEMMA TransitionKeeps ==
    ASSUME IInv, NEW id \in Ids, NEW state \in States, Transition(id, state)
    PROVE  IInv'
  <1>1. queue' \subseteq WorkItems /\ now' \in 0..MaxTime
    BY DEF Transition, IInv, TypeOK
  <1>2. CASE Fails
    BY <1>1, <1>2, NothingKeeps DEF Fails
  <1>3. CASE ~Fails
    <2>1. /\ id \in Tracked /\ certificates' = WithState(id, state)
          /\ UNCHANGED <<indexes, history>>
      BY <1>3 DEF Transition
    <2>2. SameButStates(WithState(id, state))
      BY <2>1, WithStateSame DEF IInv
    <2> QED
      BY <1>1, <2>1, <2>2, StatesKeep
  <1> QED
    BY <1>2, <1>3

\* What a caller does through get_mut: the entry is marked in the history.
LEMMA MarkKeeps ==
    ASSUME IInv, NEW id \in Ids, NEW fingerprint \in Fingerprints,
           MarkFingerprint(id, fingerprint)
    PROVE  IInv'
  <1> DEFINE c == [certificates[id] EXCEPT !.fingerprint = fingerprint]
  <1>1. id \in Tracked /\ UNCHANGED <<indexes, queue, now, replaced, assigned>>
        /\ marked' = marked \cup {id}
    BY DEF MarkFingerprint
  <1>2. certificates[id] \in Metadata
    BY <1>1, Typed DEF IInv
  <1>3. /\ c \in Metadata /\ c.fingerprint = fingerprint
        /\ c.serial = certificates[id].serial
        /\ c.owner = certificates[id].owner
    BY <1>2 DEF Metadata
  <1>4. certificates' = [certificates EXCEPT ![id] = c]
    BY DEF MarkFingerprint
  <1> HIDE DEF c
  <1>5. certificates' \in MapsFrom(Ids, Metadata)
    BY <1>3, <1>4, MapUpdate DEF IInv, TypeOK
  <1>6. /\ Tracked' = Tracked
        /\ \A i \in Tracked : certificates'[i] = IF i = id THEN c
                                                           ELSE certificates[i]
    BY <1>1, <1>4 DEF Tracked
  <1>7. TypeOK'
    BY <1>1, <1>5 DEF IInv, TypeOK, indexes
  <1>8. SerialIndexExact'
    BY <1>1, <1>3, <1>6 DEF IInv, SerialIndexExact, indexes
  <1>9. FingerprintHitIsRight'
    BY <1>1, <1>6 DEF IInv, FingerprintHitIsRight, indexes
  <1>10. OwnersInherited' /\ DOMAIN replaced' \subseteq Tracked'
    BY <1>1, <1>3, <1>6 DEF IInv, OwnersInherited
  <1> QED
    BY <1>7, <1>8, <1>9, <1>10 DEF IInv

LEMMA AssignKeeps ==
    ASSUME IInv, NEW id \in Ids, NEW owner \in Owners, Assign(id, owner)
    PROVE  IInv'
  <1> DEFINE c == [certificates[id] EXCEPT !.owner = owner]
  <1>1. id \in Tracked /\ UNCHANGED <<indexes, queue, now, replaced, marked>>
        /\ assigned' = assigned \cup {id}
    BY DEF Assign
  <1>2. certificates[id] \in Metadata
    BY <1>1, Typed DEF IInv
  <1>3. /\ c \in Metadata
        /\ c.serial = certificates[id].serial
        /\ c.fingerprint = certificates[id].fingerprint
    BY <1>2 DEF Metadata
  <1>4. certificates' = [certificates EXCEPT ![id] = c]
    BY DEF Assign
  <1> HIDE DEF c
  <1>5. certificates' \in MapsFrom(Ids, Metadata)
    BY <1>3, <1>4, MapUpdate DEF IInv, TypeOK
  <1>6. /\ Tracked' = Tracked
        /\ \A i \in Tracked : certificates'[i] = IF i = id THEN c
                                                           ELSE certificates[i]
    BY <1>1, <1>4 DEF Tracked
  <1>7. TypeOK'
    BY <1>1, <1>5 DEF IInv, TypeOK, indexes
  <1>8. SerialIndexExact'
    BY <1>1, <1>3, <1>6 DEF IInv, SerialIndexExact, indexes
  <1>9. FingerprintHitIsRight'
    BY <1>1, <1>3, <1>6 DEF IInv, FingerprintHitIsRight, indexes
  <1>10. OwnersInherited' /\ DOMAIN replaced' \subseteq Tracked'
    BY <1>1, <1>6 DEF IInv, OwnersInherited
  <1> QED
    BY <1>7, <1>8, <1>9, <1>10 DEF IInv

LEMMA EvaluateKeeps ==
    ASSUME IInv, EvaluateLifecycle
    PROVE  IInv'
  <1>1. PICK ids \in SUBSET Tracked : certificates' = AfterEvaluating(ids)
    BY DEF EvaluateLifecycle, EvaluateAll, EvaluateStops
  <1>2. SameButStates(AfterEvaluating(ids))
    BY EvaluatedSame DEF IInv
  <1>3. /\ UNCHANGED <<indexes, history>>
        /\ queue' \subseteq WorkItems /\ now' \in 0..MaxTime
    BY DEF EvaluateLifecycle, EvaluateAll, EvaluateStops, IInv, TypeOK
  <1> QED
    BY <1>1, <1>2, <1>3, StatesKeep

\* Work items are made of entries, and the attempts stay below their limit.
LEMMA WorkItemType ==
    ASSUME TypeOK, NEW id \in Tracked, RenewalAction(certificates[id]) # "None"
    PROVE  WorkItem(id) \in WorkItems
  <1>1. id \in Ids /\ certificates[id].state \in States
    BY Typed DEF Metadata
  <1>2. RenewalAction(certificates[id]) \in {"Renew", "Revoke"}
    BY <1>1 DEF RenewalAction, States, Terminal, RenewalDue, Usable
  <1> QED
    BY <1>1, <1>2, InventoryAssumption DEF WorkItem, WorkItems

LEMMA ItemsKeep ==
    ASSUME IInv,
           \/ \E id \in Ids : NewWorkItem(id)
           \/ RenewalQueue
           \/ \E item \in queue : IssueReplacement(item) \/ RefuseItem(item)
           \/ Tick
    PROVE  IInv'
  <1>1. UNCHANGED <<certificates, indexes, history>>
    BY DEF NewWorkItem, RenewalQueue, IssueReplacement, RefuseItem, Tick, Fails
  <1>2. now' \in 0..MaxTime
    BY InventoryAssumption
    DEF NewWorkItem, RenewalQueue, IssueReplacement, RefuseItem, Tick, IInv,
        TypeOK
  <1>3. queue' \subseteq WorkItems
    <2>1. CASE \E id \in Ids : NewWorkItem(id)
      <3>1. PICK id \in Ids : NewWorkItem(id)
        BY <2>1
      <3>2. RenewalAction(certificates[id]) # "None"
              => WorkItem(id) \in WorkItems
        BY <3>1, WorkItemType DEF NewWorkItem, IInv
      <3> QED
        BY <3>1, <3>2 DEF NewWorkItem, IInv, TypeOK
    <2>2. CASE RenewalQueue
      BY <2>2, WorkItemType DEF RenewalQueue, WorkItem, IInv
    <2>3. CASE \E item \in queue : IssueReplacement(item)
      <3>1. PICK item \in queue : IssueReplacement(item)
        BY <2>3
      <3>2. [item EXCEPT !.attempts = Attempted(item.attempts)] \in WorkItems
        BY InventoryAssumption DEF Attempted, WorkItems, IInv, TypeOK
      <3> QED
        BY <3>1, <3>2 DEF IssueReplacement, IInv, TypeOK
    <2>4. CASE (\E item \in queue : RefuseItem(item)) \/ Tick
      BY <2>4 DEF RefuseItem, Tick, IInv, TypeOK
    <2> QED
      BY <2>1, <2>2, <2>3, <2>4
  <1> QED
    BY <1>1, <1>2, <1>3, NothingKeeps

LEMMA StepHolds == IInv /\ [Next]_vars => IInv'
  <1> SUFFICES ASSUME IInv, [Next]_vars PROVE IInv'
    OBVIOUS
  <1>1. CASE UNCHANGED vars
    BY <1>1, NothingKeeps DEF vars, IInv, TypeOK
  <1>2. CASE \E id \in Ids, item \in queue, c \in New :
                RenewIntoInventory(item, id, c)
    <2>1. PICK id \in Ids, item \in queue, c \in New :
             RenewIntoInventory(item, id, c)
      BY <1>2
    <2>2. item.id \in Ids
      BY DEF IInv, TypeOK, WorkItems
    <2> QED
      BY <2>1, <2>2, RenewalKeeps DEF RenewIntoInventory
  <1>3. CASE \E id \in Ids, c \in New : Register(id, c)
    BY <1>3, RegisterKeeps
  <1>4. CASE \E id \in Ids, previous \in Ids, c \in New :
                RegisterRenewal(previous, id, c) /\ UNCHANGED <<queue, now>>
    BY <1>4, RenewalKeeps
  <1>5. CASE \E id \in Ids : Remove(id)
    BY <1>5, RemoveKeeps
  <1>6. CASE \E id \in Ids, fingerprint \in Fingerprints :
                MarkFingerprint(id, fingerprint)
    BY <1>6, MarkKeeps
  <1>7. CASE \E id \in Ids, owner \in Owners : Assign(id, owner)
    BY <1>7, AssignKeeps
  <1>8. CASE \E id \in Ids, state \in States : Transition(id, state)
    BY <1>8, TransitionKeeps
  <1>9. CASE \/ \E id \in Ids : NewWorkItem(id)
             \/ RenewalQueue
             \/ \E item \in queue : IssueReplacement(item) \/ RefuseItem(item)
             \/ Tick
    BY <1>9, ItemsKeep
  <1>10. CASE EvaluateLifecycle
    BY <1>10, EvaluateKeeps
  <1> QED
    BY <1>1, <1>2, <1>3, <1>4, <1>5, <1>6, <1>7, <1>8, <1>9, <1>10 DEF Next

LEMMA InvariantHolds == Spec => []IInv
  BY InitHolds, StepHolds, PTL DEF Spec

-----------------------------------------------------------------------------
(* The theorems.                                                           *)

\* Entries, indexes and work items stay well typed.
THEOREM TypeCorrect == Spec => []TypeOK
  <1>1. IInv => TypeOK
    BY DEF IInv
  <1> QED
    BY <1>1, InvariantHolds, PTL

\* find_by_serial finds exactly the entries of the inventory.
THEOREM SerialIndexCorrect == Spec => []SerialIndexExact
  <1>1. IInv => SerialIndexExact
    BY DEF IInv
  <1> QED
    BY <1>1, InvariantHolds, PTL

\* find_by_fingerprint gives no entry with another fingerprint.
THEOREM FingerprintIndexCorrect == Spec => []FingerprintHitIsRight
  <1>1. IInv => FingerprintHitIsRight
    BY DEF IInv
  <1> QED
    BY <1>1, InvariantHolds, PTL

\* Replacements belong to the owner of what they replace.
THEOREM OwnersCorrect == Spec => []OwnersInherited
  <1>1. IInv => OwnersInherited
    BY DEF IInv
  <1> QED
    BY <1>1, InvariantHolds, PTL

-----------------------------------------------------------------------------
(* What a step may never do.                                               *)

\* The states the lifecycle lets nothing out of.
LEMMA TerminalMoves ==
    ASSUME NEW from \in Terminal, NEW to
    PROVE  CanMove(from, to) <=> to = from
  BY DEF CanMove, Allowed, Terminal

LEMMA TerminalEvaluated ==
    ASSUME TypeOK, NEW id \in Tracked \ Failing,
           certificates[id].state \in Terminal
    PROVE  Evaluated(certificates[id]) = certificates[id].state
  <1>1. now >= certificates[id].notAfter
          => CanMove(certificates[id].state, "Expired")
    BY DEF Failing, EvaluationFails
  <1>2. now >= certificates[id].notAfter => certificates[id].state = "Expired"
    BY <1>1, TerminalMoves
  <1>3. certificates[id].state # "Active"
    BY DEF Terminal
  <1> QED
    BY <1>2, <1>3 DEF Evaluated

\* A set of entries may be given states by WithState or AfterEvaluating.
LEMMA WithStateIs ==
    ASSUME TypeOK, NEW id \in Tracked, NEW state \in States, NEW i \in Tracked
    PROVE  WithState(id, state)[i].state
             = IF i = id THEN state ELSE certificates[i].state
  <1>1. [certificates[id] EXCEPT !.state = state].state = state
    BY Typed, StateSet
  <1> QED
    BY <1>1 DEF WithState, Tracked

LEMMA AfterEvaluatingIs ==
    ASSUME TypeOK, NEW ids, NEW i \in Tracked
    PROVE  /\ AfterEvaluating(ids)[i].state
                = IF i \in ids THEN Evaluated(certificates[i])
                               ELSE certificates[i].state
           /\ AfterEvaluating(ids)[i].notAfter = certificates[i].notAfter
  <1> DEFINE state == Evaluated(certificates[i])
  <1>1. /\ [certificates[i] EXCEPT !.state = state].state = state
        /\ [certificates[i] EXCEPT !.state = state].notAfter
             = certificates[i].notAfter
    <2>1. state \in States
      BY EvaluatedState
    <2> HIDE DEF state
    <2> QED
      BY <2>1, Typed, StateSet
  <1> QED
    BY <1>1 DEF AfterEvaluating

\* A renewal changes the state of its predecessor, which was not terminal.
LEMMA RenewalStates ==
    ASSUME IInv, NEW previous \in Ids, NEW id \in Ids, NEW c \in New,
           RegisterRenewal(previous, id, c), NEW i \in Tracked,
           i \in DOMAIN certificates', certificates[i].state \in Terminal
    PROVE  certificates'[i].state = certificates[i].state
  <1>1. CASE Fails
    BY <1>1 DEF Fails
  <1>2. CASE ~Fails
    <2>1. previous \in Tracked /\ CanMove(certificates[previous].state, "Renewed")
      BY <1>2 DEF RegisterRenewal
    <2>2. i # previous
      BY <2>1, TerminalMoves DEF Terminal
    <2>3. WithState(previous, "Renewed")[i].state = certificates[i].state
      BY <2>1, <2>2, WithStateIs DEF IInv, States
    <2>4. DOMAIN WithState(previous, "Renewed") = Tracked
      BY DEF WithState, Tracked
    <2>5. CASE Taken(id, c.serial)
      BY <1>2, <2>3, <2>5 DEF RegisterRenewal
    <2>6. CASE ~Taken(id, c.serial)
      <3>1. certificates' = Put(WithState(previous, "Renewed"), id,
                                Inherited(previous, c))
        BY <1>2, <2>6 DEF RegisterRenewal, Entered
      <3>2. i # id
        BY <2>6 DEF Taken
      <3> QED
        BY <2>3, <2>4, <3>1, <3>2 DEF Put
    <2> QED
      BY <2>5, <2>6
  <1> QED
    BY <1>1, <1>2

LEMMA TerminalStays ==
    ASSUME IInv, [Next]_vars, NEW i \in Tracked, i \in DOMAIN certificates',
           certificates[i].state \in Terminal
    PROVE  certificates'[i].state = certificates[i].state
  <1>1. CASE UNCHANGED certificates
    BY <1>1
  <1>2. CASE \E previous \in Ids, id \in Ids, c \in New :
                RegisterRenewal(previous, id, c)
    BY <1>2, RenewalStates
  <1>3. CASE \E id \in Ids, c \in New : Register(id, c)
    <2>1. PICK id \in Ids, c \in New : Register(id, c)
      BY <1>3
    <2>2. CASE Taken(id, c.serial)
      BY <2>1, <2>2 DEF Register, Fails
    <2>3. CASE ~Taken(id, c.serial)
      BY <2>1, <2>3 DEF Register, Entered, Taken, Put, Tracked
    <2> QED
      BY <2>2, <2>3
  <1>4. CASE \E id \in Ids : Remove(id)
    BY <1>4 DEF Remove, Fails, Drop
  <1>5. CASE \E id \in Ids, f \in Fingerprints : MarkFingerprint(id, f)
    <2>1. PICK id \in Ids, f \in Fingerprints : MarkFingerprint(id, f)
      BY <1>5
    <2>2. [certificates[id] EXCEPT !.fingerprint = f].state
            = certificates[id].state
      BY <2>1, Typed DEF MarkFingerprint, IInv, Metadata
    <2> QED
      BY <2>1, <2>2 DEF MarkFingerprint, Tracked
  <1>6. CASE \E id \in Ids, owner \in Owners : Assign(id, owner)
    <2>1. PICK id \in Ids, owner \in Owners : Assign(id, owner)
      BY <1>6
    <2>2. [certificates[id] EXCEPT !.owner = owner].state
            = certificates[id].state
      BY <2>1, Typed DEF Assign, IInv, Metadata
    <2> QED
      BY <2>1, <2>2 DEF Assign, Tracked
  <1>7. CASE \E id \in Ids, state \in States : Transition(id, state)
    <2>1. PICK id \in Ids, state \in States : Transition(id, state)
      BY <1>7
    <2>2. CASE id \in Tracked /\ CanMove(certificates[id].state, state)
      <3>1. certificates' = WithState(id, state)
        BY <2>1, <2>2 DEF Transition
      <3>2. certificates'[i].state = IF i = id THEN state
                                               ELSE certificates[i].state
        BY <2>2, <3>1, WithStateIs DEF IInv
      <3> QED
        BY <2>2, <3>2, TerminalMoves
    <2>3. CASE ~(id \in Tracked /\ CanMove(certificates[id].state, state))
      BY <2>1, <2>3 DEF Transition, Fails
    <2> QED
      BY <2>2, <2>3
  <1>8. CASE EvaluateLifecycle
    <2>1. PICK ids \in SUBSET (Tracked \ Failing) :
             certificates' = AfterEvaluating(ids)
      BY <1>8 DEF EvaluateLifecycle, EvaluateAll, EvaluateStops
    <2> QED
      BY <2>1, AfterEvaluatingIs, TerminalEvaluated DEF IInv
  <1>9. ASSUME Next
        PROVE  \/ UNCHANGED certificates
               \/ \E previous \in Ids, id \in Ids, c \in New :
                     RegisterRenewal(previous, id, c)
               \/ \E id \in Ids, c \in New : Register(id, c)
               \/ \E id \in Ids : Remove(id)
               \/ \E id \in Ids, f \in Fingerprints : MarkFingerprint(id, f)
               \/ \E id \in Ids, owner \in Owners : Assign(id, owner)
               \/ \E id \in Ids, state \in States : Transition(id, state)
               \/ EvaluateLifecycle
    <2>1. \A item \in queue : item.id \in Ids
      BY DEF IInv, TypeOK, WorkItems
    <2> QED
      BY <1>9, <2>1 DEF Next, RenewIntoInventory, NewWorkItem, IssueReplacement,
         RefuseItem, RenewalQueue, Tick, Fails
  <1> QED
    BY <1>1, <1>2, <1>3, <1>4, <1>5, <1>6, <1>7, <1>8, <1>9 DEF vars

\* A revoked or expired entry keeps its state until it is removed.
THEOREM TerminalAlwaysFinal == Spec => TerminalIsFinal
  <1>1. IInv /\ [Next]_vars =>
          [\A id \in Tracked \cap DOMAIN certificates' :
             certificates[id].state \in Terminal
               => certificates'[id].state = certificates[id].state]_certificates
    BY TerminalStays
  <1> QED
    BY <1>1, InvariantHolds, PTL DEF Spec, TerminalIsFinal

LEMMA ReplacedIsLive ==
    ASSUME IInv, [Next]_vars, NEW i \in DOMAIN replaced' \ DOMAIN replaced
    PROVE  /\ replaced'[i] \in Tracked
           /\ certificates[replaced'[i]].state \notin Terminal
  <1>1. ~UNCHANGED replaced
    OBVIOUS
  <1>2. PICK previous \in Ids, id \in Ids, c \in New :
           RegisterRenewal(previous, id, c)
    <2>1. \A id : ~Remove(id)
      BY DEF Remove, Fails, history, Drop
    <2>2. \A item \in queue : item.id \in Ids
      BY DEF IInv, TypeOK, WorkItems
    <2>3. Next
      BY <1>1 DEF vars, history
    <2> QED
      BY <1>1, <2>1, <2>2, <2>3
      DEF Next, EvaluateLifecycle, EvaluateAll, EvaluateStops, Register,
          RenewIntoInventory, NewWorkItem, MarkFingerprint, Assign, Transition,
          IssueReplacement, RefuseItem, RenewalQueue, Tick, Fails, history
  <1>3. /\ previous \in Tracked /\ CanMove(certificates[previous].state, "Renewed")
        /\ replaced' = Put(replaced, id, previous)
    BY <1>1, <1>2 DEF RegisterRenewal, Fails, history
  <1>4. replaced'[i] = previous
    BY <1>3 DEF Put
  <1> QED
    BY <1>3, <1>4, TerminalMoves DEF Terminal

\* A work item that waited brings no replacement of a terminal entry.
THEOREM ReplacementsAreOfLive == Spec => NoReplacementForTerminal
  <1>1. IInv /\ [Next]_vars =>
          [\A id \in DOMAIN replaced' \ DOMAIN replaced :
             /\ replaced'[id] \in Tracked
             /\ certificates[replaced'[id]].state \notin Terminal]_replaced
    BY ReplacedIsLive
  <1> QED
    BY <1>1, InvariantHolds, PTL DEF Spec, NoReplacementForTerminal

LEMMA EvaluatedDates ==
    ASSUME IInv, EvaluateAll, NEW id \in Tracked
    PROVE  LET c == certificates'[id] IN
           /\ now >= c.notAfter => c.state = "Expired"
           /\ c.notAfter - now <= Window => c.state # "Active"
  <1>1. /\ certificates'[id].state = Evaluated(certificates[id])
        /\ certificates'[id].notAfter = certificates[id].notAfter
    BY AfterEvaluatingIs DEF EvaluateAll, IInv
  <1> QED
    BY <1>1 DEF Evaluated, RenewalDue, Usable

\* An evaluation that succeeds leaves no entry in a state its dates deny.
THEOREM EvaluationIsCurrent == Spec => EvaluatedIsCurrent
  <1>1. IInv /\ [Next]_vars =>
          [EvaluateAll =>
             \A id \in Tracked :
               LET c == certificates'[id] IN
               /\ now >= c.notAfter => c.state = "Expired"
               /\ c.notAfter - now <= Window => c.state # "Active"]_vars
    BY EvaluatedDates
  <1> QED
    BY <1>1, InvariantHolds, PTL DEF Spec, EvaluatedIsCurrent

LEMMA QueuedRenews ==
    ASSUME IInv, RenewalQueue, NEW item \in queue'
    PROVE  /\ item.action = "Renew"
           /\ certificates[item.id].state \notin Terminal
  <1>1. PICK id \in Tracked : RenewalDue(certificates[id]) /\ item = WorkItem(id)
    BY DEF RenewalQueue
  <1>2. certificates[id].state \in Usable
    BY <1>1 DEF RenewalDue
  <1>3. RenewalAction(certificates[id]) = "Renew"
    <2>1. CASE certificates[id].state = "Active"
      BY <1>1, <2>1 DEF RenewalAction, Terminal
    <2>2. CASE certificates[id].state = "Expiring"
      BY <2>2 DEF RenewalAction, Terminal
    <2> QED
      BY <1>2, <2>1, <2>2 DEF Usable
  <1> QED
    BY <1>1, <1>2, <1>3 DEF WorkItem, Usable, Terminal

\* renewal_queue makes only work that issue_replacement will carry out.
THEOREM QueueAlwaysRenews == Spec => QueueOnlyRenews
  <1>1. IInv /\ [Next]_vars =>
          [RenewalQueue =>
             \A item \in queue' :
               /\ item.action = "Renew"
               /\ certificates[item.id].state \notin Terminal]_queue
    BY QueuedRenews
  <1> QED
    BY <1>1, InvariantHolds, PTL DEF Spec, QueueOnlyRenews
=============================================================================
