------------------------ MODULE CertificateApiProofs ------------------------
(***************************************************************************)
(* Proofs about CertificateApi, for any number of connections, any         *)
(* clients, requests, policy and faults.                                   *)
(***************************************************************************)
EXTENDS CertificateApi, HashMapsProofs

-----------------------------------------------------------------------------
(* The inductive invariant.                                                *)

\* A connection that has been read has a request.
Requested ==
    \A k \in Conns : pc[k] # "accept" => request[k] \in Requests

\* Where the connections are that the records and the log name: past the
\* point where their request could still change.
Placed ==
    /\ \A id \in DOMAIN store :
         /\ pc[store[id].by] \in {"save", "audit", "done"}
         /\ store[id].revokedBy # None =>
              pc[store[id].revokedBy] \in {"saveRevoked", "refresh", "done"}
    /\ \A i \in DOMAIN audit : pc[audit[i].by] = "done"

\* The temporary file holds the map, for nobody changes it during a save, or
\* what somebody has yet to write or failed to write; the same goes for a file
\* that is not whole.
FileTyped ==
    /\ saved \in Images /\ temporary \in Images \cup {Missing}
    /\ io \in [Conns -> Places]
    /\ spoilt \in BOOLEAN
FileOK ==
    /\ temporary = Missing \/ \E t \in Conns : Saving(t)
    /\ temporary \in {Missing, store} \cup Damaged
    /\ temporary \in Damaged => spoilt \/ \E t \in Conns : io[t] = "tmp"
    /\ Whole \/ Excused

\* The file is an older map: nothing in it is taken back by the next save.
\* Stored stands for the file throughout, as in the refinement.
Behind ==
    \A id \in DOMAIN Stored :
        /\ id \in DOMAIN store
        /\ Stored[id].by = store[id].by
        /\ Stored[id].reason \in {None, store[id].reason}

Issuing(k)  == request[k].op = "issue" /\ request[k].body # None
Revoking(k) == request[k].op = "revoke"

RecordedIn(map, k) == \E id \in DOMAIN map : map[id].by = k
RevokedIn(map, k)  == /\ request[k].id \in DOMAIN map
                      /\ map[request[k].id].reason # None

\* What a call in progress has achieved so far.
UnderWay ==
    \A k \in Conns :
        /\ pc[k] = "save"        => Issuing(k) /\ RecordedIn(store, k)
        /\ pc[k] = "audit"       => Issuing(k) /\ RecordedIn(Stored, k)
        /\ pc[k] = "saveRevoked" => Revoking(k) /\ RevokedIn(store, k)
        /\ pc[k] = "refresh"     => Revoking(k) /\ RevokedIn(Stored, k)

\* What an answer says of the file.
Durable ==
    \A k \in Conns :
        /\ answer[k] = 201 => RecordedIn(Stored, k)
        /\ answer[k] = 200 /\ Revoking(k) => RevokedIn(Stored, k)

\* What the log says of the file.
SuccessStored ==
    \A i \in DOMAIN audit :
        audit[i].outcome = "Success" => RecordedIn(Stored, audit[i].by)

\* What RecordsAreEarned says of the connection a record names.
EarnedBy(k) ==
    /\ client[k] \in Issuers
    /\ request[k].op = "issue"
    /\ LET r == request[k].body IN
       /\ ~r.blank /\ (r.dns > 0 \/ r.ips > 0) /\ (r.client \/ r.server)
       /\ r.name <= Policy.name /\ r.name <= MaxNameLength
       /\ r.dns <= Policy.dns /\ r.dns <= MaxNames
       /\ r.ips <= Policy.ips /\ r.ips <= MaxNames
       /\ ~r.badIp /\ ~r.badDns

IInv ==
    /\ TypeOK
    /\ Requested
    /\ Placed
    /\ FileOK
    /\ Behind
    /\ UnderWay
    /\ Durable
    /\ RecordsAreEarned
    /\ RevocationsAreEarned
    /\ SuccessStored
    /\ IssuanceAudited

-----------------------------------------------------------------------------
(* The types.                                                              *)

LEMMA StoredType == ASSUME TypeOK PROVE Stored \in MapsFrom(Ids, Records)
  <1>1. Whole => saved \in MapsFrom(Ids, Records)
    BY DEF TypeOK, Images, Whole
  <1>2. EmptyMap \in MapsFrom(Ids, Records)
    BY MapEmpty
  <1> QED
    BY <1>1, <1>2 DEF Stored, TypeOK

\* What the maps and the log name are connections.
LEMMA Named ==
    ASSUME TypeOK
    PROVE  /\ \A id \in DOMAIN store :
                /\ id \in Ids /\ store[id] \in Records
                /\ store[id].by \in Conns
                /\ store[id].revokedBy \in Conns \cup {None}
           /\ \A id \in DOMAIN Stored : id \in Ids /\ Stored[id] \in Records
           /\ \A i \in DOMAIN audit : audit[i].by \in Conns
  <1>1. /\ \A id \in DOMAIN store : id \in Ids /\ store[id] \in Records
        /\ \A id \in DOMAIN Stored : id \in Ids /\ Stored[id] \in Records
    BY StoredType, MapValue DEF TypeOK
  <1>2. \A r \in Records : r.by \in Conns /\ r.revokedBy \in Conns \cup {None}
    BY DEF Records
  <1>3. \A i \in DOMAIN audit : audit[i] \in Events
    BY DEF TypeOK
  <1>4. \A e \in Events : e.by \in Conns
    BY DEF Events
  <1> QED
    BY <1>1, <1>2, <1>3, <1>4

\* A request that is read, whole or in part, is a request.
LEMMA SeenType ==
    ASSUME NEW r \in Requests, NEW split \in BOOLEAN
    PROVE  Seen(r, split) \in Requests
  BY DEF Seen, Requests

\* One connection moves to a step, with an answer when it is done.
Moves(k, step, code) ==
    /\ pc' = [pc EXCEPT ![k] = step] /\ answer' = [answer EXCEPT ![k] = code]
    /\ step \in {"handle", "save", "audit", "saveRevoked", "refresh", "done",
                 "closed"}
    /\ code \in Codes \cup {None} /\ (code # None <=> step = "done")

LEMMA MovesType ==
    ASSUME TypeOK, NEW k \in Conns, NEW step, NEW code, Moves(k, step, code),
           client' \in [Conns -> Clients \cup {None}],
           request' \in [Conns -> Requests \cup {None}],
           store' \in MapsFrom(Ids, Records), FileTyped',
           audit' \in Seq(Events)
    PROVE  TypeOK'
  <1>1. /\ pc' \in [Conns -> {"accept", "handle", "save", "audit", "saveRevoked",
                              "refresh", "done", "closed"}]
        /\ answer' \in [Conns -> Codes \cup {None}]
    BY DEF TypeOK, Moves
  <1>2. \A j \in Conns : (answer'[j] # None) <=> (pc'[j] = "done")
    BY DEF TypeOK, Moves
  <1> QED
    BY <1>1, <1>2 DEF TypeOK, FileTyped

LEMMA Appended ==
    ASSUME audit \in Seq(Events), NEW e \in Events, audit' = Append(audit, e)
    PROVE  /\ audit' \in Seq(Events)
           /\ DOMAIN audit' = DOMAIN audit \cup {Len(audit) + 1}
           /\ Len(audit) + 1 \notin DOMAIN audit
           /\ audit'[Len(audit) + 1] = e
           /\ \A i \in DOMAIN audit : audit'[i] = audit[i]
  OBVIOUS

\* The audit log and the answers agree about one connection.
Audited(k) ==
    /\ pc[k] = "done" /\ request[k].op = "issue" /\ request[k].body # None
    /\ RecordsOf(k) = {} \/ answer[k] = 201
    => \E i \in DOMAIN audit :
         /\ EventsOf(k) = {i}
         /\ <<audit[i].type, audit[i].outcome>> = ExpectedEvent(k)

\* A connection another one does not touch stays audited: the events added
\* meanwhile are not its own.
LEMMA StaysAudited ==
    ASSUME NEW j \in Conns, Audited(j), audit \in Seq(Events),
           pc'[j] = pc[j], answer'[j] = answer[j], request'[j] = request[j],
           RecordsOf(j)' = {} => RecordsOf(j) = {},
           \/ audit' = audit
           \/ \E e \in Events : audit' = Append(audit, e) /\ e.by # j
    PROVE  Audited(j)'
  <1>1. CASE audit' = audit
    <2>1. EventsOf(j)' = EventsOf(j)
      BY <1>1 DEF EventsOf
    <2>2. ExpectedEvent(j)' = ExpectedEvent(j)
      BY DEF ExpectedEvent, ServiceAccepts, NamesWithin, SanPresent
    <2> QED
      BY <1>1, <2>1, <2>2 DEF Audited
  <1>2. CASE \E e \in Events : audit' = Append(audit, e) /\ e.by # j
    <2>1. PICK e \in Events : audit' = Append(audit, e) /\ e.by # j
      BY <1>2
    <2>2. /\ DOMAIN audit' = DOMAIN audit \cup {Len(audit) + 1}
          /\ audit'[Len(audit) + 1] = e
          /\ \A i \in DOMAIN audit : audit'[i] = audit[i]
      BY <2>1, Appended
    <2>3. EventsOf(j)' = EventsOf(j)
      BY <2>1, <2>2 DEF EventsOf
    <2>4. ExpectedEvent(j)' = ExpectedEvent(j)
      BY DEF ExpectedEvent, ServiceAccepts, NamesWithin, SanPresent
    <2> QED
      BY <2>2, <2>3, <2>4 DEF Audited
  <1> QED
    BY <1>1, <1>2

\* The first event of a connection, with what its answer says, audits it.
LEMMA BecomesAudited ==
    ASSUME NEW k \in Conns, audit \in Seq(Events), EventsOf(k) = {},
           NEW e \in Events, audit' = Append(audit, e), e.by = k,
           <<e.type, e.outcome>> = ExpectedEvent(k)'
    PROVE  Audited(k)'
  <1>1. /\ DOMAIN audit' = DOMAIN audit \cup {Len(audit) + 1}
        /\ audit'[Len(audit) + 1] = e
        /\ \A i \in DOMAIN audit : audit'[i] = audit[i]
    BY Appended
  <1>2. EventsOf(k)' = {Len(audit) + 1}
    BY <1>1 DEF EventsOf
  <1> QED
    BY <1>1, <1>2 DEF Audited

\* A connection whose request is not answered yet is in no event.
LEMMA Unheard ==
    ASSUME Placed, NEW k \in Conns, pc[k] # "done"
    PROVE  EventsOf(k) = {}
  BY DEF Placed, EventsOf

-----------------------------------------------------------------------------
(* The file.                                                               *)

LEMMA StoredIs ==
    ASSUME FileOK PROVE Stored = IF Whole THEN saved ELSE store
  BY DEF FileOK, Stored

\* A map is neither a damaged file nor a missing one.
LEMMA MapsAreWhole ==
    ASSUME TypeOK
    PROVE  /\ store \notin Damaged /\ store # Missing
           /\ Missing \notin Damaged
           /\ store \in Images /\ Blank \in Images /\ Torn \in Images
           /\ DOMAIN io = Conns
  BY FileAssumption DEF TypeOK, Damaged, Images

LEMMA FileStays ==
    ASSUME TypeOK, FileOK, UNCHANGED <<file, spoilt, store>>
    PROVE  FileTyped' /\ FileOK' /\ Stored' = Stored
  BY DEF TypeOK, FileTyped, FileOK, Stored, Whole, Excused, Saving, file

\* A save fails, with the file as whole as it was.
LEMMA FileFails ==
    ASSUME TypeOK, FileOK, NEW k \in Conns, PersistFails(k), store' = store
    PROVE  FileTyped' /\ FileOK' /\ Stored' = Stored
  <1>1. CASE WriteFails(k) /\ spoilt' = TRUE
    <2>1. /\ io' = [io EXCEPT ![k] = "none"]
          /\ temporary' \in {Missing, temporary, Torn}
          /\ temporary' # Missing => \E u \in Conns \ {k} : Saving(u)
          /\ saved' = saved \/ (saved = Blank /\ saved' = Torn)
      BY <1>1, MapsAreWhole DEF WriteFails, StopSaving, Prefixes
    <2>2. FileTyped'
      BY <1>1, <2>1, MapsAreWhole DEF TypeOK, FileTyped, Places
    <2>3. FileOK'
      <3>1. temporary' = Missing \/ \E t \in Conns : Saving(t)'
        BY <2>1 DEF Saving, TypeOK
      <3>2. temporary' \in {Missing, store'} \cup Damaged
        BY <2>1 DEF FileOK, Damaged
      <3> QED
        BY <1>1, <3>1, <3>2 DEF FileOK, Excused
    <2>4. /\ Whole' <=> Whole
          /\ Whole => saved' = saved
      BY <2>1 DEF Whole, Damaged
    <2>5. Stored = IF Whole THEN saved ELSE store
      BY StoredIs
    <2>6. Stored' = IF Whole' THEN saved' ELSE store'
      BY <1>1 DEF Stored, Excused
    <2> QED
      BY <2>2, <2>3, <2>4, <2>5, <2>6
  <1>2. CASE OpenFails(k) /\ spoilt' = spoilt
    BY <1>2, FileStays DEF OpenFails
  <1>3. CASE (RenameMissing(k) \/ RenameFails(k)) /\ spoilt' = spoilt
    <2>1. /\ io[k] = "written"
          /\ io' = [io EXCEPT ![k] = "none"]
          /\ temporary' \in {Missing, temporary} /\ saved' = saved
          /\ temporary' # Missing => \E u \in Conns \ {k} : Saving(u)
      BY <1>3, MapsAreWhole DEF RenameMissing, RenameFails, StopSaving
    <2>2. FileTyped'
      BY <1>3, <2>1 DEF TypeOK, FileTyped, Places
    <2>3. \A t \in Conns, place \in {"tmp", "json"} :
            io[t] = place => io'[t] = place
      BY <2>1 DEF TypeOK
    <2>4. Excused => Excused'
      BY <1>3, <2>3 DEF Excused
    <2>5. Whole' = Whole
      BY <2>1 DEF Whole
    <2>6. FileOK'
      <3>1. temporary' = Missing \/ \E t \in Conns : Saving(t)'
        BY <2>1 DEF Saving, TypeOK
      <3>2. temporary' \in {Missing, store'} \cup Damaged
        BY <2>1 DEF FileOK
      <3>3. temporary' \in Damaged
              => spoilt' \/ \E t \in Conns : io'[t] = "tmp"
        BY <1>3, <2>1, <2>3, MapsAreWhole DEF FileOK
      <3> QED
        BY <2>4, <2>5, <3>1, <3>2, <3>3 DEF FileOK
    <2>7. Stored' = Stored
      BY <2>1, <2>4, <2>5 DEF FileOK, Stored
    <2> QED
      BY <2>2, <2>6, <2>7
  <1> QED
    BY <1>1, <1>2, <1>3 DEF PersistFails

\* A save in progress may write the map into the file itself.
LEMMA FilePersists ==
    ASSUME TypeOK, FileOK, NEW k \in Conns, Persists(k)
    PROVE  FileTyped' /\ FileOK' /\ Stored' \in {Stored, store}
  <1>1. store' = store /\ spoilt' = spoilt
    BY DEF Persists
  <1>2. CASE OpenTemporary(k)
    <2>1. /\ io' = [io EXCEPT ![k] = "tmp"] /\ io[k] = "none"
          /\ temporary' = Blank /\ saved' = saved
      BY <1>2 DEF OpenTemporary
    <2>2. FileTyped'
      BY <1>1, <2>1, MapsAreWhole DEF TypeOK, FileTyped, Places, Opened
    <2>3. io'[k] = "tmp" /\ Saving(k)'
      BY <2>1 DEF TypeOK, Saving
    <2>4. Excused => Excused'
      BY <1>1, <2>1 DEF Excused, TypeOK
    <2>5. Whole' = Whole
      BY <2>1 DEF Whole
    <2>6. FileOK'
      BY <2>1, <2>3, <2>4, <2>5 DEF FileOK, Damaged
    <2>7. Stored' = Stored
      BY <1>1, <2>1, <2>4, <2>5 DEF FileOK, Stored
    <2> QED
      BY <2>2, <2>6, <2>7
  <1>3. CASE Write(k, store)
    <2>1. /\ io' = [io EXCEPT ![k] = "written"] /\ io[k] # "none"
          /\ temporary' = IF io[k] = "tmp" THEN store ELSE temporary
          /\ saved' = IF io[k] = "json" THEN store ELSE saved
      BY <1>3 DEF Write, Opened
    <2>2. FileTyped'
      BY <1>1, <2>1, MapsAreWhole DEF TypeOK, FileTyped, Places
    <2>3. Saving(k)'
      BY <2>1 DEF TypeOK, Saving
    <2>4. Whole' \/ (saved' = saved /\ Excused')
      <3>1. CASE io[k] = "json"
        BY <2>1, <3>1, MapsAreWhole DEF Whole, Damaged
      <3>2. CASE io[k] # "json"
        <4>1. Excused => Excused'
          BY <1>1, <2>1, <3>2 DEF Excused, TypeOK
        <4> QED
          BY <2>1, <3>2, <4>1 DEF FileOK, Whole
      <3> QED
        BY <3>1, <3>2
    <2>5. temporary' \in Damaged
            => spoilt' \/ \E t \in Conns : io'[t] = "tmp"
      <3>1. CASE io[k] = "tmp"
        BY <2>1, <3>1, MapsAreWhole
      <3>2. CASE io[k] # "tmp"
        BY <1>1, <2>1, <3>2 DEF FileOK, TypeOK
      <3> QED
        BY <3>1, <3>2
    <2>6. FileOK'
      BY <1>1, <2>1, <2>3, <2>4, <2>5 DEF FileOK
    <2>7. Stored' \in {Stored, store}
      BY <1>1, <2>1, <2>4 DEF Stored, FileOK, Whole
    <2> QED
      BY <2>2, <2>6, <2>7
  <1> QED
    BY <1>2, <1>3 DEF Persists

\* A rename puts the map in place, or a file that another save goes on writing.
LEMMA FileInstalls ==
    ASSUME TypeOK, FileOK, NEW k \in Conns, Installs(k), store' = store
    PROVE  FileTyped' /\ FileOK' /\ Stored' = store
  <1>1. /\ io[k] = "written" /\ temporary # Missing
        /\ saved' = temporary /\ temporary' = Missing
        /\ io' = [u \in Conns |-> IF u = k THEN "none" ELSE Renamed(io[u])]
        /\ spoilt' = (spoilt /\ temporary \in Damaged)
    BY MapsAreWhole DEF Installs, Rename
  <1>2. \A p \in Places : Renamed(p) \in Places
    BY DEF Renamed, Places, Opened
  <1>3. FileTyped'
    BY <1>1, <1>2 DEF TypeOK, FileTyped, Places
  <1>4. temporary \in Damaged => Excused'
    <2>1. ASSUME NEW t \in Conns, io[t] = "tmp" PROVE io'[t] = "json"
      BY <1>1, <2>1 DEF Renamed
    <2> QED
      BY <1>1, <2>1 DEF FileOK, Excused
  <1>5. temporary \in Damaged \/ saved' = store
    BY <1>1 DEF FileOK
  <1>6. FileOK'
    BY <1>1, <1>4, <1>5, MapsAreWhole DEF FileOK, Whole, Damaged
  <1>7. Stored' = store
    BY <1>1, <1>4, <1>5 DEF Stored, Whole, Damaged
  <1> QED
    BY <1>3, <1>6, <1>7

\* The map changes only while nobody saves.
LEMMA FileWaits ==
    ASSUME TypeOK, FileOK, WriteLockFree, UNCHANGED <<file, spoilt>>
    PROVE  /\ FileTyped' /\ FileOK'
           /\ Stored' = Stored \/ (Stored = store /\ Stored' = store')
  <1>1. temporary = Missing
    BY MapsAreWhole DEF FileOK, WriteLockFree
  <1>2. FileTyped' /\ FileOK'
    BY <1>1, MapsAreWhole
       DEF TypeOK, FileTyped, FileOK, Whole, Excused, Saving, file, Damaged
  <1>3. Stored' = Stored \/ (Stored = store /\ Stored' = store')
    BY DEF FileOK, Stored, Whole, Excused, Damaged, file
  <1> QED
    BY <1>2, <1>3

\* What the file has is not lost when a save takes it further.
LEMMA StoredGrows ==
    ASSUME Behind, UNCHANGED <<store, request>>, Stored' \in {Stored, store},
           NEW j
    PROVE  /\ RecordedIn(Stored, j) => RecordedIn(Stored, j)'
           /\ RevokedIn(Stored, j) => RevokedIn(Stored, j)'
  BY DEF Behind, RecordedIn, RevokedIn

-----------------------------------------------------------------------------
(* The initial state, and the steps by what they touch.                    *)

LEMMA InitHolds == ASSUME Init PROVE IInv
  <1>1. TypeOK
    <2>1. /\ store \in MapsFrom(Ids, Records) /\ saved = store
          /\ temporary = Missing /\ spoilt = FALSE /\ audit = <<>>
      BY MapEmpty DEF Init
    <2>2. io \in [Conns -> Places]
      BY DEF Init, Places
    <2>3. saved \in Images /\ temporary \in Images \cup {Missing}
      BY <2>1 DEF Images
    <2>4. audit \in Seq(Events)
      BY <2>1
    <2>5. /\ client \in [Conns -> Clients \cup {None}]
          /\ request \in [Conns -> Requests \cup {None}]
          /\ \A k \in Conns : (answer[k] # None) <=> (pc[k] = "done")
      BY DEF Init
    <2>6. /\ pc \in [Conns -> {"accept", "handle", "save", "audit",
                              "saveRevoked", "refresh", "done", "closed"}]
          /\ answer \in [Conns -> Codes \cup {None}]
      BY DEF Init
    <2> QED
      BY <2>1, <2>2, <2>3, <2>4, <2>5, <2>6 DEF TypeOK
  <1>2. /\ DOMAIN store = {} /\ DOMAIN Stored = {} /\ DOMAIN audit = {}
        /\ FileOK
    <2>1. saved = store /\ temporary = Missing
      BY DEF Init
    <2>2. Stored = store /\ FileOK
      BY <1>1, <2>1, MapsAreWhole DEF Stored, Whole, FileOK
    <2> QED
      BY <2>2, MapEmpty DEF Init
  <1>3. /\ \A k \in Conns : pc[k] = "accept" /\ answer[k] = None
        /\ None # 201 /\ None # 200
    BY ApiAssumption DEF Init, Codes
  <1>4. Requested /\ UnderWay /\ Durable /\ IssuanceAudited
    BY <1>3 DEF Requested, UnderWay, Durable, IssuanceAudited
  <1>5. /\ Placed /\ Behind /\ RecordsAreEarned /\ RevocationsAreEarned
        /\ SuccessStored
    BY <1>2 DEF Placed, Behind, RecordsAreEarned, RevocationsAreEarned,
                SuccessStored
  <1> QED
    BY <1>1, <1>2, <1>4, <1>5 DEF IInv

\* A step before the answer leaves the answer as it is: none.
LEMMA GoesOn ==
    ASSUME TypeOK, NEW k \in Conns, NEW step, Goto(k, step), pc[k] # "done",
           step \in {"handle", "save", "audit", "saveRevoked", "refresh",
                     "closed"}
    PROVE  Moves(k, step, None)
  BY DEF Goto, Moves, TypeOK

\* A request is read.
LEMMA ReadStep ==
    ASSUME IInv, NEW k \in Conns, Read(k)
    PROVE  IInv'
  <1>1. PICK c \in Clients, r \in Requests, split \in BOOLEAN :
          /\ client' = [client EXCEPT ![k] = c]
          /\ request' = [request EXCEPT ![k] = Seen(r, split)]
    BY DEF Read
  <1>2. Seen(r, split) \in Requests
    BY SeenType
  <1> DEFINE s == Seen(r, split)
  <1> HIDE DEF s
  <1>3. /\ pc[k] = "accept" /\ Moves(k, "handle", None)
        /\ store' = store /\ audit' = audit
        /\ Stored' = Stored /\ FileTyped' /\ FileOK'
    BY GoesOn, FileStays DEF Read, IInv
  <1>4. /\ client' = [client EXCEPT ![k] = c]
        /\ request' = [request EXCEPT ![k] = s] /\ s \in Requests
    BY <1>1, <1>2 DEF s
  <1>5. TypeOK'
    <2>1. /\ client' \in [Conns -> Clients \cup {None}]
          /\ request' \in [Conns -> Requests \cup {None}]
      BY <1>4 DEF IInv, TypeOK
    <2> QED
      BY <1>3, <2>1, MovesType DEF IInv, TypeOK
  <1>6. /\ \A j \in Conns : j # k => /\ pc'[j] = pc[j] /\ answer'[j] = answer[j]
                                     /\ client'[j] = client[j]
                                     /\ request'[j] = request[j]
        /\ pc'[k] = "handle" /\ answer'[k] = None /\ request'[k] = s
    BY <1>3, <1>4 DEF Moves, IInv, TypeOK
  <1>7. /\ \A id \in DOMAIN store :
             /\ store[id].by \in Conns /\ store[id].by # k
             /\ store[id].revokedBy # None =>
                  store[id].revokedBy \in Conns /\ store[id].revokedBy # k
        /\ \A i \in DOMAIN audit : audit[i].by \in Conns /\ audit[i].by # k
    BY <1>3, Named DEF IInv, Placed
  <1>8. Requested'
    BY <1>4, <1>6 DEF IInv, Requested
  <1>9. Placed' /\ Behind'
    BY <1>3, <1>6, <1>7 DEF IInv, Placed, Behind
  <1>10. UnderWay'
    BY <1>3, <1>6 DEF IInv, UnderWay, Issuing, Revoking, RecordedIn, RevokedIn
  <1>11. Durable'
    <2>1. answer'[k] # 201 /\ answer'[k] # 200
      BY <1>6, ApiAssumption DEF Codes
    <2> QED
      BY <1>3, <1>6, <2>1 DEF IInv, Durable, Revoking, RecordedIn, RevokedIn
  <1>12. RecordsAreEarned'
    BY <1>3, <1>6, <1>7 DEF IInv, RecordsAreEarned
  <1>13. RevocationsAreEarned'
    BY <1>3, <1>6, <1>7 DEF IInv, RevocationsAreEarned
  <1>14. SuccessStored'
    BY <1>3 DEF IInv, SuccessStored, RecordedIn
  <1>15. IssuanceAudited'
    <2>1. ASSUME NEW j \in Conns, j # k PROVE Audited(j)'
      <3>1. Audited(j) /\ audit \in Seq(Events)
        BY DEF IInv, TypeOK, IssuanceAudited, Audited
      <3>2. RecordsOf(j)' = RecordsOf(j)
        BY <1>3 DEF RecordsOf
      <3>3. pc'[j] = pc[j] /\ answer'[j] = answer[j] /\ request'[j] = request[j]
        BY <1>6, <2>1
      <3> QED
        BY <1>3, <3>1, <3>2, <3>3, StaysAudited
    <2>2. Audited(k)'
      BY <1>6 DEF Audited
    <2> QED
      BY <2>1, <2>2 DEF IssuanceAudited, Audited
  <1> QED
    BY <1>3, <1>5, <1>8, <1>9, <1>10, <1>11, <1>12, <1>13, <1>14, <1>15
       DEF IInv

\* An answer, or none, that leaves the maps and the log as they are.
Quietly(k) ==
    \/ AnswerPlain(k) \/ CloseSilently(k) \/ AnswerQuery(k) \/ RevokeRefused(k)
    \/ SaveIssuedFails(k) \/ SaveRevokedFails(k) \/ RefreshEnds(k)

LEMMA QuietFacts ==
    ASSUME IInv, NEW k \in Conns, Quietly(k)
    PROVE  /\ pc[k] \in {"handle", "save", "saveRevoked", "refresh"}
           /\ UNCHANGED <<client, request, store, audit>>
           /\ Stored' = Stored /\ FileTyped' /\ FileOK'
           /\ \E step \in {"done", "closed"}, code \in Codes \cup {None} :
                /\ Moves(k, step, code)
                /\ code # 201
                /\ code = 200 /\ Revoking(k) => RevokedIn(Stored, k)
                /\ step = "done" /\ Issuing(k) => RecordedIn(store, k)
  <1>1. /\ UNCHANGED <<client, request, store, audit>>
        /\ pc[k] \in {"handle", "save", "saveRevoked", "refresh"}
        /\ Stored' = Stored /\ FileTyped' /\ FileOK'
    <2>1. /\ UNCHANGED <<client, request, store, audit>>
          /\ pc[k] \in {"handle", "save", "saveRevoked", "refresh"}
          /\ UNCHANGED <<file, spoilt>> \/ PersistFails(k)
      BY DEF Quietly, AnswerPlain, CloseSilently, AnswerQuery, RevokeRefused,
             SaveIssuedFails, SaveRevokedFails, RefreshEnds, Handles
    <2> QED
      BY <2>1, FileStays, FileFails DEF IInv
  <1>2. ASSUME NEW code \in Codes, Answer(k, code) PROVE Moves(k, "done", code)
    BY <1>2, ApiAssumption DEF Answer, Moves
  <1>3. CASE CloseSilently(k)
    <2>1. Moves(k, "closed", None)
      BY <1>3, GoesOn DEF CloseSilently, Handles, IInv
    <2> QED
      BY <1>1, <2>1, ApiAssumption DEF Codes
  <1>4. CASE AnswerPlain(k) \/ AnswerQuery(k)
    <2>1. \E code \in Codes : /\ Answer(k, code) /\ code # 201
                              /\ ~Revoking(k) /\ ~Issuing(k)
      BY <1>4 DEF AnswerPlain, AnswerQuery, Handles, Codes, Revoking, Issuing
    <2> QED
      BY <1>1, <1>2, <2>1
  <1>5. CASE RevokeRefused(k)
    <2>1. \E code \in {403, 400, 404} : Answer(k, code) /\ ~Issuing(k)
      BY <1>5 DEF RevokeRefused, Handles, Issuing
    <2> QED
      BY <1>1, <1>2, <2>1 DEF Codes
  <1>6. CASE SaveIssuedFails(k)
    <2>1. Answer(k, 400) /\ RecordedIn(store, k)
      BY <1>6 DEF SaveIssuedFails, IInv, UnderWay
    <2> QED
      BY <1>1, <1>2, <2>1 DEF Codes
  <1>7. CASE SaveRevokedFails(k)
    <2>1. Answer(k, 500) /\ ~Issuing(k)
      BY <1>7 DEF SaveRevokedFails, IInv, UnderWay, Issuing, Revoking
    <2> QED
      BY <1>1, <1>2, <2>1 DEF Codes
  <1>8. CASE RefreshEnds(k)
    <2>1. \E code \in {200, 500} : Answer(k, code)
      BY <1>8 DEF RefreshEnds
    <2>2. ~Issuing(k) /\ RevokedIn(Stored, k)
      BY <1>8 DEF RefreshEnds, IInv, UnderWay, Issuing, Revoking
    <2> QED
      BY <1>1, <1>2, <2>1, <2>2 DEF Codes
  <1> QED
    BY <1>3, <1>4, <1>5, <1>6, <1>7, <1>8 DEF Quietly

LEMMA QuietStep ==
    ASSUME IInv, NEW k \in Conns, Quietly(k)
    PROVE  IInv'
  <1>1. /\ pc[k] \in {"handle", "save", "saveRevoked", "refresh"}
        /\ client' = client /\ request' = request
        /\ store' = store /\ Stored' = Stored /\ audit' = audit
        /\ FileTyped' /\ FileOK'
    BY QuietFacts
  <1>2. PICK step \in {"done", "closed"}, code \in Codes \cup {None} :
          /\ Moves(k, step, code)
          /\ code # 201
          /\ code = 200 /\ Revoking(k) => RevokedIn(Stored, k)
          /\ step = "done" /\ Issuing(k) => RecordedIn(store, k)
    BY QuietFacts
  <1>3. TypeOK'
    BY <1>1, <1>2, MovesType DEF IInv, TypeOK
  <1>4. /\ \A j \in Conns : j # k => pc'[j] = pc[j] /\ answer'[j] = answer[j]
        /\ pc'[k] = step /\ answer'[k] = code
    BY <1>2 DEF Moves, IInv, TypeOK
  <1>5. Requested' /\ Behind'
    BY <1>1, <1>4 DEF IInv, Requested, Behind
  <1>6. Placed'
    <2>1. ASSUME NEW id \in DOMAIN store
          PROVE  /\ pc'[store[id].by] \in {"save", "audit", "done"}
                 /\ store[id].revokedBy # None =>
                      pc'[store[id].revokedBy] \in {"saveRevoked", "refresh", "done"}
      <3>1. step = "done" \/ pc[k] = "handle"
        BY <1>2 DEF Quietly, AnswerPlain, CloseSilently, AnswerQuery,
                    RevokeRefused, SaveIssuedFails, SaveRevokedFails,
                    RefreshEnds, Handles, Answer, Moves, IInv, TypeOK
      <3> QED
        BY <3>1, <1>1, <1>4, Named DEF IInv, Placed
    <2>2. \A i \in DOMAIN audit : pc'[audit[i].by] = "done"
      BY <1>1, <1>4, Named DEF IInv, Placed
    <2> QED
      BY <1>1, <2>1, <2>2 DEF Placed
  <1>7. UnderWay'
    BY <1>1, <1>2, <1>4 DEF IInv, UnderWay, Issuing, Revoking, RecordedIn,
           RevokedIn
  <1>8. Durable'
    BY <1>1, <1>2, <1>4 DEF IInv, Durable, Revoking, RecordedIn, RevokedIn
  <1>9. RecordsAreEarned' /\ RevocationsAreEarned' /\ SuccessStored'
    BY <1>1 DEF IInv, RecordsAreEarned, RevocationsAreEarned, SuccessStored,
                RecordedIn
  <1>10. IssuanceAudited'
    <2>1. ASSUME NEW j \in Conns, j # k PROVE Audited(j)'
      <3>1. Audited(j) /\ audit \in Seq(Events)
        BY DEF IInv, TypeOK, IssuanceAudited, Audited
      <3>2. RecordsOf(j)' = RecordsOf(j)
        BY <1>1 DEF RecordsOf
      <3> QED
        BY <1>1, <1>4, <2>1, <3>1, <3>2, StaysAudited
    <2>2. Audited(k)'
      BY <1>1, <1>2, <1>4 DEF Audited, RecordsOf, Issuing, RecordedIn
    <2> QED
      BY <2>1, <2>2 DEF IssuanceAudited, Audited
  <1> QED
    BY <1>1, <1>3, <1>5, <1>6, <1>7, <1>8, <1>9, <1>10 DEF IInv

\* An answer that goes with an event: a refusal, or a certificate issued.
Loudly(k) ==
    IssueUnauthorized(k) \/ IssueDenied(k) \/ IssueFails(k) \/ AuditIssued(k)

LEMMA LoudFacts ==
    ASSUME IInv, NEW k \in Conns, Loudly(k)
    PROVE  /\ pc[k] \in {"handle", "audit"} /\ Issuing(k)
           /\ UNCHANGED <<client, request, store>>
           /\ Stored' = Stored /\ FileTyped' /\ FileOK'
           /\ \E e \in Events, code \in Codes :
                /\ Moves(k, "done", code)
                /\ audit' = Append(audit, e) /\ e.by = k
                /\ <<e.type, e.outcome>> = ExpectedEvent(k)'
                /\ code # 200
                /\ code = 201 \/ e.outcome = "Success" => RecordedIn(Stored, k)
                /\ e.outcome = "Failure" => /\ ServiceAccepts(request[k].body)
                                            /\ ~CoreAccepts(request[k].body)
  <1>1. /\ UNCHANGED <<client, request, store>>
        /\ Stored' = Stored /\ FileTyped' /\ FileOK'
        /\ pc[k] \in {"handle", "audit"} /\ Issuing(k)
    BY FileStays
       DEF Loudly, IssueUnauthorized, IssueDenied, IssueFails, AuditIssued,
           Refuse, Issues, Handles, Issuing, IInv, UnderWay
  <1>2. ASSUME NEW type \in {"AuthorizationDenied", "PolicyDenied",
                             "CertificateIssued"},
               NEW outcome \in {"Denied", "Failure", "Success"},
               NEW code \in Codes, Record(k, type, outcome), Answer(k, code)
        PROVE  \E e \in Events :
                 /\ Moves(k, "done", code)
                 /\ audit' = Append(audit, e) /\ e.by = k
                 /\ e.type = type /\ e.outcome = outcome
                 /\ answer'[k] = code
    <2> DEFINE e == [by |-> k, type |-> type, outcome |-> outcome]
    <2>1. e \in Events
      BY DEF Events
    <2>2. Moves(k, "done", code)
      BY <1>2, ApiAssumption DEF Answer, Moves
    <2>3. answer'[k] = code
      BY <1>2 DEF Answer, IInv, TypeOK
    <2>4. audit' = Append(audit, e)
      BY <1>2 DEF Record
    <2> QED
      BY <2>1, <2>2, <2>3, <2>4
  <1>3. ServiceAccepts(request[k].body)' = ServiceAccepts(request[k].body)
    BY <1>1 DEF ServiceAccepts, NamesWithin, SanPresent
  <1>4. /\ answer'[k] = 201
             => ExpectedEvent(k)' = <<"CertificateIssued", "Success">>
        /\ answer'[k] = 403
             => ExpectedEvent(k)' = <<"AuthorizationDenied", "Denied">>
        /\ answer'[k] = 400 /\ ~ServiceAccepts(request[k].body)
             => ExpectedEvent(k)' = <<"PolicyDenied", "Denied">>
        /\ answer'[k] = 400 /\ ServiceAccepts(request[k].body)
             => ExpectedEvent(k)' = <<"CertificateIssued", "Failure">>
    BY <1>1, <1>3 DEF ExpectedEvent
  <1>5. {200, 201, 400, 403, 404, 500} = Codes
    BY DEF Codes
  <1>6. CASE IssueUnauthorized(k)
    <2>1. Record(k, "AuthorizationDenied", "Denied") /\ Answer(k, 403)
      BY <1>6 DEF IssueUnauthorized, Refuse
    <2>2. PICK e \in Events :
                 /\ Moves(k, "done", 403)
                 /\ audit' = Append(audit, e) /\ e.by = k
                 /\ e.type = "AuthorizationDenied" /\ e.outcome = "Denied"
                 /\ answer'[k] = 403
      BY <1>2, <1>5, <2>1
    <2> QED
      BY <1>1, <1>4, <1>5, <2>2
  <1>7. CASE IssueDenied(k)
    <2>1. /\ Record(k, "PolicyDenied", "Denied") /\ Answer(k, 400)
          /\ ~ServiceAccepts(request[k].body)
      BY <1>7 DEF IssueDenied, Refuse
    <2>2. PICK e \in Events :
                 /\ Moves(k, "done", 400)
                 /\ audit' = Append(audit, e) /\ e.by = k
                 /\ e.type = "PolicyDenied" /\ e.outcome = "Denied"
                 /\ answer'[k] = 400
      BY <1>2, <1>5, <2>1
    <2> QED
      BY <1>1, <1>4, <1>5, <2>1, <2>2
  <1>8. CASE IssueFails(k)
    <2>1. /\ Record(k, "CertificateIssued", "Failure") /\ Answer(k, 400)
          /\ ServiceAccepts(request[k].body) /\ ~CoreAccepts(request[k].body)
      BY <1>8 DEF IssueFails, Refuse
    <2>2. PICK e \in Events :
                 /\ Moves(k, "done", 400)
                 /\ audit' = Append(audit, e) /\ e.by = k
                 /\ e.type = "CertificateIssued" /\ e.outcome = "Failure"
                 /\ answer'[k] = 400
      BY <1>2, <1>5, <2>1
    <2> QED
      BY <1>1, <1>4, <1>5, <2>1, <2>2
  <1>9. CASE AuditIssued(k)
    <2>1. /\ Record(k, "CertificateIssued", "Success") /\ Answer(k, 201)
          /\ RecordedIn(Stored, k)
      BY <1>9 DEF AuditIssued, IInv, UnderWay
    <2>2. PICK e \in Events :
                 /\ Moves(k, "done", 201)
                 /\ audit' = Append(audit, e) /\ e.by = k
                 /\ e.type = "CertificateIssued" /\ e.outcome = "Success"
                 /\ answer'[k] = 201
      BY <1>2, <1>5, <2>1
    <2> QED
      BY <1>1, <1>4, <1>5, <2>1, <2>2
  <1> QED
    BY <1>6, <1>7, <1>8, <1>9 DEF Loudly

LEMMA LoudStep ==
    ASSUME IInv, NEW k \in Conns, Loudly(k)
    PROVE  IInv'
  <1>1. /\ pc[k] \in {"handle", "audit"} /\ Issuing(k)
        /\ client' = client /\ request' = request
        /\ store' = store
        /\ Stored' = Stored /\ FileTyped' /\ FileOK'
    BY LoudFacts
  <1>2. PICK e \in Events, code \in Codes :
          /\ Moves(k, "done", code)
          /\ audit' = Append(audit, e) /\ e.by = k
          /\ <<e.type, e.outcome>> = ExpectedEvent(k)'
          /\ code # 200
          /\ code = 201 \/ e.outcome = "Success" => RecordedIn(Stored, k)
    BY LoudFacts
  <1>3. /\ audit \in Seq(Events) /\ audit' \in Seq(Events)
        /\ DOMAIN audit' = DOMAIN audit \cup {Len(audit) + 1}
        /\ audit'[Len(audit) + 1] = e
        /\ \A i \in DOMAIN audit : audit'[i] = audit[i]
    BY <1>2, Appended DEF IInv, TypeOK
  <1>4. TypeOK'
    BY <1>1, <1>2, <1>3, MovesType DEF IInv, TypeOK
  <1>5. /\ \A j \in Conns : j # k => pc'[j] = pc[j] /\ answer'[j] = answer[j]
        /\ pc'[k] = "done" /\ answer'[k] = code
    BY <1>2 DEF Moves, IInv, TypeOK
  <1>6. Requested' /\ Behind'
    BY <1>1, <1>5 DEF IInv, Requested, Behind
  <1>7. Placed'
    <2>1. ASSUME NEW id \in DOMAIN store
          PROVE  /\ pc'[store[id].by] \in {"save", "audit", "done"}
                 /\ store[id].revokedBy # None =>
                      pc'[store[id].revokedBy] \in {"saveRevoked", "refresh",
                                                    "done"}
      BY <1>1, <1>5, Named DEF IInv, Placed
    <2>2. \A i \in DOMAIN audit' : pc'[audit'[i].by] = "done"
      BY <1>1, <1>2, <1>3, <1>5, Named DEF IInv, Placed
    <2> QED
      BY <1>1, <2>1, <2>2 DEF Placed
  <1>8. UnderWay'
    BY <1>1, <1>5 DEF IInv, UnderWay, Issuing, Revoking, RecordedIn, RevokedIn
  <1>9. Durable'
    BY <1>1, <1>2, <1>5 DEF IInv, Durable, Revoking, RecordedIn, RevokedIn
  <1>10. RecordsAreEarned' /\ RevocationsAreEarned'
    BY <1>1 DEF IInv, RecordsAreEarned, RevocationsAreEarned
  <1>11. SuccessStored'
    BY <1>1, <1>2, <1>3 DEF IInv, SuccessStored, RecordedIn
  <1>12. IssuanceAudited'
    <2>1. ASSUME NEW j \in Conns, j # k PROVE Audited(j)'
      BY <1>1, <1>2, <1>3, <1>5, <2>1, StaysAudited
         DEF IInv, IssuanceAudited, Audited, RecordsOf
    <2>2. Audited(k)'
      BY <1>1, <1>2, <1>3, Unheard, BecomesAudited DEF IInv
    <2> QED
      BY <2>1, <2>2 DEF IssuanceAudited, Audited
  <1> QED
    BY <1>1, <1>4, <1>6, <1>7, <1>8, <1>9, <1>10, <1>11, <1>12 DEF IInv

\* A save goes on: in the file, nothing changes but for the map it may get.
LEMMA PersistStep ==
    ASSUME IInv, NEW k \in Conns, Persists(k)
    PROVE  IInv'
  <1>1. /\ client' = client /\ request' = request /\ pc' = pc
        /\ answer' = answer /\ store' = store /\ audit' = audit
        /\ Stored' \in {Stored, store} /\ FileTyped' /\ FileOK'
    BY FilePersists DEF Persists, IInv
  <1>2. /\ TypeOK' /\ Requested' /\ Placed'
        /\ RecordsAreEarned' /\ RevocationsAreEarned'
    BY <1>1 DEF IInv, TypeOK, FileTyped, Requested, Placed, RecordsAreEarned,
                RevocationsAreEarned
  <1>3. Behind'
    BY <1>1 DEF IInv, Behind
  <1>4. \A j : /\ RecordedIn(Stored, j) => RecordedIn(Stored, j)'
               /\ RevokedIn(Stored, j) => RevokedIn(Stored, j)'
    BY <1>1, StoredGrows DEF IInv
  <1>5. UnderWay' /\ Durable'
    <2>1. \A j \in Conns : /\ Issuing(j)' = Issuing(j)
                           /\ Revoking(j)' = Revoking(j)
                           /\ RecordedIn(store, j)' = RecordedIn(store, j)
                           /\ RevokedIn(store, j)' = RevokedIn(store, j)
      BY <1>1 DEF Issuing, Revoking, RecordedIn, RevokedIn
    <2> QED
      BY <1>1, <1>4, <2>1 DEF IInv, UnderWay, Durable
  <1>6. SuccessStored'
    BY <1>1, <1>4 DEF IInv, SuccessStored
  <1>7. IssuanceAudited'
    <2>1. ASSUME NEW j \in Conns PROVE Audited(j)'
      <3>1. Audited(j) /\ audit \in Seq(Events)
        BY DEF IInv, TypeOK, IssuanceAudited, Audited
      <3>2. RecordsOf(j)' = RecordsOf(j)
        BY <1>1 DEF RecordsOf
      <3> QED
        BY <1>1, <3>1, <3>2, StaysAudited
    <2> QED
      BY <2>1 DEF IssuanceAudited, Audited
  <1> QED
    BY <1>1, <1>2, <1>3, <1>5, <1>6, <1>7 DEF IInv

\* A save ends: the file has the map.
LEMMA SaveStep ==
    ASSUME IInv, NEW k \in Conns, SaveIssued(k) \/ SaveRevoked(k)
    PROVE  IInv'
  <1>1. /\ client' = client /\ request' = request
        /\ store' = store /\ audit' = audit
        /\ Stored' = store /\ FileTyped' /\ FileOK'
    BY FileInstalls DEF SaveIssued, SaveRevoked, IInv
  <1>2. PICK step \in {"audit", "refresh"} :
          /\ Moves(k, step, None)
          /\ step = "audit" => pc[k] = "save"
          /\ step = "refresh" => pc[k] = "saveRevoked"
    BY GoesOn DEF SaveIssued, SaveRevoked, IInv
  <1>3. TypeOK'
    BY <1>1, <1>2, MovesType DEF IInv, TypeOK
  <1>4. /\ \A j \in Conns : j # k => pc'[j] = pc[j] /\ answer'[j] = answer[j]
        /\ pc'[k] = step /\ answer'[k] = None
    BY <1>2 DEF Moves, IInv, TypeOK
  <1>5. Requested'
    BY <1>1, <1>2, <1>4 DEF IInv, Requested
  <1>6. Placed'
    <2>1. ASSUME NEW id \in DOMAIN store
          PROVE  /\ pc'[store[id].by] \in {"save", "audit", "done"}
                 /\ store[id].revokedBy # None =>
                      pc'[store[id].revokedBy] \in {"saveRevoked", "refresh",
                                                    "done"}
      BY <1>2, <1>4, Named DEF IInv, Placed
    <2>2. \A i \in DOMAIN audit : pc'[audit[i].by] = "done"
      BY <1>2, <1>4, Named DEF IInv, Placed
    <2> QED
      BY <1>1, <2>1, <2>2 DEF Placed
  <1>7. Behind'
    BY <1>1 DEF Behind
  <1>8. \A j \in Conns : /\ RecordedIn(Stored, j) => RecordedIn(store, j)
                         /\ RevokedIn(Stored, j) => RevokedIn(store, j)
    BY DEF IInv, Behind, RecordedIn, RevokedIn
  <1>9. UnderWay'
    <2>1. ASSUME NEW j \in Conns
          PROVE  /\ pc[j] = "save" => Issuing(j) /\ RecordedIn(store, j)
                 /\ pc[j] = "audit" => Issuing(j) /\ RecordedIn(store, j)
                 /\ pc[j] = "saveRevoked" => Revoking(j) /\ RevokedIn(store, j)
                 /\ pc[j] = "refresh" => Revoking(j) /\ RevokedIn(store, j)
      BY <1>8 DEF IInv, UnderWay
    <2>2. \A j \in Conns : /\ Issuing(j)' = Issuing(j)
                           /\ Revoking(j)' = Revoking(j)
                           /\ RecordedIn(store, j)' = RecordedIn(store, j)
                           /\ RecordedIn(Stored, j)' = RecordedIn(store, j)
                           /\ RevokedIn(store, j)' = RevokedIn(store, j)
                           /\ RevokedIn(Stored, j)' = RevokedIn(store, j)
      BY <1>1 DEF Issuing, Revoking, RecordedIn, RevokedIn
    <2> QED
      BY <1>2, <1>4, <2>1, <2>2 DEF UnderWay
  <1>10. Durable'
    <2>1. answer'[k] # 201 /\ answer'[k] # 200
      BY <1>4, ApiAssumption DEF Codes
    <2>2. \A j \in Conns : /\ Revoking(j)' = Revoking(j)
                           /\ RecordedIn(Stored, j)' = RecordedIn(store, j)
                           /\ RevokedIn(Stored, j)' = RevokedIn(store, j)
      BY <1>1 DEF Revoking, RecordedIn, RevokedIn
    <2> QED
      BY <1>4, <1>8, <2>1, <2>2 DEF IInv, Durable
  <1>11. RecordsAreEarned' /\ RevocationsAreEarned'
    BY <1>1 DEF IInv, RecordsAreEarned, RevocationsAreEarned
  <1>12. SuccessStored'
    BY <1>1 DEF IInv, SuccessStored, Behind, RecordedIn
  <1>13. IssuanceAudited'
    <2>1. ASSUME NEW j \in Conns, j # k PROVE Audited(j)'
      <3>1. Audited(j) /\ audit \in Seq(Events)
        BY DEF IInv, TypeOK, IssuanceAudited, Audited
      <3>2. RecordsOf(j)' = RecordsOf(j)
        BY <1>1 DEF RecordsOf
      <3> QED
        BY <1>1, <1>4, <2>1, <3>1, <3>2, StaysAudited
    <2>2. Audited(k)'
      BY <1>2, <1>4 DEF Audited
    <2> QED
      BY <2>1, <2>2 DEF IssuanceAudited, Audited
  <1> QED
    BY <1>1, <1>3, <1>5, <1>6, <1>7, <1>9, <1>10, <1>11, <1>12, <1>13 DEF IInv

\* What the change of one record of the map in memory leaves as it was: the
\* record keeps its maker, and its revocation if it has one.
LEMMA ChangeKeeps ==
    ASSUME IInv, NEW k \in Conns, pc[k] = "handle",
           NEW id \in Ids, NEW r \in Records, store' = Put(store, id, r),
           UNCHANGED <<client, request, audit, file, spoilt>>, WriteLockFree,
           id \in DOMAIN store =>
             r.by = store[id].by /\ store[id].reason \in {None, r.reason},
           NEW step \in {"save", "saveRevoked"}, Goto(k, step)
    PROVE  /\ TypeOK' /\ Requested' /\ FileOK' /\ Behind' /\ Durable'
           /\ SuccessStored'
           /\ \A j : /\ RecordedIn(Stored, j) => RecordedIn(Stored, j)'
                     /\ RevokedIn(Stored, j) => RevokedIn(Stored, j)'
           /\ r.by = k \/ id \in DOMAIN store => IssuanceAudited'
           /\ \A j \in Conns : j # k => pc'[j] = pc[j]
           /\ pc'[k] = step
           /\ DOMAIN store' = DOMAIN store \cup {id}
           /\ store'[id] = r
           /\ \A other \in DOMAIN store : other # id => store'[other] = store[other]
  <1>1. /\ client' = client /\ request' = request /\ audit' = audit
        /\ FileTyped' /\ FileOK'
        /\ Stored' = Stored \/ (Stored = store /\ Stored' = store')
    BY FileWaits DEF IInv
  <1>2. /\ DOMAIN store' = DOMAIN store \cup {id}
        /\ store'[id] = r
        /\ \A other \in DOMAIN store : other # id => store'[other] = store[other]
    BY PutDomain DEF Put
  <1>3. Moves(k, step, None)
    BY GoesOn DEF IInv
  <1>4. TypeOK'
    <2>1. store' \in MapsFrom(Ids, Records)
      BY MapPut DEF IInv, TypeOK
    <2> QED
      BY <1>1, <1>3, <2>1, MovesType DEF IInv, TypeOK
  <1>5. /\ \A j \in Conns : j # k => pc'[j] = pc[j] /\ answer'[j] = answer[j]
        /\ pc'[k] = step /\ answer'[k] = None
    BY <1>3 DEF Moves, IInv, TypeOK
  <1>6. Requested'
    BY <1>1, <1>5 DEF IInv, Requested
  <1>7. Behind'
    BY <1>1, <1>2 DEF IInv, Behind
  <1>11. ASSUME NEW j
         PROVE  /\ RecordedIn(Stored, j) => RecordedIn(Stored, j)'
                /\ RevokedIn(Stored, j) => RevokedIn(Stored, j)'
    <2>1. CASE Stored' = Stored
      BY <1>1, <2>1 DEF RecordedIn, RevokedIn
    <2>2. CASE Stored = store /\ Stored' = store'
      <3>1. \A i \in DOMAIN store :
              /\ i \in DOMAIN store' /\ store'[i].by = store[i].by
              /\ store[i].reason # None => store'[i].reason # None
        BY <1>2
      <3> QED
        BY <1>1, <2>2, <3>1 DEF RecordedIn, RevokedIn
    <2> QED
      BY <1>1, <2>1, <2>2
  <1>8. Durable'
    <2>1. answer'[k] # 201 /\ answer'[k] # 200
      BY <1>5, ApiAssumption DEF Codes
    <2> QED
      BY <1>1, <1>5, <1>11, <2>1 DEF IInv, Durable, Revoking
  <1>9. SuccessStored'
    BY <1>1, <1>11 DEF IInv, SuccessStored
  <1>10. ASSUME r.by = k \/ id \in DOMAIN store PROVE IssuanceAudited'
    <2>1. ASSUME NEW j \in Conns, j # k PROVE Audited(j)'
      <3>1. \A other \in DOMAIN store : store'[other].by = store[other].by
        BY <1>2
      <3>2. RecordsOf(j)' = {} => RecordsOf(j) = {}
        BY <1>2, <3>1 DEF RecordsOf
      <3> QED
        BY <1>1, <1>5, <2>1, <3>2, StaysAudited
           DEF IInv, TypeOK, IssuanceAudited, Audited
    <2>2. Audited(k)'
      BY <1>5 DEF Audited
    <2> QED
      BY <2>1, <2>2 DEF IssuanceAudited, Audited
  <1> QED
    BY <1>1, <1>2, <1>4, <1>5, <1>6, <1>7, <1>8, <1>9, <1>10, <1>11

LEMMA SignStep ==
    ASSUME IInv, NEW k \in Conns, Sign(k)
    PROVE  IInv'
  <1>1. PICK id \in Ids \ DOMAIN store :
          store' = Put(store, id, [by |-> k, reason |-> None, revokedBy |-> None])
    BY DEF Sign
  <1> DEFINE r == [by |-> k, reason |-> None, revokedBy |-> None]
  <1>2. r \in Records /\ r.by = k /\ r.revokedBy = None /\ r.reason = None
    BY DEF Records
  <1> HIDE DEF r
  <1>3. /\ pc[k] = "handle" /\ request[k].op = "issue" /\ request[k].body # None
        /\ client[k] \in Issuers
        /\ ServiceAccepts(request[k].body) /\ CoreAccepts(request[k].body)
        /\ Goto(k, "save") /\ WriteLockFree
        /\ UNCHANGED <<client, request, audit, file, spoilt>>
    BY DEF Sign, Issues, Handles, MayAct
  <1>4. store' = Put(store, id, r)
    BY <1>1 DEF r
  <1>5. /\ TypeOK' /\ Requested' /\ FileOK' /\ Behind' /\ Durable'
        /\ SuccessStored' /\ IssuanceAudited'
        /\ \A j : /\ RecordedIn(Stored, j) => RecordedIn(Stored, j)'
                  /\ RevokedIn(Stored, j) => RevokedIn(Stored, j)'
        /\ \A j \in Conns : j # k => pc'[j] = pc[j]
        /\ pc'[k] = "save"
        /\ DOMAIN store' = DOMAIN store \cup {id}
        /\ store'[id] = r
        /\ \A other \in DOMAIN store : store'[other] = store[other]
    <2>1. id \in Ids /\ id \notin DOMAIN store
      BY <1>1
    <2>2. "save" \in {"save", "saveRevoked"}
      OBVIOUS
    <2>3. /\ TypeOK' /\ Requested' /\ FileOK' /\ Behind' /\ Durable'
          /\ SuccessStored'
          /\ \A j : /\ RecordedIn(Stored, j) => RecordedIn(Stored, j)'
                    /\ RevokedIn(Stored, j) => RevokedIn(Stored, j)'
          /\ r.by = k \/ id \in DOMAIN store => IssuanceAudited'
          /\ \A j \in Conns : j # k => pc'[j] = pc[j]
          /\ pc'[k] = "save"
          /\ DOMAIN store' = DOMAIN store \cup {id}
          /\ store'[id] = r
          /\ \A other \in DOMAIN store :
               other # id => store'[other] = store[other]
      BY <1>2, <1>3, <1>4, <2>1, <2>2, ChangeKeeps
    <2> QED
      BY <1>2, <2>1, <2>3
  <1>6. client' = client /\ request' = request /\ audit' = audit
    BY <1>3
  <1>7. Placed'
    <2>1. \A other \in DOMAIN store :
            /\ pc'[store[other].by] \in {"save", "audit", "done"}
            /\ store[other].revokedBy # None =>
                 pc'[store[other].revokedBy] \in {"saveRevoked", "refresh", "done"}
      BY <1>3, <1>5, Named DEF IInv, Placed
    <2>2. \A i \in DOMAIN audit : pc'[audit[i].by] = "done"
      BY <1>3, <1>5, Named DEF IInv, Placed
    <2> QED
      BY <1>2, <1>5, <1>6, <2>1, <2>2 DEF Placed
  <1>8. UnderWay'
    <2>1. \A j \in Conns : /\ RecordedIn(store, j) => RecordedIn(store, j)'
                           /\ RevokedIn(store, j) => RevokedIn(store, j)'
                           /\ RecordedIn(Stored, j) => RecordedIn(Stored, j)'
                           /\ RevokedIn(Stored, j) => RevokedIn(Stored, j)'
                           /\ Issuing(j)' = Issuing(j)
                           /\ Revoking(j)' = Revoking(j)
      BY <1>5, <1>6 DEF RecordedIn, RevokedIn, Issuing, Revoking
    <2>2. RecordedIn(store, k)' /\ Issuing(k)
      BY <1>2, <1>3, <1>5 DEF RecordedIn, Issuing
    <2> QED
      BY <1>5, <2>1, <2>2 DEF IInv, UnderWay
  <1>9. RecordsAreEarned'
    <2>1. EarnedBy(k)
      BY <1>3 DEF EarnedBy, ServiceAccepts, CoreAccepts, NamesWithin, SanPresent
    <2>2. \A other \in DOMAIN store : EarnedBy(store[other].by)
      BY DEF IInv, RecordsAreEarned, EarnedBy
    <2>3. ASSUME NEW other \in DOMAIN store' PROVE EarnedBy(store'[other].by)
      <3>1. CASE other = id
        BY <1>2, <1>5, <2>1, <3>1
      <3>2. CASE other \in DOMAIN store
        BY <1>5, <2>2, <3>2
      <3> QED
        BY <1>5, <3>1, <3>2
    <2> QED
      BY <1>6, <2>3 DEF RecordsAreEarned, EarnedBy
  <1>10. RevocationsAreEarned'
    <2>1. \A other \in DOMAIN store' : other = id \/ other \in DOMAIN store
      BY <1>5
    <2> QED
      BY <1>2, <1>5, <1>6, <2>1 DEF IInv, RevocationsAreEarned
  <1> QED
    BY <1>5, <1>7, <1>8, <1>9, <1>10 DEF IInv

\* What the code writes over a record when it is revoked.
LEMMA RevokedRecord ==
    ASSUME NEW k \in Conns, NEW old \in Records, request[k] \in Requests,
           request[k].op = "revoke", request[k].reason # None
    PROVE  LET r == RevokedFirst(k, old) IN
           /\ r \in Records /\ r.by = old.by /\ r.reason # None
           /\ old.reason # None => r = old
           /\ old.reason = None => r.revokedBy = k /\ r.reason = request[k].reason
  <1>1. request[k].reason \in Reasons \cup {Unspecified}
    BY DEF Requests
  <1>2. CASE old.reason # None
    BY <1>2 DEF RevokedFirst
  <1>3. CASE old.reason = None
    <2> DEFINE r == [old EXCEPT !.reason = request[k].reason, !.revokedBy = k]
    <2>1. /\ r \in Records /\ r.by = old.by /\ r.revokedBy = k
          /\ r.reason = request[k].reason
      BY <1>1 DEF Records
    <2>2. RevokedFirst(k, old) = r
      BY <1>3 DEF RevokedFirst
    <2> HIDE DEF r
    <2> QED
      BY <1>3, <2>1, <2>2
  <1> QED
    BY <1>2, <1>3

LEMMA RevokeStep ==
    ASSUME IInv, NEW k \in Conns, Revoke(k)
    PROVE  IInv'
  <1> DEFINE id == request[k].id
             r  == RevokedFirst(k, store[id])
  <1>1. /\ pc[k] = "handle" /\ request[k].op = "revoke"
        /\ client[k] \in Issuers
        /\ id \in DOMAIN store /\ request[k].reason # None
        /\ store' = Put(store, id, r)
        /\ Goto(k, "saveRevoked") /\ WriteLockFree
        /\ UNCHANGED <<client, request, audit, file, spoilt>>
    BY DEF Revoke, Handles, MayAct
  <1>2. id \in Ids /\ store[id] \in Records /\ request[k] \in Requests
    BY <1>1, Named DEF IInv, Requested
  <1>3. /\ r \in Records /\ r.by = store[id].by /\ r.reason # None
        /\ store[id].reason # None => r = store[id]
        /\ store[id].reason = None =>
             r.revokedBy = k /\ r.reason = request[k].reason
    BY <1>1, <1>2, RevokedRecord
  <1> HIDE DEF r
  <1>4. /\ TypeOK' /\ Requested' /\ FileOK' /\ Behind' /\ Durable'
        /\ SuccessStored' /\ IssuanceAudited'
        /\ \A j : /\ RecordedIn(Stored, j) => RecordedIn(Stored, j)'
                  /\ RevokedIn(Stored, j) => RevokedIn(Stored, j)'
        /\ \A j \in Conns : j # k => pc'[j] = pc[j]
        /\ pc'[k] = "saveRevoked"
        /\ DOMAIN store' = DOMAIN store
        /\ store'[id] = r
        /\ \A other \in DOMAIN store : other # id => store'[other] = store[other]
    <2>1. store[id].reason \in {None, r.reason}
      BY <1>3
    <2>2. "saveRevoked" \in {"save", "saveRevoked"}
      OBVIOUS
    <2> HIDE DEF id
    <2>3. /\ TypeOK' /\ Requested' /\ FileOK' /\ Behind' /\ Durable'
          /\ SuccessStored'
          /\ \A j : /\ RecordedIn(Stored, j) => RecordedIn(Stored, j)'
                    /\ RevokedIn(Stored, j) => RevokedIn(Stored, j)'
          /\ r.by = k \/ id \in DOMAIN store => IssuanceAudited'
          /\ \A j \in Conns : j # k => pc'[j] = pc[j]
          /\ pc'[k] = "saveRevoked"
          /\ DOMAIN store' = DOMAIN store \cup {id}
          /\ store'[id] = r
          /\ \A other \in DOMAIN store :
               other # id => store'[other] = store[other]
      BY <1>1, <1>2, <1>3, <2>1, <2>2, ChangeKeeps
    <2> QED
      BY <1>1, <2>3
  <1>5. client' = client /\ request' = request /\ audit' = audit
    BY <1>1
  <1>6. Placed'
    <2>1. ASSUME NEW other \in DOMAIN store
          PROVE  /\ pc'[store[other].by] \in {"save", "audit", "done"}
                 /\ store[other].revokedBy # None =>
                      pc'[store[other].revokedBy] \in {"saveRevoked", "refresh",
                                                       "done"}
      BY <1>1, <1>4, Named DEF IInv, Placed
    <2>2. \A i \in DOMAIN audit : pc'[audit[i].by] = "done"
      BY <1>1, <1>4, Named DEF IInv, Placed
    <2>3. /\ pc'[r.by] \in {"save", "audit", "done"}
          /\ r.revokedBy # None =>
               pc'[r.revokedBy] \in {"saveRevoked", "refresh", "done"}
      BY <1>1, <1>3, <1>4, <2>1
    <2> QED
      BY <1>4, <1>5, <2>1, <2>2, <2>3 DEF Placed
  <1>7. UnderWay'
    <2>1. \A j \in Conns : /\ RecordedIn(store, j) => RecordedIn(store, j)'
                           /\ RevokedIn(store, j) => RevokedIn(store, j)'
                           /\ RecordedIn(Stored, j) => RecordedIn(Stored, j)'
                           /\ RevokedIn(Stored, j) => RevokedIn(Stored, j)'
                           /\ Issuing(j)' = Issuing(j)
                           /\ Revoking(j)' = Revoking(j)
      BY <1>3, <1>4, <1>5 DEF RecordedIn, RevokedIn, Issuing, Revoking
    <2>2. RevokedIn(store, k)' /\ Revoking(k)
      BY <1>1, <1>3, <1>4, <1>5 DEF RevokedIn, Revoking
    <2> QED
      BY <1>4, <2>1, <2>2 DEF IInv, UnderWay
  <1>8. RecordsAreEarned'
    <2>1. \A other \in DOMAIN store : store'[other].by = store[other].by
      BY <1>3, <1>4
    <2> QED
      BY <1>4, <1>5, <2>1 DEF IInv, RecordsAreEarned
  <1>9. RevocationsAreEarned'
    <2>1. CASE store[id].reason # None
      <3>1. store'[id] = store[id]
        BY <1>3, <1>4, <2>1
      <3>2. \A other \in DOMAIN store : store'[other] = store[other]
        BY <1>4, <3>1
      <3> QED
        BY <1>4, <1>5, <3>2 DEF IInv, RevocationsAreEarned
    <2>2. CASE store[id].reason = None
      <3>1. /\ r.revokedBy = k /\ r.reason = request[k].reason /\ k # None
        BY <1>3, <2>2, ApiAssumption
      <3>2. /\ r.revokedBy # None /\ client[r.revokedBy] \in Issuers
            /\ request[r.revokedBy].op = "revoke"
            /\ request[r.revokedBy].id = id
            /\ request[r.revokedBy].reason = r.reason
        BY <1>1, <3>1
      <3>3. ASSUME NEW other \in DOMAIN store, other # id,
                   store[other].reason # None
            PROVE  /\ store[other].revokedBy # None
                   /\ client[store[other].revokedBy] \in Issuers
                   /\ request[store[other].revokedBy].op = "revoke"
                   /\ request[store[other].revokedBy].id = other
                   /\ request[store[other].revokedBy].reason
                        = store[other].reason
        BY <3>3 DEF IInv, RevocationsAreEarned
      <3> HIDE DEF id
      <3> QED
        BY <1>4, <1>5, <3>2, <3>3 DEF RevocationsAreEarned
    <2> QED
      BY <2>1, <2>2
  <1> QED
    BY <1>4, <1>6, <1>7, <1>8, <1>9 DEF IInv

-----------------------------------------------------------------------------
(* The theorems.                                                           *)

LEMMA StepHolds == ASSUME IInv, [Next]_vars PROVE IInv'
  <1>1. CASE Next
    <2>1. PICK k \in Conns : Connection(k)
      BY <1>1 DEF Next
    <2>2. CASE Quietly(k)
      BY <2>2, QuietStep
    <2>3. CASE Loudly(k)
      BY <2>3, LoudStep
    <2>4. CASE Read(k)
      BY <2>4, ReadStep
    <2>5. CASE Sign(k)
      BY <2>5, SignStep
    <2>6. CASE Revoke(k)
      BY <2>6, RevokeStep
    <2>7. CASE SaveIssued(k) \/ SaveRevoked(k)
      BY <2>7, SaveStep
    <2>8. CASE Persists(k)
      BY <2>8, PersistStep
    <2> QED
      BY <2>1, <2>2, <2>3, <2>4, <2>5, <2>6, <2>7, <2>8 DEF Connection,
             Quietly, Loudly
  <1>2. CASE UNCHANGED vars
    <2>1. /\ UNCHANGED <<pc, client, request, answer, store, audit>>
          /\ Stored' = Stored /\ FileTyped' /\ FileOK'
      BY <1>2, FileStays DEF vars, IInv
    <2>2. \A k \in Conns : /\ Issuing(k)' = Issuing(k)
                          /\ Revoking(k)' = Revoking(k)
      BY <2>1 DEF Issuing, Revoking
    <2>3. TypeOK' /\ Requested' /\ Placed' /\ Behind'
      BY <2>1 DEF IInv, TypeOK, FileTyped, Requested, Placed, Behind
    <2>4. UnderWay' /\ Durable'
      BY <2>1, <2>2 DEF IInv, UnderWay, Durable, RecordedIn, RevokedIn
    <2>5. RecordsAreEarned' /\ RevocationsAreEarned' /\ SuccessStored'
      BY <2>1 DEF IInv, RecordsAreEarned, RevocationsAreEarned, SuccessStored,
                  RecordedIn
    <2>6. IssuanceAudited'
      BY <2>1 DEF IInv, IssuanceAudited, EventsOf, RecordsOf, ExpectedEvent
    <2> QED
      BY <2>1, <2>3, <2>4, <2>5, <2>6 DEF IInv
  <1> QED
    BY <1>1, <1>2

LEMMA InvariantHolds == Spec => []IInv
  <1>1. Init => IInv
    BY InitHolds
  <1>2. IInv /\ [Next]_vars => IInv'
    BY StepHolds
  <1> QED
    BY <1>1, <1>2, PTL DEF Spec

\* Type correctness of the API's connections, maps and log: a connection has
\* a status code exactly when http.rs has written its answer.
THEOREM TypeCorrect == Spec => []TypeOK
  <1>1. IInv => TypeOK
    BY DEF IInv
  <1> QED
    BY <1>1, InvariantHolds, PTL

\* Every record of the store was asked for by an issuer, in a request within
\* the limits of the service and of the core, whatever the policy is.
THEOREM RecordsAlwaysEarned == Spec => []RecordsAreEarned
  <1>1. IInv => RecordsAreEarned
    BY DEF IInv
  <1> QED
    BY <1>1, InvariantHolds, PTL

\* The time and the reason of a revocation are those of one request, by an
\* issuer and for that record.
THEOREM RevocationsAlwaysEarned == Spec => []RevocationsAreEarned
  <1>1. IInv => RevocationsAreEarned
    BY DEF IInv
  <1> QED
    BY <1>1, InvariantHolds, PTL

\* The log claims no certificate that the file does not have.  A file that
\* is not whole is one that a save is writing into, or what a failed write has
\* left: overlapping saves leave no other.
THEOREM SuccessAlwaysSaved == Spec => []SuccessIsSaved
  <1>1. IInv => SuccessIsSaved
    BY DEF IInv, FileOK, SuccessStored, SuccessIsSaved, Stored, RecordedIn
  <1> QED
    BY <1>1, InvariantHolds, PTL

\* What a caller was told succeeded is in the file, with the reason that won
\* in memory.
AnswersOnDisk ==
    \A k \in Conns :
        /\ answer[k] = 201 => \E id \in DOMAIN saved : saved[id].by = k
        /\ answer[k] = 200 /\ request[k].op = "revoke" =>
               /\ request[k].id \in DOMAIN saved
               /\ saved[request[k].id].reason = store[request[k].id].reason
               /\ saved[request[k].id].reason # None
AnswersAreDurable == IF Whole THEN AnswersOnDisk ELSE Excused

\* The same of the file as the refinement sees it.
AnswersAreStored ==
    \A k \in Conns :
        /\ answer[k] = 201 => \E id \in DOMAIN Stored : Stored[id].by = k
        /\ answer[k] = 200 /\ request[k].op = "revoke" =>
               /\ request[k].id \in DOMAIN Stored
               /\ Stored[request[k].id].reason = store[request[k].id].reason
               /\ Stored[request[k].id].reason # None

LEMMA DurableAnswers == IInv => AnswersAreStored
  BY DEF IInv, Durable, Behind, Revoking, RecordedIn, RevokedIn,
         AnswersAreStored

\* However saves overlap, every whole file has what any caller was told by
\* then; a file that is not whole is one that a save is writing into, or what
\* a failed write has left.  A crash may find such a file.
THEOREM AnswersAlwaysDurable == Spec => []AnswersAreDurable
  <1>1. IInv /\ Whole => Stored = saved
    BY DEF Stored
  <1>2. IInv => AnswersAreDurable
    BY <1>1, DurableAnswers
       DEF IInv, FileOK, AnswersAreStored, AnswersAreDurable, AnswersOnDisk
  <1> QED
    BY <1>2, InvariantHolds, PTL

\* One save at a time has the temporary file to itself.
SerialFile ==
    /\ Whole
    /\ \A t \in Conns : /\ io[t] \in {"none", "tmp", "written"}
                        /\ io[t] = "written" => temporary = store

LEMMA SerialFileStep ==
    ASSUME IInv, SavesSerial, SavesSerial', SerialFile, [Next]_vars
    PROVE  SerialFile'
  <1> USE MapsAreWhole DEF IInv
  <1>1. CASE UNCHANGED <<file, store>>
    BY <1>1 DEF SerialFile, Whole, file
  <1>2. CASE UNCHANGED file /\ WriteLockFree
    BY <1>2 DEF SerialFile, Whole, file, WriteLockFree, Saving
  <1>3. ASSUME NEW k \in Conns, OpenTemporary(k), store' = store
        PROVE  SerialFile'
    <2>1. io' = [io EXCEPT ![k] = "tmp"] /\ saved' = saved
      BY <1>3 DEF OpenTemporary
    <2>2. \A t \in Conns : t # k => io'[t] = "none"
      BY <2>1 DEF SavesSerial, Saving, TypeOK
    <2> QED
      BY <2>1, <2>2 DEF SerialFile, Whole, TypeOK
  <1>4. ASSUME NEW k \in Conns, Write(k, store), store' = store
        PROVE  SerialFile'
    <2>1. io[k] = "tmp" /\ \A t \in Conns : t # k => io[t] = "none"
      BY <1>4 DEF Write, Opened, SerialFile, SavesSerial, Saving
    <2>2. /\ io' = [io EXCEPT ![k] = "written"]
          /\ temporary' = store /\ saved' = saved
      BY <1>4, <2>1 DEF Write
    <2> QED
      BY <1>4, <2>1, <2>2 DEF SerialFile, Whole, TypeOK
  <1>5. ASSUME NEW k \in Conns, Rename(k), store' = store
        PROVE  SerialFile'
    <2>1. io[k] = "written" /\ \A t \in Conns : t # k => io[t] = "none"
      BY <1>5 DEF Rename, SavesSerial, Saving
    <2>2. saved' = store /\ \A t \in Conns : io'[t] = "none"
      BY <1>5, <2>1 DEF Rename, SerialFile, Renamed
    <2> QED
      BY <2>2 DEF SerialFile, Whole, Damaged
  <1>6. ASSUME NEW k \in Conns, PersistFails(k), store' = store
        PROVE  SerialFile'
    <2>1. CASE UNCHANGED file
      BY <1>1, <1>6, <2>1
    <2>2. CASE WriteFails(k) \/ RenameMissing(k) \/ RenameFails(k)
      <3>1. \A t \in Conns : t # k => io[t] = "none"
        BY <2>2 DEF WriteFails, RenameMissing, RenameFails, Opened,
                    SavesSerial, Saving
      <3>2. saved' = saved /\ io' = [io EXCEPT ![k] = "none"]
        BY <2>2 DEF WriteFails, RenameMissing, RenameFails, StopSaving,
                    SerialFile
      <3> QED
        BY <3>1, <3>2 DEF SerialFile, Whole, TypeOK
    <2> QED
      BY <1>6, <2>1, <2>2 DEF PersistFails, OpenFails
  <1>7. CASE UNCHANGED vars
    BY <1>1, <1>7 DEF vars
  <1>8. ASSUME NEW k \in Conns, Connection(k) PROVE SerialFile'
    <2>1. CASE Sign(k) \/ Revoke(k)
      BY <1>2, <2>1 DEF Sign, Revoke
    <2>2. CASE Persists(k)
      BY <1>3, <1>4, <2>2 DEF Persists
    <2>3. CASE SaveIssued(k) \/ SaveRevoked(k)
      BY <1>5, <2>3 DEF SaveIssued, SaveRevoked, Installs
    <2>4. CASE SaveIssuedFails(k) \/ SaveRevokedFails(k)
      BY <1>6, <2>4 DEF SaveIssuedFails, SaveRevokedFails
    <2>5. CASE Loudly(k) \/ Read(k) \/ RefreshEnds(k)
      BY <1>1, <2>5 DEF Loudly, IssueUnauthorized, IssueDenied, IssueFails,
             AuditIssued, Refuse, Read, RefreshEnds
    <2>6. CASE \/ AnswerPlain(k) \/ CloseSilently(k) \/ AnswerQuery(k)
               \/ RevokeRefused(k)
      BY <1>1, <2>6 DEF AnswerPlain, CloseSilently, AnswerQuery, RevokeRefused
    <2> QED
      BY <1>8, <2>1, <2>2, <2>3, <2>4, <2>5, <2>6 DEF Connection, Loudly
  <1> QED
    BY <1>7, <1>8 DEF Next

\* If no two saves overlap, the file is always whole and has what every caller
\* was told, the failures of saves included.  Nothing in the code keeps saves
\* from overlapping: a single client that waits for its answers does.
THEOREM SerialAnswersOnDisk ==
    Spec /\ []SavesSerial => [](Whole /\ AnswersOnDisk)
  <1>1. Init => SerialFile
    <2> SUFFICES ASSUME Init PROVE SerialFile
      OBVIOUS
    <2>1. TypeOK
      BY InitHolds DEF IInv
    <2> QED
      BY <2>1, MapsAreWhole DEF Init, SerialFile, Whole
  <1>2. /\ IInv /\ SavesSerial /\ SavesSerial' /\ SerialFile /\ [Next]_vars
        => SerialFile'
    BY SerialFileStep
  <1>3. SerialFile /\ AnswersAreDurable => Whole /\ AnswersOnDisk
    BY DEF SerialFile, AnswersAreDurable
  <1> QED
    BY <1>1, <1>2, <1>3, InvariantHolds, AnswersAlwaysDurable, PTL DEF Spec

\* Every decision on an issue request is logged once, with the outcome the
\* caller is told; only a store that could not save leaves no event.
THEOREM IssuanceAlwaysAudited == Spec => []IssuanceAudited
  <1>1. IInv => IssuanceAudited
    BY DEF IInv
  <1> QED
    BY <1>1, InvariantHolds, PTL

\* What the service accepts the core refuses for a DNS name only, when the
\* limits of the service are within those of the core, as its defaults are.
LEMMA ServiceIsStricter ==
    ASSUME NEW b \in IssueRequest, ServiceAccepts(b), ~CoreAccepts(b),
           Policy.name <= MaxNameLength, Policy.dns <= MaxNames,
           Policy.ips <= MaxNames
    PROVE  b.badDns
  <1>1. /\ b.name \in Nat /\ b.dns \in Nat /\ b.ips \in Nat
        /\ Policy.name \in Nat /\ Policy.dns \in Nat /\ Policy.ips \in Nat
    BY ApiAssumption DEF IssueRequest
  <1> QED
    BY <1>1 DEF ServiceAccepts, CoreAccepts, NamesWithin, SanPresent, MaxNames,
                MaxNameLength

LEMMA FailuresStay ==
    ASSUME IInv, FailureIsBadDns, [Next]_vars,
           Policy.name <= MaxNameLength, Policy.dns <= MaxNames,
           Policy.ips <= MaxNames
    PROVE  FailureIsBadDns'
  <1>1. CASE audit' = audit /\ request' = request
    BY <1>1 DEF FailureIsBadDns
  <1>2. ASSUME NEW k \in Conns, Read(k) PROVE FailureIsBadDns'
    <2>1. /\ pc[k] = "accept" /\ audit' = audit
          /\ \A j \in Conns : j # k => request'[j] = request[j]
      BY <1>2 DEF Read, IInv, TypeOK
    <2>2. \A i \in DOMAIN audit : audit[i].by \in Conns /\ audit[i].by # k
      BY <2>1, Named DEF IInv, Placed
    <2> QED
      BY <2>1, <2>2 DEF FailureIsBadDns
  <1>3. ASSUME NEW k \in Conns, Loudly(k) PROVE FailureIsBadDns'
    <2>1. pc[k] \in {"handle", "audit"} /\ Issuing(k) /\ request' = request
      BY <1>3, LoudFacts
    <2>2. PICK e \in Events :
            /\ audit' = Append(audit, e) /\ e.by = k
            /\ e.outcome = "Failure" => /\ ServiceAccepts(request[k].body)
                                        /\ ~CoreAccepts(request[k].body)
      BY <1>3, LoudFacts
    <2>3. request[k].body \in IssueRequest
      BY <2>1, ApiAssumption DEF IInv, Requested, Issuing, Requests
    <2>4. e.outcome = "Failure" => request[k].body.badDns
      BY <2>2, <2>3, ServiceIsStricter
    <2>5. /\ DOMAIN audit' = DOMAIN audit \cup {Len(audit) + 1}
          /\ audit'[Len(audit) + 1] = e
          /\ \A i \in DOMAIN audit : audit'[i] = audit[i]
      BY <2>2, Appended DEF IInv, TypeOK
    <2> QED
      BY <2>1, <2>2, <2>4, <2>5 DEF FailureIsBadDns
  <1>4. CASE UNCHANGED vars
    BY <1>1, <1>4 DEF vars
  <1>5. ASSUME NEW k \in Conns, Quietly(k) PROVE FailureIsBadDns'
    BY <1>1, <1>5, QuietFacts
  <1>6. ASSUME NEW k \in Conns,
               \/ Sign(k) \/ Revoke(k)
               \/ Persists(k) \/ SaveIssued(k) \/ SaveRevoked(k)
        PROVE  FailureIsBadDns'
    BY <1>1, <1>6 DEF Sign, Revoke, Persists, SaveIssued, SaveRevoked
  <1>7. CASE Next
    <2>1. PICK k \in Conns : Connection(k)
      BY <1>7 DEF Next
    <2> QED
      BY <1>2, <1>3, <1>5, <1>6, <2>1 DEF Connection, Quietly, Loudly
  <1> QED
    BY <1>4, <1>7

\* Nothing that was authorised and accepted fails but for a name that is no
\* DNS name, under every policy as strict as the limits of the core.
THEOREM OnlyNamesFail ==
    ASSUME Policy.name <= MaxNameLength, Policy.dns <= MaxNames,
           Policy.ips <= MaxNames
    PROVE  Spec => []FailureIsBadDns
  <1>1. Init => FailureIsBadDns
    BY DEF Init, FailureIsBadDns
  <1>2. IInv /\ FailureIsBadDns /\ [Next]_vars => FailureIsBadDns'
    BY FailuresStay
  <1> QED
    BY <1>1, <1>2, InvariantHolds, PTL DEF Spec
-----------------------------------------------------------------------------
(* The API implements CertificateLedger.                                   *)

\* No connection makes two records.
OneRecord ==
    \A i, j \in DOMAIN store : store[i].by = store[j].by => i = j

\* Only Sign and Revoke touch the map: a new record of a connection that was
\* being handled, or one revoked that was not.
LEMMA MapEffect ==
    ASSUME IInv, NEW k \in Conns, Sign(k) \/ Revoke(k)
    PROVE  /\ client' = client /\ request' = request /\ answer' = answer
           /\ WriteLockFree /\ UNCHANGED <<file, spoilt>>
           /\ DOMAIN store \subseteq DOMAIN store'
           /\ \A i \in DOMAIN store :
                /\ store'[i].by = store[i].by
                /\ store[i].reason # None => store'[i] = store[i]
           /\ \A i \in DOMAIN store' \ DOMAIN store : store'[i].by = k
           /\ \A i, j \in DOMAIN store' \ DOMAIN store : i = j
           /\ pc[k] = "handle"
  <1>1. CASE Sign(k)
    <2> DEFINE r == [by |-> k, reason |-> None, revokedBy |-> None]
    <2>1. PICK id \in Ids \ DOMAIN store : store' = Put(store, id, r)
      BY <1>1 DEF Sign
    <2>2. /\ DOMAIN store' = DOMAIN store \cup {id} /\ store'[id] = r
          /\ \A i \in DOMAIN store : store'[i] = store[i]
      BY <2>1 DEF Put
    <2>3. /\ client' = client /\ request' = request /\ answer' = answer
          /\ WriteLockFree /\ UNCHANGED <<file, spoilt>> /\ pc[k] = "handle"
      BY <1>1 DEF Sign, Issues, Handles, Goto
    <2> QED
      BY <2>2, <2>3
  <1>2. CASE Revoke(k)
    <2> DEFINE id == request[k].id
               r  == RevokedFirst(k, store[id])
    <2>1. /\ client' = client /\ request' = request /\ answer' = answer
          /\ WriteLockFree /\ UNCHANGED <<file, spoilt>>
          /\ pc[k] = "handle" /\ request[k].op = "revoke"
          /\ id \in DOMAIN store /\ request[k].reason # None
          /\ store' = Put(store, id, r)
      BY <1>2 DEF Revoke, Handles, Goto
    <2>2. store[id] \in Records /\ request[k] \in Requests
      BY <2>1, Named DEF IInv, Requested
    <2>3. /\ r.by = store[id].by
          /\ store[id].reason # None => r = store[id]
      BY <2>1, <2>2, RevokedRecord
    <2> HIDE DEF r, id
    <2>4. /\ DOMAIN store' = DOMAIN store /\ store'[id] = r
          /\ \A i \in DOMAIN store : i # id => store'[i] = store[i]
      BY <2>1 DEF Put
    <2> QED
      BY <2>1, <2>3, <2>4
  <1> QED
    BY <1>1, <1>2

\* What the answers stand for.
TellsIssued(k, id)  == id \in DOMAIN store /\ store[id].by = k /\ answer[k] = 201
TellsRevoked(k, id) == /\ answer[k] = 200 /\ Revoking(k) /\ request[k].id = id

Said(p) ==
    \E k \in Conns, id \in Ids :
        \/ TellsIssued(k, id) /\ p = [id |-> id, status |-> "issued"]
        \/ TellsRevoked(k, id) /\ p = [id |-> id, status |-> store[id].reason]

LEMMA ToldIs == ASSUME NEW CONSTANT p PROVE IInv => (p \in Told <=> Said(p))
  <1> SUFFICES ASSUME IInv PROVE p \in Told <=> Said(p)
    OBVIOUS
  <1>1. \A id \in DOMAIN store : id \in Ids /\ store[id].by \in Conns
    BY Named DEF IInv
  <1>2. ASSUME NEW k \in Conns, answer[k] = 200, request[k].op = "revoke"
        PROVE  /\ request[k].id \in Ids
               /\ StatusOf(store)[request[k].id] = store[request[k].id].reason
    <2>1. /\ request[k].id \in DOMAIN store
          /\ store[request[k].id].reason # None
      BY <1>2, DurableAnswers DEF AnswersAreStored, IInv, Behind
    <2> QED
      BY <1>1, <2>1 DEF StatusOf
  <1>3. ASSUME p \in Told PROVE Said(p)
    <2>1. CASE \E id \in DOMAIN store :
                  /\ answer[store[id].by] = 201
                  /\ p = [id |-> id, status |-> "issued"]
      BY <1>1, <2>1 DEF TellsIssued, Said
    <2>2. CASE \E k \in Conns :
                  /\ answer[k] = 200 /\ request[k].op = "revoke"
                  /\ p = [id |-> request[k].id,
                          status |-> StatusOf(store)[request[k].id]]
      BY <1>2, <2>2 DEF TellsRevoked, Revoking, Said
    <2> QED
      BY <1>3, <2>1, <2>2 DEF Told
  <1>4. ASSUME NEW k \in Conns, NEW id \in Ids, TellsIssued(k, id)
        PROVE  [id |-> id, status |-> "issued"] \in Told
    BY <1>4 DEF TellsIssued, Told
  <1>5. ASSUME NEW k \in Conns, NEW id \in Ids, TellsRevoked(k, id)
        PROVE  [id |-> id, status |-> store[id].reason] \in Told
    BY <1>2, <1>5 DEF TellsRevoked, Revoking, Told
  <1> QED
    BY <1>3, <1>4, <1>5 DEF Said

LEMMA ToldWillBe ==
    ASSUME NEW CONSTANT p PROVE (IInv => (p \in Told <=> Said(p)))'
  <1>1. IInv => (p \in Told <=> Said(p))
    BY ToldIs
  <1> QED
    BY <1>1, PTL

\* Nobody is told anything new.
LEMMA ToldStays ==
    ASSUME IInv, IInv',
           \A k \in Conns, id \in Ids :
             /\ TellsIssued(k, id)' <=> TellsIssued(k, id)
             /\ TellsRevoked(k, id)' <=> TellsRevoked(k, id)
             /\ TellsRevoked(k, id) => store'[id].reason = store[id].reason
    PROVE  Told' = Told
  <1>1. ASSUME NEW CONSTANT p PROVE p \in Told' <=> p \in Told
    <2>1. Said(p)' <=> Said(p)
      BY DEF Said
    <2> QED
      BY <2>1, ToldIs, ToldWillBe
  <1> QED
    BY <1>1 DEF Told

\* One connection is told one thing.
LEMMA ToldGrows ==
    ASSUME IInv, IInv', UNCHANGED <<store, request>>,
           NEW CONSTANT pair, NEW CONSTANT k \in Conns, NEW CONSTANT id \in Ids,
           \A j \in Conns : j # k => answer'[j] = answer[j],
           \A i \in Ids : ~TellsIssued(k, i) /\ ~TellsRevoked(k, i),
           \/ /\ pair = [id |-> id, status |-> "issued"]
              /\ TellsIssued(k, id)'
              /\ \A i \in Ids : ~TellsRevoked(k, i)'
              /\ \A i \in Ids : TellsIssued(k, i)' => i = id
           \/ /\ pair = [id |-> id, status |-> store[id].reason]
              /\ TellsRevoked(k, id)'
              /\ \A i \in Ids : ~TellsIssued(k, i)'
    PROVE  Told' = Told \cup {pair}
  <1>1. \A j \in Conns, i \in Ids : j # k =>
          /\ TellsIssued(j, i)' <=> TellsIssued(j, i)
          /\ TellsRevoked(j, i)' <=> TellsRevoked(j, i)
    BY DEF TellsIssued, TellsRevoked, Revoking
  <1>2. \A i \in Ids : TellsRevoked(k, i)' => i = request[k].id
    BY DEF TellsRevoked
  <1>3. ASSUME NEW CONSTANT p PROVE p \in Told' <=> p \in Told \/ p = pair
    <2>1. Said(p)' <=> Said(p) \/ p = pair
      BY <1>1, <1>2 DEF Said
    <2> QED
      BY <2>1, ToldIs, ToldWillBe
  <1> QED
    BY <1>3 DEF Told

LInv == IInv /\ OneRecord

LEMMA OneRecordStep ==
    ASSUME IInv, OneRecord, [Next]_vars PROVE OneRecord'
  <1>1. CASE \E k \in Conns : Sign(k) \/ Revoke(k)
    <2>1. PICK k \in Conns : Sign(k) \/ Revoke(k)
      BY <1>1
    <2>2. \A i \in DOMAIN store : store[i].by # k \/ i \notin DOMAIN store'
                                  \/ pc[k] # "handle"
      BY DEF IInv, Placed
    <2> QED
      BY <2>1, <2>2, MapEffect DEF OneRecord
  <1>2. CASE store' = store
    BY <1>2 DEF OneRecord
  <1>3. (\E k \in Conns : Sign(k) \/ Revoke(k)) \/ store' = store
    BY DEF Next, vars, Connection, Read, AnswerPlain, CloseSilently, AnswerQuery,
           IssueUnauthorized, IssueDenied, IssueFails, Refuse, Persists,
           SaveIssued, SaveIssuedFails, AuditIssued, RevokeRefused, SaveRevoked,
           SaveRevokedFails, RefreshEnds
  <1> QED
    BY <1>1, <1>2, <1>3

LEMMA OneRecordHolds == Spec => []LInv
  <1>1. Init => LInv
    BY InitHolds, MapEmpty DEF Init, LInv, OneRecord
  <1>2. LInv /\ [Next]_vars => LInv'
    BY StepHolds, OneRecordStep DEF LInv
  <1> QED
    BY <1>1, <1>2, PTL DEF Spec

\* The status of a record, in the map and in the file.
LEMMA StatusFacts ==
    ASSUME IInv, NEW id \in Ids
    PROVE  /\ StatusOf(Stored)[id] \in Ledger!Status
           /\ StatusOf(store)[id] \in Ledger!Status
           /\ Ledger!Reaches(StatusOf(Stored)[id], StatusOf(store)[id])
           /\ id \in DOMAIN Stored =>
                Ledger!Reaches("issued", StatusOf(Stored)[id])
           /\ id \in DOMAIN Stored /\ Stored[id].reason # None =>
                StatusOf(Stored)[id] = Stored[id].reason
  <1>1. /\ id \in DOMAIN store => store[id] \in Records
        /\ id \in DOMAIN Stored => Stored[id] \in Records
    BY Named DEF IInv
  <1>2. \A r \in Records : r.reason \in Reasons \cup {Unspecified, None}
    BY DEF Records
  <1>3. /\ StatusOf(Stored)[id] = IF id \notin DOMAIN Stored THEN "absent"
                                 ELSE IF Stored[id].reason = None THEN "issued"
                                 ELSE Stored[id].reason
        /\ StatusOf(store)[id] = IF id \notin DOMAIN store THEN "absent"
                                 ELSE IF store[id].reason = None THEN "issued"
                                 ELSE store[id].reason
    BY DEF StatusOf
  <1> QED
    BY <1>1, <1>2, <1>3 DEF IInv, Behind, Ledger!Status, Ledger!Reaches

LEMMA StatusWillBe ==
    (IInv => \A i \in Ids : StatusOf(store)[i] \in Ledger!Status)'
  <1>1. IInv => \A i \in Ids : StatusOf(store)[i] \in Ledger!Status
    BY StatusFacts
  <1> QED
    BY <1>1, PTL

LEMMA ReachesOn ==
    ASSUME NEW a, NEW b, NEW c \in Ledger!Status,
           Ledger!Reaches(a, b), Ledger!Reaches(b, c)
    PROVE  Ledger!Reaches(a, c)
  BY DEF Ledger!Reaches, Ledger!Status

\* An answer of what is on disk is a Tell.
LEMMA TellStep ==
    ASSUME IInv, NEW CONSTANT id \in Ids, NEW CONSTANT status, Stored' = Stored,
           id \in DOMAIN Stored,
           status = "issued" \/ /\ Stored[id].reason # None
                                /\ status = Stored[id].reason,
           Told' = Told \cup {[id |-> id, status |-> status]}
    PROVE  Ledger!Next
  <1>1. Ledger!Reaches(status, StatusOf(Stored)[id])
    BY StatusFacts DEF Ledger!Reaches
  <1>2. status \in {"issued"} \cup (Reasons \cup {Unspecified})
    <2>1. Stored[id] \in Records
      BY Named DEF IInv
    <2> QED
      BY <2>1 DEF Records
  <1>3. StatusOf(Stored)' = StatusOf(Stored)
    BY DEF StatusOf
  <1>4. Ledger!Tell(id, status)
    BY <1>1, <1>3 DEF Ledger!Tell
  <1> QED
    BY <1>2, <1>4 DEF Ledger!Next

LEMMA QuietTells ==
    ASSUME IInv, IInv', NEW CONSTANT k \in Conns, Quietly(k)
    PROVE  [Ledger!Next]_(Ledger!ledgerVars)
  <1>1. /\ pc[k] \in {"handle", "save", "saveRevoked", "refresh"}
        /\ request' = request /\ store' = store /\ Stored' = Stored
    BY QuietFacts
  <1>2. PICK step \in {"done", "closed"}, code \in Codes \cup {None} :
          /\ Moves(k, step, code) /\ code # 201
          /\ code = 200 /\ Revoking(k) => RevokedIn(Stored, k)
    BY QuietFacts
  <1>3. /\ answer[k] = None /\ answer'[k] = code
        /\ \A j \in Conns : j # k => answer'[j] = answer[j]
    BY <1>1, <1>2 DEF Moves, IInv, TypeOK
  <1>4. \A i \in Ids : ~TellsIssued(k, i) /\ ~TellsRevoked(k, i)
    BY <1>3, ApiAssumption DEF TellsIssued, TellsRevoked, Codes
  <1>5. CASE code = 200 /\ Revoking(k)
    <2>1. /\ request[k].id \in DOMAIN Stored
          /\ Stored[request[k].id].reason # None
      BY <1>2, <1>5 DEF RevokedIn
    <2>2. PICK id \in Ids : id = request[k].id
      BY <2>1, Named DEF IInv
    <2>3. PICK status : status = Stored[id].reason
      OBVIOUS
    <2>4. store[id].reason = status /\ status # None
      BY <2>1, <2>2, <2>3 DEF IInv, Behind
    <2>5. /\ TellsRevoked(k, id)'
          /\ \A i \in Ids : ~TellsIssued(k, i)'
      BY <1>1, <1>3, <1>5, <2>2 DEF TellsRevoked, TellsIssued, Revoking
    <2>6. PICK pair : pair = [id |-> id, status |-> status]
      OBVIOUS
    <2>7. Told' = Told \cup {pair}
      BY <1>1, <1>3, <1>4, <2>4, <2>5, <2>6, ToldGrows
    <2> QED
      BY <1>1, <2>1, <2>2, <2>3, <2>4, <2>6, <2>7, TellStep
  <1>6. CASE ~(code = 200 /\ Revoking(k))
    <2>1. \A i \in Ids : ~TellsIssued(k, i)' /\ ~TellsRevoked(k, i)'
      BY <1>1, <1>2, <1>3, <1>6 DEF TellsIssued, TellsRevoked, Revoking
    <2>2. \A j \in Conns, i \in Ids : j # k =>
            /\ TellsIssued(j, i)' <=> TellsIssued(j, i)
            /\ TellsRevoked(j, i)' <=> TellsRevoked(j, i)
      BY <1>1, <1>3 DEF TellsIssued, TellsRevoked, Revoking
    <2>3. Told' = Told
      BY <1>1, <1>4, <2>1, <2>2, ToldStays
    <2> QED
      BY <1>1, <2>3 DEF Ledger!ledgerVars, StatusOf
  <1> QED
    BY <1>5, <1>6

LEMMA LoudTells ==
    ASSUME IInv, IInv', OneRecord, NEW CONSTANT k \in Conns, Loudly(k)
    PROVE  [Ledger!Next]_(Ledger!ledgerVars)
  <1>1. /\ pc[k] \in {"handle", "audit"} /\ Issuing(k)
        /\ request' = request /\ store' = store /\ Stored' = Stored
    BY LoudFacts
  <1>2. PICK code \in Codes :
          /\ Moves(k, "done", code)
          /\ code # 200 /\ code = 201 => RecordedIn(Stored, k)
    BY LoudFacts
  <1>3. /\ answer[k] = None /\ answer'[k] = code
        /\ \A j \in Conns : j # k => answer'[j] = answer[j]
    BY <1>1, <1>2 DEF Moves, IInv, TypeOK
  <1>4. \A i \in Ids : ~TellsIssued(k, i) /\ ~TellsRevoked(k, i)
    BY <1>3, ApiAssumption DEF TellsIssued, TellsRevoked, Codes
  <1>5. \A i \in Ids : ~TellsRevoked(k, i)'
    BY <1>1, <1>3, <1>2 DEF TellsRevoked, Issuing, Revoking
  <1>6. CASE code = 201
    <2>1. PICK id \in DOMAIN Stored : Stored[id].by = k
      BY <1>2, <1>6 DEF RecordedIn
    <2>2. id \in Ids /\ id \in DOMAIN store /\ store[id].by = k
      BY <2>1, Named DEF IInv, Behind
    <2>3. /\ TellsIssued(k, id)'
          /\ \A i \in Ids : TellsIssued(k, i)' => i = id
      BY <1>1, <1>3, <1>6, <2>2 DEF TellsIssued, OneRecord
    <2>4. PICK pair : pair = [id |-> id, status |-> "issued"]
      OBVIOUS
    <2>5. Told' = Told \cup {pair}
      BY <1>1, <1>3, <1>4, <1>5, <2>2, <2>3, <2>4, ToldGrows
    <2> QED
      BY <1>1, <2>1, <2>2, <2>4, <2>5, TellStep
  <1>7. CASE code # 201
    <2>1. \A i \in Ids : ~TellsIssued(k, i)'
      BY <1>3, <1>7 DEF TellsIssued
    <2>2. \A j \in Conns, i \in Ids : j # k =>
            /\ TellsIssued(j, i)' <=> TellsIssued(j, i)
            /\ TellsRevoked(j, i)' <=> TellsRevoked(j, i)
      BY <1>1, <1>3 DEF TellsIssued, TellsRevoked, Revoking
    <2>3. Told' = Told
      BY <1>1, <1>4, <1>5, <2>1, <2>2, ToldStays
    <2> QED
      BY <1>1, <2>3 DEF Ledger!ledgerVars, StatusOf
  <1> QED
    BY <1>6, <1>7

\* A save takes the ledger to the statuses in memory, as they are or as they
\* are becoming, and tells nobody anything.
LEMMA SaveStatuses ==
    ASSUME IInv, IInv', Told' = Told, Stored' = store \/ Stored' = store',
           \A i \in Ids : Ledger!Reaches(StatusOf(store)[i], StatusOf(store')[i])
    PROVE  Ledger!Next
  <1>1. \A i \in Ids : /\ StatusOf(Stored)[i] \in Ledger!Status
                      /\ StatusOf(store)[i] \in Ledger!Status
                      /\ Ledger!Reaches(StatusOf(Stored)[i], StatusOf(store)[i])
    BY StatusFacts
  <1>2. (\A i \in Ids : StatusOf(store)[i] \in Ledger!Status)'
    BY StatusWillBe
  <1>3. StatusOf(Stored)' \in {StatusOf(store), StatusOf(store')}
    BY DEF StatusOf
  <1>4. StatusOf(Stored)' \in [Ids -> Ledger!Status]
    BY <1>1, <1>2, <1>3 DEF StatusOf
  <1>5. \A i \in Ids :
          Ledger!Reaches(StatusOf(Stored)[i], StatusOf(Stored)'[i])
    BY <1>1, <1>2, <1>3, ReachesOn
  <1>6. Ledger!Save
    BY <1>4, <1>5 DEF Ledger!Save
  <1> QED
    BY <1>6 DEF Ledger!Next

\* Nobody is answered: nothing changes for the clients.
LEMMA SilentTells ==
    ASSUME IInv, IInv', NEW CONSTANT k \in Conns,
           Read(k) \/ Sign(k) \/ Revoke(k)
    PROVE  [Ledger!Next]_(Ledger!ledgerVars)
  <1>1. /\ answer' = answer /\ answer[k] = None
        /\ \A j \in Conns : j # k => request'[j] = request[j]
    BY DEF Read, Sign, Revoke, Issues, Handles, Goto, IInv, TypeOK
  <1>2. /\ \A i \in DOMAIN store :
             /\ i \in DOMAIN store' /\ store'[i].by = store[i].by
             /\ store[i].reason # None => store'[i] = store[i]
        /\ \A i \in DOMAIN store' \ DOMAIN store : store'[i].by = k
    <2>1. CASE Read(k)
      BY <2>1 DEF Read
    <2>2. CASE Sign(k) \/ Revoke(k)
      BY <2>2, MapEffect
    <2> QED
      BY <2>1, <2>2
  <1>3. \A i \in Ids : /\ ~TellsIssued(k, i) /\ ~TellsRevoked(k, i)
                       /\ ~TellsIssued(k, i)' /\ ~TellsRevoked(k, i)'
    BY <1>1, ApiAssumption DEF TellsIssued, TellsRevoked, Codes
  <1>4. ASSUME NEW j \in Conns, NEW i \in Ids, j # k
        PROVE  /\ TellsIssued(j, i)' <=> TellsIssued(j, i)
               /\ TellsRevoked(j, i)' <=> TellsRevoked(j, i)
    BY <1>1, <1>2, <1>4 DEF TellsIssued, TellsRevoked, Revoking
  <1>5. ASSUME NEW j \in Conns, NEW i \in Ids, TellsRevoked(j, i)
        PROVE  store'[i].reason = store[i].reason
    <2>1. i \in DOMAIN store /\ store[i].reason # None
      BY <1>5, DurableAnswers
         DEF TellsRevoked, Revoking, AnswersAreStored, IInv, Behind
    <2> QED
      BY <1>2, <2>1
  <1>6. Told' = Told
    BY <1>3, <1>4, <1>5, ToldStays
  <1>7. Stored' = Stored \/ (Stored = store /\ Stored' = store')
    BY MapEffect, FileStays, FileWaits DEF Read, IInv
  <1>8. CASE Stored' = Stored
    BY <1>6, <1>8 DEF Ledger!ledgerVars, StatusOf
  <1>9. CASE Stored = store /\ Stored' = store'
    <2>1. ASSUME NEW i \in Ids
          PROVE  Ledger!Reaches(StatusOf(store)[i], StatusOf(store')[i])
      <3>1. i \in DOMAIN store' => store'[i].reason \in Reasons \cup {Unspecified, None}
        <4>1. i \in DOMAIN store' => store'[i] \in Records
          BY MapValue DEF IInv, TypeOK
        <4> QED
          BY <4>1 DEF Records
      <3> QED
        BY <1>2, <3>1 DEF StatusOf, Ledger!Reaches
    <2> QED
      BY <1>6, <1>9, <2>1, SaveStatuses
  <1> QED
    BY <1>7, <1>8, <1>9

\* A save may write the map into the file before it ends.
LEMMA SaveTells ==
    ASSUME IInv, IInv', NEW CONSTANT k \in Conns,
           Persists(k) \/ SaveIssued(k) \/ SaveRevoked(k)
    PROVE  [Ledger!Next]_(Ledger!ledgerVars)
  <1>1. /\ store' = store /\ request' = request /\ answer' = answer
        /\ Stored' \in {Stored, store}
    BY FilePersists, FileInstalls
       DEF Persists, SaveIssued, SaveRevoked, Goto, IInv
  <1>2. Told' = Told
    <2>1. \A j \in Conns, i \in Ids :
            /\ TellsIssued(j, i)' <=> TellsIssued(j, i)
            /\ TellsRevoked(j, i)' <=> TellsRevoked(j, i)
      BY <1>1 DEF TellsIssued, TellsRevoked, Revoking
    <2> QED
      BY <1>1, <2>1, ToldStays
  <1>3. CASE Stored' = Stored
    BY <1>2, <1>3 DEF Ledger!ledgerVars, StatusOf
  <1>4. CASE Stored' = store
    BY <1>1, <1>2, <1>4, SaveStatuses DEF Ledger!Reaches
  <1> QED
    BY <1>1, <1>3, <1>4

LEMMA LedgerInit == Init => Ledger!Init
  <1> SUFFICES ASSUME Init PROVE Ledger!Init
    OBVIOUS
  <1>1. DOMAIN store = {} /\ DOMAIN Stored = {}
    <2>1. TypeOK /\ saved = store
      BY InitHolds DEF Init, IInv
    <2>2. Stored = store
      BY <2>1, MapsAreWhole DEF Stored, Whole
    <2> QED
      BY <2>2, MapEmpty DEF Init
  <1>2. StatusOf(Stored) \in [Ids -> {"absent", "issued"}]
    BY <1>1 DEF StatusOf
  <1>3. \A k \in Conns : answer[k] = None
    BY DEF Init
  <1>4. Told = {}
    BY <1>1, <1>3, ApiAssumption DEF Told, Codes
  <1> QED
    BY <1>2, <1>4 DEF Ledger!Init

LEMMA LedgerStep ==
    ASSUME LInv, LInv', [Next]_vars PROVE [Ledger!Next]_(Ledger!ledgerVars)
  <1>1. CASE UNCHANGED vars
    BY <1>1, FileStays DEF vars, Ledger!ledgerVars, StatusOf, Told, LInv, IInv
  <1>2. ASSUME NEW CONSTANT k \in Conns, Connection(k)
        PROVE  [Ledger!Next]_(Ledger!ledgerVars)
    <2>1. \/ Quietly(k) \/ Loudly(k)
          \/ Read(k) \/ Sign(k) \/ Revoke(k)
          \/ Persists(k) \/ SaveIssued(k) \/ SaveRevoked(k)
      BY <1>2 DEF Connection, Quietly, Loudly
    <2> QED
      BY <2>1, QuietTells, LoudTells, SilentTells, SaveTells DEF LInv
  <1> QED
    BY <1>1, <1>2 DEF Next

\* The API with all its connections is the ledger its clients rely on: no
\* whole file takes back what an earlier one had, and every one has what was
\* told by then, however saves overlap.
THEOREM ApiImplementsLedger == Spec => ImplementsLedger
  <1>1. LInv /\ LInv' /\ [Next]_vars => [Ledger!Next]_(Ledger!ledgerVars)
    BY LedgerStep
  <1> QED
    BY <1>1, LedgerInit, OneRecordHolds, PTL
       DEF Spec, ImplementsLedger, Ledger!Spec
=============================================================================
