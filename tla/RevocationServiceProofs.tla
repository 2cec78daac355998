----------------------- MODULE RevocationServiceProofs -----------------------
(***************************************************************************)
(* Proofs about RevocationService, for any number of connections, any      *)
(* certificates, crashes and faults.                                       *)
(*                                                                         *)
(* What concurrent revocations leave intact is proved first, from no       *)
(* hypothesis: the types.  The rest fails with two revokers (saves that    *)
(* overlap leave a blank file, as store_lost_file shows, and refreshes     *)
(* that overlap a stale acceptor, as revocation_stale does) and is proved  *)
(* twice over: for executions in which the saves, the refreshes, or the    *)
(* whole calls, do not overlap, which is what a lock would give, and so    *)
(* for a service with one revoker.                                         *)
(***************************************************************************)
EXTENDS RevocationService, TLAPS

-----------------------------------------------------------------------------
(* What holds whoever runs at the same time.                               *)

\* Threads at work on a revocation or on the start-up.
Working(t) == pc[t] \notin {"idle"} \cup Connected

\* Only a revoker is at work once the server is up.
Alone == \A t \in Threads : Working(t) => t \in Revokers \cup {Boot}

\* Nothing of the listener outlives the process.
Cleared == phase # "up" => acceptor = NoCrl /\ late = {}

\* Only a save has files open, and what it has written is the map, which
\* nobody changes meanwhile: whatever is on disk the process knows.
FileOK ==
    /\ \A w \in Workers : Saving(w) => pc[w] = "save"
    /\ temporary = Missing \/ \E w \in Workers : Saving(w)
    /\ temporary \in {Missing, revoked} \cup Damaged
    /\ phase # "down" => Disk \subseteq revoked

\* A worker has a target from the moment it revokes, and not before.
Aimed ==
    \A w \in Workers :
        IF Working(w) THEN target[w] \in revoked
                      ELSE target[w] = Unrecorded

BaseInv == TypeOK /\ Alone /\ Cleared /\ FileOK /\ Aimed

\* What is neither damaged nor missing.
LEMMA MapsAreWhole ==
    ASSUME NEW map \in SUBSET Certs
    PROVE  map \notin Damaged /\ map # Missing /\ Missing \notin Damaged
  BY ServiceAssumption DEF Damaged

LEMMA DiskType == TypeOK => Disk \subseteq Certs
  BY DEF TypeOK, Disk, Whole

\* A step that leaves the file and the map as they are.
LEMMA FileStays ==
    ASSUME FileOK, UNCHANGED <<file, revoked>>,
           phase' # "down" => phase # "down",
           \A w \in Workers : Saving(w) => pc'[w] = "save"
    PROVE  FileOK' /\ Disk' = Disk
  BY DEF FileOK, file, Saving, Disk, Whole

LEMMA InitBase == ASSUME Init PROVE BaseInv
  <1>1. TypeOK
    BY ServiceAssumption
       DEF Init, TypeOK, NoCrl, Crl, AllIdle, NoPeers, NoConfigs, NoTargets,
           NoNumbers, NoCrls, Threads, Clients, Steps, Places
  <1>2. Alone /\ Cleared /\ FileOK /\ Aimed
    BY ServiceAssumption
       DEF Init, AllIdle, NoTargets, Threads, Alone, Working, Cleared, FileOK,
           Saving, Aimed
  <1> QED
    BY <1>1, <1>2 DEF BaseInv

\* A thread that ends leaves nothing behind.
LEMMA CloseTypes ==
    ASSUME TypeOK, Alone, NEW t \in Threads, Close(t)
    PROVE  /\ pc' \in [Threads -> Steps] /\ Alone'
           /\ peer' \in [Workers -> Clients] /\ config' \in [Workers -> Crl]
           /\ target' \in [Threads -> Clients]
           /\ number' \in [Threads -> 0..MaxNumber] /\ crl' \in [Threads -> Crl]
           /\ late' \subseteq Workers
  <1>1. 0 \in 0..MaxNumber /\ NoCrl \in Crl /\ Unrecorded \in Clients
    BY ServiceAssumption DEF NoCrl, Crl, Clients
  <1>2. /\ target' \in [Threads -> Clients]
        /\ number' \in [Threads -> 0..MaxNumber] /\ crl' \in [Threads -> Crl]
        /\ late' \subseteq Workers
    BY <1>1 DEF TypeOK, Close
  <1>3. peer' \in [Workers -> Clients] /\ config' \in [Workers -> Crl]
    BY <1>1 DEF TypeOK, Close
  <1>4. pc' \in [Threads -> Steps] /\ Alone'
    BY DEF TypeOK, Close, Goto, Steps, Alone, Working
  <1> QED
    BY <1>2, <1>3, <1>4

\* A connection that does not revoke: nothing of the revocations under way
\* changes.
Connects(w) ==
    (\E c \in Clients : TakeAcceptor(w, c)) \/ Handshake(w) \/ Leave(w)

LEMMA ConnectsFacts ==
    ASSUME BaseInv, NEW w \in Workers, Connects(w)
    PROVE  /\ UNCHANGED <<phase, store, file, numberFile, crlFile, acceptor,
                          crashes, published, answered, failed>>
           /\ \A t \in Threads : Working(t)' <=> Working(t)
           /\ \A t \in Threads : Working(t) =>
                /\ pc'[t] = pc[t] /\ target'[t] = target[t]
                /\ number'[t] = number[t] /\ crl'[t] = crl[t]
           /\ \A v \in Workers : ~Working(v) => target'[v] = Unrecorded
  <1>1. /\ w \in Threads /\ pc \in [Threads -> Steps]
        /\ target \in [Threads -> Clients]
        /\ number \in [Threads -> 0..MaxNumber] /\ crl \in [Threads -> Crl]
    BY DEF BaseInv, TypeOK, Threads
  <1>2. \A v \in Workers :
          v \in Threads /\ (~Working(v) => target[v] = Unrecorded)
    BY DEF BaseInv, Aimed, Threads
  <1>3. CASE \E c \in Clients : TakeAcceptor(w, c)
    BY <1>1, <1>2, <1>3
       DEF TakeAcceptor, Goto, history, Working, Connected
  <1>4. CASE Handshake(w)
    BY <1>1, <1>2, <1>4 DEF Handshake, Goto, history, Working, Connected
  <1>5. CASE Leave(w)
    BY <1>1, <1>2, <1>5 DEF Leave, Close, Goto, Working, Connected
  <1> QED
    BY <1>3, <1>4, <1>5 DEF Connects

LEMMA ConnectsBase ==
    ASSUME BaseInv, NEW w \in Workers, Connects(w) PROVE BaseInv'
  <1>1. TypeOK'
    <2>1. CASE \E c \in Clients : TakeAcceptor(w, c)
      BY <2>1, ServiceAssumption
         DEF BaseInv, TakeAcceptor, Goto, TypeOK, Connected, Steps, Threads,
             store, file
    <2>2. CASE Handshake(w)
      BY <2>2, ServiceAssumption
         DEF BaseInv, Handshake, Goto, history, TypeOK, Connected, Steps,
             Threads, store, file
    <2>3. CASE Leave(w)
      <3>1. w \in Threads
        BY DEF Threads
      <3>2. \A u \in Threads : pc'[u] # "idle" => pc[u] # "idle"
        BY <2>3 DEF BaseInv, TypeOK, Leave, Close, Goto
      <3> QED
        BY <2>3, <3>1, <3>2, CloseTypes
           DEF BaseInv, TypeOK, Leave, store, file
    <2> QED
      BY <2>1, <2>2, <2>3 DEF Connects
  <1>2. Cleared'
    BY DEF BaseInv, TypeOK, Cleared, Connects, TakeAcceptor, Handshake, Leave,
           Close, history
  <1>3. Alone' /\ Aimed'
    BY ConnectsFacts DEF BaseInv, Alone, Aimed, Threads, store
  <1>4. FileOK'
    <2>1. \A v \in Workers : Saving(v) => pc'[v] = "save"
      BY ConnectsFacts DEF BaseInv, FileOK, Working, Connected, Threads
    <2> QED
      BY <2>1, ConnectsFacts, FileStays DEF BaseInv, store
  <1> QED
    BY <1>1, <1>2, <1>3, <1>4 DEF BaseInv

LEMMA RevokeBase ==
    ASSUME BaseInv, NEW w \in Workers, NEW c \in Certs, Revoke(w, c)
    PROVE  BaseInv'
  <1>1. TypeOK' /\ Alone'
    BY ServiceAssumption
       DEF BaseInv, Revoke, Goto, history, file, TypeOK, Alone, Working,
           Connected, Refreshing, Steps, Threads, Clients, Crl
  <1>2. Cleared'
    BY DEF BaseInv, Revoke, history, Cleared
  <1>3. FileOK'
    <2>1. temporary = Missing /\ \A v \in Workers : ~Saving(v)
      BY DEF BaseInv, TypeOK, FileOK, Revoke, WriteLockFree
    <2> QED
      BY <2>1 DEF BaseInv, FileOK, Revoke, file, Saving, Disk, Whole
  <1>4. Aimed'
    BY DEF BaseInv, Revoke, Goto, TypeOK, Aimed, Working, Connected, Threads
  <1> QED
    BY <1>1, <1>2, <1>3, <1>4 DEF BaseInv

\* What a step of a save may do to the file, whoever saves at the same time.
LEMMA PersistFile ==
    ASSUME BaseInv, NEW w \in Workers, Persist(w)
    PROVE  /\ \E place \in Places \ {"none"} : io' = [io EXCEPT ![w] = place]
           /\ temporary' \in Damaged \cup {revoked, temporary}
           /\ saved' \in {saved, revoked}
           /\ UNCHANGED <<phase, store, numberFile, crlFile, process, crashes,
                          history>>
  <1>1. CASE OpenTemporary(w)
    BY <1>1 DEF Persist, OpenTemporary, Places, Opened, Damaged
  <1>2. CASE Write(w, revoked)
    BY <1>2 DEF Persist, Write, Places, Opened
  <1> QED
    BY <1>1, <1>2 DEF Persist

LEMMA PersistBase ==
    ASSUME BaseInv, NEW w \in Workers, Persist(w) PROVE BaseInv'
  <1>1. PICK place \in Places \ {"none"} : io' = [io EXCEPT ![w] = place]
    BY PersistFile
  <1>2. /\ temporary' \in Damaged \cup {revoked, temporary}
        /\ saved' \in {saved, revoked}
        /\ UNCHANGED <<phase, store, numberFile, crlFile, process, crashes,
                       history>>
    BY PersistFile
  <1>3. TypeOK'
    <2>1. /\ io' \in [Workers -> Places]
          /\ saved' \in Damaged \cup SUBSET Certs
          /\ temporary' \in {Missing} \cup Damaged \cup SUBSET Certs
      BY <1>1, <1>2 DEF BaseInv, TypeOK
    <2> QED
      BY <1>2, <2>1 DEF BaseInv, TypeOK, store, process, history
  <1>4. Alone' /\ Cleared' /\ Aimed'
    BY <1>2 DEF BaseInv, Alone, Cleared, Aimed, Working, store, process, history
  <1>5. FileOK'
    <2>1. /\ pc[w] = "save" /\ Saving(w)'
          /\ \A v \in Workers : v # w => io'[v] = io[v]
      BY <1>1 DEF BaseInv, TypeOK, Persist, Saving
    <2>2. phase' # "down" => Disk' \subseteq revoked'
      BY <1>2 DEF BaseInv, FileOK, Disk, Whole, store
    <2> QED
      BY <1>2, <2>1, <2>2 DEF BaseInv, FileOK, Saving, store, process
  <1> QED
    BY <1>3, <1>4, <1>5 DEF BaseInv

LEMMA SaveBase == ASSUME BaseInv, NEW w \in Workers, Save(w) PROVE BaseInv'
  <1>1. /\ temporary # Missing /\ saved' = temporary /\ temporary' = Missing
        /\ io' = [v \in Workers |-> IF v = w THEN "none" ELSE Renamed(io[v])]
        /\ pc[w] = "save" /\ pc' = [pc EXCEPT ![w] = "number"]
        /\ UNCHANGED <<phase, store, numberFile, crlFile, acceptor, peer,
                       config, target, number, crl, crashes, history>>
    BY DEF BaseInv, TypeOK, Save, Rename, Goto
  <1>2. /\ \A v \in Workers : io[v] \in Places
        /\ \A v \in Workers : Renamed(io[v]) \in Places
        /\ \A v \in Workers : io[v] = "none" => Renamed(io[v]) = "none"
    BY DEF BaseInv, TypeOK, Renamed, Places, Opened
  <1>3. saved' \in Damaged \cup {revoked}
    BY <1>1 DEF BaseInv, FileOK
  <1>4. TypeOK' /\ Alone'
    <2>1. /\ io' \in [Workers -> Places]
          /\ saved' \in Damaged \cup SUBSET Certs
          /\ temporary' \in {Missing} \cup Damaged \cup SUBSET Certs
      <3>1. io' \in [Workers -> Places]
        BY <1>1, <1>2 DEF Places
      <3> QED
        BY <1>1, <1>3, <3>1 DEF BaseInv, TypeOK
    <2>2. w \in Threads /\ pc' \in [Threads -> Steps]
      BY <1>1 DEF BaseInv, TypeOK, Steps, Refreshing, Threads
    <2>3. Alone' /\ \A t \in Threads : pc'[t] # "idle" => pc[t] # "idle"
      BY <1>1, <2>2 DEF BaseInv, TypeOK, Alone, Working, Connected
    <2> QED
      BY <1>1, <2>1, <2>2, <2>3 DEF BaseInv, TypeOK, store, history
  <1>5. Cleared'
    BY <1>1 DEF BaseInv, Cleared, history
  <1>6. FileOK'
    <2>1. \A v \in Workers : Saving(v)' => Saving(v) /\ v # w
      BY <1>1, <1>2 DEF Saving
    <2>2. \A v \in Workers : v # w => pc'[v] = pc[v]
      BY <1>1 DEF BaseInv, TypeOK, Threads
    <2>3. Disk' \subseteq revoked'
      BY <1>1, <1>3 DEF Disk, Whole, store
    <2> QED
      BY <1>1, <2>1, <2>2, <2>3 DEF BaseInv, FileOK
  <1>7. Aimed'
    <2>1. \A v \in Workers : Working(v)' <=> Working(v)
      BY <1>1 DEF BaseInv, TypeOK, Working, Connected, Threads
    <2> QED
      BY <1>1, <2>1 DEF BaseInv, Aimed, store
  <1> QED
    BY <1>4, <1>5, <1>6, <1>7 DEF BaseInv

\* From one step of a refresh to the next.
Refreshes(t) ==
    \/ ReadNumber(t) \/ TruncateNumber(t) \/ WriteNumber(t)
    \/ ListAndSign(t)
    \/ TruncateCrl(t) \/ WriteCrl(t)

LEMMA RefreshesFacts ==
    ASSUME NEW t \in Threads, Refreshes(t)
    PROVE  /\ pc[t] \in Refreshing
           /\ \E step \in Refreshing : pc' = [pc EXCEPT ![t] = step]
           /\ UNCHANGED <<phase, store, file, acceptor, peer, config,
                          target, crashes, answered, failed, late>>
  BY DEF Refreshes, ReadNumber, TruncateNumber, WriteNumber, ListAndSign,
         TruncateCrl, WriteCrl, Goto, Refreshing, history

LEMMA RefreshesBase ==
    ASSUME BaseInv, NEW t \in Threads, Refreshes(t) PROVE BaseInv'
  <1>1. PICK step \in Refreshing : pc' = [pc EXCEPT ![t] = step]
    BY RefreshesFacts
  <1>2. /\ numberFile' \in 0..MaxNumber \cup {Blank}
        /\ crlFile' \in Crl \cup {Blank, Torn}
        /\ number' \in [Threads -> 0..MaxNumber] /\ crl' \in [Threads -> Crl]
        /\ published' \in Crl
    <2>1. CASE ReadNumber(t)
      BY <2>1, ServiceAssumption
         DEF ReadNumber, history, Exhausted, NextNumber, BaseInv, TypeOK
    <2>2. CASE TruncateNumber(t) \/ WriteNumber(t)
      BY <2>2 DEF TruncateNumber, WriteNumber, history, BaseInv, TypeOK
    <2>3. CASE ListAndSign(t)
      BY <2>3 DEF ListAndSign, Listed, BaseInv, TypeOK, Crl
    <2>4. CASE TruncateCrl(t) \/ WriteCrl(t)
      BY <2>4
         DEF TruncateCrl, WriteCrl, Overwrite, history, BaseInv, TypeOK
    <2> QED
      BY <2>1, <2>2, <2>3, <2>4 DEF Refreshes
  <1>3. TypeOK'
    BY <1>1, <1>2, RefreshesFacts
       DEF BaseInv, TypeOK, Steps, Refreshing, store, file
  <1>4. \A u \in Threads :
          /\ Working(u)' <=> Working(u)
          /\ pc'[u] = "save" <=> pc[u] = "save"
    BY <1>1, RefreshesFacts
       DEF BaseInv, TypeOK, Working, Connected, Refreshing
  <1>5. Alone' /\ Cleared' /\ Aimed'
    BY <1>4, RefreshesFacts
       DEF BaseInv, Alone, Cleared, Aimed, Threads, store
  <1>6. FileOK'
    <2>1. \A w \in Workers : Saving(w) => pc'[w] = "save"
      BY <1>4 DEF BaseInv, FileOK, Threads
    <2> QED
      BY <2>1, RefreshesFacts, FileStays DEF BaseInv, store
  <1> QED
    BY <1>3, <1>5, <1>6 DEF BaseInv

\* Whatever fails, the acceptor stays and the revocation is remembered as
\* failed; a start-up that fails takes the process with it.
SaveStops(w) ==
    /\ w \in Workers /\ pc[w] = "save"
    /\ RenameMissing(w) \/ RenameFails(w) \/ WriteFails(w)
Fails(t) ==
    /\ Working(t) /\ Fail(t)
    /\ \/ UNCHANGED file /\ (pc[t] # "save" \/ ~Saving(t))
       \/ SaveStops(t)
    /\ UNCHANGED <<numberFile, crlFile, crashes, published, answered>>

LEMMA SaveStopsFile ==
    ASSUME BaseInv, NEW w \in Workers, SaveStops(w)
    PROVE  /\ io' = [io EXCEPT ![w] = "none"]
           /\ temporary' \in {Missing, revoked} \cup Damaged
           /\ temporary' # Missing => \E v \in Workers \ {w} : Saving(v)
           /\ saved' = saved \/ (saved = Blank /\ saved' = Torn)
           /\ saved' # saved => io[w] = "json"
           /\ Disk' = Disk
  <1>1. /\ io' = [io EXCEPT ![w] = "none"]
        /\ temporary' \in {Missing, temporary, Torn}
        /\ temporary' # Missing => \E v \in Workers \ {w} : Saving(v)
        /\ saved' = saved \/ (saved = Blank /\ saved' = Torn)
        /\ saved' # saved => io[w] = "json"
    <2>1. DOMAIN io = Workers
      BY DEF BaseInv, TypeOK
    <2> QED
      BY <2>1 DEF SaveStops, RenameMissing, RenameFails, WriteFails, StopSaving,
                  Prefixes
  <1>2. Disk' = Disk
    BY <1>1 DEF Disk, Whole, Damaged
  <1> QED
    BY <1>1, <1>2 DEF BaseInv, FileOK, Damaged

LEMMA FailsFile ==
    ASSUME BaseInv, NEW t \in Threads, Fails(t), t = Boot => phase' = "down",
           t \in Workers => UNCHANGED <<phase, revoked>>,
           \A w \in Workers : w # t => pc'[w] = pc[w]
    PROVE  /\ FileOK'
           /\ io' \in [Workers -> Places]
           /\ saved' \in Damaged \cup SUBSET Certs
           /\ temporary' \in {Missing} \cup Damaged \cup SUBSET Certs
  <1>1. CASE SaveStops(t)
    <2>1. t \in Workers /\ io' = [io EXCEPT ![t] = "none"]
      BY <1>1, SaveStopsFile DEF SaveStops
    <2>2. /\ temporary' \in {Missing, revoked} \cup Damaged
          /\ temporary' # Missing => \E v \in Workers \ {t} : Saving(v)
          /\ saved' = saved \/ (saved = Blank /\ saved' = Torn)
          /\ Disk' = Disk
      BY <1>1, <2>1, SaveStopsFile
    <2>3. \A v \in Workers : Saving(v)' <=> Saving(v) /\ v # t
      BY <2>1 DEF BaseInv, TypeOK, Saving
    <2>4. FileOK'
      BY <2>1, <2>2, <2>3 DEF BaseInv, FileOK
    <2>5. io' \in [Workers -> Places]
      BY <2>1 DEF BaseInv, TypeOK, Places
    <2> QED
      BY <2>2, <2>4, <2>5 DEF BaseInv, TypeOK, Damaged
  <1>2. CASE UNCHANGED file /\ (pc[t] # "save" \/ ~Saving(t))
    <2>1. \A w \in Workers : Saving(w) => pc'[w] = "save"
      BY <1>2 DEF BaseInv, FileOK
    <2>2. CASE t \in Workers
      BY <1>2, <2>1, <2>2, FileStays DEF BaseInv, TypeOK, file
    <2>3. CASE t = Boot
      <3>1. \A w \in Workers : ~Saving(w)
        BY <2>3, ServiceAssumption
           DEF BaseInv, TypeOK, FileOK, Fails, Working, Threads
      <3>2. FileOK'
        BY <1>2, <2>3, <3>1 DEF BaseInv, FileOK, file, Saving
      <3> QED
        BY <1>2, <3>2 DEF BaseInv, TypeOK, file
    <2> QED
      BY <2>2, <2>3 DEF Threads
  <1> QED
    BY <1>1, <1>2 DEF Fails

LEMMA FailsBase ==
    ASSUME BaseInv, NEW t \in Threads, Fails(t) PROVE BaseInv'
  <1>1. Close(t) /\ UNCHANGED <<numberFile, crlFile, crashes, published,
                                answered, acceptor>>
    BY DEF Fails, Fail
  <1>2. /\ pc' \in [Threads -> Steps] /\ Alone'
        /\ peer' \in [Workers -> Clients] /\ config' \in [Workers -> Crl]
        /\ target' \in [Threads -> Clients]
        /\ number' \in [Threads -> 0..MaxNumber] /\ crl' \in [Threads -> Crl]
        /\ late' \subseteq Workers
    BY <1>1, CloseTypes DEF BaseInv
  <1>3. \A u \in Threads : u # t => pc'[u] = pc[u] /\ target'[u] = target[u]
    BY <1>1 DEF BaseInv, TypeOK, Close, Goto
  <1>4. pc'[t] = "idle" /\ target'[t] = Unrecorded /\ late' = late \ {t}
    BY <1>1 DEF BaseInv, TypeOK, Close, Goto
  <1>5. \A w \in Workers : w # t => pc'[w] = pc[w]
    BY <1>3 DEF Threads
  <1>6. CASE t = Boot
    <2>1. /\ phase = "starting" /\ phase' = "down"
          /\ known' = {} /\ revoked' = {} /\ failed' = failed
      BY <1>6 DEF BaseInv, TypeOK, Fails, Fail, Working
    <2>2. \A u \in Threads : pc'[u] = "idle"
      BY <1>3, <1>4, <1>6, <2>1, ServiceAssumption DEF BaseInv, TypeOK
    <2>3. /\ FileOK' /\ io' \in [Workers -> Places]
          /\ saved' \in Damaged \cup SUBSET Certs
          /\ temporary' \in {Missing} \cup Damaged \cup SUBSET Certs
      BY <1>5, <1>6, <2>1, ServiceAssumption, FailsFile
    <2>4. TypeOK'
      BY <1>1, <1>2, <2>1, <2>2, <2>3 DEF BaseInv, TypeOK
    <2>5. Cleared'
      BY <1>1, <1>4, <2>1 DEF BaseInv, Cleared
    <2>6. Aimed'
      BY <1>3, <1>4, <2>1, <2>2
         DEF BaseInv, TypeOK, Aimed, Working, Threads, Connected
    <2> QED
      BY <1>2, <2>3, <2>4, <2>5, <2>6 DEF BaseInv
  <1>7. CASE t # Boot
    <2>1. /\ t \in Workers /\ failed' = failed \cup {target[t]}
          /\ UNCHANGED <<phase, known, revoked>>
      BY <1>7 DEF Fails, Fail, Threads, store
    <2>2. target[t] \in Certs
      BY <2>1 DEF BaseInv, TypeOK, Aimed, Fails
    <2>3. /\ FileOK' /\ io' \in [Workers -> Places]
          /\ saved' \in Damaged \cup SUBSET Certs
          /\ temporary' \in {Missing} \cup Damaged \cup SUBSET Certs
      BY <1>5, <1>7, <2>1, FailsFile
    <2>4. TypeOK'
      BY <1>1, <1>2, <1>3, <1>4, <2>1, <2>2, <2>3 DEF BaseInv, TypeOK
    <2>5. Cleared'
      BY <1>1, <1>4, <2>1 DEF BaseInv, Cleared
    <2>6. Aimed'
      BY <1>1, <1>3, <1>4, <2>1 DEF BaseInv, Aimed, Working, Threads
    <2> QED
      BY <1>2, <2>3, <2>4, <2>5, <2>6 DEF BaseInv
  <1> QED
    BY <1>6, <1>7

LEMMA ReplaceBase ==
    ASSUME BaseInv, NEW w \in Workers, Replace(w) PROVE BaseInv'
  <1>1. TypeOK' /\ Alone'
    BY ServiceAssumption
       DEF BaseInv, Replace, Goto, ConfigCrl, TypeOK, Alone, Working,
           Connected, Refreshing, Steps, Threads, Clients, Crl, store, file
  <1>2. Cleared' /\ Aimed'
    BY ServiceAssumption
       DEF BaseInv, Replace, Goto, TypeOK, Cleared, Aimed, Working,
           Connected, Threads, store
  <1>3. FileOK'
    <2>1. \A v \in Workers : Saving(v) => pc'[v] = "save"
      BY DEF BaseInv, TypeOK, FileOK, Replace, Goto, Threads
    <2> QED
      BY <2>1, FileStays DEF BaseInv, Replace, store
  <1> QED
    BY <1>1, <1>2, <1>3 DEF BaseInv

LEMMA Reply200Base ==
    ASSUME BaseInv, NEW w \in Workers, Reply200(w) PROVE BaseInv'
  <1>1. w \in Threads /\ Working(w) /\ target[w] \in Certs
    BY DEF BaseInv, TypeOK, Aimed, Reply200, Threads, Working, Connected
  <1>2. \A u \in Threads : pc'[u] # "idle" => pc[u] # "idle" /\ u # w
    BY DEF BaseInv, TypeOK, Reply200, Close, Goto
  <1>3. TypeOK' /\ Alone'
    BY <1>1, <1>2, CloseTypes DEF BaseInv, TypeOK, Reply200, store, file
  <1>4. Cleared'
    BY <1>1 DEF BaseInv, Reply200, Close, Cleared
  <1>5. Aimed'
    BY DEF BaseInv, Reply200, Close, Goto, TypeOK, Aimed, Working, Threads,
           store
  <1>6. FileOK'
    <2>1. \A v \in Workers : Saving(v) => pc'[v] = "save"
      BY DEF BaseInv, TypeOK, FileOK, Reply200, Close, Goto, Threads
    <2> QED
      BY <2>1, FileStays DEF BaseInv, Reply200, store
  <1> QED
    BY <1>3, <1>4, <1>5, <1>6 DEF BaseInv

LEMMA ListenBase == ASSUME BaseInv, Listen PROVE BaseInv'
  <1>1. /\ Boot \in Threads /\ phase = "starting"
        /\ \A u \in Threads : u # Boot => pc[u] = "idle"
    BY DEF BaseInv, TypeOK, Listen, Threads
  <1>2. \A u \in Threads : pc'[u] = "idle"
    BY <1>1 DEF BaseInv, TypeOK, Listen, Close, Goto
  <1>3. TypeOK' /\ Alone'
    BY <1>1, <1>2, CloseTypes DEF BaseInv, TypeOK, Listen, store, file
  <1>4. Cleared'
    BY <1>1 DEF BaseInv, Listen, Cleared
  <1>5. Aimed'
    BY <1>1, <1>2, ServiceAssumption
       DEF BaseInv, Listen, Close, TypeOK, Aimed, Working, Threads
  <1>6. FileOK'
    <2>1. \A v \in Workers : ~Saving(v)
      BY <1>1, ServiceAssumption DEF BaseInv, FileOK, Threads
    <2> QED
      BY <1>1, <2>1, FileStays DEF BaseInv, Listen, store
  <1> QED
    BY <1>3, <1>4, <1>5, <1>6 DEF BaseInv

LEMMA StartBase == ASSUME BaseInv, Start PROVE BaseInv'
  <1>1. known' \in {{}, Certs} /\ revoked' \subseteq known'
    BY DEF BaseInv, TypeOK, Start, Disk, Whole
  <1>2. TypeOK' /\ Alone'
    BY <1>1, ServiceAssumption
       DEF BaseInv, Start, Goto, history, file, TypeOK, Alone, Working,
           Connected, Refreshing, Steps, Threads
  <1>3. Cleared' /\ Aimed'
    BY ServiceAssumption
       DEF BaseInv, Start, Goto, history, TypeOK, Cleared, Aimed, Working,
           Threads
  <1>4. FileOK'
    <2>1. \A v \in Workers : pc[v] = "idle"
      BY ServiceAssumption DEF BaseInv, TypeOK, Start, Threads
    <2>2. temporary = Missing /\ \A v \in Workers : ~Saving(v)
      BY <2>1 DEF BaseInv, FileOK
    <2> QED
      BY <2>2 DEF FileOK, Start, file, Saving, Disk, Whole
  <1> QED
    BY <1>2, <1>3, <1>4 DEF BaseInv

\* What a crash does to the file: a save that other threads have renamed
\* under the writer is cut short.
LEMMA LosesFile ==
    ASSUME BaseInv, LoseSaves
    PROVE  /\ io' = [w \in Workers |-> "none"] /\ temporary' = Missing
           /\ saved' = saved \/ (saved = Blank /\ saved' = Torn)
           /\ saved' # saved => \E w \in Workers : io[w] = "json"
           /\ Disk' = Disk
  <1>1. /\ io' = [w \in Workers |-> "none"] /\ temporary' = Missing
        /\ saved' = saved \/ (saved = Blank /\ saved' = Torn)
        /\ saved' # saved => \E w \in Workers : io[w] = "json"
    BY DEF BaseInv, TypeOK, LoseSaves, Prefixes
  <1> QED
    BY <1>1 DEF Disk, Whole, Damaged

\* A crash leaves no thread at work, and no file open.
LEMMA CrashBase == ASSUME BaseInv, Crash PROVE BaseInv'
  <1>1. /\ io' = [w \in Workers |-> "none"] /\ temporary' = Missing
        /\ saved' = saved \/ (saved = Blank /\ saved' = Torn)
    BY LosesFile DEF Crash
  <1>2. /\ io' \in [Workers -> Places]
        /\ saved' \in Damaged \cup SUBSET Certs
        /\ temporary' \in {Missing} \cup Damaged \cup SUBSET Certs
    BY <1>1 DEF BaseInv, TypeOK, Places, Damaged
  <1>3. TypeOK' /\ Alone'
    BY <1>2, ServiceAssumption
       DEF BaseInv, Crash, AllIdle, NoPeers, NoConfigs, NoCrl, history,
           NoTargets, NoNumbers, NoCrls, TypeOK, Alone, Working, Connected,
           Refreshing, Steps, Threads, Clients, Crl
  <1>4. Cleared' /\ Aimed'
    BY ServiceAssumption
       DEF BaseInv, Crash, AllIdle, NoTargets, Cleared, Aimed, Working,
           Threads
  <1>5. FileOK'
    BY <1>1 DEF Crash, FileOK, Saving
  <1> QED
    BY <1>3, <1>4, <1>5 DEF BaseInv

\* The steps, as the proofs below take them one by one.
Serves(w) ==
    \/ Connects(w) \/ (\E c \in Certs : Revoke(w, c))
    \/ Persist(w) \/ Save(w) \/ Replace(w) \/ Reply200(w)

LEMMA NextCases ==
    ASSUME BaseInv, [Next]_vars
    PROVE  \/ \E w \in Workers : Serves(w)
           \/ \E t \in Threads : Refreshes(t) \/ Fails(t)
           \/ Listen \/ Start \/ Crash
           \/ UNCHANGED vars
  <1>1. ASSUME NEW t \in Threads, Refresh(t) PROVE Refreshes(t) \/ Fails(t)
    BY <1>1 DEF Refresh, Refreshes, NoNumber, WriteNumberFails, WriteCrlFails,
                Fails, Working, Connected
  <1>2. ASSUME NEW w \in Workers, SaveFails(w) PROVE Fails(w)
    <2>1. Working(w) /\ Fail(w)
      BY <1>2 DEF SaveFails, Working, Connected
    <2>2. SaveStops(w) \/ OpenFails(w)
      BY <1>2 DEF SaveFails, SaveStops
    <2> QED
      BY <1>2, <2>1, <2>2 DEF SaveFails, Fails, OpenFails, Saving
  <1>3. ASSUME NEW w \in Workers, Connection(w) PROVE Serves(w)
    BY <1>3 DEF Connection, Serves, Connects
  <1>4. ASSUME NEW w \in Workers, Handler(w)
        PROVE  Serves(w) \/ Refresh(w) \/ SaveFails(w)
    BY <1>4 DEF Handler, Serves
  <1>5. Boot \in Threads /\ Workers \subseteq Threads
    BY DEF Threads
  <1> QED
    BY <1>1, <1>2, <1>3, <1>4, <1>5 DEF Next, StartUp

LEMMA StepBase == ASSUME BaseInv, [Next]_vars PROVE BaseInv'
  <1>1. CASE \E w \in Workers : Serves(w)
    BY <1>1, ConnectsBase, RevokeBase, PersistBase, SaveBase, ReplaceBase,
       Reply200Base DEF Serves
  <1>2. CASE \E t \in Threads : Refreshes(t) \/ Fails(t)
    BY <1>2, RefreshesBase, FailsBase
  <1>3. CASE Listen \/ Start \/ Crash
    BY <1>3, ListenBase, StartBase, CrashBase
  <1>4. CASE UNCHANGED vars
    <2>1. TypeOK'
      BY <1>4 DEF vars, process, history, store, file, BaseInv, TypeOK
    <2>2. Alone' /\ Cleared' /\ Aimed'
      BY <1>4 DEF vars, process, history, store, file, BaseInv, Alone,
                  Working, Cleared, Aimed
    <2>3. FileOK'
      BY <1>4 DEF vars, process, history, store, file, BaseInv, FileOK,
                  Saving, Disk, Whole
    <2> QED
      BY <2>1, <2>2, <2>3 DEF BaseInv
  <1> QED
    BY <1>1, <1>2, <1>3, <1>4, NextCases

LEMMA BaseHolds == Spec => []BaseInv
  <1>1. Init => BaseInv
    BY InitBase
  <1>2. BaseInv /\ [Next]_vars => BaseInv'
    BY StepBase
  <1> QED
    BY <1>1, <1>2, PTL DEF Spec

\* Type correctness, for any number of revokers; a thread is at work only in
\* the phase of the server that it belongs to.
THEOREM TypeCorrect == Spec => []TypeOK
  <1>1. BaseInv => TypeOK
    BY DEF BaseInv
  <1> QED
    BY <1>1, BaseHolds, PTL

-----------------------------------------------------------------------------
(* What holds when saves do not overlap.                                   *)

\* As SavesSerial has it, and a write lock held until persist returns would:
\* what is written and not yet renamed is the map.
SerialFile ==
    /\ Whole
    /\ \A w \in Workers :
         /\ io[w] \in {"none", "tmp", "written"}
         /\ io[w] = "written" => temporary = revoked

\* A revocation whose save has returned is on disk, and so is an answered one.
OnDisk ==
    /\ answered \subseteq Disk
    /\ \A w \in Workers : Working(w) /\ pc[w] # "save" => target[w] \in Disk

SavedInv == SerialFile /\ OnDisk

LEMMA InitSaved == ASSUME Init PROVE SavedInv
  BY ServiceAssumption, MapsAreWhole
     DEF Init, AllIdle, Threads, SavedInv, SerialFile, OnDisk, Whole, Disk,
         Working

\* A step that leaves the file alone, and the map as long as somebody saves.
LEMMA SerialFileStays ==
    ASSUME SerialFile, UNCHANGED file,
           revoked' = revoked \/ \A w \in Workers : ~Saving(w)
    PROVE  SerialFile' /\ Disk' = Disk
  BY DEF SerialFile, file, Saving, Whole, Disk

LEMMA OneSaves ==
    ASSUME BaseInv, SavesSerial, NEW w \in Workers, Saving(w)
    PROVE  \A v \in Workers : v # w => io[v] = "none"
  BY DEF BaseInv, TypeOK, SavesSerial, Saving

LEMMA PersistSerial ==
    ASSUME BaseInv, SerialFile, SavesSerial, SavesSerial',
           NEW w \in Workers, Persist(w)
    PROVE  SerialFile' /\ Disk' = Disk
  <1>1. revoked' = revoked
    BY DEF Persist, store
  <1>2. CASE OpenTemporary(w)
    <2>1. /\ saved' = saved /\ io' = [io EXCEPT ![w] = "tmp"]
      BY <1>2 DEF OpenTemporary
    <2>2. io'[w] = "tmp" /\ \A v \in Workers : v # w => io'[v] = io[v]
      BY <2>1 DEF BaseInv, TypeOK
    <2>3. \A v \in Workers : v # w => io'[v] = "none"
      BY <2>1, <2>2 DEF BaseInv, TypeOK, SavesSerial, Saving
    <2> QED
      BY <1>1, <2>1, <2>2, <2>3 DEF SerialFile, Whole, Disk
  <1>3. CASE Write(w, revoked)
    <2>1. io[w] = "tmp"
      BY <1>3 DEF Write, SerialFile, Opened
    <2>2. /\ saved' = saved /\ temporary' = revoked
          /\ io' = [io EXCEPT ![w] = "written"]
      BY <1>3, <2>1 DEF Write
    <2>3. \A v \in Workers : v # w => io'[v] = "none"
      BY <2>1, <2>2, OneSaves DEF BaseInv, TypeOK, Saving
    <2>4. io'[w] = "written"
      BY <2>2 DEF BaseInv, TypeOK
    <2> QED
      BY <1>1, <2>2, <2>3, <2>4 DEF SerialFile, Whole, Disk
  <1> QED
    BY <1>2, <1>3 DEF Persist

LEMMA SaveRenames ==
    ASSUME BaseInv, SerialFile, SavesSerial, NEW w \in Workers, Save(w)
    PROVE  SerialFile' /\ Disk' = revoked /\ Disk \subseteq revoked
  <1>1. /\ io[w] = "written" /\ saved' = temporary
        /\ io' = [v \in Workers |-> IF v = w THEN "none" ELSE Renamed(io[v])]
        /\ revoked' = revoked
    BY DEF BaseInv, TypeOK, Save, Rename, store
  <1>2. saved' = revoked
    BY <1>1 DEF SerialFile
  <1>3. \A v \in Workers : io'[v] = "none"
    BY <1>1, OneSaves DEF Saving, Renamed
  <1>4. revoked \notin Damaged
    BY MapsAreWhole DEF BaseInv, TypeOK
  <1>5. Disk \subseteq revoked
    BY DEF BaseInv, TypeOK, FileOK, Save, Threads
  <1> QED
    BY <1>1, <1>2, <1>3, <1>4, <1>5 DEF SerialFile, Whole, Disk

LEMMA FailsSerialFile ==
    ASSUME BaseInv, SerialFile, SavesSerial, NEW t \in Threads, Fails(t)
    PROVE  SerialFile' /\ Disk' = Disk
  <1>1. CASE SaveStops(t)
    <2>1. t \in Workers /\ Saving(t)
      BY <1>1 DEF SaveStops, RenameMissing, RenameFails, WriteFails, Saving,
                  Opened
    <2>2. io' = [io EXCEPT ![t] = "none"] /\ saved' = saved
      BY <1>1, <2>1, SaveStopsFile DEF SerialFile
    <2>3. \A v \in Workers : io'[v] = "none"
      BY <2>1, <2>2, OneSaves DEF BaseInv, TypeOK
    <2> QED
      BY <2>2, <2>3 DEF SerialFile, Whole, Disk
  <1>2. CASE UNCHANGED file
    <2>1. CASE t = Boot
      <3>1. \A w \in Workers : ~Saving(w)
        BY <2>1, ServiceAssumption
           DEF BaseInv, TypeOK, FileOK, Fails, Working, Threads
      <3> QED
        BY <1>2, <3>1, SerialFileStays
    <2>2. CASE t # Boot
      BY <1>2, <2>2, SerialFileStays DEF Fails, Fail, store
    <2> QED
      BY <2>1, <2>2
  <1> QED
    BY <1>1, <1>2 DEF Fails

\* The disk changes only when a save renames its file.
LEMMA SerialFileStep ==
    ASSUME BaseInv, SerialFile, SavesSerial, SavesSerial', [Next]_vars
    PROVE  /\ SerialFile'
           /\ \/ Disk' = Disk
              \/ \E w \in Workers : Save(w) /\ Disk' = revoked
  <1>1. ASSUME NEW w \in Workers,
               Connects(w) \/ Replace(w) \/ Reply200(w)
        PROVE  SerialFile' /\ Disk' = Disk
    BY <1>1, ConnectsFacts, SerialFileStays DEF Replace, Reply200, store
  <1>2. ASSUME NEW w \in Workers, NEW c \in Certs, Revoke(w, c)
        PROVE  SerialFile' /\ Disk' = Disk
    BY <1>2, SerialFileStays DEF BaseInv, TypeOK, Revoke, WriteLockFree
  <1>3. ASSUME NEW t \in Threads, Refreshes(t)
        PROVE  SerialFile' /\ Disk' = Disk
    BY <1>3, RefreshesFacts, SerialFileStays DEF store
  <1>4. CASE Listen
    BY <1>4, SerialFileStays DEF Listen, store
  <1>5. CASE Start
    <2>1. \A w \in Workers : ~Saving(w)
      BY <1>5, ServiceAssumption DEF BaseInv, TypeOK, FileOK, Start, Threads
    <2> QED
      BY <1>5, <2>1, SerialFileStays DEF Start
  <1>6. CASE Crash
    <2>1. LoseSaves
      BY <1>6 DEF Crash
    <2>2. io' = [w \in Workers |-> "none"] /\ saved' = saved
      BY <2>1, LosesFile DEF SerialFile
    <2> QED
      BY <2>2 DEF SerialFile, Whole, Disk
  <1>7. CASE UNCHANGED vars
    BY <1>7, SerialFileStays DEF vars, store
  <1>8. ASSUME NEW w \in Workers, Serves(w)
        PROVE  /\ SerialFile'
               /\ Disk' = Disk \/ (Save(w) /\ Disk' = revoked)
    BY <1>1, <1>2, <1>8, PersistSerial, SaveRenames DEF Serves
  <1> QED
    BY <1>3, <1>4, <1>5, <1>6, <1>7, <1>8, FailsSerialFile, NextCases

\* What ends a thread leaves the others where they are.
LEMMA CloseFacts ==
    ASSUME BaseInv, NEW t \in Threads, Close(t)
    PROVE  /\ pc'[t] = "idle" /\ late' = late \ {t}
           /\ \A u \in Threads : u # t =>
                /\ pc'[u] = pc[u] /\ target'[u] = target[u]
                /\ number'[u] = number[u] /\ crl'[u] = crl[u]
           /\ \A w \in Workers : w # t =>
                peer'[w] = peer[w] /\ config'[w] = config[w]
  BY DEF BaseInv, TypeOK, Close, Goto

LEMMA OnDiskStep ==
    ASSUME BaseInv, SavedInv, SavesSerial, SavesSerial', [Next]_vars
    PROVE  OnDisk'
  <1>1. Disk \subseteq Disk'
    BY SerialFileStep, SaveRenames DEF SavedInv
  <1>2. /\ \A s \in Refreshing : s \notin {"idle", "save"} \cup Connected
        /\ \A w \in Workers : w \in Threads
    BY DEF Refreshing, Connected, Threads
  <1> DEFINE Later(w) == Working(w) /\ pc[w] # "save"
  <1>3. \A w \in Workers : Later(w) => target[w] \in Disk'
    BY <1>1 DEF SavedInv, OnDisk
  <1>4. answered \subseteq Disk'
    BY <1>1 DEF SavedInv, OnDisk
  <1> HIDE DEF Later
  <1>5. ASSUME \A w \in Workers :
                 Later(w)' => Later(w) /\ target'[w] = target[w],
               answered' = answered
        PROVE  OnDisk'
    BY <1>3, <1>4, <1>5 DEF OnDisk, Later
  <1>6. ASSUME NEW w \in Workers, Connects(w) PROVE OnDisk'
    BY <1>2, <1>5, <1>6, ConnectsFacts DEF Later, Working
  <1>7. ASSUME NEW w \in Workers, NEW c \in Certs, Revoke(w, c) PROVE OnDisk'
    <2>1. /\ pc'[w] = "save" /\ answered' = answered
          /\ \A v \in Workers : v # w => pc'[v] = pc[v] /\ target'[v] = target[v]
      BY <1>2, <1>7 DEF BaseInv, TypeOK, Revoke, Goto, history
    <2> QED
      BY <1>5, <2>1 DEF Later, Working
  <1>8. ASSUME NEW w \in Workers, Persist(w) PROVE OnDisk'
    BY <1>5, <1>8 DEF Persist, process, history, Later, Working
  <1>9. ASSUME NEW w \in Workers, Save(w) PROVE OnDisk'
    <2>1. Disk' = revoked /\ target' = target /\ answered' = answered
      BY <1>9, SaveRenames DEF SavedInv, Save, history
    <2>2. target[w] \in revoked
      BY <1>9 DEF BaseInv, Aimed, Save, Working, Connected
    <2>3. \A v \in Workers : v # w => pc'[v] = pc[v]
      BY <1>2, <1>9 DEF BaseInv, TypeOK, Save, Goto
    <2> QED
      BY <1>3, <1>4, <2>1, <2>2, <2>3 DEF OnDisk, Later, Working
  <1>10. ASSUME NEW t \in Threads, Refreshes(t) PROVE OnDisk'
    <2>1. PICK step \in Refreshing : pc' = [pc EXCEPT ![t] = step]
      BY <1>10, RefreshesFacts
    <2>2. /\ pc[t] \in Refreshing
          /\ \A v \in Threads : v # t => pc'[v] = pc[v]
          /\ target' = target /\ answered' = answered
      BY <1>10, <2>1, RefreshesFacts DEF BaseInv, TypeOK
    <2> QED
      BY <1>2, <1>5, <2>2 DEF Later, Working
  <1>11. ASSUME NEW w \in Workers, Replace(w) PROVE OnDisk'
    <2>1. /\ pc[w] = "replace" /\ target' = target /\ answered' = answered
          /\ \A v \in Workers : v # w => pc'[v] = pc[v]
      BY <1>2, <1>11 DEF BaseInv, TypeOK, Replace, Goto
    <2> QED
      BY <1>5, <2>1 DEF Later, Working, Connected
  <1>12. ASSUME NEW w \in Workers, Reply200(w) PROVE OnDisk'
    <2>1. Close(w) /\ answered' = answered \cup {target[w]} /\ Later(w)
      BY <1>12 DEF Reply200, Later, Working, Connected
    <2>2. \A v \in Workers : Later(v)' => Later(v) /\ target'[v] = target[v]
      BY <1>2, <2>1, CloseFacts DEF BaseInv, Later, Working
    <2> QED
      BY <1>3, <1>4, <2>1, <2>2 DEF OnDisk, Later
  <1>13. ASSUME NEW t \in Threads, Fails(t) PROVE OnDisk'
    <2>1. Close(t) /\ answered' = answered
      BY <1>13 DEF Fails, Fail
    <2> QED
      BY <1>2, <1>5, <2>1, CloseFacts DEF BaseInv, Later, Working
  <1>14. CASE Listen
    <2>1. Boot \in Threads /\ Close(Boot) /\ answered' = answered
      BY <1>14 DEF Listen, Threads
    <2> QED
      BY <1>2, <1>5, <2>1, CloseFacts DEF BaseInv, Later, Working
  <1>15. CASE Start
    <2>1. /\ answered' = answered /\ target' = target
          /\ \A v \in Workers : pc'[v] = pc[v]
      BY <1>2, <1>15, ServiceAssumption
         DEF BaseInv, TypeOK, Start, Goto, history
    <2> QED
      BY <1>5, <2>1 DEF Later, Working
  <1>16. CASE Crash
    <2>1. answered' = answered /\ \A v \in Workers : pc'[v] = "idle"
      BY <1>2, <1>16 DEF Crash, AllIdle
    <2> QED
      BY <1>5, <2>1 DEF Later, Working
  <1>17. CASE UNCHANGED vars
    BY <1>5, <1>17 DEF vars, process, history, Later, Working
  <1>18. ASSUME NEW w \in Workers, Serves(w) PROVE OnDisk'
    BY <1>6, <1>7, <1>8, <1>9, <1>11, <1>12, <1>18 DEF Serves
  <1> QED
    BY <1>10, <1>13, <1>14, <1>15, <1>16, <1>17, <1>18, NextCases

LEMMA SavedHolds == Spec /\ []SavesSerial => []SavedInv
  <1>1. Init => SavedInv
    BY InitSaved
  <1>2. BaseInv /\ SavedInv /\ SavesSerial /\ SavesSerial' /\ [Next]_vars
          => SavedInv'
    BY SerialFileStep, OnDiskStep DEF SavedInv
  <1> QED
    BY <1>1, <1>2, BaseHolds, PTL DEF Spec

\* The statuses on disk move as the ledger lets them.
LEMMA LedgerStep ==
    ASSUME BaseInv, BaseInv', SavedInv, SavesSerial, SavesSerial', [Next]_vars
    PROVE  [Ledger!Next]_(Ledger!ledgerVars)
  <1> DEFINE Statuses == [c \in Certs |-> IF c \in Disk THEN "revoked"
                                          ELSE "issued"]
             Said == {[id |-> c, status |-> "revoked"] : c \in answered}
  <1>1. ASSUME Disk' = Disk, answered' = answered
        PROVE  UNCHANGED Ledger!ledgerVars
    BY <1>1 DEF Ledger!ledgerVars
  <1>2. ASSUME NEW w \in Workers, Save(w) PROVE Ledger!Save
    <2>1. Disk \subseteq Disk' /\ answered' = answered
      BY <1>2, SaveRenames DEF SavedInv, Save, history
    <2>2. Statuses' \in [Certs -> Ledger!Status]
      BY DEF Ledger!Status
    <2>3. \A c \in Certs : Ledger!Reaches(Statuses[c], Statuses'[c])
      BY <2>1 DEF Ledger!Reaches
    <2>4. Said' = Said
      BY <2>1
    <2> QED
      BY <2>2, <2>3, <2>4 DEF Ledger!Save
  <1>3. ASSUME NEW w \in Workers, Reply200(w) PROVE Ledger!Next
    <2>1. /\ target[w] \in Disk
          /\ answered' = answered \cup {target[w]}
      BY <1>3 DEF Reply200, SavedInv, OnDisk, Working, Connected
    <2>2. Disk' = Disk
      BY <1>3 DEF Reply200, file, Disk, Whole
    <2>3. Disk \subseteq Certs
      BY DiskType DEF BaseInv
    <2>4. Statuses[target[w]] = "revoked" /\ Statuses' = Statuses
      BY <2>1, <2>2, <2>3
    <2>5. Said' = Said \cup {[id |-> target[w], status |-> "revoked"]}
      BY <2>1
    <2>6. Ledger!Tell(target[w], "revoked")
      BY <2>4, <2>5 DEF Ledger!Tell, Ledger!Reaches
    <2> QED
      BY <2>1, <2>3, <2>6 DEF Ledger!Next
  <1>4. answered' = answered \/ \E w \in Workers : Reply200(w)
    BY NextCases, RefreshesFacts, ConnectsFacts
       DEF Serves, Revoke, Persist, Save, Replace, Fails, Listen, Start, Crash,
           vars, history
  <1>5. Disk' = Disk \/ \E w \in Workers : Save(w)
    BY SerialFileStep DEF SavedInv
  <1> QED
    BY <1>1, <1>2, <1>3, <1>4, <1>5 DEF Ledger!Next

\* Were no two saves to overlap, whoever revokes at the same time and whatever
\* fails or crashes, a revocation would be on disk before it is answered 200
\* and never leave it.
THEOREM SerialSavesImplementLedger ==
    Spec /\ []SavesSerial => ImplementsLedger
  <1>1. Init => Ledger!Init
    BY ServiceAssumption, MapsAreWhole DEF Init, Disk, Whole, Ledger!Init
  <1>2. /\ BaseInv /\ BaseInv' /\ SavedInv /\ SavesSerial /\ SavesSerial'
        /\ [Next]_vars
        => [Ledger!Next]_(Ledger!ledgerVars)
    BY LedgerStep
  <1> QED
    BY <1>1, <1>2, BaseHolds, SavedHolds, PTL
       DEF Spec, ImplementsLedger, Ledger!Spec
-----------------------------------------------------------------------------
(* What holds when refreshes do not overlap.                               *)

\* Where a refresh is past its start: it has read the number file.
Inside == Refreshing \ {"number"}

\* As under a lock that refresh takes before generate and keeps until the
\* acceptor is replaced.
RefreshesSerial ==
    \A t, u \in Threads : pc[t] \in Inside /\ pc[u] \in Inside => t = u

\* The CRL is signed and not in force.
Signed == {"truncCrl", "writeCrl", "replace"}

\* The acceptor lags behind the map in memory.
Listening ==
    /\ acceptor.certs \subseteq revoked
    /\ \A w \in Workers : pc[w] = "reply" => target[w] \in acceptor.certs

\* What the refreshing thread has achieved so far.
Numbering(t) ==
    /\ pc[t] \in {"truncNumber", "writeNumber", "list"} =>
         number[t] > published.number
    /\ pc[t] = "list" => numberFile = number[t]

Listing(t) ==
    pc[t] \in Signed =>
        /\ acceptor.certs \subseteq crl[t].certs
        /\ crl[t].certs \subseteq revoked
        /\ IF t = Boot THEN crl[t].certs = revoked
                       ELSE target[t] \in crl[t].certs

Writing(t) ==
    /\ pc[t] = "writeCrl" => crlFile = Blank
    /\ pc[t] = "replace" => crlFile = crl[t]

\* The number file is never behind the last CRL.
NumberKept == numberFile # Blank => numberFile >= published.number

\* The file and the acceptor part only inside a refresh or by a failed one.
FileKept ==
    /\ phase = "up" /\ failed = {}
    /\ \A w \in Workers : pc[w] \notin Inside
    => crlFile = acceptor

SerialInv ==
    /\ BaseInv
    /\ Listening
    /\ \A t \in Threads : Numbering(t)
    /\ \A t \in Threads : Listing(t)
    /\ \A t \in Threads : Writing(t)
    /\ NumberKept
    /\ NoSilentGap
    /\ FileKept

LEMMA InitSerial == ASSUME Init PROVE SerialInv
  <1>1. \A t \in Threads : pc[t] = "idle"
    BY DEF Init, AllIdle
  <1>2. Listening /\ NumberKept /\ NoSilentGap /\ FileKept
    BY ServiceAssumption
       DEF Init, NoCrl, AllIdle, Listening, NumberKept, NoSilentGap, FileKept,
           Threads
  <1>3. \A t \in Threads : Numbering(t) /\ Listing(t) /\ Writing(t)
    BY <1>1 DEF Numbering, Listing, Writing, Signed
  <1> QED
    BY <1>2, <1>3, InitBase DEF SerialInv

\* A certificate is on its way while a worker that works on it is.
LEMMA InProgressIs ==
    ASSUME BaseInv, NEW c \in Certs
    PROVE  c \in InProgress <=> \E w \in Workers : Working(w) /\ target[w] = c
  BY ServiceAssumption DEF BaseInv, Aimed, InProgress, Working, Connected

LEMMA ConnectsSerial ==
    ASSUME SerialInv, BaseInv', NEW w \in Workers, Connects(w)
    PROVE  SerialInv'
  <1>1. BaseInv
    BY DEF SerialInv
  <1>2. /\ UNCHANGED <<phase, store, file, numberFile, crlFile, acceptor,
                       crashes, published, answered, failed>>
        /\ \A t \in Threads : Working(t)' <=> Working(t)
        /\ \A t \in Threads : Working(t) =>
             /\ pc'[t] = pc[t] /\ target'[t] = target[t]
             /\ number'[t] = number[t] /\ crl'[t] = crl[t]
    BY <1>1, ConnectsFacts
  <1>3. \A step \in Refreshing \cup {"reply"} :
          step # "idle" /\ step \notin Connected
    BY DEF Refreshing, Connected
  <1>4. \A t \in Threads, step \in Refreshing \cup {"reply"} :
          pc'[t] = step <=> pc[t] = step
    BY <1>2, <1>3 DEF Working
  <1>5. Listening'
    BY <1>2, <1>4, <1>3 DEF SerialInv, Listening, Threads, Working, store
  <1>6. ASSUME NEW t \in Threads
        PROVE  Numbering(t)' /\ Listing(t)' /\ Writing(t)'
    <2>1. pc[t] \in Refreshing => Working(t)
      BY <1>3 DEF Working
    <2>2. pc'[t] \in Refreshing => pc'[t] = pc[t] /\ pc[t] \in Refreshing
      BY <1>4
    <2>3. \A step \in {"truncNumber", "writeNumber", "list"} \cup Signed :
            step \in Refreshing
      BY DEF Refreshing, Signed
    <2>4. Numbering(t)'
      BY <1>2, <2>1, <2>2, <2>3 DEF SerialInv, Numbering
    <2>5. Listing(t)'
      BY <1>2, <2>1, <2>2, <2>3 DEF SerialInv, Listing, store
    <2>6. Writing(t)'
      BY <1>2, <2>1, <2>2, <2>3 DEF SerialInv, Writing, Signed
    <2> QED
      BY <2>4, <2>5, <2>6
  <1>7. NumberKept'
    BY <1>2 DEF SerialInv, NumberKept
  <1>8. NoSilentGap'
    <2>1. ASSUME NEW CONSTANT c \in Certs, c \in InProgress
          PROVE  c \in InProgress'
      <3>1. PICK v \in Workers : Working(v) /\ target[v] = c
        BY <1>1, <2>1, InProgressIs
      <3>2. v \in Threads
        BY DEF Threads
      <3>3. pc'[v] # "idle" /\ target'[v] = c
        BY <1>2, <3>1, <3>2 DEF Working
      <3> QED
        BY <3>3 DEF InProgress
    <2> QED
      BY <1>2, <2>1 DEF SerialInv, BaseInv, TypeOK, NoSilentGap, store
  <1>9. FileKept'
    BY <1>2, <1>4 DEF SerialInv, FileKept, Inside, Threads
  <1> QED
    BY <1>5, <1>6, <1>7, <1>8, <1>9 DEF SerialInv

\* The map in memory grows under a refresh, and only grows.
LEMMA RevokeSerial ==
    ASSUME SerialInv, BaseInv', NEW w \in Workers, NEW c \in Certs, Revoke(w, c)
    PROVE  SerialInv'
  <1>1. /\ w \in Threads /\ w # Boot /\ pc[w] = "request" /\ phase = "up"
        /\ pc' = [pc EXCEPT ![w] = "save"]
        /\ target' = [target EXCEPT ![w] = c]
        /\ revoked' = revoked \cup {c}
        /\ UNCHANGED <<phase, file, numberFile, crlFile, acceptor, peer,
                       config, number, crl, crashes, history>>
    BY ServiceAssumption
       DEF SerialInv, BaseInv, TypeOK, Revoke, Goto, Threads
  <1>2. \A t \in Threads : t # w => pc'[t] = pc[t] /\ target'[t] = target[t]
    BY <1>1 DEF SerialInv, BaseInv, TypeOK
  <1>3. pc'[w] = "save" /\ target'[w] = c
    BY <1>1 DEF SerialInv, BaseInv, TypeOK
  <1>4. Listening' /\ NumberKept'
    BY <1>1, <1>2, <1>3
       DEF SerialInv, Listening, NumberKept, history, Threads
  <1>5. ASSUME NEW t \in Threads
        PROVE  Numbering(t)' /\ Listing(t)' /\ Writing(t)'
    <2>1. CASE t = w
      BY <1>3, <2>1 DEF Numbering, Listing, Writing, Signed
    <2>2. CASE t # w
      <3>1. /\ pc'[t] = pc[t] /\ target'[t] = target[t] /\ number' = number
            /\ crl' = crl /\ published' = published
        BY <1>1, <1>2, <2>2 DEF history
      <3>2. t = Boot => pc[t] = "idle"
        BY <1>1 DEF SerialInv, BaseInv, TypeOK
      <3> QED
        BY <1>1, <3>1, <3>2 DEF SerialInv, Numbering, Listing, Writing, Signed
    <2> QED
      BY <2>1, <2>2
  <1>6. NoSilentGap'
    <2>1. c \in InProgress'
      BY <1>3 DEF InProgress
    <2>2. ASSUME NEW CONSTANT d \in Certs, d \in InProgress
          PROVE  d \in InProgress'
      <3>1. PICK v \in Workers : Working(v) /\ target[v] = d
        BY <2>2, InProgressIs DEF SerialInv
      <3>2. v \in Threads /\ v # w
        BY <1>1, <3>1 DEF Threads, Working, Connected
      <3> QED
        BY <1>2, <3>1, <3>2 DEF InProgress, Working
    <2> QED
      BY <1>1, <2>1, <2>2 DEF SerialInv, BaseInv, TypeOK, NoSilentGap, history
  <1>7. FileKept'
    BY <1>1, <1>2 DEF SerialInv, FileKept, Inside, Refreshing, history, Threads
  <1> QED
    BY <1>4, <1>5, <1>6, <1>7 DEF SerialInv

LEMMA PersistKeeps ==
    ASSUME SerialInv, BaseInv', NEW w \in Workers, Persist(w)
    PROVE  SerialInv'
  <1>1. UNCHANGED <<phase, revoked, numberFile, crlFile, process, history>>
    BY DEF Persist, store
  <1>2. Listening' /\ NumberKept' /\ NoSilentGap' /\ FileKept'
    BY <1>1 DEF process, history, SerialInv, Listening, NumberKept, NoSilentGap,
                InProgress, FileKept
  <1>3. \A u \in Threads : Numbering(u)' /\ Listing(u)' /\ Writing(u)'
    BY <1>1 DEF process, history, SerialInv, Numbering, Listing, Writing
  <1> QED
    BY <1>2, <1>3 DEF SerialInv

LEMMA SaveSerial ==
    ASSUME SerialInv, BaseInv', NEW w \in Workers, Save(w)
    PROVE  SerialInv'
  <1>1. /\ w \in Threads /\ pc[w] = "save" /\ pc' = [pc EXCEPT ![w] = "number"]
        /\ UNCHANGED <<phase, revoked, numberFile, crlFile, acceptor, peer,
                       config, target, number, crl, crashes, history>>
    BY DEF Save, Goto, Threads, store
  <1>2. pc'[w] = "number" /\ \A t \in Threads : t # w => pc'[t] = pc[t]
    BY <1>1 DEF SerialInv, BaseInv, TypeOK
  <1>3. Listening' /\ NumberKept'
    BY <1>1, <1>2
       DEF SerialInv, BaseInv, TypeOK, Listening, NumberKept, history, Threads
  <1>4. \A t \in Threads : Numbering(t)' /\ Listing(t)' /\ Writing(t)'
    BY <1>1, <1>2
       DEF SerialInv, Numbering, Listing, Writing, Signed, history
  <1>5. NoSilentGap'
    BY <1>1, <1>2 DEF SerialInv, NoSilentGap, InProgress, history, Threads
  <1>6. FileKept'
    BY <1>1, <1>2 DEF SerialInv, FileKept, Inside, Refreshing, history, Threads
  <1> QED
    BY <1>3, <1>4, <1>5, <1>6 DEF SerialInv

\* What no step inside a refresh disturbs.
LEMMA RefreshesKeep ==
    ASSUME SerialInv, NEW t \in Threads, Refreshes(t)
    PROVE  /\ \A u \in Threads : u # t => pc'[u] = pc[u]
           /\ Listening' /\ NoSilentGap'
           /\ t \in Workers => phase = "up"
           /\ t = Boot => phase = "starting"
  <1>1. PICK step \in Refreshing : pc' = [pc EXCEPT ![t] = step]
    BY RefreshesFacts
  <1>2. pc'[t] \in Refreshing /\ \A u \in Threads : u # t => pc'[u] = pc[u]
    BY <1>1 DEF SerialInv, BaseInv, TypeOK
  <1>3. /\ pc[t] \in Refreshing
        /\ UNCHANGED <<phase, revoked, acceptor, peer, config, target, answered,
                       failed, late>>
    BY RefreshesFacts DEF store
  <1>4. \A s \in Refreshing : s \notin {"idle", "handshake", "reply"}
    BY DEF Refreshing
  <1>5. Listening'
    BY <1>2, <1>3, <1>4 DEF SerialInv, BaseInv, TypeOK, Listening, Threads
  <1>6. InProgress' = InProgress
    <2>1. \A w \in Workers : pc'[w] # "idle" <=> pc[w] # "idle"
      BY <1>2, <1>3, <1>4 DEF Threads
    <2> QED
      BY <1>3, <2>1 DEF InProgress
  <1>7. NoSilentGap'
    BY <1>3, <1>6 DEF SerialInv, NoSilentGap
  <1>8. /\ t \in Workers => phase = "up"
        /\ t = Boot => phase = "starting"
    BY <1>3, <1>4, ServiceAssumption DEF SerialInv, BaseInv, TypeOK
  <1> QED
    BY <1>2, <1>5, <1>7, <1>8

\* The next number is above the last CRL.
LEMMA ReadNumberSerial ==
    ASSUME SerialInv, BaseInv', NEW t \in Threads, ReadNumber(t)
    PROVE  SerialInv'
  <1>1. Refreshes(t)
    BY DEF Refreshes
  <1>2. /\ pc[t] = "number" /\ pc'[t] = "truncNumber"
        /\ numberFile \in 0..MaxNumber /\ number'[t] = numberFile + 1
        /\ \A u \in Threads : u # t => number'[u] = number[u]
        /\ UNCHANGED <<phase, revoked, numberFile, crlFile, acceptor, target,
                       crl, published, failed>>
    BY DEF ReadNumber, Goto, NextNumber, history, store, SerialInv, BaseInv,
           TypeOK
  <1>3. published.number \in Nat /\ numberFile >= published.number
    BY <1>2, ServiceAssumption
       DEF SerialInv, BaseInv, TypeOK, Crl, NumberKept
  <1>4. number'[t] > published.number
    BY <1>2, <1>3, ServiceAssumption
  <1>5. ASSUME NEW u \in Threads
        PROVE  Numbering(u)' /\ Listing(u)' /\ Writing(u)'
    <2>1. CASE u = t
      BY <1>2, <1>4, <2>1 DEF Numbering, Listing, Writing, Signed
    <2>2. CASE u # t
      BY <1>1, <1>2, <2>2, RefreshesKeep
         DEF SerialInv, Numbering, Listing, Writing
    <2> QED
      BY <2>1, <2>2
  <1>6. NumberKept'
    BY <1>2 DEF SerialInv, NumberKept
  <1>7. FileKept'
    <2>1. \A w \in Workers : pc[w] \in Inside => pc'[w] \in Inside
      BY <1>1, <1>2, RefreshesKeep DEF Inside, Threads
    <2> QED
      BY <1>2, <2>1 DEF SerialInv, FileKept
  <1> QED
    BY <1>1, <1>5, <1>6, <1>7, RefreshesKeep DEF SerialInv

\* The steps past the reading: nobody else is inside.
LEMMA OneInside ==
    ASSUME SerialInv, RefreshesSerial, NEW t \in Threads, pc[t] \in Inside,
           Refreshes(t)
    PROVE  /\ \A u \in Threads : u # t => pc[u] \notin Inside /\ pc'[u] = pc[u]
           /\ \A u \in Threads : u # t =>
                Numbering(u)' /\ Listing(u)' /\ Writing(u)'
  <1>1. \A u \in Threads : u # t => pc[u] \notin Inside /\ pc'[u] = pc[u]
    BY RefreshesKeep DEF RefreshesSerial
  <1>2. \A step \in {"truncNumber", "writeNumber", "list"} \cup Signed :
          step \in Inside
    BY DEF Inside, Refreshing, Signed
  <1>3. \A u \in Threads : u # t =>
          Numbering(u)' /\ Listing(u)' /\ Writing(u)'
    BY <1>1, <1>2 DEF Numbering, Listing, Writing, Signed
  <1> QED
    BY <1>1, <1>3

\* While a refresh is inside, the file is free to differ.
LEMMA InsideKeepsFile ==
    ASSUME SerialInv, NEW t \in Threads, Refreshes(t), pc'[t] \in Inside
    PROVE  FileKept'
  <1>1. CASE t \in Workers
    BY <1>1 DEF FileKept
  <1>2. CASE t = Boot
    BY <1>2, RefreshesKeep, RefreshesFacts DEF FileKept
  <1> QED
    BY <1>1, <1>2 DEF Threads

LEMMA TruncateNumberSerial ==
    ASSUME SerialInv, BaseInv', RefreshesSerial, NEW t \in Threads,
           TruncateNumber(t)
    PROVE  SerialInv'
  <1>1. Refreshes(t)
    BY DEF Refreshes
  <1>2. /\ pc[t] = "truncNumber" /\ pc'[t] = "writeNumber"
        /\ numberFile' = Blank
        /\ number' = number /\ published' = published
    BY DEF TruncateNumber, Goto, history, SerialInv, BaseInv, TypeOK
  <1>3. pc[t] \in Inside /\ pc'[t] \in Inside
    BY <1>2 DEF Inside, Refreshing
  <1>4. Numbering(t)' /\ Listing(t)' /\ Writing(t)'
    BY <1>2 DEF SerialInv, Numbering, Listing, Writing, Signed
  <1>5. NumberKept'
    BY <1>2 DEF NumberKept
  <1> QED
    BY <1>1, <1>3, <1>4, <1>5, OneInside, RefreshesKeep, InsideKeepsFile
       DEF SerialInv

LEMMA WriteNumberSerial ==
    ASSUME SerialInv, BaseInv', RefreshesSerial, NEW t \in Threads,
           WriteNumber(t)
    PROVE  SerialInv'
  <1>1. Refreshes(t)
    BY DEF Refreshes
  <1>2. /\ pc[t] = "writeNumber" /\ pc'[t] = "list" /\ numberFile' = number[t]
        /\ number' = number /\ published' = published
    BY DEF WriteNumber, Goto, history, SerialInv, BaseInv, TypeOK
  <1>3. pc[t] \in Inside /\ pc'[t] \in Inside
    BY <1>2 DEF Inside, Refreshing
  <1>4. number[t] > published.number
    BY <1>2 DEF SerialInv, Numbering
  <1>5. Numbering(t)' /\ Listing(t)' /\ Writing(t)'
    BY <1>2, <1>4 DEF Numbering, Listing, Writing, Signed
  <1>6. NumberKept'
    <2>1. number[t] \in Nat /\ published.number \in Nat
      BY ServiceAssumption DEF SerialInv, BaseInv, TypeOK, Crl
    <2> QED
      BY <1>2, <1>4, <2>1 DEF NumberKept
  <1> QED
    BY <1>1, <1>3, <1>5, <1>6, OneInside, RefreshesKeep, InsideKeepsFile
       DEF SerialInv

\* The CRL takes the number of the file and everything revoked.
LEMMA ListAndSignSerial ==
    ASSUME SerialInv, BaseInv', RefreshesSerial, NEW t \in Threads,
           ListAndSign(t)
    PROVE  SerialInv'
  <1>1. Refreshes(t)
    BY DEF Refreshes
  <1>2. /\ pc[t] = "list" /\ pc'[t] = "truncCrl"
        /\ crl'[t] = [number |-> number[t], certs |-> revoked]
        /\ published' = crl'[t]
        /\ UNCHANGED <<numberFile, revoked, acceptor, target>>
    BY DEF ListAndSign, Listed, Goto, store, SerialInv, BaseInv,
           TypeOK
  <1>3. pc[t] \in Inside /\ pc'[t] \in Inside
    BY <1>2 DEF Inside, Refreshing
  <1>4. Listing(t)'
    <2>1. t # Boot => target[t] \in revoked
      BY <1>2 DEF SerialInv, BaseInv, Aimed, Working, Connected, Threads
    <2>2. acceptor.certs \subseteq revoked
      BY DEF SerialInv, Listening
    <2> QED
      BY <1>2, <2>1, <2>2 DEF Listing
  <1>5. Numbering(t)' /\ Writing(t)'
    BY <1>2 DEF Numbering, Writing
  <1>6. NumberKept'
    <2>1. number[t] \in Nat /\ numberFile = number[t]
      BY <1>2, ServiceAssumption DEF SerialInv, BaseInv, TypeOK, Numbering
    <2> QED
      BY <1>2, <2>1 DEF NumberKept
  <1> QED
    BY <1>1, <1>3, <1>4, <1>5, <1>6, OneInside, RefreshesKeep, InsideKeepsFile
       DEF SerialInv

LEMMA TruncateCrlSerial ==
    ASSUME SerialInv, BaseInv', RefreshesSerial, NEW t \in Threads,
           TruncateCrl(t)
    PROVE  SerialInv'
  <1>1. Refreshes(t)
    BY DEF Refreshes
  <1>2. /\ pc[t] = "truncCrl" /\ pc'[t] = "writeCrl" /\ crlFile' = Blank
        /\ UNCHANGED <<numberFile, published, crl, revoked, acceptor, target>>
    BY DEF TruncateCrl, Goto, history, store, SerialInv, BaseInv,
           TypeOK
  <1>3. pc[t] \in Inside /\ pc'[t] \in Inside
    BY <1>2 DEF Inside, Refreshing
  <1>4. Numbering(t)' /\ Listing(t)' /\ Writing(t)'
    BY <1>2 DEF SerialInv, Numbering, Listing, Writing, Signed
  <1>5. NumberKept'
    BY <1>2 DEF SerialInv, NumberKept
  <1> QED
    BY <1>1, <1>3, <1>4, <1>5, OneInside, RefreshesKeep, InsideKeepsFile
       DEF SerialInv

\* Nothing was written since the truncation: the file is the signed CRL.
LEMMA WriteCrlSerial ==
    ASSUME SerialInv, BaseInv', RefreshesSerial, NEW t \in Threads, WriteCrl(t)
    PROVE  SerialInv'
  <1>1. Refreshes(t)
    BY DEF Refreshes
  <1>2. /\ pc[t] = "writeCrl" /\ pc'[t] = "replace"
        /\ UNCHANGED <<numberFile, published, crl, revoked, acceptor, target>>
        /\ crlFile' = IF crlFile = Torn THEN Torn
                      ELSE Overwrite(crlFile, crl[t])
    BY DEF WriteCrl, Goto, history, store, SerialInv, BaseInv,
           TypeOK
  <1>3. pc[t] \in Inside /\ pc'[t] \in Inside
    BY <1>2 DEF Inside, Refreshing
  <1>4. crlFile' = crl[t]
    <2>1. crlFile = Blank
      BY <1>2 DEF SerialInv, Writing
    <2> QED
      BY <1>2, <2>1, ServiceAssumption DEF Overwrite
  <1>5. Numbering(t)' /\ Listing(t)' /\ Writing(t)'
    BY <1>2, <1>4 DEF SerialInv, Numbering, Listing, Writing, Signed
  <1>6. NumberKept'
    BY <1>2 DEF SerialInv, NumberKept
  <1> QED
    BY <1>1, <1>3, <1>5, <1>6, OneInside, RefreshesKeep, InsideKeepsFile
       DEF SerialInv

\* The thread that ends is no longer in the way of anything.
LEMMA CloseSerial ==
    ASSUME SerialInv, NEW t \in Threads, Close(t),
           UNCHANGED <<acceptor, revoked, crlFile, numberFile, published>>
    PROVE  /\ \A u \in Threads : Numbering(u)' /\ Listing(u)' /\ Writing(u)'
           /\ NumberKept'
           /\ \A w \in Workers : pc'[w] = "reply" =>
                target'[w] \in acceptor'.certs
  <1>1. /\ pc'[t] = "idle"
        /\ \A u \in Threads : u # t =>
             /\ pc'[u] = pc[u] /\ target'[u] = target[u]
             /\ number'[u] = number[u] /\ crl'[u] = crl[u]
    BY CloseFacts DEF SerialInv
  <1>2. ASSUME NEW u \in Threads
        PROVE  Numbering(u)' /\ Listing(u)' /\ Writing(u)'
    <2>1. CASE u = t
      BY <1>1, <2>1 DEF Numbering, Listing, Writing, Signed
    <2>2. CASE u # t
      BY <1>1, <2>2 DEF SerialInv, Numbering, Listing, Writing
    <2> QED
      BY <2>1, <2>2
  <1>3. NumberKept'
    BY DEF SerialInv, NumberKept
  <1>4. \A w \in Workers : pc'[w] = "reply" => target'[w] \in acceptor'.certs
    BY <1>1 DEF SerialInv, Listening, Threads
  <1> QED
    BY <1>2, <1>3, <1>4

LEMMA FailsSerial ==
    ASSUME SerialInv, BaseInv', NEW t \in Threads, Fails(t)
    PROVE  SerialInv'
  <1>1. /\ Close(t) /\ Working(t)
        /\ UNCHANGED <<numberFile, crlFile, published, answered, acceptor>>
    BY DEF Fails, Fail
  <1>2. CASE t = Boot
    <2>1. phase = "starting" /\ phase' = "down" /\ revoked' = {}
      BY <1>1, <1>2 DEF SerialInv, BaseInv, TypeOK, Fails, Fail, Working
    <2>2. acceptor = NoCrl
      BY <2>1 DEF SerialInv, BaseInv, Cleared
    <2>3. \A u \in Threads : pc'[u] = "idle"
      BY <2>1, ServiceAssumption DEF BaseInv, TypeOK, Fails, Fail, Close, Goto,
         SerialInv
    <2>4. Listening' /\ NoSilentGap' /\ FileKept' /\ NumberKept'
      BY <1>1, <2>1, <2>2, <2>3
         DEF SerialInv, Listening, NoSilentGap, FileKept, NumberKept, Threads,
             NoCrl
    <2>5. \A u \in Threads : Numbering(u)' /\ Listing(u)' /\ Writing(u)'
      BY <2>3 DEF Numbering, Listing, Writing, Signed
    <2> QED
      BY <2>4, <2>5 DEF SerialInv
  <1>3. CASE t # Boot
    <2>1. /\ t \in Workers /\ failed' = failed \cup {target[t]}
          /\ phase' = phase /\ revoked' = revoked
      BY <1>3 DEF Fails, Fail, Threads, store
    <2>2. Listening'
      BY <1>1, <2>1, CloseSerial DEF SerialInv, Listening
    <2>3. NoSilentGap'
      <3>1. ASSUME NEW CONSTANT c \in Certs, c \in InProgress
            PROVE  c \in InProgress' \cup failed'
        <4>1. PICK v \in Workers : Working(v) /\ target[v] = c
          BY <3>1, InProgressIs DEF SerialInv
        <4>2. CASE v = t
          BY <2>1, <4>1, <4>2
        <4>3. CASE v # t
          <5>1. pc'[v] # "idle" /\ target'[v] = c
            BY <1>1, <4>1, <4>3, CloseFacts DEF SerialInv, Threads, Working
          <5> QED
            BY <5>1 DEF InProgress
        <4> QED
          BY <4>2, <4>3
      <3> QED
        BY <1>1, <2>1, <3>1 DEF SerialInv, BaseInv, TypeOK, NoSilentGap
    <2>4. FileKept'
      BY <2>1 DEF FileKept
    <2> QED
      BY <1>1, <2>1, <2>2, <2>3, <2>4, CloseSerial DEF SerialInv
  <1> QED
    BY <1>2, <1>3

\* The acceptor becomes the CRL in the file, which lists what the acceptor
\* it replaces did.
LEMMA ReplaceSerial ==
    ASSUME SerialInv, BaseInv', RefreshesSerial, NEW w \in Workers, Replace(w)
    PROVE  SerialInv'
  <1>1. /\ w \in Threads /\ w # Boot /\ pc[w] = "replace"
        /\ pc' = [pc EXCEPT ![w] = "reply"] /\ acceptor' = crl[w]
        /\ failed' = failed \ crl[w].certs
        /\ UNCHANGED <<phase, revoked, numberFile, crlFile, target, number,
                       crl, published, answered>>
    BY ServiceAssumption DEF Replace, Goto, ConfigCrl, Threads, store
  <1>2. pc'[w] = "reply" /\ \A u \in Threads : u # w => pc'[u] = pc[u]
    BY <1>1 DEF SerialInv, BaseInv, TypeOK
  <1>3. /\ acceptor.certs \subseteq acceptor'.certs
        /\ acceptor'.certs \subseteq revoked
        /\ target[w] \in acceptor'.certs
        /\ crlFile = acceptor'
    BY <1>1 DEF SerialInv, Listing, Writing, Signed
  <1>4. \A step \in {"truncNumber", "writeNumber", "list"} \cup Signed :
          step \in Inside
    BY DEF Inside, Refreshing, Signed
  <1>5. \A u \in Threads : u # w => pc[u] \notin Inside
    BY <1>1, <1>4 DEF RefreshesSerial, Signed
  <1>6. Listening'
    BY <1>1, <1>2, <1>3 DEF SerialInv, Listening, Threads
  <1>7. \A u \in Threads : Numbering(u)' /\ Listing(u)' /\ Writing(u)'
    BY <1>2, <1>4, <1>5 DEF Numbering, Listing, Writing, Signed
  <1>8. NumberKept'
    BY <1>1 DEF SerialInv, NumberKept
  <1>9. NoSilentGap'
    <2>1. \A v \in Workers : pc'[v] # "idle" <=> pc[v] # "idle"
      BY <1>1, <1>2 DEF Threads
    <2>2. InProgress' = InProgress
      BY <1>1, <2>1 DEF InProgress
    <2> QED
      BY <1>1, <1>3, <2>2 DEF SerialInv, NoSilentGap
  <1>10. FileKept'
    BY <1>1, <1>3 DEF FileKept
  <1> QED
    BY <1>6, <1>7, <1>8, <1>9, <1>10 DEF SerialInv

LEMMA Reply200Serial ==
    ASSUME SerialInv, BaseInv', NEW w \in Workers, Reply200(w)
    PROVE  SerialInv'
  <1>1. /\ Close(w) /\ w \in Threads /\ pc[w] = "reply"
        /\ answered' = answered \cup {target[w]}
        /\ UNCHANGED <<phase, revoked, numberFile, crlFile, acceptor,
                       published, failed>>
    BY DEF Reply200, Threads, store
  <1>2. target[w] \in acceptor.certs
    BY <1>1 DEF SerialInv, Listening
  <1>3. Listening'
    BY <1>1, <1>2, CloseSerial DEF SerialInv, Listening
  <1>4. NoSilentGap'
    <2>1. ASSUME NEW CONSTANT c \in Certs, c \in InProgress
          PROVE  c \in InProgress' \cup acceptor.certs
      <3>1. PICK v \in Workers : Working(v) /\ target[v] = c
        BY <2>1, InProgressIs DEF SerialInv
      <3>2. CASE v = w
        BY <1>2, <3>1, <3>2
      <3>3. CASE v # w
        <4>1. pc'[v] # "idle" /\ target'[v] = c
          BY <1>1, <3>1, <3>3, CloseFacts DEF SerialInv, Threads, Working
        <4> QED
          BY <4>1 DEF InProgress
      <3> QED
        BY <3>2, <3>3
    <2> QED
      BY <1>1, <2>1 DEF SerialInv, BaseInv, TypeOK, NoSilentGap
  <1>5. FileKept'
    <2>1. \A v \in Workers : pc[v] \in Inside => pc'[v] = pc[v]
      BY <1>1, CloseFacts DEF SerialInv, Inside, Refreshing, Threads
    <2> QED
      BY <1>1, <2>1 DEF SerialInv, FileKept
  <1> QED
    BY <1>1, <1>3, <1>4, <1>5, CloseSerial DEF SerialInv

\* The server comes up with everything it has read on its CRL.
LEMMA ListenSerial == ASSUME SerialInv, BaseInv', Listen PROVE SerialInv'
  <1>1. /\ Boot \in Threads /\ Close(Boot) /\ pc[Boot] = "replace"
        /\ phase = "starting" /\ acceptor' = crl[Boot]
        /\ UNCHANGED <<revoked, numberFile, crlFile, published>>
    BY DEF SerialInv, BaseInv, TypeOK, Listen, Threads, store
  <1>2. \A u \in Threads : pc'[u] = "idle"
    BY <1>1, CloseFacts DEF SerialInv, BaseInv, TypeOK
  <1>3. acceptor'.certs = revoked /\ crlFile = acceptor'
    BY <1>1 DEF SerialInv, Listing, Writing, Signed
  <1>4. Listening' /\ NoSilentGap' /\ FileKept' /\ NumberKept'
    BY <1>1, <1>2, <1>3
       DEF SerialInv, Listening, NoSilentGap, FileKept, NumberKept, Threads
  <1>5. \A u \in Threads : Numbering(u)' /\ Listing(u)' /\ Writing(u)'
    BY <1>2 DEF Numbering, Listing, Writing, Signed
  <1> QED
    BY <1>4, <1>5 DEF SerialInv

LEMMA StartSerial == ASSUME SerialInv, BaseInv', Start PROVE SerialInv'
  <1>1. /\ phase = "down" /\ phase' = "starting"
        /\ pc' = [pc EXCEPT ![Boot] = "number"]
        /\ UNCHANGED <<numberFile, crlFile, acceptor, published>>
    BY DEF Start, Goto, history
  <1>2. acceptor = NoCrl
    BY <1>1 DEF SerialInv, BaseInv, Cleared
  <1>3. \A u \in Threads : pc'[u] \in {"idle", "number"}
    BY <1>1 DEF SerialInv, BaseInv, TypeOK
  <1>4. Listening' /\ NoSilentGap' /\ FileKept' /\ NumberKept'
    BY <1>1, <1>2, <1>3
       DEF SerialInv, Listening, NoSilentGap, FileKept, NumberKept, NoCrl,
           Threads
  <1>5. \A u \in Threads : Numbering(u)' /\ Listing(u)' /\ Writing(u)'
    BY <1>3 DEF Numbering, Listing, Writing, Signed
  <1> QED
    BY <1>4, <1>5 DEF SerialInv

LEMMA CrashSerial == ASSUME SerialInv, BaseInv', Crash PROVE SerialInv'
  <1>1. /\ phase' = "down" /\ acceptor' = NoCrl
        /\ UNCHANGED <<numberFile, published>>
    BY DEF Crash
  <1>2. \A u \in Threads : pc'[u] = "idle"
    BY DEF Crash, AllIdle
  <1>3. Listening' /\ NoSilentGap' /\ FileKept' /\ NumberKept'
    BY <1>1, <1>2
       DEF SerialInv, Listening, NoSilentGap, FileKept, NumberKept, NoCrl,
           Threads
  <1>4. \A u \in Threads : Numbering(u)' /\ Listing(u)' /\ Writing(u)'
    BY <1>2 DEF Numbering, Listing, Writing, Signed
  <1> QED
    BY <1>3, <1>4 DEF SerialInv

LEMMA StepSerial ==
    ASSUME SerialInv, RefreshesSerial, [Next]_vars PROVE SerialInv'
  <1>1. BaseInv'
    BY StepBase DEF SerialInv
  <1>2. CASE \E w \in Workers : Serves(w)
    BY <1>1, <1>2, ConnectsSerial, RevokeSerial, PersistKeeps, SaveSerial,
       ReplaceSerial, Reply200Serial DEF Serves
  <1>3. CASE \E t \in Threads : Refreshes(t) \/ Fails(t)
    BY <1>1, <1>3, ReadNumberSerial, TruncateNumberSerial, WriteNumberSerial,
       ListAndSignSerial, TruncateCrlSerial, WriteCrlSerial, FailsSerial
       DEF Refreshes
  <1>4. CASE Listen \/ Start \/ Crash
    BY <1>1, <1>4, ListenSerial, StartSerial, CrashSerial
  <1>5. CASE UNCHANGED vars
    <2>1. Listening' /\ NumberKept' /\ NoSilentGap' /\ FileKept'
      BY <1>5
         DEF vars, store, process, history, SerialInv, Listening, NumberKept,
             NoSilentGap, InProgress, FileKept
    <2>2. \A u \in Threads : Numbering(u)' /\ Listing(u)' /\ Writing(u)'
      BY <1>5
         DEF vars, store, process, history, SerialInv, Numbering, Listing,
             Writing
    <2> QED
      BY <1>1, <2>1, <2>2 DEF SerialInv
  <1> QED
    BY <1>2, <1>3, <1>4, <1>5, NextCases DEF SerialInv

LEMMA SerialHolds == Spec /\ []RefreshesSerial => []SerialInv
  <1>1. Init => SerialInv
    BY InitSerial
  <1>2. SerialInv /\ RefreshesSerial /\ [Next]_vars => SerialInv'
    BY StepSerial
  <1> QED
    BY <1>1, <1>2, PTL DEF Spec

\* Were no two refreshes to overlap, the acceptor would miss no revocation
\* but those in progress and those answered 500.
THEOREM SerialRefreshesLeaveNoGap ==
    Spec /\ []RefreshesSerial => []NoSilentGap
  <1>1. SerialInv => NoSilentGap
    BY DEF SerialInv
  <1> QED
    BY <1>1, SerialHolds, PTL

\* Were no two refreshes to overlap, the distribution file would be the
\* enforced CRL between them, as long as the last one did not fail.
THEOREM SerialRefreshesKeepFile ==
    Spec /\ []RefreshesSerial => []CrlFileIsEnforced
  <1>1. SerialInv => CrlFileIsEnforced
    BY DEF SerialInv, FileKept, CrlFileIsEnforced, Inside
  <1> QED
    BY <1>1, SerialHolds, PTL

\* Only ListAndSign makes a CRL.
LEMMA OneSigns ==
    ASSUME [Next]_vars, published' # published
    PROVE  \E t \in Threads : ListAndSign(t)
  BY DEF Next, vars, history, Threads, Connection, Handler, StartUp, Crash,
         TakeAcceptor, Handshake, Leave, Revoke, Persist, Save, SaveFails,
         Replace, Reply200, Start, Listen, Refresh, ReadNumber, NoNumber,
         TruncateNumber, WriteNumber, WriteNumberFails, TruncateCrl, WriteCrl,
         WriteCrlFails

\* Were no two refreshes to overlap, every CRL would have a higher number than
\* all before it, over crashes and failed writes.
NumbersGrow ==
    [][published' # published => published'.number > published.number]_published

THEOREM SerialRefreshesNumber == Spec /\ []RefreshesSerial => NumbersGrow
  <1> DEFINE Grows == published' # published =>
                        published'.number > published.number
  <1>1. ASSUME SerialInv, NEW t \in Threads, ListAndSign(t) PROVE Grows
    BY <1>1 DEF ListAndSign, SerialInv, Numbering
  <1>2. SerialInv /\ [Next]_vars => [Grows]_published
    BY <1>1, OneSigns
  <1> QED
    BY <1>2, SerialHolds, PTL DEF Spec, NumbersGrow
-----------------------------------------------------------------------------
(* What holds when neither saves nor refreshes overlap.                    *)

\* What was answered 200 the acceptor refuses.
AnsweredListed == phase = "up" => answered \subseteq acceptor.certs

\* A late worker took an acceptor that refuses its client.
LateRefused ==
    \A w \in late : pc[w] = "handshake" /\ peer[w] \in config[w].certs

RefusedInv == AnsweredListed /\ LateRefused

\* A step of one thread that is not in a handshake.
LEMMA LateStays ==
    ASSUME BaseInv, LateRefused, NEW t \in Threads, pc[t] # "handshake",
           \A u \in Threads : u # t => pc'[u] = pc[u],
           UNCHANGED <<peer, config, late>>
    PROVE  LateRefused'
  BY DEF BaseInv, TypeOK, LateRefused, Threads

LEMMA CloseRefused ==
    ASSUME BaseInv, LateRefused, NEW t \in Threads, Close(t)
    PROVE  LateRefused'
  BY CloseFacts DEF BaseInv, TypeOK, LateRefused, Threads

LEMMA ConnectsRefused ==
    ASSUME BaseInv, RefusedInv, NEW w \in Workers, Connects(w)
    PROVE  RefusedInv'
  <1>1. AnsweredListed'
    BY ConnectsFacts DEF RefusedInv, AnsweredListed
  <1>2. CASE \E c \in Clients : TakeAcceptor(w, c)
    BY <1>1, <1>2 DEF BaseInv, TypeOK, RefusedInv, AnsweredListed, LateRefused,
                      TakeAcceptor, Goto, Threads
  <1>3. CASE Handshake(w)
    BY <1>1, <1>3 DEF BaseInv, TypeOK, RefusedInv, LateRefused, Handshake, Goto,
                      history, Threads
  <1>4. CASE Leave(w)
    BY <1>1, <1>4, CloseRefused DEF RefusedInv, Leave, Threads
  <1> QED
    BY <1>2, <1>3, <1>4 DEF Connects

LEMMA RefusedStep ==
    ASSUME SerialInv, SavedInv, RefusedInv, [Next]_vars PROVE RefusedInv'
  <1>1. BaseInv /\ \A w \in Workers : w \in Threads
    BY DEF SerialInv, Threads
  <1>2. ASSUME NEW w \in Workers,
               (\E c \in Certs : Revoke(w, c)) \/ Persist(w) \/ Save(w)
        PROVE  RefusedInv'
    <2>1. /\ UNCHANGED <<phase, answered, acceptor, peer, config, late>>
          /\ pc[w] # "handshake"
          /\ \A u \in Threads : u # w => pc'[u] = pc[u]
      BY <1>1, <1>2
         DEF BaseInv, TypeOK, Revoke, Persist, Save, Goto, process, history
    <2> QED
      BY <1>1, <2>1, LateStays DEF RefusedInv, AnsweredListed
  <1>3. ASSUME NEW t \in Threads, Refreshes(t) PROVE RefusedInv'
    <2>1. PICK step \in Refreshing : pc' = [pc EXCEPT ![t] = step]
      BY <1>3, RefreshesFacts
    <2>2. /\ UNCHANGED <<phase, answered, acceptor, peer, config, late>>
          /\ pc[t] # "handshake"
          /\ \A u \in Threads : u # t => pc'[u] = pc[u]
      BY <1>1, <1>3, <2>1, RefreshesFacts DEF BaseInv, TypeOK, Refreshing
    <2> QED
      BY <1>1, <2>2, LateStays DEF RefusedInv, AnsweredListed
  <1>4. ASSUME NEW w \in Workers, Replace(w) PROVE RefusedInv'
    <2>1. /\ pc[w] = "replace" /\ acceptor' = crl[w]
          /\ UNCHANGED <<phase, answered, peer, config, late>>
          /\ \A u \in Threads : u # w => pc'[u] = pc[u]
      BY <1>1, <1>4 DEF BaseInv, TypeOK, Replace, ConfigCrl, Goto
    <2>2. acceptor.certs \subseteq acceptor'.certs
      BY <1>1, <2>1 DEF SerialInv, Listing, Signed
    <2> QED
      BY <1>1, <2>1, <2>2, LateStays DEF RefusedInv, AnsweredListed
  <1>5. ASSUME NEW w \in Workers, Reply200(w) PROVE RefusedInv'
    <2>1. /\ Close(w) /\ pc[w] = "reply" /\ UNCHANGED <<phase, acceptor>>
          /\ answered' = answered \cup {target[w]}
      BY <1>5 DEF Reply200
    <2>2. target[w] \in acceptor.certs
      BY <2>1 DEF SerialInv, Listening
    <2> QED
      BY <1>1, <2>1, <2>2, CloseRefused DEF RefusedInv, AnsweredListed
  <1>6. ASSUME NEW t \in Threads, Fails(t) PROVE RefusedInv'
    <2>1. /\ Close(t) /\ UNCHANGED <<acceptor, answered>>
          /\ phase' = phase \/ phase' = "down"
      BY <1>6 DEF Fails, Fail
    <2> QED
      BY <1>1, <2>1, CloseRefused DEF RefusedInv, AnsweredListed
  <1>7. CASE Listen
    <2>1. /\ Boot \in Threads /\ Close(Boot) /\ pc[Boot] = "replace"
          /\ phase = "starting" /\ acceptor' = crl[Boot] /\ answered' = answered
      BY <1>1, <1>7 DEF BaseInv, TypeOK, Listen, Threads
    <2>2. acceptor'.certs = revoked
      BY <2>1 DEF SerialInv, Listing, Signed
    <2>3. answered \subseteq Disk /\ Disk \subseteq revoked
      BY <1>1, <2>1 DEF SavedInv, OnDisk, BaseInv, FileOK
    <2> QED
      BY <1>1, <2>1, <2>2, <2>3, CloseRefused DEF RefusedInv, AnsweredListed
  <1>8. CASE Start
    <2>1. late = {} /\ late' = late /\ phase' = "starting"
      BY <1>1, <1>8 DEF BaseInv, Cleared, Start, history
    <2> QED
      BY <2>1 DEF RefusedInv, AnsweredListed, LateRefused
  <1>9. CASE Crash
    BY <1>9 DEF Crash, RefusedInv, AnsweredListed, LateRefused
  <1>10. CASE UNCHANGED vars
    BY <1>10 DEF vars, process, history, RefusedInv, AnsweredListed, LateRefused
  <1>11. ASSUME NEW w \in Workers, Serves(w) PROVE RefusedInv'
    BY <1>1, <1>2, <1>4, <1>5, <1>11, ConnectsRefused DEF Serves
  <1> QED
    BY <1>1, <1>3, <1>6, <1>7, <1>8, <1>9, <1>10, <1>11, NextCases

\* Were no two saves and no two refreshes to overlap, however the calls around
\* them do, a client whose revocation was answered 200 would be refused by
\* every later handshake, over any number of crashes.
THEOREM SerialServiceRefuses ==
    Spec /\ []SavesSerial /\ []RefreshesSerial => []RevokedIsRefused
  <1>1. Init => RefusedInv
    BY DEF Init, RefusedInv, AnsweredListed, LateRefused
  <1>2. SerialInv /\ SavedInv /\ RefusedInv /\ [Next]_vars => RefusedInv'
    BY RefusedStep
  <1>3. RefusedInv => RevokedIsRefused
    BY DEF RefusedInv, LateRefused, RevokedIsRefused
  <1> QED
    BY <1>1, <1>2, <1>3, SerialHolds, SavedHolds, PTL DEF Spec
-----------------------------------------------------------------------------
(* What holds when calls do not overlap.                                   *)

\* As under a lock that handle_revoke_certificate takes before the store's
\* revoke and keeps until it answers.
CallsSerial ==
    \A t, u \in Threads : Working(t) /\ Working(u) => t = u

\* Nothing is enforced or signed that is not on disk.
Durable ==
    /\ acceptor.certs \subseteq Disk
    /\ published.certs \subseteq Disk
    /\ \A t \in Threads :
         /\ pc[t] \in Refreshing => Disk = revoked
         /\ pc[t] \in Signed => crl[t].certs \subseteq Disk

LEMMA CallsCoverSaves == BaseInv /\ CallsSerial => SavesSerial
  BY DEF BaseInv, TypeOK, FileOK, CallsSerial, SavesSerial, Working, Connected,
         Threads

LEMMA DurableStep ==
    ASSUME BaseInv, BaseInv', SavedInv, Durable, CallsSerial, CallsSerial',
           [Next]_vars
    PROVE  Durable'
  <1>1. /\ \A s \in Signed : s \in Refreshing
        /\ \A s \in Refreshing : s \notin {"idle", "save"} \cup Connected
        /\ \A w \in Workers : w \in Threads
    BY DEF Signed, Refreshing, Connected, Threads
  <1>2. SavesSerial /\ SavesSerial'
    <2>1. SavesSerial'
      BY DEF BaseInv, TypeOK, FileOK, CallsSerial, SavesSerial, Working,
             Connected, Threads
    <2> QED
      BY <2>1, CallsCoverSaves
  <1>3. Disk' = Disk \/ \E w \in Workers : Save(w) /\ Disk' = revoked
    BY <1>2, SerialFileStep DEF SavedInv
  <1>4. ASSUME NEW w \in Workers, Save(w) PROVE Durable'
    <2>1. /\ Disk' = revoked /\ Disk \subseteq revoked
          /\ UNCHANGED <<revoked, acceptor, published, crl>>
          /\ pc'[w] = "number" /\ \A t \in Threads : t # w => pc'[t] = pc[t]
      BY <1>1, <1>2, <1>4, SaveRenames
         DEF BaseInv, TypeOK, SavedInv, Save, Goto, store, history
    <2> QED
      BY <2>1 DEF Durable, Signed
  <1>5. CASE UNCHANGED <<Disk, acceptor, published>>
             /\ \A t \in Threads : pc'[t] \in Refreshing =>
                  /\ pc[t] \in Refreshing /\ revoked' = revoked
                  /\ pc'[t] \in Signed => pc[t] \in Signed /\ crl'[t] = crl[t]
    BY <1>1, <1>5 DEF Durable
  <1>6. CASE Disk' = Disk
    <2>1. ASSUME NEW w \in Workers, Connects(w) PROVE Durable'
      <3>1. \A t \in Threads : pc'[t] \in Refreshing =>
              pc'[t] = pc[t] /\ crl'[t] = crl[t]
        BY <1>1, <2>1, ConnectsFacts DEF Working
      <3> QED
        BY <1>5, <1>6, <2>1, <3>1, ConnectsFacts DEF store
    <2>2. ASSUME NEW w \in Workers, NEW c \in Certs, Revoke(w, c)
          PROVE  Durable'
      <3>1. pc'[w] = "save" /\ UNCHANGED <<acceptor, published>>
        BY <1>1, <2>2 DEF BaseInv, TypeOK, Revoke, Goto, history
      <3>2. \A t \in Threads : pc'[t] \notin Refreshing
        BY <1>1, <3>1 DEF CallsSerial, Working, Connected
      <3> QED
        BY <1>5, <1>6, <3>1, <3>2
    <2>3. ASSUME NEW w \in Workers, Persist(w) PROVE Durable'
      BY <1>5, <1>6, <2>3 DEF Persist, process, store, history
    <2>4. ASSUME NEW t \in Threads, Refreshes(t) PROVE Durable'
      <3>1. PICK step \in Refreshing : pc' = [pc EXCEPT ![t] = step]
        BY <2>4, RefreshesFacts
      <3>2. /\ pc[t] \in Refreshing
            /\ \A u \in Threads : u # t => pc'[u] = pc[u]
            /\ UNCHANGED <<revoked, acceptor>>
        BY <2>4, <3>1, RefreshesFacts DEF BaseInv, TypeOK, store
      <3>3. Disk = revoked
        BY <3>2 DEF Durable
      <3>4. CASE ListAndSign(t)
        <4>1. /\ crl'[t].certs = revoked /\ published'.certs = revoked
              /\ \A u \in Threads : u # t => crl'[u] = crl[u]
          BY <3>4 DEF BaseInv, TypeOK, ListAndSign, Listed
        <4> QED
          BY <1>6, <3>2, <3>3, <4>1 DEF Durable
      <3>5. CASE ~ListAndSign(t)
        <4>1. /\ crl' = crl /\ published' = published
              /\ pc'[t] \in Signed => pc[t] \in Signed
          BY <2>4, <3>5
             DEF BaseInv, TypeOK, Refreshes, ReadNumber, TruncateNumber,
                 WriteNumber, TruncateCrl, WriteCrl, Goto, Signed, history
        <4> QED
          BY <1>5, <1>6, <3>2, <4>1
      <3> QED
        BY <3>4, <3>5
    <2>5. ASSUME NEW w \in Workers, Replace(w) PROVE Durable'
      <3>1. /\ pc[w] = "replace" /\ acceptor' = crl[w]
            /\ UNCHANGED <<revoked, published, crl>>
            /\ pc'[w] = "reply" /\ \A t \in Threads : t # w => pc'[t] = pc[t]
        BY <1>1, <2>5 DEF BaseInv, TypeOK, Replace, ConfigCrl, Goto, store
      <3> QED
        BY <1>1, <1>6, <3>1 DEF Durable, Signed, Refreshing
    <2>6. ASSUME NEW t \in Threads, Close(t), Fails(t) \/ Reply200(t)
          PROVE  Durable'
      <3>1. /\ UNCHANGED <<acceptor, published>>
            /\ revoked' = revoked \/ (t = Boot /\ Fails(t))
        BY <2>6 DEF Fails, Fail, Reply200, store
      <3>2. ASSUME NEW u \in Threads, pc'[u] \in Refreshing
            PROVE  u # t /\ pc'[u] = pc[u] /\ crl'[u] = crl[u]
        BY <1>1, <2>6, <3>2, CloseFacts
      <3>3. t = Boot /\ Fails(t) => \A u \in Threads : u # t => pc[u] = "idle"
        BY DEF BaseInv, TypeOK, Fails, Working
      <3> QED
        BY <1>1, <1>5, <1>6, <3>1, <3>2, <3>3
    <2>7. CASE Listen
      <3>1. /\ Boot \in Threads /\ pc[Boot] = "replace" /\ acceptor' = crl[Boot]
            /\ published' = published /\ Close(Boot)
        BY <2>7 DEF Listen, Threads
      <3>2. \A u \in Threads : pc'[u] = "idle"
        BY <3>1, CloseFacts DEF BaseInv, TypeOK
      <3> QED
        BY <1>1, <1>6, <3>1, <3>2 DEF Durable, Signed
    <2>8. CASE Start
      <3>1. /\ revoked' = Disk /\ UNCHANGED <<acceptor, published>>
            /\ \A u \in Threads : pc'[u] \in {"idle", "number"}
        BY <2>8 DEF BaseInv, TypeOK, Start, Goto, history
      <3> QED
        BY <1>1, <1>6, <3>1 DEF Durable, Signed
    <2>9. CASE Crash
      BY <1>1, <1>6, <2>9 DEF Crash, AllIdle, NoCrl, Durable
    <2>10. CASE UNCHANGED vars
      BY <1>5, <1>6, <2>10 DEF vars, store, process, history
    <2>11. ASSUME NEW w \in Workers, Serves(w) PROVE Durable'
      BY <1>1, <1>4, <2>1, <2>2, <2>3, <2>5, <2>6, <2>11 DEF Serves, Reply200
    <2> QED
      BY <2>4, <2>6, <2>7, <2>8, <2>9, <2>10, <2>11, NextCases DEF Fails, Fail
  <1> QED
    BY <1>3, <1>4, <1>6

LEMMA CallsHold == Spec /\ []CallsSerial => []SavedInv
  BY CallsCoverSaves, BaseHolds, SavedHolds, PTL

LEMMA DurableHolds == Spec /\ []CallsSerial => []Durable
  <1>1. Init => Durable
    BY ServiceAssumption
       DEF Init, NoCrl, AllIdle, Durable, Refreshing, Signed
  <1>2. /\ BaseInv /\ BaseInv' /\ SavedInv /\ Durable
        /\ CallsSerial /\ CallsSerial' /\ [Next]_vars
        => Durable'
    BY DurableStep
  <1> QED
    BY <1>1, <1>2, BaseHolds, CallsHold, PTL DEF Spec

\* Were no two calls to overlap, no restart would take back what the listener
\* has enforced.
THEOREM SerialCallsEnforceSaved ==
    Spec /\ []CallsSerial => []EnforcedIsSaved
  <1>1. Durable => EnforcedIsSaved
    BY DEF Durable, EnforcedIsSaved
  <1> QED
    BY <1>1, DurableHolds, PTL

LEMMA CallsCoverRefreshes == CallsSerial => RefreshesSerial
  BY DEF CallsSerial, RefreshesSerial, Working, Connected, Inside, Refreshing

\* Were no two calls to overlap, CRL numbers would grow and no CRL would drop
\* a certificate of the one before, whatever crashes and failed writes come
\* between them.
THEOREM SerialCallsAdvance == Spec /\ []CallsSerial => CrlsAdvance
  <1> DEFINE Advance == published' # published =>
                          /\ published'.number > published.number
                          /\ published.certs \subseteq published'.certs
  <1>1. ASSUME SerialInv, Durable, NEW t \in Threads, ListAndSign(t)
        PROVE  Advance
    <2>1. /\ published'.number = number[t] /\ published'.certs = revoked
          /\ pc[t] = "list"
      BY <1>1 DEF ListAndSign, Listed
    <2>2. number[t] > published.number
      BY <1>1, <2>1 DEF SerialInv, Numbering
    <2>3. published.certs \subseteq Disk /\ Disk = revoked
      BY <1>1, <2>1 DEF Durable, Refreshing
    <2> QED
      BY <2>1, <2>2, <2>3
  <1>2. SerialInv /\ Durable /\ [Next]_vars => [Advance]_published
    BY <1>1, OneSigns
  <1> QED
    BY <1>2, SerialHolds, DurableHolds, CallsCoverRefreshes, PTL
       DEF Spec, CrlsAdvance
-----------------------------------------------------------------------------
(* A service with one revoker, as the run revocation_single has it.        *)

\* No two connections revoke.
OneRevoker == \A v, w \in Revokers : v = w

LEMMA OneCaller == ASSUME OneRevoker PROVE Spec => []CallsSerial
  <1>1. BaseInv => CallsSerial
    BY ServiceAssumption
       DEF BaseInv, TypeOK, Alone, OneRevoker, CallsSerial, Working
  <1> QED
    BY <1>1, BaseHolds, PTL

\* Nor do two saves overlap, whatever else the other connections do.
LEMMA OneSaver == ASSUME OneRevoker PROVE Spec => []SavesSerial
  BY OneCaller, CallsCoverSaves, BaseHolds, PTL

\* With one revoker, a revocation is on disk before it is answered 200 and
\* never leaves it, over any number of crashes and failed saves.
THEOREM ServiceImplementsLedger ==
    ASSUME OneRevoker PROVE Spec => ImplementsLedger
  BY SerialSavesImplementLedger, OneSaver, PTL

\* With one revoker, a client whose revocation was answered 200 is refused by
\* every later handshake, over any number of crashes.
THEOREM RevokedAlwaysRefused ==
    ASSUME OneRevoker PROVE Spec => []RevokedIsRefused
  BY SerialServiceRefuses, OneCaller, OneSaver, CallsCoverRefreshes, PTL

\* With one revoker, the acceptor misses no revocation that is neither in
\* progress nor answered 500.
THEOREM NeverASilentGap == ASSUME OneRevoker PROVE Spec => []NoSilentGap
  BY SerialRefreshesLeaveNoGap, OneCaller, CallsCoverRefreshes, PTL

\* With one revoker, no restart takes back what the listener has enforced.
THEOREM EnforcedAlwaysSaved ==
    ASSUME OneRevoker PROVE Spec => []EnforcedIsSaved
  BY SerialCallsEnforceSaved, OneCaller, PTL

\* With one revoker, the distribution file is the enforced CRL between
\* refreshes, as long as the last one did not fail.
THEOREM CrlFileAlwaysEnforced ==
    ASSUME OneRevoker PROVE Spec => []CrlFileIsEnforced
  BY SerialRefreshesKeepFile, OneCaller, CallsCoverRefreshes, PTL

\* With one revoker, CRL numbers grow and no CRL drops a certificate of the
\* one before, whatever crashes and failed writes come between them.
THEOREM CrlsAlwaysAdvance == ASSUME OneRevoker PROVE Spec => CrlsAdvance
  BY SerialCallsAdvance, OneCaller, PTL
=============================================================================
