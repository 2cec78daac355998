------------------------- MODULE RevocationService -------------------------
(***************************************************************************)
(* How a revocation reaches the TLS listener of daemon-pki-api:            *)
(*                                                                         *)
(*   http.rs         every connection is a task: it takes the current      *)
(*                   acceptor, does the handshake, serves one request      *)
(*   certificates.rs revoke changes the map, then saves it                 *)
(*   crl.rs          generate_and_persist: next CRL number, list the       *)
(*                   revoked certificates, sign, write the CRL file        *)
(*   tls/manager.rs  refresh: generate, build a configuration, replace the *)
(*                   acceptor; nothing is locked from one step to the next *)
(*   bin/server.rs   start-up opens the store and does the same once       *)
(*                                                                         *)
(* A CRL is its number and the certificates on it.  The map is saved as in *)
(* SavedFile, where overlapping saves get into each other's way; only      *)
(* revocations save it here, and every save has the records of all         *)
(* certificates, so that a whole file is the set of those revoked.  A      *)
(* crash is one of the process: written data survives, memory does not.    *)
(***************************************************************************)
EXTENDS Naturals, FiniteSets, SavedFile

CONSTANTS
    Workers,     \* connection tasks
    Revokers,    \* the ones whose client sends revocations
    Boot,        \* the thread that runs main
    Certs,       \* client certificates with a record in the store
    Unrecorded,  \* a client certificate without one (bootstrap-client)
    MaxNumber,   \* u64::MAX, the last CRL number
    MaxCrashes,  \* bound on the crashes explored
    Faults       \* which of "save", "number", "crl" may fail

Threads == Workers \cup {Boot}
Clients == Certs \cup {Unrecorded}
Crl     == [number : 0..MaxNumber, certs : SUBSET Certs]
NoCrl   == [number |-> 0, certs |-> {}]

ASSUME ServiceAssumption ==
    /\ Revokers \subseteq Workers
    /\ Boot \notin Workers
    /\ Unrecorded \notin Certs
    /\ MaxNumber \in Nat
    /\ MaxCrashes \in Nat
    /\ Faults \subseteq {"save", "number", "crl"}
    /\ Blank \notin Crl \cup 0..MaxNumber
    /\ Torn \notin Crl \cup {Blank}
    /\ \A map \in SUBSET Certs : map \notin {Missing, Blank, Torn}
    /\ Missing \notin Damaged

VARIABLES
    phase,       \* "down", "starting", "up"
    known,       \* certificates the store in memory has a record of
    revoked,     \* those it has as revoked
    numberFile,  \* crl-number; 0 when there is none
    crlFile,     \* intermediate-ca.crl.der
    acceptor,    \* the CRL in the current TLS configuration
    pc,          \* per thread: the step it does next
    peer,        \* per worker: the client certificate of its connection
    config,      \* per worker: the CRL of the acceptor it took
    target,      \* per thread: the certificate it revokes
    number,      \* per thread: the CRL number it took
    crl,         \* per thread: the CRL it signed
    crashes,     \* crashes so far
    published,   \* history: the last CRL signed
    answered,    \* history: revocations answered 200
    failed,      \* history: revocations answered 500, until a CRL has them
    late         \* history: workers that took the acceptor after the
                 \* revocation of their client was answered 200

process == <<acceptor, pc, peer, config, target, number, crl>>
store   == <<known, revoked>>
history == <<published, answered, failed, late>>
vars == <<phase, store, file, numberFile, crlFile, process, crashes, history>>

Connected == {"handshake", "request"}
Refreshing == {"number", "truncNumber", "writeNumber", "list", "truncCrl",
               "writeCrl", "replace"}
Steps == {"idle", "save", "reply"} \cup Connected \cup Refreshing

TypeOK ==
    /\ phase \in {"down", "starting", "up"}
    /\ known \in {{}, Certs} /\ revoked \subseteq known
    /\ saved \in Damaged \cup SUBSET Certs
    /\ temporary \in {Missing} \cup Damaged \cup SUBSET Certs
    /\ io \in [Workers -> Places]
    /\ numberFile \in 0..MaxNumber \cup {Blank}
    /\ crlFile \in Crl \cup {Blank, Torn}
    /\ acceptor \in Crl
    /\ pc \in [Threads -> Steps]
    /\ peer \in [Workers -> Clients] /\ config \in [Workers -> Crl]
    /\ target \in [Threads -> Clients]
    /\ number \in [Threads -> 0..MaxNumber] /\ crl \in [Threads -> Crl]
    /\ crashes \in 0..MaxCrashes
    /\ published \in Crl
    /\ answered \subseteq Certs /\ failed \subseteq Certs
    /\ late \subseteq Workers
    /\ \A t \in Threads : pc[t] # "idle" => phase = IF t = Boot THEN "starting"
                                                               ELSE "up"

\* What a process starts with.
AllIdle   == [t \in Threads |-> "idle"]
NoPeers   == [w \in Workers |-> Unrecorded]
NoConfigs == [w \in Workers |-> NoCrl]
NoTargets == [t \in Threads |-> Unrecorded]
NoNumbers == [t \in Threads |-> 0]
NoCrls    == [t \in Threads |-> NoCrl]

Init ==
    /\ phase = "down"
    /\ known = {} /\ revoked = {}
    /\ saved = {} /\ temporary = Missing
    /\ io = [w \in Workers |-> "none"]
    /\ numberFile = 0 /\ crlFile = Blank
    /\ acceptor = NoCrl
    /\ pc = AllIdle /\ peer = NoPeers /\ config = NoConfigs
    /\ target = NoTargets /\ number = NoNumbers /\ crl = NoCrls
    /\ crashes = 0
    /\ published = NoCrl
    /\ answered = {} /\ failed = {} /\ late = {}

-----------------------------------------------------------------------------
(* How a thread moves on, answers, or gives up.                            *)

Goto(t, step) == pc' = [pc EXCEPT ![t] = step]

\* The connection is closed and its task ends.
Close(t) ==
    /\ Goto(t, "idle")
    /\ peer' = IF t \in Workers THEN [peer EXCEPT ![t] = Unrecorded] ELSE peer
    /\ config' = IF t \in Workers THEN [config EXCEPT ![t] = NoCrl] ELSE config
    /\ target' = [target EXCEPT ![t] = Unrecorded]
    /\ number' = [number EXCEPT ![t] = 0]
    /\ crl' = [crl EXCEPT ![t] = NoCrl]
    /\ late' = late \ {t}

\* An error: main exits, a handler answers 500.
FailAgain(t) ==
    /\ Goto(t, "number")
    /\ UNCHANGED <<phase, store, acceptor, peer, config, target, number, crl,
                   failed, late>>
Fail(t) ==
    /\ Close(t)
    /\ IF t = Boot
       THEN /\ phase' = "down" /\ known' = {} /\ revoked' = {}
            /\ UNCHANGED failed
       ELSE failed' = failed \cup {target[t]} /\ UNCHANGED <<phase, store>>
    /\ UNCHANGED acceptor

-----------------------------------------------------------------------------
(* http.rs: one connection.                                                *)

TakeAcceptor(w, c) ==
    /\ phase = "up"
    /\ pc[w] = "idle"
    /\ Goto(w, "handshake")
    /\ peer' = [peer EXCEPT ![w] = c]
    /\ config' = [config EXCEPT ![w] = acceptor]
    /\ late' = IF c \in answered THEN late \cup {w} ELSE late
    /\ UNCHANGED <<phase, store, file, numberFile, crlFile, acceptor, target,
                   number, crl, crashes, published, answered, failed>>

\* The client verifier checks the end-entity certificate against the CRL.
Handshake(w) ==
    /\ pc[w] = "handshake"
    /\ peer[w] \notin config[w].certs
    /\ Goto(w, "request")
    /\ UNCHANGED <<phase, store, file, numberFile, crlFile, acceptor, peer,
                   config, target, number, crl, crashes, history>>

\* The handshake fails, the client goes away, or its request is not a
\* revocation of a known certificate (404 and the other handlers).
Leave(w) ==
    /\ pc[w] \in Connected
    /\ Close(w)
    /\ UNCHANGED <<phase, store, file, numberFile, crlFile, acceptor,
                   crashes, published, answered, failed>>

\* POST /v1/certificates/<id>/revoke: CertificateStore::revoke, in memory.
Revoke(w, c) ==
    /\ w \in Revokers
    /\ pc[w] = "request"
    /\ WriteLockFree
    /\ c \in known
    /\ revoked' = revoked \cup {c}
    /\ target' = [target EXCEPT ![w] = c]
    /\ Goto(w, "save")
    /\ UNCHANGED <<phase, known, file, numberFile, crlFile, acceptor, peer,
                   config, number, crl, crashes, history>>

\* Its persist, up to the rename.
Persist(w) ==
    /\ pc[w] = "save"
    /\ OpenTemporary(w) \/ Write(w, revoked)
    /\ UNCHANGED <<phase, store, numberFile, crlFile, process, crashes,
                   history>>

SaveAfterRefresh(w) ==
    /\ pc[w] = "save"
    /\ Goto(w, "number")
    /\ UNCHANGED <<phase, store, file, numberFile, crlFile, acceptor, peer,
                   config, target, number, crl, crashes, history>>
Save(w) ==
    /\ pc[w] = "save"
    /\ Rename(w)
    /\ Goto(w, "number")
    /\ UNCHANGED <<phase, store, numberFile, crlFile, acceptor, peer, config,
                   target, number, crl, crashes, history>>

\* Revoked in memory, and not refreshed.
SaveFails(w) ==
    /\ pc[w] = "save"
    /\ \/ RenameMissing(w)
       \/ /\ "save" \in Faults
          /\ OpenFails(w) \/ WriteFails(w) \/ RenameFails(w)
    /\ Fail(w)
    /\ UNCHANGED <<numberFile, crlFile, crashes, published, answered>>

-----------------------------------------------------------------------------
(* crl.rs: next_crl_number, generate_and_persist.                          *)

NextNumberStuck(n) == n
NextNumber(n)      == n + 1

\* checked_add
NeverExhausted(n) == FALSE
Exhausted(n)      == n = MaxNumber

ReadNumber(t) ==
    /\ pc[t] = "number"
    /\ numberFile # Blank /\ ~Exhausted(numberFile)
    /\ number' = [number EXCEPT ![t] = NextNumber(numberFile)]
    /\ Goto(t, "truncNumber")
    /\ UNCHANGED <<phase, store, file, numberFile, crlFile, acceptor, peer,
                   config, target, crl, crashes, history>>

\* "invalid persisted CRL number", "CRL number exhausted", a read error.
NoNumber(t) ==
    /\ pc[t] = "number"
    /\ numberFile = Blank \/ Exhausted(numberFile) \/ "number" \in Faults
    /\ Fail(t)
    /\ UNCHANGED <<file, numberFile, crlFile, crashes, published, answered>>

\* fs::write truncates, then writes.
TruncateNumber(t) ==
    /\ pc[t] = "truncNumber"
    /\ numberFile' = Blank
    /\ Goto(t, "writeNumber")
    /\ UNCHANGED <<phase, store, file, crlFile, acceptor, peer, config,
                   target, number, crl, crashes, history>>

\* Two threads between truncate and write: the last number stays.  (Of two
\* numbers of different length more could stay; the bound has one digit.)
WriteNumber(t) ==
    /\ pc[t] = "writeNumber"
    /\ numberFile' = number[t]
    /\ Goto(t, "list")
    /\ UNCHANGED <<phase, store, file, crlFile, acceptor, peer, config,
                   target, number, crl, crashes, history>>

\* The open fails, with the old number in place, or the write.
WriteNumberFails(t) ==
    /\ "number" \in Faults
    /\ pc[t] \in {"truncNumber", "writeNumber"}
    /\ Fail(t)
    /\ UNCHANGED <<file, numberFile, crlFile, crashes, published, answered>>

\* Every revoked record of the store goes on the CRL.
ListedNewest(t) == IF t = Boot THEN revoked ELSE {target[t]}
Listed(t)       == revoked

ListAndSign(t) ==
    /\ pc[t] = "list"
    /\ LET signed == [number |-> number[t], certs |-> Listed(t)]
       IN  crl' = [crl EXCEPT ![t] = signed] /\ published' = signed
    /\ Goto(t, "truncCrl")
    /\ UNCHANGED <<phase, store, file, numberFile, crlFile, acceptor, peer,
                   config, target, number, crashes, answered, failed, late>>

TruncateCrl(t) ==
    /\ pc[t] = "truncCrl"
    /\ crlFile' = Blank
    /\ Goto(t, "writeCrl")
    /\ UNCHANGED <<phase, store, file, numberFile, acceptor, peer, config,
                   target, number, crl, crashes, history>>

\* A CRL written over a longer one leaves the end of the longer one.
Overwrite(old, new) ==
    IF old \in Crl /\ Cardinality(old.certs) > Cardinality(new.certs)
    THEN Torn
    ELSE new

WriteCrl(t) ==
    /\ pc[t] = "writeCrl"
    /\ crlFile' = IF crlFile = Torn THEN Torn ELSE Overwrite(crlFile, crl[t])
    /\ Goto(t, "replace")
    /\ UNCHANGED <<phase, store, file, numberFile, acceptor, peer, config,
                   target, number, crl, crashes, history>>

WriteCrlIgnored(t) ==
    /\ pc[t] = "writeCrl"
    /\ Goto(t, "replace")
    /\ UNCHANGED <<phase, store, file, numberFile, crlFile, acceptor, peer,
                   config, target, number, crl, crashes, history>>
\* The CRL is not signed, its file not opened, or not written.
WriteCrlFails(t) ==
    /\ "crl" \in Faults
    /\ pc[t] \in {"list", "truncCrl", "writeCrl"}
    /\ Fail(t)
    /\ UNCHANGED <<file, numberFile, crlFile, crashes, published, answered>>

-----------------------------------------------------------------------------
(* tls/manager.rs: refresh ends; bin/server.rs: so does start-up.          *)

\* The configuration is built from the CRL of the caller's own generate.
ConfigCrlBefore(t) == acceptor
ConfigCrl(t)       == crl[t]

Replace(w) ==
    /\ w \in Workers
    /\ pc[w] = "replace"
    /\ acceptor' = ConfigCrl(w)
    /\ failed' = failed \ acceptor'.certs
    /\ Goto(w, "reply")
    /\ UNCHANGED <<phase, store, file, numberFile, crlFile, peer, config,
                   target, number, crl, crashes, published, answered, late>>

Reply200(w) ==
    /\ pc[w] = "reply"
    /\ answered' = answered \cup {target[w]}
    /\ Close(w)
    /\ UNCHANGED <<phase, store, file, numberFile, crlFile, acceptor,
                   crashes, published, failed>>

\* "Daemon PKI API ready"
Listen ==
    /\ pc[Boot] = "replace"
    /\ acceptor' = crl[Boot]
    /\ failed' = failed \ crl[Boot].certs
    /\ phase' = "up"
    /\ Close(Boot)
    /\ UNCHANGED <<store, file, numberFile, crlFile, crashes, published,
                   answered>>

-----------------------------------------------------------------------------
(* The process.                                                            *)

\* A blank certificates.json is a store without records.
Disk == IF Whole THEN saved ELSE {}

\* systemd: Restart=always.  A torn file does not open, and nothing starts.
Start ==
    /\ phase = "down"
    /\ saved # Torn
    /\ phase' = "starting"
    /\ known' = IF Whole THEN Certs ELSE {}
    /\ revoked' = Disk
    /\ Goto(Boot, "number")
    /\ UNCHANGED <<file, numberFile, crlFile, acceptor, peer, config, target,
                   number, crl, crashes, history>>

\* The process ends at any step; so does the loop of `run` when accept fails.
Crash ==
    /\ phase # "down"
    /\ crashes < MaxCrashes
    /\ crashes' = crashes + 1
    /\ phase' = "down"
    /\ known' = {} /\ revoked' = {}
    /\ LoseSaves
    /\ acceptor' = NoCrl
    /\ pc' = AllIdle /\ peer' = NoPeers /\ config' = NoConfigs
    /\ target' = NoTargets /\ number' = NoNumbers /\ crl' = NoCrls
    /\ late' = {}
    /\ UNCHANGED <<numberFile, crlFile, published, answered, failed>>

Refresh(t) ==
    \/ ReadNumber(t) \/ NoNumber(t)
    \/ TruncateNumber(t) \/ WriteNumber(t) \/ WriteNumberFails(t)
    \/ ListAndSign(t)
    \/ TruncateCrl(t) \/ WriteCrl(t) \/ WriteCrlFails(t)

Connection(w) ==
    \/ \E c \in Clients : TakeAcceptor(w, c)
    \/ Handshake(w)
    \/ Leave(w)
    \/ \E c \in Certs : Revoke(w, c)

\* What runs without waiting for a client.
Handler(w) ==
    \/ Persist(w) \/ Save(w) \/ SaveFails(w)
    \/ Refresh(w) \/ Replace(w) \/ Reply200(w)
StartUp    == Start \/ Refresh(Boot) \/ Listen

Next == (\E w \in Workers : Connection(w) \/ Handler(w)) \/ StartUp \/ Crash

Spec == Init /\ [][Next]_vars

FairSpec ==
    Spec /\ WF_vars(StartUp) /\ \A w \in Workers : WF_vars(Handler(w))

-----------------------------------------------------------------------------
(* Safety                                                                  *)

\* A client whose revocation was answered 200 is refused by every handshake
\* that starts after the answer, over restarts too
\* (revoked_client_certificate_is_rejected_after_crl_refresh).
RevokedIsRefused ==
    \A w \in Workers : pc[w] \notin {"idle", "handshake"} => w \notin late

\* The acceptor misses a revoked certificate only while its revocation is in
\* progress, or after it was answered 500.
InProgress == {target[w] : w \in {v \in Workers : pc[v] # "idle"}}
NoSilentGap ==
    phase = "up" => revoked \subseteq acceptor.certs \cup InProgress \cup failed

\* Nobody is refused whose revocation is not on disk: a restart never takes
\* back a revocation the listener has enforced.
EnforcedIsSaved == acceptor.certs \subseteq Disk

\* Abstraction: every certificate is issued, some are revoked on disk, and
\* 200 stands for that.
Ledger == INSTANCE CertificateLedger
    WITH Ids <- Certs, Reasons <- {"revoked"},
         ledger <- [c \in Certs |-> IF c \in Disk THEN "revoked"
                                    ELSE "issued"],
         told <- {[id |-> c, status |-> "revoked"] : c \in answered}

\* A revocation is on disk before it is answered 200, and no later save,
\* failure or restart takes one off the disk again.
ImplementsLedger == Ledger!Spec

\* Every signed CRL has a higher number than the one before, and still lists
\* what that one listed.
CrlsAdvance ==
    [][published' # published =>
         /\ published'.number > published.number
         /\ published.certs \subseteq published'.certs]_published

\* The distribution file is the CRL the listener enforces, unless a refresh
\* is running or a revocation was answered 500 since the last good one.
CrlFileIsEnforced ==
    /\ phase = "up"
    /\ failed = {}
    /\ \A w \in Workers : pc[w] \notin Refreshing
    => crlFile = acceptor

(* Liveness                                                                *)

\* A revocation that was begun is answered, or the process dies.
RevocationAnswered ==
    \A w \in Workers : pc[w] = "save" ~> pc[w] = "idle"

\* "Restart=always": the server comes back after a crash.
ComesBack == phase = "down" ~> phase = "up"
=============================================================================
