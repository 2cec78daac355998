# Daemon PKI in TLA+

TLA+ models of the Daemon PKI repository: the certificate store and its file, the
path of a revocation to the TLS listener, the HTTP API with its issuance service and
audit log, the certificate inventory with its lifecycle, the start-up of the
CA, and the relying side: the trust store, the validation of chains and the registry of
machine identities. TLC checks them on small instances; TLAPS proves the safety of every
module for all instances.

Paths below are relative to the repository; `A` is `daemon-pki-api/src`, `C` is
`daemon-pki-core/src`.

## The system

| Component | State it keeps | Operations | Talks to |
|---|---|---|---|
| certificate store, `A/certificates.rs` | map of records behind an RwLock; `certificates.json` | insert, revoke, remove, get, list, open | called by API and issuance service on any thread; read by the CRL manager |
| CRL manager, `A/crl.rs` | `crl-number`, `intermediate-ca.crl.der` | generate_and_persist | lists the store, signs with the intermediate |
| TLS acceptor, `A/tls/manager.rs`, `server.rs` | the current acceptor behind an RwLock | current, refresh, replace | calls the CRL manager; the listener takes its acceptor |
| HTTP API, `A/http.rs` | none of its own | one task and one request per connection | issuance service, store, acceptor |
| issuance service, `A/issuance.rs` | a policy | issue | core issuer, store, audit log |
| audit log, `A/audit/mod.rs` | list of events behind an RwLock, in memory | record | written by the issuance service only |
| inventory, `C/certificate/inventory.rs`, `metadata.rs` | entries, serial index, fingerprint index | register, register_renewal, remove, revoke, mark_renewed, evaluate_lifecycle, lookups | a library: `&mut self`, no threads |
| lifecycle, `C/certificate/lifecycle.rs` | work items, held by the caller | transition, evaluate, renewal_queue, issue_replacement, renew_into_inventory | inventory, core issuer |
| start-up, `A/bin/server.rs` | three pairs of certificate and key on disk | load or create each, open the store, first CRL, listen | all of the above |
| bootstrap client, `A/bin/bootstrap-client.rs` | a client pair | read the intermediate pair, sign | shares the data directory with the server |
| identity registry, `C/identity/registry.rs` | identities by id, ids by fingerprint | register, disable, enable, revoke, authorize, get_mut | a library |
| trust store, `C/validation/trust.rs` | anchors by id | add, remove, enabled | read by the validators |
| validators, `C/validation/chain.rs`, `certificate.rs` | none | validate_der_chain, validate_leaf, validate_ca, validate_identity | the trust store; given fields by their caller |
| certificate authorities and issuer, `C/ca/root.rs`, `C/certificate/issuance.rs` | keys | generate, load, issue | make what the validators read |
| command line tool, `daemon-pki-cli/src/main.rs` | none | makes a chain, verifies it, prints it | core library |

The hard parts, and what correct means in each:

* **Store.** Several threads change the map and save it through one temporary file.
  What a call returned Ok for must survive, an older map must never replace a newer
  one, a restart must find a readable file.
* **Revocation.** A revocation is saved, listed, signed, written and put into the
  listener in steps that other revocations interleave with and that can each fail.
  An answered revocation must be enforced, one that is enforced must be saved, CRL
  numbers must rise.
* **API.** Checks are made in two layers, the store is saved and the audit log written
  in separate steps. Every record must have been asked for by an authorised client
  within both limits, every decision must be logged once and truthfully, an answer
  must be true of the disk.
* **Inventory.** Work items outlive what they were made from, evaluation stops at an
  error, a renewal changes its predecessor before it can fail. The indexes must agree
  with the entries, a revoked entry must stay revoked and get no successor.
* **Relying side.** Names, CA flags, key usages, signatures, dates and the anchor are
  checked one after another, for three certificates, in three validators that see
  different things; anchors come and go. A leaf must be accepted exactly when CAs lead to it
  from an enabled anchor; what the issuer writes must be what the validators ask for; a
  revoked identity must never act again, whatever is registered or edited.
* **Start-up.** Any of six file writes can be interrupted, another process reads along.
  The chain must be whole when the server listens, and a whole pair must never be
  replaced.

## Modules

| Module | Models | Run by |
|---|---|---|
| `DurableStore` | abstract: a map in memory and one on disk; what was promised is on disk | through `ImplementsDurable` |
| `CertificateLedger` | abstract: what the clients of the server rely on: the disk only moves forward, and answers are true of it | through `ImplementsLedger` |
| `CertificateStore` | `A/certificates.rs`, persist step by step on inodes | `MCCertificateStore` |
| `SavedFile` | the file of `A/certificates.rs` as several threads save it, for the two modules below | through them |
| `CertificateStoreProofs`, `SerialSavesProofs` | proofs about `CertificateStore`; that saves which do not overlap give `DurableStore` | `tlapm` |
| `RevocationService` | `A/crl.rs`, `A/tls/`, the accept loop and revocation of `A/http.rs`, start-up of `A/bin/server.rs` | `MCRevocationService` |
| `RevocationServiceProofs` | proofs about it | `tlapm` |
| `CertificateApi` | `A/http.rs`, `A/issuance.rs`, `A/audit/mod.rs`, the checks of `C/certificate/issuance.rs` | `MCCertificateApi` |
| `CertificateApiProofs` | proofs about it | `tlapm` |
| `CertificateInventory` | `C/certificate/inventory.rs`, `metadata.rs`, `lifecycle.rs` | `MCCertificateInventory` |
| `CertificateInventoryProofs` | proofs about it | `tlapm` |
| `CaStartup` | pairs of `A/bin/server.rs`, `A/bin/bootstrap-client.rs`, `C/ca/root.rs` | itself |
| `CaStartupProofs` | proofs about it | `tlapm` |
| `ChainValidation` | `C/validation/`, what `C/ca/root.rs` and `C/certificate/issuance.rs` write into certificates, the verification of `daemon-pki-cli/src/main.rs` | through `RelyingParty` |
| `IdentityRegistry` | `C/identity/registry.rs` | through `RelyingParty` |
| `RelyingParty` | both together: who is trusted, and who may act | `MCRelyingParty` |
| `RelyingPartyProofs` | proofs about it | `tlapm` |
| `HashMaps`, `HashMapsProofs` | `std::collections::HashMap` as a function; what its operations keep | |

The modules compose: `RevocationService` and `CertificateApi` extend `SavedFile`, so in
both a save is the steps of `persist` (truncate the shared temporary file, write, rename), and
saves of several threads truncate and rename each other's file as in the code.
`RevocationService` opens up the refresh that is one step in `CertificateApi`; `CaStartup` ends
where the start-up of `RevocationService` begins.

`SavedFile` is `CertificateStore` without inodes: a thread that has the file open knows
whether it still is the temporary one, has become `certificates.json`, or is unlinked
(`io`). That the two agree is read off the actions, not proved. Reading the map and opening
the file are one step there, because the read lock is held over both and nobody can change
the map in between.

What overlapping saves do to an answer is therefore in both models: one thread can rename the
file another has just truncated, return Ok and be answered 201 or 200 while
`certificates.json` is blank, until the other thread has written. `store_lost_file` shows
that a crash at that moment loses everything. So nothing here says that an answer is on
disk whoever saves at the same time. What the two modules do say is below, under each.

Two abstract specifications say what the layers promise, each implemented by detailed
modules:

* `DurableStore` is what the callers of the store rely on: a map in memory, a map on disk, and
  replies. `Save` is a whole save together with one reply; other calls may have taken the
  replied record further by then (`Later`). `CertificateStore` implements it when saves do not
  overlap.
* `CertificateLedger` is what the clients of the server rely on: the status of a certificate on
  disk only moves from absent to issued to revoked for one reason, and an answer tells a
  status that the disk has reached. `RevocationService` implements it over crashes as long as
  saves do not overlap (every certificate is issued, those in `Disk` are revoked, `answered` is
  what was told): with one revoker in the run, and for several under that hypothesis in the
  proof. `CertificateApi` has no crashes and implements it for any number of connections in a
  weaker sense: the ledger is what the last whole file has; while the file is not whole, because
  a save is writing into it or a write has failed, it is the map that the next save writes
  (`Stored`). A blank file with neither excuse counts as a store without records, which
  would take everything back.

Some definitions come in two forms, a faithful one (`Revoked`) and, right before it, a
plausible mistake (`RevokedAgain`). Only the faithful one is used; the other is what
the property named in `PROJECT.json` was seen to catch.

### CertificateStore

`records` is the map, `pc[t]` the place of thread `t` in `insert`/`revoke`/`remove` and then
`persist`, `snap[t]` the serialized bytes, `fd[t]` the inode its `fs::write` has open, `dir`
and `content` the two paths and what the inodes hold. `Insert`, `Revoke`, `Remove` are the
write-locked sections; `Serialize`, `OpenTemporary` (which truncates), `WriteTemporary`,
`Rename` and their failures are `persist`, under the read lock; `Crash` and `Open` are the
process. The read lock matters: a writer waits for all of them, so `Change` is enabled
only when no thread is between `Serialize` and `Rename`.

A write goes to the inode that was opened, even when somebody renamed it meanwhile.
That is how a save under way can blank the file that was just put in place, and also how
it repairs it afterwards; the invariant behind `QuiescentDiskCurrent` says just that.

Not modelled: power loss (the code calls no fsync, so nothing would hold), a poisoned
lock, other processes on the file, the fields of a record besides its status.

### RevocationService

`pc`, `peer`, `config`, `target`, `number`, `crl` are the local state of a connection task (and
of `main`, the thread `Boot`). A CRL is its number and its certificates. `Boot` and a
revoking worker run the same `Refresh` actions, as the code does. Both files are
truncated and then written. `answered`, `failed`, `published` and `late` are history
variables: what was answered 200, what was answered 500 and is not enforced yet, the last
signed CRL, and the connections that began after their client's revocation was answered.

The map is saved as in `SavedFile`. A blank file is read as a store without records
(`known`), a torn one does not open, and then `Start` is disabled. Only revocations save
here, so what a save of an issuance would do to one of a revocation at the same time is in
`CertificateApi`, not here. `revocation_single` has one revoker, so saves do not overlap in
it; its crashes and I/O errors hit every step of a save.

Two concurrent writers of `crl-number` leave the last number: exact when the numbers have
the same count of digits, which the bound 4 ensures. Two CRLs of different
length can leave a mixture, `Torn`.

Not modelled: a failure to build the configuration (its inputs other than the CRL do not
change after start-up), the validity dates of CRLs, several data directories.

### CertificateApi

`pc[k]` is the place of connection `k` in its handler. A handler is synchronous between two
steps that touch shared state, so each step is an action: read, sign and insert, save,
record the event, answer. `split` in `Read` is a request whose body came in a later segment;
the code reads once. A request is the facts the checks look at, one value for each
way of being at or over a limit (`Bodies`). `revokedBy` stands for `revoked_at`.
The audit log holds the connection of an event in place of its principal.

A save is `Persists` (truncate, write) and `Installs` (rename), or `PersistFails`; three
connections are under way at once and their saves overlap. `spoilt` is a history variable:
a write has failed since a rename last installed a whole file. `SuccessIsSaved` says that
a whole file has every certificate the log claims, and that a file that is not whole has
one of two excuses: a thread is still writing into it, or a write failed. In particular
no thread leaves a blank file behind that nobody will write. It does not say that a log
entry, or an answer, is on disk at that moment: with overlapping saves it may not be.

Not modelled: a crash (it is in `CertificateStore` and `RevocationService`), an answer lost on
the way, failures of the cryptographic library, JSON.

### CertificateInventory

Entries, both indexes, the caller's work items and a clock in seconds. Callers are
arbitrary: any operation, at any time, on any id, old work items included. An evaluation
that fails has evaluated any subset of the entries that can be evaluated, since the order
is the hash map's. The clock does not move during an evaluation. Whether an evaluation
returned Ok is told by its two disjuncts, `EvaluateAll` and `EvaluateStops`; the other calls
that return an error change nothing, but for a refused renewal, which leaves its predecessor
Renewed. `replaced`, `marked` and `assigned` are history: which entry a renewal replaced,
and which entries a caller changed through `get_mut`. The clock ticks in whole seconds and dates
fall on them; `renewal_due` compares `whole_seconds()`, so between two ticks the code is due up to
a second earlier than the exact difference says, which the model does not show.

New entries are Active, as `CertificateMetadata::new` makes them. Only the fields the
operations look at are there; workload, device, service and tags are one `owner`.

### CaStartup

A key is a number, a certificate the key it certifies and the key that signed it. Every
file write is a creation and a filling, with a crash possible between. A start that finds
half a pair, or an empty file, gives up; `Repair` is the operator who then deletes the rest
of that pair, at any moment, also while the bootstrap client is between its two reads. Without
repair the server never comes up again, which is what its error message asks the operator for.

The bootstrap client reads the certificate (`ReadCert`) and then the key (`ReadKey`), and signs
with the key it read, whatever the certificate was: of that it takes the issuer's name, which all
intermediates share. `client` is that key. So the tool can hold a certificate of one start and
the key of a later one; `ClientIsTrusted` says that the key is the listening server's
intermediate's all the same, because a pair whose certificate is readable can only be
replaced before its key is written.

### ChainValidation, IdentityRegistry, RelyingParty

A certificate is the record of the fields the validators look at: subject, issuer, key,
signing key, CA flag, key usages, purposes, names, dates. `RootCertificate`,
`IntermediateCertificate` and `LeafCertificate` are what the code issues; the instance adds
certificates that fail one check each, two CAs of one name among them. `DerChainAccepted` is
`validate_der_chain`, conjunct by conjunct; `LeafAccepted`, `CaAccepted` and `MeetsIdentity`
are the validators that are given fields, and `InputOf` is how the command line tool makes
those fields from a chain. `Verified` is the whole of its verification. The state is the
anchors of the trust store and the clock.

`TrustedLeaves` is the reference: what the CAs issue that the roots of the enabled anchors
have issued, a set built downwards from the anchors where the code goes up from the leaf.
`AcceptsExactlyTheTrusted` compares the two in every reachable state, for all chains of the
instance, so both an acceptance too many and a refusal too many would show.

The registry is two maps and `revokedPrints`, a history variable: the fingerprints that have
led to a revoked identity. `Edit` is a caller that changes what `get_mut` hands out, roles
and fingerprint; the index keeps the old one, as in the code.

A chain is validated and then its fields, in the code with a reading of the clock each; here
both see one instant. `OwnChainsValidate` and `ValidatorsAgree` are about that instant: a
certificate can expire between the two.

Not modelled: which error a refused chain gets and which anchor is named; path length
constraints (`MayCertify` says which CAs may stand where; the code issues and accepts one
depth); a caller that writes a status through `get_mut` around the operations; names, types
and times of identities.

## Runs

Bounds are CONSTANTS of the configurations.

| Run | Instance | States | Shows |
|---|---|---|---|
| `store_concurrent` | 2 threads, 2 ids, 1 reason, 2 inodes, crashes | 299 k | no stale save; the file settles; calls return |
| `store_single` | 1 thread, 2 ids, 2 reasons, 2 inodes, all faults | 176 k | acknowledged changes are kept; restarts find a readable file; implements `DurableStore` |
| `store_lost_file` | as `store_concurrent` | | **violated**: `AckedIsKept` |
| `revocation_single` | 2 connections, 1 revoker, 2 certificates, 4 numbers, 2 crashes, all faults | 683 k | enforcement, order, durability, answers; implements `CertificateLedger` |
| `revocation_stale` | 2 revokers, no faults | | **violated**: `RevokedIsRefused` |
| `revocation_restart` | a crash during start-up | | **violated**: `ComesBack` |
| `inventory` | 2 ids, 2 serials, 1 fingerprint, 2 owners, 3 instants | 328 k | indexes, terminal states, renewals, evaluation |
| `inventory_evaluate` | 3 ids, so that one revoked entry stops an evaluation after one of the others | | **violated**: `EvaluatesEveryCertificate` |
| `api` | 3 connections, 2 clients, 1 issuer, 2 ids, 10 bodies, faults | 622 k | authorization, limits, audit, what overlapping saves leave in the file; implements `CertificateLedger` |
| `api_audit` | the same | | **violated**: `RevocationsAudited` |
| `bootstrap` | 7 keys, 3 crashes | 3 k | whole chain after any interruptions |
| `relying_party` | the certificates of `MCRelyingParty` (issued ones and ones that fail one check), 2 anchor ids, 2 identities, 2 fingerprints | 8 k | exactly the trusted is accepted; own chains validate; revoked identities never act |

Why the bounds are enough:

* Two threads need two inodes: one may be `certificates.json`, one the temporary file,
  and a descriptor always refers to one that is named (three threads were tried on the
  safety properties: 13 M states, no violation). Two ids tell a lost record from an empty file.
* `MaxNumber = 4` lets two revocations and the starts around two crashes take numbers and
  then run out, which is the `checked_add` error. The same bound ends every behaviour.
* In the inventory one fingerprint is enough to collide and to be overwritten. One entry
  lifetime of 2 with a window of 1 gives the three cases: fresh, due, expired. `MaxItems`
  bounds items made one by one; the renewal queue makes two at once.
* Three connections allow two saves to overlap while a third reads, and three requests on two
  records, so that one file is truncated, renamed and written by different threads; two ids allow
  one record each. With both ids in use a third issuance is not explored.
* In `relying_party` the certificates are one good chain and, for each check, one that fails
  only it; `AnchorDers` limits which of them a caller anchors, `Folded` which names are asked
  for, `MaxTime` the clock: 0 to 2 are before, on both ends of, and after the validity of a
  leaf whose only valid instant is 1. Two anchor ids allow one root to be anchored twice.
* Three crashes and seven keys allow an interruption of each pair and its repair.

`CHECK_DEADLOCK FALSE` is set where the system may stop: all connections done (`api`), no
more keys (`bootstrap`), the clock at its bound (`inventory`). `SYMMETRY` is used where only
invariants and action properties are checked and the values are only compared.

### Fairness

* `CertificateStore!FairSpec`: a thread inside `persist` is scheduled. Nothing makes a caller
  call, and the process may die.
* `RevocationService!FairSpec`: a handler that has begun to revoke runs on (it waits for no
  client until it answers), and systemd restarts the server (`Restart=always`). Clients are
  not fair: `Connection` has no fairness.

`RwLock` fairness is not assumed: `CallsReturn` is about calls that have made their change.

## Findings

Five properties that the repository states do not hold of its code; `PROJECT.json` quotes
them.

1. `store_lost_file`: two saves share `certificates.json.tmp`; a crash after one renamed
   what the other had just truncated loses the inventory, although calls returned Ok.
2. `revocation_stale`: two overlapping revocations can end with the older CRL in the listener.
3. `revocation_restart`: a crash while `crl-number` is written leaves a file no start accepts.
4. `inventory_evaluate`: one revoked entry past its date stops the evaluation of the others.
5. `api_audit`: revocations are not audited.

The proofs say which locks would suffice against the first two: against the first, one around
`persist` (`SavesSerial`); against the second, that one and one around the refresh
(`RefreshesSerial`), since an answered revocation that a crash loses is accepted again after
the restart. That CRLs never drop a certificate of the one before, and that none lists a
revocation before it is saved, takes one around the whole revocation (`CallsSerial`).

## Proofs

Every theorem holds for all values of the constants that satisfy the named assumption of the
module (`StoreAssumption`, `ServiceAssumption`, ...; TLC evaluates each). Most are
`Spec => []Inv`, `Spec => [][A]_v` or `Spec => AbstractSpec`. Each proof has an inductive
invariant, a lemma per action or per group of actions that touch the same state, and a last
step over `Next`.

Three properties of concurrent threads are false of the code (see Findings) because no lock
covers several steps. Their theorems name the lock that is missing, as a hypothesis
`Spec /\ []Serial`, where `Serial` says that no two threads are between two given points of the
code at once; this is what a mutex between these points would give, and restricts nothing
else: crashes, failures, and the steps outside of it interleave as they like. That there is one
caller only (`OneThread`, `OneRevoker`) is a special case, stated as a corollary without the
hypothesis: it is how the runs check the properties.

**CertificateStoreProofs**: any number of threads, any faults.

* `TypeCorrect`: not inductive by itself, since a returning call adds its operation to
  `acked`; `Busy` says that a call under way has one.
* `SnapshotCorrect`: a change finds the lock free, so afterwards nobody is between serialize
  and rename (`CallsNeedTheLock`).
* `InstallCorrect`: only a rename changes what the final path names
  (`InstalledByRename`); `TemporaryIsCurrent` says that while anybody saves, a complete
  temporary file is the current map.
* `QuiescentDiskCorrect`: `LatestSettles` says that while anybody saves, the inode of the next
  rename (or of the last) holds the current map or has a writer that is about to write it
  there. It needs `Faults \subseteq {"crash"}`, the hypothesis inside the property.

**SerialSavesProofs**: any number of threads, all faults, and `SavesSerial`: no two threads hold
the read lock of `persist`. `SerialSavesKeep`, `SerialSavesReopen` and
`SerialSavesImplementDurable`, the refinement of `DurableStore`: a successful rename is `Save`, a
call is `Change`, everything else stutters. `SerialInv` says that the descriptor of the one
thread that saves is the temporary file (`OwnFile`), so that only the rename changes what a
restart reads (`DiskStays`); that the record of a call under way is what the call left or what
another call has made of it (`CallStands`); that ids nobody stored are nowhere (`FreshIsNew`); and
that what was acknowledged is also on disk (`AckedIsSaved`), which is what a crash falls back
on. `AckedAlwaysKept`, `StoreAlwaysReopens` and `StoreImplementsDurable` are the corollaries for
one thread. Without the hypothesis the first is false: `store_lost_file`.

**RevocationServiceProofs**: any number of connections and revokers, any crashes and faults, in
five parts.

1. Without a hypothesis: `TypeCorrect`. Its invariant, `BaseInv`, says which threads can work in
   which phase (`Alone`, `Cleared`), that what a thread revokes is in the map (`Aimed`), and that a
   save has written the map or nothing, so that nothing is on disk that the process does not
   know (`FileOK`).
2. `SavesSerial`: no two threads are inside `persist`. `SerialSavesImplementLedger`, the
   refinement of `CertificateLedger`, over crashes at any step of a save. `SavedInv` says
   that the file is then always whole, that what is written and not yet renamed is the map
   (`SerialFile`), and that a revocation whose save has returned is on disk (`OnDisk`).
3. `RefreshesSerial`: no two threads are between having read `crl-number` and the replacement of
   the acceptor. `SerialRefreshesLeaveNoGap`, `SerialRefreshesKeepFile`, and
   `SerialRefreshesNumber` (no two CRLs have one number), whatever saves do meanwhile. The
   invariant `SerialInv` follows the one refresh: the number it has taken (`Numbering`), that
   its list holds all that the acceptor refuses so far (`Listing`), and which of the two files it
   has written (`Writing`). The revocations of other threads come and go meanwhile.
4. Both hypotheses: `SerialServiceRefuses`. The refresh keeps an answered revocation in the
   acceptor (`AnsweredListed`) while the server is up, and the disk keeps it over a restart, which
   is where the saves come in.
5. `CallsSerial`: no two threads are anywhere between `revoke` and the answer.
   `SerialCallsEnforceSaved` and `SerialCallsAdvance`: only then does a list taken from memory
   hold nothing that another call has not saved yet, and may fail to save (`Durable`).

The last part has the corollaries for `OneRevoker`, `ServiceImplementsLedger` and
`RevokedAlwaysRefused` among them, where a thread does not overlap with itself and `main` makes
its CRL before the server listens. Without a hypothesis `RevokedIsRefused` is false:
`revocation_stale`.

**CertificateApiProofs**: any connections, clients, bodies, policy and faults, and saves that
overlap. All invariants of `api` and its refinement. `Placed` says that the connections the
records and the log name are past the point where their request could change; `Behind` that the
file is an older version of the map, so that no later save takes anything back; `UnderWay` what a
call in progress has achieved; `FileOK` who has which file open and what is in it, which is how
a blank file is known to have a writer. `OnlyNamesFail` has the limits of the policy as a
hypothesis: they must not exceed those of the core (100 names, 253 characters), as the defaults do
not. `ApiImplementsLedger` maps each action to one of `CertificateLedger`: `Save` where the file
changes, `Tell` where a connection is answered, a stutter elsewhere; what is not whole is
mapped as described above. It needs in addition that a connection stores one record
(`OneRecord`), so that a 201 stands for one certificate.

`AnswersAlwaysDurable` says of a state what is true however saves overlap: a whole file has every
answer, and one that is not whole has an excuse. `SerialAnswersOnDisk` says what is true when
they do not overlap: the file is whole and has every answer, at every moment, failing saves
included.

**CertificateInventoryProofs**: all eight properties of `inventory`, for any ids, serials,
lifetimes and window. `SerialIndexExact` needs that entries keep their serial;
`OwnersInherited` that a replacement and its predecessor are both tracked or forgotten
together.

**CaStartupProofs**: all five properties of `bootstrap`. The invariant follows `main` through
its steps (`Progress`): what has been loaded is on disk, what is being created has a missing
or blank file beside it, and every loaded pair is signed by the one loaded before.
`ClientIsTrusted` needs that the key the client has signed with is in a pair that is
whole, and thus stays.

**RelyingPartyProofs**: all five properties of `relying_party`, for any certificates, names and
instants. `AcceptsExactlyTheTrusted` is a theorem about the operators and needs only the types
of the trust store; `RevokedNeverAuthorized` needs that a fingerprint keeps leading to the
identity it was bound to and that a revoked identity stays revoked.

**HashMapsProofs**: what `Put`, `Drop` and EXCEPT do to a map of a type.

Only model-checked: liveness (`CallsReturn`, `RevocationAnswered`), since the prover has no
support for fairness. The properties that are violated are checked, not proved, naturally.
A theorem about the store for several threads says nothing of a crash between two
overlapping saves, which is where the finding is.

## Not modelled

* CRL and OCSP data types, X.509 encoding, key generation: no state of their own.
* Policy engine, CSR, crypto, further identities, agent: placeholders in the repository.
* The TLS greeting service (`A/tls/service.rs`): an accept loop that greets and closes.
* `A/tls/identity.rs` beyond the fingerprint: a hash and a name, computed once and kept
  nowhere. In `CertificateApi` a client is its fingerprint.
* Read-only queries (lists, counts, lookups by state), where no property needs them.
* Saves of issuances in `RevocationService`: its records exist from the start, and only
  revocations save. What saves of both kinds do to each other is in `CertificateApi`.
* Time in the API and the CRLs. A CRL file expires after seven days on a quiet server.
* The audit log's loss at restart: it is in memory by design.

## Plan

Done, in this order: store, revocation, inventory, API, start-up, relying side; the proofs in
the order store, relying side, start-up, inventory, API, revocation, refinement of
`DurableStore`, refinement of `CertificateLedger`, several revokers and several callers under
the lock they need, and saves that overlap in the modules that save (`SavedFile`).

Left:

1. A model in which `CertificateApi` uses the detailed refresh of `RevocationService`, so
   that issuances and two revokers meet in one run.
2. A proof that `CertificateStore` implements `SavedFile`.
3. The dates of CRLs, once something in the code reads them.
