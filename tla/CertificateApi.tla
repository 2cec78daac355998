--------------------------- MODULE CertificateApi ---------------------------
(***************************************************************************)
(* The HTTP API of daemon-pki-api: what a connection may do once its mTLS  *)
(* handshake is done (http.rs), the issuance service it calls (issuance.rs *)
(* and daemon-pki-core/src/certificate/issuance.rs) and the audit log      *)
(* (audit/mod.rs).                                                         *)
(*                                                                         *)
(* A connection carries one request, in one read, and is then closed.      *)
(* Connections run on several threads: the store, its file and the audit   *)
(* log change one step at a time between them.  The file is saved as in    *)
(* SavedFile, where overlapping saves get into each other's way.  A        *)
(* request is reduced to what the checks look at.  The refresh of the TLS  *)
(* acceptor succeeds or fails here; RevocationService models it.           *)
(***************************************************************************)
EXTENDS Naturals, Sequences, HashMaps, SavedFile

CONSTANTS
    Conns,        \* connections, one request each
    Clients,      \* authenticated identities, by certificate fingerprint
    Issuers,      \* certificate_issue_identities
    IssueBodies,  \* the issue requests explored, of type IssueRequest
    Policy,       \* IssuancePolicy of the service
    Ids,          \* record ids
    Reasons,      \* revocation reasons sent
    Unspecified,  \* "revoked by operator"
    Faults,       \* which of "save", "refresh" may fail
    None

IssueRequest ==
    [name      : Nat,       \* length of the common name
     blank     : BOOLEAN,   \* the common name is only white space
     dns       : Nat,       \* number of DNS names
     ips       : Nat,       \* number of IP addresses
     badDns    : BOOLEAN,   \* a DNS name that is no valid SAN
     badIp     : BOOLEAN,   \* an address that does not parse
     client    : BOOLEAN,
     server    : BOOLEAN]

Codes == {200, 201, 400, 403, 404, 500}

ASSUME ApiAssumption ==
    /\ Issuers \subseteq Clients
    /\ IssueBodies \subseteq IssueRequest
    /\ Policy \in [dns : Nat, ips : Nat, name : Nat, server : BOOLEAN,
                   client : BOOLEAN]
    /\ None \notin Reasons \cup {Unspecified}
    /\ None \notin Conns /\ None \notin Codes
    /\ Faults \subseteq {"save", "refresh"}

\* None: a body or an id that does not parse.
Requests ==
    [op : {"issue"}, body : IssueBodies \cup {None}]
    \cup [op : {"revoke"}, id : Ids \cup {None},
          reason : Reasons \cup {Unspecified, None}]
    \cup [op : {"get"}, id : Ids \cup {None}]
    \cup [op : {"list", "health", "unknown", "incomplete", "garbage"}]

\* A record: the request that made it, the reason and the request of its
\* revocation (which stands for revoked_at).
Records == [by : Conns, reason : Reasons \cup {Unspecified, None},
            revokedBy : Conns \cup {None}]
Events == [by : Conns,
           type : {"AuthorizationDenied", "PolicyDenied", "CertificateIssued"},
           outcome : {"Denied", "Failure", "Success"}]

VARIABLES
    client, request,  \* per connection: who asks for what
    pc,               \* per connection: the step it does next
    answer,           \* per connection: the status code written
    store,            \* Id -> record, in memory
    audit,            \* the audit log, events tagged with their connection
    spoilt            \* history: a write has failed since a rename last put
                      \* a whole file in place

vars == <<client, request, pc, answer, store, audit, file, spoilt>>

Images == MapsFrom(Ids, Records) \cup Damaged
ASSUME FileAssumption ==
    /\ {Missing, Blank, Torn} \cap MapsFrom(Ids, Records) = {}
    /\ Missing \notin Damaged

TypeOK ==
    /\ client \in [Conns -> Clients \cup {None}]
    /\ request \in [Conns -> Requests \cup {None}]
    /\ pc \in [Conns -> {"accept", "handle", "save", "audit", "saveRevoked",
                         "refresh", "done", "closed"}]
    /\ answer \in [Conns -> Codes \cup {None}]
    /\ store \in MapsFrom(Ids, Records)
    /\ saved \in Images /\ temporary \in Images \cup {Missing}
    /\ io \in [Conns -> Places]
    /\ audit \in Seq(Events)
    /\ spoilt \in BOOLEAN
    /\ \A k \in Conns : (answer[k] # None) <=> (pc[k] = "done")

Init ==
    /\ client = [k \in Conns |-> None]
    /\ request = [k \in Conns |-> None]
    /\ pc = [k \in Conns |-> "accept"]
    /\ answer = [k \in Conns |-> None]
    /\ store = EmptyMap /\ audit = <<>>
    /\ saved = EmptyMap /\ temporary = Missing
    /\ io = [k \in Conns |-> "none"]
    /\ spoilt = FALSE

-----------------------------------------------------------------------------
(* The checks on an issue request, in the service and again in the core.   *)

\* IssuanceService::validate_request, and the parsing of its addresses.
SanOptional(r)  == TRUE
SanPresent(r)   == r.dns > 0 \/ r.ips > 0
NamesOffByOne(r) == r.dns <= Policy.dns + 1 /\ r.ips <= Policy.ips
NamesWithin(r)  == r.dns <= Policy.dns /\ r.ips <= Policy.ips

ServiceAccepts(r) ==
    /\ ~r.blank
    /\ r.name <= Policy.name
    /\ NamesWithin(r)
    /\ SanPresent(r)
    /\ r.client \/ r.server
    /\ Policy.server => r.server
    /\ Policy.client => r.client
    /\ ~r.badIp

\* CertificateIssuer::validate_request, and the conversion of DNS names.
MaxNames      == 100
MaxNameLength == 253

CoreAccepts(r) ==
    /\ ~r.blank \/ r.dns > 0 \/ r.ips > 0
    /\ r.name <= MaxNameLength
    /\ r.dns <= MaxNames
    /\ r.ips <= MaxNames
    /\ r.client \/ r.server
    /\ ~r.badDns

-----------------------------------------------------------------------------
(* http.rs                                                                 *)

\* AuthorizationPolicy: can_issue_certificates, and the roles it leads to.
AnyClientMayAct(k) == client[k] \in Clients
MayAct(k)          == client[k] \in Issuers

AnswerKeepAlive(k, code) ==
    /\ answer' = [answer EXCEPT ![k] = code]
    /\ pc' = [pc EXCEPT ![k] = "handle"]
Answer(k, code) ==
    /\ answer' = [answer EXCEPT ![k] = code]
    /\ pc' = [pc EXCEPT ![k] = "done"]

Goto(k, step) == pc' = [pc EXCEPT ![k] = step] /\ UNCHANGED answer

Unrecorded(k, type, outcome) == UNCHANGED audit
Record(k, type, outcome) ==
    audit' = Append(audit, [by |-> k, type |-> type, outcome |-> outcome])

\* One read: a body sent in a later segment is not seen.  Without its body
\* an issue request does not parse and a revocation gives no reason.
Seen(r, split) ==
    IF ~split THEN r
    ELSE CASE r.op = "issue"  -> [r EXCEPT !.body = None]
           [] r.op = "revoke" -> [r EXCEPT !.reason = Unspecified]
           [] OTHER           -> r

Read(k) ==
    /\ pc[k] = "accept"
    /\ \E c \in Clients, r \in Requests, split \in BOOLEAN :
         /\ client' = [client EXCEPT ![k] = c]
         /\ request' = [request EXCEPT ![k] = Seen(r, split)]
    /\ Goto(k, "handle")
    /\ UNCHANGED <<store, audit, file, spoilt>>

Handles(k, op) == pc[k] = "handle" /\ request[k].op = op

\* Answers that need nothing but the request and the map.
AnswerPlain(k) ==
    /\ \/ Handles(k, "health") /\ Answer(k, 200)
       \/ Handles(k, "unknown") /\ Answer(k, 404)
       \/ Handles(k, "incomplete") /\ Answer(k, 400)
       \/ Handles(k, "issue") /\ request[k].body = None /\ Answer(k, 400)
    /\ UNCHANGED <<client, request, store, audit, file, spoilt>>

\* Nothing read, or no HTTP: closed without an answer.
CloseSilently(k) ==
    /\ Handles(k, "garbage")
    /\ Goto(k, "closed")
    /\ UNCHANGED <<client, request, store, audit, file, spoilt>>

\* handle_list_certificates, handle_get_certificate.
AnswerQuery(k) ==
    /\ \/ /\ Handles(k, "list")
          /\ Answer(k, IF MayAct(k) THEN 200 ELSE 403)
       \/ /\ Handles(k, "get")
          /\ Answer(k, CASE ~MayAct(k)                    -> 403
                         [] request[k].id = None          -> 400
                         [] request[k].id \in DOMAIN store -> 200
                         [] OTHER                         -> 404)
    /\ UNCHANGED <<client, request, store, audit, file, spoilt>>

-----------------------------------------------------------------------------
(* persist, of the whole map, for either change of it.                     *)

\* Up to the rename.
Persists(k) ==
    /\ pc[k] \in {"save", "saveRevoked"}
    /\ OpenTemporary(k) \/ Write(k, store)
    /\ UNCHANGED <<client, request, pc, answer, store, audit, spoilt>>

Installs(k) ==
    /\ Rename(k)
    /\ spoilt' = (spoilt /\ temporary \in Damaged)

PersistFails(k) ==
    \/ /\ "save" \in Faults
       /\ WriteFails(k)
       /\ spoilt' = TRUE
    \/ /\ \/ RenameMissing(k)
          \/ "save" \in Faults /\ (OpenFails(k) \/ RenameFails(k))
       /\ UNCHANGED spoilt

-----------------------------------------------------------------------------
(* handle_issue and IssuanceService::issue.                                *)

Issues(k) == Handles(k, "issue") /\ request[k].body # None

\* Each refusal is one audit event and one answer.
Refuse(k, type, outcome, code) ==
    /\ Record(k, type, outcome)
    /\ Answer(k, code)
    /\ UNCHANGED <<client, request, store, file, spoilt>>

IssueUnauthorized(k) ==
    /\ Issues(k) /\ ~MayAct(k)
    /\ Refuse(k, "AuthorizationDenied", "Denied", 403)

IssueDenied(k) ==
    /\ Issues(k) /\ MayAct(k) /\ ~ServiceAccepts(request[k].body)
    /\ Refuse(k, "PolicyDenied", "Denied", 400)

IssueFails(k) ==
    /\ Issues(k) /\ MayAct(k) /\ ServiceAccepts(request[k].body)
    /\ ~CoreAccepts(request[k].body)
    /\ Refuse(k, "CertificateIssued", "Failure", 400)

\* The CA signs and the record enters the map: insert, in memory.
Sign(k) ==
    /\ Issues(k) /\ MayAct(k)
    /\ ServiceAccepts(request[k].body) /\ CoreAccepts(request[k].body)
    /\ WriteLockFree
    /\ \E id \in Ids \ DOMAIN store :
         store' = Put(store, id, [by |-> k, reason |-> None,
                                  revokedBy |-> None])
    /\ Goto(k, "save")
    /\ UNCHANGED <<client, request, audit, file, spoilt>>

SaveIssued(k) ==
    /\ pc[k] = "save"
    /\ Installs(k)
    /\ Goto(k, "audit")
    /\ UNCHANGED <<client, request, store, audit>>

\* No audit event, and the record stays in the map.
SaveIssuedFails(k) ==
    /\ pc[k] = "save"
    /\ PersistFails(k)
    /\ Answer(k, 400)
    /\ UNCHANGED <<client, request, store, audit>>

AuditIssued(k) ==
    /\ pc[k] = "audit"
    /\ Record(k, "CertificateIssued", "Success")
    /\ Answer(k, 201)
    /\ UNCHANGED <<client, request, store, file, spoilt>>

-----------------------------------------------------------------------------
(* handle_revoke_certificate                                               *)

RevokeRefused(k) ==
    /\ Handles(k, "revoke")
    /\ \/ ~MayAct(k) /\ Answer(k, 403)
       \/ /\ MayAct(k)
          /\ request[k].id = None \/ request[k].reason = None
          /\ Answer(k, 400)
       \/ /\ MayAct(k)
          /\ request[k].id # None /\ request[k].reason # None
          /\ request[k].id \notin DOMAIN store /\ WriteLockFree
          /\ Answer(k, 404)
    /\ UNCHANGED <<client, request, store, audit, file, spoilt>>

\* The first revocation wins, its time and its reason together.
ReasonRewritten(k, record) ==
    [record EXCEPT !.reason = request[k].reason,
                   !.revokedBy = IF record.reason = None THEN k ELSE @]
RevokedFirst(k, record) ==
    IF record.reason # None THEN record
    ELSE [record EXCEPT !.reason = request[k].reason, !.revokedBy = k]

RevokeUnsaved(k) ==
    /\ Handles(k, "revoke") /\ MayAct(k)
    /\ request[k].id \in DOMAIN store /\ request[k].reason # None
    /\ WriteLockFree
    /\ store' = Put(store, request[k].id, RevokedFirst(k, store[request[k].id]))
    /\ Goto(k, "refresh")
    /\ UNCHANGED <<client, request, audit, file, spoilt>>
Revoke(k) ==
    /\ Handles(k, "revoke") /\ MayAct(k)
    /\ request[k].id \in DOMAIN store /\ request[k].reason # None
    /\ WriteLockFree
    /\ store' = Put(store, request[k].id, RevokedFirst(k, store[request[k].id]))
    /\ Goto(k, "saveRevoked")
    /\ UNCHANGED <<client, request, audit, file, spoilt>>

SaveRevoked(k) ==
    /\ pc[k] = "saveRevoked"
    /\ Installs(k)
    /\ Goto(k, "refresh")
    /\ UNCHANGED <<client, request, store, audit>>

SaveRevokedFails(k) ==
    /\ pc[k] = "saveRevoked"
    /\ PersistFails(k)
    /\ Answer(k, 500)
    /\ UNCHANGED <<client, request, store, audit>>

\* TlsAcceptorManager::refresh
RefreshEnds(k) ==
    /\ pc[k] = "refresh"
    /\ Answer(k, 200) \/ ("refresh" \in Faults /\ Answer(k, 500))
    /\ UNCHANGED <<client, request, store, audit, file, spoilt>>

Connection(k) ==
    \/ Read(k)
    \/ AnswerPlain(k) \/ CloseSilently(k) \/ AnswerQuery(k)
    \/ IssueUnauthorized(k) \/ IssueDenied(k) \/ IssueFails(k)
    \/ Persists(k)
    \/ Sign(k) \/ SaveIssued(k) \/ SaveIssuedFails(k) \/ AuditIssued(k)
    \/ RevokeRefused(k) \/ Revoke(k)
    \/ SaveRevoked(k) \/ SaveRevokedFails(k) \/ RefreshEnds(k)

Next == \E k \in Conns : Connection(k)

Spec == Init /\ [][Next]_vars

-----------------------------------------------------------------------------
(* Safety                                                                  *)

EventsOf(k) == {i \in DOMAIN audit : audit[i].by = k}
RecordsOf(k) == {id \in DOMAIN store : store[id].by = k}

\* "Every issuance request is authorized", "Explicit SAN requirements",
\* "Explicit EKU requirements": every record of the store was asked for by
\* an issuer, in a request with a name, a SAN and a usage within both limits.
RecordsAreEarned ==
    \A id \in DOMAIN store :
        LET k == store[id].by IN
        /\ client[k] \in Issuers
        /\ request[k].op = "issue"
        /\ LET r == request[k].body IN
           /\ ~r.blank /\ (r.dns > 0 \/ r.ips > 0) /\ (r.client \/ r.server)
           /\ r.name <= Policy.name /\ r.name <= MaxNameLength
           /\ r.dns <= Policy.dns /\ r.dns <= MaxNames
           /\ r.ips <= Policy.ips /\ r.ips <= MaxNames
           /\ ~r.badIp /\ ~r.badDns

\* Every decision of the issuance service is logged once, with the outcome
\* the caller is told; only a store that could not save leaves no event.
ExpectedEvent(k) ==
    CASE answer[k] = 201 -> <<"CertificateIssued", "Success">>
      [] answer[k] = 403 -> <<"AuthorizationDenied", "Denied">>
      [] answer[k] = 400 /\ ~ServiceAccepts(request[k].body)
                         -> <<"PolicyDenied", "Denied">>
      [] OTHER           -> <<"CertificateIssued", "Failure">>

IssuanceAudited ==
    \A k \in Conns :
        /\ pc[k] = "done" /\ request[k].op = "issue" /\ request[k].body # None
        /\ RecordsOf(k) = {} \/ answer[k] = 201
        => \E i \in DOMAIN audit :
             /\ EventsOf(k) = {i}
             /\ <<audit[i].type, audit[i].outcome>> = ExpectedEvent(k)

Excused == spoilt \/ \E k \in Conns : io[k] = "json"

\* The log claims no certificate that the file does not have: a whole file
\* has them all, and only a save still writing into the file in place, or a
\* write that failed, leaves one that is not whole.
SuccessIsSaved ==
    \A i \in DOMAIN audit :
        audit[i].outcome = "Success" =>
            IF Whole THEN \E id \in DOMAIN saved : saved[id].by = audit[i].by
            ELSE Excused

\* Abstraction: the status of a record; what each successful answer stands
\* for, the revocation with the reason that won in memory.
StatusOf(map) ==
    [id \in Ids |-> IF id \notin DOMAIN map THEN "absent"
                    ELSE IF map[id].reason = None THEN "issued"
                    ELSE map[id].reason]
Told ==
    {[id |-> id, status |-> "issued"] :
        id \in {i \in DOMAIN store : answer[store[i].by] = 201}}
    \cup {[id |-> request[k].id, status |-> StatusOf(store)[request[k].id]] :
        k \in {j \in Conns : answer[j] = 200 /\ request[j].op = "revoke"}}

\* A file that is not whole, because a save is writing into it or a write has
\* failed, says nothing: the ledger is then the map, which the next save
\* writes.  Any other blank file says what a restart would read, nothing.
Stored == IF Whole THEN saved ELSE IF Excused THEN store ELSE EmptyMap

Ledger == INSTANCE CertificateLedger
    WITH Reasons <- Reasons \cup {Unspecified},
         ledger <- StatusOf(Stored), told <- Told

\* No whole file takes back a record or a revocation that an earlier one had,
\* and every one has what 201 and 200 have told by then, however many saves
\* overlap.  (That a crash between two of them finds no whole file is what
\* CertificateStore shows.)
ImplementsLedger == Ledger!Spec

\* The service refuses whatever the core would, but for names that are no
\* DNS names: nothing else fails after it was authorised and accepted.
FailureIsBadDns ==
    \A i \in DOMAIN audit :
        audit[i].outcome = "Failure" => request[audit[i].by].body.badDns

\* A revoked record names the time and the reason of one and the same
\* request, by an issuer and for that record, whoever revoked it again since.
RevocationsAreEarned ==
    \A id \in DOMAIN store :
        LET r == store[id] IN
        r.reason # None =>
            /\ r.revokedBy # None
            /\ client[r.revokedBy] \in Issuers
            /\ request[r.revokedBy].op = "revoke"
            /\ request[r.revokedBy].id = id
            /\ request[r.revokedBy].reason = r.reason

\* "All security-sensitive operations generate audit events."
RevocationsAudited ==
    \A k \in Conns :
        answer[k] = 200 /\ request[k].op = "revoke" => EventsOf(k) # {}
=============================================================================
