--------------------------- MODULE ChainValidation ---------------------------
(***************************************************************************)
(* daemon-pki-core/src/validation: the trust store (trust.rs) and the      *)
(* validators of certificates against it (chain.rs, certificate.rs), with  *)
(* the certificates that ca/root.rs and certificate/issuance.rs make.      *)
(*                                                                         *)
(* The DER of a certificate is the certificate: a record of the fields the *)
(* validators look at.  A signature is the key that made it.  A key usage  *)
(* that is absent or cannot be read is empty.  Which error a refused chain *)
(* gets is left out, and so is the order of the trust store, which decides *)
(* only which of several matching anchors a result names.                  *)
(***************************************************************************)
EXTENDS Naturals, HashMaps

CONSTANTS
    Certificates,   \* the certificates that can be presented
    AnchorDers,     \* bound: the DERs that callers make anchors of
    Unparsable,     \* a DER that is empty or no certificate
    AnchorIds,
    Folded,         \* spelling of a DNS name -> the name in lower case
    Forever,        \* not_after of CertificateParams::default()
    MaxTime,        \* bound on the time explored
    Anything        \* no requirement on a name or an address

Usages == {"digitalSignature", "keyEncipherment", "certSign", "crlSign"}
Purposes == {"server", "client"}

ASSUME ChainAssumption ==
    /\ Unparsable \notin Certificates
    /\ AnchorDers \subseteq Certificates \cup {Unparsable}
    /\ Forever \in Nat /\ MaxTime \in Nat /\ MaxTime <= Forever
    /\ \A c \in Certificates :
         /\ DOMAIN c = {"subject", "issuer", "key", "signer", "ca", "usages",
                        "notBefore", "notAfter", "purposes", "dns", "ips"}
         /\ c.ca \in BOOLEAN /\ c.usages \subseteq Usages
         /\ c.notBefore \in Nat /\ c.notAfter \in Nat
         /\ c.purposes \subseteq Purposes
         /\ c.dns \subseteq DOMAIN Folded

Anchors == [der : AnchorDers, enabled : BOOLEAN]

VARIABLES
    anchors,    \* TrustStore: AnchorId -> anchor
    now         \* OffsetDateTime::now_utc

trust == <<anchors, now>>

TrustTypeOK ==
    /\ anchors \in MapsFrom(AnchorIds, Anchors)
    /\ now \in 0..MaxTime

TrustInit == anchors = EmptyMap /\ now = 0

-----------------------------------------------------------------------------
(* ca/root.rs, certificate/issuance.rs: the certificates made here.  None  *)
(* sets a validity: all are valid from the start of time to Forever.       *)

RootCertificate(name, key) ==
    [subject |-> name, issuer |-> name, key |-> key, signer |-> key,
     ca |-> TRUE, usages |-> {"certSign", "crlSign"},
     notBefore |-> 0, notAfter |-> Forever,
     purposes |-> {}, dns |-> {}, ips |-> {}]

IntermediateCertificate(root, name, key) ==
    [RootCertificate(name, key) EXCEPT !.issuer = root.subject,
                                       !.signer = root.key]

\* `request` is a record with a name, DNS names, addresses and purposes.
LeafCertificate(intermediate, request, key) ==
    [subject |-> request.subject, issuer |-> intermediate.subject,
     key |-> key, signer |-> intermediate.key,
     ca |-> FALSE, usages |-> {"digitalSignature", "keyEncipherment"},
     notBefore |-> 0, notAfter |-> Forever,
     purposes |-> request.purposes, dns |-> request.dns, ips |-> request.ips]

-----------------------------------------------------------------------------
(* trust.rs                                                                *)

\* add: the id is checked, the certificate is not; new() enables an anchor,
\* and nothing changes one that is in the store.
AddAnchor(id, anchor) ==
    /\ anchors' = IF id \in DOMAIN anchors THEN anchors
                                           ELSE Put(anchors, id, anchor)
    /\ UNCHANGED now

RemoveAnchor(id) == anchors' = Drop(anchors, id) /\ UNCHANGED now

Enabled == {id \in DOMAIN anchors : anchors[id].enabled}

-----------------------------------------------------------------------------
(* certificate.rs, chain.rs                                                *)

\* CertificateValidity::validate: both ends are inside.
ValidAt(c, time) == c.notBefore <= time /\ time <= c.notAfter

\* `root` is the certificate of an enabled anchor, byte by byte.
AnchoredAnyhow(root) == \E id \in DOMAIN anchors : anchors[id].der = root
Anchored(root)       == \E id \in Enabled : anchors[id].der = root

\* The issuer names of the chain, then what its CAs may do.
NamesChain(leaf, intermediate, root) ==
    leaf.issuer = intermediate.subject /\ intermediate.issuer = root.subject
MayCertify(c) == c.ca /\ "certSign" \in c.usages

\* Leaf by intermediate, intermediate by root, root by itself.
SignaturesChain(leaf, intermediate, root) ==
    /\ leaf.signer = intermediate.key
    /\ intermediate.signer = root.key
    /\ root.signer = root.key

\* validate_der_chain returns Ok.
CaLeafAccepted(leaf, intermediate, root) ==
    /\ Unparsable \notin {leaf, intermediate, root}
    /\ Anchored(root)
    /\ NamesChain(leaf, intermediate, root)
    /\ MayCertify(intermediate) /\ MayCertify(root)
    /\ SignaturesChain(leaf, intermediate, root)
    /\ \A c \in {leaf, intermediate, root} : ValidAt(c, now)
    /\ "digitalSignature" \in leaf.usages
DerChainAccepted(leaf, intermediate, root) ==
    /\ Unparsable \notin {leaf, intermediate, root}
    /\ Anchored(root)
    /\ NamesChain(leaf, intermediate, root)
    /\ MayCertify(intermediate) /\ MayCertify(root)
    /\ SignaturesChain(leaf, intermediate, root)
    /\ \A c \in {leaf, intermediate, root} : ValidAt(c, now)
    /\ ~leaf.ca /\ "digitalSignature" \in leaf.usages

\* validate_der_chain_with_revocation: the caller says what is revoked.
Accepted(leaf, intermediate, root, revoked) ==
    ~revoked /\ DerChainAccepted(leaf, intermediate, root)

\* IdentityRequirement::dns asks for a name and for server authentication.
DnsRequirement(name) ==
    [dns |-> name, ip |-> Anything, purposes |-> {"server"}]
NoRequirement == [dns |-> Anything, ip |-> Anything, purposes |-> {}]

\* daemon-pki-cli/src/main.rs: the CertificateValidationInput of a parsed
\* certificate, which the validators below look at.
InputOf(c) ==
    [notBefore |-> c.notBefore, notAfter |-> c.notAfter, isCa |-> c.ca,
     digitalSignature |-> "digitalSignature" \in c.usages,
     keyCertSign |-> "certSign" \in c.usages,
     purposes |-> c.purposes, dns |-> c.dns, ips |-> c.ips]

\* validate_identity: eq_ignore_ascii_case on DNS names.
NameMatchesExactly(input, name) == name \in input.dns
NameMatches(input, name) == \E d \in input.dns : Folded[d] = Folded[name]

MeetsIdentity(input, requirement) ==
    /\ requirement.dns = Anything \/ NameMatches(input, requirement.dns)
    /\ requirement.ip = Anything \/ requirement.ip \in input.ips
    /\ requirement.purposes \subseteq input.purposes

\* validate_leaf: any enabled anchor will do, of this certificate or not.
LeafAccepted(input, requirement) ==
    /\ ValidAt(input, now)
    /\ ~input.isCa /\ input.digitalSignature
    /\ MeetsIdentity(input, requirement)
    /\ Enabled # {}

\* validate_ca
CaAccepted(input) == ValidAt(input, now) /\ input.isCa /\ input.keyCertSign

\* main of the command line tool: the chain, then the leaf under a name.
Verified(leaf, intermediate, root, name) ==
    /\ DerChainAccepted(leaf, intermediate, root)
    /\ LeafAccepted(InputOf(leaf), DnsRequirement(name))

-----------------------------------------------------------------------------
Tick == now < MaxTime /\ now' = now + 1 /\ UNCHANGED anchors

TrustNext ==
    \/ \E id \in AnchorIds :
         \/ \E anchor \in Anchors : AddAnchor(id, anchor)
         \/ RemoveAnchor(id)
    \/ Tick

-----------------------------------------------------------------------------
(* Safety                                                                  *)

\* Reference: what a set of CAs has issued and is valid now, and the leaves
\* two such steps below the roots of the enabled anchors.
Roots ==
    {r \in Certificates : /\ \E id \in Enabled : anchors[id].der = r
                          /\ r.signer = r.key /\ ValidAt(r, now)}
IssuedBy(cas) ==
    {c \in Certificates :
        /\ ValidAt(c, now)
        /\ \E p \in cas : /\ p.ca /\ "certSign" \in p.usages
                          /\ c.issuer = p.subject /\ c.signer = p.key}
TrustedLeaves ==
    {c \in IssuedBy(IssuedBy(Roots)) :
        ~c.ca /\ "digitalSignature" \in c.usages}

\* "No implicit trust": some chain of a leaf is accepted exactly when CAs
\* that may certify lead to it from an anchor that is in the store and
\* enabled at this moment, all valid now, and its caller does not call it
\* revoked.
AcceptsExactlyTheTrusted ==
    \A revoked \in BOOLEAN :
        {leaf \in Certificates :
            \E root, intermediate \in Certificates :
                Accepted(leaf, intermediate, root, revoked)}
        = IF revoked THEN {} ELSE TrustedLeaves

\* The chains made here: what the checks ask for is what issuance puts in.
OwnChain(leaf, intermediate, root) ==
    /\ root = RootCertificate(root.subject, root.key)
    /\ intermediate = IntermediateCertificate(root, intermediate.subject,
                                              intermediate.key)
    /\ leaf = LeafCertificate(intermediate, leaf, leaf.key)

\* Every server certificate issued here is verified, with the CAs above it, as
\* long as its root is anchored, and under each of its DNS names, however they
\* are spelled ("Daemon PKI cryptographic verification: PASSED").
OwnChainsValidate ==
    \A root, intermediate, leaf \in Certificates :
        (/\ Anchored(root)
         /\ OwnChain(leaf, intermediate, root)
         /\ "server" \in leaf.purposes)
        => \A d \in leaf.dns, name \in DOMAIN Folded :
               Folded[d] = Folded[name] => Verified(leaf, intermediate, root, name)

\* The validators of fields agree with the validator of chains: each part of
\* an accepted chain is accepted by them at the same moment.
ValidatorsAgree ==
    \A root, intermediate, leaf \in Certificates :
        DerChainAccepted(leaf, intermediate, root) =>
            /\ LeafAccepted(InputOf(leaf), NoRequirement)
            /\ CaAccepted(InputOf(intermediate))
            /\ CaAccepted(InputOf(root))
=============================================================================
