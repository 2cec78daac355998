------------------------- MODULE RelyingPartyProofs -------------------------
(***************************************************************************)
(* Proofs about RelyingParty, for any certificates, anchors, identities,   *)
(* fingerprints and roles.                                                 *)
(***************************************************************************)
EXTENDS RelyingParty, HashMapsProofs

-----------------------------------------------------------------------------
(* The types.                                                              *)

LEMMA TrustStep == TrustTypeOK /\ TrustNext => TrustTypeOK'
  <1> SUFFICES ASSUME TrustTypeOK, TrustNext PROVE TrustTypeOK'
    OBVIOUS
  <1> USE DEF TrustTypeOK
  <1>1. CASE \E id \in AnchorIds, anchor \in Anchors : AddAnchor(id, anchor)
    <2>1. PICK id \in AnchorIds, anchor \in Anchors : AddAnchor(id, anchor)
      BY <1>1
    <2>2. Put(anchors, id, anchor) \in MapsFrom(AnchorIds, Anchors)
      BY <2>1, MapPut
    <2> QED
      BY <2>1, <2>2 DEF AddAnchor
  <1>2. CASE \E id \in AnchorIds : RemoveAnchor(id)
    <2>1. PICK id \in AnchorIds : RemoveAnchor(id)
      BY <1>2
    <2>2. Drop(anchors, id) \in MapsFrom(AnchorIds, Anchors)
      BY MapDrop
    <2> QED
      BY <2>1, <2>2 DEF RemoveAnchor
  <1>3. CASE Tick
    BY <1>3, ChainAssumption DEF Tick
  <1> QED
    BY <1>1, <1>2, <1>3 DEF TrustNext

\* A new identity, and the fingerprint that leads to it.
LEMMA RegisterType ==
    ASSUME RegistryTypeOK, NEW id \in Identities,
           NEW identity \in MachineIdentities, Register(id, identity)
    PROVE  RegistryTypeOK'
  <1>1. CASE Bound(id, identity.fingerprint)
    BY <1>1 DEF Register, RegistryTypeOK, registry
  <1>2. CASE ~Bound(id, identity.fingerprint)
    <2>1. identity.fingerprint \in Fingerprints
      BY DEF MachineIdentities
    <2>2. /\ identities' = Put(identities, id, identity)
          /\ fingerprints' = Put(fingerprints, identity.fingerprint, id)
          /\ revokedPrints' \subseteq revokedPrints \cup {identity.fingerprint}
      BY <1>2 DEF Register
    <2>3. /\ identities' \in MapsFrom(Identities, MachineIdentities)
          /\ DOMAIN identities' = DOMAIN identities \cup {id}
          /\ fingerprints' \in MapsFrom(Fingerprints, Identities)
          /\ DOMAIN fingerprints'
                = DOMAIN fingerprints \cup {identity.fingerprint}
      <3>1. Put(identities, id, identity)
              \in MapsFrom(Identities, MachineIdentities)
        BY MapPut DEF RegistryTypeOK
      <3>2. Put(fingerprints, identity.fingerprint, id)
              \in MapsFrom(Fingerprints, Identities)
        BY <2>1, MapPut DEF RegistryTypeOK
      <3> QED
        BY <2>2, <3>1, <3>2, PutDomain
    <2>4. \A f \in DOMAIN fingerprints' :
            fingerprints'[f] = IF f = identity.fingerprint THEN id
                                                            ELSE fingerprints[f]
      BY <2>2 DEF Put
    <2> QED
      BY <1>2, <2>2, <2>3, <2>4 DEF RegistryTypeOK, Bound
  <1> QED
    BY <1>1, <1>2

\* An identity changes and stays where it is.
LEMMA UpdateType ==
    ASSUME RegistryTypeOK, NEW id \in DOMAIN identities,
           NEW identity \in MachineIdentities,
           identities' = [identities EXCEPT ![id] = identity],
           fingerprints' = fingerprints,
           revokedPrints' \subseteq DOMAIN fingerprints
    PROVE  RegistryTypeOK'
  BY MapUpdate DEF RegistryTypeOK

LEMMA RegistryStep == RegistryTypeOK /\ RegistryNext => RegistryTypeOK'
  <1> SUFFICES ASSUME RegistryTypeOK, NEW id \in Identities,
                      \/ \E identity \in MachineIdentities : Register(id, identity)
                      \/ Disable(id) \/ Enable(id) \/ Revoke(id) \/ Unknown(id)
                      \/ \E f \in Fingerprints, roles \in SUBSET Roles :
                            Edit(id, f, roles)
               PROVE  RegistryTypeOK'
    BY DEF RegistryNext
  <1>1. ASSUME id \in DOMAIN identities
        PROVE  identities[id] \in MachineIdentities
    BY <1>1, MapValue DEF RegistryTypeOK
  <1>2. revokedPrints \subseteq DOMAIN fingerprints
    BY DEF RegistryTypeOK
  <1>3. CASE \E identity \in MachineIdentities : Register(id, identity)
    BY <1>3, RegisterType
  <1>4. CASE Disable(id)
    <2> DEFINE status == IF Settable(id) THEN "Disabled" ELSE identities[id].status
    <2>1. [identities[id] EXCEPT !.status = status] \in MachineIdentities
      BY <1>1, <1>4 DEF Disable, MachineIdentities, Statuses
    <2>2. identities' = [identities EXCEPT ![id] =
                            [identities[id] EXCEPT !.status = status]]
      BY <1>4 DEF Disable
    <2> QED
      BY <1>2, <1>4, <2>1, <2>2, UpdateType DEF Disable
  <1>5. CASE Enable(id)
    <2> DEFINE status == IF Settable(id) THEN "Active" ELSE identities[id].status
    <2>1. [identities[id] EXCEPT !.status = status] \in MachineIdentities
      BY <1>1, <1>5 DEF Enable, MachineIdentities, Statuses
    <2>2. identities' = [identities EXCEPT ![id] =
                            [identities[id] EXCEPT !.status = status]]
      BY <1>5 DEF Enable
    <2> QED
      BY <1>2, <1>5, <2>1, <2>2, UpdateType DEF Enable
  <1>6. CASE Revoke(id)
    <2>1. [identities[id] EXCEPT !.status = "Revoked"] \in MachineIdentities
      BY <1>1, <1>6 DEF Revoke, MachineIdentities, Statuses
    <2>2. identities' = [identities EXCEPT ![id] =
                            [identities[id] EXCEPT !.status = "Revoked"]]
      BY <1>6 DEF Revoke
    <2>3. revokedPrints' \subseteq DOMAIN fingerprints
      BY <1>2, <1>6 DEF Revoke, LeadingTo
    <2> QED
      BY <1>6, <2>1, <2>2, <2>3, UpdateType DEF Revoke
  <1>7. CASE \E f \in Fingerprints, roles \in SUBSET Roles : Edit(id, f, roles)
    <2>1. PICK f \in Fingerprints, roles \in SUBSET Roles : Edit(id, f, roles)
      BY <1>7
    <2> DEFINE edited == [identities[id] EXCEPT !.fingerprint = f, !.roles = roles]
    <2>2. edited \in MachineIdentities
      BY <1>1, <2>1 DEF Edit, MachineIdentities
    <2>3. identities' = [identities EXCEPT ![id] = edited]
      BY <2>1 DEF Edit
    <2> QED
      BY <1>2, <2>1, <2>2, <2>3, UpdateType DEF Edit
  <1>8. CASE Unknown(id)
    BY <1>8 DEF Unknown, RegistryTypeOK, registry
  <1> QED
    BY <1>3, <1>4, <1>5, <1>6, <1>7, <1>8

LEMMA TypeInit == Init => TypeOK
  BY MapEmpty, ChainAssumption DEF Init, TrustInit, RegistryInit, TypeOK, TrustTypeOK,
                  RegistryTypeOK

LEMMA TypeStep == TypeOK /\ [Next]_vars => TypeOK'
  <1> SUFFICES ASSUME TypeOK, [Next]_vars PROVE TypeOK'
    OBVIOUS
  <1>1. CASE TrustNext /\ UNCHANGED registry
    BY <1>1, TrustStep DEF TypeOK, RegistryTypeOK, registry
  <1>2. CASE RegistryNext /\ UNCHANGED trust
    BY <1>2, RegistryStep DEF TypeOK, TrustTypeOK, trust
  <1>3. CASE UNCHANGED vars
    BY <1>3 DEF TypeOK, TrustTypeOK, RegistryTypeOK, vars, trust, registry
  <1> QED
    BY <1>1, <1>2, <1>3 DEF Next

\* The trust store and the registry stay well typed: a fingerprint leads to a
\* registered identity, and every identity is led to.
THEOREM TypeCorrect == Spec => []TypeOK
  BY TypeInit, TypeStep, PTL DEF Spec

-----------------------------------------------------------------------------
(* The registry.  The strengthening: a fingerprint that led to a revoked   *)
(* identity leads to a revoked identity for good.                          *)

RevokedStays ==
    \A f \in revokedPrints : identities[fingerprints[f]].status = "Revoked"

LEMMA RevokedInit == Init => RevokedStays
  BY DEF Init, RegistryInit, RevokedStays

\* One identity is set, to Revoked if it was: what leads to it stays revoked.
LEMMA UpdateRevoked ==
    ASSUME RegistryTypeOK, RevokedStays, NEW id \in DOMAIN identities,
           NEW identity, identities' = [identities EXCEPT ![id] = identity],
           identities[id].status = "Revoked" => identity.status = "Revoked",
           fingerprints' = fingerprints, revokedPrints' = revokedPrints
    PROVE  RevokedStays'
  <1> SUFFICES ASSUME NEW f \in revokedPrints
               PROVE  identities'[fingerprints[f]].status = "Revoked"
    BY DEF RevokedStays
  <1>1. fingerprints[f] \in DOMAIN identities
    BY DEF RegistryTypeOK
  <1>2. identities[fingerprints[f]].status = "Revoked"
    BY DEF RevokedStays
  <1> QED
    BY <1>1, <1>2

LEMMA RegisterRevoked ==
    ASSUME RegistryTypeOK, RevokedStays, NEW id \in Identities,
           NEW identity \in MachineIdentities, Register(id, identity)
    PROVE  RevokedStays'
  <1>1. CASE Bound(id, identity.fingerprint)
    BY <1>1 DEF Register, RevokedStays, registry
  <1>2. CASE ~Bound(id, identity.fingerprint)
    <2>1. /\ identities' = Put(identities, id, identity)
          /\ fingerprints' = Put(fingerprints, identity.fingerprint, id)
      BY <1>2 DEF Register
    <2> SUFFICES ASSUME NEW f \in revokedPrints'
                 PROVE  identities'[fingerprints'[f]].status = "Revoked"
      BY DEF RevokedStays
    <2>2. CASE f = identity.fingerprint
      <3>1. f \notin revokedPrints
        BY <1>2, <2>2 DEF Bound, RegistryTypeOK
      <3>2. identity.status = "Revoked"
        BY <1>2, <3>1 DEF Register
      <3>3. fingerprints'[f] = id /\ identities'[id] = identity
        BY <2>1, <2>2 DEF Put
      <3> QED
        BY <3>2, <3>3
    <2>3. CASE f # identity.fingerprint
      <3>1. f \in revokedPrints
        BY <1>2, <2>3 DEF Register
      <3>2. f \in DOMAIN fingerprints /\ fingerprints[f] \in DOMAIN identities
        BY <3>1 DEF RegistryTypeOK
      <3>3. fingerprints'[f] = fingerprints[f]
        BY <2>1, <2>3, <3>2 DEF Put
      <3>4. fingerprints[f] # id
        BY <1>2, <3>2 DEF Bound
      <3>5. identities'[fingerprints[f]] = identities[fingerprints[f]]
        BY <2>1, <3>2, <3>4 DEF Put
      <3> QED
        BY <3>1, <3>3, <3>5 DEF RevokedStays
    <2> QED
      BY <2>2, <2>3
  <1> QED
    BY <1>1, <1>2

LEMMA RevokeRevoked ==
    ASSUME RegistryTypeOK, RevokedStays, NEW id \in Identities, Revoke(id)
    PROVE  RevokedStays'
  <1> SUFFICES ASSUME NEW f \in revokedPrints'
               PROVE  identities'[fingerprints[f]].status = "Revoked"
    BY DEF RevokedStays, Revoke
  <1>1. f \in DOMAIN fingerprints /\ fingerprints[f] \in DOMAIN identities
    BY DEF Revoke, LeadingTo, RegistryTypeOK
  <1>2. CASE fingerprints[f] = id
    <2>1. identities[id] \in MachineIdentities
      BY MapValue DEF Revoke, RegistryTypeOK
    <2> QED
      BY <1>1, <1>2, <2>1 DEF Revoke, MachineIdentities
  <1>3. CASE fingerprints[f] # id
    <2>1. f \in revokedPrints
      BY <1>3 DEF Revoke, LeadingTo
    <2> QED
      BY <1>1, <1>3, <2>1 DEF Revoke, RevokedStays
  <1> QED
    BY <1>2, <1>3

LEMMA RegistryRevoked ==
    RegistryTypeOK /\ RevokedStays /\ RegistryNext => RevokedStays'
  <1> SUFFICES ASSUME RegistryTypeOK, RevokedStays, NEW id \in Identities,
                      \/ \E identity \in MachineIdentities : Register(id, identity)
                      \/ Disable(id) \/ Enable(id) \/ Revoke(id) \/ Unknown(id)
                      \/ \E f \in Fingerprints, roles \in SUBSET Roles :
                            Edit(id, f, roles)
               PROVE  RevokedStays'
    BY DEF RegistryNext
  <1>1. CASE \E identity \in MachineIdentities : Register(id, identity)
    BY <1>1, RegisterRevoked
  <1>2. CASE Disable(id)
    <2> DEFINE status == IF Settable(id) THEN "Disabled" ELSE identities[id].status
               identity == [identities[id] EXCEPT !.status = status]
    <2>1. identities[id].status = "Revoked" => identity.status = "Revoked"
      <3>1. SUFFICES ASSUME identities[id].status = "Revoked"
                     PROVE  identity = identities[id]
        OBVIOUS
      <3>2. identities[id] \in MachineIdentities
        BY <1>2, MapValue DEF Disable, RegistryTypeOK
      <3> QED
        BY <3>1, <3>2 DEF Settable, MachineIdentities
    <2>2. identities' = [identities EXCEPT ![id] = identity]
      BY <1>2 DEF Disable
    <2> HIDE DEF identity
    <2> QED
      BY <1>2, <2>1, <2>2, UpdateRevoked DEF Disable
  <1>3. CASE Enable(id)
    <2> DEFINE status == IF Settable(id) THEN "Active" ELSE identities[id].status
               identity == [identities[id] EXCEPT !.status = status]
    <2>1. identities[id].status = "Revoked" => identity.status = "Revoked"
      <3>1. SUFFICES ASSUME identities[id].status = "Revoked"
                     PROVE  identity = identities[id]
        OBVIOUS
      <3>2. identities[id] \in MachineIdentities
        BY <1>3, MapValue DEF Enable, RegistryTypeOK
      <3> QED
        BY <3>1, <3>2 DEF Settable, MachineIdentities
    <2>2. identities' = [identities EXCEPT ![id] = identity]
      BY <1>3 DEF Enable
    <2> HIDE DEF identity
    <2> QED
      BY <1>3, <2>1, <2>2, UpdateRevoked DEF Enable
  <1>4. CASE Revoke(id)
    BY <1>4, RevokeRevoked
  <1>5. CASE \E f \in Fingerprints, roles \in SUBSET Roles : Edit(id, f, roles)
    <2>1. PICK f \in Fingerprints, roles \in SUBSET Roles : Edit(id, f, roles)
      BY <1>5
    <2> DEFINE edited == [identities[id] EXCEPT !.fingerprint = f, !.roles = roles]
    <2>2. edited.status = identities[id].status
      <3>1. identities[id] \in MachineIdentities
        BY <2>1, MapValue DEF Edit, RegistryTypeOK
      <3> QED
        BY <3>1 DEF MachineIdentities
    <2>3. identities' = [identities EXCEPT ![id] = edited]
      BY <2>1 DEF Edit
    <2>4. /\ id \in DOMAIN identities
          /\ fingerprints' = fingerprints /\ revokedPrints' = revokedPrints
      BY <2>1 DEF Edit
    <2> HIDE DEF edited
    <2> QED
      BY <2>2, <2>3, <2>4, UpdateRevoked
  <1>6. CASE Unknown(id)
    BY <1>6 DEF Unknown, RevokedStays, registry
  <1> QED
    BY <1>1, <1>2, <1>3, <1>4, <1>5, <1>6

LEMMA RevokedStep == TypeOK /\ RevokedStays /\ [Next]_vars => RevokedStays'
  <1> SUFFICES ASSUME TypeOK, RevokedStays, [Next]_vars PROVE RevokedStays'
    OBVIOUS
  <1>1. CASE RegistryNext
    BY <1>1, RegistryRevoked DEF TypeOK
  <1>2. CASE UNCHANGED registry
    BY <1>2 DEF RevokedStays, registry
  <1> QED
    BY <1>1, <1>2 DEF Next, vars

LEMMA RevokedDenied == RevokedStays => RevokedNeverAuthorized
  BY DEF RevokedStays, RevokedNeverAuthorized, Authorized

\* No sequence of enable, disable, register and get_mut lets a certificate act
\* again that led to a revoked identity.
THEOREM RevocationIsFinal == Spec => []RevokedNeverAuthorized
  BY TypeCorrect, RevokedInit, RevokedStep, RevokedDenied, PTL DEF Spec

-----------------------------------------------------------------------------
(* The chains.                                                             *)

\* What validate_der_chain accepts is what the reference definition leads to.
LEMMA AcceptedIsTrusted ==
    AcceptsExactlyTheTrusted
  <1> SUFFICES ASSUME NEW revoked \in BOOLEAN, NEW leaf \in Certificates
               PROVE  (\E root, intermediate \in Certificates :
                          Accepted(leaf, intermediate, root, revoked))
                      <=> leaf \in IF revoked THEN {} ELSE TrustedLeaves
    BY DEF AcceptsExactlyTheTrusted, TrustedLeaves, IssuedBy
  <1>1. CASE revoked
    BY <1>1 DEF Accepted
  <1>2. ASSUME NEW root \in Certificates, NEW intermediate \in Certificates,
               Accepted(leaf, intermediate, root, revoked)
        PROVE  leaf \in TrustedLeaves
    <2>1. DerChainAccepted(leaf, intermediate, root)
      BY <1>2 DEF Accepted
    <2>2. root \in Roots
      BY <2>1 DEF DerChainAccepted, Anchored, SignaturesChain, Roots
    <2>3. intermediate \in IssuedBy(Roots)
      BY <2>1, <2>2 DEF DerChainAccepted, NamesChain, MayCertify,
                        SignaturesChain, IssuedBy
    <2>4. leaf \in IssuedBy(IssuedBy(Roots))
      BY <2>1, <2>3 DEF DerChainAccepted, NamesChain, MayCertify,
                        SignaturesChain, IssuedBy
    <2> QED
      BY <2>1, <2>4 DEF DerChainAccepted, TrustedLeaves
  <1>3. ASSUME ~revoked, leaf \in TrustedLeaves
        PROVE  \E root, intermediate \in Certificates :
                  Accepted(leaf, intermediate, root, revoked)
    <2>1. PICK intermediate \in IssuedBy(Roots) :
            /\ intermediate.ca /\ "certSign" \in intermediate.usages
            /\ leaf.issuer = intermediate.subject
            /\ leaf.signer = intermediate.key
      BY <1>3 DEF TrustedLeaves, IssuedBy
    <2>2. PICK root \in Roots :
            /\ root.ca /\ "certSign" \in root.usages
            /\ intermediate.issuer = root.subject
            /\ intermediate.signer = root.key
      BY <2>1 DEF IssuedBy
    <2>3. Anchored(root) /\ root \in Certificates /\ intermediate \in Certificates
      BY <2>1, <2>2 DEF Roots, IssuedBy, Anchored
    <2>4. \A c \in {leaf, intermediate, root} : ValidAt(c, now)
      BY <1>3, <2>1, <2>2 DEF TrustedLeaves, IssuedBy, Roots
    <2>5. DerChainAccepted(leaf, intermediate, root)
      BY <1>3, <2>1, <2>2, <2>3, <2>4, ChainAssumption
      DEF DerChainAccepted, NamesChain, MayCertify, SignaturesChain,
          TrustedLeaves, Roots
    <2> QED
      BY <1>3, <2>3, <2>5 DEF Accepted
  <1> QED
    BY <1>1, <1>2, <1>3

\* A leaf is accepted when, and only when, CAs lead to it from an anchor.
THEOREM NoImplicitTrust == Spec => []AcceptsExactlyTheTrusted
  BY AcceptedIsTrusted, PTL

LEMMA OwnAccepted == TypeOK => OwnChainsValidate
  <1> SUFFICES ASSUME TypeOK, NEW root \in Certificates,
                      NEW intermediate \in Certificates,
                      NEW leaf \in Certificates,
                      Anchored(root), OwnChain(leaf, intermediate, root),
                      "server" \in leaf.purposes,
                      NEW d \in leaf.dns, NEW name \in DOMAIN Folded,
                      Folded[d] = Folded[name]
               PROVE  Verified(leaf, intermediate, root, name)
    BY DEF OwnChainsValidate
  <1>1. /\ root.ca /\ "certSign" \in root.usages
        /\ root.signer = root.key
        /\ root.notBefore = 0 /\ root.notAfter = Forever
    BY DEF OwnChain, RootCertificate
  <1>2. /\ intermediate.ca /\ "certSign" \in intermediate.usages
        /\ intermediate.issuer = root.subject
        /\ intermediate.signer = root.key
        /\ intermediate.notBefore = 0 /\ intermediate.notAfter = Forever
    BY DEF OwnChain, RootCertificate, IntermediateCertificate
  <1>3. /\ ~leaf.ca /\ "digitalSignature" \in leaf.usages
        /\ leaf.issuer = intermediate.subject
        /\ leaf.signer = intermediate.key
        /\ leaf.notBefore = 0 /\ leaf.notAfter = Forever
    BY DEF OwnChain, LeafCertificate
  <1>4. 0 <= now /\ now <= Forever
    BY ChainAssumption DEF TypeOK, TrustTypeOK
  <1>5. DerChainAccepted(leaf, intermediate, root)
    BY <1>1, <1>2, <1>3, <1>4, ChainAssumption
    DEF DerChainAccepted, NamesChain, MayCertify, SignaturesChain, ValidAt
  <1>6. MeetsIdentity(InputOf(leaf), DnsRequirement(name))
    BY DEF MeetsIdentity, NameMatches, InputOf, DnsRequirement
  <1>7. LeafAccepted(InputOf(leaf), DnsRequirement(name))
    BY <1>3, <1>4, <1>6 DEF LeafAccepted, ValidAt, InputOf, Anchored
  <1> QED
    BY <1>5, <1>7 DEF Verified

\* Whatever is issued here is verified as long as its root is anchored.
THEOREM OwnChainsAccepted == Spec => []OwnChainsValidate
  BY TypeCorrect, OwnAccepted, PTL

LEMMA Agree == ValidatorsAgree
  <1> SUFFICES ASSUME NEW root \in Certificates,
                      NEW intermediate \in Certificates,
                      NEW leaf \in Certificates,
                      DerChainAccepted(leaf, intermediate, root)
               PROVE  /\ LeafAccepted(InputOf(leaf), NoRequirement)
                      /\ CaAccepted(InputOf(intermediate))
                      /\ CaAccepted(InputOf(root))
    BY DEF ValidatorsAgree
  <1> QED
    BY DEF DerChainAccepted, LeafAccepted, CaAccepted, ValidAt,
           InputOf, MeetsIdentity, NoRequirement, MayCertify, Anchored

\* The validators of fields accept every part of an accepted chain.
THEOREM FieldValidatorsAgree == Spec => []ValidatorsAgree
  BY Agree, PTL
=============================================================================
