-------------------------- MODULE IdentityRegistry --------------------------
(***************************************************************************)
(* daemon-pki-core/src/identity/registry.rs: machine identities, each with *)
(* the fingerprint of its certificate, a status and roles, and the         *)
(* decision whether a certificate may act in a role.                       *)
(*                                                                         *)
(* Calls do not overlap (&mut self).  A caller may also change an identity *)
(* through get_mut, of which the registry is not told; that it overwrites  *)
(* the public field `status` itself is left out.                           *)
(***************************************************************************)
EXTENDS HashMaps

CONSTANTS Identities, Fingerprints, Roles

Statuses == {"Active", "Disabled", "Revoked"}
MachineIdentities ==
    [fingerprint : Fingerprints, status : Statuses, roles : SUBSET Roles]

VARIABLES
    identities,     \* Identity -> MachineIdentity
    fingerprints,   \* Fingerprint -> Identity
    revokedPrints   \* history: fingerprints that led to a revoked identity

registry == <<identities, fingerprints, revokedPrints>>

RegistryTypeOK ==
    /\ identities \in MapsFrom(Identities, MachineIdentities)
    /\ fingerprints \in MapsFrom(Fingerprints, Identities)
    /\ revokedPrints \subseteq DOMAIN fingerprints
    /\ \A f \in DOMAIN fingerprints : fingerprints[f] \in DOMAIN identities
    /\ \A id \in DOMAIN identities :
         \E f \in DOMAIN fingerprints : fingerprints[f] = id

RegistryInit ==
    /\ identities = EmptyMap
    /\ fingerprints = EmptyMap
    /\ revokedPrints = {}

-----------------------------------------------------------------------------
LeadingTo(id) == {f \in DOMAIN fingerprints : fingerprints[f] = id}

BoundId(id, f) == id \in DOMAIN identities
Bound(id, f)   == id \in DOMAIN identities \/ f \in DOMAIN fingerprints

\* register: any identity value, also one that is not Active.
Register(id, identity) ==
    IF Bound(id, identity.fingerprint)
    THEN UNCHANGED registry
    ELSE /\ identities' = Put(identities, id, identity)
         /\ fingerprints' = Put(fingerprints, identity.fingerprint, id)
         /\ revokedPrints' = IF identity.status = "Revoked"
                             THEN revokedPrints \cup {identity.fingerprint}
                             ELSE revokedPrints

\* disable and enable: no effect on a revoked identity.
SettableAlways(id) == TRUE
Settable(id)       == identities[id].status # "Revoked"

Disable(id) ==
    /\ id \in DOMAIN identities
    /\ identities' = [identities EXCEPT ![id].status =
                        IF Settable(id) THEN "Disabled" ELSE @]
    /\ UNCHANGED <<fingerprints, revokedPrints>>

Enable(id) ==
    /\ id \in DOMAIN identities
    /\ identities' = [identities EXCEPT ![id].status =
                        IF Settable(id) THEN "Active" ELSE @]
    /\ UNCHANGED <<fingerprints, revokedPrints>>

Revoke(id) ==
    /\ id \in DOMAIN identities
    /\ identities' = [identities EXCEPT ![id].status = "Revoked"]
    /\ revokedPrints' = revokedPrints \cup LeadingTo(id)
    /\ UNCHANGED fingerprints

\* NotFound
Unknown(id) == id \notin DOMAIN identities /\ UNCHANGED registry

\* get_mut: another certificate, other roles.
Edit(id, fingerprint, roles) ==
    /\ id \in DOMAIN identities
    /\ identities' = [identities EXCEPT ![id].fingerprint = fingerprint,
                                        ![id].roles = roles]
    /\ UNCHANGED <<fingerprints, revokedPrints>>

\* authorize returns Ok: find_by_fingerprint, is_active, has_role.
Authorized(f, role) ==
    /\ f \in DOMAIN fingerprints
    /\ fingerprints[f] \in DOMAIN identities
    /\ identities[fingerprints[f]].status = "Active"
    /\ role \in identities[fingerprints[f]].roles

RegistryNext ==
    \E id \in Identities :
        \/ \E identity \in MachineIdentities : Register(id, identity)
        \/ Disable(id) \/ Enable(id) \/ Revoke(id) \/ Unknown(id)
        \/ \E f \in Fingerprints, roles \in SUBSET Roles : Edit(id, f, roles)

-----------------------------------------------------------------------------
(* Safety                                                                  *)

\* A certificate that led to a revoked identity acts in no role again: not
\* after enable or disable, not under another identity registered with the
\* same certificate, not after a caller changed identities through get_mut.
RevokedNeverAuthorized ==
    \A f \in revokedPrints, role \in Roles : ~Authorized(f, role)
=============================================================================
