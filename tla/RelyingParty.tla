---------------------------- MODULE RelyingParty ----------------------------
(***************************************************************************)
(* A program that uses daemon-pki-core to decide about its peers: it holds *)
(* a trust store and an identity registry, which share nothing but time    *)
(* and are changed one call at a time, in any order.                       *)
(***************************************************************************)
EXTENDS ChainValidation, IdentityRegistry

vars == <<trust, registry>>

TypeOK == TrustTypeOK /\ RegistryTypeOK

Init == TrustInit /\ RegistryInit

Next ==
    \/ TrustNext /\ UNCHANGED registry
    \/ RegistryNext /\ UNCHANGED trust

Spec == Init /\ [][Next]_vars
=============================================================================
