----------------------- MODULE MCCertificateInventory -----------------------
(* Small instances of CertificateInventory for TLC.                         *)
EXTENDS CertificateInventory, TLC

\* Ids, serials, fingerprints and owners are only compared.
Symmetry == Permutations(Ids) \cup Permutations(Serials)
            \cup Permutations(Owners)
=============================================================================
