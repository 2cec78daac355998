------------------------ MODULE MCCertificateStore ------------------------
(* Small instances of CertificateStore for TLC.                             *)
EXTENDS CertificateStore, TLC



\* Inodes are interchangeable names (safety runs only).
Symmetry == Permutations(Inodes)
=============================================================================
