------------------------ MODULE MCRevocationService ------------------------
(* Small instances of RevocationService for TLC.                            *)
EXTENDS RevocationService
=============================================================================
