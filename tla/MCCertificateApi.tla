-------------------------- MODULE MCCertificateApi --------------------------
(* Small instances of CertificateApi for TLC.                               *)
EXTENDS CertificateApi, TLC

\* IssuancePolicy::default()
DefaultPolicy ==
    [dns |-> 100, ips |-> 100, name |-> 253, server |-> FALSE, client |-> FALSE]

Good == [name |-> 10, blank |-> FALSE, dns |-> 1, ips |-> 0, badDns |-> FALSE,
         badIp |-> FALSE, client |-> TRUE, server |-> FALSE]

\* A good request, and one request per way of being at or over a limit.
Bodies ==
    {Good,
     [Good EXCEPT !.blank = TRUE],
     [Good EXCEPT !.name = 253, !.dns = 100, !.ips = 100],
     [Good EXCEPT !.name = 254],
     [Good EXCEPT !.dns = 101],
     [Good EXCEPT !.ips = 101],
     [Good EXCEPT !.dns = 0],
     [Good EXCEPT !.badDns = TRUE],
     [Good EXCEPT !.ips = 1, !.badIp = TRUE],
     [Good EXCEPT !.client = FALSE]}

Symmetry == Permutations(Conns)
=============================================================================
