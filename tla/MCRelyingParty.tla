--------------------------- MODULE MCRelyingParty ---------------------------
(* A small instance of RelyingParty for TLC.                                *)
EXTENDS RelyingParty, TLC

Spelled == [x \in {"api", "API", "db"} |-> IF x = "db" THEN "db" ELSE "api"]

\* Two PKIs that use the same names, as two installations of the server do.
Root(key)         == RootCertificate("Root CA", key)
Intermediate(key) == IntermediateCertificate(Root(key), "Workload CA", key + 1)
Leaf(key) ==
    LeafCertificate(Intermediate(key),
        [subject |-> "api", dns |-> {"api"}, ips |-> {}, purposes |-> {"server"}],
        key + 2)

\* A certificate signed by a leaf, and certificates made elsewhere with one
\* thing that is not in order.
BelowLeaf == [Leaf(1) EXCEPT !.issuer = "api", !.signer = 3, !.key = 4]
Expiring  == [Root(1) EXCEPT !.notAfter = 1]
Unsigned  == [Root(1) EXCEPT !.signer = 11]
Flawed ==
    {[Intermediate(1) EXCEPT !.usages = {"crlSign"}],
     [Intermediate(1) EXCEPT !.subject = "Other CA"],
     [Leaf(1) EXCEPT !.ca = TRUE],
     [Leaf(1) EXCEPT !.notBefore = 1, !.notAfter = 1]}

Known == {Root(1), Intermediate(1), Leaf(1), Root(11), Intermediate(11),
          BelowLeaf, Expiring, Unsigned} \cup Flawed
MadeAnchors == {Root(1), Expiring, Unsigned}

Symmetry == Permutations(AnchorIds) \cup Permutations(Identities)
            \cup Permutations(Fingerprints)
=============================================================================
