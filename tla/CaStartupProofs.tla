--------------------------- MODULE CaStartupProofs ---------------------------
(***************************************************************************)
(* Proofs about CaStartup, for any bounds on keys and crashes.             *)
(***************************************************************************)
EXTENDS CaStartup, TLAPS

-----------------------------------------------------------------------------
(* The inductive invariant.                                                *)

Above(p) == CASE p = "root"         -> {}
              [] p = "intermediate" -> {"root"}
              [] OTHER              -> {"root", "intermediate"}

\* The key that signs a pair: its own for the root, that of the pair above.
SignedBy(certs, p) == CASE p = "root"         -> certs["root"].key
                        [] p = "intermediate" -> certs["root"].key
                        [] OTHER              -> certs["intermediate"].key

\* The pair is on disk as the server holds it.
Done(p) ==
    /\ loaded[p] \in Certs
    /\ certFile[p] = loaded[p] /\ keyFile[p] = loaded[p].key

\* A whole pair on disk has the pairs above it whole, and is signed by them.
ChainOnDisk ==
    \A p \in Pairs : Filled(p) =>
        /\ \A q \in Above(p) : Filled(q)
        /\ certFile[p].signer = SignedBy(certFile, p)

Writing == step \in {"create", "cert", "key", "fill"}

\* What the server has written of the pair it is at.
Written ==
    /\ step = "create" => certFile[pair] = Missing /\ keyFile[pair] = Missing
    /\ step = "cert"   => certFile[pair] = Blank /\ keyFile[pair] = Missing
    /\ step = "key"    => certFile[pair] = loaded[pair] /\ keyFile[pair] = Missing
    /\ step = "fill"   => certFile[pair] = loaded[pair] /\ keyFile[pair] = Blank

\* How far a start has come.
Progress ==
    /\ step = "look" \/ Writing => \A p \in Above(pair) : Done(p)
    /\ Writing => /\ loaded[pair] \in Certs
                  /\ loaded[pair].signer = SignedBy(loaded, pair)
    /\ step \in {"listen", "up"} => \A p \in Pairs : Done(p)

\* The bootstrap client: the key it signed with is in place, beside its
\* certificate.
ToolTrusted ==
    client # 0 => /\ Filled("intermediate")
                  /\ client = keyFile["intermediate"]

\* There is a key file only beside a certificate that is complete.
CertFirst ==
    \A p \in Pairs : keyFile[p] # Missing => certFile[p] \notin {Missing, Blank}

IInv ==
    /\ TypeOK
    /\ KeysMatch
    /\ ChainOnDisk
    /\ Written
    /\ Progress
    /\ ToolTrusted
    /\ CertFirst

-----------------------------------------------------------------------------
(* The steps.                                                              *)

\* A start forgets what an earlier one held.
LEMMA StartKeeps ==
    ASSUME IInv, Start
    PROVE  IInv'
  <1> USE StartupAssumption DEF IInv, TypeOK, Pairs, Keys, Certs, Filled,
           Start
  <1>1. TypeOK'
    BY DEF NoCert
  <1>2. KeysMatch'
    BY DEF KeysMatch, Written, Progress, Writing
  <1>3. ChainOnDisk'
    BY DEF ChainOnDisk, Written, Progress, Writing, Done, Above, SignedBy
  <1>4. Written'
    BY DEF Written
  <1>5. Progress'
    BY DEF Progress, Writing, Done, Above, SignedBy, Written
  <1>6. ToolTrusted'
    BY DEF ToolTrusted, KeysMatch, Written, CertFirst
  <1>7. CertFirst'
    BY DEF CertFirst, Written, Writing
  <1> QED
    BY <1>1, <1>2, <1>3, <1>4, <1>5, <1>6, <1>7

\* A whole pair is loaded, and is signed by the pairs loaded before.
LEMMA LoadKeeps ==
    ASSUME IInv, Load
    PROVE  IInv'
  <1> USE StartupAssumption DEF IInv, TypeOK, Pairs, Keys, Certs, Filled,
           Load, NextStep, NextPair
  <1>1. TypeOK'
    BY DEF NoCert
  <1>2. KeysMatch'
    BY DEF KeysMatch, Written, Progress, Writing
  <1>3. ChainOnDisk'
    BY DEF ChainOnDisk, Written, Progress, Writing, Done, Above, SignedBy
  <1>4. Written'
    BY DEF Written
  <1>5. Progress'
    BY DEF Progress, Writing, Done, Above, SignedBy, Written, ChainOnDisk,
           KeysMatch
  <1>6. ToolTrusted'
    BY DEF ToolTrusted, KeysMatch, Written, CertFirst
  <1>7. CertFirst'
    BY DEF CertFirst, Written, Writing
  <1> QED
    BY <1>1, <1>2, <1>3, <1>4, <1>5, <1>6, <1>7

\* Half a pair: the server is down again.
LEMMA GiveUpKeeps ==
    ASSUME IInv, GiveUp
    PROVE  IInv'
  <1> USE StartupAssumption DEF IInv, TypeOK, Pairs, Keys, Certs, Filled,
           GiveUp, Exists
  <1>1. TypeOK'
    BY DEF NoCert
  <1>2. KeysMatch'
    BY DEF KeysMatch, Written, Progress, Writing
  <1>3. ChainOnDisk'
    BY DEF ChainOnDisk, Written, Progress, Writing, Done, Above, SignedBy
  <1>4. Written'
    BY DEF Written
  <1>5. Progress'
    BY DEF Progress, Writing, Done, Above, SignedBy, Written
  <1>6. ToolTrusted'
    BY DEF ToolTrusted, KeysMatch, Written, CertFirst
  <1>7. CertFirst'
    BY DEF CertFirst, Written, Writing
  <1> QED
    BY <1>1, <1>2, <1>3, <1>4, <1>5, <1>6, <1>7

\* A new pair, signed by the one above.
LEMMA GenerateKeeps ==
    ASSUME IInv, Generate
    PROVE  IInv'
  <1> USE StartupAssumption DEF IInv, TypeOK, Pairs, Keys, Certs, Filled,
           Generate, Signer, Absent, Exists
  <1>1. TypeOK'
    BY DEF NoCert, Progress, Done, Above
  <1>2. KeysMatch'
    BY DEF KeysMatch, Written, Progress, Writing
  <1>3. ChainOnDisk'
    BY DEF ChainOnDisk, Written, Progress, Writing, Done, Above, SignedBy
  <1>4. Written'
    BY DEF Written
  <1>5. Progress'
    BY DEF Progress, Writing, Done, Above, SignedBy, Written
  <1>6. ToolTrusted'
    BY DEF ToolTrusted, KeysMatch, Written, CertFirst
  <1>7. CertFirst'
    BY DEF CertFirst, Written, Writing
  <1> QED
    BY <1>1, <1>2, <1>3, <1>4, <1>5, <1>6, <1>7

\* The four steps of writing a pair: nothing was there, so nobody read it.
LEMMA CreateCertKeeps ==
    ASSUME IInv, CreateCert
    PROVE  IInv'
  <1> USE StartupAssumption DEF IInv, TypeOK, Pairs, Keys, Certs, Filled,
           CreateCert
  <1>1. TypeOK'
    BY DEF NoCert
  <1>2. KeysMatch'
    BY DEF KeysMatch, Written, Progress, Writing
  <1>3. ChainOnDisk'
    BY DEF ChainOnDisk, Written, Progress, Writing, Done, Above, SignedBy
  <1>4. Written'
    BY DEF Written
  <1>5. Progress'
    BY DEF Progress, Writing, Done, Above, SignedBy, Written
  <1>6. ToolTrusted'
    BY DEF ToolTrusted, KeysMatch, Written, CertFirst
  <1>7. CertFirst'
    BY DEF CertFirst, Written, Writing
  <1> QED
    BY <1>1, <1>2, <1>3, <1>4, <1>5, <1>6, <1>7

LEMMA FillCertKeeps ==
    ASSUME IInv, FillCert
    PROVE  IInv'
  <1> USE StartupAssumption DEF IInv, TypeOK, Pairs, Keys, Certs, Filled,
           FillCert
  <1>1. TypeOK'
    BY DEF NoCert, Progress, Writing
  <1>2. KeysMatch'
    BY DEF KeysMatch, Written, Progress, Writing
  <1>3. ChainOnDisk'
    BY DEF ChainOnDisk, Written, Progress, Writing, Done, Above, SignedBy
  <1>4. Written'
    BY DEF Written
  <1>5. Progress'
    BY DEF Progress, Writing, Done, Above, SignedBy, Written
  <1>6. ToolTrusted'
    BY DEF ToolTrusted, KeysMatch, Written, CertFirst
  <1>7. CertFirst'
    BY DEF CertFirst, Written, Writing
  <1> QED
    BY <1>1, <1>2, <1>3, <1>4, <1>5, <1>6, <1>7

LEMMA CreateKeyKeeps ==
    ASSUME IInv, CreateKey
    PROVE  IInv'
  <1> USE StartupAssumption DEF IInv, TypeOK, Pairs, Keys, Certs, Filled,
           CreateKey
  <1>1. TypeOK'
    BY DEF NoCert
  <1>2. KeysMatch'
    BY DEF KeysMatch, Written, Progress, Writing
  <1>3. ChainOnDisk'
    BY DEF ChainOnDisk, Written, Progress, Writing, Done, Above, SignedBy
  <1>4. Written'
    BY DEF Written
  <1>5. Progress'
    BY DEF Progress, Writing, Done, Above, SignedBy, Written
  <1>6. ToolTrusted'
    BY DEF ToolTrusted, KeysMatch, Written, CertFirst
  <1>7. CertFirst'
    BY DEF CertFirst, Written, Writing, Progress
  <1> QED
    BY <1>1, <1>2, <1>3, <1>4, <1>5, <1>6, <1>7

\* The last of them makes the pair whole.
LEMMA FillKeyKeeps ==
    ASSUME IInv, FillKey
    PROVE  IInv'
  <1> USE StartupAssumption DEF IInv, TypeOK, Pairs, Keys, Certs, Filled,
           FillKey, NextStep, NextPair
  <1>1. TypeOK'
    BY DEF NoCert, Progress, Writing
  <1>2. KeysMatch'
    BY DEF KeysMatch, Written, Progress, Writing
  <1>3. ChainOnDisk'
    BY DEF ChainOnDisk, Written, Progress, Writing, Done, Above, SignedBy
  <1>4. Written'
    BY DEF Written
  <1>5. Progress'
    BY DEF Progress, Writing, Done, Above, SignedBy, Written
  <1>6. ToolTrusted'
    BY DEF ToolTrusted, KeysMatch, Written, CertFirst
  <1>7. CertFirst'
    BY DEF CertFirst, Written, Writing
  <1> QED
    BY <1>1, <1>2, <1>3, <1>4, <1>5, <1>6, <1>7

\* All three pairs are on disk.
LEMMA ListenKeeps ==
    ASSUME IInv, Listen
    PROVE  IInv'
  <1> USE StartupAssumption DEF IInv, TypeOK, Pairs, Keys, Certs, Filled,
           Listen
  <1>1. TypeOK'
    BY DEF NoCert
  <1>2. KeysMatch'
    BY DEF KeysMatch, Written, Progress, Writing
  <1>3. ChainOnDisk'
    BY DEF ChainOnDisk, Written, Progress, Writing, Done, Above, SignedBy
  <1>4. Written'
    BY DEF Written
  <1>5. Progress'
    BY DEF Progress, Writing, Done, Above, SignedBy, Written
  <1>6. ToolTrusted'
    BY DEF ToolTrusted, KeysMatch, Written, CertFirst
  <1>7. CertFirst'
    BY DEF CertFirst, Written, Writing
  <1> QED
    BY <1>1, <1>2, <1>3, <1>4, <1>5, <1>6, <1>7

\* A crash leaves half a pair at most.
LEMMA CrashKeeps ==
    ASSUME IInv, Crash
    PROVE  IInv'
  <1> USE StartupAssumption DEF IInv, TypeOK, Pairs, Keys, Certs, Filled,
           Crash
  <1>1. TypeOK'
    BY DEF NoCert
  <1>2. KeysMatch'
    BY DEF KeysMatch, Written, Progress, Writing
  <1>3. ChainOnDisk'
    BY DEF ChainOnDisk, Written, Progress, Writing, Done, Above, SignedBy
  <1>4. Written'
    BY DEF Written
  <1>5. Progress'
    BY DEF Progress, Writing, Done, Above, SignedBy, Written
  <1>6. ToolTrusted'
    BY DEF ToolTrusted, KeysMatch, Written, CertFirst
  <1>7. CertFirst'
    BY DEF CertFirst, Written, Writing
  <1> QED
    BY <1>1, <1>2, <1>3, <1>4, <1>5, <1>6, <1>7

\* The bootstrap client reads a certificate.
LEMMA ReadCertKeeps ==
    ASSUME IInv, ReadCert
    PROVE  IInv'
  <1> USE StartupAssumption DEF IInv, TypeOK, Pairs, Keys, Certs, Filled,
           ReadCert, server
  <1>1. TypeOK'
    BY DEF NoCert
  <1>2. KeysMatch'
    BY DEF KeysMatch, Written, Progress, Writing
  <1>3. ChainOnDisk'
    BY DEF ChainOnDisk, Written, Progress, Writing, Done, Above, SignedBy
  <1>4. Written'
    BY DEF Written
  <1>5. Progress'
    BY DEF Progress, Writing, Done, Above, SignedBy, Written
  <1>6. ToolTrusted'
    BY DEF ToolTrusted, KeysMatch, Written, CertFirst
  <1>7. CertFirst'
    BY DEF CertFirst, Written, Writing
  <1> QED
    BY <1>1, <1>2, <1>3, <1>4, <1>5, <1>6, <1>7

\* A key in its file is that of a whole pair, which stays.
LEMMA ReadKeyKeeps ==
    ASSUME IInv, ReadKey
    PROVE  IInv'
  <1> USE StartupAssumption DEF IInv, TypeOK, Pairs, Keys, Certs, Filled,
           ReadKey, server
  <1>1. TypeOK'
    BY DEF NoCert
  <1>2. KeysMatch'
    BY DEF KeysMatch, Written, Progress, Writing
  <1>3. ChainOnDisk'
    BY DEF ChainOnDisk, Written, Progress, Writing, Done, Above, SignedBy
  <1>4. Written'
    BY DEF Written
  <1>5. Progress'
    BY DEF Progress, Writing, Done, Above, SignedBy, Written
  <1>6. ToolTrusted'
    BY DEF ToolTrusted, KeysMatch, Written, CertFirst
  <1>7. CertFirst'
    BY DEF CertFirst, Written, Writing
  <1> QED
    BY <1>1, <1>2, <1>3, <1>4, <1>5, <1>6, <1>7

\* Repairs do not touch whole pairs.
LEMMA RepairKeeps ==
    ASSUME IInv, NEW p \in Pairs, Repair(p)
    PROVE  IInv'
  <1> USE StartupAssumption DEF IInv, TypeOK, Pairs, Keys, Certs, Filled,
           Repair, server, Absent
  <1>1. TypeOK'
    BY DEF NoCert
  <1>2. KeysMatch'
    BY DEF KeysMatch, Written, Progress, Writing
  <1>3. ChainOnDisk'
    BY DEF ChainOnDisk, Written, Progress, Writing, Done, Above, SignedBy
  <1>4. Written'
    BY DEF Written
  <1>5. Progress'
    BY DEF Progress, Writing, Done, Above, SignedBy, Written
  <1>6. ToolTrusted'
    BY DEF ToolTrusted, KeysMatch, Written, CertFirst
  <1>7. CertFirst'
    BY DEF CertFirst, Written, Writing
  <1> QED
    BY <1>1, <1>2, <1>3, <1>4, <1>5, <1>6, <1>7

LEMMA InitHolds == Init => IInv
  BY StartupAssumption
  DEF Init, IInv, TypeOK, KeysMatch, ChainOnDisk, Written, Progress, Writing,
      ToolTrusted, CertFirst, Filled, Pairs, Keys, Certs, NoCert

LEMMA StutterKeeps == ASSUME IInv, UNCHANGED vars PROVE IInv'
  BY DEF IInv, TypeOK, KeysMatch, ChainOnDisk, Written, Progress, Writing,
         ToolTrusted, CertFirst, Filled, Done, SignedBy, vars, server

LEMMA StepHolds == IInv /\ [Next]_vars => IInv'
  BY StartKeeps, LoadKeeps, GiveUpKeeps, GenerateKeeps, CreateCertKeeps,
     FillCertKeeps, CreateKeyKeeps, FillKeyKeeps, ListenKeeps, CrashKeeps,
     ReadCertKeeps, ReadKeyKeeps, RepairKeeps, StutterKeeps
  DEF Next, Server

LEMMA InvariantHolds == Spec => []IInv
  BY InitHolds, StepHolds, PTL DEF Spec

-----------------------------------------------------------------------------
(* The theorems.                                                           *)

\* The files, the server and the bootstrap client stay well typed.
THEOREM TypeCorrect == Spec => []TypeOK
  <1>1. IInv => TypeOK
    BY DEF IInv
  <1> QED
    BY <1>1, InvariantHolds, PTL

\* A key on disk is that of the certificate beside it, wherever a start is
\* interrupted.
THEOREM KeysAlwaysMatch == Spec => []KeysMatch
  <1>1. IInv => KeysMatch
    BY DEF IInv
  <1> QED
    BY <1>1, InvariantHolds, PTL

\* A server that listens holds three whole pairs, each signed by the one above.
THEOREM ChainAlwaysWhole == Spec => []ChainIsWhole
  <1>1. IInv => ChainIsWhole
    BY StartupAssumption
    DEF IInv, ChainIsWhole, Progress, ChainOnDisk, Done, Filled, SignedBy, Above,
        Pairs, Keys, Certs
  <1> QED
    BY <1>1, InvariantHolds, PTL

\* The first client certificate is signed by the key of the intermediate the
\* server holds, whatever was interrupted or repaired between its two reads.
THEOREM ClientAlwaysTrusted == Spec => []ClientIsTrusted
  <1>1. IInv => ClientIsTrusted
    BY DEF IInv, ClientIsTrusted, ToolTrusted, Progress, Done, Pairs
  <1> QED
    BY <1>1, InvariantHolds, PTL

\* No step touches a whole pair.
LEMMA WholePairStays ==
    ASSUME IInv, [Next]_vars, NEW p \in Pairs, Filled(p)
    PROVE  certFile'[p] = certFile[p] /\ keyFile'[p] = keyFile[p]
  BY StartupAssumption
  DEF IInv, TypeOK, Written, Next, Server, Start, Load, GiveUp, Generate,
      CreateCert, FillCert, CreateKey, FillKey, Listen, Crash, Repair, ReadCert,
      ReadKey, Filled, vars, server

\* A whole pair is never replaced, in any start that follows.
THEOREM WholePairsAlwaysStay == Spec => WholePairsStay
  <1>1. IInv /\ [Next]_vars =>
          [\A p \in Pairs : Filled(p) =>
             certFile'[p] = certFile[p] /\ keyFile'[p] = keyFile[p]]_vars
    BY WholePairStays
  <1> QED
    BY <1>1, InvariantHolds, PTL DEF Spec, WholePairsStay
==============================================================================
