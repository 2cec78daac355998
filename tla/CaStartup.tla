----------------------------- MODULE CaStartup -----------------------------
(***************************************************************************)
(* How daemon-pki-api/src/bin/server.rs finds or makes its three pairs of  *)
(* certificate and key: root CA, intermediate CA, server certificate.  A   *)
(* pair that is there is loaded, a pair that is not is generated, signed   *)
(* by the pair above it and written, certificate first; half a pair stops  *)
(* the start.  Each file is written by fs::write: created empty, filled.   *)
(*                                                                         *)
(* bin/bootstrap-client.rs reads the intermediate pair from the same       *)
(* directory, in its own process, and signs the first client certificate.  *)
(*                                                                         *)
(* A key is the number it was generated with; a certificate is the key it  *)
(* certifies and the key that signed it.                                   *)
(***************************************************************************)
EXTENDS Naturals

CONSTANTS
    MaxKeys,            \* bound on the keys generated
    MaxCrashes,         \* bound on the crashes of the server
    Missing, Blank      \* no file; a file created and not yet filled

Pairs == {"root", "intermediate", "server"}
Keys  == 1..MaxKeys
Certs == [key : Keys, signer : Keys]

ASSUME StartupAssumption ==
    /\ MaxKeys \in Nat /\ MaxCrashes \in Nat
    /\ {Missing, Blank} \cap (Keys \cup Certs) = {} /\ Missing # Blank

NoCert == [key |-> 0, signer |-> 0]

VARIABLES
    certFile, keyFile,  \* per pair: what is on disk
    step,               \* server: "down", "look", "create", "cert", "key",
                        \* "fill", "listen", "up"
    pair,               \* server: the pair it is at
    loaded,             \* server: the certificates it holds, with their keys
    keys,               \* keys generated so far
    crashes,
    tool,               \* bootstrap-client: "idle", or about to read the "key"
    client              \* the key that signed the bootstrap client certificate

server == <<step, pair, loaded, keys>>
vars == <<certFile, keyFile, server, crashes, tool, client>>

TypeOK ==
    /\ certFile \in [Pairs -> Certs \cup {Missing, Blank}]
    /\ keyFile \in [Pairs -> Keys \cup {Missing, Blank}]
    /\ step \in {"down", "look", "create", "cert", "key", "fill", "listen", "up"}
    /\ pair \in Pairs
    /\ loaded \in [Pairs -> Certs \cup {NoCert}]
    /\ keys \in 0..MaxKeys /\ crashes \in 0..MaxCrashes
    /\ tool \in {"idle", "key"}
    /\ client \in 0..MaxKeys

Init ==
    /\ certFile = [p \in Pairs |-> Missing]
    /\ keyFile = [p \in Pairs |-> Missing]
    /\ step = "down" /\ pair = "root"
    /\ loaded = [p \in Pairs |-> NoCert]
    /\ keys = 0 /\ crashes = 0
    /\ tool = "idle" /\ client = 0

-----------------------------------------------------------------------------
(* The server.                                                             *)

NextStep(p) == IF p = "server" THEN "listen" ELSE "look"
NextPair(p) == CASE p = "root" -> "intermediate"
                 [] OTHER      -> "server"

Exists(file) == file # Missing

\* RootCa::from_pem, IntermediateCa::from_pem and, for the server pair,
\* build_mtls_server_config refuse an empty certificate or key.
Filled(p) == /\ certFile[p] \notin {Missing, Blank}
             /\ keyFile[p] \notin {Missing, Blank}

Start ==
    /\ step = "down"
    /\ step' = "look" /\ pair' = "root"
    /\ loaded' = [p \in Pairs |-> NoCert]
    /\ UNCHANGED <<certFile, keyFile, keys, crashes, tool, client>>

Load ==
    /\ step = "look"
    /\ Filled(pair)
    /\ loaded' = [loaded EXCEPT ![pair] = certFile[pair]]
    /\ step' = NextStep(pair) /\ pair' = NextPair(pair)
    /\ UNCHANGED <<certFile, keyFile, keys, crashes, tool, client>>

\* Half a pair, or an empty file: main returns an error.
GiveUp ==
    /\ step = "look"
    /\ Exists(certFile[pair]) \/ Exists(keyFile[pair])
    /\ ~Filled(pair)
    /\ step' = "down"
    /\ UNCHANGED <<certFile, keyFile, pair, loaded, keys, crashes, tool, client>>

\* The root signs itself, any other pair is signed by the one above.
SignedByItself(p)     == keys + 1
SignedBeforeLoaded(p) == IF p = "root" THEN keys + 1 ELSE loaded["intermediate"].key
Signer(p) == CASE p = "root"         -> keys + 1
               [] p = "intermediate" -> loaded["root"].key
               [] p = "server"       -> loaded["intermediate"].key

NeverThere(p) == TRUE
Absent(p)     == ~Exists(certFile[p]) /\ ~Exists(keyFile[p])

Generate ==
    /\ step = "look"
    /\ Absent(pair)
    /\ keys < MaxKeys
    /\ keys' = keys + 1
    /\ loaded' = [loaded EXCEPT ![pair] =
                      [key |-> keys + 1, signer |-> Signer(pair)]]
    /\ step' = "create"
    /\ UNCHANGED <<certFile, keyFile, pair, crashes, tool, client>>

CreateCert ==
    /\ step = "create"
    /\ certFile' = [certFile EXCEPT ![pair] = Blank]
    /\ step' = "cert"
    /\ UNCHANGED <<keyFile, pair, loaded, keys, crashes, tool, client>>

FillCert ==
    /\ step = "cert"
    /\ certFile' = [certFile EXCEPT ![pair] = loaded[pair]]
    /\ step' = "key"
    /\ UNCHANGED <<keyFile, pair, loaded, keys, crashes, tool, client>>

CreateKey ==
    /\ step = "key"
    /\ keyFile' = [keyFile EXCEPT ![pair] = Blank]
    /\ step' = "fill"
    /\ UNCHANGED <<certFile, pair, loaded, keys, crashes, tool, client>>

FillKey ==
    /\ step = "fill"
    /\ keyFile' = [keyFile EXCEPT ![pair] = loaded[pair].key]
    /\ step' = NextStep(pair) /\ pair' = NextPair(pair)
    /\ UNCHANGED <<certFile, loaded, keys, crashes, tool, client>>

Listen ==
    /\ step = "listen"
    /\ step' = "up"
    /\ UNCHANGED <<certFile, keyFile, pair, loaded, keys, crashes, tool, client>>

Crash ==
    /\ step # "down"
    /\ crashes < MaxCrashes
    /\ crashes' = crashes + 1
    /\ step' = "down"
    /\ UNCHANGED <<certFile, keyFile, pair, loaded, keys, tool, client>>

-----------------------------------------------------------------------------
(* The operator and the bootstrap client.                                  *)

\* "storage is incomplete": the operator deletes what there is of the pair,
\* also while the bootstrap client is running.
Repair(p) ==
    /\ step = "down"
    /\ ~Absent(p) /\ ~Filled(p)
    /\ certFile' = [certFile EXCEPT ![p] = Missing]
    /\ keyFile' = [keyFile EXCEPT ![p] = Missing]
    /\ UNCHANGED <<server, crashes, tool, client>>

\* A missing or empty certificate ends the tool.  Of a readable one it only
\* takes the name, which all intermediates share.
ReadCert ==
    /\ tool = "idle"
    /\ certFile["intermediate"] \in Certs
    /\ tool' = "key"
    /\ UNCHANGED <<certFile, keyFile, server, crashes, client>>

\* It signs with the key it reads, whatever the certificate was; a missing or
\* empty key ends it without a client certificate.
ReadKey ==
    /\ tool = "key"
    /\ client' = IF keyFile["intermediate"] \in Keys
                 THEN keyFile["intermediate"]
                 ELSE client
    /\ tool' = "idle"
    /\ UNCHANGED <<certFile, keyFile, server, crashes>>

Server == Start \/ Load \/ GiveUp \/ Generate \/ CreateCert \/ FillCert
          \/ CreateKey \/ FillKey \/ Listen

Next == Server \/ Crash \/ (\E p \in Pairs : Repair(p)) \/ ReadCert \/ ReadKey

Spec == Init /\ [][Next]_vars

-----------------------------------------------------------------------------
(* Safety                                                                  *)

\* A server that listens has three whole pairs on disk, the ones it holds,
\* each signed by the one above, whatever was interrupted before.
ChainIsWhole ==
    step = "up" =>
        /\ \A p \in Pairs : certFile[p] = loaded[p] /\ keyFile[p] = loaded[p].key
        /\ loaded["root"].signer = loaded["root"].key
        /\ loaded["intermediate"].signer = loaded["root"].key
        /\ loaded["server"].signer = loaded["intermediate"].key

\* Keys on disk are those of the certificates beside them, at all times.
KeysMatch ==
    \A p \in Pairs : Filled(p) => certFile[p].key = keyFile[p]

\* Once a pair is whole it is never replaced: certificates issued before a
\* crash are still trusted after it.
WholePairsStay ==
    [][\A p \in Pairs : Filled(p) =>
           certFile'[p] = certFile[p] /\ keyFile'[p] = keyFile[p]]_vars

\* The bootstrap client certificate is signed by the key that the listening
\* server's intermediate certifies, also when the tool read one file before
\* and one after a crash, a repair or a new start.
ClientIsTrusted ==
    step = "up" /\ client # 0 => client = loaded["intermediate"].key
=============================================================================
