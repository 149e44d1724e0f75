------------------------------ MODULE ApiKeys ------------------------------
(***************************************************************************)
(* The keys that Flare's signers use the API proxy with                    *)
(* (workers/generate-api-keys.worker.ts, lib/generate-api-keys.ts,         *)
(* lib/api-keys-storage.ts, proxy/api-proxy.mjs).  A daily worker reads    *)
(* the list of signers and two files of S3, makes a key for every signer   *)
(* without one, and writes the files again, one after the other: the       *)
(* encrypted one, where a signer finds its key, and the plain one, which   *)
(* the proxy keeps in memory for a while and checks callers against.       *)
(***************************************************************************)
EXTENDS Naturals

CONSTANTS Signer,      \* signers that the explorers may list
          Malformed,   \* those whose public key is 64 hex digits or more,
                       \* but neither 64 nor 65 bytes
          Execution,   \* executions of the worker that may overlap
          MaxBatches,  \* bound: times keys are generated
          MaxFailures  \* bound: failed or killed steps

ASSUME ApiKeysAssumption == /\ Malformed \subseteq Signer
                            /\ MaxBatches \in Nat
                            /\ MaxFailures \in Nat

VARIABLES listed,     \* signers listed with a public key
          encrypted,  \* the file of encrypted keys
          decrypted,  \* the file of plain keys
          run,        \* run[e]: an execution's place and what it has read
          batch,      \* times keys were generated: names the next keys
          known,      \* apiKeysCache of the proxy
          timely,     \* whether known is younger than API_KEYS_CACHE_TTL
          failures,
          overlapped  \* history: whether two executions ever overlapped

keysVars ==
  <<listed, encrypted, decrypted, run, batch, known, timely, failures, overlapped>>

\* A key is named by its signer and the batch it was made in.
ApiKey == Signer \X (0..MaxBatches)

Resting == [at |-> "idle", signers |-> {}, enc |-> {}, dec |-> {}]

KeysInit == /\ listed = {}
            /\ encrypted = {}
            /\ decrypted = {}
            /\ run = [e \in Execution |-> Resting]
            /\ batch = 0
            /\ known = {}
            /\ timely = FALSE
            /\ failures = 0
            /\ overlapped = FALSE

Announce(s) == /\ listed' = listed \cup {s}
               /\ UNCHANGED <<encrypted, decrypted, run, batch, known, timely,
                              failures, overlapped>>

Stays == UNCHANGED <<listed, known, timely, failures, overlapped>>

(* Both explorers have answered. *)
FetchSigners(e) ==
  /\ run[e].at = "idle"
  /\ listed # {}
  /\ run' = [run EXCEPT ![e] = [Resting EXCEPT !.at = "encrypted", !.signers = listed]]
  /\ overlapped' = (overlapped \/ \E f \in Execution : run[f].at # "idle")
  /\ UNCHANGED <<listed, encrypted, decrypted, batch, known, timely, failures>>

ReadEncrypted(e) ==
  /\ run[e].at = "encrypted"
  /\ run' = [run EXCEPT ![e].enc = encrypted, ![e].at = "decrypted"]
  /\ UNCHANGED <<encrypted, decrypted, batch>>
  /\ Stays

(* Signers whose keys are not in the plain file that was read. *)
NewSigners(e) == {s \in run[e].signers : ~ \E k \in decrypted : k[1] = s}

\* Mutant: the file is rewritten with the new keys alone
OnlyNew(old, new) == new

(* The new keys are appended to those that were read. *)
Merged(old, new) == old \cup new

(* One key that cannot be loaded makes generateApiKeys throw for all.      *)
ReadDecrypted(e) ==
  LET new == NewSigners(e)
      keys == {<<s, batch>> : s \in new}
  IN  /\ run[e].at = "decrypted"
      /\ IF new = {} \/ new \cap Malformed # {}
           THEN /\ run' = [run EXCEPT ![e] = Resting]
                /\ UNCHANGED batch
           ELSE /\ batch < MaxBatches
                /\ batch' = batch + 1
                /\ run' = [run EXCEPT ![e].at = "save encrypted",
                                      ![e].enc = Merged(@, keys),
                                      ![e].dec = decrypted \cup keys]
      /\ UNCHANGED <<encrypted, decrypted>>
      /\ Stays

SaveEncrypted(e) ==
  /\ run[e].at = "save encrypted"
  /\ encrypted' = run[e].enc
  /\ run' = [run EXCEPT ![e].at = "save decrypted"]
  /\ UNCHANGED <<decrypted, batch>>
  /\ Stays

SaveDecrypted(e) ==
  /\ run[e].at = "save decrypted"
  /\ decrypted' = run[e].dec
  /\ run' = [run EXCEPT ![e] = Resting]
  /\ UNCHANGED <<encrypted, batch>>
  /\ Stays

(* An explorer, S3 or the worker itself fails. *)
RunFails(e) ==
  /\ run[e].at # "idle"
  /\ failures < MaxFailures
  /\ failures' = failures + 1
  /\ run' = [run EXCEPT ![e] = Resting]
  /\ UNCHANGED <<listed, encrypted, decrypted, batch, known, timely, overlapped>>

Work(e) == \/ FetchSigners(e) \/ ReadEncrypted(e) \/ ReadDecrypted(e)
           \/ SaveEncrypted(e) \/ SaveDecrypted(e)

(* Mutant: keys that were loaded once are kept. *)
CheckFirstKeys ==
  /\ known = {}
  /\ decrypted # {}
  /\ known' = decrypted
  /\ timely' = TRUE
  /\ UNCHANGED <<listed, encrypted, decrypted, run, batch, failures, overlapped>>

(* A caller's key is checked: keys that are missing or too old are read    *)
(* from S3 first.  A file that is not there or cannot be read changes      *)
(* nothing, and only the key of the environment is accepted.               *)
CheckKey ==
  /\ ~ timely
  /\ decrypted # {}
  /\ known' = decrypted
  /\ timely' = TRUE
  /\ UNCHANGED <<listed, encrypted, decrypted, run, batch, failures, overlapped>>

KeysAge == /\ timely
           /\ timely' = FALSE
           /\ UNCHANGED <<listed, encrypted, decrypted, run, batch, known,
                          failures, overlapped>>

KeysNext == \/ \E s \in Signer \ listed : Announce(s)
            \/ \E e \in Execution : Work(e) \/ RunFails(e)
            \/ CheckKey
            \/ KeysAge

KeysSpec == KeysInit /\ [][KeysNext]_keysVars
-----------------------------------------------------------------------------
Admits(s) == timely /\ \E n \in 0..MaxBatches : <<s, n>> \in encrypted \cap known

Phases == {"idle", "encrypted", "decrypted", "save encrypted", "save decrypted"}

FileTypes == /\ run \in [Execution -> [at: Phases, signers: SUBSET Signer,
                                     enc: SUBSET ApiKey, dec: SUBSET ApiKey]]
             /\ listed \in SUBSET Signer
             /\ encrypted \in SUBSET ApiKey
             /\ decrypted \in SUBSET ApiKey
             /\ known \in SUBSET ApiKey
             /\ batch \in 0..MaxBatches
             /\ failures \in 0..MaxFailures

FlagTypes == timely \in BOOLEAN /\ overlapped \in BOOLEAN

KeysTypeOK == FileTypes /\ FlagTypes

(* As long as no two executions of the worker overlap, whatever fails and  *)
(* whenever: a key the proxy accepts is one its signer can read, it is the *)
(* only one accepted from that signer, and it is never replaced.           *)
AcceptedIsPublished ==
  ~ overlapped =>
    /\ known \subseteq decrypted
    /\ decrypted \subseteq encrypted
    /\ \A j, k \in decrypted : j[1] = k[1] => j = k

(* Again and again all listed signers can use the proxy with a key they    *)
(* were sent - unless executions overlapped, or a signer is listed whose   *)
(* public key cannot be loaded: that one keeps all new signers from        *)
(* getting a key.                                                          *)
EverySignerAdmitted ==
  []<>(\/ \A s \in listed : Admits(s)
       \/ overlapped
       \/ listed \cap Malformed # {})
=============================================================================
