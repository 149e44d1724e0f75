--------------------------- MODULE ApiProxyProofs ---------------------------
(***************************************************************************)
(* Proofs about ApiKeys, ApiProxyCache and ApiProxy.                       *)
(*                                                                         *)
(* Keys: the inductive invariant says what an execution that is alone has  *)
(* read and what it is about to write; two of them at once may break all   *)
(* of it, and the properties promise nothing then.                         *)
(*                                                                         *)
(* Lock: a lock is a row that carries its owner's token.  What is left of  *)
(* the row and the age of the request add up to LockTimeout at least, and  *)
(* no request grows older than LambdaTimeout: so the row of a living owner *)
(* never expires, nobody takes it over, and two holders would have one     *)
(* token.                                                                  *)
(*                                                                         *)
(* Memory: every entry is counted in the total at least once and stands in *)
(* the order at least once, so that the loop of the eviction finds room;   *)
(* the age of an answer and what is left to it add up to less than two     *)
(* TTLs and a request's life, and only time moves one to the other.  What  *)
(* a request has found is younger than a TTL and the age of the request.   *)
(***************************************************************************)
EXTENDS ApiProxy, FoldTheorems, SequenceTheorems, TLAPS

Unique(keys) == \A j, k \in keys : j[1] = k[1] => j = k

(* At most one execution is under way. *)
Alone == \A e, f \in Execution : run[e].at # "idle" /\ run[f].at # "idle" => e = f

(* The proxy knows keys of the plain file, whose keys are all published.   *)
FilesSound == /\ known \subseteq decrypted
              /\ decrypted \subseteq encrypted
              /\ Unique(decrypted)

(* What an execution writes keeps the keys there are. *)
WritesSound(e) ==
  /\ run[e].at = "decrypted" => run[e].enc = encrypted
  /\ run[e].at \in {"save encrypted", "save decrypted"} =>
       /\ decrypted \subseteq run[e].dec
       /\ run[e].dec \subseteq run[e].enc
       /\ Unique(run[e].dec)
  /\ run[e].at = "save decrypted" => encrypted = run[e].enc

Sound == Alone /\ FilesSound /\ \A e \in Execution : WritesSound(e)

KInv == KeysTypeOK /\ (~ overlapped => Sound)
-----------------------------------------------------------------------------
(* Initially no execution is under way and the files are empty. *)
LEMMA KeysInitial == KeysInit => KInv
<1> SUFFICES ASSUME KeysInit PROVE KInv OBVIOUS
<1> USE ApiKeysAssumption DEF ApiKeysAssumption, KeysInit, Resting
<1>1. FileTypes BY DEF FileTypes, Phases, ApiKey
<1>2. FlagTypes BY DEF FlagTypes
<1>3. Alone BY DEF Alone
<1>4. FilesSound BY DEF FilesSound, Unique
<1>5. \A e \in Execution : WritesSound(e) BY DEF WritesSound
<1> QED BY <1>1, <1>2, <1>3, <1>4, <1>5 DEF KInv, KeysTypeOK, Sound

(* Every step keeps the types of the flags. *)
LEMMA FlagTypesKept == FlagTypes /\ [KeysNext]_keysVars => FlagTypes'
<1> SUFFICES ASSUME FlagTypes, [KeysNext]_keysVars PROVE FlagTypes' OBVIOUS
<1> USE DEF FlagTypes
<1>1. CASE UNCHANGED keysVars BY <1>1 DEF keysVars
<1>2. ASSUME NEW s \in Signer \ listed, Announce(s) PROVE FlagTypes'
  BY <1>2 DEF Announce
<1>3. ASSUME NEW e \in Execution, Work(e) PROVE FlagTypes'
  BY <1>3, Zenon DEF Work, FetchSigners, ReadEncrypted, ReadDecrypted, SaveEncrypted,
                     SaveDecrypted, Stays
<1>4. ASSUME NEW e \in Execution, RunFails(e) PROVE FlagTypes'
  BY <1>4 DEF RunFails
<1>5. CASE CheckKey BY <1>5, Zenon DEF CheckKey
<1>6. CASE KeysAge BY <1>6, Zenon DEF KeysAge
<1> QED BY <1>1, <1>2, <1>3, <1>4, <1>5, <1>6 DEF KeysNext

(* A count below its bound may be raised. *)
LEMMA OneMore == ASSUME NEW n \in Nat, NEW m \in 0..n, m < n PROVE m + 1 \in 0..n
OBVIOUS

(* Every step keeps the types of the files and of the executions. *)
LEMMA FileTypesKept == FileTypes /\ [KeysNext]_keysVars => FileTypes'
<1> SUFFICES ASSUME FileTypes, [KeysNext]_keysVars PROVE FileTypes' OBVIOUS
<1> USE ApiKeysAssumption DEF ApiKeysAssumption, FileTypes, Phases, Resting
<1>1. CASE UNCHANGED keysVars BY <1>1 DEF keysVars
<1>2. ASSUME NEW s \in Signer \ listed, Announce(s) PROVE FileTypes'
  BY <1>2 DEF Announce
<1>3. ASSUME NEW e \in Execution, FetchSigners(e) PROVE FileTypes'
  BY <1>3 DEF FetchSigners
<1>4. ASSUME NEW e \in Execution, ReadEncrypted(e) PROVE FileTypes'
  BY <1>4 DEF ReadEncrypted, Stays
<1>5. ASSUME NEW e \in Execution, ReadDecrypted(e) PROVE FileTypes'
  <2> DEFINE keys == {<<s, batch>> : s \in NewSigners(e)}
  <2>1. keys \subseteq ApiKey
    <3> SUFFICES ASSUME NEW s \in NewSigners(e) PROVE <<s, batch>> \in ApiKey OBVIOUS
    <3>1. s \in Signer BY DEF NewSigners
    <3> QED BY <3>1 DEF ApiKey
  <2>2. CASE run' = [run EXCEPT ![e] = Resting] /\ UNCHANGED batch
    BY <1>5, <2>2 DEF ReadDecrypted, Stays
  <2>3. CASE /\ batch' = batch + 1
             /\ batch < MaxBatches
             /\ run' = [run EXCEPT ![e].at = "save encrypted",
                                   ![e].enc = Merged(@, keys),
                                   ![e].dec = decrypted \cup keys]
    <3>1. batch' \in 0..MaxBatches BY <2>3, OneMore
    <3>2. run' \in [Execution -> [at: Phases, signers: SUBSET Signer,
                                  enc: SUBSET ApiKey, dec: SUBSET ApiKey]]
      BY <2>1, <2>3 DEF Merged
    <3> QED BY <1>5, <3>1, <3>2 DEF ReadDecrypted, Stays
  <2> QED BY <1>5, <2>2, <2>3 DEF ReadDecrypted
<1>6. ASSUME NEW e \in Execution, SaveEncrypted(e) PROVE FileTypes'
  BY <1>6 DEF SaveEncrypted, Stays
<1>7. ASSUME NEW e \in Execution, SaveDecrypted(e) PROVE FileTypes'
  BY <1>7 DEF SaveDecrypted, Stays
<1>8. ASSUME NEW e \in Execution, RunFails(e) PROVE FileTypes'
  <2>1. failures' \in 0..MaxFailures BY <1>8, OneMore DEF RunFails
  <2> QED BY <1>8, <2>1 DEF RunFails
<1>9. CASE CheckKey BY <1>9 DEF CheckKey
<1>10. CASE KeysAge BY <1>10 DEF KeysAge
<1> QED BY <1>1, <1>2, <1>3, <1>4, <1>5, <1>6, <1>7, <1>8, <1>9, <1>10 DEF KeysNext, Work

(* An execution that works while the others rest leaves them at rest.      *)
LEMMA OthersRest ==
  ASSUME FileTypes, Alone, NEW e \in Execution, run[e].at # "idle",
         NEW r, run' = [run EXCEPT ![e] = r]
  PROVE  \A f \in Execution \ {e} : run'[f].at = "idle"
BY DEF FileTypes, Alone

(* One execution at most that is not at rest, and sound, is enough. *)
LEMMA OneIsEnough ==
  ASSUME NEW e \in Execution, \A f \in Execution \ {e} : run'[f].at = "idle",
         WritesSound(e)', FilesSound'
  PROVE  Sound'
BY DEF Sound, Alone, WritesSound

(* What an execution does when no other is under way keeps the files and   *)
(* what is to be written sound.                                            *)
LEMMA WorkSound ==
  ASSUME FileTypes, Sound, NEW e \in Execution, Work(e), ~ overlapped'
  PROVE  Sound'
<1> USE DEF Sound
<1>1. CASE FetchSigners(e)
  <2>1. \A f \in Execution : run[f].at = "idle" BY <1>1 DEF FetchSigners
  <2>2. \A f \in Execution \ {e} : run'[f].at = "idle"
    BY <1>1, <2>1 DEF FetchSigners, FileTypes
  <2>3. WritesSound(e)' BY <1>1 DEF FetchSigners, WritesSound, FileTypes, Resting
  <2>4. FilesSound' BY <1>1 DEF FetchSigners, FilesSound, Unique
  <2> QED BY <2>2, <2>3, <2>4, OneIsEnough
<1>2. CASE ReadEncrypted(e)
  <2>1. run' = [run EXCEPT ![e] = [run[e] EXCEPT !.enc = encrypted, !.at = "decrypted"]]
    BY <1>2 DEF ReadEncrypted, FileTypes
  <2>2. \A f \in Execution \ {e} : run'[f].at = "idle"
    BY <1>2, <2>1, OthersRest DEF ReadEncrypted
  <2>3. WritesSound(e)' BY <1>2 DEF ReadEncrypted, WritesSound, FileTypes
  <2>4. FilesSound' BY <1>2 DEF ReadEncrypted, Stays, FilesSound, Unique
  <2> QED BY <2>2, <2>3, <2>4, OneIsEnough
<1>3. CASE ReadDecrypted(e)
  <2> DEFINE keys == {<<s, batch>> : s \in NewSigners(e)}
             r == [run[e] EXCEPT !.at = "save encrypted",
                                 !.enc = encrypted \cup keys,
                                 !.dec = decrypted \cup keys]
  <2>1. PICK q \in {Resting, r} : run' = [run EXCEPT ![e] = q]
    <3>1. run[e].at = "decrypted" /\ run[e].enc = encrypted
      BY <1>3 DEF ReadDecrypted, WritesSound
    <3>2. CASE run' = [run EXCEPT ![e] = Resting] BY <3>2
    <3>3. CASE run' = [run EXCEPT ![e].at = "save encrypted",
                                  ![e].enc = Merged(@, keys),
                                  ![e].dec = decrypted \cup keys]
      BY <3>1, <3>3 DEF FileTypes, Merged
    <3> QED BY <1>3, <3>2, <3>3 DEF ReadDecrypted
  <2>2. \A f \in Execution \ {e} : run'[f].at = "idle"
    BY <1>3, <2>1, OthersRest DEF ReadDecrypted
  <2>3. WritesSound(e)'
    <3>1. CASE q = Resting BY <2>1, <3>1 DEF WritesSound, FileTypes, Resting
    <3>2. CASE q = r
      <4>1. /\ run'[e].at = "save encrypted"
            /\ run'[e].enc = encrypted \cup keys
            /\ run'[e].dec = decrypted \cup keys
        BY <2>1, <3>2 DEF FileTypes
      <4>2. decrypted \cup keys \subseteq encrypted \cup keys BY DEF FilesSound
      <4>3. Unique(decrypted \cup keys)
        <5>1. \A k \in keys : k[1] \in NewSigners(e) /\ k = <<k[1], batch>> OBVIOUS
        <5>2. \A k \in keys, j \in decrypted : k[1] # j[1] BY <5>1 DEF NewSigners
        <5>3. \A j, k \in keys : j[1] = k[1] => j = k BY <5>1
        <5> HIDE DEF keys
        <5> QED BY <5>2, <5>3, Zenon DEF FilesSound, Unique
      <4>4. UNCHANGED <<encrypted, decrypted>> BY <1>3 DEF ReadDecrypted
      <4> HIDE DEF keys
      <4> QED BY <4>1, <4>2, <4>3, <4>4 DEF WritesSound
    <3> QED BY <2>1, <3>1, <3>2
  <2>4. FilesSound' BY <1>3 DEF ReadDecrypted, Stays, FilesSound, Unique
  <2> QED BY <2>2, <2>3, <2>4, OneIsEnough
<1>4. CASE SaveEncrypted(e)
  <2>1. run' = [run EXCEPT ![e] = [run[e] EXCEPT !.at = "save decrypted"]]
    BY <1>4 DEF SaveEncrypted, FileTypes
  <2>2. \A f \in Execution \ {e} : run'[f].at = "idle"
    BY <1>4, <2>1, OthersRest DEF SaveEncrypted
  <2>3. WritesSound(e)'
    <3>1. /\ run'[e].at = "save decrypted"
          /\ run'[e].enc = run[e].enc
          /\ run'[e].dec = run[e].dec
      BY <2>1 DEF FileTypes
    <3>2. encrypted' = run[e].enc /\ decrypted' = decrypted BY <1>4 DEF SaveEncrypted
    <3> QED BY <1>4, <3>1, <3>2 DEF SaveEncrypted, WritesSound, Unique
  <2>4. FilesSound'
    BY <1>4 DEF SaveEncrypted, Stays, FilesSound, Unique, WritesSound
  <2> QED BY <2>2, <2>3, <2>4, OneIsEnough
<1>5. CASE SaveDecrypted(e)
  <2>1. run' = [run EXCEPT ![e] = Resting] BY <1>5 DEF SaveDecrypted
  <2>2. \A f \in Execution \ {e} : run'[f].at = "idle"
    BY <1>5, <2>1, OthersRest DEF SaveDecrypted
  <2>3. WritesSound(e)' BY <1>5 DEF SaveDecrypted, WritesSound, FileTypes, Resting
  <2>4. FilesSound'
    <3>1. /\ decrypted \subseteq run[e].dec
          /\ run[e].dec \subseteq run[e].enc
          /\ Unique(run[e].dec)
          /\ encrypted = run[e].enc
      BY <1>5 DEF SaveDecrypted, WritesSound
    <3>2. decrypted' = run[e].dec /\ encrypted' = encrypted /\ known' = known
      BY <1>5 DEF SaveDecrypted, Stays
    <3> QED BY <3>1, <3>2 DEF FilesSound, Unique
  <2> QED BY <2>2, <2>3, <2>4, OneIsEnough
<1> QED BY <1>1, <1>2, <1>3, <1>4, <1>5 DEF Work

(* Every other step keeps them sound too. *)
LEMMA SoundKept ==
  ASSUME FileTypes, FlagTypes, ~ overlapped => Sound, [KeysNext]_keysVars, ~ overlapped'
  PROVE  Sound'
<1>1. ~ overlapped
  BY Zenon DEF KeysNext, keysVars, Announce, Work, FetchSigners, ReadEncrypted,
               ReadDecrypted, SaveEncrypted, SaveDecrypted, Stays, RunFails, CheckKey,
               KeysAge
<1> USE <1>1 DEF Sound
<1>2. CASE UNCHANGED keysVars
  BY <1>2 DEF keysVars, Alone, FilesSound, Unique, WritesSound
<1>3. ASSUME NEW s \in Signer \ listed, Announce(s) PROVE Sound'
  BY <1>3 DEF Announce, Alone, FilesSound, Unique, WritesSound
<1>4. ASSUME NEW e \in Execution, Work(e) PROVE Sound' BY <1>4, WorkSound
<1>5. ASSUME NEW e \in Execution, RunFails(e) PROVE Sound'
  <2>1. run' = [run EXCEPT ![e] = Resting] BY <1>5 DEF RunFails
  <2>2. \A f \in Execution \ {e} : run'[f].at = "idle"
    BY <1>5, <2>1, OthersRest DEF RunFails
  <2>3. WritesSound(e)' BY <1>5 DEF RunFails, WritesSound, FileTypes, Resting
  <2>4. FilesSound' BY <1>5 DEF RunFails, FilesSound, Unique
  <2> QED BY <2>2, <2>3, <2>4, OneIsEnough
<1>6. CASE CheckKey BY <1>6 DEF CheckKey, Alone, FilesSound, Unique, WritesSound
<1>7. CASE KeysAge BY <1>7 DEF KeysAge, Alone, FilesSound, Unique, WritesSound
<1> QED BY <1>2, <1>3, <1>4, <1>5, <1>6, <1>7 DEF KeysNext

(* KInv is inductive. *)
LEMMA KeysStep == KInv /\ [KeysNext]_keysVars => KInv'
BY FileTypesKept, FlagTypesKept, SoundKept, Zenon DEF KInv, KeysTypeOK
-----------------------------------------------------------------------------
(* The files, the executions and what the proxy knows keep their types     *)
(* (workers/generate-api-keys.worker.ts, lib/api-keys-storage.ts).         *)
THEOREM KeysTypeCorrect == KeysSpec => []KeysTypeOK
<1>1. KInv => KeysTypeOK BY DEF KInv
<1> QED BY <1>1, KeysInitial, KeysStep, PTL DEF KeysSpec

(* For any number of signers and executions, and whatever fails: unless    *)
(* executions of the worker overlap, the proxy accepts only keys their     *)
(* signers can read, one of each signer (lib/api-keys-storage.ts:94-109,   *)
(* proxy/api-proxy.mjs:71-173).                                            *)
THEOREM KeysPublished == KeysSpec => []AcceptedIsPublished
<1>1. KInv => AcceptedIsPublished
  BY Zenon DEF KInv, Sound, FilesSound, Unique, AcceptedIsPublished
<1> QED BY <1>1, KeysInitial, KeysStep, PTL DEF KeysSpec
-----------------------------------------------------------------------------
Rows == shared \in [Key -> Row]
Requests == req \in [Instance -> Request]

(* A token belongs to one request, while that inserts, verifies or calls. *)
TokensApart ==
  \A i, j \in Instance : req[i].token = req[j].token => i = j \/ req[i].token = NoToken

TokensPlaced ==
  \A i \in Instance : req[i].at \notin {"verify", "call"} => req[i].token = NoToken

(* A row with a living request's token is that of its key, and outlives it. *)
RowLasts(i, k) ==
  req[i].token # NoToken /\ shared[k].token = req[i].token =>
    k = req[i].key /\ shared[k].left + req[i].age >= LockTimeout

RowsLast == \A i \in Instance, k \in Key : RowLasts(i, k)

(* The holder of a lock has its row. *)
Rowed == \A i \in Instance : Holds(i) => shared[req[i].key].token = req[i].token

(* An answer in a row has what is left of its TTL and no more.             *)
Answered == \A k \in Key : shared[k].status = "COMPLETED" => shared[k].left <= TTL

PInv == Rows /\ Requests /\ TokensApart /\ TokensPlaced /\ RowsLast /\ Rowed
-----------------------------------------------------------------------------
(* Key is not empty, so that there is a request of nobody. *)
LEMMA NoRequestTyped == NoRequest \in Request /\ NoRow \in Row
<1> USE ApiProxyAssumption DEF ApiProxyAssumption
<1>1. (CHOOSE k \in Key : TRUE) \in Key OBVIOUS
<1>2. 0 \in 0 .. LambdaTimeout /\ -1 \in -1 .. LockTimeout OBVIOUS
<1>3. NoRequest \in Request
  <2>1. "idle" \in Steps BY DEF Steps
  <2>2. FALSE \in BOOLEAN OBVIOUS
  <2>3. PICK k : k = (CHOOSE c \in Key : TRUE) OBVIOUS
  <2>4. k \in Key BY <1>1, <2>3
  <2>5. NoRequest = [at |-> "idle", key |-> k, token |-> NoToken, age |-> 0, retried |-> FALSE,
                   found |-> Nothing]
    BY <2>3 DEF NoRequest
  <2>6. Nothing \in Found BY DEF Found
  <2> QED BY <1>2, <2>1, <2>2, <2>4, <2>5, <2>6 DEF Request
<1>4. NoRow \in Row BY <1>2 DEF NoRow, Row
<1> QED BY <1>3, <1>4

LEMMA NoRequestRests == NoRequest.token = NoToken /\ NoRequest.at = "idle"
<1>1. PICK k : k = (CHOOSE c \in Key : TRUE) OBVIOUS
<1>2. NoRequest = [at |-> "idle", key |-> k, token |-> NoToken, age |-> 0, retried |-> FALSE,
                 found |-> Nothing]
  BY <1>1 DEF NoRequest
<1> QED BY <1>2

(* Initially there are no rows and no requests. *)
LEMMA ProxyInitial == Init => PInv
<1> SUFFICES ASSUME Init PROVE PInv OBVIOUS
<1>1. \A i \in Instance : req[i] = NoRequest BY DEF Init
<1>2. Rows /\ Requests BY NoRequestTyped DEF Init, Rows, Requests
<1>3. \A i \in Instance : req[i].token = NoToken /\ req[i].at = "idle"
  BY <1>1, NoRequestRests
<1> QED
  BY <1>2, <1>3 DEF PInv, TokensApart, TokensPlaced, RowsLast, RowLasts, Rowed, Holds

(* A step that leaves the rows alone and changes one request, which keeps  *)
(* its key and age or ends, and takes no token, is harmless unless the     *)
(* request becomes a holder.                                               *)
LEMMA OneRequest ==
  ASSUME PInv, UNCHANGED shared, NEW i \in Instance, NEW r \in Request,
         req' = [req EXCEPT ![i] = r],
         \/ r.token = NoToken
         \/ r.token = req[i].token /\ r.key = req[i].key /\ r.age = req[i].age,
         r.at \notin {"verify", "call"} => r.token = NoToken,
         r.at = "call" /\ r.token # NoToken => shared[r.key].token = r.token
  PROVE  PInv'
<1> USE DEF PInv
<1>1. \A j \in Instance : req'[j] = IF j = i THEN r ELSE req[j] BY DEF Requests
<1>2. Rows' /\ Requests' BY DEF Rows, Requests
<1>3. TokensApart' BY <1>1 DEF TokensApart
<1>4. TokensPlaced' BY <1>1 DEF TokensPlaced
<1>5. RowsLast' BY <1>1 DEF RowsLast, RowLasts
<1>6. Rowed' BY <1>1 DEF Rowed, Holds
<1> QED BY <1>2, <1>3, <1>4, <1>5, <1>6

(* A request that ends disturbs nothing. *)
LEMMA Ends ==
  ASSUME PInv, UNCHANGED shared, NEW i \in Instance, Answer(i)
  PROVE  PInv'
<1>1. req' = [req EXCEPT ![i] = NoRequest] BY DEF Answer
<1> QED BY <1>1, OneRequest, NoRequestTyped, NoRequestRests

(* A request takes another step without a lock. *)
LEMMA Unlocked ==
  ASSUME PInv, UNCHANGED shared, NEW i \in Instance, NEW step \in Steps,
         NEW again \in BOOLEAN,
         req' = [req EXCEPT ![i] =
                   [req[i] EXCEPT !.at = step, !.token = NoToken, !.retried = again]]
  PROVE  PInv'
<1> DEFINE r == [req[i] EXCEPT !.at = step, !.token = NoToken, !.retried = again]
<1>1. req[i] \in Request BY DEF PInv, Requests
<1>2. r \in Request BY <1>1 DEF Request
<1>3. r.token = NoToken BY <1>1 DEF Request
<1> HIDE DEF r
<1> QED BY <1>2, <1>3, OneRequest DEF r

(* Requests that hold no token and reach another step. *)
LEMMA Goes ==
  ASSUME PInv, UNCHANGED shared, NEW i \in Instance, NEW step \in Steps,
         req[i].token = NoToken, Goto(i, step)
  PROVE  PInv'
<1>1. req[i] \in Request BY DEF PInv, Requests
<1>2. req' = [req EXCEPT ![i] = [req[i] EXCEPT !.at = step]] BY DEF Goto, PInv, Requests
<1>3. [req[i] EXCEPT !.at = step] \in Request BY <1>1 DEF Request
<1>4. [req[i] EXCEPT !.at = step].token = NoToken BY <1>1 DEF Request
<1> QED BY <1>2, <1>3, <1>4, OneRequest

(* A new row carries a token that no row and no request had. *)
LEMMA InsertKeeps == ASSUME PInv, NEW i \in Instance, Insert(i) PROVE PInv'
<1> USE ApiProxyAssumption DEF ApiProxyAssumption
<1>1. PICK t \in Token :
        /\ NewToken(t)
        /\ req' = [req EXCEPT ![i].at = "verify", ![i].token = t]
        /\ shared' = IF shared[req[i].key].left >= 0 THEN shared
                     ELSE [shared EXCEPT ![req[i].key] =
                             [status |-> "IN_FLIGHT", token |-> t, left |-> LockTimeout]]
  BY DEF Insert
<1>2. /\ t # NoToken
      /\ \A k \in Key : shared[k].token # t
      /\ \A j \in Instance : req[j].token # t
  BY <1>1 DEF NewToken, InUse
<1>3. req[i] \in Request /\ \A k \in Key : shared[k] \in Row
  BY DEF PInv, Requests, Rows
<1> DEFINE r == [req[i] EXCEPT !.at = "verify", !.token = t]
           k == req[i].key
           row == [status |-> "IN_FLIGHT", token |-> t, left |-> LockTimeout]
<1>4. /\ r \in Request /\ r.token = t /\ r.at = "verify" /\ r.key = k
      /\ r.age = req[i].age /\ r.age \in Nat /\ k \in Key
  <2>1. req[i].age \in 0 .. LambdaTimeout /\ k \in Key BY <1>3 DEF Request
  <2>2. "verify" \in Steps BY DEF Steps
  <2>3. r \in Request BY <1>3, <2>2 DEF Request
  <2>4. r.token = t /\ r.at = "verify" /\ r.key = k /\ r.age = req[i].age
    BY <1>3 DEF Request
  <2>5. req[i].age \in Nat BY <2>1
  <2> HIDE DEF r
  <2> QED BY <2>1, <2>3, <2>4, <2>5
<1>5. row \in Row /\ row.token = t /\ row.left = LockTimeout BY DEF Row
<1>6. req' = [req EXCEPT ![i] = r] BY <1>1 DEF PInv, Requests
<1>7. shared' = IF shared[k].left >= 0 THEN shared ELSE [shared EXCEPT ![k] = row]
  BY <1>1
<1> HIDE DEF r, row
<1>8. \A j \in Instance : req'[j] = IF j = i THEN r ELSE req[j]
  BY <1>6 DEF PInv, Requests
<1>9. \A c \in Key : \/ shared'[c] = shared[c]
                     \/ c = k /\ shared[c].left < 0 /\ shared'[c] = row
  <2>1. shared[k].left \in -1 .. LockTimeout BY <1>3, <1>4 DEF Row
  <2>2. CASE shared[k].left >= 0 BY <1>7, <2>2
  <2>3. CASE ~ (shared[k].left >= 0)
    <3>1. shared[k].left < 0 BY <2>1, <2>3
    <3>2. shared' = [shared EXCEPT ![k] = row] BY <1>7, <2>3
    <3> QED BY <3>1, <3>2 DEF PInv, Rows
  <2> QED BY <2>2, <2>3
<1> HIDE DEF k
<1>10. Requests' BY <1>4, <1>6 DEF PInv, Requests
<1>11. Rows' BY <1>4, <1>5, <1>7 DEF PInv, Rows
<1>12. TokensApart' BY <1>2, <1>4, <1>8 DEF PInv, TokensApart
<1>13. TokensPlaced' BY <1>4, <1>8 DEF PInv, TokensPlaced
<1>14. RowsLast'
  <2> SUFFICES ASSUME NEW j \in Instance, NEW c \in Key PROVE RowLasts(j, c)'
    BY DEF RowsLast
  <2>1. RowLasts(j, c) BY DEF PInv, RowsLast
  <2>2. CASE shared'[c] = shared[c] BY <1>2, <1>4, <1>8, <2>1, <2>2 DEF RowLasts
  <2>3. CASE c = k /\ shared'[c] = row
    <3>1. CASE j = i BY <1>4, <1>5, <1>8, <2>3, <3>1 DEF RowLasts
    <3>2. CASE j # i
      <4>1. req'[j] = req[j] /\ req[j].token # t BY <1>2, <1>8, <3>2
      <4>2. shared'[c].token = t BY <1>5, <2>3
      <4> QED BY <4>1, <4>2 DEF RowLasts
    <3> QED BY <3>1, <3>2
  <2> QED BY <1>9, <2>2, <2>3
<1>15. Rowed'
  <2> SUFFICES ASSUME NEW j \in Instance, Holds(j)'
               PROVE  (shared[req[j].key].token = req[j].token)'
    BY DEF Rowed
  <2>1. j # i /\ req'[j] = req[j] BY <1>4, <1>8 DEF Holds
  <2>2. Holds(j) BY <2>1 DEF Holds
  <2> DEFINE c == req[j].key
  <2>3. c \in Key /\ req[j].age \in 0 .. LambdaTimeout BY DEF PInv, Requests, Request
  <2>4. shared[c].token = req[j].token BY <2>2 DEF PInv, Rowed
  <2>5. shared[c].left + req[j].age >= LockTimeout
    BY <2>2, <2>3, <2>4 DEF PInv, RowsLast, RowLasts, Holds
  <2>6. shared[c].left \in -1 .. LockTimeout BY <1>3, <2>3 DEF Row
  <2>7. ~ (shared[c].left < 0) BY <2>3, <2>5, <2>6
  <2>8. shared'[c] = shared[c] BY <1>9, <2>3, <2>7
  <2> QED BY <2>1, <2>4, <2>8
<1> QED BY <1>10, <1>11, <1>12, <1>13, <1>14, <1>15 DEF PInv

(* The holder's answer and its giving up reach no row but its own. *)
LEMMA OwnRow ==
  ASSUME PInv, NEW i \in Instance, Answer(i), NEW row \in Row,
         row.token \in {NoToken, req[i].token},
         shared' = [k \in Key |-> IF k \in Own(i) THEN row ELSE shared[k]]
  PROVE  PInv'
<1>1. \A j \in Instance : req'[j] = IF j = i THEN NoRequest ELSE req[j]
  BY DEF Answer, PInv, Requests
<1>2. \A k \in Key : shared'[k] = IF k \in Own(i) THEN row ELSE shared[k] OBVIOUS
<1>3. Rows' BY DEF PInv, Rows
<1>4. Requests' BY NoRequestTyped DEF PInv, Requests, Answer
<1>5. TokensApart' BY <1>1, NoRequestRests DEF PInv, TokensApart
<1>6. TokensPlaced' BY <1>1, NoRequestRests DEF PInv, TokensPlaced
<1>7. ASSUME NEW j \in Instance, j # i, NEW k \in Key, req[j].token # NoToken,
             k \in Own(i)
      PROVE  shared[k].token # req[j].token /\ row.token # req[j].token
  BY <1>7 DEF PInv, TokensApart, Own, Holds
<1>8. RowsLast'
  <2> SUFFICES ASSUME NEW j \in Instance, NEW k \in Key PROVE RowLasts(j, k)'
    BY DEF RowsLast
  <2>1. RowLasts(j, k) BY DEF PInv, RowsLast
  <2>2. CASE j = i BY <1>1, <2>2, NoRequestRests DEF RowLasts
  <2>3. CASE j # i BY <1>1, <1>2, <1>7, <2>1, <2>3 DEF RowLasts
  <2> QED BY <2>2, <2>3
<1>9. Rowed'
  <2> SUFFICES ASSUME NEW j \in Instance, Holds(j)'
               PROVE  (shared[req[j].key].token = req[j].token)'
    BY DEF Rowed
  <2>1. j # i /\ req'[j] = req[j] BY <1>1, NoRequestRests DEF Holds
  <2>2. Holds(j) BY <2>1 DEF Holds
  <2>3. req[j].key \in Key BY DEF PInv, Requests, Request
  <2>4. shared[req[j].key].token = req[j].token BY <2>2 DEF PInv, Rowed
  <2> QED BY <1>2, <1>7, <2>1, <2>2, <2>3, <2>4 DEF Holds
<1> QED BY <1>3, <1>4, <1>5, <1>6, <1>8, <1>9 DEF PInv

(* Time passes for the rows and for the requests alike. *)
LEMMA TickKeeps == ASSUME PInv, Tick PROVE PInv'
<1> USE ApiProxyAssumption DEF ApiProxyAssumption
<1>1. /\ \A i \in Instance : req[i] \in Request
      /\ \A k \in Key : shared[k] \in Row
  BY DEF PInv, Requests, Rows
<1>2. ASSUME NEW i \in Instance
      PROVE  /\ req'[i] \in Request
             /\ req'[i].at = req[i].at /\ req'[i].key = req[i].key
             /\ req'[i].token = req[i].token
             /\ req'[i].age = IF Busy(i) THEN req[i].age + 1 ELSE req[i].age
  <2>1. req[i].age \in 0 .. LambdaTimeout BY <1>1 DEF Request
  <2>2. CASE Busy(i)
    <3> DEFINE found == Older(req[i].found)
    <3>1. req'[i] = [req[i] EXCEPT !.age = req[i].age + 1, !.found = found]
      BY <2>2 DEF Tick
    <3>0. req[i].age < LambdaTimeout BY <2>2, Zenon DEF Tick
    <3>2. req[i].age + 1 \in 0 .. LambdaTimeout BY <2>1, <3>0
    <3>3. found \in Found BY <1>1 DEF Older, Request, Found, Nothing
    <3> HIDE DEF found
    <3> QED BY <1>1, <2>2, <3>1, <3>2, <3>3 DEF Request
  <2>3. CASE ~ Busy(i) BY <1>1, <2>3 DEF Tick
  <2> QED BY <2>2, <2>3
<1>3. ASSUME NEW k \in Key
      PROVE  /\ shared'[k] \in Row /\ shared'[k].token = shared[k].token
             /\ shared'[k].left = Passed(shared[k].left)
  <2>1. shared'[k] = [shared[k] EXCEPT !.left = Passed(shared[k].left)] BY DEF Tick
  <2>2. shared[k].left \in -1 .. LockTimeout BY <1>1 DEF Row
  <2>3. Passed(shared[k].left) \in -1 .. LockTimeout BY <2>2 DEF Passed
  <2> QED BY <1>1, <2>1, <2>3 DEF Row
<1>4. Rows' BY <1>3 DEF Rows, Tick
<1>5. Requests' BY <1>2 DEF Requests, Tick
<1>6. TokensApart' BY <1>2 DEF PInv, TokensApart
<1>7. TokensPlaced' BY <1>2 DEF PInv, TokensPlaced
<1>8. RowsLast'
  <2> SUFFICES ASSUME NEW i \in Instance, NEW k \in Key,
                      req'[i].token # NoToken, shared'[k].token = req'[i].token
               PROVE  (k = req[i].key /\ shared[k].left + req[i].age >= LockTimeout)'
    BY DEF RowsLast, RowLasts
  <2>1. req[i].token # NoToken /\ shared[k].token = req[i].token BY <1>2, <1>3
  <2>2. Busy(i) BY <2>1 DEF PInv, TokensPlaced, Busy
  <2>3. k = req[i].key /\ shared[k].left + req[i].age >= LockTimeout
    BY <2>1 DEF PInv, RowsLast, RowLasts
  <2>4. req[i].age \in 0 .. LambdaTimeout /\ shared[k].left \in -1 .. LockTimeout
    BY <1>1 DEF Request, Row
  <2>5. shared[k].left > 0 BY <2>3, <2>4
  <2>6. req'[i].age = req[i].age + 1 /\ shared'[k].left = shared[k].left - 1
    BY <1>2, <1>3, <2>2, <2>4, <2>5 DEF Passed
  <2> QED BY <1>2, <2>3, <2>4, <2>6
<1>9. Rowed'
  <2> SUFFICES ASSUME NEW i \in Instance, Holds(i)'
               PROVE  (shared[req[i].key].token = req[i].token)'
    BY DEF Rowed
  <2>1. Holds(i) BY <1>2 DEF Holds
  <2>2. req[i].key \in Key BY <1>1 DEF Request
  <2> QED BY <1>2, <1>3, <2>1, <2>2 DEF PInv, Rowed
<1> QED BY <1>4, <1>5, <1>6, <1>7, <1>8, <1>9 DEF PInv

(* A request that looks into the memory cache goes on to the rows or ends. *)
LEMMA ArriveKeeps ==
  ASSUME PInv, NEW i \in Instance, NEW k \in Key, Arrive(i, k) PROVE PInv'
<1>1. req[i] \in Request /\ req[i].token = NoToken
  BY DEF Arrive, Busy, PInv, Requests, TokensPlaced
<1>2. UNCHANGED shared BY DEF Arrive
<1>3. CASE UNCHANGED req
  BY <1>2, <1>3 DEF PInv, Rows, Requests, TokensApart, TokensPlaced, RowsLast, RowLasts,
                    Rowed, Holds
<1>4. CASE req' = [req EXCEPT ![i].at = "shared", ![i].key = k]
  <2> DEFINE r == [req[i] EXCEPT !.at = "shared", !.key = k]
  <2>1. req' = [req EXCEPT ![i] = r] BY <1>4 DEF PInv, Requests
  <2>2. r \in Request /\ r.token = NoToken BY <1>1 DEF Request, Steps
  <2> HIDE DEF r
  <2> QED BY <1>2, <2>1, <2>2, OneRequest
<1> QED BY <1>3, <1>4 DEF Arrive

(* The SELECT makes a request a holder only when the row is its own. *)
LEMMA VerifyKeeps == ASSUME PInv, NEW i \in Instance, Verify(i) PROVE PInv'
<1>1. req[i] \in Request /\ UNCHANGED shared BY DEF Verify, PInv, Requests
<1>2. CASE shared[req[i].key].token = req[i].token
  <2> DEFINE t == req[i].token
             r == [req[i] EXCEPT !.at = "call", !.token = t, !.retried = FALSE,
                                 !.found = Nothing]
  <2>1. req' = [req EXCEPT ![i] = r] BY <1>2 DEF Verify, CallWith, PInv, Requests
  <2>2. /\ r \in Request /\ r.at = "call"
        /\ r.token = req[i].token /\ r.key = req[i].key /\ r.age = req[i].age
    BY <1>1 DEF Request, Steps, Found
  <2> HIDE DEF r
  <2> QED BY <1>1, <1>2, <2>1, <2>2, OneRequest
<1>3. CASE shared[req[i].key].token # req[i].token
  <2> DEFINE r == [req[i] EXCEPT !.at = "wait", !.token = NoToken, !.retried = FALSE]
  <2>1. req' = [req EXCEPT ![i] = r] BY <1>3 DEF Verify, PInv, Requests
  <2>2. r \in Request /\ r.token = NoToken BY <1>1 DEF Request, Steps
  <2> HIDE DEF r
  <2> QED BY <1>1, <2>1, <2>2, OneRequest
<1> QED BY <1>2, <1>3

(* A request that goes on without a lock. *)
LEMMA CallsWithout ==
  ASSUME PInv, UNCHANGED shared, NEW i \in Instance, CallWith(i, NoToken) PROVE PInv'
<1> DEFINE r == [req[i] EXCEPT !.at = "call", !.token = NoToken, !.retried = FALSE,
                               !.found = Nothing]
<1>1. req[i] \in Request BY DEF PInv, Requests
<1>2. req' = [req EXCEPT ![i] = r] BY DEF CallWith, PInv, Requests
<1>3. r \in Request /\ r.token = NoToken BY <1>1 DEF Request, Steps, Found
<1> HIDE DEF r
<1> QED BY <1>2, <1>3, OneRequest

(* An answer that may be read is younger than its TTL. *)
LEMMA AgeOfAnswer ==
  ASSUME PInv, Answered, NEW k \in Key, Readable(k) PROVE Age(k) \in 0 .. TTL - 1
<1>1. shared[k].left \in Int /\ TTL \in Nat
  BY ApiProxyAssumption, LocalCacheAssumption
  DEF PInv, Rows, Row, ApiProxyAssumption, LocalCacheAssumption
<1>2. shared[k].left <= TTL /\ shared[k].left > 0 BY DEF Answered, Readable
<1> QED BY <1>1, <1>2 DEF Age

(* A request that has found a shared answer goes on without a token. *)
LEMMA FindKeeps ==
  ASSUME PInv, Answered, UNCHANGED shared, NEW i \in Instance, NEW step \in Steps,
         req[i].token = NoToken, Find(i, step)
  PROVE  PInv'
<1> DEFINE age == Age(req[i].key)
           r == [req[i] EXCEPT !.at = step, !.found = age]
<1>1. req[i] \in Request BY DEF PInv, Requests
<1>2. age \in Found BY <1>1, AgeOfAnswer DEF Request, Find, Found
<1> HIDE DEF age
<1>3. req' = [req EXCEPT ![i] = r] BY DEF Find, PInv, Requests, age
<1>4. r \in Request /\ r.token = NoToken BY <1>1, <1>2 DEF Request
<1> HIDE DEF r
<1> QED BY <1>3, <1>4, OneRequest

LEMMA LockFailsKeeps == ASSUME PInv, NEW i \in Instance, LockFails(i) PROVE PInv'
<1>1. UNCHANGED shared BY DEF LockFails
<1>2. CASE req' = [req EXCEPT ![i].at = "insert", ![i].token = NoToken,
                              ![i].retried = TRUE]
  <2> DEFINE r == [req[i] EXCEPT !.at = "insert", !.token = NoToken, !.retried = TRUE]
  <2>1. req' = [req EXCEPT ![i] = r] BY <1>2 DEF PInv, Requests
  <2>2. "insert" \in Steps /\ TRUE \in BOOLEAN BY DEF Steps
  <2> HIDE DEF r
  <2> QED BY <1>1, <2>1, <2>2, Unlocked DEF r
<1>3. CASE CallWith(i, NoToken) BY <1>1, <1>3, CallsWithout
<1> QED BY <1>2, <1>3 DEF LockFails

(* The API's answer and its failure reach the holder's own row. *)
LEMMA CallKeeps ==
  ASSUME PInv, NEW i \in Instance, CallSucceeds(i) \/ CallFails(i) PROVE PInv'
<1>1. Answer(i) BY DEF CallSucceeds, CallFails
<1>2. CASE CallSucceeds(i)
  <2> USE ApiProxyAssumption, LocalCacheAssumption
      DEF ApiProxyAssumption, LocalCacheAssumption
  <2> DEFINE k == req[i].key
             row == IF Own(i) = {} THEN NoRow
                    ELSE [shared[k] EXCEPT !.status = "COMPLETED", !.left = TTL]
  <2>1. k \in Key BY DEF PInv, Requests, Request
  <2>2. shared[k] \in Row /\ TTL \in -1 .. LockTimeout BY <2>1 DEF PInv, Rows
  <2>3. Own(i) # {} => shared[k].token = req[i].token BY DEF Own
  <2>4. NoRow.token = NoToken BY DEF NoRow
  <2>5. row \in Row /\ row.token \in {NoToken, req[i].token}
    BY <2>2, <2>3, <2>4, NoRequestTyped DEF Row
  <2>6. shared' = [c \in Key |-> IF c \in Own(i) THEN row ELSE shared[c]]
    <3>1. \A c \in Own(i) : c = k BY DEF Own
    <3> QED BY <1>2, <3>1 DEF CallSucceeds
  <2> HIDE DEF row
  <2> QED BY <1>1, <2>5, <2>6, OwnRow
<1>3. CASE CallFails(i)
  <2>1. CASE UNCHANGED shared BY <1>1, <2>1, Ends
  <2>2. CASE shared' = [k \in Key |-> IF k \in Own(i) THEN NoRow ELSE shared[k]]
    <3>1. NoRow.token = NoToken BY DEF NoRow
    <3> QED BY <1>1, <2>2, <3>1, OwnRow, NoRequestTyped
  <2> QED BY <1>3, <2>1, <2>2 DEF CallFails
<1> QED BY <1>2, <1>3

(* PInv is inductive, as long as rows have no more than a TTL. *)
LEMMA ProxyStep == PInv /\ Answered /\ [Next]_vars => PInv'
<1> SUFFICES ASSUME PInv, Answered, [Next]_vars PROVE PInv' OBVIOUS
<1>1. CASE UNCHANGED <<shared, req>>
  BY <1>1 DEF PInv, Rows, Requests, TokensApart, TokensPlaced, RowsLast, RowLasts, Rowed,
              Holds
<1>2. CASE UNCHANGED vars BY <1>1, <1>2 DEF vars
<1>3. ASSUME NEW i \in Instance, NEW k \in Key, Arrive(i, k) PROVE PInv'
  BY <1>3, ArriveKeeps
<1>4. ASSUME NEW i \in Instance, NEW p \in late[i], LateHit(i, p) \/ LatePoll(i, p)
      PROVE  PInv'
  BY <1>1, <1>4 DEF LateHit, LatePoll
<1>5. ASSUME NEW i \in Instance, BeginDirect(i) PROVE PInv'
  <2>1. req[i].token = NoToken BY <1>5 DEF BeginDirect, Busy, PInv, TokensPlaced
  <2>2. "direct" \in Steps BY DEF Steps
  <2> QED BY <1>5, <2>1, <2>2, Goes DEF BeginDirect
<1>6. ASSUME NEW i \in Instance, Die(i) PROVE PInv' BY <1>6, Ends DEF Die
<1>7. CASE Tick BY <1>7, TickKeeps
<1>8. ASSUME NEW i \in Instance, Serve(i) PROVE PInv'
  <2>1. CASE StoreFails(i) \/ Receive(i) \/ PollLocal(i) \/ EndDirect(i)
    BY <1>1, <2>1, Ends DEF StoreFails, Receive, PollLocal, EndDirect
  <2>2. CASE SharedMiss(i)
    <3>1. req[i].token = NoToken BY <2>2 DEF SharedMiss, PInv, TokensPlaced
    <3>2. "insert" \in Steps BY DEF Steps
    <3> QED BY <2>2, <3>1, <3>2, Goes DEF SharedMiss
  <2>3. CASE Insert(i) BY <2>3, InsertKeeps
  <2>4. CASE Verify(i) BY <2>4, VerifyKeeps
  <2>5. CASE LockFails(i) BY <2>5, LockFailsKeeps
  <2>6. CASE GiveUp(i) BY <2>6, CallsWithout DEF GiveUp
  <2>7. CASE CallSucceeds(i) \/ CallFails(i) BY <2>7, CallKeeps
  <2>8. CASE SharedHit(i) \/ PollHit(i)
    <3>1. req[i].token = NoToken BY <2>8 DEF SharedHit, PollHit, PInv, TokensPlaced
    <3>2. {"copy", "polled"} \subseteq Steps BY DEF Steps
    <3> QED BY <2>8, <3>1, <3>2, FindKeeps DEF SharedHit, PollHit
  <2> QED BY <1>8, <2>1, <2>2, <2>3, <2>4, <2>5, <2>6, <2>7, <2>8 DEF Serve
<1> QED BY <1>2, <1>3, <1>4, <1>5, <1>6, <1>7, <1>8 DEF Next

(* What PInv is for: the row of a key has one token, and so one holder.    *)
LEMMA OneHolderByToken == PInv => OneHolder
BY DEF PInv, Rowed, TokensApart, OneHolder, Holds
-----------------------------------------------------------------------------
(* The memory cache *)

Entries == UNION {[K -> Copy] : K \in SUBSET Key}
Cache == [entry: Entries, order: Seq(Key), total: Int]

(* The total counts every entry at least once, and the eviction finds it.  *)
Accounted(c) ==
  /\ IsFiniteSet(DOMAIN c.entry)
  /\ Summed(SizeOf, DOMAIN c.entry) <= c.total
  /\ DOMAIN c.entry \subseteq ToSet(c.order)

Limited(c) == Cardinality(DOMAIN c.entry) <= MaxEntries /\ c.total <= MaxMemory

(* What an answer has aged and what is left to it change together.         *)
Young(copy) == copy.behind \/ copy.age + copy.left < 2 * TTL + LambdaTimeout

CacheSound(c) ==
  c \in Cache /\ Accounted(c) /\ Limited(c) /\ \A k \in DOMAIN c.entry : Young(c.entry[k])

LEMMA EntriesMade ==
  ASSUME NEW D \in SUBSET Key, NEW f \in [D -> Copy]
  PROVE  f \in Entries /\ DOMAIN f = D
BY DEF Entries

LEMMA EntriesUsed ==
  ASSUME NEW f \in Entries
  PROVE  DOMAIN f \in SUBSET Key /\ f \in [DOMAIN f -> Copy]
BY DEF Entries

LEMMA SizesAre ==
  ASSUME NEW S \in SUBSET Key, IsFiniteSet(S)
  PROVE  /\ MapThenSumSet(LAMBDA k : SizeOf[k], S) = Summed(SizeOf, S)
         /\ Summed(SizeOf, S) \in Nat
<1>1. \A k \in S : SizeOf[k] \in Nat /\ SizeOf[k] \in Int
  BY LocalCacheAssumption DEF LocalCacheAssumption
<1> QED
  BY <1>1, MapThenSumIs, SummedNat

(* A key leaves the order in one place, the other keys stay. *)
LEMMA RemoveFirstKeeps ==
  ASSUME NEW s \in Seq(Key), NEW k
  PROVE  /\ RemoveFirst(s, k) \in Seq(Key)
         /\ \A v \in ToSet(s) : v # k => v \in ToSet(RemoveFirst(s, k))
<1>1. CASE \E i \in 1 .. Len(s) : s[i] = k
  <2> DEFINE I == {i \in 1 .. Len(s) : s[i] = k}
             n == Min(I)
             a == SubSeq(s, 1, n - 1)
             b == SubSeq(s, n + 1, Len(s))
  <2>1. n \in I
    <3>1. I \in SUBSET Nat /\ I # {}
      BY <1>1
    <3> HIDE DEF I
    <3> QED BY <3>1, MinIs
  <2>2. RemoveFirst(s, k) = a \o b
    <3>1. I # {} BY <1>1
    <3> QED BY <1>1, <3>1, Zenon DEF RemoveFirst, RemoveAt, SelectInSeq
  <2>3. n \in 1 .. Len(s) /\ s[n] = k BY <2>1
  <2> HIDE DEF n, I
  <2>4. /\ a \in Seq(Key) /\ Len(a) = n - 1 /\ \A i \in 1 .. n - 1 : a[i] = s[i]
        /\ b \in Seq(Key) /\ Len(b) = Len(s) - n
        /\ \A i \in 1 .. Len(s) - n : b[i] = s[n + i]
    <3>1. /\ 1 \in 1 .. Len(s) + 1 /\ n - 1 \in 0 .. Len(s)
          /\ n + 1 \in 1 .. Len(s) + 1 /\ Len(s) \in 0 .. Len(s)
      BY <2>3
    <3>2. a \in Seq(Key) /\ Len(a) = n - 1 /\ \A i \in 1 .. n - 1 : a[i] = s[i]
      BY <2>3, <3>1, SubSeqProperties
    <3>3. /\ b \in Seq(Key) /\ Len(b) = Len(s) - n
          /\ \A i \in 1 .. Len(s) - n : b[i] = s[n + i]
      BY <2>3, <3>1, SubSeqProperties
    <3> QED BY <3>2, <3>3
  <2> HIDE DEF a, b
  <2>5. a \o b \in Seq(Key) /\ DOMAIN (a \o b) = 1 .. Len(s) - 1 BY <2>3, <2>4
  <2>6. ASSUME NEW i \in 1 .. Len(s), i # n PROVE s[i] \in ToSet(a \o b)
    <3>1. CASE i < n
      <4>1. i \in DOMAIN (a \o b) /\ (a \o b)[i] = s[i] BY <2>3, <2>4, <2>5, <3>1
      <4> QED BY <4>1 DEF ToSet
    <3>2. CASE i > n
      <4>1. i - 1 \in DOMAIN (a \o b) BY <2>3, <2>5, <3>2
      <4>2. i - n \in 1 .. Len(s) - n BY <2>3, <3>2
      <4>3. b[i - n] = s[n + (i - n)] BY <2>4, <4>2
      <4>4. n + (i - n) = i BY <2>3
      <4>5. (a \o b)[i - 1] = b[i - n] BY <2>3, <2>4, <3>2
      <4> QED BY <4>1, <4>3, <4>4, <4>5 DEF ToSet
    <3> QED BY <2>3, <2>6, <3>1, <3>2
  <2>7. ASSUME NEW v \in ToSet(s), v # k PROVE v \in ToSet(a \o b)
    <3>1. PICK i \in 1 .. Len(s) : v = s[i] BY DEF ToSet
    <3> QED BY <2>3, <2>6, <2>7, <3>1
  <2> QED BY <2>2, <2>5, <2>7
<1>2. CASE ~ \E i \in 1 .. Len(s) : s[i] = k BY <1>2, Zenon DEF RemoveFirst
<1> QED BY <1>1, <1>2

(* Entries leave together with their sizes. *)
LEMMA Shrinks ==
  ASSUME NEW c, CacheSound(c), NEW D \in SUBSET (DOMAIN c.entry), NEW order \in Seq(Key),
         D \subseteq ToSet(order), NEW total \in Int, Summed(SizeOf, D) <= total,
         total <= c.total
  PROVE  /\ CacheSound([entry |-> Restrict(c.entry, D), order |-> order, total |-> total])
         /\ DOMAIN Restrict(c.entry, D) = D
         /\ Cardinality(D) <= Cardinality(DOMAIN c.entry)
         /\ \A k \in D : Restrict(c.entry, D)[k] = c.entry[k]
<1> DEFINE f == Restrict(c.entry, D)
           d == [entry |-> f, order |-> order, total |-> total]
<1> USE DEF CacheSound, Accounted, Limited
<1>1. c.entry \in Entries /\ c.total \in Int BY DEF Cache
<1>2. D \in SUBSET Key /\ \A k \in D : c.entry[k] \in Copy BY <1>1, EntriesUsed
<1>3. f = [k \in D |-> c.entry[k]] BY DEF Restrict
<1>4. f \in Entries /\ DOMAIN f = D BY <1>2, <1>3, EntriesMade
<1>5. IsFiniteSet(D) /\ Cardinality(D) <= Cardinality(DOMAIN c.entry)
      /\ Cardinality(D) \in Nat /\ Cardinality(DOMAIN c.entry) \in Nat
  BY FS_Subset, FS_CardinalityType
<1>6. Limited(d)
  BY <1>1, <1>4, <1>5, LocalCacheAssumption DEF LocalCacheAssumption
<1>7. \A k \in D : f[k] = c.entry[k] BY <1>3
<1>8. d \in Cache BY <1>4 DEF Cache
<1>9. Accounted(d) BY <1>4, <1>5
<1>10. \A k \in DOMAIN d.entry : Young(d.entry[k]) BY <1>4, <1>7
<1> HIDE DEF f
<1> QED BY <1>4, <1>5, <1>6, <1>7, <1>8, <1>9, <1>10 DEF f

LEMMA DropSound ==
  ASSUME NEW c, CacheSound(c), NEW k \in DOMAIN c.entry
  PROVE  CacheSound(Drop(c, k)) /\ DOMAIN Drop(c, k).entry = DOMAIN c.entry \ {k}
<1> DEFINE D == DOMAIN c.entry \ {k}
<1>1. /\ c.entry \in Entries /\ c.total \in Int /\ c.order \in Seq(Key)
      /\ IsFiniteSet(DOMAIN c.entry) /\ DOMAIN c.entry \in SUBSET Key
  BY EntriesUsed DEF CacheSound, Cache, Accounted
<1>2. RemoveFirst(c.order, k) \in Seq(Key) /\ D \subseteq ToSet(RemoveFirst(c.order, k))
  BY <1>1, RemoveFirstKeeps DEF CacheSound, Accounted
<1>3. IsFiniteSet(D) /\ DOMAIN c.entry = D \cup {k} /\ k \notin D BY <1>1, FS_Subset
<1>4. \A j \in D \cup {k} : SizeOf[j] \in Nat
  BY <1>1, LocalCacheAssumption DEF LocalCacheAssumption
<1> HIDE DEF D
<1>5. Summed(SizeOf, D \cup {k}) = SizeOf[k] + Summed(SizeOf, D)
  BY <1>3, <1>4, SummedAdd
<1>6. Summed(SizeOf, D) \in Nat BY <1>1, <1>3, SizesAre
<1>7. /\ Summed(SizeOf, D) <= c.total - SizeOf[k] /\ c.total - SizeOf[k] <= c.total
      /\ c.total - SizeOf[k] \in Int
  BY <1>1, <1>3, <1>4, <1>5, <1>6 DEF CacheSound, Accounted
<1>8. Drop(c, k) = [entry |-> Restrict(c.entry, D), order |-> RemoveFirst(c.order, k),
                    total |-> c.total - SizeOf[k]]
  BY DEF Drop, Without, D
<1>9. CacheSound(Drop(c, k)) /\ DOMAIN Restrict(c.entry, D) = D
  BY <1>2, <1>3, <1>7, <1>8, Shrinks
<1> QED BY <1>8, <1>9 DEF D

(* The sweep drops the expired entries in any order. *)
LEMMA SweptSound == ASSUME NEW c, CacheSound(c) PROVE CacheSound(Swept(c))
<1> DEFINE S == {k \in DOMAIN c.entry : Expired(c, k)}
           Less(T) == T \ {Picked(T)}
           Fold(e) == e = [T \in SUBSET S |-> IF T = {} THEN c ELSE Drop(e[Less(T)], Picked(T))]
           Down(d, T) == CacheSound(d) /\ DOMAIN d.entry = DOMAIN c.entry \ T
<1>1. IsFiniteSet(S) BY FS_Subset DEF CacheSound, Accounted
<1>2. Down(c, {}) OBVIOUS
<1>3. ASSUME NEW T \in SUBSET S, T # {}, NEW d, Down(d, Less(T))
      PROVE  Down(Drop(d, Picked(T)), T)
  <2>1. Picked(T) \in T /\ Picked(T) \in DOMAIN d.entry BY <1>3, PickedIsIn
  <2>2. CacheSound(Drop(d, Picked(T)))
        /\ DOMAIN Drop(d, Picked(T)).entry = DOMAIN d.entry \ {Picked(T)}
    BY <1>3, <2>1, DropSound
  <2> QED BY <1>3, <2>1, <2>2
<1> HIDE DEF Down
<1>4. ASSUME NEW e, Fold(e) PROVE Down(e[S], S)
  <2> DEFINE H == {T \in SUBSET S : Down(e[T], T)}
  <2>1. ASSUME NEW T \in SUBSET S, \A k \in T : T \ {k} \in H PROVE T \in H
    <3> HIDE DEF S
    <3>1. e[T] = IF T = {} THEN c ELSE Drop(e[Less(T)], Picked(T)) BY <1>4, Zenon
    <3>2. CASE T = {} BY <1>2, <3>1, <3>2
    <3>3. CASE T # {}
      <4>1. Less(T) \in H BY <2>1, <3>3, PickedIsIn
      <4>2. Down(Drop(e[Less(T)], Picked(T)), T) BY <1>3, <3>3, <4>1
      <4> QED BY <3>1, <3>3, <4>2
    <3> QED BY <3>2, <3>3
  <2>2. S \in H
    <3> HIDE DEF H, S
    <3> QED BY <1>1, <2>1, SubsetInduction
  <2> QED BY <2>2
<1>5. \E e : Fold(e)
  <2> DEFINE op == [p \in S \X Cache |-> Drop(p[2], p[1])]
             g == [k \in S |-> k]
  <2>1. PICK e : IsFold(e, op, c, g, S) BY <1>1, FoldExists
  <2> DEFINE H == {T \in SUBSET S : Down(e[T], T)}
  <2>2. ASSUME NEW T \in SUBSET S, T # {}, Less(T) \in H
        PROVE  e[T] = Drop(e[Less(T)], Picked(T))
    <3>1. e[T] = op[<<g[Picked(T)], e[Less(T)]>>]
      <4> HIDE DEF op, g, S
      <4> QED BY <2>1, <2>2, Zenon DEF IsFold
    <3>2. Picked(T) \in S BY <2>2, PickedIsIn
    <3>3. e[Less(T)] \in Cache BY <2>2 DEF Down, CacheSound
    <3> QED BY <3>1, <3>2, <3>3
  <2>3. ASSUME NEW T \in SUBSET S, \A k \in T : T \ {k} \in H PROVE T \in H
    <3>1. CASE T = {}
      <4>1. e[T] = c
        <5> HIDE DEF op, g, S
        <5> QED BY <2>1, <3>1, Zenon DEF IsFold
      <4> QED BY <1>2, <3>1, <4>1
    <3>2. CASE T # {}
      <4>1. Less(T) \in H BY <2>3, <3>2, PickedIsIn
      <4>2. Down(Drop(e[Less(T)], Picked(T)), T) BY <1>3, <3>2, <4>1
      <4> QED BY <2>2, <3>2, <4>1, <4>2
    <3> QED BY <3>1, <3>2
  <2>4. SUBSET S \subseteq H
    <3> HIDE DEF H, S, op, g
    <3> QED BY <1>1, <2>3, SubsetInduction
  <2>5. \A T \in SUBSET S : T # {} => e[T] = Drop(e[Less(T)], Picked(T))
    <3> SUFFICES ASSUME NEW T \in SUBSET S, T # {} PROVE e[T] = Drop(e[Less(T)], Picked(T))
      OBVIOUS
    <3>1. Less(T) \in H BY <2>4
    <3> QED BY <2>2, <3>1
  <2>6. e = [T \in SUBSET S |-> IF T = {} THEN c ELSE e[T]]
    <3> HIDE DEF op, g, S
    <3>1. e = [T \in SUBSET S |-> IF T = {} THEN c ELSE op[<<g[Picked(T)], e[T \ {Picked(T)}]>>]]
      BY <2>1, Zenon DEF IsFold
    <3>2. \A T \in SUBSET S : e[T] = IF T = {} THEN c ELSE op[<<g[Picked(T)], e[T \ {Picked(T)}]>>]
      BY <3>1, Zenon
    <3> QED BY <3>1, <3>2
  <2>7. Fold(e)
    <3> HIDE DEF S
    <3> QED BY <2>5, <2>6
  <2> QED BY <2>7
<1>6. Swept(c) = (CHOOSE e : Fold(e))[S]
  BY Zenon DEF Swept, FoldSet, MapThenFoldSet, Picked
<1>7. Down(Swept(c), S)
  <2> HIDE DEF Fold, S
  <2>1. Fold(CHOOSE e : Fold(e)) BY <1>5, Zenon
  <2> QED BY <1>4, <1>6, <2>1
<1> QED BY <1>7 DEF Down

LEMMA LookedUpSound ==
  ASSUME NEW c, CacheSound(c), NEW k \in Key
  PROVE  CacheSound(LookedUp(c, k))
<1>1. CASE Servable(c, k)
  <2> DEFINE order == Append(RemoveFirst(c.order, k), k)
             d == [c EXCEPT !.order = order]
  <2>1. c \in Cache BY DEF CacheSound
  <2>2. LookedUp(c, k) = d
    <3>1. LookedUp(c, k) = [c EXCEPT !.order = Append(RemoveFirst(@, k), k)]
      BY <1>1, Zenon DEF LookedUp, Servable
    <3> QED BY <3>1
  <2>3. /\ RemoveFirst(c.order, k) \in Seq(Key)
        /\ \A v \in ToSet(c.order) : v # k => v \in ToSet(RemoveFirst(c.order, k))
    BY <2>1, RemoveFirstKeeps DEF Cache
  <2>4. order \in Seq(Key) /\ \A v \in ToSet(c.order) : v \in ToSet(order)
    <3> DEFINE rest == RemoveFirst(c.order, k)
    <3>1. rest \in Seq(Key) /\ order = Append(rest, k) BY <2>3
    <3> HIDE DEF rest, order
    <3>2. /\ order \in Seq(Key) /\ order[Len(rest) + 1] = k
          /\ Len(rest) + 1 \in DOMAIN order
          /\ \A i \in DOMAIN rest : i \in DOMAIN order /\ order[i] = rest[i]
      BY <3>1
    <3>3. k \in ToSet(order) /\ \A v \in ToSet(rest) : v \in ToSet(order)
      BY <3>2 DEF ToSet
    <3> QED BY <2>3, <3>2, <3>3 DEF rest
  <2> HIDE DEF order
  <2>5. d \in Cache /\ d.entry = c.entry /\ d.total = c.total /\ d.order = order
    BY <2>1, <2>4 DEF Cache
  <2> HIDE DEF d
  <2>6. CacheSound(d) BY <2>4, <2>5 DEF CacheSound, Accounted, Limited
  <2> QED BY <2>2, <2>6
<1>2. CASE Cached(c, k) /\ Expired(c, k)
  <2>1. LookedUp(c, k) = Drop(c, k) BY <1>2, Zenon DEF LookedUp, Servable
  <2> QED BY <1>2, <2>1, DropSound DEF Cached
<1>3. CASE ~ Cached(c, k)
  <2>1. LookedUp(c, k) = c BY <1>3, Zenon DEF LookedUp, Servable
  <2> QED BY <2>1
<1> QED BY <1>1, <1>2, <1>3 DEF Servable

(* The eviction takes the keys it shifts out, and the sizes of their entries. *)
LEMMA EvictedSound ==
  ASSUME NEW c, CacheSound(c), NEW n \in 0 .. Len(c.order)
  PROVE  /\ CacheSound(Evicted(c, n))
         /\ n = Len(c.order) => DOMAIN Evicted(c, n).entry = {}
<1> DEFINE first == SubSeq(c.order, 1, n)
           rest == SubSeq(c.order, n + 1, Len(c.order))
           out == ToSet(first) \cap DOMAIN c.entry
           D == DOMAIN c.entry \ out
           total == c.total - MapThenSumSet(LAMBDA k : SizeOf[k], out)
<1>1. /\ c.entry \in Entries /\ c.total \in Int /\ c.order \in Seq(Key)
      /\ IsFiniteSet(DOMAIN c.entry) /\ DOMAIN c.entry \in SUBSET Key
      /\ Summed(SizeOf, DOMAIN c.entry) <= c.total
      /\ DOMAIN c.entry \subseteq ToSet(c.order)
  BY EntriesUsed DEF CacheSound, Cache, Accounted
<1>2. /\ first \in Seq(Key) /\ Len(first) = n /\ \A i \in 1 .. n : first[i] = c.order[i]
      /\ rest \in Seq(Key) /\ Len(rest) = Len(c.order) - n
      /\ \A i \in 1 .. Len(c.order) - n : rest[i] = c.order[n + i]
  <2>1. /\ 1 \in 1 .. Len(c.order) + 1 /\ n \in 0 .. Len(c.order)
        /\ n + 1 \in 1 .. Len(c.order) + 1 /\ Len(c.order) \in 0 .. Len(c.order)
    BY <1>1
  <2>2. /\ first \in Seq(Key) /\ Len(first) = n /\ \A i \in 1 .. n : first[i] = c.order[i]
    BY <1>1, <2>1, SubSeqProperties
  <2>3. /\ rest \in Seq(Key) /\ Len(rest) = Len(c.order) - n
        /\ \A i \in 1 .. Len(c.order) - n : rest[i] = c.order[n + i]
    BY <1>1, <2>1, SubSeqProperties
  <2> QED BY <2>2, <2>3
<1> HIDE DEF first, rest
<1>3. \A v \in ToSet(c.order) : v \in ToSet(first) \/ v \in ToSet(rest)
  <2> SUFFICES ASSUME NEW v \in ToSet(c.order) PROVE v \in ToSet(first) \/ v \in ToSet(rest)
    OBVIOUS
  <2>1. PICK i \in 1 .. Len(c.order) : v = c.order[i] BY <1>1 DEF ToSet
  <2>2. CASE i <= n
    <3>1. i \in DOMAIN first /\ first[i] = v BY <1>2, <2>1, <2>2
    <3> QED BY <3>1 DEF ToSet
  <2>3. CASE i > n
    <3>1. i - n \in 1 .. Len(c.order) - n /\ n + (i - n) = i BY <1>1, <2>1, <2>3
    <3>2. i - n \in DOMAIN rest /\ rest[i - n] = v BY <1>2, <2>1, <3>1
    <3> QED BY <3>2 DEF ToSet
  <2> QED BY <1>1, <2>1, <2>2, <2>3
<1>4. D \subseteq ToSet(rest) BY <1>1, <1>3
<1>5. /\ IsFiniteSet(out) /\ IsFiniteSet(D) /\ out \cap D = {} /\ out \cup D = DOMAIN c.entry
      /\ out \in SUBSET Key /\ D \in SUBSET Key /\ D \in SUBSET (DOMAIN c.entry)
  BY <1>1, FS_Subset
<1> HIDE DEF out, D
<1>6. \A k \in out \cup D : SizeOf[k] \in Int
  BY <1>1, <1>5, LocalCacheAssumption DEF LocalCacheAssumption
<1>7. Summed(SizeOf, DOMAIN c.entry) = Summed(SizeOf, out) + Summed(SizeOf, D)
  BY <1>5, <1>6, SummedUnion
<1>8. /\ MapThenSumSet(LAMBDA k : SizeOf[k], out) = Summed(SizeOf, out)
      /\ Summed(SizeOf, out) \in Nat /\ Summed(SizeOf, D) \in Nat
  BY <1>5, SizesAre
<1>9. total \in Int /\ Summed(SizeOf, D) <= total /\ total <= c.total
  BY <1>1, <1>7, <1>8
<1> HIDE DEF total
<1>10. Evicted(c, n) = [entry |-> Restrict(c.entry, D), order |-> rest, total |-> total]
  BY DEF Evicted, Without, D, out, first, rest, total
<1>11. CacheSound(Evicted(c, n)) /\ DOMAIN Restrict(c.entry, D) = D
  <2>1. rest \in Seq(Key) /\ D \in SUBSET (DOMAIN c.entry) BY <1>2, <1>5
  <2>2. /\ CacheSound([entry |-> Restrict(c.entry, D), order |-> rest, total |-> total])
        /\ DOMAIN Restrict(c.entry, D) = D
    BY <1>4, <1>9, <2>1, Shrinks
  <2> QED BY <1>10, <2>2
<1>12. n = Len(c.order) => D = {}
  <2> SUFFICES ASSUME n = Len(c.order) PROVE D = {}
    OBVIOUS
  <2>1. rest = <<>> BY <1>1, <1>2, EmptySeq
  <2>2. ToSet(rest) = {} BY <2>1 DEF ToSet
  <2> QED BY <1>4, <2>2
<1> QED BY <1>10, <1>11, <1>12

(* When everything is evicted there is room, so the loop ends with room. *)
LEMMA MadeRoomSound ==
  ASSUME NEW c, CacheSound(c), NEW size \in Nat
  PROVE  CacheSound(MadeRoom(c, size)) /\ Room(MadeRoom(c, size), size)
<1> DEFINE enough == {n \in 0 .. Len(c.order) : Room(Evicted(c, n), size)}
<1>1. c.order \in Seq(Key) /\ Len(c.order) \in 0 .. Len(c.order) BY DEF CacheSound, Cache
<1>2. Room(Evicted(c, Len(c.order)), size)
  <2>1. DOMAIN Evicted(c, Len(c.order)).entry = {} BY <1>1, EvictedSound
  <2> QED
    BY <2>1, FS_EmptySet, LocalCacheAssumption DEF Room, LocalCacheAssumption
<1>3. enough \in SUBSET Nat /\ enough # {} BY <1>1, <1>2
<1>4. Min(enough) \in enough
  <2> HIDE DEF enough
  <2> QED BY <1>3, MinIs
<1>5. Min(enough) \in 0 .. Len(c.order) /\ Room(Evicted(c, Min(enough)), size) BY <1>4
<1>6. MadeRoom(c, size) = Evicted(c, Min(enough)) BY <1>3, Zenon DEF MadeRoom
<1> HIDE DEF enough
<1>7. CacheSound(Evicted(c, Min(enough))) BY <1>5, EvictedSound
<1> QED BY <1>5, <1>6, <1>7

LEMMA StoredSound ==
  ASSUME NEW c, CacheSound(c), NEW k \in Key, NEW age \in Nat, NEW behind \in BOOLEAN,
         behind \/ age < TTL + LambdaTimeout
  PROVE  CacheSound(Stored(c, k, age, behind))
<1> DEFINE d == MadeRoom(c, SizeOf[k])
           copy == [age |-> age, left |-> TTL, behind |-> behind]
           entry == Put(d.entry, k, age, behind)
           D == DOMAIN d.entry
           e == [entry |-> entry, order |-> Append(d.order, k), total |-> d.total + SizeOf[k]]
<1>1. SizeOf[k] \in Nat /\ TTL \in Nat \ {0} /\ MaxEntries \in Nat /\ MaxMemory \in Nat
  BY LocalCacheAssumption DEF LocalCacheAssumption
<1>0. LambdaTimeout \in Nat BY ApiProxyAssumption DEF ApiProxyAssumption
<1>2. CacheSound(d) /\ Room(d, SizeOf[k]) BY <1>1, MadeRoomSound
<1> HIDE DEF d
<1>3. /\ d.entry \in Entries /\ d.total \in Int /\ d.order \in Seq(Key)
      /\ IsFiniteSet(D) /\ D \in SUBSET Key /\ d.entry \in [D -> Copy]
      /\ Summed(SizeOf, D) <= d.total /\ D \subseteq ToSet(d.order)
      /\ \A j \in D : Young(d.entry[j])
  BY <1>2, EntriesUsed DEF CacheSound, Cache, Accounted
<1>4. CASE ~ (SizeOf[k] > MaxResponse) /\ ~ (d.total + SizeOf[k] > MaxMemory)
  <2>1. copy \in Copy /\ Young(copy) BY <1>0, <1>1 DEF Copy, Young
  <2>2. /\ DOMAIN entry = D \cup {k} /\ \A j \in D : j # k => entry[j] = d.entry[j]
        /\ entry[k] = copy /\ entry = [j \in D \cup {k} |-> entry[j]]
    BY DEF Put
  <2> HIDE DEF entry, copy
  <2>3. entry \in [D \cup {k} -> Copy] /\ \A j \in D \cup {k} : Young(entry[j])
    BY <1>3, <2>1, <2>2
  <2>4. entry \in Entries BY <1>3, <2>3, EntriesMade
  <2>5. /\ Append(d.order, k) \in Seq(Key) /\ k \in ToSet(Append(d.order, k))
        /\ \A v \in ToSet(d.order) : v \in ToSet(Append(d.order, k))
    <3> DEFINE s == Append(d.order, k)
    <3>1. /\ s \in Seq(Key) /\ s[Len(d.order) + 1] = k /\ Len(d.order) + 1 \in DOMAIN s
          /\ \A i \in DOMAIN d.order : i \in DOMAIN s /\ s[i] = d.order[i]
      BY <1>3
    <3> HIDE DEF s
    <3> QED BY <3>1 DEF ToSet, s
  <2>6. /\ IsFiniteSet(D \cup {k}) /\ Cardinality(D \cup {k}) <= MaxEntries
    <3>1. Cardinality(D) < MaxEntries /\ Cardinality(D) \in Nat
      BY <1>2, <1>3, FS_CardinalityType DEF Room
    <3>2. /\ IsFiniteSet(D \cup {k})
          /\ Cardinality(D \cup {k}) = IF k \in D THEN Cardinality(D) ELSE Cardinality(D) + 1
      BY <1>3, FS_AddElement
    <3> QED BY <1>1, <3>1, <3>2
  <2>7. Summed(SizeOf, D \cup {k}) <= d.total + SizeOf[k]
    <3>1. Summed(SizeOf, D) \in Nat BY <1>3, SizesAre
    <3>2. CASE k \in D
      <4>1. D \cup {k} = D BY <3>2
      <4>2. Summed(SizeOf, D) <= d.total + SizeOf[k] BY <1>1, <1>3, <3>1
      <4> QED BY <4>1, <4>2
    <3>3. CASE k \notin D
      <4>1. \A j \in D \cup {k} : SizeOf[j] \in Int
        BY <1>3, LocalCacheAssumption DEF LocalCacheAssumption
      <4>2. Summed(SizeOf, D \cup {k}) = SizeOf[k] + Summed(SizeOf, D)
        BY <1>3, <3>3, <4>1, SummedAdd
      <4> QED BY <1>1, <1>3, <3>1, <4>2
    <3> QED BY <3>2, <3>3
  <2>8. e \in Cache /\ e.entry = entry /\ e.order = Append(d.order, k)
        /\ e.total = d.total + SizeOf[k]
    BY <1>1, <1>3, <2>4, <2>5 DEF Cache
  <2>9. d.total + SizeOf[k] <= MaxMemory BY <1>1, <1>3, <1>4
  <2> HIDE DEF e
  <2>10. Accounted(e) /\ Limited(e) BY <1>3, <2>2, <2>5, <2>6, <2>7, <2>8, <2>9 DEF Accounted, Limited
  <2>11. \A j \in DOMAIN e.entry : Young(e.entry[j]) BY <2>2, <2>3, <2>8
  <2>12. CacheSound(e) BY <2>8, <2>10, <2>11 DEF CacheSound
  <2>13. Stored(c, k, age, behind) = e BY <1>4 DEF Stored, d, e, entry, copy
  <2> QED BY <2>12, <2>13
<1>5. CASE ~ (SizeOf[k] > MaxResponse) /\ d.total + SizeOf[k] > MaxMemory
  <2>1. Stored(c, k, age, behind) = d BY <1>5 DEF Stored, d
  <2> QED BY <1>2, <2>1
<1>6. CASE SizeOf[k] > MaxResponse
  <2>1. Stored(c, k, age, behind) = c BY <1>6 DEF Stored
  <2> QED BY <2>1
<1> QED BY <1>4, <1>5, <1>6

LEMMA AgedSound == ASSUME NEW c, CacheSound(c) PROVE CacheSound(Aged(c))
<1> DEFINE D == DOMAIN c.entry
           f == [k \in D |-> Later(c.entry[k])]
           d == [c EXCEPT !.entry = f]
<1>1. c \in Cache /\ c.entry \in [D -> Copy] /\ D \in SUBSET Key /\ TTL \in Nat \ {0}
      /\ LambdaTimeout \in Nat
  BY EntriesUsed, LocalCacheAssumption, ApiProxyAssumption
  DEF CacheSound, Cache, LocalCacheAssumption, ApiProxyAssumption
<1>2. ASSUME NEW k \in D PROVE f[k] \in Copy /\ Young(f[k])
  <2>1. c.entry[k] \in Copy /\ Young(c.entry[k]) BY <1>1 DEF CacheSound
  <2>2. ASSUME NEW copy \in Copy, Young(copy) PROVE Later(copy) \in Copy /\ Young(Later(copy))
    <3>1. CASE copy.left <= 0 BY <1>1, <3>1 DEF Later, Copy, Young, Gone
    <3>2. CASE ~ (copy.left <= 0)
      <4> DEFINE e == [copy EXCEPT !.age = copy.age + 1, !.left = copy.left - 1]
      <4>1. /\ copy.age \in Nat /\ copy.left \in -1 .. TTL /\ copy.behind \in BOOLEAN
            /\ copy \in Copy
        BY <2>2 DEF Copy
      <4>2. copy.age + 1 \in Nat /\ copy.left - 1 \in -1 .. TTL BY <1>1, <3>2, <4>1
      <4>3. e \in Copy BY <4>1, <4>2 DEF Copy
      <4>4. e.age = copy.age + 1 /\ e.left = copy.left - 1 /\ e.behind = copy.behind
        BY <4>1 DEF Copy
      <4>5. Later(copy) = e BY <3>2 DEF Later
      <4> HIDE DEF e
      <4>6. e.age + e.left = copy.age + copy.left BY <4>1, <4>4
      <4>7. Young(e) BY <2>2, <4>4, <4>6 DEF Young
      <4> QED BY <4>3, <4>5, <4>7
    <3> QED BY <3>1, <3>2
  <2> QED BY <2>1, <2>2
<1>3. f \in [D -> Copy] BY <1>2
<1> HIDE DEF f
<1>4. f \in Entries /\ DOMAIN f = D BY <1>1, <1>3, EntriesMade
<1>5. d \in Cache /\ d.entry = f /\ d.order = c.order /\ d.total = c.total
  BY <1>1, <1>4 DEF Cache
<1> HIDE DEF d
<1>6. CacheSound(d) BY <1>2, <1>4, <1>5 DEF CacheSound, Accounted, Limited
<1>7. Aged(c) = d BY DEF Aged, d, f
<1> QED BY <1>6, <1>7

LEMMA EmptySound == CacheSound(EmptyCache)
<1>1. DOMAIN EmptyCache.entry = {} /\ EmptyCache.entry \in [{} -> Copy]
  BY DEF EmptyCache
<1>2. EmptyCache.entry \in Entries BY <1>1, EntriesMade
<1>3. EmptyCache \in Cache BY <1>2 DEF EmptyCache, Cache
<1>4. Summed(SizeOf, {}) = 0 /\ IsFiniteSet({}) /\ Cardinality({}) = 0
  BY SummedEmpty, FS_EmptySet
<1> QED
  BY <1>1, <1>3, <1>4, LocalCacheAssumption
  DEF CacheSound, Accounted, Limited, EmptyCache, LocalCacheAssumption
-----------------------------------------------------------------------------
CachesSound == DOMAIN local = Instance /\ \A i \in Instance : CacheSound(local[i])

(* What a request has found was younger than its TTL before the request    *)
(* grew older.                                                             *)
FoundYoung ==
  \A i \in Instance : req[i].at \in {"copy", "polled"} =>
    req[i].found \in Nat /\ req[i].found < TTL + req[i].age

PollsTyped == late \in [Instance -> SUBSET Poll]

CInv == Answered /\ CachesSound /\ PollsTyped /\ FoundYoung

LEMMA CachesInitial == Init => CInv
<1> SUFFICES ASSUME Init PROVE CInv OBVIOUS
<1>1. Answered BY DEF Init, Answered, NoRow
<1>2. CachesSound BY EmptySound DEF Init, CachesSound
<1>3. PollsTyped BY DEF Init, PollsTyped
<1>4. FoundYoung BY NoRequestRests DEF Init, FoundYoung
<1> QED BY <1>1, <1>2, <1>3, <1>4 DEF CInv

LEMMA OneCache ==
  ASSUME CachesSound, NEW i \in Instance, NEW c, CacheSound(c), Keep(i, c)
  PROVE  CachesSound'
<1>1. local' = [local EXCEPT ![i] = c] BY DEF Keep
<1>2. DOMAIN local' = Instance /\ \A j \in Instance : local'[j] = IF j = i THEN c ELSE local[j]
  BY <1>1 DEF CachesSound
<1> QED BY <1>2 DEF CachesSound

(* The copy of a shared answer that a request has found. *)
LEMMA CopySound ==
  ASSUME PInv, CInv, NEW i \in Instance, req[i].at \in {"copy", "polled"}
  PROVE  CacheSound(Stored(local[i], req[i].key, req[i].found, FALSE))
<1>1. /\ req[i].key \in Key /\ req[i].age \in 0 .. LambdaTimeout
      /\ TTL \in Nat /\ LambdaTimeout \in Nat
  BY ApiProxyAssumption, LocalCacheAssumption
  DEF PInv, Requests, Request, ApiProxyAssumption, LocalCacheAssumption
<1>2. req[i].found \in Nat /\ req[i].found < TTL + req[i].age BY DEF CInv, FoundYoung
<1>3. req[i].found < TTL + LambdaTimeout BY <1>1, <1>2
<1>4. CacheSound(local[i]) BY DEF CInv, CachesSound
<1> QED BY <1>1, <1>2, <1>3, <1>4, StoredSound

(* Rows are answered with a whole TTL, and time only takes from it. *)
LEMMA AnsweredKept == ASSUME PInv, Answered, Next PROVE Answered'
<1> USE DEF Answered
<1>1. shared \in [Key -> Row] BY DEF PInv, Rows
<1>2. CASE UNCHANGED shared BY <1>2
<1>3. ASSUME NEW i \in Instance, Insert(i) PROVE Answered'
  BY <1>1, <1>3 DEF Insert, Row
<1>4. ASSUME NEW i \in Instance, CallSucceeds(i) PROVE Answered'
  <2>1. TTL <= TTL BY LocalCacheAssumption DEF LocalCacheAssumption
  <2> QED BY <1>1, <1>4, <2>1 DEF CallSucceeds, Row
<1>5. ASSUME NEW i \in Instance, CallFails(i) PROVE Answered'
  BY <1>1, <1>5 DEF CallFails, NoRow
<1>6. CASE Tick
  <2> SUFFICES ASSUME NEW k \in Key, shared'[k].status = "COMPLETED"
               PROVE  shared'[k].left <= TTL
    OBVIOUS
  <2>1. shared' = [j \in Key |-> [shared[j] EXCEPT !.left = Passed(@)]] BY <1>6 DEF Tick
  <2>2. shared[k] \in Row BY <1>1
  <2>3. shared'[k].status = shared[k].status /\ shared'[k].left = Passed(shared[k].left)
    BY <2>1, <2>2 DEF Row
  <2>4. shared[k].left <= TTL /\ shared[k].left \in Int /\ TTL \in Int
    BY <2>2, <2>3, ApiProxyAssumption, LocalCacheAssumption
    DEF Row, ApiProxyAssumption, LocalCacheAssumption
  <2> QED BY <2>3, <2>4 DEF Passed
<1>7. ASSUME NEW i \in Instance, Serve(i) PROVE Answered'
  BY <1>2, <1>3, <1>4, <1>5, <1>7
  DEF Serve, SharedHit, SharedMiss, Receive, Verify, LockFails, PollHit, PollLocal, GiveUp,
      StoreFails, EndDirect
<1> QED BY <1>2, <1>6, <1>7 DEF Next, Arrive, LateHit, LatePoll, BeginDirect, Die

LEMMA LateKept == ASSUME CInv, PInv, Next PROVE PollsTyped'
<1> USE DEF PollsTyped
<1>1. late \in [Instance -> SUBSET Poll] BY DEF CInv
<1>2. CASE UNCHANGED late BY <1>1, <1>2
<1>3. ASSUME NEW i \in Instance, GiveUp(i) PROVE PollsTyped'
  <2>1. [key |-> req[i].key, found |-> req[i].found] \in Poll
    BY DEF PInv, Requests, Request, Poll
  <2> QED BY <1>1, <1>3, <2>1 DEF GiveUp
<1>4. ASSUME NEW i \in Instance, NEW p \in late[i], LateHit(i, p) PROVE PollsTyped'
  <2>1. p \in Poll BY <1>1
  <2>2. p.key \in Key BY <2>1 DEF Poll
  <2>3. Age(p.key) \in 0 .. TTL - 1 BY <1>4, <2>2, AgeOfAnswer DEF CInv, LateHit
  <2>4. [p EXCEPT !.found = Age(p.key)] \in Poll
    BY <2>1, <2>3, LocalCacheAssumption DEF Poll, Found, LocalCacheAssumption
  <2> QED BY <1>1, <1>4, <2>4 DEF LateHit
<1>5. ASSUME NEW i \in Instance, NEW p \in late[i], LatePoll(i, p) PROVE PollsTyped'
  BY <1>1, <1>5 DEF LatePoll
<1>6. CASE Tick
  <2>1. ASSUME NEW p \in Poll PROVE OlderPoll(p) \in Poll
    BY DEF OlderPoll, Older, Poll, Found, Nothing
  <2>2. late' = [i \in Instance |-> {OlderPoll(p) : p \in late[i]}] BY <1>6 DEF Tick
  <2> QED BY <1>1, <2>1, <2>2
<1>7. ASSUME NEW i \in Instance, Serve(i) PROVE PollsTyped'
  BY <1>2, <1>3, <1>7
  DEF Serve, SharedHit, SharedMiss, Receive, Insert, Verify, LockFails, PollHit, PollLocal,
      CallSucceeds, StoreFails, CallFails, EndDirect
<1>8. ASSUME NEW i \in Instance, Die(i) PROVE PollsTyped' BY <1>1, <1>8 DEF Die
<1> QED BY <1>2, <1>4, <1>5, <1>6, <1>7, <1>8 DEF Next, Arrive, BeginDirect

(* One request changes: if it carries a copy, that is young. *)
LEMMA OneFound ==
  ASSUME Requests, FoundYoung, NEW i \in Instance, NEW r, req' = [req EXCEPT ![i] = r],
         r.at \in {"copy", "polled"} => r.found \in Nat /\ r.found < TTL + r.age
  PROVE  FoundYoung'
<1>1. \A j \in Instance : req'[j] = IF j = i THEN r ELSE req[j] BY DEF Requests
<1> QED BY <1>1 DEF FoundYoung

(* What requests have found grows older with them. *)
LEMMA FoundKept == ASSUME PInv, CInv, Next PROVE FoundYoung'
<1>1. Requests /\ FoundYoung BY DEF PInv, CInv
<1>2. CASE UNCHANGED req BY <1>1, <1>2 DEF FoundYoung
<1>3. ASSUME NEW i \in Instance, Answer(i) PROVE FoundYoung'
  <2>1. req' = [req EXCEPT ![i] = NoRequest] BY <1>3 DEF Answer
  <2> QED BY <1>1, <2>1, NoRequestRests, OneFound
<1>4. ASSUME NEW i \in Instance, NEW step \in Steps, Find(i, step) PROVE FoundYoung'
  <2> DEFINE age == Age(req[i].key)
             r == [req[i] EXCEPT !.at = step, !.found = age]
  <2>1. req[i] \in Request BY <1>1 DEF Requests
  <2>2. req[i].key \in Key /\ req[i].age \in Nat
    BY <2>1, ApiProxyAssumption DEF Request, ApiProxyAssumption
  <2>3. age \in 0 .. TTL - 1 BY <1>4, <2>2, AgeOfAnswer DEF Find, CInv
  <2>4. TTL \in Nat BY LocalCacheAssumption DEF LocalCacheAssumption
  <2>5. req' = [req EXCEPT ![i] = r] BY <1>1, <1>4 DEF Find, Requests
  <2> HIDE DEF age
  <2>6. r.found = age /\ r.age = req[i].age BY <2>1 DEF Request
  <2> HIDE DEF r
  <2>7. r.found \in Nat /\ r.found < TTL + r.age BY <2>2, <2>3, <2>4, <2>6
  <2> QED BY <1>1, <2>5, <2>7, OneFound
<1>5. ASSUME NEW i \in Instance, NEW r, req' = [req EXCEPT ![i] = r],
             r.at \notin {"copy", "polled"}
      PROVE  FoundYoung'
  BY <1>1, <1>5, OneFound
<1>6. ASSUME NEW i \in Instance, NEW t, CallWith(i, t) PROVE FoundYoung'
  <2> DEFINE r == [req[i] EXCEPT !.at = "call", !.token = t, !.retried = FALSE,
                                 !.found = Nothing]
  <2>1. req[i] \in Request BY <1>1 DEF Requests
  <2>2. req' = [req EXCEPT ![i] = r] BY <1>1, <1>6 DEF CallWith, Requests
  <2>3. r.at = "call" BY <2>1 DEF Request
  <2> HIDE DEF r
  <2> QED BY <1>5, <2>2, <2>3
<1>7. ASSUME NEW i \in Instance, NEW step \in {"insert", "direct"}, Goto(i, step)
      PROVE  FoundYoung'
  <2> DEFINE r == [req[i] EXCEPT !.at = step]
  <2>1. req[i] \in Request BY <1>1 DEF Requests
  <2>2. req' = [req EXCEPT ![i] = r] BY <1>1, <1>7 DEF Goto, Requests
  <2>3. r.at = step BY <2>1 DEF Request
  <2> HIDE DEF r
  <2> QED BY <1>5, <2>2, <2>3
<1>8. ASSUME NEW i \in Instance, NEW k \in Key, Arrive(i, k) PROVE FoundYoung'
  <2> DEFINE r == [req[i] EXCEPT !.at = "shared", !.key = k]
  <2>1. req[i] \in Request BY <1>1 DEF Requests
  <2>2. CASE req' = [req EXCEPT ![i].at = "shared", ![i].key = k]
    <3>1. req' = [req EXCEPT ![i] = r] BY <1>1, <2>2 DEF Requests
    <3>2. r.at = "shared" BY <2>1 DEF Request
    <3> HIDE DEF r
    <3> QED BY <1>5, <3>1, <3>2
  <2> QED BY <1>2, <1>8, <2>2 DEF Arrive
<1>9. ASSUME NEW i \in Instance, Insert(i) PROVE FoundYoung'
  <2>1. PICK t \in Token : req' = [req EXCEPT ![i].at = "verify", ![i].token = t]
    BY <1>9 DEF Insert
  <2> DEFINE r == [req[i] EXCEPT !.at = "verify", !.token = t]
  <2>2. req[i] \in Request BY <1>1 DEF Requests
  <2>3. req' = [req EXCEPT ![i] = r] BY <1>1, <2>1 DEF Requests
  <2>4. r.at = "verify" BY <2>2 DEF Request
  <2> HIDE DEF r
  <2> QED BY <1>5, <2>3, <2>4
<1>10. ASSUME NEW i \in Instance, Verify(i) PROVE FoundYoung'
  <2> DEFINE r == [req[i] EXCEPT !.at = "wait", !.token = NoToken, !.retried = FALSE]
  <2>1. req[i] \in Request BY <1>1 DEF Requests
  <2>2. CASE req' = [req EXCEPT ![i].at = "wait", ![i].token = NoToken, ![i].retried = FALSE]
    <3>1. req' = [req EXCEPT ![i] = r] BY <1>1, <2>2 DEF Requests
    <3>2. r.at = "wait" BY <2>1 DEF Request
    <3> HIDE DEF r
    <3> QED BY <1>5, <3>1, <3>2
  <2> QED BY <1>6, <1>10, <2>2 DEF Verify
<1>11. ASSUME NEW i \in Instance, LockFails(i) PROVE FoundYoung'
  <2> DEFINE r == [req[i] EXCEPT !.at = "insert", !.token = NoToken, !.retried = TRUE]
  <2>1. req[i] \in Request BY <1>1 DEF Requests
  <2>2. CASE req' = [req EXCEPT ![i].at = "insert", ![i].token = NoToken, ![i].retried = TRUE]
    <3>1. req' = [req EXCEPT ![i] = r] BY <1>1, <2>2 DEF Requests
    <3>2. r.at = "insert" BY <2>1 DEF Request
    <3> HIDE DEF r
    <3> QED BY <1>5, <3>1, <3>2
  <2> QED BY <1>6, <1>11, <2>2 DEF LockFails
<1>12. CASE Tick
  <2> SUFFICES ASSUME NEW i \in Instance, req'[i].at \in {"copy", "polled"}
               PROVE  req'[i].found \in Nat /\ req'[i].found < TTL + req'[i].age
    BY DEF FoundYoung
  <2> DEFINE found == Older(req[i].found)
  <2>1. req[i] \in Request BY <1>1 DEF Requests
  <2>2. req'[i] = IF Busy(i) THEN [req[i] EXCEPT !.age = req[i].age + 1, !.found = found]
                  ELSE req[i]
    BY <1>12 DEF Tick
  <2> HIDE DEF found
  <2>3. req'[i].at = req[i].at BY <2>1, <2>2 DEF Request
  <2>4. Busy(i) BY <2>3 DEF Busy
  <2>5. req'[i].age = req[i].age + 1 /\ req'[i].found = found BY <2>1, <2>2, <2>4 DEF Request
  <2>6. req[i].found \in Nat /\ req[i].found < TTL + req[i].age
    BY <1>1, <2>3 DEF FoundYoung
  <2>7. found = req[i].found + 1 BY <2>6 DEF found, Older, Nothing
  <2>8. TTL \in Nat /\ req[i].age \in Nat
    BY <2>1, LocalCacheAssumption, ApiProxyAssumption
    DEF Request, LocalCacheAssumption, ApiProxyAssumption
  <2> QED BY <2>5, <2>6, <2>7, <2>8
<1>13. ASSUME NEW i \in Instance, SharedHit(i) \/ PollHit(i) PROVE FoundYoung'
  <2>1. {"copy", "polled"} \subseteq Steps BY DEF Steps
  <2> QED BY <1>4, <1>13, <2>1 DEF SharedHit, PollHit
<1>14. ASSUME NEW i \in Instance, Serve(i) PROVE FoundYoung'
  <2>1. CASE \/ Receive(i) \/ PollLocal(i) \/ CallSucceeds(i) \/ StoreFails(i) \/ CallFails(i)
             \/ EndDirect(i)
    BY <1>2, <1>3, <2>1 DEF Receive, PollLocal, CallSucceeds, StoreFails, CallFails, EndDirect
  <2>2. CASE SharedMiss(i) BY <1>7, <2>2 DEF SharedMiss
  <2>3. CASE GiveUp(i) BY <1>6, <2>3 DEF GiveUp
  <2> QED BY <1>9, <1>10, <1>11, <1>13, <1>14, <2>1, <2>2, <2>3 DEF Serve
<1>15. ASSUME NEW i \in Instance, Die(i) PROVE FoundYoung' BY <1>3, <1>15 DEF Die
<1>16. ASSUME NEW i \in Instance, BeginDirect(i) PROVE FoundYoung'
  BY <1>7, <1>16 DEF BeginDirect
<1> QED BY <1>2, <1>8, <1>12, <1>14, <1>15, <1>16 DEF Next, LateHit, LatePoll

(* Whatever a step does to a memory cache keeps it sound. *)
LEMMA CachesKept == ASSUME PInv, CInv, Next PROVE CachesSound'
<1>1. CachesSound /\ \A i \in Instance : CacheSound(local[i]) /\ req[i].key \in Key
  BY DEF CInv, CachesSound, PInv, Requests, Request
<1>2. CASE UNCHANGED local BY <1>1, <1>2 DEF CachesSound
<1>3. ASSUME NEW i \in Instance, NEW k \in Key, Arrive(i, k) PROVE CachesSound'
  <2>1. PICK c \in SweptOrNot(i) : Keep(i, LookedUp(c, k)) BY <1>3 DEF Arrive
  <2>2. CacheSound(c) BY <1>1, <2>1, SweptSound DEF SweptOrNot
  <2>3. CacheSound(LookedUp(c, k)) BY <2>2, LookedUpSound
  <2> QED BY <1>1, <2>1, <2>3, OneCache
<1>4. ASSUME NEW i \in Instance, NEW p \in late[i], LatePoll(i, p) PROVE CachesSound'
  <2>1. p \in Poll BY DEF CInv, PollsTyped
  <2>2. p.key \in Key /\ p.found \in Found BY <2>1 DEF Poll
  <2>3. CASE p.found # Nothing /\ Keep(i, Stored(local[i], p.key, p.found, TRUE))
    <3>1. p.found \in Nat BY <2>2, <2>3 DEF Found
    <3>2. CacheSound(Stored(local[i], p.key, p.found, TRUE))
      BY <1>1, <2>2, <3>1, StoredSound
    <3> QED BY <1>1, <2>3, <3>2, OneCache
  <2>4. ASSUME NEW c \in SweptOrNot(i), Keep(i, LookedUp(c, p.key)) PROVE CachesSound'
    <3>1. CacheSound(c) BY <1>1, SweptSound DEF SweptOrNot
    <3>2. CacheSound(LookedUp(c, p.key)) BY <2>2, <3>1, LookedUpSound
    <3> QED BY <1>1, <2>4, <3>2, OneCache
  <2> QED BY <1>4, <2>3, <2>4 DEF LatePoll
<1>5. ASSUME NEW i \in Instance, Die(i) PROVE CachesSound'
  BY <1>1, <1>5, EmptySound, OneCache DEF Die
<1>6. CASE Tick
  <2>1. local' = [i \in Instance |-> Aged(local[i])] BY <1>6 DEF Tick
  <2>2. \A i \in Instance : CacheSound(Aged(local[i])) BY <1>1, AgedSound
  <2> QED BY <2>1, <2>2 DEF CachesSound
<1>7. ASSUME NEW i \in Instance, Receive(i) PROVE CachesSound'
  <2>1. req[i].at \in {"copy", "polled"}
        /\ Keep(i, Stored(local[i], req[i].key, req[i].found, FALSE))
    BY <1>7 DEF Receive, StoreLocally
  <2>2. CacheSound(Stored(local[i], req[i].key, req[i].found, FALSE)) BY <2>1, CopySound
  <2> QED BY <1>1, <2>1, <2>2, OneCache
<1>8. ASSUME NEW i \in Instance, PollLocal(i) PROVE CachesSound'
  <2>1. PICK c \in SweptOrNot(i) : Keep(i, LookedUp(c, req[i].key)) BY <1>8 DEF PollLocal
  <2>2. CacheSound(c) BY <1>1, <2>1, SweptSound DEF SweptOrNot
  <2>3. CacheSound(LookedUp(c, req[i].key)) BY <1>1, <2>2, LookedUpSound
  <2> QED BY <1>1, <2>1, <2>3, OneCache
<1>9. ASSUME NEW i \in Instance, CallSucceeds(i) \/ StoreFails(i) PROVE CachesSound'
  <2>1. Keep(i, Stored(local[i], req[i].key, 0, FALSE))
    BY <1>9 DEF CallSucceeds, StoreFails, StoreLocally
  <2>2. 0 < TTL + LambdaTimeout
    BY LocalCacheAssumption, ApiProxyAssumption DEF LocalCacheAssumption, ApiProxyAssumption
  <2>3. CacheSound(Stored(local[i], req[i].key, 0, FALSE)) BY <1>1, <2>2, StoredSound
  <2> QED BY <1>1, <2>1, <2>3, OneCache
<1>10. ASSUME NEW i \in Instance, Serve(i) PROVE CachesSound'
  BY <1>2, <1>7, <1>8, <1>9, <1>10
  DEF Serve, SharedHit, SharedMiss, Insert, Verify, LockFails, PollHit, GiveUp, CallFails,
      EndDirect
<1> QED BY <1>2, <1>3, <1>4, <1>5, <1>6, <1>10 DEF Next, LateHit, BeginDirect

(* PInv and CInv together are inductive. *)
LEMMA CachesStep == PInv /\ CInv /\ [Next]_vars => CInv'
<1> SUFFICES ASSUME PInv, CInv, [Next]_vars PROVE CInv' OBVIOUS
<1>1. CASE UNCHANGED vars
  BY <1>1 DEF vars, CInv, Answered, CachesSound, PollsTyped, FoundYoung
<1>2. CASE Next
  <2>1. Answered BY DEF CInv
  <2> QED BY <1>2, <2>1, AnsweredKept, CachesKept, LateKept, FoundKept DEF CInv
<1> QED BY <1>1, <1>2

(* What CInv is for. *)
LEMMA YoungByAge == PInv /\ CInv => LocalAnswersYoung
<1> SUFFICES ASSUME CInv, NEW i \in Instance, NEW k \in Key, Servable(local[i], k),
                    ~ local[i].entry[k].behind
             PROVE  local[i].entry[k].age < 2 * TTL + LambdaTimeout
  BY DEF LocalAnswersYoung
<1> DEFINE copy == local[i].entry[k]
<1>1. CacheSound(local[i]) BY DEF CInv, CachesSound
<1>2. k \in DOMAIN local[i].entry /\ ~ (copy.left < 0) BY DEF Servable, Cached, Expired
<1>3. local[i].entry \in Entries BY <1>1 DEF CacheSound, Cache
<1>4. copy \in Copy BY <1>2, <1>3, EntriesUsed
<1>5. Young(copy) BY <1>1, <1>2 DEF CacheSound
<1>6. TTL \in Nat /\ LambdaTimeout \in Nat /\ ~ copy.behind
  BY LocalCacheAssumption, ApiProxyAssumption DEF LocalCacheAssumption, ApiProxyAssumption
<1> HIDE DEF copy
<1>7. copy.age < 2 * TTL + LambdaTimeout BY <1>2, <1>4, <1>5, <1>6 DEF Copy, Young
<1> QED BY <1>7 DEF copy

LEMMA LimitsByAccount == CInv => MemoryWithinLimits
<1> SUFFICES ASSUME CInv, NEW i \in Instance
             PROVE  /\ Cardinality(DOMAIN local[i].entry) <= MaxEntries
                    /\ RealTotal(local[i]) <= local[i].total /\ local[i].total <= MaxMemory
                    /\ DOMAIN local[i].entry \subseteq ToSet(local[i].order)
  BY DEF MemoryWithinLimits
<1>1. CacheSound(local[i]) BY DEF CInv, CachesSound
<1>2. DOMAIN local[i].entry \in SUBSET Key /\ IsFiniteSet(DOMAIN local[i].entry)
  BY <1>1, EntriesUsed DEF CacheSound, Cache, Accounted
<1>3. RealTotal(local[i]) = Summed(SizeOf, DOMAIN local[i].entry)
  BY <1>2, SizesAre DEF RealTotal
<1> QED BY <1>1, <1>3 DEF CacheSound, Accounted, Limited

LEMMA TypesByInvariant == PInv /\ CInv => TypeOK
<1> SUFFICES ASSUME PInv, CInv PROVE TypeOK OBVIOUS
<1>1. ASSUME NEW i \in Instance
      PROVE  /\ DOMAIN local[i].entry \subseteq Key
             /\ \A k \in DOMAIN local[i].entry : local[i].entry[k] \in Copy
             /\ local[i].order \in Seq(Key)
             /\ local[i].total \in Nat
  <2>1. CacheSound(local[i]) BY DEF CInv, CachesSound
  <2>2. local[i].entry \in Entries /\ local[i].order \in Seq(Key) /\ local[i].total \in Int
    BY <2>1 DEF CacheSound, Cache
  <2>3. Summed(SizeOf, DOMAIN local[i].entry) \in Nat
        /\ Summed(SizeOf, DOMAIN local[i].entry) <= local[i].total
    BY <2>1, <2>2, EntriesUsed, SizesAre DEF CacheSound, Accounted
  <2> QED BY <2>2, <2>3, EntriesUsed
<1> QED BY <1>1 DEF TypeOK, PInv, Rows, Requests, CInv, CachesSound, PollsTyped
-----------------------------------------------------------------------------
(* However many instances ask for however many keys, whichever of them     *)
(* die and whatever queries fail: as long as the platform kills a request  *)
(* before its lock expires, one living request at most calls the API with  *)
(* the lock of a key (proxy/mysql-cache.mjs:95-154).                       *)
THEOREM OneHolderAlways == Spec => []OneHolder
<1>1. Init => PInv /\ CInv BY ProxyInitial, CachesInitial
<1>2. PInv /\ CInv /\ [Next]_vars => PInv' /\ CInv' BY ProxyStep, CachesStep DEF CInv
<1> QED BY <1>1, <1>2, OneHolderByToken, PTL DEF Spec

(* The rows, the requests and the memory caches keep their types; the      *)
(* running total of a cache never gets negative although every removal     *)
(* takes from it (proxy/local-cache.mjs:93-95, 128-130).                   *)
THEOREM ProxyTypeCorrect == Spec => []TypeOK
<1>1. Init => PInv /\ CInv BY ProxyInitial, CachesInitial
<1>2. PInv /\ CInv /\ [Next]_vars => PInv' /\ CInv' BY ProxyStep, CachesStep DEF CInv
<1>3. PInv /\ CInv => TypeOK BY TypesByInvariant
<1> QED BY <1>1, <1>2, <1>3, PTL DEF Spec

(* Instances copy answers from the shared rows, and a copy gets a whole    *)
(* new TTL when it has reached its instance.  Still a copy that its        *)
(* request waited for is not served from memory at twice the TTL and a     *)
(* request's life, for every number of instances, keys and polls left      *)
(* behind; of what those store nothing is claimed, as an instance may be   *)
(* frozen before it does (proxy/local-cache.mjs:76-110, 144-147, 173).     *)
THEOREM AnswersStayYoung == Spec => []LocalAnswersYoung
<1>1. Init => PInv /\ CInv BY ProxyInitial, CachesInitial
<1>2. PInv /\ CInv /\ [Next]_vars => PInv' /\ CInv' BY ProxyStep, CachesStep DEF CInv
<1> QED BY <1>1, <1>2, YoungByAge, PTL DEF Spec

(* The memory cache never exceeds its limits, whatever sizes the answers   *)
(* have and however often a key is stored twice: every entry is counted    *)
(* and is known to the eviction (proxy/local-cache.mjs:114-153).           *)
THEOREM MemoryStaysWithinLimits == Spec => []MemoryWithinLimits
<1>1. Init => PInv /\ CInv BY ProxyInitial, CachesInitial
<1>2. PInv /\ CInv /\ [Next]_vars => PInv' /\ CInv' BY ProxyStep, CachesStep DEF CInv
<1> QED BY <1>1, <1>2, LimitsByAccount, PTL DEF Spec

(* The proxy with its callers' keys takes the steps of the proxy that      *)
(* serves accepted requests, or leaves its state alone.                    *)
LEMMA ServingSteps == [ProxyNext]_proxyVars => [Next]_vars
BY DEF ProxyNext, proxyVars, Start

LEMMA KeysSteps == [ProxyNext]_proxyVars => [KeysNext]_keysVars
BY DEF ProxyNext, proxyVars, Start

(* The proxy with its callers' keys implements both of its parts: caching  *)
(* under a lock, and keys that are checked against those published         *)
(* (proxy/api-proxy.mjs:221-299).                                          *)
THEOREM ProxyImplementsParts == ProxySpec => Spec /\ KeysSpec
<1>1. ProxyInit => Init /\ KeysInit BY DEF ProxyInit
<1> QED BY <1>1, ServingSteps, KeysSteps, PTL DEF ProxySpec, Spec, KeysSpec

(* So the safety of both parts holds in the whole of the proxy: no two     *)
(* requests hold the lock of a key, no key is accepted that its signer was *)
(* not sent, and memory keeps to its limits and serves no old answers.     *)
THEOREM ProxySafe ==
  ProxySpec => [](OneHolder /\ LocalAnswersYoung /\ MemoryWithinLimits /\ AcceptedIsPublished)
BY ProxyImplementsParts, OneHolderAlways, AnswersStayYoung, MemoryStaysWithinLimits,
   KeysPublished, PTL
=============================================================================
