------------------------------ MODULE ApiProxy ------------------------------
(***************************************************************************)
(* The API proxy with its callers' keys (proxy/api-proxy.mjs): a request   *)
(* is looked at only when its key is accepted.  Keys are published and     *)
(* read as in ApiKeys, accepted requests are served as in ApiProxyCache.   *)
(***************************************************************************)
EXTENDS ApiProxyCache, ApiKeys

VARIABLE serving  \* whether accepted requests arrive

proxyVars == <<vars, keysVars, serving>>

ProxyInit == /\ Init
             /\ KeysInit
             /\ serving = FALSE

(* Bound: requests are followed under one set of keys only, that of all    *)
(* signers with a public key that can be loaded.                           *)
Settled == LET keys == {<<s, 0>> : s \in Signer \ Malformed}
           IN  /\ listed = Signer \ Malformed
               /\ encrypted = keys /\ decrypted = keys /\ known = keys
               /\ run = [e \in Execution |-> Resting]
               /\ timely /\ failures = 0 /\ ~ overlapped

Start == /\ ~ serving
         /\ Settled
         /\ serving' = TRUE
         /\ UNCHANGED <<vars, keysVars>>

ProxyNext ==
  \/ ~ serving /\ KeysNext /\ UNCHANGED <<vars, serving>>
  \/ Start
  \/ serving /\ (\E s \in Signer : Admits(s)) /\ Next /\ UNCHANGED <<keysVars, serving>>

(***************************************************************************)
(* Executions of the worker go on, and callers' keys are checked again and *)
(* again.  Of the requests: time passes, one is killed when its time is    *)
(* over, and clients go on asking: some request for a key misses the       *)
(* memory cache, reaches the lock and gets its INSERT through.  Nothing is *)
(* assumed of the owners: every one of them may die.                       *)
(***************************************************************************)
KeysFairness ==
  /\ \A e \in Execution : WF_proxyVars(~ serving /\ Work(e) /\ UNCHANGED <<vars, serving>>)
  /\ WF_proxyVars(~ serving /\ CheckKey /\ UNCHANGED <<vars, serving>>)
  /\ WF_proxyVars(~ serving /\ KeysAge /\ UNCHANGED <<vars, serving>>)

ServingFairness ==
  /\ WF_proxyVars(serving /\ Tick /\ UNCHANGED <<keysVars, serving>>)
  /\ WF_proxyVars(/\ serving
                  /\ \E i \in Instance :
                       Busy(i) /\ req[i].age = LambdaTimeout /\ (Serve(i) \/ Die(i))
                  /\ UNCHANGED <<keysVars, serving>>)
  /\ \A k \in Key :
       /\ SF_proxyVars(/\ serving
                       /\ \E i \in Instance : Arrive(i, k)
                       /\ UNCHANGED <<keysVars, serving>>)
       /\ SF_proxyVars(/\ serving
                       /\ \E i \in Instance : req[i].key = k /\ SharedMiss(i)
                       /\ UNCHANGED <<keysVars, serving>>)
       /\ SF_proxyVars(/\ serving
                       /\ \E i \in Instance : req[i].key = k /\ Insert(i)
                       /\ UNCHANGED <<keysVars, serving>>)

ProxySpec == ProxyInit /\ [][ProxyNext]_proxyVars /\ KeysFairness /\ ServingFairness
=============================================================================
