---------------------------- MODULE Attestations ----------------------------
(***************************************************************************)
(* The evidence of one automatic prediction set: attestations of its data  *)
(* sources are requested and paid for on chain, their proofs are fetched   *)
(* when the voting round is final, and after the resolution time all of    *)
(* them are verified and handed to the oracle.                             *)
(*                                                                         *)
(* Three jobs do this, each under its own lock.  A lock does not keep a    *)
(* second execution out for ever (see JobLock), so the job that pays may   *)
(* run twice; the others read and write rows that exist.                   *)
(***************************************************************************)
EXTENDS Integers, SequencesExt

CONSTANTS
  Source,    \* the set's data sources
  Requester, \* executions of the job that requests attestations
  MaxRows,   \* bound: rows of prediction_set_attestation
  MaxPaid    \* bound: payments for attestations

ASSUME AttestationsAssumption ==
  /\ IsFiniteSet(Source) /\ Source # {}
  /\ MaxRows \in Nat /\ MaxPaid \in Nat

VARIABLES
  phase,      \* where the clock stands between attestationTime and resolutionTime
  setStatus,  \* of the prediction set
  question,   \* status of the oracle's question
  rows,       \* prediction_set_attestation, in the order of insertion
  paid,       \* payments made for each source
  req,        \* what each requester is doing
  proving,    \* ids of the rows the prover still has to look at
  fin,        \* what the finalizer is doing, and the rows it has read
  overlapped, \* history: two requesters were at work at once
  sent        \* history: the sources of the proofs the oracle accepted

requestVars == <<paid, req, overlapped>>
resolveVars == <<setStatus, question, fin, sent>>
attestationVars == <<phase, rows, proving, requestVars, resolveVars>>

Phases == {"waiting", "attesting", "resolving"}

\* What became of the request: its round is open, or final with a proof, without
\* the request in its tree, or with a proof that does not verify.
Rounds == {"open", "included", "absent", "refuted"}

Attestation == [source: Source, round: Rounds, ripe: BOOLEAN, proof: BOOLEAN]

Work == [at: {"idle"}] \cup [at: {"selected"}]
  \cup [at: {"next"}, todo: SUBSET Source]
  \cup [at: {"submit", "insert"}, todo: SUBSET Source, source: Source]

AttestationsTypeOK ==
  /\ phase \in Phases
  /\ setStatus \in {"ACTIVE", "ERROR", "FINALIZED", "VOTING"}
  /\ question \in {"ACTIVE", "FINALIZED", "VOTING"}
  /\ rows \in Seq(Attestation) /\ Len(rows) <= MaxRows
  /\ paid \in [Source -> 0 .. MaxPaid]
  /\ req \in [Requester -> Work]
  /\ proving \subseteq DOMAIN rows
  /\ fin \in [at: {"idle", "selected", "verify", "submit", "save"}, rows: SUBSET (1 .. MaxRows)]
  /\ overlapped \in BOOLEAN
  /\ sent \subseteq Source

Idle == [at |-> "idle"]
Resting == [at |-> "idle", rows |-> {}]

AttestationsInit ==
  /\ phase = "waiting" /\ setStatus = "ACTIVE" /\ question = "ACTIVE"
  /\ rows = <<>>
  /\ paid = [s \in Source |-> 0]
  /\ req = [r \in Requester |-> Idle]
  /\ proving = {}
  /\ fin = Resting
  /\ overlapped = FALSE /\ sent = {}

Sources(ids) == {rows[i].source : i \in ids}
Attested == Sources(DOMAIN rows)

-----------------------------------------------------------------------------
(* request-attestation.worker.ts *)

Requests(r, work) == req' = [req EXCEPT ![r] = work]

\* The sources that are left are looked at; without any the set is done.
Rest(todo) == IF todo = {} THEN Idle ELSE [at |-> "next", todo |-> todo]

\* The set is selected: it ended, is not resolved, and has fewer attestations than
\* data sources.  Other sets may be worked on before it.
SelectUnattested(r) ==
  /\ req[r] = Idle /\ phase = "attesting" /\ setStatus = "ACTIVE"
  /\ Cardinality(Source) > Len(rows)
  /\ Requests(r, [at |-> "selected"])
  /\ overlapped' = (overlapped \/ \E q \in Requester \ {r} : req[q] # Idle)
  /\ UNCHANGED <<phase, rows, proving, paid, resolveVars>>

\* ReadAttestations that does not look at the rows there are.
ReadNoAttestations(r) ==
  /\ req[r].at = "selected"
  /\ Requests(r, Rest(Source))
  /\ UNCHANGED <<phase, rows, proving, paid, overlapped, resolveVars>>

\* Its data sources and attestations are read; those that have one are skipped.
ReadAttestations(r) ==
  /\ req[r].at = "selected"
  /\ Requests(r, Rest(Source \ Attested))
  /\ UNCHANGED <<phase, rows, proving, paid, overlapped, resolveVars>>

\* Data sources are taken in the order of their ids.
First(todo) == CHOOSE s \in todo : TRUE

\* prepareAttestationRequest: the verifier accepts the request, or refuses it or
\* cannot be reached and the source is left to the job's next run.
Prepare(r) ==
  /\ req[r].at = "next"
  /\ LET s == First(req[r].todo)
         left == req[r].todo \ {s}
     IN  \/ Requests(r, [at |-> "submit", todo |-> left, source |-> s])
         \/ Requests(r, Rest(left))
  /\ UNCHANGED <<phase, rows, proving, paid, overlapped, resolveVars>>

\* submitAttestationRequest pays the fee; afterwards the receipt or the round id
\* may still fail to be read.
Submit(r) ==
  /\ req[r].at = "submit" /\ MapThenSumSet(LAMBDA s : paid[s], Source) < MaxPaid
  /\ paid' = [paid EXCEPT ![req[r].source] = @ + 1]
  /\ \/ Requests(r, [req[r] EXCEPT !.at = "insert"])
     \/ Requests(r, Rest(req[r].todo))
  /\ UNCHANGED <<phase, rows, proving, overlapped, resolveVars>>

InsertAttestation(r) ==
  /\ req[r].at = "insert" /\ Len(rows) < MaxRows
  /\ rows' = Append(rows, [source |-> req[r].source, round |-> "open",
                           ripe |-> FALSE, proof |-> FALSE])
  /\ Requests(r, Rest(req[r].todo))
  /\ UNCHANGED <<phase, proving, paid, overlapped, resolveVars>>

\* The transaction is not sent, or the row not inserted: logged and passed over.
PassOver(r) ==
  /\ req[r].at \in {"submit", "insert"}
  /\ Requests(r, Rest(req[r].todo))
  /\ UNCHANGED <<phase, rows, proving, paid, overlapped, resolveVars>>

\* The execution dies, wherever it is.
RequesterDies(r) ==
  /\ req[r] # Idle
  /\ Requests(r, Idle)
  /\ UNCHANGED <<phase, rows, proving, paid, overlapped, resolveVars>>

-----------------------------------------------------------------------------
(* request-attestation-proof.worker.ts *)

Unproved == {i \in DOMAIN rows : ~rows[i].proof}

\* SelectUnproved that looks at the rows past the offset only once.
SelectNewUnproved ==
  /\ proving = {} /\ setStatus = "ACTIVE" /\ Unproved = DOMAIN rows
  /\ \E i \in Unproved : rows[i].ripe
  /\ proving' = Unproved
  /\ UNCHANGED <<phase, rows, requestVars, resolveVars>>

\* The set has a row without a proof that is older than the offset: all its rows
\* without a proof are looked at.
SelectUnproved ==
  /\ proving = {} /\ setStatus = "ACTIVE"
  /\ \E i \in Unproved : rows[i].ripe
  /\ proving' = Unproved
  /\ UNCHANGED <<phase, rows, requestVars, resolveVars>>

\* The round is final and the data layer has the proof.
Prove(i) ==
  /\ i \in proving /\ rows[i].round \in {"included", "refuted"}
  /\ rows' = [rows EXCEPT ![i].proof = TRUE]
  /\ proving' = proving \ {i}
  /\ UNCHANGED <<phase, requestVars, resolveVars>>

\* The round is open, the request is not in the tree, a call fails, or the job
\* dies: the row is looked at again in the next run and never requested again.
Unproven(i) ==
  /\ i \in proving
  /\ proving' \in {proving \ {i}, {}}
  /\ UNCHANGED <<phase, rows, requestVars, resolveVars>>

-----------------------------------------------------------------------------
(* finalize-automatic-prediction-sets.worker.ts *)

Finalizes(step, ids) == fin' = [at |-> step, rows |-> ids]

SelectResolved ==
  /\ fin.at = "idle" /\ phase = "resolving" /\ setStatus = "ACTIVE"
  /\ Finalizes("selected", {})
  /\ UNCHANGED <<phase, rows, proving, requestVars, setStatus, question, sent>>

\* The counts of sources and rows agree and every row has its proof.
Evident == Len(rows) = Cardinality(Source) /\ Unproved = {}

\* ReadEvidence that takes whatever proofs there are.
ReadSomeEvidence ==
  /\ fin.at = "selected"
  /\ Finalizes("verify", DOMAIN rows \ Unproved)
  /\ UNCHANGED <<phase, rows, proving, requestVars, setStatus, question, sent>>

\* ReadEvidence that waits for evidence that is missing.
ReadEvidencePatiently ==
  /\ fin.at = "selected"
  /\ IF Evident THEN Finalizes("verify", DOMAIN rows) ELSE fin' = Resting
  /\ UNCHANGED <<phase, rows, proving, requestVars, setStatus, question, sent>>

\* Attestations and data sources are read.  A set without its evidence is given up.
ReadEvidence ==
  /\ fin.at = "selected"
  /\ IF Evident THEN Finalizes("verify", DOMAIN rows) /\ UNCHANGED setStatus
     ELSE setStatus' = "ERROR" /\ fin' = Resting
  /\ UNCHANGED <<phase, rows, proving, requestVars, question, sent>>

\* verifyProof says yes to every one of them.
Verify ==
  /\ fin.at = "verify" /\ \A i \in fin.rows : rows[i].round = "included"
  /\ Finalizes("submit", fin.rows)
  /\ UNCHANGED <<phase, rows, proving, requestVars, setStatus, question, sent>>

\* finalizeQuestion is mined: the answers agree, or the question goes to a vote.
FinalizeQuestion ==
  /\ fin.at = "submit" /\ question = "ACTIVE"
  /\ question' \in {"FINALIZED", "VOTING"}
  /\ sent' = Sources(fin.rows)
  /\ Finalizes("save", fin.rows)
  /\ UNCHANGED <<phase, rows, proving, requestVars, setStatus>>

\* The new status is saved.
SaveStatus ==
  /\ fin.at = "save"
  /\ setStatus' = question
  /\ fin' = Resting
  /\ UNCHANGED <<phase, rows, proving, requestVars, question, sent>>

\* A proof is refused, a call or an update fails, the oracle refuses a question
\* that is no longer active, or the job dies: the next run begins anew.
GiveUp ==
  /\ fin.at # "idle"
  /\ fin' = Resting
  /\ UNCHANGED <<phase, rows, proving, requestVars, setStatus, question, sent>>

-----------------------------------------------------------------------------
(* The clock and the data connector *)

TimePasses ==
  /\ phase # "resolving"
  /\ phase' = IF phase = "waiting" THEN "attesting" ELSE "resolving"
  /\ UNCHANGED <<rows, proving, requestVars, resolveVars>>

\* A row gets older than ATTESTATION_RESULTS_OFFSET_MINUTES.
Ripen(i) ==
  /\ ~rows[i].ripe
  /\ rows' = [rows EXCEPT ![i].ripe = TRUE]
  /\ UNCHANGED <<phase, proving, requestVars, resolveVars>>

CloseRound(i) ==
  /\ rows[i].round = "open"
  /\ \E round \in Rounds \ {"open"} : rows' = [rows EXCEPT ![i].round = round]
  /\ UNCHANGED <<phase, proving, requestVars, resolveVars>>

Request(r) ==
  \/ SelectUnattested(r) \/ ReadAttestations(r) \/ Prepare(r)
  \/ Submit(r) \/ InsertAttestation(r) \/ PassOver(r) \/ RequesterDies(r)

Finalize ==
  SelectResolved \/ ReadEvidence \/ Verify \/ FinalizeQuestion \/ SaveStatus \/ GiveUp

AttestationsNext ==
  \/ \E r \in Requester : Request(r)
  \/ SelectUnproved \/ \E i \in DOMAIN rows : Prove(i) \/ Unproven(i)
  \/ Finalize
  \/ TimePasses \/ \E i \in DOMAIN rows : Ripen(i) \/ CloseRound(i)

AttestationsSpec == AttestationsInit /\ [][AttestationsNext]_attestationVars

(***************************************************************************)
(* The jobs run again and again, calls that could succeed do not fail for  *)
(* ever.  Nothing makes the requester succeed, a voting round include a    *)
(* request, or the time of resolution come.                                *)
(***************************************************************************)
AttestationsFairness ==
  /\ WF_attestationVars(SelectUnproved)
  /\ \A i \in 1 .. MaxRows :
       /\ SF_attestationVars(i \in DOMAIN rows /\ Prove(i))
       /\ WF_attestationVars(i \in DOMAIN rows /\ Unproven(i))
       /\ WF_attestationVars(i \in DOMAIN rows /\ Ripen(i))
  /\ WF_attestationVars(SelectResolved)
  /\ SF_attestationVars(ReadEvidence) /\ SF_attestationVars(Verify) /\ SF_attestationVars(FinalizeQuestion)
  /\ WF_attestationVars(SaveStatus \/ GiveUp)

AttestationsFairSpec == AttestationsSpec /\ AttestationsFairness

-----------------------------------------------------------------------------
(* Properties *)

\* The oracle is given a proof of every data source.  The finalizer compares only
\* the numbers of rows and sources (finalize-automatic-prediction-sets.worker.ts:59),
\* which is enough unless two requesters have worked at once and attested one
\* source twice.
EvidenceComplete == question # "ACTIVE" => sent = Source \/ overlapped

\* A source that has its attestation is not paid for again, although the list of
\* sets is read long before (request-attestation.worker.ts:65-85).  A payment
\* whose row was never inserted is made again; that is not forbidden here.
PaidOnce ==
  [][\A s \in Source : paid'[s] > paid[s] => s \notin Attested \/ overlapped]_attestationVars

\* A proof that the data layer has is fetched in the end, whatever becomes of the
\* other rows of its set, unless the set is resolved before
\* (request-attestation-proof.worker.ts:67-127).
ProofFetched ==
  \A i \in 1 .. MaxRows :
    (i \in DOMAIN rows /\ rows[i].round = "included")
      ~> (i \in DOMAIN rows /\ rows[i].proof) \/ setStatus # "ACTIVE"

\* A set that is due for resolution leaves ACTIVE, unless a proof is refused or the
\* job died between the oracle's transaction and the update
\* (finalize-automatic-prediction-sets.worker.ts:121-154).
Resolved ==
  phase = "resolving" ~>
    \/ setStatus # "ACTIVE"
    \/ question # "ACTIVE"
    \/ \E i \in DOMAIN rows : rows[i].round = "refuted"
=============================================================================
