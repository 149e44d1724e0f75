---------------------------- MODULE ClaimsParser ----------------------------
(***************************************************************************)
(* The parser of PayoutRedemption events (claims-parser.worker.ts) beside  *)
(* the users it looks for.  It runs under the job lock, one at a time, and *)
(* handles a batch of blocks in one transaction; a batch that is not       *)
(* committed leaves no trace.                                              *)
(*                                                                         *)
(* A block holds at most one claim.                                        *)
(***************************************************************************)
EXTENDS Accounts

CONSTANTS
  Blocks,        \* bound: blocks of the chain
  ParseSize,     \* contract.parseBlockSize
  Confirmations  \* CONDITIONAL_TOKENS_BLOCK_CONFIRMATIONS

ASSUME ClaimsAssumption ==
  /\ Blocks \in Nat /\ ParseSize \in Nat \ {0} /\ Confirmations \in Nat
  /\ \A s \in Scene :
       /\ DOMAIN s.claim \subseteq 1 .. Blocks /\ s.blocks \in 0 .. Blocks
       /\ \A b \in DOMAIN s.claim :
            s.claim[b] \in [wallet: Wallet, known: BOOLEAN, outcome: BOOLEAN]

VARIABLES
  head,   \* the chain's newest block
  cursor, \* contract.lastProcessedBlock
  claimed \* the rows of claim_transaction: blocks and the user of each

claimVars == <<head, cursor, claimed>>
vars == <<rewardVars, accountVars, claimVars>>

\* The claims in the blocks of the chain.
Claim == scene.claim

\* Rows for the claims in blocks B: the user of each.
ClaimTransaction(B) == [B -> UserId]

TypeOK ==
  /\ RewardTypeOK /\ AccountsTypeOK
  /\ head \in 0 .. Blocks /\ cursor \in 0 .. Blocks
  /\ DOMAIN claimed \subseteq DOMAIN Claim
  /\ claimed \in ClaimTransaction(DOMAIN claimed)

Init ==
  /\ RewardInit /\ AccountsInit
  /\ head = 0 /\ cursor = 0 /\ claimed = <<>>

Smaller(a, b) == IF a < b THEN a ELSE b

FromBlock == cursor + 1

\* ToBlock with a block too many held back.
ToBlockHeldBack == Smaller(FromBlock + ParseSize, head - Confirmations - 1)

ToBlock == Smaller(FromBlock + ParseSize, head - Confirmations)

\* Claims of the batch that have a prediction set.  One without is passed over.
Batch == {b \in DOMAIN Claim \cap (FromBlock .. ToBlock) : Claim[b].known}

\* A claim whose wallet has no user, or whose index set is not that of a single
\* outcome, rolls the batch back before the cursor moves.
Handled(b) == OfWallet(Claim[b].wallet) # {} /\ Claim[b].outcome

\* The awards of a batch, one for each of its claims.
Winnings(u) == Cardinality({b \in Batch : ByWallet(Claim[b].wallet) = u})

\* ParseClaims that passes over a claim it cannot handle.
ParseClaimsSkipping ==
  /\ FromBlock < ToBlock
  /\ LET done == {b \in Batch : Handled(b)}
     IN  /\ claimed' = [b \in DOMAIN claimed \cup done |->
                          IF b \in done THEN ByWallet(Claim[b].wallet) ELSE claimed[b]]
         /\ reward' = [u \in UserId |-> [reward[u] EXCEPT !["MARKET_WINNER"] =
                         @ + Cardinality({b \in done : ByWallet(Claim[b].wallet) = u})]]
  /\ cursor' = ToBlock
  /\ UNCHANGED <<claiming, raced, accountVars, head>>

\* parseClaims.  A batch of one block is left for later.
ParseClaims ==
  /\ FromBlock < ToBlock
  /\ \A b \in Batch : Handled(b)
  /\ claimed' = [b \in DOMAIN claimed \cup Batch |->
                   IF b \in Batch THEN ByWallet(Claim[b].wallet) ELSE claimed[b]]
  /\ reward' = [u \in UserId |-> [reward[u] EXCEPT !["MARKET_WINNER"] = @ + Winnings(u)]]
  /\ cursor' = ToBlock
  /\ UNCHANGED <<claiming, raced, accountVars, head>>

Mine ==
  /\ head < scene.blocks
  /\ head' = head + 1
  /\ UNCHANGED <<rewardVars, accountVars, cursor, claimed>>

Next ==
  \/ AccountsNext /\ UNCHANGED claimVars
  \/ ParseClaims
  \/ Mine

Spec == Init /\ [][Next]_vars

(***************************************************************************)
(* The parser is run again and again, and requests end.  Wallets that have *)
(* claimed log in until they have a user: this is an assumption about      *)
(* people, and the code needs it.                                          *)
(***************************************************************************)
FirstLoginOf(w) ==
  \E r \in Request : \E u \in Ids \cup {NoUser} :
    FirstLogin(r, w, u) /\ UNCHANGED claimVars

RegisterOf(w) ==
  \E r \in Request :
    req[r].at = "login" /\ req[r].wallet = w /\ Register(r) /\ UNCHANGED claimVars

Fairness ==
  /\ WF_vars(ParseClaims)
  /\ \A r \in Request : WF_vars((RegisterFails(r) \/ Abort(r)) /\ UNCHANGED claimVars)
  /\ \A w \in Wallet : SF_vars(FirstLoginOf(w)) /\ SF_vars(RegisterOf(w))

FairSpec == Spec /\ Fairness

-----------------------------------------------------------------------------
(* Properties *)

\* Below the cursor every claim of a known set is recorded, for a user of its
\* wallet, and rewarded once; above it none is (claims-parser.worker.ts:66-152).
ClaimsPaidOnce ==
  /\ DOMAIN claimed = {b \in DOMAIN Claim : b <= cursor /\ Claim[b].known}
  /\ \A b \in DOMAIN claimed :
       claimed[b] \in Ids /\ user[claimed[b]].walletAddress = Claim[b].wallet
  /\ \A u \in UserId :
       reward[u]["MARKET_WINNER"] = Cardinality({b \in DOMAIN claimed : claimed[b] = u})

\* Claims that nothing but an edit of the database lets pass: the index set is not
\* an outcome's, or the wallet can have no user because its name is another's.
Wedged ==
  \E b \in Batch :
    \/ ~Claim[b].outcome
    \/ /\ OfWallet(Claim[b].wallet) = {}
       /\ \/ \E u \in Ids : user[u].username = Abbr[Claim[b].wallet]
          \/ Len(user) = MaxUsers

\* A confirmed block is parsed in the end, once another follows it, unless the
\* parser is wedged at an earlier claim (claims-parser.worker.ts:53, 118, 131).
ClaimsParsed ==
  \A b \in 1 .. Blocks : head - Confirmations > b ~> cursor >= b \/ Wedged
=============================================================================
