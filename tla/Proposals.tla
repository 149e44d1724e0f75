----------------------------- MODULE Proposals -----------------------------
(***************************************************************************)
(* Rounds of proposals for new prediction sets.  Users create proposals in *)
(* the active round, change or delete their own and vote on each other's;  *)
(* a scheduled worker ends a round whose time is over, rewards the author  *)
(* of its best proposal and opens the next round.                          *)
(*                                                                         *)
(* An API request checks rows it has read without a lock and writes later: *)
(* it is two or more actions.  The worker runs under the job lock and ends *)
(* one round in one transaction.  The first round is there at the start;   *)
(* nothing in the code creates it.                                         *)
(***************************************************************************)
EXTENDS Integers, Sequences, FiniteSets, FiniteSetsExt

CONSTANTS
  User,
  Proposal,    \* the proposals there may ever be
  Author,      \* and who creates each of them
  None,        \* NULL
  Request,     \* concurrent API requests
  VoteInput,   \* the vote types users send
  MaxRounds,   \* bound: rounds
  MaxFailures  \* bound: requests, transactions and executions that fail

ASSUME ProposalsAssumption ==
  /\ None \notin Proposal
  /\ Author \in [Proposal -> User]
  /\ VoteInput \subseteq {"up", "down", "neutral"}
  /\ IsFiniteSet(Proposal) /\ IsFiniteSet(Request) /\ IsFiniteSet(User)
  /\ MaxRounds \in Nat \ {0} /\ MaxFailures \in Nat

VARIABLES
  rounds,        \* proposal_round, by id
  proposals,     \* proposal: its round (0: not created), deleted
  votes,         \* proposal_vote: the unique row of a user and a proposal
  voteAwards,    \* reward transactions PROPOSAL_VOTE of each user
  winnerAwards,  \* reward transactions PROPOSAL_WINNER of each user
  request,       \* the API requests
  selected,      \* rounds the worker has selected and not handled yet
  edited,        \* history: proposals changed while they had votes
  overlapped,    \* history: proposals voted on during a change of them
  failures

vars == <<rounds, proposals, votes, voteAwards, winnerAwards, request, selected,
          edited, overlapped, failures>>
tables == <<rounds, proposals, votes, voteAwards, winnerAwards>>
history == <<edited, overlapped>>

VoteType == {"up", "down", "neutral"}
Value(vote) == CASE vote = "up" -> 1 [] vote = "down" -> -1 [] OTHER -> 0

Round == [status : {"ACTIVE", "FINISHED"}, ended : BOOLEAN, winner : Proposal \cup {None}]
NewRound == [status |-> "ACTIVE", ended |-> FALSE, winner |-> None]

Idle == [pc |-> "idle"]
Steps == {"insert", "lookup", "vote", "award", "change", "delete"}

TypeOK ==
  /\ rounds \in Seq(Round) /\ Len(rounds) \in 1 .. MaxRounds
  /\ proposals \in [Proposal -> [round : 0 .. MaxRounds, deleted : BOOLEAN]]
  /\ votes \in [Proposal -> [User -> VoteType \cup {"none"}]]
  /\ voteAwards \in [User -> 0 .. Cardinality(Proposal)]
  /\ winnerAwards \in [User -> 0 .. MaxRounds]
  /\ \A r \in Request :
       \/ request[r] = Idle
       \/ /\ request[r].pc \in Steps
          /\ request[r].user \in User /\ request[r].proposal \in Proposal
  /\ selected \subseteq DOMAIN rounds
  /\ edited \cup overlapped \subseteq Proposal
  /\ failures \in 0 .. MaxFailures

Init ==
  /\ rounds = <<NewRound>>
  /\ proposals = [p \in Proposal |-> [round |-> 0, deleted |-> FALSE]]
  /\ votes = [p \in Proposal |-> [u \in User |-> "none"]]
  /\ voteAwards = [u \in User |-> 0]
  /\ winnerAwards = [u \in User |-> 0]
  /\ request = [r \in Request |-> Idle]
  /\ selected = {}
  /\ edited = {}
  /\ overlapped = {}
  /\ failures = 0

Goto(r, to) == request' = [request EXCEPT ![r] = to]

\* populateById finds a proposal that is created and not deleted.
Found(p) == proposals[p].round > 0 /\ ~proposals[p].deleted

Voted(p) == \E u \in User : votes[p][u] # "none"

-----------------------------------------------------------------------------
(* createProposal                                                          *)

\* getActiveRound: a round that is ACTIVE and whose time is not over.
BeginCreate(r, p) ==
  /\ request[r] = Idle
  /\ proposals[p].round = 0
  /\ \A s \in Request : request[s].pc = "insert" => request[s].proposal # p
  /\ \E i \in DOMAIN rounds :
       /\ rounds[i].status = "ACTIVE" /\ ~rounds[i].ended
       /\ Goto(r, [pc |-> "insert", user |-> Author[p], proposal |-> p,
                   round |-> i])
  /\ UNCHANGED <<tables, selected, history, failures>>

\* After the moderation of its text.
Insert(r) ==
  /\ request[r].pc = "insert"
  /\ proposals' = [proposals EXCEPT ![request[r].proposal].round = request[r].round]
  /\ Goto(r, Idle)
  /\ UNCHANGED <<rounds, votes, voteAwards, winnerAwards, selected, history, failures>>

-----------------------------------------------------------------------------
(* voteOnProposal                                                          *)

\* The proposal and its round are read; the round's time is not looked at.
BeginVote(r, u, p, type) ==
  /\ request[r] = Idle
  /\ Found(p) /\ Author[p] # u
  /\ rounds[proposals[p].round].status = "ACTIVE"
  /\ Goto(r, [pc |-> "lookup", user |-> u, proposal |-> p, type |-> type])
  /\ UNCHANGED <<tables, selected, history, failures>>

\* getByUserIdAndProposalId.
LookUpVote(r) ==
  /\ request[r].pc = "lookup"
  /\ Goto(r, [pc |-> "vote", user |-> request[r].user, proposal |-> request[r].proposal,
              type |-> request[r].type,
              existing |-> votes[request[r].proposal][request[r].user]])
  /\ UNCHANGED <<tables, selected, history, failures>>

SetVote(r, vote) ==
  votes' = [votes EXCEPT ![request[r].proposal][request[r].user] = vote]

\* An existing vote of the same type is revoked, another one replaced.
ChangeVote(r) ==
  /\ request[r].pc = "vote" /\ request[r].existing # "none"
  /\ SetVote(r, IF request[r].existing = request[r].type THEN "neutral"
                ELSE request[r].type)
  /\ Goto(r, Idle)
  /\ UNCHANGED <<rounds, proposals, voteAwards, winnerAwards, selected, history, failures>>

Overlaps(p) == \E s \in Request : request[s].pc = "change" /\ request[s].proposal = p

InsertVote(r) ==
  /\ request[r].pc = "vote" /\ request[r].existing = "none"
  /\ IF votes[request[r].proposal][request[r].user] = "none"
     THEN /\ SetVote(r, request[r].type)
          /\ overlapped' = overlapped \cup
               {p \in {request[r].proposal} : Overlaps(p)}
          /\ Goto(r, [pc |-> "award", user |-> request[r].user,
                      proposal |-> request[r].proposal])
     ELSE Goto(r, Idle) /\ UNCHANGED <<votes, overlapped>>
  /\ UNCHANGED <<rounds, proposals, voteAwards, winnerAwards, selected, edited, failures>>

AwardVote(r) ==
  /\ request[r].pc = "award"
  /\ voteAwards' = [voteAwards EXCEPT ![request[r].user] = @ + 1]
  /\ Goto(r, Idle)
  /\ UNCHANGED <<rounds, proposals, votes, winnerAwards, selected, history, failures>>

-----------------------------------------------------------------------------
(* updateProposal and deleteProposal                                       *)

BeginUpdate_uncounted(r, p) ==
  /\ request[r] = Idle
  /\ Found(p)
  /\ Goto(r, [pc |-> "change", user |-> Author[p], proposal |-> p])
  /\ UNCHANGED <<tables, selected, history, failures>>

BeginUpdate(r, p) ==
  /\ request[r] = Idle
  /\ Found(p)
  /\ ~Voted(p)
  /\ Goto(r, [pc |-> "change", user |-> Author[p], proposal |-> p])
  /\ UNCHANGED <<tables, selected, history, failures>>

\* After the moderation of its text: every column, so the status as well.
Change(r) ==
  /\ request[r].pc = "change"
  /\ proposals' = [proposals EXCEPT ![request[r].proposal].deleted = FALSE]
  /\ edited' = edited \cup {p \in {request[r].proposal} : Voted(p)}
  /\ Goto(r, Idle)
  /\ UNCHANGED <<rounds, votes, voteAwards, winnerAwards, selected, overlapped, failures>>

BeginDelete(r, p) ==
  /\ request[r] = Idle
  /\ Found(p)
  /\ Goto(r, [pc |-> "delete", user |-> Author[p], proposal |-> p])
  /\ UNCHANGED <<tables, selected, history, failures>>

Delete(r) ==
  /\ request[r].pc = "delete"
  /\ proposals' = [proposals EXCEPT ![request[r].proposal].deleted = TRUE]
  /\ Goto(r, Idle)
  /\ UNCHANGED <<rounds, votes, voteAwards, winnerAwards, selected, history, failures>>

\* A request fails in moderation or in its statement; a failing award is only
\* logged.
RequestFails(r) ==
  /\ request[r] # Idle
  /\ failures < MaxFailures
  /\ failures' = failures + 1
  /\ Goto(r, Idle)
  /\ UNCHANGED <<tables, selected, history>>

-----------------------------------------------------------------------------
(* FinalizeProposalRoundsWorker                                            *)

EndRound ==
  /\ Len(rounds) < MaxRounds
  /\ \E i \in DOMAIN rounds :
       /\ ~rounds[i].ended
       /\ rounds' = [rounds EXCEPT ![i].ended = TRUE]
  /\ UNCHANGED <<proposals, votes, voteAwards, winnerAwards, request, selected,
                 history, failures>>

Select ==
  /\ selected = {}
  /\ selected' = {i \in DOMAIN rounds : rounds[i].ended /\ rounds[i].status = "ACTIVE"}
  /\ selected' # {}
  /\ UNCHANGED <<tables, request, history, failures>>

Candidates(i) == {p \in Proposal : proposals[p].round = i /\ ~proposals[p].deleted}

TotalVotes(p) == MapThenSumSet(LAMBDA u : Value(votes[p][u]), User)

\* ORDER BY totalVotes DESC LIMIT 1: any of the best.
Leaders(i) ==
  {p \in Candidates(i) : \A q \in Candidates(i) : TotalVotes(p) >= TotalVotes(q)}

\* Round i is finished and its successor inserted.
CloseRound(i, winner) ==
  rounds' = Append([rounds EXCEPT ![i].status = "FINISHED", ![i].winner = winner],
                   NewRound)

\* One transaction: winner, reward, the round and its successor.
Finalize_onlyWithWinner(i) ==
  /\ i \in selected
  /\ \/ Candidates(i) = {} /\ UNCHANGED <<rounds, winnerAwards>>
     \/ \E w \in Leaders(i) :
          /\ CloseRound(i, w)
          /\ winnerAwards' = [winnerAwards EXCEPT ![Author[w]] = @ + 1]
  /\ selected' = selected \ {i}
  /\ UNCHANGED <<proposals, votes, voteAwards, request, history, failures>>

Finalize(i) ==
  /\ i \in selected
  /\ \/ /\ Candidates(i) = {}
        /\ CloseRound(i, None)
        /\ UNCHANGED winnerAwards
     \/ \E w \in Leaders(i) :
          /\ CloseRound(i, w)
          /\ winnerAwards' = [winnerAwards EXCEPT ![Author[w]] = @ + 1]
  /\ selected' = selected \ {i}
  /\ UNCHANGED <<proposals, votes, voteAwards, request, history, failures>>

\* The transaction is rolled back and the next round handled.
FinalizeFails_awardKept(i) ==
  /\ i \in selected
  /\ failures < MaxFailures
  /\ failures' = failures + 1
  /\ \E w \in Leaders(i) :
       winnerAwards' = [winnerAwards EXCEPT ![Author[w]] = @ + 1]
  /\ selected' = selected \ {i}
  /\ UNCHANGED <<rounds, proposals, votes, voteAwards, request, history>>

FinalizeFails(i) ==
  /\ i \in selected
  /\ failures < MaxFailures
  /\ failures' = failures + 1
  /\ selected' = selected \ {i}
  /\ UNCHANGED <<tables, request, history>>

-----------------------------------------------------------------------------
Continue(r) ==
  \/ Insert(r) \/ LookUpVote(r) \/ ChangeVote(r) \/ InsertVote(r) \/ AwardVote(r)
  \/ Change(r) \/ Delete(r)

Next ==
  \/ \E r \in Request, p \in Proposal :
       \/ BeginCreate(r, p) \/ BeginUpdate(r, p) \/ BeginDelete(r, p)
       \/ \E u \in User, type \in VoteInput : BeginVote(r, u, p, type)
  \/ \E r \in Request : Continue(r) \/ RequestFails(r)
  \/ EndRound
  \/ Select
  \/ \E i \in 1 .. MaxRounds : Finalize(i) \/ FinalizeFails(i)

Spec == Init /\ [][Next]_vars

\* The worker runs every five minutes and handles what it has selected.
Fairness ==
  /\ WF_vars(Select)
  /\ \A i \in 1 .. MaxRounds : WF_vars(Finalize(i))

FairSpec == Spec /\ Fairness

-----------------------------------------------------------------------------
(* Properties                                                                *)

\* There is always one ACTIVE round, although the transaction that ends one
\* and opens the next may fail (finalize-proposal-rounds.worker.ts:73-104).
OneActiveRound == Cardinality({i \in DOMAIN rounds : rounds[i].status = "ACTIVE"}) = 1

Won(u) ==
  {i \in DOMAIN rounds : rounds[i].winner # None /\ Author[rounds[i].winner] = u}

\* An author is rewarded once for each round a proposal of theirs has won, and
\* for nothing else, also when the round is ended only at a later attempt
\* (finalize-proposal-rounds.worker.ts:68-74).
WinnersRewardedOnce == \A u \in User : winnerAwards[u] = Cardinality(Won(u))

\* However often a user votes, revokes and votes again, also from concurrent
\* requests: a proposal earns the reward for a vote once
\* (proposal.service.ts:127-179).
VotesRewardedOnce ==
  \A u \in User :
    voteAwards[u]
      + Cardinality({r \in Request : request[r].pc = "award" /\ request[r].user = u})
      <= Cardinality({p \in Proposal : votes[p][u] # "none"})

\* Rewards and what they are for never part, for authors and for voters.
RewardedOnce == WinnersRewardedOnce /\ VotesRewardedOnce

\* A proposal that has votes is not changed (proposal.service.ts:212), unless
\* the vote came in while a change that had counted no votes was under way.
EditedUnvotedUnlessOverlap == edited \subseteq overlapped

\* A round whose time is over is finished, whatever fails
\* (finalize-proposal-rounds.worker.ts:31-47, 105-118).
RoundsFinished ==
  \A i \in 1 .. MaxRounds :
    (i \in DOMAIN rounds /\ rounds[i].ended)
      ~> (i \in DOMAIN rounds /\ rounds[i].status = "FINISHED")
=============================================================================
