--------------------------- MODULE ProposalsProofs ---------------------------
(***************************************************************************)
(* Proofs about Proposals, for any users, proposals and requests: types,   *)
(* one active round, and that winners and voters are rewarded once.        *)
(***************************************************************************)
EXTENDS Proposals, FiniteSetTheorems, TLAPS

\* Only the last round is ACTIVE and it has no winner; the worker holds no
\* other, and none whose time is not over.
RoundsSound ==
  /\ \A i \in DOMAIN rounds : rounds[i].status = "ACTIVE" <=> i = Len(rounds)
  /\ rounds[Len(rounds)].winner = None
  /\ rounds[Len(rounds)].ended => Len(rounds) < MaxRounds
  /\ \A i \in selected : i = Len(rounds) /\ rounds[i].ended

\* What a request has read and still relies on: its round is there, and a vote
\* that was found is never gone again.
RequestsSound ==
  /\ request = [r \in Request |-> request[r]]
  /\ \A r \in Request :
       /\ request[r].pc = "insert" => request[r].round \in DOMAIN rounds
       /\ request[r].pc \in {"lookup", "vote"} => request[r].type \in VoteType
       /\ request[r].pc = "vote" /\ request[r].existing # "none" =>
            votes[request[r].proposal][request[r].user] # "none"

IInv == TypeOK /\ RoundsSound /\ RequestsSound /\ WinnersRewardedOnce /\ VotesRewardedOnce

-----------------------------------------------------------------------------
(* The sets that are counted.                                              *)

VotedBy(u) == {p \in Proposal : votes[p][u] # "none"}

Owed(u) == {r \in Request : request[r].pc = "award" /\ request[r].user = u}

LEMMA Constants ==
  /\ MaxRounds \in Nat /\ MaxRounds >= 1 /\ MaxFailures \in Nat
  /\ Cardinality(Proposal) \in Nat
  BY ProposalsAssumption, FS_CardinalityType DEF ProposalsAssumption

LEMMA VotedByFinite ==
  \A u : IsFiniteSet(VotedBy(u)) /\ Cardinality(VotedBy(u)) \in 0 .. Cardinality(Proposal)
<1> SUFFICES ASSUME NEW u
             PROVE  IsFiniteSet(VotedBy(u))
                      /\ Cardinality(VotedBy(u)) \in 0 .. Cardinality(Proposal)
  OBVIOUS
<1>1. VotedBy(u) \in SUBSET Proposal /\ IsFiniteSet(Proposal)
  BY ProposalsAssumption DEF VotedBy
<1>2. IsFiniteSet(VotedBy(u)) /\ Cardinality(VotedBy(u)) <= Cardinality(Proposal)
  BY <1>1, FS_Subset
<1>3. Cardinality(VotedBy(u)) \in Nat /\ Cardinality(Proposal) \in Nat
  BY <1>1, <1>2, FS_CardinalityType
<1> QED BY <1>2, <1>3

LEMMA OwedFinite ==
  \A u : IsFiniteSet(Owed(u)) /\ Cardinality(Owed(u)) \in Nat
<1> SUFFICES ASSUME NEW u
             PROVE  IsFiniteSet(Owed(u)) /\ Cardinality(Owed(u)) \in Nat
  OBVIOUS
<1>1. Owed(u) \in SUBSET Request /\ IsFiniteSet(Request)
  BY ProposalsAssumption DEF Owed
<1>2. IsFiniteSet(Owed(u)) BY <1>1, FS_Subset
<1> QED BY <1>2, FS_CardinalityType

LEMMA VotesRewardedOnceDef ==
  VotesRewardedOnce <=>
    \A u \in User : voteAwards[u] + Cardinality(Owed(u)) <= Cardinality(VotedBy(u))
  BY DEF VotesRewardedOnce, Owed, VotedBy

LEMMA VotesRewardedOnceDefPrime ==
  VotesRewardedOnce' <=>
    \A u \in User : voteAwards'[u] + Cardinality(Owed(u)') <= Cardinality(VotedBy(u)')
  BY DEF VotesRewardedOnce, Owed, VotedBy

\* A user can have won no more rounds than there are.
LEMMA WonFinite ==
  ASSUME rounds \in Seq(Round), NEW u
  PROVE  /\ IsFiniteSet(Won(u))
         /\ Cardinality(Won(u)) \in 0 .. Len(rounds)
<1>1. Len(rounds) \in Nat /\ DOMAIN rounds = 1 .. Len(rounds)
  OBVIOUS
<1>2. IsFiniteSet(1 .. Len(rounds)) /\ Cardinality(1 .. Len(rounds)) = Len(rounds)
  <2>1. IsFiniteSet(1 .. Len(rounds))
        /\ Cardinality(1 .. Len(rounds)) = IF 1 > Len(rounds) THEN 0 ELSE Len(rounds) - 1 + 1
    BY <1>1, FS_Interval
  <2> QED BY <1>1, <2>1
<1>3. Won(u) \in SUBSET (1 .. Len(rounds)) BY <1>1 DEF Won
<1>4. IsFiniteSet(Won(u)) /\ Cardinality(Won(u)) <= Len(rounds)
  BY <1>2, <1>3, FS_Subset
<1> QED BY <1>1, <1>4, FS_CardinalityType

-----------------------------------------------------------------------------
(* The initial state.                                                      *)

LEMMA InitInv == Init => IInv
<1> SUFFICES ASSUME Init PROVE IInv OBVIOUS
<1>1. /\ rounds \in Seq(Round) /\ Len(rounds) = 1
      /\ rounds[1] = NewRound /\ DOMAIN rounds = {1}
  BY DEF Init, NewRound, Round
<1>2. TypeOK
  <2>1. proposals \in [Proposal -> [round : 0 .. MaxRounds, deleted : BOOLEAN]]
    BY Constants DEF Init
  <2>2. votes \in [Proposal -> [User -> VoteType \cup {"none"}]]
    BY DEF Init
  <2>3. /\ voteAwards \in [User -> 0 .. Cardinality(Proposal)]
        /\ winnerAwards \in [User -> 0 .. MaxRounds]
        /\ failures \in 0 .. MaxFailures
    BY Constants DEF Init
  <2>4. \A r \in Request : request[r] = Idle BY DEF Init
  <2>5. selected \subseteq DOMAIN rounds /\ edited \cup overlapped \subseteq Proposal
    BY DEF Init
  <2> QED BY <1>1, <2>1, <2>2, <2>3, <2>4, <2>5, Constants DEF TypeOK
<1>3. RoundsSound
  BY <1>1 DEF RoundsSound, Init, NewRound
<1>4. RequestsSound
  BY DEF RequestsSound, Init, Idle
<1>5. WinnersRewardedOnce
  <2>1. \A u : Won(u) = {} BY <1>1 DEF Won, NewRound
  <2> QED BY <2>1, FS_EmptySet DEF WinnersRewardedOnce, Init
<1>6. VotesRewardedOnce
  <2>1. \A u \in User : Owed(u) = {} BY DEF Owed, Init, Idle
  <2>2. \A u \in User : voteAwards[u] = 0 BY DEF Init
  <2>3. \A u \in User : Cardinality(Owed(u)) = 0 BY <2>1, FS_EmptySet
  <2>4. \A u \in User : voteAwards[u] + Cardinality(Owed(u)) <= Cardinality(VotedBy(u))
    BY <2>2, <2>3, VotedByFinite, Constants
  <2> QED BY <2>4, VotesRewardedOnceDef
<1> QED BY <1>2, <1>3, <1>4, <1>5, <1>6 DEF IInv

-----------------------------------------------------------------------------
(* The requests.                                                           *)

RequestAction ==
  \/ \E r \in Request, p \in Proposal :
       \/ BeginCreate(r, p) \/ BeginUpdate(r, p) \/ BeginDelete(r, p)
       \/ \E u \in User, type \in VoteInput : BeginVote(r, u, p, type)
  \/ \E r \in Request : Continue(r) \/ RequestFails(r)

\* What a request may be after a step: idle, or sound.
SoundRequest(req) ==
  \/ req = Idle
  \/ /\ req.pc \in Steps /\ req.user \in User /\ req.proposal \in Proposal
     /\ req.pc = "insert" => req.round \in DOMAIN rounds
     /\ req.pc \in {"lookup", "vote"} => req.type \in VoteType
     /\ req.pc = "vote" /\ req.existing # "none" => votes[req.proposal][req.user] # "none"

LEMMA RequestIsSound ==
  ASSUME TypeOK, RequestsSound, NEW r \in Request
  PROVE  SoundRequest(request[r])
  BY DEF TypeOK, RequestsSound, SoundRequest

\* No request touches the rounds.
LEMMA RequestsKeepRounds ==
  ASSUME RequestAction
  PROVE  UNCHANGED <<rounds, winnerAwards, selected>>
  BY DEF RequestAction, BeginCreate, BeginUpdate, BeginDelete, BeginVote, Continue,
         RequestFails, Insert, LookUpVote, ChangeVote, InsertVote, AwardVote, Change,
         Delete, tables, history

\* A step of one request: where it goes is sound, and no vote disappears.
LEMMA RequestsStaySound ==
  ASSUME TypeOK, RequestsSound, NEW r \in Request, NEW to, Goto(r, to),
         SoundRequest(to)', UNCHANGED rounds,
         \A p \in Proposal, u \in User : votes[p][u] # "none" => votes'[p][u] # "none"
  PROVE  /\ RequestsSound'
         /\ \A q \in Request :
              \/ request'[q] = Idle
              \/ /\ request'[q].pc \in Steps
                 /\ request'[q].user \in User /\ request'[q].proposal \in Proposal
<1>1. /\ request' = [q \in Request |-> request'[q]]
      /\ request'[r] = to
      /\ \A q \in Request : q # r => request'[q] = request[q]
  BY DEF Goto, RequestsSound
<1>2. \A q \in Request : SoundRequest(request[q])
  BY RequestIsSound
<1>3. \A q \in Request : q # r => SoundRequest(request[q])'
  BY <1>1, <1>2 DEF SoundRequest, Steps, Idle
<1>4. SoundRequest(request[r])' BY <1>1 DEF SoundRequest
<1>5. \A q \in Request : SoundRequest(request[q])' BY <1>3, <1>4
<1>6. Idle.pc = "idle" BY DEF Idle
<1>7. RequestsSound'
  <2>1. ASSUME NEW q \in Request
        PROVE  /\ request'[q].pc = "insert" => request'[q].round \in DOMAIN rounds'
               /\ request'[q].pc \in {"lookup", "vote"} => request'[q].type \in VoteType
               /\ request'[q].pc = "vote" /\ request'[q].existing # "none" =>
                    votes'[request'[q].proposal][request'[q].user] # "none"
    BY <1>5, <1>6 DEF SoundRequest
  <2> QED BY <1>1, <2>1 DEF RequestsSound
<1> QED BY <1>5, <1>7 DEF SoundRequest

\* A step that neither votes nor rewards, and owes no more than before.
LEMMA OwesNoMore ==
  ASSUME TypeOK, VotesRewardedOnce, UNCHANGED voteAwards,
         \A u \in User : VotedBy(u)' = VotedBy(u) /\ Owed(u)' \subseteq Owed(u)
  PROVE  VotesRewardedOnce'
<1> SUFFICES ASSUME NEW u \in User
             PROVE  voteAwards'[u] + Cardinality(Owed(u)') <= Cardinality(VotedBy(u)')
  BY VotesRewardedOnceDefPrime
<1>1. voteAwards[u] \in Nat /\ voteAwards'[u] = voteAwards[u] BY Constants DEF TypeOK
<1>2. IsFiniteSet(Owed(u)) /\ Cardinality(Owed(u)) \in Nat BY OwedFinite
<1>3. Owed(u)' \in SUBSET Owed(u) OBVIOUS
<1>4. IsFiniteSet(Owed(u)') /\ Cardinality(Owed(u)') <= Cardinality(Owed(u))
  BY <1>2, <1>3, FS_Subset
<1>5. Cardinality(Owed(u)') \in Nat BY <1>4, FS_CardinalityType
<1>6. Cardinality(VotedBy(u)) \in Nat BY VotedByFinite, Constants
<1> QED BY <1>1, <1>2, <1>4, <1>5, <1>6, VotesRewardedOnceDef

\* The request that moves is not owed anything afterwards.
LEMMA NotOwed ==
  ASSUME RequestsSound, NEW r \in Request, NEW to, Goto(r, to), to.pc # "award"
  PROVE  \A u \in User : Owed(u)' = Owed(u) \ {r}
  BY DEF RequestsSound, Goto, Owed

LEMMA RoundsKept ==
  ASSUME IInv, UNCHANGED <<rounds, winnerAwards, selected>>
  PROVE  RoundsSound' /\ WinnersRewardedOnce'
<1>1. \A u \in User : Won(u)' = Won(u) BY DEF Won
<1>2. WinnersRewardedOnce'
  BY <1>1 DEF IInv, WinnersRewardedOnce
<1>3. RoundsSound' BY DEF IInv, RoundsSound
<1> QED BY <1>2, <1>3

\* A step that touches neither votes nor rewards.
LEMMA QuietStep ==
  ASSUME IInv, NEW r \in Request, NEW to, Goto(r, to), SoundRequest(to)', to.pc # "award",
         UNCHANGED <<rounds, winnerAwards, selected, votes, voteAwards>>,
         proposals' \in [Proposal -> [round : 0 .. MaxRounds, deleted : BOOLEAN]],
         edited' \subseteq Proposal, overlapped' \subseteq Proposal,
         failures' \in 0 .. MaxFailures
  PROVE  IInv'
<1>1. RoundsSound' /\ WinnersRewardedOnce' BY RoundsKept
<1>2. /\ RequestsSound'
      /\ \A q \in Request :
           \/ request'[q] = Idle
           \/ /\ request'[q].pc \in Steps
              /\ request'[q].user \in User /\ request'[q].proposal \in Proposal
  BY RequestsStaySound DEF IInv
<1>3. \A u \in User : VotedBy(u)' = VotedBy(u) BY DEF VotedBy
<1>4. \A u \in User : Owed(u)' \subseteq Owed(u) BY NotOwed DEF IInv
<1>5. VotesRewardedOnce' BY <1>3, <1>4, OwesNoMore DEF IInv
<1>6. TypeOK' BY <1>2 DEF IInv, TypeOK
<1> QED BY <1>1, <1>2, <1>5, <1>6 DEF IInv

LEMMA IdleSound == SoundRequest(Idle)' /\ Idle.pc = "idle"
  BY DEF SoundRequest, Idle

LEMMA FromIdle ==
  ASSUME IInv, NEW r \in Request, NEW p \in Proposal,
         \/ BeginCreate(r, p) \/ BeginUpdate(r, p) \/ BeginDelete(r, p)
         \/ \E u \in User, type \in VoteInput : BeginVote(r, u, p, type)
  PROVE  IInv'
<1>1. Author[p] \in User BY ProposalsAssumption
<1>2. /\ proposals \in [Proposal -> [round : 0 .. MaxRounds, deleted : BOOLEAN]]
      /\ edited \subseteq Proposal /\ overlapped \subseteq Proposal
      /\ failures \in 0 .. MaxFailures
  BY DEF IInv, TypeOK
<1>3. CASE BeginCreate(r, p)
  <2>1. PICK i \in DOMAIN rounds :
          Goto(r, [pc |-> "insert", user |-> Author[p], proposal |-> p, round |-> i])
    BY <1>3 DEF BeginCreate
  <2>2. UNCHANGED <<rounds, winnerAwards, selected, votes, voteAwards, proposals, edited,
                    overlapped, failures>>
    BY <1>3 DEF BeginCreate, tables, history
  <2> DEFINE to == [pc |-> "insert", user |-> Author[p], proposal |-> p, round |-> i]
  <2>3. SoundRequest(to)' /\ to.pc # "award" BY <1>1, <2>2 DEF SoundRequest, Steps
  <2> HIDE DEF to
  <2>4. Goto(r, to) BY <2>1 DEF to
  <2> QED BY <1>2, <2>2, <2>3, <2>4, QuietStep
<1>4. CASE BeginUpdate(r, p)
  <2> DEFINE to == [pc |-> "change", user |-> Author[p], proposal |-> p]
  <2>1. SoundRequest(to)' /\ to.pc # "award" BY <1>1 DEF SoundRequest, Steps
  <2>2. Goto(r, to) BY <1>4 DEF BeginUpdate
  <2>3. UNCHANGED <<rounds, winnerAwards, selected, votes, voteAwards, proposals, edited,
                    overlapped, failures>>
    BY <1>4 DEF BeginUpdate, tables, history
  <2> HIDE DEF to
  <2> QED BY <1>2, <2>1, <2>2, <2>3, QuietStep
<1>5. CASE BeginDelete(r, p)
  <2> DEFINE to == [pc |-> "delete", user |-> Author[p], proposal |-> p]
  <2>1. SoundRequest(to)' /\ to.pc # "award" BY <1>1 DEF SoundRequest, Steps
  <2>2. Goto(r, to) BY <1>5 DEF BeginDelete
  <2>3. UNCHANGED <<rounds, winnerAwards, selected, votes, voteAwards, proposals, edited,
                    overlapped, failures>>
    BY <1>5 DEF BeginDelete, tables, history
  <2> HIDE DEF to
  <2> QED BY <1>2, <2>1, <2>2, <2>3, QuietStep
<1>6. CASE \E u \in User, type \in VoteInput : BeginVote(r, u, p, type)
  <2>1. PICK u \in User, type \in VoteInput : BeginVote(r, u, p, type)
    BY <1>6
  <2> DEFINE to == [pc |-> "lookup", user |-> u, proposal |-> p, type |-> type]
  <2>2. type \in VoteType BY ProposalsAssumption DEF VoteType
  <2>3. SoundRequest(to)' /\ to.pc # "award" BY <2>2 DEF SoundRequest, Steps
  <2>4. Goto(r, to) BY <2>1 DEF BeginVote
  <2>5. UNCHANGED <<rounds, winnerAwards, selected, votes, voteAwards, proposals, edited,
                    overlapped, failures>>
    BY <2>1 DEF BeginVote, tables, history
  <2> HIDE DEF to
  <2> QED BY <1>2, <2>3, <2>4, <2>5, QuietStep
<1> QED BY <1>3, <1>4, <1>5, <1>6

LEMMA AfterAwait ==
  ASSUME IInv, NEW r \in Request,
         Insert(r) \/ LookUpVote(r) \/ Change(r) \/ Delete(r) \/ RequestFails(r)
  PROVE  IInv'
<1>1. SoundRequest(request[r]) BY RequestIsSound DEF IInv
<1>2. /\ proposals \in [Proposal -> [round : 0 .. MaxRounds, deleted : BOOLEAN]]
      /\ votes \in [Proposal -> [User -> VoteType \cup {"none"}]]
      /\ edited \subseteq Proposal /\ overlapped \subseteq Proposal
      /\ failures \in 0 .. MaxFailures
      /\ Len(rounds) \in 1 .. MaxRounds /\ DOMAIN rounds = 1 .. Len(rounds)
  BY DEF IInv, TypeOK
<1>3. request[r].pc # "idle" => request[r].proposal \in Proposal /\ request[r].user \in User
  BY <1>1 DEF SoundRequest, Idle
<1>4. CASE Insert(r)
  <2>1. request[r].round \in 0 .. MaxRounds
    BY <1>1, <1>2, <1>4, Constants DEF Insert, SoundRequest, Idle
  <2>2. proposals' \in [Proposal -> [round : 0 .. MaxRounds, deleted : BOOLEAN]]
    BY <1>2, <1>4, <2>1 DEF Insert
  <2>3. UNCHANGED <<rounds, winnerAwards, selected, votes, voteAwards, edited, overlapped,
                    failures>> /\ Goto(r, Idle)
    BY <1>4 DEF Insert, history
  <2> QED BY <1>2, <2>2, <2>3, IdleSound, QuietStep
<1>5. CASE LookUpVote(r)
  <2> DEFINE p == request[r].proposal
             u == request[r].user
  <2>0. PICK to : to = [pc |-> "vote", user |-> u, proposal |-> p, type |-> request[r].type,
                        existing |-> votes[p][u]]
    OBVIOUS
  <2>1. UNCHANGED <<rounds, winnerAwards, selected, votes, voteAwards, proposals, edited,
                    overlapped, failures>> /\ Goto(r, to) /\ request[r].pc = "lookup"
    BY <1>5, <2>0 DEF LookUpVote, tables, history
  <2>2. /\ to.pc = "vote" /\ to.user = u /\ to.proposal = p /\ to.existing = votes[p][u]
        /\ to.type = request[r].type
    BY <2>0
  <2>3. p \in Proposal /\ u \in User /\ request[r].type \in VoteType
    BY <1>1, <2>1 DEF SoundRequest, Idle
  <2> HIDE DEF p, u
  <2>4. SoundRequest(to)' BY <2>1, <2>2, <2>3 DEF SoundRequest, Steps
  <2> QED BY <1>2, <2>1, <2>2, <2>4, QuietStep
<1>6. CASE Change(r)
  <2>1. proposals' \in [Proposal -> [round : 0 .. MaxRounds, deleted : BOOLEAN]]
    BY <1>2, <1>6 DEF Change
  <2>2. UNCHANGED <<rounds, winnerAwards, selected, votes, voteAwards, overlapped,
                    failures>> /\ Goto(r, Idle)
    BY <1>6 DEF Change
  <2>3. edited' \subseteq Proposal
    BY <1>2, <1>3, <1>6 DEF Change
  <2> QED BY <1>2, <2>1, <2>2, <2>3, IdleSound, QuietStep
<1>7. CASE Delete(r)
  <2>1. proposals' \in [Proposal -> [round : 0 .. MaxRounds, deleted : BOOLEAN]]
    BY <1>2, <1>7 DEF Delete
  <2>2. UNCHANGED <<rounds, winnerAwards, selected, votes, voteAwards, edited, overlapped,
                    failures>> /\ Goto(r, Idle)
    BY <1>7 DEF Delete, history
  <2> QED BY <1>2, <2>1, <2>2, IdleSound, QuietStep
<1>8. CASE RequestFails(r)
  <2>1. UNCHANGED <<rounds, winnerAwards, selected, votes, voteAwards, proposals, edited,
                    overlapped>> /\ Goto(r, Idle)
    BY <1>8 DEF RequestFails, tables, history
  <2>2. failures' \in 0 .. MaxFailures
    BY <1>2, <1>8, Constants DEF RequestFails
  <2> QED BY <1>2, <2>1, <2>2, IdleSound, QuietStep
<1> QED BY <1>4, <1>5, <1>6, <1>7, <1>8

-----------------------------------------------------------------------------
(* Votes and their rewards.                                                *)

\* Setting a vote makes one more user-proposal pair voted on, or none.
LEMMA VoteSet ==
  ASSUME TypeOK, NEW r \in Request, NEW vote \in VoteType, SetVote(r, vote),
         request[r].proposal \in Proposal, request[r].user \in User
  PROVE  /\ votes' \in [Proposal -> [User -> VoteType \cup {"none"}]]
         /\ \A p \in Proposal, u \in User : votes[p][u] # "none" => votes'[p][u] # "none"
         /\ \A u \in User : VotedBy(u)' =
              IF u = request[r].user THEN VotedBy(u) \cup {request[r].proposal} ELSE VotedBy(u)
<1>1. votes \in [Proposal -> [User -> VoteType \cup {"none"}]] BY DEF TypeOK
<1>2. vote # "none" BY DEF VoteType
<1>3. votes' \in [Proposal -> [User -> VoteType \cup {"none"}]]
  BY <1>1 DEF SetVote
<1>4. \A p \in Proposal, u \in User : votes'[p][u] =
        IF p = request[r].proposal /\ u = request[r].user THEN vote ELSE votes[p][u]
  BY <1>1 DEF SetVote
<1>5. \A u \in User : VotedBy(u)' =
        IF u = request[r].user THEN VotedBy(u) \cup {request[r].proposal} ELSE VotedBy(u)
  BY <1>2, <1>4 DEF VotedBy
<1> QED BY <1>2, <1>3, <1>4, <1>5

LEMMA ChangeVoteKeeps ==
  ASSUME IInv, NEW r \in Request, ChangeVote(r)
  PROVE  IInv'
<1> DEFINE p == request[r].proposal
           u == request[r].user
<1>0. PICK vote : vote = IF request[r].existing = request[r].type THEN "neutral"
                         ELSE request[r].type
  OBVIOUS
<1>1. request[r].pc = "vote" /\ request[r].existing # "none" BY DEF ChangeVote
<1>2. /\ p \in Proposal /\ u \in User /\ request[r].type \in VoteType
      /\ votes[p][u] # "none"
  BY <1>1, RequestIsSound DEF IInv, SoundRequest, Idle
<1>3. vote \in VoteType BY <1>0, <1>2 DEF VoteType
<1>4. SetVote(r, vote) /\ Goto(r, Idle)
      /\ UNCHANGED <<rounds, proposals, voteAwards, winnerAwards, selected, edited,
                     overlapped, failures>>
  BY <1>0 DEF ChangeVote, history
<1>5. /\ votes' \in [Proposal -> [User -> VoteType \cup {"none"}]]
      /\ \A q \in Proposal, v \in User : votes[q][v] # "none" => votes'[q][v] # "none"
      /\ \A v \in User : VotedBy(v)' = IF v = u THEN VotedBy(v) \cup {p} ELSE VotedBy(v)
  BY <1>2, <1>3, <1>4, VoteSet DEF IInv
<1>6. \A v \in User : VotedBy(v)' = VotedBy(v)
  <2>1. p \in VotedBy(u) BY <1>2 DEF VotedBy
  <2> QED BY <1>5, <2>1
<1>7. RequestsSound'
      /\ \A q \in Request :
           \/ request'[q] = Idle
           \/ /\ request'[q].pc \in Steps
              /\ request'[q].user \in User /\ request'[q].proposal \in Proposal
  BY <1>4, <1>5, IdleSound, RequestsStaySound DEF IInv
<1>8. \A v \in User : Owed(v)' \subseteq Owed(v)
  BY <1>4, IdleSound, NotOwed DEF IInv
<1>9. VotesRewardedOnce' BY <1>4, <1>6, <1>8, OwesNoMore DEF IInv
<1>10. TypeOK' BY <1>4, <1>5, <1>7 DEF IInv, TypeOK
<1> QED BY <1>4, <1>7, <1>9, <1>10, RoundsKept DEF IInv

LEMMA InsertVoteKeeps ==
  ASSUME IInv, NEW r \in Request, InsertVote(r)
  PROVE  IInv'
<1>1. PICK p, u, type :
        /\ p = request[r].proposal /\ u = request[r].user /\ type = request[r].type
        /\ p \in Proposal /\ u \in User /\ type \in VoteType
  BY RequestIsSound DEF IInv, InsertVote, SoundRequest, Idle
<1>2. /\ UNCHANGED <<rounds, proposals, voteAwards, winnerAwards, selected, edited, failures>>
      /\ request[r].pc = "vote"
  BY DEF InsertVote
<1>3. /\ proposals \in [Proposal -> [round : 0 .. MaxRounds, deleted : BOOLEAN]]
      /\ edited \subseteq Proposal /\ overlapped \subseteq Proposal
      /\ failures \in 0 .. MaxFailures
  BY DEF IInv, TypeOK
<1>4. CASE votes[p][u] # "none"
  <2>1. Goto(r, Idle) /\ UNCHANGED <<votes, overlapped>>
    BY <1>1, <1>4 DEF InsertVote
  <2> QED BY <1>2, <1>3, <2>1, IdleSound, QuietStep
<1>5. CASE votes[p][u] = "none"
  <2>1. PICK to : to = [pc |-> "award", user |-> u, proposal |-> p]
    OBVIOUS
  <2>2. to.pc = "award" /\ to.user = u /\ to.proposal = p BY <2>1
  <2>3. /\ SetVote(r, type) /\ Goto(r, to)
        /\ overlapped' = overlapped \cup {q \in {p} : Overlaps(q)}
    BY <1>1, <1>5, <2>1 DEF InsertVote
  <2>4. SoundRequest(to)' BY <1>1, <2>2 DEF SoundRequest, Steps
  <2>5. /\ votes' \in [Proposal -> [User -> VoteType \cup {"none"}]]
        /\ \A q \in Proposal, v \in User : votes[q][v] # "none" => votes'[q][v] # "none"
        /\ \A v \in User : VotedBy(v)' = IF v = u THEN VotedBy(v) \cup {p} ELSE VotedBy(v)
    BY <1>1, <2>3, VoteSet DEF IInv
  <2>6. RequestsSound'
        /\ \A q \in Request :
             \/ request'[q] = Idle
             \/ /\ request'[q].pc \in Steps
                /\ request'[q].user \in User /\ request'[q].proposal \in Proposal
    BY <1>2, <2>3, <2>4, <2>5, RequestsStaySound DEF IInv
  <2>7. overlapped' \subseteq Proposal BY <1>1, <1>3, <2>3
  <2>8. TypeOK' BY <1>2, <2>5, <2>6, <2>7 DEF IInv, TypeOK
  <2>9. \A v \in User : r \notin Owed(v)
          /\ Owed(v)' = IF v = u THEN Owed(v) \cup {r} ELSE Owed(v)
    <3>1. \A q \in Request : request'[q] = IF q = r THEN to ELSE request[q]
      BY <2>3 DEF IInv, RequestsSound, Goto
    <3> QED BY <1>2, <2>2, <3>1 DEF Owed
  <2>10. VotesRewardedOnce'
    <3> SUFFICES ASSUME NEW v \in User
                 PROVE  voteAwards'[v] + Cardinality(Owed(v)') <= Cardinality(VotedBy(v)')
      BY VotesRewardedOnceDefPrime
    <3>1. /\ voteAwards'[v] = voteAwards[v] /\ voteAwards[v] \in Nat
          /\ voteAwards[v] + Cardinality(Owed(v)) <= Cardinality(VotedBy(v))
      BY <1>2, VotesRewardedOnceDef, Constants DEF IInv, TypeOK
    <3>2. CASE v # u
      BY <2>5, <2>9, <3>1, <3>2
    <3>3. CASE v = u
      <4>1. Cardinality(Owed(v)') = Cardinality(Owed(v)) + 1
        BY <2>9, <3>3, OwedFinite, FS_AddElement
      <4>2. p \notin VotedBy(v) BY <1>5, <3>3 DEF VotedBy
      <4>3. Cardinality(VotedBy(v)') = Cardinality(VotedBy(v)) + 1
        BY <2>5, <3>3, <4>2, VotedByFinite, FS_AddElement
      <4>4. Cardinality(Owed(v)) \in Nat /\ Cardinality(VotedBy(v)) \in Nat
        BY OwedFinite, VotedByFinite, Constants
      <4> QED BY <3>1, <4>1, <4>3, <4>4
    <3> QED BY <3>2, <3>3
  <2> QED BY <1>2, <2>6, <2>8, <2>10, RoundsKept DEF IInv
<1> QED BY <1>4, <1>5

LEMMA AwardVoteKeeps ==
  ASSUME IInv, NEW r \in Request, AwardVote(r)
  PROVE  IInv'
<1>1. PICK u : u = request[r].user /\ u \in User
  BY RequestIsSound DEF IInv, AwardVote, SoundRequest, Idle
<1>2. /\ UNCHANGED <<rounds, proposals, votes, winnerAwards, selected, edited, overlapped,
                     failures>>
      /\ Goto(r, Idle) /\ request[r].pc = "award"
      /\ voteAwards' = [voteAwards EXCEPT ![u] = @ + 1]
  BY <1>1 DEF AwardVote, history
<1>3. \A v \in User : voteAwards[v] \in Nat BY Constants DEF IInv, TypeOK
<1>4. \A v \in User : voteAwards'[v] = IF v = u THEN voteAwards[v] + 1 ELSE voteAwards[v]
  BY <1>2 DEF IInv, TypeOK
<1>5. r \in Owed(u) BY <1>1, <1>2 DEF Owed
<1>6. \A v \in User : Owed(v)' = Owed(v) \ {r} BY <1>2, IdleSound, NotOwed DEF IInv
<1>7. \A v \in User : v # u => r \notin Owed(v) BY <1>1 DEF Owed
<1>8. \A v \in User : VotedBy(v)' = VotedBy(v) BY <1>2 DEF VotedBy
<1>9. ASSUME NEW v \in User
      PROVE  voteAwards'[v] + Cardinality(Owed(v)') <= Cardinality(VotedBy(v)')
  <2>1. voteAwards[v] + Cardinality(Owed(v)) <= Cardinality(VotedBy(v))
    BY VotesRewardedOnceDef DEF IInv
  <2>2. Cardinality(Owed(v)') = IF v = u THEN Cardinality(Owed(v)) - 1 ELSE Cardinality(Owed(v))
    BY <1>5, <1>6, <1>7, OwedFinite, FS_RemoveElement
  <2>3. Cardinality(Owed(v)) \in Nat /\ Cardinality(VotedBy(v)) \in Nat
    BY OwedFinite, VotedByFinite, Constants
  <2> QED BY <1>3, <1>4, <1>8, <2>1, <2>2, <2>3
<1>10. VotesRewardedOnce' BY <1>9, VotesRewardedOnceDefPrime
<1>11. voteAwards' \in [User -> 0 .. Cardinality(Proposal)]
  <2>1. ASSUME NEW v \in User PROVE voteAwards'[v] \in 0 .. Cardinality(Proposal)
    <3>1. IsFiniteSet(Owed(v)') /\ Cardinality(Owed(v)') \in Nat
      <4>1. Owed(v)' \in SUBSET Owed(v) BY <1>6
      <4>2. IsFiniteSet(Owed(v)') BY <4>1, OwedFinite, FS_Subset
      <4> QED BY <4>2, FS_CardinalityType
    <3>2. Cardinality(VotedBy(v)') \in 0 .. Cardinality(Proposal)
      BY <1>8, VotedByFinite
    <3>3. voteAwards'[v] \in Nat BY <1>3, <1>4
    <3> QED BY <1>9, <3>1, <3>2, <3>3, Constants
  <2>2. voteAwards' = [v \in User |-> voteAwards'[v]] BY <1>2 DEF IInv, TypeOK
  <2> QED BY <2>1, <2>2
<1>12. RequestsSound'
       /\ \A q \in Request :
            \/ request'[q] = Idle
            \/ /\ request'[q].pc \in Steps
               /\ request'[q].user \in User /\ request'[q].proposal \in Proposal
  BY <1>2, IdleSound, RequestsStaySound DEF IInv
<1>13. TypeOK' BY <1>2, <1>11, <1>12 DEF IInv, TypeOK
<1> QED BY <1>2, <1>10, <1>12, <1>13, RoundsKept DEF IInv

LEMMA RequestActionKeeps == IInv /\ RequestAction => IInv'
  BY FromIdle, AfterAwait, ChangeVoteKeeps, InsertVoteKeeps, AwardVoteKeeps
     DEF RequestAction, Continue

-----------------------------------------------------------------------------
(* The rounds.                                                             *)

RoundAction ==
  \/ EndRound
  \/ Select
  \/ \E i \in 1 .. MaxRounds : Finalize(i) \/ FinalizeFails(i)

RoundsType == rounds \in Seq(Round) /\ Len(rounds) \in 1 .. MaxRounds

\* What the worker may leave in the tables of rounds and rewards.
LEMMA RequestsKept ==
  ASSUME IInv, UNCHANGED <<proposals, votes, voteAwards, request, edited, overlapped>>,
         RoundsType', RoundsSound', DOMAIN rounds \subseteq DOMAIN rounds',
         WinnersRewardedOnce', DOMAIN winnerAwards' = User,
         winnerAwards' = [u \in User |-> winnerAwards'[u]],
         failures' \in 0 .. MaxFailures
  PROVE  IInv'
<1>1. RequestsSound'
  BY DEF IInv, RequestsSound
<1>2. VotesRewardedOnce'
  <2>1. \A u \in User : VotedBy(u)' = VotedBy(u) /\ Owed(u)' \subseteq Owed(u)
    BY DEF VotedBy, Owed
  <2> QED BY <2>1, OwesNoMore DEF IInv
<1>3. winnerAwards' \in [User -> 0 .. MaxRounds]
  <2>1. ASSUME NEW u \in User PROVE winnerAwards'[u] \in 0 .. MaxRounds
    <3>1. rounds' \in Seq(Round) /\ Len(rounds') \in 1 .. MaxRounds BY DEF RoundsType
    <3>2. Cardinality(Won(u)') \in 0 .. Len(rounds')
      <4>1. (rounds \in Seq(Round) => Cardinality(Won(u)) \in 0 .. Len(rounds))'
        BY WonFinite, PTL
      <4> QED BY <3>1, <4>1
    <3>3. winnerAwards'[u] = Cardinality(Won(u)') BY DEF WinnersRewardedOnce
    <3> QED BY <3>1, <3>2, <3>3, Constants
  <2> QED BY <2>1
<1>4. selected' \subseteq DOMAIN rounds'
  BY DEF RoundsSound, RoundsType
<1>5. TypeOK' BY <1>1, <1>3, <1>4 DEF IInv, TypeOK, RoundsType
<1> QED BY <1>1, <1>2, <1>5 DEF IInv

LEMMA Len1 ==
  ASSUME IInv
  PROVE  /\ RoundsType
         /\ DOMAIN rounds = 1 .. Len(rounds) /\ Len(rounds) \in DOMAIN rounds
         /\ \A i \in DOMAIN rounds : rounds[i] \in Round
  BY DEF IInv, TypeOK, RoundsType

\* One element of a sequence of rounds is replaced.
LEMMA ReplaceRound ==
  ASSUME NEW s \in Seq(Round), NEW i \in 1 .. Len(s), NEW e \in Round,
         NEW t, t = [s EXCEPT ![i] = e]
  PROVE  /\ t \in Seq(Round) /\ Len(t) = Len(s) /\ DOMAIN t = DOMAIN s
         /\ \A j \in DOMAIN s : t[j] = IF j = i THEN e ELSE s[j]
  OBVIOUS

LEMMA EndRoundKeeps == IInv /\ EndRound => IInv'
<1> SUFFICES ASSUME IInv, EndRound PROVE IInv' OBVIOUS
<1>1. PICK i \in DOMAIN rounds : rounds' = [rounds EXCEPT ![i].ended = TRUE]
  BY DEF EndRound
<1>2. /\ rounds' \in Seq(Round) /\ Len(rounds') = Len(rounds)
      /\ DOMAIN rounds' = DOMAIN rounds
      /\ \A j \in DOMAIN rounds :
           /\ rounds'[j].status = rounds[j].status
           /\ rounds'[j].winner = rounds[j].winner
           /\ rounds[j].ended => rounds'[j].ended
  <2>1. rounds[i] \in Round /\ rounds \in Seq(Round) /\ i \in 1 .. Len(rounds)
    BY Len1 DEF RoundsType
  <2>2. PICK e : e = [rounds[i] EXCEPT !.ended = TRUE] OBVIOUS
  <2>3. /\ e \in Round /\ e.status = rounds[i].status /\ e.winner = rounds[i].winner
        /\ e.ended
    BY <2>1, <2>2 DEF Round
  <2>4. rounds' = [rounds EXCEPT ![i] = e] BY <1>1, <2>2
  <2>5. PICK s, t : s = rounds /\ t = rounds' OBVIOUS
  <2>6. /\ t \in Seq(Round) /\ Len(t) = Len(s) /\ DOMAIN t = DOMAIN s
        /\ \A j \in DOMAIN s : t[j] = IF j = i THEN e ELSE s[j]
    BY <2>1, <2>3, <2>4, <2>5, ReplaceRound
  <2> QED BY <2>3, <2>5, <2>6
<1>3. RoundsType' BY <1>2, Len1 DEF RoundsType
<1>4. RoundsSound'
  BY <1>2, Len1 DEF IInv, RoundsSound, EndRound, RoundsType
<1>5. \A u \in User : Won(u)' = Won(u) BY <1>2 DEF Won
<1>6. WinnersRewardedOnce' BY <1>5 DEF IInv, WinnersRewardedOnce, EndRound
<1>7. /\ UNCHANGED <<proposals, votes, voteAwards, request, edited, overlapped>>
      /\ failures' \in 0 .. MaxFailures /\ DOMAIN winnerAwards' = User
      /\ winnerAwards' = [u \in User |-> winnerAwards'[u]]
  BY DEF IInv, TypeOK, EndRound, history
<1> QED BY <1>2, <1>3, <1>4, <1>6, <1>7, RequestsKept

LEMMA SelectKeeps == IInv /\ Select => IInv'
<1> SUFFICES ASSUME IInv, Select PROVE IInv' OBVIOUS
<1>1. UNCHANGED <<rounds, winnerAwards, proposals, votes, voteAwards, request, edited,
                  overlapped, failures>>
  BY DEF Select, tables, history
<1>2. RoundsSound'
  BY <1>1, Len1 DEF IInv, RoundsSound, Select
<1>3. RoundsType' BY <1>1, Len1 DEF RoundsType
<1>4. \A u \in User : Won(u)' = Won(u) BY <1>1 DEF Won
<1>5. WinnersRewardedOnce' BY <1>1, <1>4 DEF IInv, WinnersRewardedOnce
<1>6. failures' \in 0 .. MaxFailures /\ DOMAIN winnerAwards' = User
      /\ winnerAwards' = [u \in User |-> winnerAwards'[u]]
  BY <1>1 DEF IInv, TypeOK
<1> QED BY <1>1, <1>2, <1>3, <1>5, <1>6, RequestsKept

LEMMA FinalizeFailsKeeps ==
  ASSUME IInv, NEW i, FinalizeFails(i)
  PROVE  IInv'
<1>1. UNCHANGED <<rounds, winnerAwards, proposals, votes, voteAwards, request, edited,
                  overlapped>>
  BY DEF FinalizeFails, tables, history
<1>2. RoundsSound'
  BY <1>1 DEF IInv, RoundsSound, FinalizeFails
<1>3. RoundsType' BY <1>1, Len1 DEF RoundsType
<1>4. \A u \in User : Won(u)' = Won(u) BY <1>1 DEF Won
<1>5. WinnersRewardedOnce' BY <1>1, <1>4 DEF IInv, WinnersRewardedOnce
<1>6. failures' \in 0 .. MaxFailures /\ DOMAIN winnerAwards' = User
      /\ winnerAwards' = [u \in User |-> winnerAwards'[u]]
  BY <1>1, Constants DEF IInv, TypeOK, FinalizeFails
<1> QED BY <1>1, <1>2, <1>3, <1>5, <1>6, RequestsKept

\* The worker's round is the last one; its successor takes its place.
LEMMA RoundClosed ==
  ASSUME IInv, NEW i \in selected, NEW w \in Proposal \cup {None}, CloseRound(i, w)
  PROVE  /\ i = Len(rounds) /\ RoundsType' /\ Len(rounds') = i + 1
         /\ rounds[i].winner = None /\ rounds'[i].winner = w
         /\ rounds'[i].status = "FINISHED"
         /\ rounds'[i + 1] = NewRound
         /\ \A j \in 1 .. i - 1 : rounds'[j] = rounds[j]
<1>1. /\ i = Len(rounds) /\ rounds[i].ended /\ rounds[i].winner = None
      /\ Len(rounds) < MaxRounds
  BY DEF IInv, RoundsSound
<1>2. /\ rounds \in Seq(Round) /\ i \in Nat /\ i >= 1 /\ i \in DOMAIN rounds
      /\ rounds[i] \in Round
  BY <1>1, Len1, Constants DEF RoundsType
<1> DEFINE closed == [rounds EXCEPT ![i].status = "FINISHED", ![i].winner = w]
<1>3. /\ closed \in Seq(Round) /\ Len(closed) = i
      /\ closed[i].winner = w /\ closed[i].status = "FINISHED"
      /\ \A j \in 1 .. i - 1 : closed[j] = rounds[j]
  <2>1. PICK e : e = [rounds[i] EXCEPT !.status = "FINISHED", !.winner = w] OBVIOUS
  <2>2. e \in Round /\ e.status = "FINISHED" /\ e.winner = w
    BY <1>2, <2>1 DEF Round
  <2>3. closed = [rounds EXCEPT ![i] = e] BY <1>2, <2>1
  <2> HIDE DEF closed
  <2>4. PICK s, t : s = rounds /\ t = closed OBVIOUS
  <2>5. /\ t \in Seq(Round) /\ Len(t) = Len(s) /\ DOMAIN t = DOMAIN s
        /\ \A j \in DOMAIN s : t[j] = IF j = i THEN e ELSE s[j]
    BY <1>1, <1>2, <2>2, <2>3, <2>4, ReplaceRound
  <2> QED BY <1>1, <1>2, <2>2, <2>4, <2>5
<1>4. rounds' = Append(closed, NewRound) BY DEF CloseRound
<1>5. NewRound \in Round BY DEF NewRound, Round
<1> HIDE DEF closed
<1>6. /\ rounds' \in Seq(Round) /\ Len(rounds') = i + 1
      /\ rounds'[i + 1] = NewRound /\ rounds'[i] = closed[i]
      /\ \A j \in 1 .. i - 1 : rounds'[j] = closed[j]
  BY <1>2, <1>3, <1>4, <1>5
<1>7. RoundsType' BY <1>1, <1>2, <1>6, Constants DEF RoundsType
<1> QED BY <1>1, <1>3, <1>6, <1>7

LEMMA FinalizeKeeps ==
  ASSUME IInv, NEW i, Finalize(i)
  PROVE  IInv'
<1>1. i \in selected /\ selected' = selected \ {i}
      /\ UNCHANGED <<proposals, votes, voteAwards, request, edited, overlapped, failures>>
  BY DEF Finalize, history
<1>2. PICK w \in Proposal \cup {None} :
        /\ CloseRound(i, w)
        /\ \/ w = None /\ UNCHANGED winnerAwards
           \/ /\ w \in Proposal
              /\ winnerAwards' = [winnerAwards EXCEPT ![Author[w]] = @ + 1]
  BY DEF Finalize, Leaders, Candidates
<1>3. /\ i = Len(rounds) /\ RoundsType' /\ Len(rounds') = i + 1
      /\ rounds[i].winner = None /\ rounds'[i].winner = w
      /\ rounds'[i].status = "FINISHED"
      /\ rounds'[i + 1] = NewRound
      /\ \A j \in 1 .. i - 1 : rounds'[j] = rounds[j]
  BY <1>1, <1>2, RoundClosed
<1>4. /\ DOMAIN rounds = 1 .. i /\ DOMAIN rounds' = 1 .. i + 1
      /\ i \in Nat /\ i >= 1
  BY <1>3, Len1, Constants DEF RoundsType
<1>5. selected' = {} BY <1>1, <1>3 DEF IInv, RoundsSound
<1>6. RoundsSound'
  <2>1. ASSUME NEW j \in 1 .. i + 1 PROVE rounds'[j].status = "ACTIVE" <=> j = i + 1
    <3>1. CASE j = i + 1 BY <1>3, <3>1 DEF NewRound
    <3>2. CASE j = i BY <1>3, <1>4, <3>2
    <3>3. CASE j \in 1 .. i - 1
      BY <1>3, <1>4, <3>3 DEF IInv, RoundsSound
    <3> QED BY <1>4, <3>1, <3>2, <3>3
  <2>2. rounds'[i + 1].winner = None /\ ~rounds'[i + 1].ended BY <1>3 DEF NewRound
  <2> QED BY <1>3, <1>4, <1>5, <2>1, <2>2 DEF RoundsSound
<1>7. \A u \in User : Won(u)' =
        IF w # None /\ Author[w] = u THEN Won(u) \cup {i} ELSE Won(u)
  <2> SUFFICES ASSUME NEW u \in User
               PROVE  Won(u)' = IF w # None /\ Author[w] = u THEN Won(u) \cup {i} ELSE Won(u)
    OBVIOUS
  <2>1. Won(u) = {j \in 1 .. i : rounds[j].winner # None /\ Author[rounds[j].winner] = u}
    BY <1>4 DEF Won
  <2>2. Won(u)' = {j \in 1 .. i + 1 :
                     rounds'[j].winner # None /\ Author[rounds'[j].winner] = u}
    BY <1>4 DEF Won
  <2>3. rounds'[i + 1].winner = None BY <1>3 DEF NewRound
  <2> QED BY <1>3, <1>4, <2>1, <2>2, <2>3
<1>8. \A u \in User : i \notin Won(u) BY <1>3 DEF Won
<1>9. \A u \in User : winnerAwards[u] \in Nat /\ winnerAwards[u] = Cardinality(Won(u))
  BY Constants DEF IInv, TypeOK, WinnersRewardedOnce
<1>10. \A u \in User : winnerAwards'[u] =
         IF w # None /\ Author[w] = u THEN winnerAwards[u] + 1 ELSE winnerAwards[u]
  BY <1>2, ProposalsAssumption DEF IInv, TypeOK
<1>11. WinnersRewardedOnce'
  <2>1. ASSUME NEW u \in User PROVE winnerAwards'[u] = Cardinality(Won(u)')
    <3>1. IsFiniteSet(Won(u)) BY WonFinite, Len1 DEF RoundsType
    <3>2. Cardinality(Won(u) \cup {i}) = Cardinality(Won(u)) + 1
      BY <1>8, <3>1, FS_AddElement
    <3> QED BY <1>7, <1>9, <1>10, <3>2
  <2> QED BY <2>1 DEF WinnersRewardedOnce
<1>12. /\ DOMAIN winnerAwards' = User /\ winnerAwards' = [u \in User |-> winnerAwards'[u]]
       /\ failures' \in 0 .. MaxFailures
  BY <1>1, <1>2 DEF IInv, TypeOK
<1>13. DOMAIN rounds \subseteq DOMAIN rounds' BY <1>4
<1> QED BY <1>1, <1>3, <1>6, <1>11, <1>12, <1>13, RequestsKept

-----------------------------------------------------------------------------
(* Changes of proposals that have votes.                                   *)

\* A change under way: if its proposal has votes by now, they came meanwhile.
EditsSound ==
  /\ edited \subseteq overlapped
  /\ \A s \in Request : request[s].pc = "change" =>
       (Voted(request[s].proposal) => request[s].proposal \in overlapped)

LEMMA EditsKept ==
  ASSUME EditsSound, UNCHANGED <<votes, edited, overlapped>>,
         \A s \in Request : request'[s].pc = "change" => request'[s] = request[s]
  PROVE  EditsSound'
  BY DEF EditsSound, Voted

\* Only BeginUpdate puts a request into "change".
LEMMA NoNewChange ==
  ASSUME RequestsSound, NEW r \in Request, NEW to, Goto(r, to), to.pc # "change"
  PROVE  \A s \in Request : request'[s].pc = "change" => request'[s] = request[s]
  BY DEF RequestsSound, Goto

LEMMA EditsStep ==
  ASSUME IInv, EditsSound, Next
  PROVE  EditsSound'
<1>0. Idle.pc # "change" BY DEF Idle
<1>1. CASE RoundAction
  <2>1. UNCHANGED <<votes, edited, overlapped, request>>
    BY <1>1 DEF RoundAction, EndRound, Select, Finalize, FinalizeFails, tables, history
  <2> QED BY <2>1, EditsKept
<1>2. ASSUME NEW r \in Request, NEW p \in Proposal, BeginUpdate(r, p) PROVE EditsSound'
  <2>1. /\ \A s \in Request : request'[s] =
             IF s = r THEN [pc |-> "change", user |-> Author[p], proposal |-> p]
             ELSE request[s]
        /\ ~Voted(p) /\ UNCHANGED <<votes, edited, overlapped>>
    BY <1>2 DEF BeginUpdate, Goto, IInv, RequestsSound, tables, history
  <2> QED BY <2>1 DEF EditsSound, Voted
<1>3. ASSUME NEW r \in Request, NEW p \in Proposal,
             BeginCreate(r, p) \/ BeginDelete(r, p)
               \/ \E u \in User, type \in VoteInput : BeginVote(r, u, p, type)
      PROVE  EditsSound'
  <2>1. \E to : Goto(r, to) /\ to.pc # "change"
    <3>1. CASE BeginCreate(r, p)
      <4>1. PICK i : Goto(r, [pc |-> "insert", user |-> Author[p], proposal |-> p, round |-> i])
        BY <3>1 DEF BeginCreate
      <4> QED BY <4>1
    <3>2. CASE BeginDelete(r, p)
      <4>1. Goto(r, [pc |-> "delete", user |-> Author[p], proposal |-> p])
        BY <3>2 DEF BeginDelete
      <4> QED BY <4>1
    <3>3. ASSUME NEW u \in User, NEW type \in VoteInput, BeginVote(r, u, p, type)
          PROVE  \E to : Goto(r, to) /\ to.pc # "change"
      <4>1. Goto(r, [pc |-> "lookup", user |-> u, proposal |-> p, type |-> type])
        BY <3>3 DEF BeginVote
      <4> QED BY <4>1
    <3> QED BY <1>3, <3>1, <3>2, <3>3
  <2>2. UNCHANGED <<votes, edited, overlapped>>
    BY <1>3 DEF BeginCreate, BeginDelete, BeginVote, tables, history
  <2> QED BY <2>1, <2>2, NoNewChange, EditsKept DEF IInv
<1>4. ASSUME NEW r \in Request,
             Insert(r) \/ LookUpVote(r) \/ AwardVote(r) \/ Delete(r) \/ RequestFails(r)
      PROVE  EditsSound'
  <2>1. PICK to : Goto(r, to) /\ to.pc # "change"
    BY <1>0, <1>4 DEF Insert, LookUpVote, AwardVote, Delete, RequestFails
  <2>2. UNCHANGED <<votes, edited, overlapped>>
    BY <1>4 DEF Insert, LookUpVote, AwardVote, Delete, RequestFails, tables, history
  <2> QED BY <2>1, <2>2, NoNewChange, EditsKept DEF IInv
<1>5. ASSUME NEW r \in Request, Change(r) PROVE EditsSound'
  <2>1. /\ Goto(r, Idle) /\ request[r].pc = "change" /\ UNCHANGED <<votes, overlapped>>
        /\ edited' = edited \cup {p \in {request[r].proposal} : Voted(p)}
    BY <1>5 DEF Change
  <2>2. edited' \subseteq overlapped' BY <2>1 DEF EditsSound
  <2>3. \A s \in Request : request'[s].pc = "change" => request'[s] = request[s]
    BY <1>0, <2>1, NoNewChange DEF IInv
  <2> QED BY <2>1, <2>2, <2>3 DEF EditsSound, Voted
<1>6. ASSUME NEW r \in Request, ChangeVote(r) PROVE EditsSound'
  <2>1. PICK p, u, vote :
          /\ p = request[r].proposal /\ u = request[r].user
          /\ SetVote(r, vote) /\ votes[p][u] # "none" /\ u \in User
    BY <1>6, RequestIsSound DEF IInv, ChangeVote, SoundRequest, Idle
  <2>2. Goto(r, Idle) /\ UNCHANGED <<edited, overlapped>> BY <1>6 DEF ChangeVote, history
  <2>3. \A s \in Request : request'[s].pc = "change" => request'[s] = request[s]
    BY <1>0, <2>2, NoNewChange DEF IInv
  <2>4. \A q : q # p => votes'[q] = votes[q]
    BY <2>1 DEF SetVote, IInv, TypeOK
  <2>5. \A q : Voted(q)' => Voted(q) BY <2>1, <2>4 DEF Voted
  <2> QED BY <2>2, <2>3, <2>5 DEF EditsSound
<1>7. ASSUME NEW r \in Request, InsertVote(r) PROVE EditsSound'
  <2>1. PICK to : Goto(r, to) /\ to.pc # "change"
    BY <1>0, <1>7 DEF InsertVote
  <2>2. \A s \in Request : request'[s].pc = "change" => request'[s] = request[s]
    BY <2>1, NoNewChange DEF IInv
  <2>3. CASE UNCHANGED <<votes, overlapped>>
    BY <1>7, <2>2, <2>3, EditsKept DEF InsertVote
  <2>4. CASE /\ SetVote(r, request[r].type)
             /\ overlapped' = overlapped \cup {q \in {request[r].proposal} : Overlaps(q)}
    <3>1. UNCHANGED edited BY <1>7 DEF InsertVote
    <3>2. \A q : q # request[r].proposal => votes'[q] = votes[q]
      BY <2>4 DEF SetVote, IInv, TypeOK
    <3>3. \A q : q # request[r].proposal /\ Voted(q)' => Voted(q)
      BY <3>2 DEF Voted
    <3>4. \A s \in Request : request[s].pc = "change" /\ request[s].proposal = request[r].proposal
            => request[r].proposal \in overlapped'
      BY <2>4 DEF Overlaps
    <3> QED BY <2>2, <2>4, <3>1, <3>3, <3>4 DEF EditsSound
  <2> QED BY <1>7, <2>3, <2>4 DEF InsertVote
<1> QED
  BY <1>1, <1>2, <1>3, <1>4, <1>5, <1>6, <1>7 DEF Next, Continue, RoundAction

LEMMA EditsInit == Init => EditsSound
  BY DEF Init, EditsSound, Idle

-----------------------------------------------------------------------------
(* The theorems.                                                           *)

LEMMA StepInv == IInv /\ [Next]_vars => IInv'
<1>1. CASE UNCHANGED vars
  BY <1>1 DEF vars, IInv, TypeOK, RoundsSound, RequestsSound, WinnersRewardedOnce,
     VotesRewardedOnce, Won
<1>2. ASSUME IInv, Next PROVE IInv'
  <2>1. RequestAction \/ RoundAction BY <1>2 DEF Next, RequestAction, RoundAction
  <2>2. IInv /\ RoundAction => IInv'
    BY EndRoundKeeps, SelectKeeps, FinalizeKeeps, FinalizeFailsKeeps DEF RoundAction
  <2> QED BY <1>2, <2>1, <2>2, RequestActionKeeps
<1> QED BY <1>1, <1>2

LEMMA Invariance == Spec => []IInv
  BY InitInv, StepInv, PTL DEF Spec

\* Rounds, proposals, votes, rewards and requests keep their types; the rewards
\* for votes never exceed the number of proposals.
THEOREM TypeCorrect == Spec => []TypeOK
<1>1. IInv => TypeOK BY DEF IInv
<1> QED BY Invariance, <1>1, PTL

\* There is always one ACTIVE round, the last one, although the transaction that
\* ends a round and opens the next may fail at any attempt.
THEOREM OneRoundAtATime == Spec => []OneActiveRound
<1>1. IInv => OneActiveRound
  <2> SUFFICES ASSUME IInv PROVE OneActiveRound OBVIOUS
  <2>1. {i \in DOMAIN rounds : rounds[i].status = "ACTIVE"} = {Len(rounds)}
    BY Len1 DEF IInv, RoundsSound
  <2> QED BY <2>1, FS_Singleton DEF OneActiveRound
<1> QED BY Invariance, <1>1, PTL

\* The rewards for winning proposals are as many as the won rounds of each
\* author, whatever attempts of the worker fail, and no user is rewarded for
\* more votes than there are proposals they have voted on, however their
\* requests overlap.
THEOREM Rewarded == Spec => []RewardedOnce
<1>1. IInv => RewardedOnce BY DEF IInv, RewardedOnce
<1> QED BY Invariance, <1>1, PTL

\* A proposal that has votes is changed only if a vote came in while the change
\* was under way.
THEOREM VotedProposalsKept == Spec => []EditedUnvotedUnlessOverlap
<1>1. IInv /\ EditsSound /\ [Next]_vars => EditsSound'
  <2>1. CASE UNCHANGED vars BY <2>1 DEF vars, EditsSound, Voted
  <2> QED BY <2>1, EditsStep
<1>2. EditsSound => EditedUnvotedUnlessOverlap
  BY DEF EditsSound, EditedUnvotedUnlessOverlap
<1> QED BY Invariance, EditsInit, <1>1, <1>2, PTL DEF Spec

==============================================================================
