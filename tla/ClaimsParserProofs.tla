------------------------- MODULE ClaimsParserProofs -------------------------
(***************************************************************************)
(* Proofs about RewardPoints, Accounts and ClaimsParser.  The invariant    *)
(* follows the rows that requests have read into the requests: what is     *)
(* written back late is as sound as what it overwrites, its wallet is the  *)
(* same, and its verified email was mailed a token.                        *)
(***************************************************************************)
EXTENDS ClaimsParser, FiniteSetTheorems, WellFoundedInduction, TLAPS

RowSound(u, row) ==
  /\ row \in User
  /\ row.walletAddress = user[u].walletAddress
  /\ row.emailStatus = "VERIFIED" => <<u, row.email>> \in mailed

DoingSound(d) ==
  /\ d.at \in {"profile", "email", "verify"} => d.id \in Ids /\ RowSound(d.id, d.row)
  /\ d.at = "verify" => d.email \in Email /\ <<d.id, d.email>> \in mailed
  /\ d.at = "login" => d.wallet \in Wallet /\ d.referral \in UserId \cup {NoUser}

UsersSound == /\ user \in Seq(User) /\ Len(user) <= MaxUsers
              /\ \A u \in Ids : RowSound(u, user[u])

RequestsSound == /\ DOMAIN req = Request
                 /\ \A r \in Request : DoingSound(req[r])
                 /\ req = [r \in Request |-> req[r]]

AInv == UsersSound /\ RequestsSound /\ scene \in Scene

(* Unless claims of a user overlapped today, one request at most is about  *)
(* to insert the reward, and then it is the first.                         *)
DailySound(u) ==
  u \notin raced =>
    /\ reward[u]["DAILY_LOGIN"] <= 1
    /\ \A r \in Request : claiming[r] = u => reward[u]["DAILY_LOGIN"] = 0

RInv == /\ RewardTypeOK
        /\ Racing(claiming) \subseteq raced
        /\ \A u \in UserId : DailySound(u)

WinningsKept ==
  \A u \in UserId : reward'[u]["MARKET_WINNER"] = reward[u]["MARKET_WINNER"]

BlocksTyped == head \in 0 .. Blocks /\ cursor \in 0 .. Blocks

CInv == AInv /\ RInv /\ BlocksTyped /\ ClaimsPaidOnce

(* Nobody who was there before is gone or has another wallet. *)
WalletsKept ==
  \A u \in Ids : u \in Ids' /\ user'[u].walletAddress = user[u].walletAddress
-----------------------------------------------------------------------------
(* A request takes a step and leaves the rows alone. *)
LEMMA RequestMoves ==
  ASSUME AInv, UNCHANGED <<user, scene>>, mailed \subseteq mailed', NEW r \in Request,
         NEW d, req' = [req EXCEPT ![r] = d], DoingSound(d)'
  PROVE  AInv' /\ WalletsKept
<1>1. UsersSound' BY DEF AInv, UsersSound, RowSound, Ids
<1>2. ASSUME NEW q \in Request, DoingSound(req[q]) PROVE DoingSound(req[q])'
  <2>1. CASE q = r BY <2>1 DEF AInv, RequestsSound
  <2>2. CASE q # r
    <3>1. req'[q] = req[q] BY <2>2 DEF AInv, RequestsSound
    <3> QED BY <1>2, <3>1 DEF DoingSound, RowSound, Ids
  <2> QED BY <2>1, <2>2
<1>3. RequestsSound' BY <1>2 DEF AInv, RequestsSound
<1> QED BY <1>1, <1>3 DEF AInv, WalletsKept, Ids

(* A request writes a row of the same wallet, soundly, and ends. *)
LEMMA RequestWrites ==
  ASSUME AInv, UNCHANGED scene, mailed \subseteq mailed', NEW r \in Request,
         req' = [req EXCEPT ![r] = Idle], NEW u \in Ids, NEW row \in User,
         user' = [user EXCEPT ![u] = row],
         row.walletAddress = user[u].walletAddress,
         row.emailStatus = "VERIFIED" => <<u, row.email>> \in mailed'
  PROVE  AInv' /\ WalletsKept
<1>1. /\ user' \in Seq(User) /\ Len(user') = Len(user) /\ Ids' = Ids
      /\ \A v \in Ids : user'[v] = IF v = u THEN row ELSE user[v]
  BY DEF AInv, UsersSound, Ids
<1>2. WalletsKept BY <1>1 DEF WalletsKept
<1>3. UsersSound'
  <2>1. ASSUME NEW v \in Ids PROVE RowSound(v, user[v])'
    BY <1>1 DEF RowSound, AInv, UsersSound
  <2> QED BY <1>1, <2>1 DEF AInv, UsersSound
<1>4. DoingSound(Idle)' BY DEF DoingSound, Idle
<1>5. ASSUME NEW q \in Request PROVE DoingSound(req[q])'
  <2>1. CASE q = r BY <1>4, <2>1 DEF AInv, RequestsSound
  <2>2. CASE q # r
    <3>1. req'[q] = req[q] /\ DoingSound(req[q]) BY <2>2 DEF AInv, RequestsSound
    <3> QED BY <1>1, <1>2, <3>1 DEF DoingSound, RowSound, WalletsKept
  <2> QED BY <2>1, <2>2
<1>6. RequestsSound' BY <1>5 DEF AInv, RequestsSound
<1> QED BY <1>2, <1>3, <1>6 DEF AInv

(* A new user's row is appended. *)
LEMMA RegisterSound ==
  ASSUME AInv, NEW r \in Request, Register(r) PROVE AInv' /\ WalletsKept
<1> USE AccountsAssumption DEF AccountsAssumption
<1>1. PICK row : row = NewUser(req[r].wallet, req[r].referral) OBVIOUS
<1>2. req[r].wallet \in Wallet /\ req[r].referral \in UserId \cup {NoUser}
  BY DEF AInv, RequestsSound, DoingSound, Register
<1>3. row \in User /\ row.emailStatus = "PENDING" BY <1>1, <1>2 DEF User, NewUser
<1>4. /\ user' = Append(user, row) /\ Len(user) < MaxUsers
      /\ req' = [req EXCEPT ![r] = Idle] /\ UNCHANGED <<scene, mailed>>
  BY <1>1 DEF Register, End, Begin
<1>5. /\ user' \in Seq(User) /\ Len(user') = Len(user) + 1 /\ Len(user') <= MaxUsers
      /\ Ids' = Ids \cup {Len(user')}
      /\ \A u \in Ids : user'[u] = user[u]
      /\ user'[Len(user')] = row
  BY <1>3, <1>4 DEF AInv, UsersSound, Ids
<1>6. WalletsKept BY <1>5 DEF WalletsKept
<1>7. UsersSound'
  <2>1. ASSUME NEW u \in Ids PROVE RowSound(u, user[u])'
    BY <1>4, <1>5 DEF RowSound, AInv, UsersSound
  <2>2. RowSound(Len(user), user[Len(user)])' BY <1>3, <1>5 DEF RowSound
  <2>3. \A u \in Ids' : RowSound(u, user[u])' BY <1>5, <2>1, <2>2
  <2> QED BY <1>5, <2>3 DEF UsersSound
<1>8. DoingSound(Idle)' BY DEF DoingSound, Idle
<1>9. ASSUME NEW q \in Request PROVE DoingSound(req[q])'
  <2>1. CASE q = r BY <1>4, <1>8, <2>1 DEF AInv, RequestsSound
  <2>2. CASE q # r
    <3>1. req'[q] = req[q] /\ DoingSound(req[q])
      BY <1>4, <2>2 DEF AInv, RequestsSound
    <3>2. UNCHANGED mailed BY <1>4
    <3> QED BY <1>6, <3>1, <3>2 DEF DoingSound, RowSound, WalletsKept
  <2> QED BY <2>1, <2>2
<1>10. RequestsSound' BY <1>4, <1>9 DEF AInv, RequestsSound
<1> QED BY <1>4, <1>6, <1>7, <1>10 DEF AInv

(* A request that ends without writing a row. *)
LEMMA RequestEnds ==
  ASSUME AInv, UNCHANGED <<user, scene>>, mailed \subseteq mailed', NEW r \in Request,
         End(r)
  PROVE  AInv' /\ WalletsKept
<1>1. DoingSound(Idle)' BY DEF DoingSound, Idle
<1> QED BY <1>1, RequestMoves DEF End, Begin

(* The row a request writes back, with another name or email.              *)
LEMMA Snapshot ==
  ASSUME AInv, NEW r \in Request, req[r].at \in {"profile", "email", "verify"}
  PROVE  /\ req[r].id \in Ids /\ req[r].row \in User
         /\ req[r].row.walletAddress = user[req[r].id].walletAddress
         /\ req[r].row.emailStatus = "VERIFIED" => <<req[r].id, req[r].row.email>> \in mailed
BY DEF AInv, RequestsSound, DoingSound, RowSound

LEMMA Renamed ==
  ASSUME NEW row \in User, NEW name \in Name
  PROVE  LET new == [row EXCEPT !.username = name]
         IN  /\ new \in User /\ new.walletAddress = row.walletAddress
             /\ new.emailStatus = row.emailStatus /\ new.email = row.email
BY DEF User

LEMMA EmailChanged ==
  ASSUME NEW row \in User, NEW email \in Email
  PROVE  /\ Changed(row, email) \in User
         /\ Changed(row, email).walletAddress = row.walletAddress
         /\ Changed(row, email).emailStatus = "PENDING"
BY DEF User, Changed

LEMMA EmailVerified ==
  ASSUME NEW row \in User, NEW email \in Email
  PROVE  LET new == [row EXCEPT !.email = email, !.emailStatus = "VERIFIED"]
         IN  new \in User /\ new.walletAddress = row.walletAddress /\ new.email = email
BY DEF User

(* A handler writes back the row it was given, or nothing, and ends.       *)
LEMMA WritesBack ==
  ASSUME AInv, NEW r \in Request, req[r].at \in {"profile", "email", "verify"},
         UNCHANGED scene, mailed \subseteq mailed', End(r), NEW row \in User,
         row.walletAddress = req[r].row.walletAddress,
         row.emailStatus = "VERIFIED" => <<req[r].id, row.email>> \in mailed,
         user' = user \/ user' = Written(req[r].id, row)
  PROVE  AInv' /\ WalletsKept
<1>1. CASE user' = user BY <1>1, RequestEnds
<1>2. CASE user' = Written(req[r].id, row)
  BY <1>2, Snapshot, RequestWrites DEF Written, End, Begin
<1> QED BY <1>1, <1>2

LEMMA RenameSound ==
  ASSUME AInv, NEW r \in Request, NEW name \in Name, Rename(r, name)
  PROVE  AInv' /\ WalletsKept
<1>1. PICK named : named = [req[r].row EXCEPT !.username = name] OBVIOUS
<1>2. /\ named \in User /\ named.walletAddress = req[r].row.walletAddress
      /\ named.emailStatus = "VERIFIED" => <<req[r].id, named.email>> \in mailed
  BY <1>1, Renamed, Snapshot DEF Rename
<1>3. /\ req[r].at = "profile" /\ End(r) /\ UNCHANGED <<mailed, scene>>
      /\ user' = user \/ user' = Written(req[r].id, named)
  BY <1>1 DEF Rename, End, Begin
<1> QED BY <1>2, <1>3, WritesBack

LEMMA UpdateProfileSound ==
  ASSUME AInv, NEW r \in Request, NEW name \in Name, NEW email \in Email,
         UpdateProfile(r, name, email)
  PROVE  AInv' /\ WalletsKept
<1>1. PICK named : named = [req[r].row EXCEPT !.username = name] OBVIOUS
<1>2. PICK row : row = Changed(named, email) OBVIOUS
<1>3. named \in User /\ named.walletAddress = req[r].row.walletAddress
  BY <1>1, Renamed, Snapshot DEF UpdateProfile
<1>4. /\ row \in User /\ row.walletAddress = named.walletAddress
      /\ row.emailStatus = "PENDING"
  BY <1>2, <1>3, EmailChanged
<1>5. /\ req[r].at = "profile" /\ End(r) /\ mailed \subseteq mailed' /\ UNCHANGED scene
      /\ user' = user \/ user' = Written(req[r].id, row)
  BY <1>1, <1>2 DEF UpdateProfile, End, Begin
<1> QED BY <1>3, <1>4, <1>5, WritesBack

LEMMA UpdateEmailSound ==
  ASSUME AInv, NEW r \in Request, NEW email \in Email, UpdateEmail(r, email)
  PROVE  AInv' /\ WalletsKept
<1>1. PICK row : row = Changed(req[r].row, email) OBVIOUS
<1>2. /\ row \in User /\ row.walletAddress = req[r].row.walletAddress
      /\ row.emailStatus = "PENDING"
  BY <1>1, Snapshot, EmailChanged DEF UpdateEmail
<1>3. /\ req[r].at = "email" /\ End(r) /\ mailed \subseteq mailed' /\ UNCHANGED scene
      /\ user' = user \/ user' = Written(req[r].id, row)
  BY <1>1 DEF UpdateEmail, End, Begin
<1> QED BY <1>2, <1>3, WritesBack

(* changeEmail: the token was mailed to the address that is written. *)
LEMMA VerifySound ==
  ASSUME AInv, NEW r \in Request, VerifyEmail(r) PROVE AInv' /\ WalletsKept
<1>1. PICK row : row = [req[r].row EXCEPT !.email = req[r].email,
                                          !.emailStatus = "VERIFIED"]
  OBVIOUS
<1>2. /\ req[r].id \in Ids /\ req[r].row \in User
      /\ req[r].row.walletAddress = user[req[r].id].walletAddress
  BY Snapshot DEF VerifyEmail
<1>3. req[r].email \in Email /\ <<req[r].id, req[r].email>> \in mailed
  BY DEF VerifyEmail, AInv, RequestsSound, DoingSound
<1>4. /\ row \in User /\ row.walletAddress = req[r].row.walletAddress
      /\ row.email = req[r].email
  BY <1>1, <1>2, <1>3, EmailVerified
<1>5. /\ user' = [user EXCEPT ![req[r].id] = row] /\ UNCHANGED <<scene, mailed>>
      /\ req' = [req EXCEPT ![r] = Idle]
  BY <1>1 DEF VerifyEmail, Written, End, Begin
<1> QED BY <1>2, <1>3, <1>4, <1>5, RequestWrites

(* Requests that only read, or whose mail is all that is left of them. *)
LEMMA RequestReads ==
  ASSUME AInv, NEW r \in Request,
         \/ \E w \in Wallet, u \in Ids \cup {NoUser} : FirstLogin(r, w, u)
         \/ \E u \in Ids, what \in {"profile", "email"} : Authenticate(r, u, what)
         \/ \E u \in UserId, email \in Email : OpenToken(r, u, email)
         \/ RegisterFails(r) \/ Abort(r)
         \/ \E email \in Email : SendEmailVerification(r, email)
  PROVE  AInv' /\ WalletsKept
<1> USE AccountsAssumption DEF AccountsAssumption
<1>1. Ids \subseteq UserId BY DEF AInv, UsersSound, Ids
<1>2. \A u \in Ids : RowSound(u, user[u]) BY DEF AInv, UsersSound
<1>3. CASE \E w \in Wallet, u \in Ids \cup {NoUser} : FirstLogin(r, w, u)
  <2>1. PICK w \in Wallet, u \in Ids \cup {NoUser} : FirstLogin(r, w, u) BY <1>3
  <2>2. PICK d : d = [at |-> "login", wallet |-> w, referral |-> u] OBVIOUS
  <2>3. DoingSound(d)' BY <1>1, <2>2 DEF DoingSound
  <2> QED BY <2>1, <2>2, <2>3, RequestMoves DEF FirstLogin, Begin
<1>4. CASE \E u \in Ids, what \in {"profile", "email"} : Authenticate(r, u, what)
  <2>1. PICK u \in Ids, what \in {"profile", "email"} : Authenticate(r, u, what) BY <1>4
  <2>2. PICK d : d = [at |-> what, id |-> u, row |-> user[u]] OBVIOUS
  <2>3. UNCHANGED <<user, mailed, scene>> /\ req' = [req EXCEPT ![r] = d]
    BY <2>1, <2>2 DEF Authenticate, Begin
  <2>4. DoingSound(d)' BY <1>2, <2>2, <2>3 DEF DoingSound, RowSound, Ids
  <2> QED BY <2>3, <2>4, RequestMoves
<1>5. CASE \E u \in UserId, email \in Email : OpenToken(r, u, email)
  <2>1. PICK u \in UserId, email \in Email : OpenToken(r, u, email) BY <1>5
  <2>2. PICK d : d = [at |-> "verify", id |-> u, row |-> user[u], email |-> email] OBVIOUS
  <2>3. UNCHANGED <<user, mailed, scene>> /\ req' = [req EXCEPT ![r] = d]
    BY <2>1, <2>2 DEF OpenToken, Begin
  <2>4. u \in Ids /\ <<u, email>> \in mailed BY <2>1 DEF OpenToken
  <2>5. DoingSound(d)' BY <1>2, <2>2, <2>3, <2>4 DEF DoingSound, RowSound, Ids
  <2> QED BY <2>3, <2>5, RequestMoves
<1>6. CASE RegisterFails(r) \/ Abort(r)
  BY <1>6, RequestEnds DEF RegisterFails, Abort, End, Begin
<1>7. CASE \E email \in Email : SendEmailVerification(r, email)
  BY <1>7, RequestEnds DEF SendEmailVerification, End, Begin
<1> QED BY <1>3, <1>4, <1>5, <1>6, <1>7

(* Accounts keeps rows and requests sound, whoever writes late. *)
LEMMA AccountsSound ==
  ASSUME AInv, AccountsNext PROVE AInv' /\ WalletsKept
<1> USE AccountsAssumption DEF AccountsAssumption
<1>1. scene.names \subseteq Name BY DEF AInv
<1>2. CASE UNCHANGED accountVars
  BY <1>2 DEF accountVars, AInv, UsersSound, RequestsSound, DoingSound, RowSound, Ids,
              WalletsKept
<1>3. ASSUME NEW r \in Request,
             \/ \E w \in Wallet, u \in Ids \cup {NoUser} : FirstLogin(r, w, u)
             \/ Register(r) \/ RegisterFails(r)
             \/ \E u \in Ids, what \in {"profile", "email"} : Authenticate(r, u, what)
             \/ \E name \in scene.names : Rename(r, name)
             \/ \E name \in scene.names, email \in Email : UpdateProfile(r, name, email)
             \/ \E email \in Email : UpdateEmail(r, email) \/ SendEmailVerification(r, email)
             \/ \E u \in UserId, email \in Email : OpenToken(r, u, email)
             \/ VerifyEmail(r) \/ Abort(r) \/ Daily(r)
      PROVE  AInv' /\ WalletsKept
  <2>1. CASE Register(r) BY <2>1, RegisterSound
  <2>2. CASE VerifyEmail(r) BY <2>2, VerifySound
  <2>3. CASE Daily(r) BY <1>2, <2>3 DEF Daily
  <2>4. CASE \E name \in scene.names : Rename(r, name) BY <1>1, <2>4, RenameSound
  <2>5. CASE \E name \in scene.names, email \in Email : UpdateProfile(r, name, email)
    BY <1>1, <2>5, UpdateProfileSound
  <2>6. CASE \E email \in Email : UpdateEmail(r, email) BY <2>6, UpdateEmailSound
  <2> QED BY <1>3, <2>1, <2>2, <2>3, <2>4, <2>5, <2>6, RequestReads
<1> QED BY <1>2, <1>3 DEF AccountsNext
-----------------------------------------------------------------------------
(* What an award does to the table. *)
LEMMA AwardCounts ==
  ASSUME RewardTypeOK, NEW u \in UserId, NEW t \in RewardType,
         reward' = Awarded(reward, u, t)
  PROVE  /\ reward' \in [UserId -> [RewardType -> Nat]]
         /\ \A v \in UserId : \A s \in RewardType :
              reward'[v][s] = IF v = u /\ s = t THEN reward[v][s] + 1 ELSE reward[v][s]
<1>1. reward \in [UserId -> [RewardType -> Nat]] BY DEF RewardTypeOK
<1>2. reward' = [reward EXCEPT ![u] = [reward[u] EXCEPT ![t] = reward[u][t] + 1]]
  BY <1>1 DEF Awarded
<1>3. [reward[u] EXCEPT ![t] = reward[u][t] + 1] \in [RewardType -> Nat]
  BY <1>1
<1>4. reward' \in [UserId -> [RewardType -> Nat]] BY <1>1, <1>2, <1>3
<1>5. ASSUME NEW v \in UserId, NEW s \in RewardType
      PROVE  reward'[v][s] = IF v = u /\ s = t THEN reward[v][s] + 1 ELSE reward[v][s]
  <2>1. CASE v # u BY <1>1, <1>2, <2>1
  <2>2. CASE v = u
    <3>1. reward'[v] = [reward[u] EXCEPT ![t] = reward[u][t] + 1] BY <1>1, <1>2, <2>2
    <3>2. reward[u] \in [RewardType -> Nat] BY <1>1
    <3> QED BY <2>2, <3>1, <3>2
  <2> QED BY <2>1, <2>2
<1> QED BY <1>4, <1>5

(* Whatever leaves the daily rewards and their claims alone. *)
LEMMA OtherRewards ==
  ASSUME RInv, reward' \in [UserId -> [RewardType -> Nat]], UNCHANGED <<claiming, raced>>,
         \A u \in UserId : reward'[u]["DAILY_LOGIN"] = reward[u]["DAILY_LOGIN"]
  PROVE  RInv'
BY DEF RInv, RewardTypeOK, Racing, DailySound

(* A request has found no reward of today. *)
LEMMA CheckDailySound ==
  ASSUME RInv, NEW r \in Request, NEW u \in UserId, CheckDaily(r, u)
  PROVE  RInv' /\ WinningsKept
<1> USE RewardPointsAssumption DEF RewardPointsAssumption, RInv
<1>1. /\ claiming' = [claiming EXCEPT ![r] = u] /\ raced' = raced \cup Racing(claiming')
      /\ UNCHANGED reward /\ reward[u]["DAILY_LOGIN"] = 0
  BY DEF CheckDaily
<1>2. claiming' \in [Request -> UserId \cup {NoUser}] BY <1>1 DEF RewardTypeOK
<1>3. Racing(claiming') \subseteq UserId BY DEF Racing
<1>4. RewardTypeOK' BY <1>1, <1>2, <1>3 DEF RewardTypeOK
<1>5. ASSUME NEW v \in UserId PROVE DailySound(v)'
  <2>1. CASE v = u BY <1>1, <2>1 DEF DailySound
  <2>2. CASE v # u
    <3>1. \A q \in Request : claiming'[q] = v => claiming[q] = v
      BY <1>1, <2>2 DEF RewardTypeOK
    <3> QED BY <1>1, <3>1 DEF DailySound
  <2> QED BY <2>1, <2>2
<1>6. Racing(claiming)' \subseteq raced' BY <1>1 DEF Racing
<1> QED BY <1>1, <1>4, <1>5, <1>6 DEF WinningsKept

(* A claim that ends, with a reward or without, races with nobody new.     *)
LEMMA ClaimEnds ==
  ASSUME RInv, NEW r \in Request, claiming' = [claiming EXCEPT ![r] = NoUser],
         UNCHANGED raced
  PROVE  /\ claiming' \in [Request -> UserId \cup {NoUser}]
         /\ Racing(claiming)' \subseteq raced'
         /\ \A q \in Request, v \in UserId : claiming'[q] = v => q # r /\ claiming[q] = v
BY RewardPointsAssumption DEF RewardPointsAssumption, RInv, RewardTypeOK, Racing

LEMMA ClaimDailySound ==
  ASSUME RInv, NEW r \in Request, ClaimDaily(r) PROVE RInv' /\ WinningsKept
<1>1. PICK u \in UserId : claiming[r] = u
  BY DEF ClaimDaily, RInv, RewardTypeOK
<1>2. /\ reward' = Awarded(reward, u, "DAILY_LOGIN") /\ UNCHANGED raced
      /\ claiming' = [claiming EXCEPT ![r] = NoUser]
  BY <1>1 DEF ClaimDaily
<1>3. "DAILY_LOGIN" \in RewardType /\ "MARKET_WINNER" \in RewardType BY DEF RewardType
<1>4. /\ reward' \in [UserId -> [RewardType -> Nat]]
      /\ \A v \in UserId : \A s \in RewardType :
           reward'[v][s] = IF v = u /\ s = "DAILY_LOGIN" THEN reward[v][s] + 1
                           ELSE reward[v][s]
  BY <1>2, <1>3, AwardCounts DEF RInv
<1>5. /\ claiming' \in [Request -> UserId \cup {NoUser}]
      /\ Racing(claiming)' \subseteq raced'
      /\ \A q \in Request, v \in UserId : claiming'[q] = v => q # r /\ claiming[q] = v
  BY <1>2, ClaimEnds
<1>6. ASSUME NEW v \in UserId, v \notin raced
      PROVE  /\ reward'[v]["DAILY_LOGIN"] <= 1
             /\ \A q \in Request : claiming'[q] = v => reward'[v]["DAILY_LOGIN"] = 0
  <2>1. DailySound(v) BY DEF RInv
  <2>2. CASE v = u
    <3>1. reward[u]["DAILY_LOGIN"] = 0 BY <1>1, <1>6, <2>1, <2>2 DEF DailySound
    <3>2. \A q \in Request : claiming'[q] # v
      BY <1>1, <1>5, <1>6, <2>2 DEF RInv, Racing
    <3> QED BY <1>3, <1>4, <2>2, <3>1, <3>2
  <2>3. CASE v # u BY <1>3, <1>4, <1>5, <1>6, <2>1, <2>3 DEF DailySound
  <2> QED BY <2>2, <2>3
<1>7. RewardTypeOK' BY <1>2, <1>4, <1>5 DEF RInv, RewardTypeOK
<1>8. \A v \in UserId : DailySound(v)' BY <1>2, <1>6 DEF DailySound
<1> QED BY <1>3, <1>4, <1>5, <1>7, <1>8 DEF RInv, WinningsKept

LEMMA DropClaimSound ==
  ASSUME RInv, NEW r \in Request, DropClaim(r) PROVE RInv' /\ WinningsKept
<1>1. /\ claiming' = [claiming EXCEPT ![r] = NoUser] /\ UNCHANGED <<reward, raced>>
  BY DEF DropClaim
<1>2. /\ claiming' \in [Request -> UserId \cup {NoUser}]
      /\ Racing(claiming)' \subseteq raced'
      /\ \A q \in Request, v \in UserId : claiming'[q] = v => q # r /\ claiming[q] = v
  BY <1>1, ClaimEnds
<1>3. \A v \in UserId : DailySound(v)' BY <1>1, <1>2 DEF RInv, DailySound
<1>4. RewardTypeOK' BY <1>1, <1>2 DEF RInv, RewardTypeOK
<1> QED BY <1>1, <1>2, <1>3, <1>4 DEF RInv, WinningsKept

LEMMA NewDaySound == ASSUME RInv, NewDay PROVE RInv' /\ WinningsKept
<1>1. "DAILY_LOGIN" \in RewardType /\ "MARKET_WINNER" \in RewardType BY DEF RewardType
<1>2. ASSUME NEW u \in UserId
      PROVE  /\ reward'[u] \in [RewardType -> Nat]
             /\ reward'[u]["DAILY_LOGIN"] = 0
             /\ reward'[u]["MARKET_WINNER"] = reward[u]["MARKET_WINNER"]
  <2>1. reward'[u] = [reward[u] EXCEPT !["DAILY_LOGIN"] = 0] BY DEF NewDay
  <2>2. reward[u] \in [RewardType -> Nat] BY DEF RInv, RewardTypeOK
  <2> QED BY <1>1, <2>1, <2>2
<1>3. reward' \in [UserId -> [RewardType -> Nat]] BY <1>2 DEF NewDay
<1>4. Racing(claiming) \subseteq UserId BY DEF Racing
<1>5. RewardTypeOK' BY <1>3, <1>4 DEF RInv, RewardTypeOK, NewDay
<1>6. Racing(claiming)' \subseteq raced' BY DEF NewDay, Racing
<1>7. \A u \in UserId : DailySound(u)' BY <1>2 DEF DailySound
<1> QED BY <1>2, <1>5, <1>6, <1>7 DEF RInv, WinningsKept

(* The award of a referral. *)
LEMMA RegisterRewards ==
  ASSUME AInv, RInv, NEW r \in Request, Register(r) PROVE RInv' /\ WinningsKept
<1>1. req[r].referral \in UserId \cup {NoUser}
  BY DEF AInv, RequestsSound, DoingSound, Register
<1>2. UNCHANGED <<claiming, raced>> BY DEF Register
<1>3. CASE UNCHANGED reward
  BY <1>2, <1>3, OtherRewards DEF RInv, RewardTypeOK, WinningsKept
<1>4. CASE req[r].referral # NoUser
  <2>1. PICK u \in UserId : u = req[r].referral BY <1>1, <1>4
  <2>2. reward' = Awarded(reward, u, "USER_REFERRAL") BY <1>4, <2>1 DEF Register
  <2>3. {"USER_REFERRAL", "DAILY_LOGIN", "MARKET_WINNER"} \subseteq RewardType
    BY DEF RewardType
  <2>4. /\ reward' \in [UserId -> [RewardType -> Nat]]
        /\ \A v \in UserId : \A s \in RewardType :
             reward'[v][s] = IF v = u /\ s = "USER_REFERRAL" THEN reward[v][s] + 1
                             ELSE reward[v][s]
    BY <2>2, <2>3, AwardCounts DEF RInv
  <2> QED BY <1>2, <2>3, <2>4, OtherRewards DEF WinningsKept
<1> QED BY <1>3, <1>4 DEF Register

(* Accounts keeps the daily rewards sound and touches nobody's winnings.   *)
LEMMA AccountsRewards ==
  ASSUME AInv, RInv, AccountsNext PROVE RInv' /\ WinningsKept
<1>1. CASE UNCHANGED rewardVars
  BY <1>1 DEF rewardVars, RInv, RewardTypeOK, Racing, DailySound, WinningsKept
<1>2. CASE NewDay BY <1>2, NewDaySound
<1>3. ASSUME NEW r \in Request, Register(r) PROVE RInv' /\ WinningsKept
  BY <1>3, RegisterRewards
<1>4. ASSUME NEW r \in Request, Daily(r) PROVE RInv' /\ WinningsKept
  <2>1. Ids \subseteq UserId
    BY AccountsAssumption DEF AccountsAssumption, AInv, UsersSound, Ids
  <2>2. CASE \E u \in Ids : CheckDaily(r, u) BY <2>1, <2>2, CheckDailySound
  <2> QED BY <1>4, <2>2, ClaimDailySound, DropClaimSound DEF Daily
<1> QED
  BY <1>1, <1>2, <1>3, <1>4
  DEF AccountsNext, FirstLogin, RegisterFails, Authenticate, Rename, UpdateProfile,
      UpdateEmail, SendEmailVerification, OpenToken, VerifyEmail, Abort
-----------------------------------------------------------------------------
(* A set of numbers has a least one: the numbers up to it are fewest.      *)
LEMMA Least ==
  ASSUME NEW S, S \subseteq Nat, S # {}
  PROVE  \E u \in S : \A v \in S : u <= v
<1> DEFINE upTo(u) == {v \in S : v <= u}
           T == {upTo(u) : u \in S}
           R == StrictSubsetOrdering(Nat)
<1>1. ASSUME NEW u \in S PROVE upTo(u) \subseteq Nat /\ upTo(u) \subseteq 0 .. u
  <2> SUFFICES ASSUME NEW v \in upTo(u) PROVE v \in Nat /\ v \in 0 .. u OBVIOUS
  <2>1. v \in S /\ v <= u OBVIOUS
  <2>2. u \in Nat /\ v \in Nat BY <2>1
  <2> HIDE DEF upTo
  <2> QED BY <2>1, <2>2
<1>2. ASSUME NEW u \in S PROVE IsFiniteSet(upTo(u))
  <2>1. u \in Nat OBVIOUS
  <2>2. IsFiniteSet(0 .. u) BY <2>1, FS_Interval
  <2> HIDE DEF upTo
  <2> QED BY <1>1, <2>2, FS_Subset
<1>3. T \subseteq FiniteSubsetsOf(Nat) BY <1>1, <1>2 DEF FiniteSubsetsOf
<1>4. T # {} OBVIOUS
<1>5. IsWellFoundedOn(R, FiniteSubsetsOf(Nat)) BY FS_StrictSubsetOrderingWellFounded
<1>6. PICK t \in T : \A y \in T : ~ (<<y, t>> \in R)
  <2> HIDE DEF T, R
  <2> QED BY <1>3, <1>4, <1>5, WFMin
<1>7. PICK u \in S : t = upTo(u) BY <1>6
<1>8. ASSUME NEW v \in S PROVE u <= v
  <2> SUFFICES ASSUME v < u PROVE FALSE OBVIOUS
  <2>1. u \in Nat /\ v \in Nat OBVIOUS
  <2>2. u <= u /\ ~ (u <= v) /\ \A n \in Nat : n <= v => n <= u BY <2>1
  <2>3. upTo(v) \subseteq upTo(u) /\ u \in upTo(u) /\ u \notin upTo(v) BY <2>2
  <2>4. <<upTo(v), upTo(u)>> \in R BY <1>1, <2>3, Zenon DEF StrictSubsetOrdering
  <2> QED BY <1>6, <1>7, <2>4
<1> QED BY <1>8

(* A wallet with rows has a first one. *)
LEMMA FirstOfWallet ==
  ASSUME AInv, NEW w, OfWallet(w) # {}
  PROVE  ByWallet(w) \in Ids /\ user[ByWallet(w)].walletAddress = w
<1>1. OfWallet(w) \subseteq Nat BY DEF OfWallet, Ids, AInv, UsersSound
<1>2. \E u \in OfWallet(w) : \A v \in OfWallet(w) : u <= v BY <1>1, Least
<1>3. ByWallet(w) \in OfWallet(w) BY <1>2 DEF ByWallet
<1> QED BY <1>3 DEF OfWallet

(* The claims of the chain are finitely many. *)
LEMMA ClaimsFinite ==
  ASSUME AInv, NEW S, S \subseteq DOMAIN Claim
  PROVE  IsFiniteSet(S) /\ Cardinality(S) \in Nat
<1> USE ClaimsAssumption DEF ClaimsAssumption
<1>1. DOMAIN Claim \subseteq 1 .. Blocks BY DEF AInv, Claim
<1>2. IsFiniteSet(1 .. Blocks) BY FS_Interval
<1>3. IsFiniteSet(S) BY <1>1, <1>2, FS_Subset
<1> QED BY <1>3, FS_CardinalityType

(* Accounts' steps disturb no claim that was paid. *)
LEMMA ClaimsUndisturbed ==
  ASSUME ClaimsPaidOnce, WalletsKept, WinningsKept, UNCHANGED <<scene, cursor, claimed>>
  PROVE  ClaimsPaidOnce'
<1>1. Claim' = Claim BY DEF Claim
<1> QED BY <1>1 DEF ClaimsPaidOnce, WalletsKept, WinningsKept

(* A batch records and rewards each of its claims, and its claims are new. *)
LEMMA ParseClaimsSound == ASSUME CInv, ParseClaims PROVE CInv'
<1> USE DEF CInv
<1>1. /\ FromBlock < ToBlock /\ cursor' = ToBlock
      /\ UNCHANGED <<claiming, raced, accountVars, head>>
  BY DEF ParseClaims
<1>2. Claim' = Claim /\ UNCHANGED <<user, scene>> BY <1>1 DEF Claim, accountVars
<1>3. AInv'
  BY <1>1 DEF accountVars, AInv, UsersSound, RequestsSound, DoingSound, RowSound, Ids
<1>4. BlocksTyped'
  BY <1>1, ClaimsAssumption
  DEF ClaimsAssumption, BlocksTyped, ToBlock, FromBlock, Smaller
<1>5. Batch \subseteq DOMAIN Claim BY DEF Batch
<1>6. ASSUME NEW u \in UserId PROVE Winnings(u) \in Nat
  BY <1>5, ClaimsFinite DEF Winnings
<1>7. "MARKET_WINNER" \in RewardType /\ "DAILY_LOGIN" \in RewardType BY DEF RewardType
<1>8. ASSUME NEW u \in UserId
      PROVE  /\ reward'[u] \in [RewardType -> Nat]
             /\ reward'[u]["MARKET_WINNER"] = reward[u]["MARKET_WINNER"] + Winnings(u)
             /\ reward'[u]["DAILY_LOGIN"] = reward[u]["DAILY_LOGIN"]
  <2>1. reward'[u] = [reward[u] EXCEPT !["MARKET_WINNER"] =
                        reward[u]["MARKET_WINNER"] + Winnings(u)]
    BY DEF ParseClaims
  <2>2. reward[u] \in [RewardType -> Nat] BY DEF RInv, RewardTypeOK
  <2>3. reward[u]["MARKET_WINNER"] + Winnings(u) \in Nat BY <1>6, <1>7, <2>2
  <2> QED BY <1>7, <2>1, <2>2, <2>3
<1>9. RInv'
  <2>1. reward' \in [UserId -> [RewardType -> Nat]] BY <1>8 DEF ParseClaims
  <2> QED BY <1>1, <1>8, <2>1, OtherRewards
<1>10. ASSUME NEW b \in Batch
       PROVE  /\ ByWallet(Claim[b].wallet) \in Ids
              /\ user[ByWallet(Claim[b].wallet)].walletAddress = Claim[b].wallet
  BY FirstOfWallet DEF ParseClaims, Handled
<1>11. /\ DOMAIN claimed' = DOMAIN claimed \cup Batch
       /\ \A b \in Batch : claimed'[b] = ByWallet(Claim[b].wallet)
       /\ \A b \in DOMAIN claimed \ Batch : claimed'[b] = claimed[b]
  BY DEF ParseClaims
<1>12. DOMAIN claimed = {b \in DOMAIN Claim : b <= cursor /\ Claim[b].known}
  BY DEF ClaimsPaidOnce
<1>13. /\ DOMAIN Claim \subseteq Nat /\ cursor \in Nat /\ ToBlock \in Nat
       /\ ToBlock >= cursor
  BY <1>1, <1>4, ClaimsAssumption
  DEF ClaimsAssumption, AInv, Claim, BlocksTyped, FromBlock
<1>14. DOMAIN claimed \cap Batch = {} BY <1>12, <1>13 DEF Batch, FromBlock
<1>15. DOMAIN claimed' = {b \in DOMAIN Claim : b <= ToBlock /\ Claim[b].known}
  BY <1>11, <1>12, <1>13 DEF Batch, FromBlock
<1>16. ASSUME NEW u \in UserId
       PROVE  reward'[u]["MARKET_WINNER"] =
                Cardinality({b \in DOMAIN claimed' : claimed'[b] = u})
  <2> DEFINE old == {b \in DOMAIN claimed : claimed[b] = u}
             new == {b \in Batch : ByWallet(Claim[b].wallet) = u}
  <2>1. {b \in DOMAIN claimed' : claimed'[b] = u} = old \cup new BY <1>11, <1>14
  <2>2. old \cap new = {} BY <1>14
  <2>3. old \subseteq DOMAIN Claim /\ new \subseteq DOMAIN Claim BY <1>5, <1>12
  <2>4. IsFiniteSet(old) /\ IsFiniteSet(new) BY <2>3, ClaimsFinite
  <2>5. Cardinality(old) \in Nat /\ Cardinality(new) \in Nat BY <2>3, ClaimsFinite
  <2>6. reward[u]["MARKET_WINNER"] = Cardinality(old) BY DEF ClaimsPaidOnce
  <2>7. Winnings(u) = Cardinality(new) BY DEF Winnings
  <2> HIDE DEF old, new
  <2>8. Cardinality(old \cup new) = Cardinality(old) + Cardinality(new)
    BY <2>2, <2>4, <2>5, FS_Union, FS_EmptySet
  <2> QED BY <1>8, <2>1, <2>6, <2>7, <2>8
<1>17. ASSUME NEW b \in DOMAIN claimed'
       PROVE  /\ claimed'[b] \in Ids
              /\ user[claimed'[b]].walletAddress = Claim[b].wallet
  BY <1>10, <1>11, <1>14 DEF ClaimsPaidOnce
<1>18. ClaimsPaidOnce'
  BY <1>1, <1>2, <1>15, <1>16, <1>17 DEF ClaimsPaidOnce, Ids
<1> QED BY <1>3, <1>4, <1>9, <1>18

LEMMA ClaimsInitial == Init => CInv
<1> SUFFICES ASSUME Init PROVE CInv OBVIOUS
<1> USE DEF Init, AccountsInit, RewardInit
<1>1. Ids = {} /\ user \in Seq(User) /\ Len(user) = 0 BY DEF Ids
<1>2. UsersSound BY <1>1, AccountsAssumption DEF AccountsAssumption, UsersSound
<1>3. RequestsSound BY DEF RequestsSound, DoingSound, Idle
<1>4. AInv BY <1>2, <1>3 DEF AInv
<1>5. RewardTypeOK BY DEF RewardTypeOK
<1>6. Racing(claiming) \subseteq raced
  BY RewardPointsAssumption DEF RewardPointsAssumption, Racing
<1>7. \A u \in UserId : DailySound(u) BY DEF DailySound, RewardType
<1>8. RInv BY <1>5, <1>6, <1>7 DEF RInv
<1>9. BlocksTyped BY ClaimsAssumption DEF ClaimsAssumption, BlocksTyped
<1>10. DOMAIN Claim \subseteq 1 .. Blocks BY ClaimsAssumption DEF ClaimsAssumption, Claim
<1>11. DOMAIN claimed = {} OBVIOUS
<1>12. {b \in DOMAIN Claim : b <= cursor /\ Claim[b].known} = {}
  BY <1>10, ClaimsAssumption DEF ClaimsAssumption
<1>13. ASSUME NEW u \in UserId
       PROVE  reward[u]["MARKET_WINNER"] =
                Cardinality({b \in DOMAIN claimed : claimed[b] = u})
  <2>1. {b \in DOMAIN claimed : claimed[b] = u} = {} BY <1>11
  <2>2. Cardinality({}) = 0 BY FS_EmptySet
  <2> QED BY <2>1, <2>2 DEF RewardType
<1>14. ClaimsPaidOnce BY <1>11, <1>12, <1>13 DEF ClaimsPaidOnce
<1> QED BY <1>4, <1>8, <1>9, <1>14 DEF CInv

(* CInv is inductive. *)
LEMMA ClaimsStep == CInv /\ [Next]_vars => CInv'
<1> SUFFICES ASSUME CInv, [Next]_vars PROVE CInv' OBVIOUS
<1>1. CASE AccountsNext /\ UNCHANGED claimVars
  <2>1. AInv' /\ WalletsKept BY <1>1, AccountsSound DEF CInv
  <2>2. RInv' /\ WinningsKept BY <1>1, AccountsRewards DEF CInv
  <2>3. UNCHANGED scene
    BY <1>1
    DEF AccountsNext, accountVars, FirstLogin, Register, RegisterFails, Authenticate,
        Rename, UpdateProfile, UpdateEmail, SendEmailVerification, OpenToken,
        VerifyEmail, Abort, Daily, End, Begin
  <2>4. ClaimsPaidOnce'
    BY <1>1, <2>1, <2>2, <2>3, ClaimsUndisturbed DEF CInv, claimVars
  <2>5. BlocksTyped' BY <1>1 DEF CInv, BlocksTyped, claimVars
  <2> QED BY <2>1, <2>2, <2>4, <2>5 DEF CInv
<1>2. CASE ParseClaims BY <1>2, ParseClaimsSound
<1>3. CASE Mine \/ UNCHANGED vars
  <2>1. UNCHANGED <<user, req, scene, mailed, reward, claiming, raced, cursor, claimed>>
    BY <1>3 DEF Mine, vars, rewardVars, accountVars, claimVars
  <2>2. AInv'
    BY <2>1 DEF CInv, AInv, UsersSound, RequestsSound, DoingSound, RowSound, Ids
  <2>3. RInv' BY <2>1 DEF CInv, RInv, RewardTypeOK, Racing, DailySound
  <2>4. ClaimsPaidOnce' BY <2>1 DEF CInv, ClaimsPaidOnce, Ids, Claim
  <2>5. BlocksTyped'
    BY <1>3, ClaimsAssumption
    DEF ClaimsAssumption, CInv, AInv, BlocksTyped, Mine, vars, claimVars
  <2> QED BY <2>2, <2>3, <2>4, <2>5 DEF CInv
<1> QED BY <1>1, <1>2, <1>3 DEF Next
-----------------------------------------------------------------------------
(* For any number of users, requests and scenes: a user gets the daily     *)
(* reward once a day, unless two claims of that day overlapped             *)
(* (reward-points.service.ts:27-41).                                       *)
THEOREM DailyOnce == Spec => []DailyOnceUnlessOverlap
<1>1. CInv => DailyOnceUnlessOverlap
  BY DEF CInv, RInv, RewardTypeOK, RewardType, DailySound, DailyOnceUnlessOverlap
<1> QED BY <1>1, ClaimsInitial, ClaimsStep, PTL DEF Spec

(* However many snapshots are written back over newer rows, a verified     *)
(* email is one its user was sent a token for (user.service.ts:345-397).   *)
THEOREM VerifiedMailed == Spec => []VerifiedEmailWasMailed
<1>1. CInv => VerifiedEmailWasMailed
  BY DEF CInv, AInv, UsersSound, RowSound, VerifiedEmailWasMailed
<1> QED BY <1>1, ClaimsInitial, ClaimsStep, PTL DEF Spec

(* For any chain, batch size and number of confirmations: the claims below *)
(* the cursor are recorded and rewarded once, for a user of their wallet,  *)
(* while users come and change (claims-parser.worker.ts:66-152).           *)
THEOREM ClaimsPaid == Spec => []ClaimsPaidOnce
<1>1. CInv => ClaimsPaidOnce BY DEF CInv
<1> QED BY <1>1, ClaimsInitial, ClaimsStep, PTL DEF Spec
=============================================================================
