------------------------------ MODULE Accounts ------------------------------
(***************************************************************************)
(* Users: first login of a wallet, profile, email and its verification     *)
(* (user.service.ts), served by concurrent requests that each carry the    *)
(* row the authentication middleware has read.                             *)
(*                                                                         *)
(* username and email are unique keys of the table, walletAddress is not.  *)
(* update() writes every column of the row it was given.                   *)
(***************************************************************************)
EXTENDS RewardPoints, Sequences

CONSTANTS
  Wallet,   \* wallet addresses
  Name,     \* user names, the abbreviated addresses among them
  Abbr,     \* the abbreviated address of a wallet
  Email,    \* email addresses
  NoEmail,  \* NULL
  Scene,    \* bound: what each request is used for, and what is on the chain
  MaxUsers  \* bound: rows of user

ASSUME AccountsAssumption ==
  /\ MaxUsers \in Nat /\ UserId = 1 .. MaxUsers
  /\ Abbr \in [Wallet -> Name] /\ NoEmail \notin Email
  /\ \A s \in Scene : DOMAIN s.does = Request /\ s.names \subseteq Name

VARIABLES
  user,  \* the rows of user, in the order of their ids
  req,   \* what each request is doing
  scene, \* the scene that is played
  mailed \* <<id, email>> of the verification tokens that were sent

accountVars == <<user, req, scene, mailed>>

User == [walletAddress: Wallet, username: Name, email: Email \cup {NoEmail},
         emailStatus: {"PENDING", "VERIFIED"}, referrer: UserId \cup {NoUser}]

\* A request that waits for its next query: a first login, an authenticated
\* request with its snapshot of the user, or a verification with the token's.
Doing ==
  [at: {"idle"}]
    \cup [at: {"login"}, wallet: Wallet, referral: UserId \cup {NoUser}]
    \cup [at: {"profile", "email"}, id: UserId, row: User]
    \cup [at: {"verify"}, id: UserId, row: User, email: Email]

Idle == [at |-> "idle"]

AccountsTypeOK ==
  /\ user \in Seq(User) /\ Len(user) <= MaxUsers
  /\ req \in [Request -> Doing]
  /\ scene \in Scene
  /\ mailed \subseteq UserId \X Email

AccountsInit ==
  /\ user = <<>>
  /\ req = [r \in Request |-> Idle]
  /\ scene \in Scene
  /\ mailed = {}

Ids == DOMAIN user

\* populateByWalletAddress takes the first of the rows it finds.
OfWallet(w) == {u \in Ids : user[u].walletAddress = w}
ByWallet(w) == CHOOSE u \in OfWallet(w) : \A v \in OfWallet(w) : u <= v

\* populateByEmail, without the row's own user
Owner(email) == {u \in Ids : user[u].email = email}

\* What the two unique keys let an UPDATE of row u write.
Accepted(u, row) ==
  \A v \in Ids \ {u} :
    user[v].username # row.username /\ (user[v].email # row.email \/ row.email = NoEmail)

Written(u, row) == [user EXCEPT ![u] = row]

\* The new email of updateEmail, whose status is forgotten.
ChangedKeptStatus(row, email) == [row EXCEPT !.email = email]

\* The new email of updateEmail waits for its verification.
Changed(row, email) == [row EXCEPT !.email = email, !.emailStatus = "PENDING"]

Begin(r, doing) == req' = [req EXCEPT ![r] = doing] /\ UNCHANGED scene
End(r) == Begin(r, Idle)
Available(r, what) == req[r] = Idle /\ claiming[r] = NoUser /\ what \in scene.does[r]

-----------------------------------------------------------------------------
(* loginWithWallet *)

\* A wallet without a user logs in for the first time, with or without somebody's
\* referral.  (A login of a known wallet changes nothing.)
FirstLogin(r, w, u) ==
  /\ Available(r, "login") /\ OfWallet(w) = {}
  /\ Begin(r, [at |-> "login", wallet |-> w, referral |-> u])
  /\ UNCHANGED <<user, mailed, rewardVars>>

NewUser(w, u) == [walletAddress |-> w, username |-> Abbr[w], email |-> NoEmail,
                  emailStatus |-> "PENDING", referrer |-> u]

\* The user and the award of its referral are inserted in one transaction, if the
\* abbreviated address is free.  A referral id of nobody is not an error.
Register(r) ==
  /\ req[r].at = "login" /\ Len(user) < MaxUsers
  /\ LET u == req[r].referral
         row == NewUser(req[r].wallet, u)
     IN  /\ Accepted(Len(user) + 1, row)
         /\ user' = Append(user, row)
         /\ reward' = IF u = NoUser THEN reward ELSE Awarded(reward, u, "USER_REFERRAL")
  /\ End(r)
  /\ UNCHANGED <<mailed, claiming, raced>>

\* The name is taken, or the insert, the award or the commit fails.
RegisterFails(r) ==
  /\ req[r].at = "login"
  /\ End(r)
  /\ UNCHANGED <<user, mailed, rewardVars>>

-----------------------------------------------------------------------------
(* updateProfile, updateEmail, sendEmailVerification *)

\* The middleware reads the user of the token; the handler works on this row.
Authenticate(r, u, what) ==
  /\ what \in {"profile", "email"} /\ Available(r, what)
  /\ Begin(r, [at |-> what, id |-> u, row |-> user[u]])
  /\ UNCHANGED <<user, mailed, rewardVars>>

\* updateProfile with a new name alone, or with the email the row has: a name that
\* is taken is not reported, and not written.
Rename(r, name) ==
  /\ req[r].at = "profile"
  /\ LET row == [req[r].row EXCEPT !.username = name]
     IN  user' = IF Accepted(req[r].id, row) THEN Written(req[r].id, row) ELSE user
  /\ End(r)
  /\ UNCHANGED <<mailed, rewardVars>>

\* updateProfile with a new email that nobody has: name and email are written in
\* one transaction, and the token is sent before its commit.
UpdateProfile(r, name, email) ==
  /\ req[r].at = "profile" /\ email # req[r].row.email /\ Owner(email) = {}
  /\ LET row == Changed([req[r].row EXCEPT !.username = name], email)
     IN  /\ Accepted(req[r].id, row)
         /\ user' \in {Written(req[r].id, row), user}
  /\ mailed' = mailed \cup {<<req[r].id, email>>}
  /\ End(r)
  /\ UNCHANGED rewardVars

\* updateEmail alone: the row is committed before the token is sent, and stays
\* when the mail fails.
UpdateEmail(r, email) ==
  /\ req[r].at = "email" /\ Owner(email) = {}
  /\ LET row == Changed(req[r].row, email)
     IN  /\ Accepted(req[r].id, row)
         /\ user' = Written(req[r].id, row)
  /\ mailed' \in {mailed \cup {<<req[r].id, email>>}, mailed}
  /\ End(r)
  /\ UNCHANGED rewardVars

\* sendEmailVerification: a token for any email, the user's or not.
SendEmailVerification(r, email) ==
  /\ req[r].at = "email"
  /\ mailed' = mailed \cup {<<req[r].id, email>>}
  /\ End(r)
  /\ UNCHANGED <<user, rewardVars>>

-----------------------------------------------------------------------------
(* changeEmail *)

\* The user of a verification token is read.  A token may be used again.
OpenToken(r, u, email) ==
  /\ Available(r, "verify") /\ <<u, email>> \in mailed /\ u \in Ids
  /\ Begin(r, [at |-> "verify", id |-> u, row |-> user[u], email |-> email])
  /\ UNCHANGED <<user, mailed, rewardVars>>

\* Every column is written, whatever became of the row in between.
VerifyEmail(r) ==
  /\ req[r].at = "verify"
  /\ LET row == [req[r].row EXCEPT !.email = req[r].email, !.emailStatus = "VERIFIED"]
     IN  /\ Accepted(req[r].id, row)
         /\ user' = Written(req[r].id, row)
  /\ End(r)
  /\ UNCHANGED <<mailed, rewardVars>>

\* A request ends without effect: somebody has the email or the name, a query
\* fails, or its process dies.
Abort(r) ==
  /\ req[r].at \in {"profile", "email", "verify"}
  /\ End(r)
  /\ UNCHANGED <<user, mailed, rewardVars>>

\* The daily reward of an authenticated user.
Daily(r) ==
  /\ \/ \E u \in Ids : Available(r, "daily") /\ CheckDaily(r, u)
     \/ ClaimDaily(r)
     \/ DropClaim(r)
  /\ UNCHANGED accountVars

AccountsNext ==
  \/ \E r \in Request :
       \/ \E w \in Wallet, u \in Ids \cup {NoUser} : FirstLogin(r, w, u)
       \/ Register(r) \/ RegisterFails(r)
       \/ \E u \in Ids, what \in {"profile", "email"} : Authenticate(r, u, what)
       \/ \E name \in scene.names : Rename(r, name)
       \/ \E name \in scene.names, email \in Email : UpdateProfile(r, name, email)
       \/ \E email \in Email : UpdateEmail(r, email) \/ SendEmailVerification(r, email)
       \/ \E u \in UserId, email \in Email : OpenToken(r, u, email)
       \/ VerifyEmail(r) \/ Abort(r) \/ Daily(r)
  \/ NewDay /\ UNCHANGED accountVars

-----------------------------------------------------------------------------
(* Properties *)

\* A verified email belongs to a row whose user was sent a token for it
\* (user.service.ts:367-371), although whole rows of older snapshots are written
\* back over newer ones and tokens outlive the change they were made for.
VerifiedEmailWasMailed ==
  \A u \in Ids : user[u].emailStatus = "VERIFIED" => <<u, user[u].email>> \in mailed

=============================================================================
