# A TLA+ model of the Ignite Market backend

This directory holds TLA+ specifications of the backend of Ignite Market, a
prediction market on the Flare chain: what its workers, its API, its proxy and
its indexer do to the shared database and to the chain, in every order the
platform allows. TLC checks the specifications on small instances; TLAPS checks
proofs for every value of their constants. Paths below are relative to the
repository's `src/`.

Contents: 1 the system; 2 the modules; 3-11 one section per part, each with its
correspondence to the code, its properties, runs, bounds, fairness and proofs;
12 what is proved and what is only checked; 13 what is not modelled.

## 1. The system

| Component | State it keeps | Operations | Interacts with | Section |
|---|---|---|---|---|
| Scheduled jobs (`lib/worker/serverless-workers`, `modules/job`, `workers/scheduler.ts`, `workers/worker-executor.ts`) | `job` rows: status, executorCount, lastRun, nextRun | scheduler once a minute; before, execute, onSuccess, onError, updateOn* of each Lambda execution | every single-threaded worker runs inside it | 3 |
| Prediction sets (`modules/prediction-set`, `lib/blockchain.ts`) | `prediction_set`, `outcome`, `prediction_set_chain_data` | create, update, process, hide, delete | SQS, workers, chain | 4 |
| Create worker (`workers/create-prediction-set.worker.ts`) | none of its own | consumes the SQS message, creates question and market on chain | prediction sets, chain | 4 |
| Factory and voting parsers, finalizers (`workers/*`) | cursors in `contract` | follow the chain, resolve sets that are due | prediction sets, oracle | 4 |
| Event indexer and finalized-set parser (`indexer/process-scripts`, `workers/prediction-set-finalized-parser.worker.ts`) | the cursor in `prediction_set_chain_data`, transaction tables | planner, children, cycles; executor of the finalized sets | chain, prediction sets | 5 |
| Proposals (`modules/proposal`, `workers/finalize-proposal-rounds.worker.ts`) | rounds, proposals, votes | create, update, delete, vote, finalize rounds | reward points | 6 |
| API proxy (`proxy/`) | a MySQL cache and lock table, a memory cache in each instance | cached and de-duplicated GET, plain other requests | external APIs, keys | 7 |
| API keys (`workers/generate-api-keys.worker.ts`, `lib/api-keys-storage.ts`, `lib/generate-api-keys.ts`) | two files in S3 | the daily worker; the proxy reads | API proxy | 7 |
| Users (`modules/user`) | `user` rows, verification tokens | login with wallet, referral, profile, email and its verification | reward points, claims | 8 |
| Reward points (`modules/reward-points`) | points and their transactions | award, claim daily reward | users, claims, proposals | 8 |
| Claims parser (`workers/claims-parser.worker.ts`) | `claim_transaction`, a cursor | parses redemptions batch by batch | chain, users, reward points | 8 |
| Attestations (`workers/flare/*`, `lib/flare`) | `prediction_set_attestation` | request and pay, fetch the proof, finalize with the evidence | Flare data connector, oracle | 9 |
| Statistics, positions, lists (`modules/prediction-set/models`, `modules/stats`, `lib/database/sql-utils.ts`) | none of their own | a dozen queries over transactions | the parsers' rows | 10 |
| Outcome chances (`workers/refresh-outcome-chances.worker.ts`) | `outcome_chance` | planner and executor over SQS | chain | 10 |
| Comments and watchlists (`modules/comment`, `modules/prediction-set`) | `comment`, `user_watchlist` | create, change, delete; add, remove | users, sets | 10 |
| Database layer (`lib/database`, `migration-scripts`) | the schema and its records; a pool of connections | migrate, seed, roll back; lend and take back | everything | 11 |
| The rest (banners, data sources, templates, airdrop, collateral price, health check, files, mail, social media, Redis cache, controllers, guards) | rows of their own tables | plain create / read / update / delete, text and formatting | little | 13 |

What is hard here, and what the models are for:

* **No row lock outside `before`.** `AdvancedSQLModel.update` writes every
  column of a model that was read earlier (`lib/base-models/advanced-sql.model.ts:289-332`),
  and only the job lock and the per-set indexer ask for `FOR UPDATE` (the
  indexer without a transaction's connection, so without effect). Every
  read-modify-write can lose another one's change.
* **At-least-once delivery.** Lambda's asynchronous invocations and SQS
  messages are redelivered; a handler may be killed at 900 s between any two
  steps.
* **Two sources of truth.** The chain moves by itself; the database follows it
  through event parsers with cursors, and several parsers and finalizers follow
  the same set.
* **Steps outside the database cannot be rolled back** with the transaction
  around them: those on chain, those on S3, mails and messages.
* **Locks with a time limit.** The job lock and the proxy's cache lock are rows
  whose owner may be dead or only slow.
* **Answers computed in many places.** Positions, volumes and totals come from
  different queries over the same rows, with joins that multiply them.

## 2. The modules

| Part | Specification | For TLC | Proofs | Runs |
|---|---|---|---|---|
| Job lock | `JobLock` | `MCJobLock` | `InfrastructureProofs` | `joblock`, `joblock_parallel` |
| Life cycle of a set | `PredictionSetLifecycle` | `MCPredictionSetLifecycle` | `PredictionSetLifecycleProofs` | `lifecycle`, `lifecycle_live` |
| Indexer | `EventLedger` (abstract), `EventIndexer` | `MCEventIndexer` | `ChainJobsProofs` | `indexer`, `indexer_live` |
| Proposals | `Proposals` | `MCProposals` | `ProposalsProofs` | `proposals` |
| Proxy and keys | `LocalCache`, `ApiProxyCache`, `ApiKeys`; composed in `ApiProxy` | `MCApiProxy` | `ApiProxyProofs`, `FoldTheorems` | `proxy` |
| Users, points, claims | `RewardPoints`, `Accounts`, `ClaimsParser`, each extending the one before | `MCClaimsParser` | `ClaimsParserProofs` | `accounts` |
| Attestations | `Attestations` | `MCAttestations` | `ChainJobsProofs` | `attestations` |
| What readers see | `SqlLists`, `Outcomes`, `Portfolio`, `OutcomeChances`, `Community`, `SetLists`; composed in `MarketReads` | `MCMarketReads` | `MarketReadsProofs`, `FoldTheorems` | `market_reads` |
| Database | `Migrations`, `ConnectionPool`; composed in `Database` | `MCDatabase` | `InfrastructureProofs` | `database` |

Every parameter is a CONSTANT with a named assumption. No module has a
`RECURSIVE` operator: sums and products are folds of the community modules, about
which `FoldTheorems` proves what `ApiProxyProofs` and `MarketReadsProofs` need:
sums of rows, products of balances, sizes in a cache, the places of an order, folds
over sequences.

The modules do not include one another where the code's parts meet only through
an established fact: sections 4, 6 and 8 take from section 3 that a worker under
the job lock is one process, which `SingleThreadUnlessOverlap` says under its
condition; sections 5, 7 and 9 model overlapping executions and say in a
history variable (`raced`, `overlapped`) that they occurred.

## 3. `JobLock`

One row of `job` and the Lambda executions that may serve it.

| Action | Code |
|---|---|
| `Schedule` | `Job.getPendingJobs`, `WorkerScheduler.execute`, `launchWorkers` |
| `Deliver`, `Kill` | Lambda's asynchronous invocation and its time limit (`serverless.yml`) |
| `Before`, `Discard` | `before` and `checkLockedStatus`: one transaction, row locked |
| `StartRead`, `StartWrite` | `updateOnStarted`: `setStarted`, then SELECT and UPDATE without a lock |
| `Execute`, `StateWrite` | the worker's body, then `onSuccess` / `updateJobState`: reload, UPDATE |
| `DoneRead`, `DoneWrite` | `updateOnCompleted`: `setCompleted`, SELECT, UPDATE |
| `OnError` | `run`'s catch: `onError` throws again, so `updateOnError` never runs |

Time is in units of one scheduler run. `overlap` is a history variable: some
execution took the lock while another was between its lock commit and its
stamp, or between its unlock and its last write.

*Properties.* `LockFieldsAgree`: executorCount is 1 exactly when the row is
LOCKED, although three unlocked whole-row updates race (an ACTIVE row with a
count of 1 would be refused for ever). `SingleThreadUnlessOverlap`: as long as
`overlap` is false, at most one execution is past `before`. `JobRunsAgain`: a
job that nobody runs is taken again, also after its last execution died - but
for a row that is LOCKED and has no `lastRun` yet: an execution that dies
between its first lock and its first stamp leaves such a row, the timeout of
`checkLockedStatus` cannot be computed from it, and no execution is let in
again until somebody edits the row.

*Runs.* `joblock` (two executions, timeouts of 2 units, clock up to 4, one
waiting invocation: enough for a full run, a death, an expired lock and a
takeover). `joblock_parallel` checks what the comment at
`base-single-thread-worker.ts:34` says without a condition, `SingleThread`, and
TLC finds it violated: the lock is committed with the old `lastRun`, so that
until the stamp is written a second execution still sees a lock whose time is
over. This is the finding in `PROJECT.json`.

*Fairness.* Time passes; the scheduler runs every minute; an accepted
invocation is delivered; what exceeds its time is killed; not every execution
dies before `before` has decided (strong fairness on `Before \/ Discard`: an
invocation that dies there is sent again a minute later, and nothing makes it
die every time). Nothing is assumed about the body: it may hang until it is
killed. At its bound the clock stands still while the scheduler goes on;
`JobRunsAgain` speaks only of rows whose times lie within the bound
(`WithinTime`), so the bound proves nothing by itself.

*Proofs* (`InfrastructureProofs`). `TypeCorrect`, `LockFieldsNeverDisagree`,
`SingleThreaded`, for any number of executions and any timeouts with
`LambdaTimeout <= Timeout` (both are 900 s by default). The invariant is about
the snapshots as well as about the row: every snapshot an execution still holds
agrees in its two lock fields, and an execution that has stamped the row and
not yet unlocked it finds its own stamp there. A living execution is younger
than `LambdaTimeout`, so a stamped lock cannot be past its timeout.

## 4. `PredictionSetLifecycle`

One prediction set with everything that moves it. A handler that reads the row
and saves it later is two actions with the row in `read`; what it does in one
transaction after its last read is one action. The workers that run under the
job lock (factory parser, voting parser, the two finalizers) are one process
each, which is what `JobLock` establishes away from its findings.

| Process | Actions | Code |
|---|---|---|
| `Request` (API) | `LoadRequest`, `ProcessWrite`, `Send`, `UpdateWrite`, `HideWrite`, `DeleteWrite` | `prediction-set.service.ts` |
| `Creator` | `ReceiveMessage`, `IgnoreMessage`, `InitializeQuestion`, `InitializeReverts`, `CreateMarket`, `RecordChainData`, `FailCreation`, `SaveFails`, `CreationFails` | `create-prediction-set.worker.ts`, `addPredictionSet` |
| factory parser | `FactoryRead`, `FactoryCommit` | `prediction-sets-factory-parser.worker.ts` |
| indexer and planner | `StartIndexer`, `StopIndexer`, `IndexerRead`, `IndexerCommit` | `indexer/process-scripts` |
| finalizer | `SelectDue`, `EvidenceMissing`, `EvidenceRefused`, `FinalizeQuestion`, `FinalizeLate`, `QuestionRead`, `FinalizerWrite` | the two finalizers, `finalizePredictionSetResults` |
| voting parser | `VotingRead`, `VotingCommit`, `VotingSkip` | `voting-parser.worker.ts` |
| chain | `AddFunding`, `ForceVoting`, `SubmitVote`, `ResolutionTime` | external |
| failures | `Crash`, `CreationFails`, `SaveFails` | catch blocks, kills |

The forms that create and update a set extend the model
(`prediction-set.dto.ts:22`), and `setStatus` is filled in from them and saved
(`prediction-set.model.ts:238-251`, `prediction-set.controller.ts:30`,
`prediction-set.service.ts:323`). So a POST or PUT of an admin may state any
status, ACTIVE without a market included; one that states none gives INITIALIZED,
the default, also to a set in ERROR. `Init` and `UpdateWrite` take the status from
`FormStatus`, and the row remembers as history whether a form stated it
(`stated`). "ACTIVE - When the set is funded and ready for predictions"
(`prediction-set.model.ts:233`) is therefore a duty of the admins, not something
the code ensures. The same forms may change `resolutionType` and
`resolutionTime` of a set that is not processed yet; the model keeps
`automatic` and lets `due` only become true. A failure of `sendToQueue` is swallowed by the code and has the
effect of `Crash` of the request before `Send`. The two parsers' transactions
read the row through their own connection under REPEATABLE READ, which is the
snapshot in `read`.

*Assumed of the contracts* (they are not in the repository): `initializeQuestion`
reverts for a question that exists; `finalizeQuestion` changes only an ACTIVE
question and otherwise reverts or does nothing; liquidity can be added until the
market's end, which is before the set's resolution time.

*Properties.* `MarketBehindStatus` and `OracleBehindStatus`: whatever stale row
a process writes, a status in the table that no form stated is never ahead of
the chain, and a winner in the table is the oracle's, whatever a form stated.
`PendingAnswered`: a set waiting for its creation with a message in the queue
leaves PENDING, whatever execution dies. `DecidingVoteCounts`: a vote still to
be parsed when the question is decided makes the set FINALIZED, however the
votes are divided into batches, and also when the finalizer died between the
oracle and the database and left the set ACTIVE.

*What the code does beside them.* A deciding vote that shares a range of blocks
with a forced voting is passed over: all VoteSubmitted events of the range are
handled before its VotingForced events (`voting-parser.worker.ts:147`), and the
set stays VOTING for good. `DecidingVoteCounts` exempts it by
`~Has(votes, "forced")`; without that TLC finds it. A status that was decided
may be overwritten by a slower writer of a whole row, and an edit that began
before the set was processed lands on a set that is being created. No document
says otherwise, and no property judges it; the two that are checked bound the
damage: whatever is overwritten, the row is never ahead of the chain. Right
after `process` a set is PENDING and nothing else
(`prediction-set.service.ts:67`); the test that expects ACTIVE at that point
(`prediction-set.e2e.test.ts:251`) does not describe this code.

*Runs and bounds.* `lifecycle`: two outcomes (a wrong winner is
distinguishable), one request and one create worker whose message may come
again, forms that state ACTIVE or FINALIZED beside the default, one unparsed
event per stream, one failure of the create worker's update. ACTIVE and
FINALIZED are one status of each invariant. The outcomes are interchangeable, and no temporal
property is checked under that symmetry. `lifecycle_live`: one outcome, one
request that processes and one create worker, two unparsed oracle events, so that
two votes, or a vote and a forced voting, share a batch or do not, and one failure
of the create worker or of the finalizer. Several requests and several create
workers at once are beyond what TLC explores here in minutes; the two theorems hold
for any number of them.

*Fairness.* An API request that has begun is finished, messages are handled, the
parsers, the indexer and the finalizer go on, and a due set's evidence is not
refused for ever (strong fairness on the finalizer's other exits; the proof of a
finalized attestation does verify). Nobody has to call the API, fund, vote or
force anything.

*Proofs* (`PredictionSetLifecycleProofs`). `NeverAheadOfMarket` and
`NeverAheadOfOracle`, for any outcomes, requests, create workers, statuses in
forms and bounds. The
invariant `IInv` says of the row *and of every row in memory* that the chain
backs it or a form stated it (`Everywhere`), and of each process about to write a status that it has
seen the fact behind it (`Seen`); it is inductive because the chain never takes
a fact back (`ChainGrows`).

## 5. `EventIndexer` and `EventLedger`

The events of one market, its parsers and the cursor they share.
`EventLedger` is what the parsers promise together: each event is entered at
most once, in the order of the blocks and not ahead of the cursor, until two
cycles of the same set have overlapped (`raced`); from then on entries may be
doubled, and the cursor may go back, but no entry is ever taken out.

| Process | Actions | Code |
|---|---|---|
| child | `Initialize`, `OpenCycle`, `Fetch`, `NothingNew`, `Commit`, `Rollback`, `UnknownOutcome`, `ShutDown`, `Exit`, `Die` | `indexer/process-scripts/prediction-set-parser.ts`, `indexer/base-process.ts` |
| planner | `Query`, `Start`, `Stop`, `ExitEvent`, `PlannerDies`, `OrphanGone` | `prediction-set-parser-planner.ts` |
| finalized-set parser | `PlanFinalized`, `Receive`, `Fetch`, `NothingNew`, `Commit`, `Rollback` | `workers/prediction-set-finalized-parser.worker.ts` |
| API request | `TriggerFinalized` | `triggerFinalizedWorker` of `prediction-set.service.ts`: the finalized-set parser, asked for by a user |
| chain, other writers | `Mine`, `Resolve`, `ChangeStatus` | external; section 4 |

`from` and `upto` are a parser's range: `from` from the moment the cursor is
read, `upto` once the events are fetched. The cursor is read without a lock and
written absolutely; the transaction contains only the inserts and the cursor.
The planner's map is `tracked`; `orphans` are children whose planner died and
of whose exit nobody hears. `plans` are answers of queries that have not been
acted on: the planner does not wait for its last query.

*What the model takes from outside, or leaves out.* A block holds at most one
event of the market (two events of a block take the same path). Funding is added
before the market is resolved and removed after; added funding stands for the
trades, which the same child enters in the same transaction. A SIGINT that a
child receives before it has registered its handlers kills it with a non-zero
exit, which the planner answers with a restart; one that it receives in the
middle of a cycle lets it commit what it had fetched, or not. Records are
counted up to 2, which is enough to tell a doubled one.

*Properties.* `AtLeastOnce`: no event behind the cursor is missing, however many
parsers overlap, unless only a parser of the other kind has passed its block
(`skipped`). This exception is the hand-over: child and finalized-set parser move
the same cursor and each enters its own kind of events only.
`ImplementsLedger`: rollback, restart and hand-over neither double an event nor
enter one that the cursor does not cover. `OpenSetIndexed`,
`FinalizedSetParsed`: events do get in.

How `raced` becomes true with one planner: the exit event of a stopped child
deletes the map's entry of its successor, which then runs untracked beside the
next one that is started (`prediction-set-parser-planner.ts:35`).

*Runs and bounds.* `indexer`: two children (the stopped one and its successor),
one executor, three blocks with a range of up to two, so that a backlog takes
several cycles and a range may contain both kinds of event; one change of the
status, one failure, one message. The children are interchangeable; only safety
and the refinement are checked under that symmetry. `indexer_live`: one child,
because with one child "restarted" cannot be confused with "another one runs".

*Fairness.* A living process goes on with its loop, exits are noticed, the
planner's timer fires and its queries are answered, messages are handled. No
block has to be confirmed and no status has to change.

*Proofs* (`ChainJobsProofs`). `TypeCorrect`, `NoEventLost` (`AtLeastOnce`) and
`Refinement` (`Spec => Ledger!Spec`), for any parsers, block size and bounds. A
step is one of six shapes for the ledger: a block, an opened cycle, a fetch, a
commit, a closed cycle, nothing; the proofs split on the shapes, not on twenty
actions. The invariant is about every open cycle: everything before its range is
covered, wherever the cursor is by now (`CycleSound`); and as
long as nothing has raced there is one open cycle, it starts right after the
cursor, and nothing after the cursor is entered (`OneCycle`).

## 6. `Proposals`

Rounds, proposals and their votes, with the worker that ends a round.

| Process | Actions | Code |
|---|---|---|
| request: create | `BeginCreate`, `Insert` | `proposal.service.ts` `createProposal` |
| request: vote | `BeginVote`, `LookUpVote`, `ChangeVote`, `InsertVote`, `AwardVote` | `voteOnProposal`, `awardPoints` |
| request: change, delete | `BeginUpdate`, `Change`, `BeginDelete`, `Delete` | `updateProposal`, `deleteProposal` |
| worker | `Select`, `Finalize`, `FinalizeFails` | `workers/finalize-proposal-rounds.worker.ts` |
| time, failures | `EndRound`, `RequestFails` | the round's `endTime`; rejected moderation, failing statements |

A request reads what it checks in its first action and writes in a later one;
between them everybody else may move. The worker is one process (section 3) and
its transaction is one action. Votes are accepted until the round is FINISHED,
not until its time is over, and a change of a proposal writes back the status it
has read, so that a proposal deleted meanwhile is there again: the model takes
both steps, no document says otherwise, and no property judges them.

*Properties.* `RewardedOnce`: the number of an author's rewards is the number of
their won rounds at every moment, through failing transactions and repeated
attempts (`WinnersRewardedOnce`); the row of a revoked vote stays, and the
unique key decides between two concurrent first votes, so no vote is paid twice
(`VotesRewardedOnce`). `EditedUnvotedUnlessOverlap`: a proposal with votes is
changed only if the vote came while the change was under way; `RoundsFinished`.

*Run and bounds.* `proposals`: two users with one proposal each (a contested
winner), two requests, three rounds (two are ended, one may be empty), one
failure, up-votes and their revocations; with down-votes the run asks nothing
new of these properties, since which proposal leads is open either way. That the
first round exists is assumed: nothing in the repository creates it.

*Fairness.* The worker selects and handles its rounds. A failure is possible at
each attempt, `MaxFailures` of them in all.

*Proofs* (`ProposalsProofs`). For any finite sets of users, proposals and
requests: `TypeCorrect`, `OneRoundAtATime` (there is always one ACTIVE round),
`Rewarded`, `VotedProposalsKept`. The invariant says that the last round is
the ACTIVE one and that the worker holds no other (`RoundsSound`), and what a
request may rely on although it read it earlier: its round exists, and a vote it
found has not gone (`RequestsSound`). The counts are cardinalities of the sets
of won rounds, of proposals voted on and of requests that still owe a reward; a
step adds or removes one element. `VotedProposalsKept` adds that a change under
way has either still no votes against it or is in `overlapped` (`EditsSound`).

## 7. `ApiProxy`: `LocalCache`, `ApiProxyCache`, `ApiKeys`

Lambda instances that answer GET requests from memory, from a shared MySQL row,
or from the external API, and the keys their callers must show.

| Process | Actions | Code |
|---|---|---|
| request, up to the lock | `Arrive`, `SharedHit`, `Receive`, `SharedMiss`, `Insert`, `Verify`, `LockFails` | `api-proxy.mjs` `handler`, `mysql-cache.mjs` `getResultFromMysql`, `acquireCacheLock` |
| request that waits | `PollHit`, `Receive`, `PollLocal`, `GiveUp`; left behind: `LateHit`, `LatePoll` | the poll of 5 s that races a timer of 6 s |
| request that calls | `CallSucceeds`, `StoreFails`, `CallFails`, `BeginDirect`, `EndDirect` | the call, `storeResultInMysql`, `cleanupInFlightEntry` |
| platform | `Die`, `Tick` | the function's time limit, reclaimed instances |
| key worker | `FetchSigners`, `ReadEncrypted`, `ReadDecrypted`, `SaveEncrypted`, `SaveDecrypted`, `RunFails` | `generate-api-keys.worker.ts`, `api-keys-storage.ts` |
| the proxy's keys | `CheckKey`, `KeysAge` | `apiKeysCache` of `api-proxy.mjs` |

`LocalCache` is pure: the memory cache's operations on its map, its order of
access and its running total, eviction and sweep included. Time in
`ApiProxyCache` is what is left of each period, so no clock grows: a row keeps
the time left to it, a request its age. A shared answer is found by the SELECT
(`SharedHit`, `PollHit`, `LateHit`) and stored in memory when it has reached the
instance (`Receive`, `LatePoll`), after the `await`
(`mysql-cache.mjs:242-247`, `api-proxy.mjs:359-362`): its age grows in between, and its
time to live starts only then (`local-cache.mjs:147`).

The composition `ApiProxy` lets requests in only while a key is accepted.
Requests are followed under one set of keys: those of all signers whose public
key can be loaded (`Settled`). Before that state the keys move, after it the
requests do. The two parts share no variable but what `Admits` reads, so the
bound drops no interaction that the code has.

*Properties.* `OneHolder`: one living request at most calls the API with a key's
lock, although locks expire and tokens change on a retry. `LocalAnswersYoung`:
an answer copied from the shared row gets a whole new time to live when it is
stored, so answers may be older than twice the TTL, by a request's life at most.
That bounds the copies that a request waits for. A poll whose request gave up
after 6 s (`local-cache.mjs:173`) stays under way while Lambda freezes the
instance, for any time, and then stores an answer of any age as if it were new; the code
has no bound for it, and the property exempts what such a poll stores
(`behind`). `MemoryWithinLimits`: a poll
that outlives its wait may store a key twice; the total may then count too much,
never too little. `LockPassesOn`: no lock stays for ever, not even that of an
INSERT whose token nobody knows. `AcceptedIsPublished`: the two files are written
one after the other, and the proxy never accepts a key the signer was not sent.
`EverySignerAdmitted`: each listed signer can use the proxy in the end - unless
a public key is listed that passes the worker's filter and cannot be loaded
(`generate-api-keys.worker.ts:206`): then `generateApiKeys` throws for all of
the batch, every day. Two overlapping executions of the worker can lose keys of
each other, and the properties promise nothing after that.

*Run and bounds.* `proxy`: two instances and one cache key with a unit of 30 s
(a lock of two units, a TTL and a request's life of one), one instance on which a
poll may outlive its wait (`MaxLate`; what it finds is not followed by its age,
`MaxAge`, because the property exempts it), three signers of whom one has a malformed key, one execution of
the worker at a time, four batches of keys and two failures. Two instances
contend for the lock and a third would only wait in the same way; one key is
enough because rows and locks of different keys never meet, and the eviction
order is exercised by a key that stands in it twice.

*Fairness.* The worker is run again after a failure, callers' keys are checked,
the memory of keys ages. Clients go on asking; time passes; a request ends in its
time; and an INSERT is not refused for ever. No owner of a lock is assumed to
live. Each condition is stated in the phase it belongs to.

*Proofs* (`ApiProxyProofs`). `KeysTypeCorrect` and
`KeysPublished` (`AcceptedIsPublished`), for any signers, executions and bounds:
an execution that is alone has read what is still in the files, and what it
will write contains it (`WritesSound`). `OneHolderAlways`, for any instances,
keys and time limits with `LambdaTimeout < LockTimeout`
(30 s in `proxy/deploy-proxy.sh:68`, 60 s in `mysql-cache.mjs:101`): what is left of
a row and the age of the request whose token it carries add up to `LockTimeout`
at least (`RowLasts`), so a living owner's row never expires. `AnswersStayYoung` and
`MemoryStaysWithinLimits` need what `CInv` says of each memory cache (`CacheSound`):
every entry stands in the order of access, where eviction looks, the running total is
no less than the sizes of the entries, and age and time left to live of a copy stay below twice the TTL and a request's
life - a shared answer has at most the TTL left when it is found (`Answered`), and on its
way it ages no more than the request that waits for it. Copies of polls left behind are
the exemption. Each operation of `LocalCache` keeps that, a lookup or
an eviction that drops a key which stands in the order twice included
(`ProxyTypeCorrect`: the total never gets negative). `ProxyImplementsParts`: the
composition implements `ApiProxyCache!Spec` and `KeysSpec`, hence `ProxySafe`.

## 8. `ClaimsParser`: `RewardPoints`, `Accounts`

Requests of users that read a row and write all of it later, the points they
earn, and the parser of the winners' claims that looks for their users.

| Process | Actions | Code |
|---|---|---|
| first login | `FirstLogin`, `Register`, `RegisterFails` | `user.service.ts` `loginWithWallet` |
| profile and email | `Authenticate`, `Rename`, `UpdateProfile`, `UpdateEmail`, `SendEmailVerification` | the middleware that reads the user, `updateProfile`, `updateEmail` |
| verification | `OpenToken`, `VerifyEmail`, `Abort` | `changeEmail` |
| daily reward | `CheckDaily`, `ClaimDaily`, `DropClaim`, `NewDay` | `reward-points.service.ts` |
| parser | `ParseClaims` | `claims-parser.worker.ts`, a batch in one transaction |
| chain | `Mine` | external |

*Properties.* `DailyOnceUnlessOverlap`: one daily reward a day, unless two claims
overlap - no key forbids a second row. `VerifiedEmailWasMailed`: whole rows of
old snapshots are written back and tokens outlive the change they were made for,
yet a verified email is one its user was sent a token for. `ClaimsPaidOnce`:
below the cursor each claim of a known set is recorded and rewarded once, for a
user of its wallet. `ClaimsParsed`: claims do get in, except behind one that the
parser cannot handle (`Wedged`): it rolls back and returns before the cursor
moves, and the job reports success. A wallet whose abbreviated address is
somebody's name can never register, so a wedge of this kind lasts.

*Run and bounds.* `accounts` plays three scenes, one per behaviour: emails (one
request changes, another logs in and verifies), claims (three in four blocks: one
of a wallet that logs in late, one of an unknown set, one of an index set that is
no outcome's), and daily rewards. Two users and two requests let every pair of
handlers of a scene interleave; requests of different scenes touch different
columns or tables, but for the row of the user, which is in all of them.

*Fairness.* The parser runs again, a request ends. That a wallet with a claim
logs in is an assumption about people, without which the code does not parse
what comes after (strong fairness on its first login and registration).

*Proofs* (`ClaimsParserProofs`). `DailyOnce`, `VerifiedMailed`, `ClaimsPaid`, for
any users, scenes, requests, chains and batch sizes. The invariant follows the rows into the
requests: every snapshot in memory is as sound as the row it was read from
(`DoingSound`), and unless `raced`, one request at most has seen no reward and
none is there (`DailySound`). A batch adds to the awards of each user what it
adds to the user's rows: cardinalities of disjoint sets.

## 9. `Attestations`

One automatic set from the end of its market to its resolution: three jobs that
share rows and no transaction.

| Process | Actions | Code |
|---|---|---|
| requester | `SelectUnattested`, `ReadAttestations`, `Prepare`, `Submit`, `InsertAttestation`, `PassOver`, `RequesterDies` | `flare/request-attestation.worker.ts` |
| prover | `SelectUnproved`, `Prove`, `Unproven` | `flare/request-attestation-proof.worker.ts` |
| finalizer | `SelectResolved`, `ReadEvidence`, `Verify`, `FinalizeQuestion`, `SaveStatus`, `GiveUp` | `flare/finalize-automatic-prediction-sets.worker.ts` |
| clock, data connector | `TimePasses`, `Ripen`, `CloseRound` | external |

The paying job is modelled with overlapping executions (section 3 says when they
occur); the other two write nothing that a second execution could spoil.

*Properties.* `EvidenceComplete`: the finalizer compares numbers only, and yet
the oracle gets a proof of every source - unless two requesters were at work at once, who can
attest one source twice and another never. `PaidOnce`: a source with a row is not paid for
again; a payment whose row was not inserted is repeated, which the code cannot
know. `ProofFetched`, `Resolved`: evidence that exists is fetched, a due set is resolved or given up, unless
a proof is refused (the job then retries for ever) or the job died between the
oracle's transaction and the update.

*Run and bounds.* `attestations`: two sources, two requesters, two rows and two
payments. Two rows suffice for a source that is attested twice with another
missing and equal counts; failures and deaths are unbounded.

*Fairness.* The three jobs run again and again, and a call that could succeed
does not fail for ever. Nothing makes a requester succeed, a round include a
request, or time come.

*Proofs* (`ChainJobsProofs`). `EvidenceIsComplete`, `NothingPaidTwice`, for any
finite set of sources, any requesters and bounds. Unless two requesters have
worked at once, what the one has still to do is not attested (`WorkSound`), so no two rows have
one source (`RowsApart`), and by cardinality as many rows as sources are rows of
all of them.

## 10. `MarketReads`: `SqlLists`, `Outcomes`, `Portfolio`, `OutcomeChances`, `Community`, `SetLists`

What users see of a market, and of the list of markets. `Portfolio` has the rows that the parsers insert
(`Buy`, `Sell`, `AddFunding`, `RemoveFunding`, `ClaimWinnings`) and, as
operators, the queries over them: open positions with their average price,
predictions, holders, volumes, activity, funding positions, rankings, each with
its joins and filters as they are. `SqlLists` is the paging that all lists share.
`OutcomeChances` is the planner, the messages and the executors that read
balances from the chain and insert a row per outcome without a transaction.
`Community` is comments and watchlists, each request a read and a later write.
`SetLists` is the list of sets: who may see which, in which order, and a reader who
follows the totals from page to page (`Ask`, then `ReadItems` and `ReadTotal` of each
page in either order, because the code launches both queries at once on two
connections, `sql-utils.ts:206-209,264-266`) while sets proceed, are funded, end, are hidden or deleted. The words, the category and the
token a reader filters by are abstracted to the sets that match; the reader orders
by id, because without an order the code leaves sets of one rank in any order.

*Properties.* `CostIsFifo` checks the code's average price against a reference
kept as history, a first-in first-out account: `left` has what is left of each purchase,
and a sale takes from the oldest. The code looks at the newest
purchases only and never at when the sales were made, and that is the same - but
for shares sold that came from elsewhere and for purchases of one second, which
MySQL returns in any order.
`PositionsAgree`, `VolumesReconcile`: queries written apart give one answer, but
for what the definitions name (fees, a funder's shares, two claims of one
outcome, which multiply the joined rows). `ListsComplete`: the total comes from another query than the items;
asking for all pages it announces shows all items, unless ids of the united
tables collide - `UNION` then counts them once and the last items are on no page
(`PagesReachEverything`). A reader who pages through a list that changes sees every set
that kept its place, but for two exceptions (`ReaderMissesNothing`): a set that leaves or
falls back pulls others over the edge of a page already read (`fell`), and a set that
joins between a count and the items of its page pushes others past the last page the
total announced (`short`). Without either exception, or with sets that move ahead counted
as kept, TLC finds a missed set. What is listed can be opened by the same user, although two
pieces of code decide it (`ListedIsOpened`).
`ChancesConsistent`: the newest rows are of one reading when the last refresh was
alone. The column is `DECIMAL(8,4)`, so the chances are rounded (`Rounded`) and need not
sum to one: three equal outcomes show 0.9999. What holds is that they miss one by
at most half a unit of the column for each outcome, that a larger reserve has no larger
chance, and that the reserves sum to the total. (Of the division of two doubles
the model leaves out an error of 2^-51, which matters only that close to a half.) `ChancesCatchUp`: shown chances become and stay those of the pool.
`ThreadsComplete`: a reply is shown in its thread and nowhere else, although it
may name an entity of its own; a reply to a reply is accepted and shown nowhere.
`DeletedUnlessOverlap`: only a change that was under way brings a deleted comment
back. `WatchAnswersHold`: requests that add twice do not leave a row behind that
the next removal misses; a user whose requests did not overlap sees what they were
told.

*Run and bounds.* `market_reads` explores six small markets, one for each
question: a ledger of one user and outcome with four purchases and sales at equal
or later seconds; three rows of any kind by two users and a wallet without an
account on two outcomes; chances of three outcomes (two moves of the pool among three
reserves - equal ones, three that differ, and one with an empty outcome -, two executors,
three messages, one death, and a `Scale` of 10 where the column has 10,000: a tenth rounds
three equal chances just as four decimals do); comments (three, so that a reply to a reply
exists) and watchlists (four rows), with an author and an administrator; a list of four sets in four states,
three steps of them while a user or an administrator reads pages of one or two. These parts share no row, which is
why one run may explore them side by side. Where the code has decimals the model
counts in whole units (`Unit`); `CostIsFifo` rounds a purchase's worth alike on both
sides, so it is an equality for any amounts.

*Fairness.* The planner is scheduled again and again, inserts end, and a message
is received in the end. Nothing is assumed of the indexer's message, which may be lost.

*Proofs* (`MarketReadsProofs`, with `FoldTheorems`). For any users, rows, visits, sets
and requests, and for any number of outcomes and any balances.

* `CommunityCorrect` has the inductive invariant `CommunityInv`: what is written
  names a parent that exists (`ParentsExist`); a change under way is of a comment
  that was not deleted, or is in `raced` (`EditsFollowed`); a user has one watch row
  at most (`OneRow`), and an add or a remove that is `alone` still finds what it read,
  with no other one of its user beside it (`AloneReads`). From it `DeletedStayDeleted`,
  `WatchlistAnswersTrue` and, by cardinality of the places a comment is shown in,
  `CommentsShownOnce`.
* `ChancesCorrect` has `ChancesInv`: what an executor has read is a funded pool
  (`ReadsFunded`); one that is alone is the only one (`LoneRefresh`); and as long as
  no other refresh has met it, the rows before its `next`, and all rows when none
  runs and nothing is `torn`, are those of one reading (`OneReading`).
  `ChancesOfOneReading` follows because the chances of one reading are products of
  the *other* balances over one sum: the exact ones add up to one, rounding keeps their
  order (`RoundedGrows`) and moves each by half a unit at most (`RoundedIs`), and so the
  sum by half a unit for each outcome (`SummedNear`). It holds for every `Scale`.
* `TransactionsTyped` has `RowsTyped`: the rows are of their tables, the explored
  market stays one, and removed funding has no collateral. That is all the queries
  need: `VolumesAddUp` and `PositionsTold` hold in *every* state with such rows. They
  regroup one sum in several ways - by outcome, by owner (`SummedByOwner`: each row
  has one), by type, and as amount less fee - so that the proof is about where each
  row is counted, and once.
* `ListsCorrect` has `ListsInv`. Its part `PlacesKept` says of a reader under way: as long
  as nothing has fallen back, a set that kept its place is still listed, and if fewer
  sets are before it than the pages read so far hold (`PagesRead`, the page under way
  included once its items are read), it has been seen. A step of
  another set can only put more sets before it (`BecomesInv`), the order gives every set one place
  (`SetListIs`), and behind the last page that a total announces there is no place
  (`PastThePages`). `ListsReadWhole` adds that pages up to a total no smaller than the
  list hold all of it (`AllReached`; a total counted before the items is such a one unless it
  was `short`), that the union's total is no smaller while ids
  differ (`ActivityCounted`: a row is told by its id) and that whoever holds shares is among those counted.
* `AccountCorrect` has `AccountInv`, which adds to the typed rows that the account is
  sound: times never fall along the ids and no purchase has more left than it bought
  (`Kept`); and, as long as a user has not oversold, what is left is what was bought less
  what was sold, and a purchase is whole when an older one has tokens left (`Balanced`). A sale keeps both because what it takes is a prefix of the purchases
  (`SaleStep`, with `FirstTaken`). `CostsAreFifo` follows in any such state: the
  purchases by time are those by id (`OldestFirst`), the code's second pass takes from each
  what the newer ones have not covered (`SecondPass`), and that is what the account has
  left of it (`NewestCounted`). The theorem does not need that purchases are `Untied`,
  because `ByTime` settles ties by id; the property asks for it because the code's query does not.
* Sums and products need what folds do. The library has no theorem about
  `MapThenFoldSet`, so `FoldTheorems` proves, without induction over an operator,
  that a fold over a finite set by a commutative operation exists, is unique, and
  grows by one element at a time (`FoldExists`, `FoldsAgree`, `FoldedAdd`): the set
  of the subsets that have a fold contains the empty set and is closed under adding
  an element (`SubsetInduction`). It also proves that a total order on a finite set
  gives each element a place of its own and leaves none free (`PlacesDiffer`, `PlacesTaken`),
  that a fold over a sequence is determined step by step (`SequenceFoldExists`), and
  what taking the first so many of a sum leaves (`FirstTaken`).

The assumptions on the constants: finitely many users and sets, outcomes numbered
from zero, and that the bounds (markets, requests, the sets at the start) are typed.

## 11. `Database`: `Migrations`, `ConnectionPool`

`Migrations` has the two migrators, their tables of scripts that ran, the
commands of `migration-scripts` (upgrade, downgrade, seed, unseed, rebuild; one
script or all) and one script of each sort: CREATE TABLE IF NOT EXISTS, ALTER
TABLE, a seed with explicit ids, one without a key, one of several INSERTs. The
downgrade of the jobs' seed (`seeds/2-prediction-set-jobs.ts:25-35`) is refused by
MySQL, because it is eight statements in one query; if it ran it would leave the
ninth job, `FINALIZE_PROPOSAL_ROUNDS`, behind (`Deleted`, the row `rounds`). A
script and its record are two steps, and the process may stop anywhere (`Die`) or
be refused by MySQL (`Abort`). `ConnectionPool` has the client that all requests
of a process share. A request is a short program over connections: `get`, a statement that
gives its connection back, a statement that rolls back when it fails, one outside
a `try`, `commit`. `Script` lists the programs of four kinds of request;
`createPredictionSet` takes a second connection while it holds one
(`prediction-set.service.ts:106`) and throws without a rollback, which loses the
first.

*Properties.* `SeededOnce`: no order of commands puts a seeded row in twice,
unless a seeding was left in the middle (then it does: the second attempt repeats
the script). `LentOnce`: a connection is free, lent to one request, or lost, also
when it is given straight to one that waits and when the pool is replaced.
`ServedUnlessStarved`: who waits is served, unless all connections of the pool are
lost or with requests that wait for one themselves. Both cases do occur in this
code (a validation error after `start`; as many creators as connections).

*Run and bounds.* `database`: four migrations and three seeds, at most two copies
of a row; then three requests (one creates, one creates or edits, one reads or
saves) on two connections, a queue of one and a pool that is replaced once. Two
creators fill the pool, the third request finds it starved. Requests are followed on a complete
database only (`Complete`): the API is started on the schema the scripts made, and
nothing in the code runs scripts under a running API.

*Fairness.* A request takes its next step (Node's event loop and MySQL answer);
statements may fail every time.

*Proofs* (`InfrastructureProofs`). `DatabaseTypeCorrect`, `SeedsInsertedOnce`,
`ConnectionsLentOnce`, for any requests, any connections and limits; `Does` says what
each request may be asked to do (the run takes the three mixes above). For the seeds:
the rows of a seed are at most what the record of its script, together with the part
of a script under way that is done, accounts for (`Placed`, `InsertedOnce`). For the
connections: at each step of its program a request has exactly as many connections
as the steps before it took (`Stepping`), who stands in a queue is about to take one
and stands there once (`Queued`), no request has one connection twice (`Distinct`), and
free, lent and lost exclude one another (`Exclusive`). So a release never meets a
queue's head that cannot use the connection, which is why one that is given on
directly is neither lost nor lent twice.

## 12. What is proved, and what is only model-checked

Proved for every value of the constants, from the named assumptions on constants
of each module and nothing else:

| Theorems | Properties of the runs they state |
|---|---|
| `InfrastructureProofs`: `LockFieldsNeverDisagree`, `SingleThreaded`, `TypeCorrect` | `LockFieldsAgree`, `SingleThreadUnlessOverlap` |
| `InfrastructureProofs`: `SeedsInsertedOnce`, `ConnectionsLentOnce`, `DatabaseTypeCorrect` | `SeededOnce`, `LentOnce` |
| `PredictionSetLifecycleProofs`: `NeverAheadOfMarket`, `NeverAheadOfOracle` | `MarketBehindStatus`, `OracleBehindStatus` |
| `ChainJobsProofs`: `NoEventLost`, `Refinement`, `TypeCorrect` | `AtLeastOnce`, `ImplementsLedger` |
| `ProposalsProofs`: `Rewarded`, `VotedProposalsKept`, `OneRoundAtATime`, `TypeCorrect` | `RewardedOnce`, `EditedUnvotedUnlessOverlap` |
| `ApiProxyProofs`: `KeysPublished`, `KeysTypeCorrect` | `AcceptedIsPublished` |
| `ApiProxyProofs`: `OneHolderAlways`, `ProxyTypeCorrect`, `AnswersStayYoung`, `MemoryStaysWithinLimits` | `OneHolder`, `LocalAnswersYoung`, `MemoryWithinLimits` |
| `ApiProxyProofs`: `ProxyImplementsParts`, `ProxySafe` | the four above, of the composed proxy |
| `ClaimsParserProofs`: `DailyOnce`, `VerifiedMailed`, `ClaimsPaid` | `DailyOnceUnlessOverlap`, `VerifiedEmailWasMailed`, `ClaimsPaidOnce` |
| `ChainJobsProofs`: `EvidenceIsComplete`, `NothingPaidTwice` | `EvidenceComplete`, `PaidOnce` |
| `MarketReadsProofs`: `CommunityCorrect`, `WatchlistAnswersTrue`, `DeletedStayDeleted`, `CommentsShownOnce` | `WatchAnswersHold`, `DeletedUnlessOverlap`, `ThreadsComplete` |
| `MarketReadsProofs`: `ChancesCorrect`, `ChancesOfOneReading` | `ChancesConsistent` |
| `MarketReadsProofs`: `TransactionsTyped`, `VolumesAddUp`, `PositionsTold` | `VolumesReconcile`, `PositionsAgree` |
| `MarketReadsProofs`: `AccountCorrect`, `CostsAreFifo` | `CostIsFifo` |
| `MarketReadsProofs`: `ListsCorrect`, `ListsReadWhole` | `ListsComplete` |

Each follows one pattern: an inductive invariant that says of every process what
it may rely on from a read it made earlier, one lemma per action (or per shape of
action) that keeps it, and a last step that puts initial states, steps and
consequence together. The invariants above are not inductive by themselves
because they speak of rows only, and the next state is computed from rows in
somebody's memory.

Only model-checked is liveness: `JobRunsAgain`, `PendingAnswered`,
`DecidingVoteCounts`, `OpenSetIndexed`, `FinalizedSetParsed`, `RoundsFinished`,
`LockPassesOn`, `EverySignerAdmitted`, `ClaimsParsed`, `ProofFetched`, `Resolved`,
`ChancesCatchUp`, `ServedUnlessStarved`. Fairness and ENABLED are out of the prover's
reach.

Every safety invariant and action property of a passing run is a theorem. The type
invariants are theorems where the table says so (`TypeCorrect`, `DatabaseTypeCorrect`,
`KeysTypeCorrect`, `ProxyTypeCorrect`); the others are proved as far as the
inductive invariants need them, and are part of the modules as documentation.

## 13. What is not modelled, and why

* **Redis cache** (`lib/cache.ts`, `interceptors/cache.interceptor.ts`): no route
  uses the interceptor and nothing calls the invalidation; the program does not
  reach it.
* **Airdrop sign-up**: one insert per request, decided by the table's unique keys.
* **Banners, data sources, templates**: plain create, read, update and delete by
  administrators; templates produce text.
* **Collateral token price**: one column from an external feed under the job lock.
* **Indexer health check**: reads cursors and sends an alert; changes nothing.
* **Files, mail, social media, Slack**: calls of external services with formatted
  text.
* **Controllers, guards, filters, scripts**: routing, validation of forms, roles.
* **In part**: the SQS redrive policy (a message goes to the dead-letter queue
  after 30 receives) and batches of messages; the chart
  of chances, time ranges of statistics; the building
  of SQL text, and the tables of the scripts beyond one of each sort.

Two hazards have no property, each with its reason in `PROJECT.json`: a message
that is swallowed after PENDING is committed (nothing in the code ever sends it
again), and a factory event without its chain data, which stops that parser for
all later events.

`PROJECT.json` lists every component with its status, every definition with the
lines it models, and every hazard with the properties that cover it.
