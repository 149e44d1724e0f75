------------------------------ MODULE SetLists -------------------------------
(***************************************************************************)
(* The list of prediction sets and one reader of it.  The reader asks for  *)
(* page after page, ordered by id; every page is two queries, its items    *)
(* and the total, which run at once on two connections (getList,           *)
(* selectAndCountQuery).  Meanwhile the sets go on with their lives.       *)
(***************************************************************************)
EXTENDS SqlLists, SequencesExt

CONSTANTS
  SetId,       \* prediction sets, by their number
  Shelf,       \* bound: the sets that there are when the reader comes
  Request,     \* bound: what the reader may ask for
  MaxSetSteps  \* bound: steps of the sets while the reader is there

VARIABLES
  sets,     \* prediction_set, and whether a set has a funding transaction
  reading,  \* the reader
  setSteps  \* steps the sets have made

listVars == <<sets, reading, setSteps>>

Drafts == {"ERROR", "INITIALIZED", "PENDING"}
SetStatus == Drafts \cup {"FUNDING", "ACTIVE", "VOTING", "FINALIZED"}

ListedSet == [setStatus : SetStatus, ended : BOOLEAN, hide : BOOLEAN,
              funded : BOOLEAN, deleted : BOOLEAN]

\* admin: the administrators' route; isAdmin: the role.  status: {} when the query has
\* none.  match: the sets that have the words, the category and the token asked for,
\* and are watched if that was asked.
Query == [admin : BOOLEAN, isAdmin : BOOLEAN, status : SUBSET SetStatus,
          match : SUBSET SetId, limit : Nat]

ASSUME SetListsAssumption ==
  /\ IsFiniteSet(SetId) /\ SetId \subseteq Nat
  /\ Shelf \in [SetId -> ListedSet]
  /\ Request \subseteq Query

ListTypeOK ==
  /\ sets \in [SetId -> ListedSet]
  /\ setSteps \in 0 .. MaxSetSteps

-----------------------------------------------------------------------------
(* The queries *)

InStatus(q, row) ==
  IF q.status = {} THEN q.admin \/ row.setStatus \notin Drafts
  ELSE row.setStatus \in q.status

\* The WHERE of getList
Listed(q, id, row) ==
  /\ ~ row.deleted
  /\ InStatus(q, row)
  /\ row.setStatus = "FUNDING" => (q.isAdmin \/ row.funded) /\ (q.admin \/ ~ row.ended)
  /\ q.isAdmin \/ ~ row.hide
  /\ id \in q.match

\* getPredictionById
Opened(q, row) == ~ row.deleted /\ (q.isAdmin \/ ~ row.hide)

\* The ORDER BY of getList, before the id
Rank(q, row) ==
  CASE q.admin -> 0
    [] ~ q.admin /\ row.setStatus = "ACTIVE" -> IF row.ended THEN 3 ELSE 1
    [] ~ q.admin /\ row.setStatus = "FUNDING" -> 2
    [] ~ q.admin /\ row.setStatus = "VOTING" -> 4
    [] ~ q.admin /\ row.setStatus = "FINALIZED" -> 5
    [] OTHER -> 6

Found(q) == {id \in SetId : Listed(q, id, sets[id])}

SetList(q) ==
  Ordered(Found(q), LAMBDA a, b : \/ Rank(q, sets[a]) < Rank(q, sets[b])
                                  \/ Rank(q, sets[a]) = Rank(q, sets[b]) /\ a < b)

-----------------------------------------------------------------------------
(* The reader *)

NoReader == [at |-> "away"]

ListInit ==
  /\ sets = Shelf
  /\ reading = NoReader
  /\ setSteps = 0

\* read: which of the page's two queries have been answered.
\* kept: history, the sets that have kept their place since the reader came;
\* fell: history, some set has left the list or fallen back in it;
\* short: history, some total was counted before the items of its page and was less
\* than the list had when they were read.
Ask(q) ==
  /\ reading.at = "away"
  /\ reading' = [at |-> "reading", query |-> q, page |-> 1, read |-> {}, total |-> 0,
                 seen |-> {}, kept |-> Found(q), fell |-> FALSE, short |-> FALSE]
  /\ UNCHANGED <<sets, setSteps>>

\* When both queries are answered the reader goes on to the next page, as long as the
\* total announces one.
Turned(r) ==
  CASE r.read # {"items", "total"} -> r
    [] r.read = {"items", "total"} /\ r.page + 1 \in Pages(r.total, r.query.limit) ->
         [r EXCEPT !.page = @ + 1, !.read = {}, !.total = 0]
    [] OTHER -> [r EXCEPT !.at = "done"]

WithItems(r, list) ==
  [r EXCEPT !.read = @ \cup {"items"},
            !.seen = @ \cup ToSet(PageOf(list, r.page, r.query.limit)),
            !.short = @ \/ ("total" \in r.read /\ r.total < Len(list))]

ReadItems ==
  /\ reading.at = "reading" /\ "items" \notin reading.read
  /\ reading' = Turned(WithItems(reading, SetList(reading.query)))
  /\ UNCHANGED <<sets, setSteps>>

WithTotal(r, total) == [r EXCEPT !.read = @ \cup {"total"}, !.total = total]

ReadTotal ==
  /\ reading.at = "reading" /\ "total" \notin reading.read
  /\ reading' = Turned(WithTotal(reading, GroupTotal(Found(reading.query), [id \in SetId |-> id])))
  /\ UNCHANGED <<sets, setSteps>>

-----------------------------------------------------------------------------
(* The sets.  When a set may take which step, and how the writers of its row *)
(* race, is in PredictionSetLifecycle: here a set just takes the next one.   *)

\* What a step of a set does to the reader's history
Noted(id, row) ==
  IF reading.at # "reading" THEN reading
  ELSE LET q == reading.query
           before == Listed(q, id, sets[id])
           after == Listed(q, id, row)
           back == Rank(q, row) - Rank(q, sets[id])
       IN  [reading EXCEPT
              !.kept = IF before /\ after /\ back = 0 THEN @ ELSE @ \ {id},
              !.fell = @ \/ (before /\ (~ after \/ back > 0))]

Becomes(id, row) ==
  /\ setSteps < MaxSetSteps
  /\ sets' = [sets EXCEPT ![id] = row]
  /\ setSteps' = setSteps + 1
  /\ reading' = Noted(id, row)

\* The form that updates a set without a market may state any status.
NextStatus ==
  [INITIALIZED |-> SetStatus, PENDING |-> {"FUNDING", "ERROR"}, ERROR |-> SetStatus,
   FUNDING |-> {"ACTIVE"}, ACTIVE |-> {"VOTING", "FINALIZED", "ERROR"}, VOTING |-> {"FINALIZED"},
   FINALIZED |-> {}]

\* The parser starts the trading with the funding.  Nothing ties endTime to the resolution.
Proceed(id, status) ==
  /\ ~ sets[id].deleted
  /\ status \in NextStatus[sets[id].setStatus]
  /\ sets[id].setStatus = "FUNDING" => sets[id].funded
  /\ Becomes(id, [sets[id] EXCEPT !.setStatus = status])

Fund(id) ==
  /\ sets[id].setStatus = "FUNDING" /\ ~ sets[id].funded
  /\ Becomes(id, [sets[id] EXCEPT !.funded = TRUE])

\* endTime passes.
Ends(id) ==
  /\ ~ sets[id].ended
  /\ Becomes(id, [sets[id] EXCEPT !.ended = TRUE])

Hide(id, hide) ==
  /\ ~ sets[id].deleted
  /\ Becomes(id, [sets[id] EXCEPT !.hide = hide])

DeleteSet(id) ==
  /\ ~ sets[id].deleted /\ sets[id].setStatus \in {"INITIALIZED", "ERROR"}
  /\ Becomes(id, [sets[id] EXCEPT !.deleted = TRUE])

ListNext ==
  \/ \E q \in Request : Ask(q)
  \/ ReadItems \/ ReadTotal
  \/ \E id \in SetId :
       \/ \E status \in SetStatus : Proceed(id, status)
       \/ Fund(id) \/ Ends(id) \/ DeleteSet(id)
       \/ \E hide \in BOOLEAN : Hide(id, hide)

-----------------------------------------------------------------------------
(* Properties *)

\* A reader who has followed the totals to the end has seen every set that kept its
\* place, although items and totals are read at different moments and sets join the list,
\* or move ahead in it, meanwhile (prediction-set.model.ts:1198-1236).  Two things may hide
\* one from it: a set that leaves or falls back pulls others over the edge of a page already
\* read, and a set that joins between a count and the items of its page pushes others past
\* the last page announced, as both queries are launched at once (sql-utils.ts:206-209).
ReaderMissesNothing ==
  reading.at = "done" /\ ~ reading.fell /\ ~ reading.short =>
    reading.kept \subseteq reading.seen

\* What a reader is shown in the list can be opened, whatever status was asked for
\* (prediction-set.model.ts:1198-1206 against prediction-set.service.ts:434-460).
ListedIsOpened ==
  \A q \in Request : \A id \in Found(q) : Opened(q, sets[id])
=============================================================================
