----------------------------- MODULE Community ------------------------------
(***************************************************************************)
(* Comments under prediction sets and proposals (comment.service.ts) and   *)
(* the users' watchlists of one set (prediction-set.service.ts).  Every    *)
(* request reads first and writes later, with nothing locked in between.   *)
(***************************************************************************)
EXTENDS Naturals, Sequences, FiniteSets

CONSTANTS
  Member,       \* users with an account
  Admin,        \* those of them who may delete any comment
  Entity,       \* prediction sets and proposals
  Visit,        \* concurrent requests
  Caller,       \* bound: users each of them may come from
  Acts,         \* bound: what each of them may ask for
  MaxComments,  \* bound: comments
  MaxWatches    \* bound: rows ever inserted into user_watchlist

ASSUME CommunityAssumption ==
  /\ Caller \in [Visit -> SUBSET Member]
  /\ MaxComments \in Nat /\ MaxWatches \in Nat

VARIABLES
  comments,  \* comment, by id
  gone,      \* entities that are deleted
  watch,     \* ids of the rows of each user in user_watchlist
  watches,   \* the last id of user_watchlist
  visit,     \* the requests under way
  raced,     \* history: comments deleted while a change of them was under way
  answered   \* history: what a user was told who had no other request under way

communityVars == <<comments, gone, watch, watches, visit, raced, answered>>

Comment == [user: Member, entity: Entity, parent: 0 .. MaxComments, deleted: BOOLEAN]

Away == [at |-> "away"]
Writing == [at : {"insert"}, row : Comment]
Editing == [at : {"change", "delete"}, comment : 1 .. MaxComments]
Adding == [at : {"watch"}, user : Member, alone : BOOLEAN]
Removing == [at : {"unwatch"}, user : Member, alone : BOOLEAN, row : 1 .. MaxWatches]

CommunityInit ==
  /\ comments = <<>>
  /\ gone = {}
  /\ watch = [u \in Member |-> {}]
  /\ watches = 0
  /\ visit = [v \in Visit |-> Away]
  /\ raced = {}
  /\ answered = [u \in Member |-> "nothing"]

To(v, step) == visit' = [visit EXCEPT ![v] = step]
Leave(v) == To(v, Away)

Talks == UNCHANGED <<watch, watches, answered>>
Watches == UNCHANGED <<comments, gone, raced>>

-----------------------------------------------------------------------------
(* Comments *)

\* populateByIdAllowDeleted
FoundAllowDeleted(c) == c \in DOMAIN comments

\* The text is safe; a comment that is answered exists, deleted or not, and its
\* entity exists and is not deleted.  Whose comment is answered is not looked at.
BeginComment(v, u, e, parent) ==
  /\ visit[v] = Away /\ "comment" \in Acts[v]
  /\ parent = 0 \/ FoundAllowDeleted(parent)
  /\ e \notin gone
  /\ To(v, [at |-> "insert", row |-> [user |-> u, entity |-> e, parent |-> parent, deleted |-> FALSE]])
  /\ UNCHANGED <<comments, gone, raced>> /\ Talks

InsertComment(v) ==
  /\ visit[v].at = "insert"
  /\ Len(comments) < MaxComments
  /\ comments' = Append(comments, visit[v].row)
  /\ Leave(v)
  /\ UNCHANGED <<gone, raced>> /\ Talks

\* populateById
FoundComment(c) == c \in DOMAIN comments /\ ~ comments[c].deleted

BeginChange(v, u, c) ==
  /\ visit[v] = Away /\ "change" \in Acts[v]
  /\ FoundComment(c)
  /\ comments[c].user = u
  /\ To(v, [at |-> "change", comment |-> c])
  /\ UNCHANGED <<comments, gone, raced>> /\ Talks

\* update() writes the row that was read, its status among the rest.
Change(v) ==
  /\ visit[v].at = "change"
  /\ comments' = [comments EXCEPT ![visit[v].comment].deleted = FALSE]
  /\ Leave(v)
  /\ UNCHANGED <<gone, raced>> /\ Talks

BeginDelete(v, u, c) ==
  /\ visit[v] = Away /\ "delete" \in Acts[v]
  /\ FoundComment(c)
  /\ comments[c].user = u \/ u \in Admin
  /\ To(v, [at |-> "delete", comment |-> c])
  /\ UNCHANGED <<comments, gone, raced>> /\ Talks

Delete(v) ==
  LET c == visit[v].comment
  IN  /\ visit[v].at = "delete"
      /\ comments' = [comments EXCEPT ![c].deleted = TRUE]
      /\ raced' = raced \cup {d \in {c} : \E w \in Visit : visit[w] = [at |-> "change", comment |-> d]}
      /\ Leave(v)
      /\ UNCHANGED gone /\ Talks

\* The set or the proposal is deleted; its comments stay.
DeleteEntity(e) ==
  /\ gone' = gone \cup {e}
  /\ UNCHANGED <<comments, visit, raced>> /\ Talks

-----------------------------------------------------------------------------
(* Watchlist *)

\* Requests of the user on the watchlist are alone until a second one begins.
Watching(w, u) == visit[w].at \in {"watch", "unwatch"} /\ visit[w].user = u
Beside(v, u, step) ==
  [w \in Visit |-> IF w = v THEN step
                   ELSE IF Watching(w, u) THEN [visit[w] EXCEPT !.alone = FALSE] ELSE visit[w]]

\* populateByUserAndPredictionSetId
RowsOf(u) == watch[u]

\* A request finds that nothing is left to do, or reads what it will do.
BeginWatch(v, u) ==
  LET alone == \A w \in Visit : ~ Watching(w, u)
  IN  /\ visit[v] = Away
      /\ IF RowsOf(u) # {}
           THEN /\ answered' = [answered EXCEPT ![u] = IF alone THEN "watched" ELSE "nothing"]
                /\ UNCHANGED visit
           ELSE /\ visit' = Beside(v, u, [at |-> "watch", user |-> u, alone |-> alone])
                /\ UNCHANGED answered
      /\ UNCHANGED <<watch, watches>> /\ Watches

\* The row is inserted whether the user has one or not.
InsertDuplicate(v) ==
  LET u == visit[v].user
  IN  /\ visit[v].at = "watch"
      /\ watches < MaxWatches
      /\ watch' = [watch EXCEPT ![u] = @ \cup {watches + 1}]
      /\ watches' = watches + 1
      /\ answered' = [answered EXCEPT ![u] = IF visit[v].alone THEN "watched" ELSE "nothing"]
      /\ Leave(v)
      /\ Watches

\* The unique key of the set and the user lets one row in.
InsertWatch(v) ==
  LET u == visit[v].user
  IN  /\ visit[v].at = "watch"
      /\ IF watch[u] # {} THEN UNCHANGED <<watch, watches, answered>>
         ELSE /\ watches < MaxWatches
              /\ watch' = [watch EXCEPT ![u] = {watches + 1}]
              /\ watches' = watches + 1
              /\ answered' = [answered EXCEPT ![u] = IF visit[v].alone THEN "watched" ELSE "nothing"]
      /\ Leave(v)
      /\ Watches

BeginUnwatch(v, u) ==
  LET alone == \A w \in Visit : ~ Watching(w, u)
  IN  /\ visit[v] = Away
      /\ IF RowsOf(u) = {}
           THEN /\ answered' = [answered EXCEPT ![u] = IF alone THEN "unwatched" ELSE "nothing"]
                /\ UNCHANGED visit
           ELSE /\ \E n \in RowsOf(u) :
                     visit' = Beside(v, u, [at |-> "unwatch", user |-> u, alone |-> alone, row |-> n])
                /\ UNCHANGED answered
      /\ UNCHANGED <<watch, watches>> /\ Watches

\* The row that was read is deleted by its id.
DeleteWatch(v) ==
  LET u == visit[v].user
  IN  /\ visit[v].at = "unwatch"
      /\ watch' = [watch EXCEPT ![u] = @ \ {visit[v].row}]
      /\ answered' = [answered EXCEPT ![u] = IF visit[v].alone THEN "unwatched" ELSE "nothing"]
      /\ Leave(v)
      /\ UNCHANGED watches /\ Watches

-----------------------------------------------------------------------------
\* The moderation refuses the text, or a query fails.
Refuse(v) ==
  /\ visit[v] # Away
  /\ Leave(v)
  /\ UNCHANGED <<comments, gone, watch, watches, raced, answered>>

CommentsNext ==
  \/ \E v \in Visit :
       \/ \E u \in Caller[v] :
            \/ \E e \in Entity, parent \in 0 .. MaxComments : BeginComment(v, u, e, parent)
            \/ \E c \in DOMAIN comments : BeginChange(v, u, c) \/ BeginDelete(v, u, c)
       \/ InsertComment(v) \/ Change(v) \/ Delete(v) \/ Refuse(v)
  \/ \E e \in Entity \ gone : DeleteEntity(e)

WatchlistNext ==
  \E v \in Visit : \/ \E u \in Caller[v] : BeginWatch(v, u) \/ BeginUnwatch(v, u)
                   \/ InsertWatch(v) \/ DeleteWatch(v) \/ Refuse(v)

-----------------------------------------------------------------------------
(* The list of an entity's comments *)

Threads(e) == {c \in DOMAIN comments : comments[c].entity = e /\ comments[c].parent = 0}

\* Replies of the same entity only
RepliesBelow(c) ==
  {r \in DOMAIN comments : comments[r].parent = c /\ comments[r].entity = comments[c].entity}

\* The join of the list: whatever names the comment as its parent
Replies(c) == {r \in DOMAIN comments : comments[r].parent = c}

InThread(c) == comments[c].parent = 0 \/ comments[comments[c].parent].parent = 0

\* Where a comment is shown: <<entity, thread>>
Places(c) == {p \in Entity \X DOMAIN comments : p[2] \in Threads(p[1]) /\ c \in {p[2]} \cup Replies(p[2])}

CommunityTypeOK ==
  /\ comments \in Seq(Comment)
  /\ Len(comments) <= MaxComments
  /\ gone \subseteq Entity
  /\ watch \in [Member -> SUBSET (1 .. MaxWatches)] /\ watches \in 0 .. MaxWatches
  /\ visit \in [Visit -> {Away} \cup Writing \cup Editing \cup Adding \cup Removing]
  /\ raced \subseteq DOMAIN comments
  /\ answered \in [Member -> {"nothing", "watched", "unwatched"}]

\* Every comment is shown in exactly one place, that of its thread, although a reply
\* names an entity of its own that nobody compares with its thread's - except that a
\* reply to a reply is accepted and shown nowhere (comment.service.ts:41-54,
\* comment.model.ts:147-190).
ThreadsComplete ==
  \A c \in DOMAIN comments :
    Cardinality(Places(c)) = IF InThread(c) THEN 1 ELSE 0

\* A deleted comment stays deleted, unless a change of it was under way when it was
\* deleted: that one writes the status it has read (comment.service.ts:118-163).
DeletedUnlessOverlap ==
  [][\A c \in DOMAIN comments : comments[c].deleted /\ ~ comments'[c].deleted => c \in raced]_communityVars

\* What a user was told whose requests did not overlap is what the watchlist holds: a
\* set that was removed is not watched, however the rows came about
\* (prediction-set.service.ts:617-648).
WatchAnswersHold ==
  \A u \in Member : /\ answered[u] = "watched" => watch[u] # {}
                    /\ answered[u] = "unwatched" => watch[u] = {}
=============================================================================
