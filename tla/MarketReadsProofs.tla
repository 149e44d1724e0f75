------------------------- MODULE MarketReadsProofs --------------------------
(***************************************************************************)
(* What holds of the markets' readers for every number of users, requests, *)
(* comments, outcomes, rows, sets and executors: the comments and          *)
(* watchlists of Community, the chances of OutcomeChances, the sums of     *)
(* Portfolio, and the pages of SqlLists and SetLists.                      *)
(***************************************************************************)
EXTENDS MarketReads, FoldTheorems, SequenceTheorems

-----------------------------------------------------------------------------
(* Comments and watchlists *)

\* A comment answers a comment that exists, also one that is about to be inserted.
ParentsExist ==
  /\ \A c \in DOMAIN comments : comments[c].parent \in {0} \cup DOMAIN comments
  /\ \A v \in Visit : visit[v].at = "insert" => visit[v].row.parent \in {0} \cup DOMAIN comments

\* What is being changed exists, and was not deleted unless that is on record.
EditsFollowed ==
  \A v \in Visit : visit[v].at \in {"change", "delete"} =>
    /\ visit[v].comment \in DOMAIN comments
    /\ visit[v].at = "change" /\ comments[visit[v].comment].deleted => visit[v].comment \in raced

OneRow == \A u \in Member : \A m, n \in watch[u] : m = n

\* A request that is alone does what it has read.
AloneReads ==
  \A v \in Visit : visit[v].at \in {"watch", "unwatch"} /\ visit[v].alone =>
    /\ \A w \in Visit \ {v} : ~ Watching(w, visit[v].user)
    /\ watch[visit[v].user] = IF visit[v].at = "watch" THEN {} ELSE {visit[v].row}

CommunityInv ==
  /\ CommunityTypeOK
  /\ ParentsExist
  /\ EditsFollowed
  /\ OneRow
  /\ AloneReads
  /\ WatchAnswersHold

LEMMA CommunityInitially == CommunityInit => CommunityInv
<1> SUFFICES ASSUME CommunityInit PROVE CommunityInv
  OBVIOUS
<1> USE CommunityAssumption DEF CommunityInit
<1>1. CommunityTypeOK
  BY DEF CommunityTypeOK, Away
<1>2. ParentsExist /\ EditsFollowed
  BY DEF ParentsExist, EditsFollowed, Away
<1>3. OneRow /\ AloneReads /\ WatchAnswersHold
  BY DEF OneRow, AloneReads, WatchAnswersHold, Away
<1> QED
  BY <1>1, <1>2, <1>3 DEF CommunityInv

\* What a request is doing says what it holds.
LEMMA VisitKinds ==
  ASSUME CommunityTypeOK, NEW v \in Visit
  PROVE  /\ visit[v].at = "insert" => visit[v] \in Writing
         /\ visit[v].at \in {"change", "delete"} => visit[v] \in Editing
         /\ visit[v].at = "watch" => visit[v] \in Adding
         /\ visit[v].at = "unwatch" => visit[v] \in Removing
         /\ visit[v].at \in {"away", "insert", "change", "delete", "watch", "unwatch"}
<1>1. visit[v] \in {Away} \cup Writing \cup Editing \cup Adding \cup Removing
  BY DEF CommunityTypeOK
<1> QED
  BY <1>1 DEF Away, Writing, Editing, Adding, Removing

\* A request that begins or ends on comments leaves the watchlist's invariants alone.
LEMMA CommentStepKeepsWatches ==
  ASSUME CommunityInv, NEW v \in Visit, Talks, NEW step, To(v, step),
         step.at \notin {"watch", "unwatch"}
  PROVE  OneRow' /\ AloneReads' /\ WatchAnswersHold'
<1> USE DEF CommunityInv, Talks
<1>1. OneRow' /\ WatchAnswersHold'
  BY DEF OneRow, WatchAnswersHold
<1>2. visit' = [visit EXCEPT ![v] = step] /\ visit \in [Visit -> {Away} \cup Writing \cup Editing \cup Adding \cup Removing]
  BY DEF To, CommunityTypeOK
<1>3. AloneReads'
  BY <1>2 DEF AloneReads, Watching
<1> QED
  BY <1>1, <1>3

LEMMA BeginCommentInv ==
  ASSUME CommunityInv, NEW v \in Visit, NEW u \in Caller[v], NEW e \in Entity,
         NEW parent \in 0 .. MaxComments, BeginComment(v, u, e, parent)
  PROVE  CommunityInv'
<1> DEFINE step == [at |-> "insert", row |-> [user |-> u, entity |-> e, parent |-> parent, deleted |-> FALSE]]
<1>1. To(v, step) /\ Talks /\ UNCHANGED <<comments, gone, raced>> /\ step \in Writing
  BY CommunityAssumption DEF BeginComment, Writing, Comment
<1>2. OneRow' /\ AloneReads' /\ WatchAnswersHold'
  BY <1>1, CommentStepKeepsWatches
<1>3. visit' = [visit EXCEPT ![v] = step] /\ CommunityTypeOK'
  BY <1>1 DEF To, CommunityInv, CommunityTypeOK, Talks
<1>4. ParentsExist'
  BY <1>1, <1>3 DEF BeginComment, FoundAllowDeleted, CommunityInv, CommunityTypeOK, ParentsExist
<1>5. EditsFollowed'
  BY <1>1, <1>3 DEF CommunityInv, CommunityTypeOK, EditsFollowed
<1> QED
  BY <1>2, <1>3, <1>4, <1>5 DEF CommunityInv

LEMMA InsertCommentInv ==
  ASSUME CommunityInv, NEW v \in Visit, InsertComment(v)
  PROVE  CommunityInv'
<1> USE DEF InsertComment, Leave
<1>1. visit[v].row \in Comment /\ CommunityTypeOK
  BY VisitKinds DEF CommunityInv, Writing
<1>2. OneRow' /\ AloneReads' /\ WatchAnswersHold'
  BY CommentStepKeepsWatches DEF Away
<1>3. /\ comments' \in Seq(Comment) /\ Len(comments') = Len(comments) + 1
      /\ DOMAIN comments' = DOMAIN comments \cup {Len(comments) + 1}
      /\ \A c \in DOMAIN comments : comments'[c] = comments[c]
      /\ comments'[Len(comments) + 1] = visit[v].row
  BY <1>1 DEF CommunityTypeOK
<1>4. visit' = [visit EXCEPT ![v] = Away] /\ visit \in [Visit -> {Away} \cup Writing \cup Editing \cup Adding \cup Removing]
  BY <1>1 DEF To, CommunityTypeOK
<1>5. CommunityTypeOK'
  BY <1>1, <1>3, <1>4, CommunityAssumption DEF CommunityTypeOK, Talks
<1>6. ParentsExist'
  BY <1>3, <1>4 DEF ParentsExist, CommunityInv, Away
<1>7. EditsFollowed'
  BY <1>3, <1>4 DEF EditsFollowed, CommunityInv, Away
<1> QED
  BY <1>2, <1>5, <1>6, <1>7 DEF CommunityInv

LEMMA BeginEditInv ==
  ASSUME CommunityInv, NEW v \in Visit, NEW u \in Caller[v], NEW c \in DOMAIN comments,
         BeginChange(v, u, c) \/ BeginDelete(v, u, c)
  PROVE  CommunityInv'
<1>1. PICK at \in {"change", "delete"} :
        /\ To(v, [at |-> at, comment |-> c]) /\ Talks /\ UNCHANGED <<comments, gone, raced>>
        /\ ~ comments[c].deleted
  BY DEF BeginChange, BeginDelete, FoundComment
<1> DEFINE step == [at |-> at, comment |-> c]
<1>2. OneRow' /\ AloneReads' /\ WatchAnswersHold'
  <2>1. step.at \notin {"watch", "unwatch"} /\ To(v, step)
    BY <1>1
  <2> HIDE DEF step
  <2> QED
    BY <1>1, <2>1, CommentStepKeepsWatches
<1>3. c \in 1 .. MaxComments
  BY CommunityAssumption DEF CommunityInv, CommunityTypeOK
<1>4. step \in Editing /\ visit' = [visit EXCEPT ![v] = step]
  BY <1>1, <1>3 DEF Editing, To
<1>5. CommunityTypeOK'
  BY <1>1, <1>4 DEF CommunityInv, CommunityTypeOK, Talks
<1>6. ParentsExist'
  BY <1>1, <1>4 DEF CommunityInv, CommunityTypeOK, ParentsExist
<1>7. EditsFollowed'
  BY <1>1, <1>4 DEF CommunityInv, CommunityTypeOK, EditsFollowed
<1> QED
  BY <1>2, <1>5, <1>6, <1>7 DEF CommunityInv

LEMMA TypedSequence ==
  ASSUME NEW T, NEW n \in Nat, NEW f, f = [i \in 1 .. n |-> f[i]], \A i \in 1 .. n : f[i] \in T
  PROVE  f \in Seq(T) /\ DOMAIN f = 1 .. n /\ Len(f) = n
<1>1. f \in [1 .. n -> T]
  BY Zenon
<1> QED
  BY <1>1

\* The status of one comment is written.
LEMMA StatusWritten ==
  ASSUME NEW list \in Seq(Comment), NEW c \in DOMAIN list, NEW status \in BOOLEAN,
         NEW new, new = [list EXCEPT ![c].deleted = status]
  PROVE  /\ new \in Seq(Comment) /\ DOMAIN new = DOMAIN list /\ Len(new) = Len(list)
         /\ \A d \in DOMAIN list : /\ new[d].entity = list[d].entity
                                   /\ new[d].parent = list[d].parent
                                   /\ d = c => new[d].deleted = status
                                   /\ d # c => new[d].deleted = list[d].deleted
<1> DEFINE D == 1 .. Len(list)
<1>1. /\ Len(list) \in Nat /\ DOMAIN list = D /\ c \in D
      /\ \A d \in D : list[d] \in Comment
  OBVIOUS
<1>2. new = [d \in D |-> new[d]]
  BY <1>1
<1>3. \A d \in D : new[d] = IF d = c THEN [list[c] EXCEPT !.deleted = status] ELSE list[d]
  BY <1>1
<1> HIDE DEF D
<1>4. \A d \in D : new[d] \in Comment
  BY <1>1, <1>3 DEF Comment
<1>5. \A d \in D : /\ new[d].entity = list[d].entity /\ new[d].parent = list[d].parent
                   /\ d = c => new[d].deleted = status
                   /\ d # c => new[d].deleted = list[d].deleted
  BY <1>1, <1>3 DEF Comment
<1>6. new \in Seq(Comment) /\ DOMAIN new = D /\ Len(new) = Len(list)
  BY <1>1, <1>2, <1>4, TypedSequence DEF D
<1> QED
  BY <1>1, <1>5, <1>6

LEMMA ChangeInv ==
  ASSUME CommunityInv, NEW v \in Visit, Change(v)
  PROVE  CommunityInv'
<1> USE DEF Change, Leave
<1> DEFINE c == visit[v].comment
<1>1. visit[v] \in Editing /\ CommunityTypeOK /\ c \in DOMAIN comments
  BY VisitKinds DEF CommunityInv, EditsFollowed
<1>2. OneRow' /\ AloneReads' /\ WatchAnswersHold'
  BY CommentStepKeepsWatches DEF Away
<1>3. /\ comments' \in Seq(Comment) /\ DOMAIN comments' = DOMAIN comments /\ Len(comments') = Len(comments)
      /\ \A d \in DOMAIN comments : /\ comments'[d].parent = comments[d].parent
                                    /\ comments'[d].deleted => comments[d].deleted
  <2>1. PICK status \in BOOLEAN : status = FALSE
    OBVIOUS
  <2>2. comments' = [comments EXCEPT ![c].deleted = status] /\ comments \in Seq(Comment)
    BY <1>1, <2>1 DEF CommunityTypeOK
  <2> HIDE DEF Change, c
  <2> QED
    BY <1>1, <2>1, <2>2, StatusWritten
<1>4. visit' = [visit EXCEPT ![v] = Away] /\ visit \in [Visit -> {Away} \cup Writing \cup Editing \cup Adding \cup Removing]
  BY <1>1 DEF To, CommunityTypeOK
<1>5. CommunityTypeOK'
  BY <1>1, <1>3, <1>4 DEF CommunityTypeOK, Talks
<1>6. ParentsExist'
  BY <1>3, <1>4 DEF ParentsExist, CommunityInv, Away
<1>7. EditsFollowed'
  BY <1>3, <1>4 DEF EditsFollowed, CommunityInv, Away
<1> QED
  BY <1>2, <1>5, <1>6, <1>7 DEF CommunityInv

LEMMA DeleteInv ==
  ASSUME CommunityInv, NEW v \in Visit, Delete(v)
  PROVE  CommunityInv'
<1> USE DEF Delete, Leave
<1> DEFINE c == visit[v].comment
<1>1. visit[v] \in Editing /\ CommunityTypeOK /\ c \in DOMAIN comments
  BY VisitKinds DEF CommunityInv, EditsFollowed
<1>2. OneRow' /\ AloneReads' /\ WatchAnswersHold'
  BY CommentStepKeepsWatches DEF Away
<1>3. /\ comments' \in Seq(Comment) /\ DOMAIN comments' = DOMAIN comments /\ Len(comments') = Len(comments)
      /\ \A d \in DOMAIN comments : /\ comments'[d].parent = comments[d].parent
                                    /\ comments'[d].deleted => comments[d].deleted \/ d = c
  <2>1. PICK status \in BOOLEAN : status = TRUE
    OBVIOUS
  <2>2. comments' = [comments EXCEPT ![c].deleted = status] /\ comments \in Seq(Comment)
    BY <1>1, <2>1 DEF CommunityTypeOK
  <2> HIDE DEF Delete, c
  <2>3. /\ comments' \in Seq(Comment) /\ DOMAIN comments' = DOMAIN comments /\ Len(comments') = Len(comments)
        /\ \A d \in DOMAIN comments : /\ comments'[d].parent = comments[d].parent
                                      /\ d # c => comments'[d].deleted = comments[d].deleted
    BY <1>1, <2>2, StatusWritten
  <2> QED
    BY <2>3
<1>4. visit' = [visit EXCEPT ![v] = Away] /\ visit \in [Visit -> {Away} \cup Writing \cup Editing \cup Adding \cup Removing]
  BY <1>1 DEF To, CommunityTypeOK
<1>5. raced \subseteq raced' /\ raced' \subseteq DOMAIN comments
  BY <1>1 DEF CommunityTypeOK
<1>6. CommunityTypeOK'
  BY <1>1, <1>3, <1>4, <1>5 DEF CommunityTypeOK, Talks
<1>7. ParentsExist'
  BY <1>3, <1>4 DEF ParentsExist, CommunityInv, Away
<1>8. EditsFollowed'
  <2> SUFFICES ASSUME NEW w \in Visit, visit'[w].at \in {"change", "delete"}
               PROVE  /\ visit'[w].comment \in DOMAIN comments'
                      /\ visit'[w].at = "change" /\ comments'[visit'[w].comment].deleted
                           => visit'[w].comment \in raced'
    BY DEF EditsFollowed
  <2>1. visit'[w] = visit[w] /\ visit[w] \in Editing
    BY <1>1, <1>4, VisitKinds DEF Away
  <2>2. visit[w].at = "change" /\ visit[w].comment = c => visit[w] = [at |-> "change", comment |-> c]
    BY <2>1 DEF Editing
  <2>3. visit[w].at = "change" /\ visit[w].comment = c => c \in raced'
    BY <2>2
  <2> QED
    BY <1>3, <1>5, <2>1, <2>3 DEF EditsFollowed, CommunityInv
<1> QED
  BY <1>2, <1>6, <1>7, <1>8 DEF CommunityInv

LEMMA RefuseInv ==
  ASSUME CommunityInv, NEW v \in Visit, Refuse(v)
  PROVE  CommunityInv'
<1> USE DEF Refuse, Leave
<1>1. OneRow' /\ AloneReads' /\ WatchAnswersHold'
  BY CommentStepKeepsWatches DEF Away, Talks
<1>2. visit' = [visit EXCEPT ![v] = Away] /\ visit \in [Visit -> {Away} \cup Writing \cup Editing \cup Adding \cup Removing]
  BY DEF To, CommunityTypeOK, CommunityInv
<1>3. CommunityTypeOK'
  BY <1>2 DEF CommunityTypeOK, CommunityInv
<1>4. ParentsExist' /\ EditsFollowed'
  BY <1>2 DEF ParentsExist, EditsFollowed, CommunityInv, Away
<1> QED
  BY <1>1, <1>3, <1>4 DEF CommunityInv

LEMMA CommentsNextInv ==
  ASSUME CommunityInv, CommentsNext
  PROVE  CommunityInv'
<1>1. ASSUME NEW e \in Entity \ gone, DeleteEntity(e)
      PROVE  CommunityInv'
  BY <1>1 DEF DeleteEntity, Talks, CommunityInv, CommunityTypeOK, ParentsExist, EditsFollowed,
              OneRow, AloneReads, Watching, WatchAnswersHold
<1>2. ASSUME NEW v \in Visit, NEW u \in Caller[v],
             NEW e \in Entity, NEW parent \in 0 .. MaxComments, BeginComment(v, u, e, parent)
      PROVE  CommunityInv'
  BY <1>2, BeginCommentInv
<1>3. ASSUME NEW v \in Visit, NEW u \in Caller[v],
             NEW c \in DOMAIN comments, BeginChange(v, u, c) \/ BeginDelete(v, u, c)
      PROVE  CommunityInv'
  BY <1>3, BeginEditInv
<1>4. ASSUME NEW v \in Visit, InsertComment(v) \/ Change(v) \/ Delete(v) \/ Refuse(v)
      PROVE  CommunityInv'
  BY <1>4, InsertCommentInv, ChangeInv, DeleteInv, RefuseInv
<1> QED
  BY <1>1, <1>2, <1>3, <1>4 DEF CommentsNext

\* A request on the watchlist leaves the comments' invariants alone.
LEMMA WatchStepKeepsComments ==
  ASSUME CommunityInv, Watches,
         \A w \in Visit : \/ visit'[w] = visit[w]
                          \/ visit'[w].at \notin {"insert", "change", "delete"}
  PROVE  ParentsExist' /\ EditsFollowed'
BY DEF Watches, CommunityInv, ParentsExist, EditsFollowed

\* A second request of a user puts an end to the solitude of the first.
LEMMA BesideKeepsKinds ==
  ASSUME CommunityInv, NEW v \in Visit, visit[v] = Away, NEW u \in Member,
         NEW step \in Adding \cup Removing, step.user = u, visit' = Beside(v, u, step)
  PROVE  /\ visit' \in [Visit -> {Away} \cup Writing \cup Editing \cup Adding \cup Removing]
         /\ visit'[v] = step
         /\ \A w \in Visit \ {v} :
              /\ visit'[w].at = visit[w].at
              /\ ~ Watching(w, u) => visit'[w] = visit[w]
              /\ Watching(w, u) => visit'[w].user = u /\ ~ visit'[w].alone
<1>1. \A w \in Visit : /\ visit[w] \in {Away} \cup Writing \cup Editing \cup Adding \cup Removing
                       /\ Watching(w, u) => visit[w] \in Adding \cup Removing
  BY VisitKinds DEF CommunityInv, CommunityTypeOK, Watching
<1>2. \A r \in Adding \cup Removing : /\ [r EXCEPT !.alone = FALSE] \in Adding \cup Removing
                                      /\ [r EXCEPT !.alone = FALSE].at = r.at
                                      /\ [r EXCEPT !.alone = FALSE].user = r.user
                                      /\ [r EXCEPT !.alone = FALSE].alone = FALSE
  BY DEF Adding, Removing
<1>3. visit' = [w \in Visit |-> IF w = v THEN step
                   ELSE IF Watching(w, u) THEN [visit[w] EXCEPT !.alone = FALSE] ELSE visit[w]]
  BY DEF Beside
<1>4. \A w \in Visit \ {v} : Watching(w, u) => visit'[w] = [visit[w] EXCEPT !.alone = FALSE] /\ visit[w].user = u
  BY <1>3 DEF Watching
<1>5. \A w \in Visit \ {v} : ~ Watching(w, u) => visit'[w] = visit[w]
  BY <1>3
<1>6. visit'[v] = step
  BY <1>3
<1>7. \A w \in Visit : visit'[w] \in {Away} \cup Writing \cup Editing \cup Adding \cup Removing
  BY <1>1, <1>2, <1>4, <1>5, <1>6
<1> QED
  BY <1>1, <1>2, <1>3, <1>4, <1>5, <1>6, <1>7

LEMMA BeginWatchInv ==
  ASSUME CommunityInv, NEW v \in Visit, NEW u \in Caller[v], BeginWatch(v, u)
  PROVE  CommunityInv'
<1> DEFINE alone == \A w \in Visit : ~ Watching(w, u)
           step == [at |-> "watch", user |-> u, alone |-> alone]
<1> USE DEF BeginWatch, RowsOf
<1>0. u \in Member /\ CommunityTypeOK
  BY CommunityAssumption DEF CommunityInv
<1>1. CASE watch[u] # {}
  <2>1. UNCHANGED <<comments, gone, watch, watches, visit, raced>>
    BY <1>1 DEF Watches
  <2>2. answered' = [answered EXCEPT ![u] = IF alone THEN "watched" ELSE "nothing"]
    BY <1>1
  <2>3. CommunityTypeOK' /\ WatchAnswersHold'
    BY <1>0, <1>1, <2>1, <2>2 DEF CommunityTypeOK, WatchAnswersHold, CommunityInv
  <2>4. ParentsExist' /\ EditsFollowed' /\ OneRow' /\ AloneReads'
    BY <2>1 DEF CommunityInv, ParentsExist, EditsFollowed, OneRow, AloneReads, Watching
  <2> QED
    BY <2>3, <2>4 DEF CommunityInv
<1>2. CASE watch[u] = {}
  <2>1. visit' = Beside(v, u, step) /\ visit[v] = Away
    BY <1>2
  <2>2. UNCHANGED <<comments, gone, watch, watches, raced, answered>> /\ Watches
    BY <1>2 DEF Watches
  <2>3. step \in Adding /\ step.user = u /\ step.at = "watch" /\ step.alone = alone
    BY <1>0 DEF Adding
  <2> HIDE DEF step, alone
  <2>4. /\ visit' \in [Visit -> {Away} \cup Writing \cup Editing \cup Adding \cup Removing]
        /\ visit'[v] = step
        /\ \A w \in Visit \ {v} : /\ visit'[w].at = visit[w].at
                                  /\ ~ Watching(w, u) => visit'[w] = visit[w]
                                  /\ Watching(w, u) => visit'[w].user = u /\ ~ visit'[w].alone
    BY <1>0, <2>1, <2>3, BesideKeepsKinds
  <2>5. CommunityTypeOK'
    BY <1>0, <2>2, <2>4 DEF CommunityTypeOK
  <2>6. ParentsExist' /\ EditsFollowed'
    BY <2>2, <2>3, <2>4, WatchStepKeepsComments DEF Watching
  <2>7. OneRow' /\ WatchAnswersHold'
    BY <2>2 DEF CommunityInv, OneRow, WatchAnswersHold
  <2>8. AloneReads'
    <3> SUFFICES ASSUME NEW w \in Visit, visit'[w].at \in {"watch", "unwatch"}, visit'[w].alone
                 PROVE  /\ \A x \in Visit \ {w} : visit'[x].at \in {"watch", "unwatch"} => visit'[x].user # visit'[w].user
                        /\ watch'[visit'[w].user] = IF visit'[w].at = "watch" THEN {} ELSE {visit'[w].row}
      BY DEF AloneReads, Watching
    <3>1. CASE w = v
      <4>1. alone
        BY <2>3, <2>4, <3>1
      <4>2. \A x \in Visit \ {v} : ~ Watching(x, u) /\ visit'[x] = visit[x]
        BY <2>4, <4>1 DEF alone
      <4> QED
        BY <1>2, <2>2, <2>3, <2>4, <3>1, <4>2 DEF Watching
    <3>2. CASE w # v
      <4>1. ~ Watching(w, u) /\ visit'[w] = visit[w]
        BY <2>4, <3>2
      <4>2. visit[w].user # u
        BY <4>1 DEF Watching
      <4>3. /\ \A x \in Visit \ {w} : ~ Watching(x, visit[w].user)
            /\ watch[visit[w].user] = IF visit[w].at = "watch" THEN {} ELSE {visit[w].row}
        BY <4>1 DEF CommunityInv, AloneReads
      <4>4. \A x \in Visit \ {w} : visit'[x].at \in {"watch", "unwatch"} => visit'[x].user # visit[w].user
        BY <2>3, <2>4, <4>1, <4>2, <4>3 DEF Watching
      <4> QED
        BY <2>2, <4>1, <4>3, <4>4
    <3> QED
      BY <3>1, <3>2
  <2> QED
    BY <2>5, <2>6, <2>7, <2>8 DEF CommunityInv
<1> QED
  BY <1>1, <1>2

LEMMA BeginUnwatchInv ==
  ASSUME CommunityInv, NEW v \in Visit, NEW u \in Caller[v], BeginUnwatch(v, u)
  PROVE  CommunityInv'
<1> DEFINE alone == \A w \in Visit : ~ Watching(w, u)
<1> USE DEF BeginUnwatch, RowsOf
<1>0. u \in Member /\ CommunityTypeOK
  BY CommunityAssumption DEF CommunityInv
<1>1. CASE watch[u] = {}
  <2>1. UNCHANGED <<comments, gone, watch, watches, visit, raced>>
    BY <1>1 DEF Watches
  <2>2. answered' = [answered EXCEPT ![u] = IF alone THEN "unwatched" ELSE "nothing"]
    BY <1>1
  <2>3. CommunityTypeOK' /\ WatchAnswersHold'
    BY <1>0, <1>1, <2>1, <2>2 DEF CommunityTypeOK, WatchAnswersHold, CommunityInv
  <2>4. ParentsExist' /\ EditsFollowed' /\ OneRow' /\ AloneReads'
    BY <2>1 DEF CommunityInv, ParentsExist, EditsFollowed, OneRow, AloneReads, Watching
  <2> QED
    BY <2>3, <2>4 DEF CommunityInv
<1>2. CASE watch[u] # {}
  <2>1. PICK n \in watch[u] : visit' = Beside(v, u, [at |-> "unwatch", user |-> u, alone |-> alone, row |-> n])
    BY <1>2
  <2> DEFINE step == [at |-> "unwatch", user |-> u, alone |-> alone, row |-> n]
  <2>2. UNCHANGED <<comments, gone, watch, watches, raced, answered>> /\ Watches /\ visit[v] = Away
    BY <1>2 DEF Watches
  <2>3. /\ step \in Removing /\ step.user = u /\ step.at = "unwatch" /\ step.alone = alone /\ step.row = n
        /\ visit' = Beside(v, u, step)
        /\ watch[u] = {n}
    BY <1>0, <2>1 DEF Removing, CommunityTypeOK, CommunityInv, OneRow
  <2> HIDE DEF step, alone
  <2>4. /\ visit' \in [Visit -> {Away} \cup Writing \cup Editing \cup Adding \cup Removing]
        /\ visit'[v] = step
        /\ \A w \in Visit \ {v} : /\ visit'[w].at = visit[w].at
                                  /\ ~ Watching(w, u) => visit'[w] = visit[w]
                                  /\ Watching(w, u) => visit'[w].user = u /\ ~ visit'[w].alone
    BY <1>0, <2>2, <2>3, BesideKeepsKinds
  <2>5. CommunityTypeOK'
    BY <1>0, <2>2, <2>4 DEF CommunityTypeOK
  <2>6. ParentsExist' /\ EditsFollowed'
    BY <2>2, <2>3, <2>4, WatchStepKeepsComments DEF Watching
  <2>7. OneRow' /\ WatchAnswersHold'
    BY <2>2 DEF CommunityInv, OneRow, WatchAnswersHold
  <2>8. AloneReads'
    <3> SUFFICES ASSUME NEW w \in Visit, visit'[w].at \in {"watch", "unwatch"}, visit'[w].alone
                 PROVE  /\ \A x \in Visit \ {w} : visit'[x].at \in {"watch", "unwatch"} => visit'[x].user # visit'[w].user
                        /\ watch'[visit'[w].user] = IF visit'[w].at = "watch" THEN {} ELSE {visit'[w].row}
      BY DEF AloneReads, Watching
    <3>1. CASE w = v
      <4>1. alone
        BY <2>3, <2>4, <3>1
      <4>2. \A x \in Visit \ {v} : ~ Watching(x, u) /\ visit'[x] = visit[x]
        BY <2>4, <4>1 DEF alone
      <4>3. visit'[w].user = u /\ visit'[w].at = "unwatch" /\ visit'[w].row = n
        BY <2>3, <2>4, <3>1
      <4>4. \A x \in Visit \ {w} : visit'[x].at \in {"watch", "unwatch"} => visit'[x].user # u
        BY <3>1, <4>2 DEF Watching
      <4> QED
        BY <2>2, <2>3, <4>3, <4>4
    <3>2. CASE w # v
      <4>1. ~ Watching(w, u) /\ visit'[w] = visit[w]
        BY <2>4, <3>2
      <4>2. visit[w].user # u
        BY <4>1 DEF Watching
      <4>3. /\ \A x \in Visit \ {w} : ~ Watching(x, visit[w].user)
            /\ watch[visit[w].user] = IF visit[w].at = "watch" THEN {} ELSE {visit[w].row}
        BY <4>1 DEF CommunityInv, AloneReads
      <4>4. \A x \in Visit \ {w} : visit'[x].at \in {"watch", "unwatch"} => visit'[x].user # visit[w].user
        BY <2>3, <2>4, <4>1, <4>2, <4>3 DEF Watching
      <4> QED
        BY <2>2, <4>1, <4>3, <4>4
    <3> QED
      BY <3>1, <3>2
  <2> QED
    BY <2>5, <2>6, <2>7, <2>8 DEF CommunityInv
<1> QED
  BY <1>1, <1>2

\* A request that writes the rows of its user keeps those who are alone right: they are
\* other users'.
LEMMA WriterKeepsAlone ==
  ASSUME CommunityInv, NEW v \in Visit, visit[v].at \in {"watch", "unwatch"}, Leave(v),
         \A u \in Member \ {visit[v].user} : watch'[u] = watch[u]
  PROVE  AloneReads'
<1>1. visit' = [visit EXCEPT ![v] = Away] /\ visit \in [Visit -> {Away} \cup Writing \cup Editing \cup Adding \cup Removing]
  BY DEF Leave, To, CommunityTypeOK, CommunityInv
<1> SUFFICES ASSUME NEW w \in Visit, visit'[w].at \in {"watch", "unwatch"}, visit'[w].alone
             PROVE  /\ \A x \in Visit \ {w} : visit'[x].at \in {"watch", "unwatch"} => visit'[x].user # visit'[w].user
                    /\ watch'[visit'[w].user] = IF visit'[w].at = "watch" THEN {} ELSE {visit'[w].row}
  BY DEF AloneReads, Watching
<1>2. w # v /\ visit'[w] = visit[w]
  BY <1>1 DEF Away
<1>3. /\ \A x \in Visit \ {w} : ~ Watching(x, visit[w].user)
      /\ watch[visit[w].user] = IF visit[w].at = "watch" THEN {} ELSE {visit[w].row}
  BY <1>2 DEF CommunityInv, AloneReads
<1>4. visit[w].user # visit[v].user
  BY <1>2, <1>3 DEF Watching
<1>5. visit[w].user \in Member
  BY <1>2, VisitKinds DEF CommunityInv, Adding, Removing
<1>6. \A x \in Visit \ {w} : visit'[x].at \in {"watch", "unwatch"} => visit'[x].user # visit[w].user
  BY <1>1, <1>3 DEF Watching, Away
<1> QED
  BY <1>2, <1>3, <1>4, <1>5, <1>6

LEMMA InsertWatchInv ==
  ASSUME CommunityInv, NEW v \in Visit, InsertWatch(v)
  PROVE  CommunityInv'
<1> DEFINE u == visit[v].user
<1>1. visit[v].at = "watch" /\ visit[v] \in Adding /\ u \in Member /\ CommunityTypeOK /\ Leave(v) /\ Watches
  BY VisitKinds DEF CommunityInv, InsertWatch, Adding
<1>2. visit' = [visit EXCEPT ![v] = Away] /\ visit \in [Visit -> {Away} \cup Writing \cup Editing \cup Adding \cup Removing]
  BY <1>1 DEF Leave, To, CommunityTypeOK
<1>3. ParentsExist' /\ EditsFollowed'
  BY <1>1, <1>2, WatchStepKeepsComments DEF Away
<1>4. CASE watch[u] # {}
  <2>1. UNCHANGED <<watch, watches, answered>>
    BY <1>4 DEF InsertWatch
  <2>2. CommunityTypeOK' /\ OneRow' /\ WatchAnswersHold'
    BY <1>1, <1>2, <2>1 DEF CommunityTypeOK, Watches, OneRow, WatchAnswersHold, CommunityInv
  <2>3. AloneReads'
    BY <1>1, <2>1, WriterKeepsAlone
  <2> QED
    BY <1>3, <2>2, <2>3 DEF CommunityInv
<1>5. CASE watch[u] = {}
  <2>1. /\ watches < MaxWatches
        /\ watch' = [watch EXCEPT ![u] = {watches + 1}] /\ watches' = watches + 1
        /\ answered' = [answered EXCEPT ![u] = IF visit[v].alone THEN "watched" ELSE "nothing"]
    BY <1>5 DEF InsertWatch
  <2>2. \A x \in Member \ {u} : watch'[x] = watch[x] /\ answered'[x] = answered[x]
    BY <1>1, <2>1 DEF CommunityTypeOK
  <2>3. watch'[u] = {watches + 1} /\ answered'[u] \in {"watched", "nothing"}
    BY <1>1, <2>1 DEF CommunityTypeOK
  <2>4. CommunityTypeOK'
    BY <1>1, <1>2, <2>1, CommunityAssumption DEF CommunityTypeOK, Watches
  <2> HIDE DEF u
  <2>5. OneRow' /\ WatchAnswersHold'
    BY <2>2, <2>3 DEF OneRow, WatchAnswersHold, CommunityInv
  <2>6. AloneReads'
    BY <1>1, <2>2, WriterKeepsAlone DEF u
  <2> QED
    BY <1>3, <2>4, <2>5, <2>6 DEF CommunityInv
<1> QED
  BY <1>4, <1>5

LEMMA DeleteWatchInv ==
  ASSUME CommunityInv, NEW v \in Visit, DeleteWatch(v)
  PROVE  CommunityInv'
<1> DEFINE u == visit[v].user
<1>1. /\ visit[v].at = "unwatch" /\ visit[v] \in Removing /\ u \in Member /\ CommunityTypeOK
      /\ Leave(v) /\ Watches /\ watches' = watches
  BY VisitKinds DEF CommunityInv, DeleteWatch, Removing
<1>2. visit' = [visit EXCEPT ![v] = Away] /\ visit \in [Visit -> {Away} \cup Writing \cup Editing \cup Adding \cup Removing]
  BY <1>1 DEF Leave, To, CommunityTypeOK
<1>3. ParentsExist' /\ EditsFollowed'
  BY <1>1, <1>2, WatchStepKeepsComments DEF Away
<1>4. /\ watch' = [watch EXCEPT ![u] = @ \ {visit[v].row}]
      /\ answered' = [answered EXCEPT ![u] = IF visit[v].alone THEN "unwatched" ELSE "nothing"]
  BY DEF DeleteWatch
<1>5. \A x \in Member \ {u} : watch'[x] = watch[x] /\ answered'[x] = answered[x]
  BY <1>1, <1>4 DEF CommunityTypeOK
<1>6. watch'[u] = watch[u] \ {visit[v].row} /\ answered'[u] = IF visit[v].alone THEN "unwatched" ELSE "nothing"
  BY <1>1, <1>4 DEF CommunityTypeOK
<1>7. CommunityTypeOK'
  BY <1>1, <1>2, <1>4, <1>6 DEF CommunityTypeOK, Watches
<1>8. visit[v].alone => watch[u] = {visit[v].row}
  BY <1>1 DEF AloneReads, CommunityInv
<1>9. AloneReads'
  BY <1>1, <1>5, WriterKeepsAlone
<1> HIDE DEF u
<1>10. OneRow' /\ WatchAnswersHold'
  BY <1>5, <1>6, <1>8 DEF OneRow, WatchAnswersHold, CommunityInv
<1> QED
  BY <1>3, <1>7, <1>9, <1>10 DEF CommunityInv

LEMMA WatchlistNextInv ==
  ASSUME CommunityInv, WatchlistNext
  PROVE  CommunityInv'
<1>1. ASSUME NEW v \in Visit, NEW u \in Caller[v], BeginWatch(v, u) \/ BeginUnwatch(v, u)
      PROVE  CommunityInv'
  BY <1>1, BeginWatchInv, BeginUnwatchInv
<1>2. ASSUME NEW v \in Visit, InsertWatch(v) \/ DeleteWatch(v) \/ Refuse(v)
      PROVE  CommunityInv'
  BY <1>2, InsertWatchInv, DeleteWatchInv, RefuseInv
<1> QED
  BY <1>1, <1>2 DEF WatchlistNext

LEMMA CommunityStutters ==
  ASSUME CommunityInv, UNCHANGED communityVars
  PROVE  CommunityInv'
BY DEF communityVars, CommunityInv, CommunityTypeOK, ParentsExist, EditsFollowed, OneRow, AloneReads,
       Watching, WatchAnswersHold

\* Whatever markets are explored beside them, comments and watchlists keep their invariant.
THEOREM CommunityCorrect == Spec => []CommunityInv
<1>1. Init => CommunityInv
  BY CommunityInitially DEF Init
<1>2. CommunityInv /\ [Next]_vars => CommunityInv'
  <2> SUFFICES ASSUME CommunityInv, [Next]_vars PROVE CommunityInv'
    OBVIOUS
  <2>1. CASE CommentsNext
    BY <2>1, CommentsNextInv
  <2>2. CASE WatchlistNext
    BY <2>2, WatchlistNextInv
  <2>3. CASE UNCHANGED communityVars
    BY <2>3, CommunityStutters
  <2> QED
    BY <2>1, <2>2, <2>3 DEF Next, vars
<1> QED
  BY <1>1, <1>2, PTL DEF Spec

\* The watchlist holds what a user was told whose requests did not overlap
\* (prediction-set.service.ts:617-648).
THEOREM WatchlistAnswersTrue == Spec => []WatchAnswersHold
<1>1. CommunityInv => WatchAnswersHold
  BY DEF CommunityInv
<1> QED
  BY <1>1, CommunityCorrect, PTL

\* What happens to the status of the comments in one step
StaysDeleted == \A c \in DOMAIN comments : comments[c].deleted /\ ~ comments'[c].deleted => c \in raced

LEMMA CommentsStayDeleted ==
  ASSUME CommunityInv, CommentsNext
  PROVE  StaysDeleted
<1>1. ASSUME UNCHANGED comments
      PROVE  StaysDeleted
  BY <1>1 DEF StaysDeleted
<1>2. ASSUME NEW v \in Visit, InsertComment(v)
      PROVE  StaysDeleted
  BY <1>2 DEF StaysDeleted, InsertComment, CommunityInv, CommunityTypeOK
<1>3. ASSUME NEW v \in Visit, Change(v)
      PROVE  StaysDeleted
  BY <1>3 DEF StaysDeleted, Change, CommunityInv, EditsFollowed, CommunityTypeOK
<1>4. ASSUME NEW v \in Visit, Delete(v)
      PROVE  StaysDeleted
  <2> DEFINE c == visit[v].comment
  <2>1. PICK status \in BOOLEAN : status = TRUE
    OBVIOUS
  <2>2. /\ c \in DOMAIN comments /\ comments \in Seq(Comment)
        /\ comments' = [comments EXCEPT ![c].deleted = status]
    BY <1>4, <2>1 DEF Delete, CommunityInv, EditsFollowed, CommunityTypeOK
  <2> HIDE DEF c
  <2>3. \A d \in DOMAIN comments : /\ d = c => comments'[d].deleted = status
                                   /\ d # c => comments'[d].deleted = comments[d].deleted
    BY <2>2, StatusWritten
  <2> QED
    BY <2>1, <2>3 DEF StaysDeleted
<1>5. ASSUME NEW v \in Visit, Refuse(v) \/ (\E u \in Caller[v] :
               \/ \E e \in Entity, parent \in 0 .. MaxComments : BeginComment(v, u, e, parent)
               \/ \E c \in DOMAIN comments : BeginChange(v, u, c) \/ BeginDelete(v, u, c))
      PROVE  UNCHANGED comments
  BY <1>5 DEF Refuse, BeginComment, BeginChange, BeginDelete
<1>6. ASSUME NEW e \in Entity, DeleteEntity(e)
      PROVE  UNCHANGED comments
  BY <1>6 DEF DeleteEntity
<1> QED
  BY <1>1, <1>2, <1>3, <1>4, <1>5, <1>6 DEF CommentsNext

\* A deleted comment comes back only by a change that was under way when it was deleted
\* (comment.service.ts:118-163).
THEOREM DeletedStayDeleted == Spec => DeletedUnlessOverlap
<1>1. CommunityInv /\ [Next]_vars => [StaysDeleted]_communityVars
  <2> SUFFICES ASSUME CommunityInv, [Next]_vars PROVE StaysDeleted \/ UNCHANGED communityVars
    OBVIOUS
  <2>1. CASE CommentsNext
    BY <2>1, CommentsStayDeleted
  <2>2. CASE WatchlistNext
    <3>1. UNCHANGED comments
      BY <2>2 DEF WatchlistNext, BeginWatch, BeginUnwatch, InsertWatch, DeleteWatch, Refuse, Watches
    <3> QED
      BY <3>1 DEF StaysDeleted
  <2>3. CASE UNCHANGED communityVars
    BY <2>3
  <2> QED
    BY <2>1, <2>2, <2>3 DEF Next, vars
<1> QED
  BY <1>1, CommunityCorrect, PTL DEF Spec, DeletedUnlessOverlap, StaysDeleted

\* Every comment is shown once, in its thread, except a reply to a reply: the list needs
\* no more than that comments answer comments that exist (comment.model.ts:147-190).
LEMMA ShownInItsThread == CommunityInv => ThreadsComplete
<1> SUFFICES ASSUME CommunityInv, NEW c \in DOMAIN comments
             PROVE  Cardinality(Places(c)) = IF InThread(c) THEN 1 ELSE 0
  BY DEF ThreadsComplete
<1>1. /\ DOMAIN comments \subseteq Nat \ {0}
      /\ \A d \in DOMAIN comments : comments[d].entity \in Entity
  <2>1. comments \in Seq(Comment)
    BY DEF CommunityInv, CommunityTypeOK
  <2>2. DOMAIN comments \subseteq Nat \ {0} /\ \A d \in DOMAIN comments : comments[d] \in Comment
    BY <2>1
  <2> QED
    BY <2>2 DEF Comment
<1>2. comments[c].parent \in {0} \cup DOMAIN comments
  BY DEF CommunityInv, ParentsExist
<1>3. CASE comments[c].parent = 0
  <2>1. Places(c) = {<<comments[c].entity, c>>} /\ InThread(c)
    <3>1. ASSUME NEW p \in Places(c)
          PROVE  p = <<comments[c].entity, c>>
      BY <1>1, <1>3, <3>1 DEF Places, Threads, Replies
    <3>2. <<comments[c].entity, c>> \in Places(c)
      BY <1>1, <1>3 DEF Places, Threads, Replies
    <3> QED
      BY <1>3, <3>1, <3>2 DEF InThread
  <2> QED
    BY <2>1, FS_Singleton
<1>4. CASE comments[c].parent # 0
  <2> DEFINE p == comments[c].parent
  <2>1. p \in DOMAIN comments
    BY <1>2, <1>4
  <2>2. ASSUME NEW q \in Places(c)
        PROVE  q = <<comments[p].entity, p>> /\ comments[p].parent = 0
    BY <1>1, <1>4, <2>2 DEF Places, Threads, Replies
  <2>3. CASE comments[p].parent = 0
    <3>1. <<comments[p].entity, p>> \in Places(c)
      BY <1>1, <2>1, <2>3 DEF Places, Threads, Replies
    <3>2. Places(c) = {<<comments[p].entity, p>>} /\ InThread(c)
      BY <2>2, <2>3, <3>1 DEF InThread
    <3> QED
      BY <3>2, FS_Singleton
  <2>4. CASE comments[p].parent # 0
    <3>1. Places(c) = {} /\ ~ InThread(c)
      BY <1>4, <2>2, <2>4 DEF InThread
    <3> QED
      BY <3>1, FS_EmptySet
  <2> QED
    BY <2>3, <2>4
<1> QED
  BY <1>3, <1>4

\* Whatever was written and deleted, every comment that is not deleted is on the pages
\* once, in its thread (comment.service.ts:36-111).
THEOREM CommentsShownOnce == Spec => []ThreadsComplete
BY ShownInItsThread, CommunityCorrect, PTL

-----------------------------------------------------------------------------
(* The chances of a set's outcomes *)

LEMMA OutcomesCounted ==
  /\ IsFiniteSet(Outcome) /\ Outcome # {} /\ 0 \in Outcome /\ Outcome \subseteq Nat
  /\ Cardinality(Outcome) \in Nat
  /\ \A o, p \in Outcome : o + 1 \notin Outcome => p <= o
<1>1. Cardinality(Outcome) \in Nat /\ Cardinality(Outcome) # 0
  BY OutcomeAssumption, FS_CardinalityType, FS_EmptySet
<1>2. Outcome = 0 .. Cardinality(Outcome) - 1
  BY OutcomeAssumption
<1> DEFINE n == Cardinality(Outcome)
<1> HIDE DEF n
<1>3. n \in Nat /\ n # 0 /\ Outcome = 0 .. n - 1
  BY <1>1, <1>2 DEF n
<1>4. 0 \in Outcome /\ Outcome \subseteq Nat /\ \A o, p \in Outcome : o + 1 \notin Outcome => p <= o
  BY <1>3
<1> QED
  BY <1>1, <1>4, OutcomeAssumption

\* The sums over the outcomes, as sums of functions
AllProducts(balances) == SumFunction([p \in Outcome |-> ProductOfOthers(p, balances)])
AllChances(rows) == SumFunction([o \in Outcome |-> rows[o].chance])
AllSupplies(rows) == SumFunction([o \in Outcome |-> rows[o].supply])

LEMMA ProductOfOthersIs ==
  ASSUME NEW o \in Outcome, NEW values, \A p \in Outcome : values[p] \in Int
  PROVE  ProductOfOthers(o, values) = Multiplied(values, Outcome \ {o})
<1> DEFINE S == Outcome \ {o}
           c == CHOOSE k : k = [s \in SUBSET S |->
                     IF s = {} THEN 1
                     ELSE values[CHOOSE x \in s : TRUE] * k[s \ {CHOOSE x \in s : TRUE}]]
<1>1. ProductOfOthers(o, values) = c[S]
  BY Zenon DEF ProductOfOthers, FoldSet, MapThenFoldSet
<1>2. IsFiniteSet(S) /\ \A p \in S : values[p] \in Int
  BY OutcomesCounted, FS_Subset
<1> HIDE DEF S
<1>3. PICK k : IsProduct(k, values, S)
  BY <1>2, ProductExists
<1>4. IsProduct(c, values, S)
  BY <1>3, Zenon DEF IsProduct, Picked
<1> HIDE DEF c
<1>5. c[S] = Multiplied(values, S)
  BY <1>2, <1>4, ProductIs
<1> QED
  BY <1>1, <1>5 DEF S

LEMMA AllProductsIs ==
  ASSUME NEW b, NEW g, g = [p \in Outcome |-> ProductOfOthers(p, b)], \A p \in Outcome : g[p] \in Int
  PROVE  AllProducts(b) = Summed(g, Outcome)
<1>1. AllProducts(b) = SumFunction(g) /\ DOMAIN g = Outcome
  BY DEF AllProducts
<1> QED
  BY <1>1, OutcomesCounted, SumFunctionIs

\* What integer division leaves
LEMMA DivBounds ==
  ASSUME NEW a \in Nat, NEW n \in Nat \ {0}
  PROVE  /\ a \div n \in Nat
         /\ (a \div n) * n <= a /\ a < (a \div n + 1) * n
<1> DEFINE d == a \div n
<1>1. a % n \in 0 .. n - 1
  OBVIOUS
<1>2. d \in Nat /\ a = n * d + (a % n)
  OBVIOUS
<1> HIDE DEF d
<1>3. d * n = n * d /\ (d + 1) * n = n * d + n
  BY <1>2
<1> QED
  BY <1>1, <1>2, <1>3 DEF d

\* A rounded fraction lies within half a unit of it, and grows with it.
LEMMA RoundedIs ==
  ASSUME NEW n \in Nat, NEW d \in Nat \ {0}
  PROVE  /\ Rounded(n, d) \in Nat
         /\ (2 * d) * Rounded(n, d) - (2 * Scale) * n <= d
         /\ (2 * Scale) * n - (2 * d) * Rounded(n, d) <= d
         /\ Rounded(n, d) * (2 * d) <= 2 * Scale * n + d
         /\ 2 * Scale * n + d < (Rounded(n, d) + 1) * (2 * d)
<1> DEFINE a == 2 * Scale * n + d
           m == 2 * d
           q == a \div m
<1>1. a \in Nat /\ m \in Nat \ {0} /\ a = (2 * Scale) * n + d
  BY ChancesAssumption
<1>2. Rounded(n, d) = q
  BY DEF Rounded
<1> HIDE DEF a, m
<1>3. q \in Nat /\ q * m <= a /\ a < (q + 1) * m
  BY <1>1, DivBounds
<1> HIDE DEF q
<1>4. (q + 1) * m = m * q + m /\ q * m = m * q /\ m * q \in Nat
  BY <1>1, <1>3
<1>5. PICK t \in Nat : t = (2 * Scale) * n
  BY ChancesAssumption
<1>6. m * q - t <= d /\ t - m * q <= d
  BY <1>1, <1>3, <1>4, <1>5 DEF m
<1> QED
  BY <1>2, <1>3, <1>5, <1>6 DEF a, m

LEMMA RoundedGrows ==
  ASSUME NEW n \in Nat, NEW k \in Nat, n <= k, NEW d \in Nat \ {0}
  PROVE  Rounded(n, d) <= Rounded(k, d)
<1>1. PICK p \in Nat, q \in Nat : p = Rounded(n, d) /\ q = Rounded(k, d)
  BY RoundedIs
<1>2. p * (2 * d) <= 2 * Scale * n + d /\ 2 * Scale * k + d < (q + 1) * (2 * d)
  BY <1>1, RoundedIs
<1>3. 2 * Scale * n <= 2 * Scale * k /\ 2 * Scale * n \in Nat /\ 2 * Scale * k \in Nat
  <2>1. 2 * Scale \in Nat
    BY ChancesAssumption
  <2> QED
    BY <2>1
<1>4. PICK m \in Nat \ {0} : m = 2 * d
  OBVIOUS
<1>5. p * m < (q + 1) * m
  BY <1>2, <1>3, <1>4
<1>6. q + 1 <= p => (q + 1) * m <= p * m
  BY <1>4
<1> QED
  BY <1>1, <1>5, <1>6

\* The products of the other reserves of a pool that holds every token
LEMMA FundedProducts ==
  ASSUME NEW of \in Funded, NEW g, g = [p \in Outcome |-> ProductOfOthers(p, of)]
  PROVE  /\ of \in [Outcome -> Nat] /\ \A o \in Outcome : of[o] \in Nat \ {0} /\ g[o] \in Nat \ {0}
         /\ \A o \in Outcome : g[o] * of[o] = Multiplied(of, Outcome)
         /\ AllProducts(of) \in Nat \ {0} /\ AllProducts(of) = Summed(g, Outcome)
<1> DEFINE Positive == Nat \ {0}
<1>1. of \in [Outcome -> Nat] /\ \A p \in Outcome : of[p] \in Positive /\ of[p] \in Int
  <2>1. of \in [Outcome -> Nat]
    BY ChancesAssumption DEF Funded
  <2>2. \A p \in Outcome : of[p] \in Nat /\ of[p] > 0
    BY <2>1 DEF Funded
  <2> QED
    BY <2>1, <2>2
<1>2. \A p \in Outcome : g[p] \in Positive /\ g[p] \in Int /\ g[p] = Multiplied(of, Outcome \ {p})
  <2> SUFFICES ASSUME NEW p \in Outcome
               PROVE  /\ ProductOfOthers(p, of) \in Positive /\ ProductOfOthers(p, of) \in Int
                      /\ ProductOfOthers(p, of) = Multiplied(of, Outcome \ {p})
    OBVIOUS
  <2>1. ProductOfOthers(p, of) = Multiplied(of, Outcome \ {p})
    BY <1>1, ProductOfOthersIs
  <2>2. Multiplied(of, Outcome \ {p}) \in Positive
    <3> DEFINE S == Outcome \ {p}
    <3>1. IsFiniteSet(S) /\ \A q \in S : of[q] \in Positive
      BY <1>1, OutcomesCounted, FS_Subset
    <3>2. 1 \in Positive /\ \A a, b \in Positive : Times[<<a, b>>] \in Positive
      <4>1. \A a, b \in Positive : Times[<<a, b>>] = a * b /\ a * b \in Positive
        <5>1. \A a, b \in Positive : Times[<<a, b>>] = a * b
          <6>1. \A a \in Positive : a \in Int
            OBVIOUS
          <6> HIDE DEF Positive
          <6> QED
            BY <6>1, TimesCommutes, Zenon
        <5>2. \A a, b \in Positive : a * b \in Positive
          <6> SUFFICES ASSUME NEW a \in Nat, NEW b \in Nat, a > 0, b > 0 PROVE a * b \in Nat /\ a * b > 0
            OBVIOUS
          <6> QED
            OBVIOUS
        <5> QED
          BY <5>1, <5>2
      <4> QED
        BY <4>1
    <3> HIDE DEF S, Positive
    <3>3. Multiplied(of, S) \in Positive
      BY <3>1, <3>2, FoldedType DEF Multiplied
    <3> QED
      BY <3>3 DEF S
  <2>3. \A k \in Positive : k \in Int
    OBVIOUS
  <2> QED
    BY <2>1, <2>2, <2>3, Zenon
<1>3. AllProducts(of) \in Positive /\ AllProducts(of) = Summed(g, Outcome)
  <2>1. \A p \in Outcome : g[p] \in Int
    BY <1>2, Zenon
  <2>2. AllProducts(of) = Summed(g, Outcome)
    BY <2>1, AllProductsIs, Zenon
  <2> DEFINE first == Picked(Outcome)
             S == Outcome \ {first}
  <2>3. first \in Outcome /\ IsFiniteSet(S) /\ \A p \in S : g[p] \in Nat
    BY <1>2, PickedIsIn, OutcomesCounted, FS_Subset
  <2>4. first \notin S /\ Outcome = S \cup {first}
    BY <2>3
  <2> HIDE DEF S, first
  <2>5. Summed(g, S \cup {first}) = g[first] + Summed(g, S)
    BY <2>1, <2>3, <2>4, SummedAdd
  <2>6. Summed(g, S) \in Nat /\ g[first] \in Positive
    BY <1>2, <2>3, SummedNat
  <2> QED
    BY <2>2, <2>4, <2>5, <2>6
<1>4. \A o \in Outcome : g[o] * of[o] = Multiplied(of, Outcome)
  <2>1. \A o \in Outcome : of[o] \in Int
    BY <1>1
  <2>2. \A o \in Outcome : Multiplied(of, Outcome) = Multiplied(of, Outcome \ {o}) * of[o]
    BY <2>1, OutcomesCounted, MultipliedWithout
  <2> QED
    BY <1>2, <2>2
<1> QED
  BY <1>1, <1>2, <1>3, <1>4

LEMMA ChanceRowIs ==
  ASSUME NEW of, NEW o \in Outcome
  PROVE  ChanceRow(o, of) = [chance |-> Rounded(ProductOfOthers(o, of), AllProducts(of)),
                             supply |-> of[o], totalSupply |-> SumFunction(of)]
<1>1. Chances(of)[o] = Rounded(ProductOfOthers(o, of), AllProducts(of))
  BY Zenon DEF Chances, AllProducts
<1> QED
  BY <1>1, Zenon DEF ChanceRow

\* The rows of one reading
LEMMA OneReadingConsistent ==
  ASSUME NEW of \in Funded, NEW rows,
         \A o \in Outcome : rows[o] = ChanceRow(o, of)
  PROVE  /\ \A o, p \in Outcome :
              /\ rows[o].totalSupply = rows[p].totalSupply
              /\ rows[o].supply <= rows[p].supply => rows[o].chance >= rows[p].chance
         /\ AllSupplies(rows) = rows[0].totalSupply
         /\ 2 * AllChances(rows) <= 2 * Scale + Cardinality(Outcome)
         /\ 2 * AllChances(rows) >= 2 * Scale - Cardinality(Outcome)
<1> DEFINE products == [p \in Outcome |-> ProductOfOthers(p, of)]
           chances == [o \in Outcome |-> rows[o].chance]
<1>1. PICK g : g = products
  OBVIOUS
<1>2. PICK d : d = AllProducts(of)
  OBVIOUS
<1>3. /\ of \in [Outcome -> Nat] /\ \A o \in Outcome : of[o] \in Nat \ {0} /\ g[o] \in Nat \ {0}
      /\ \A o \in Outcome : g[o] * of[o] = Multiplied(of, Outcome)
      /\ d \in Nat \ {0} /\ d = Summed(g, Outcome)
  BY <1>1, <1>2, FundedProducts
<1>4. \A o \in Outcome : /\ rows[o].chance = Rounded(g[o], d)
                         /\ rows[o].supply = of[o]
                         /\ rows[o].totalSupply = SumFunction(of)
  <2>1. \A o \in Outcome : g[o] = ProductOfOthers(o, of)
    BY <1>1
  <2> QED
    BY <1>2, <2>1, ChanceRowIs
<1>5. PICK h : h = chances
  OBVIOUS
<1>6. \A o \in Outcome : /\ h[o] = Rounded(g[o], d) /\ h[o] \in Int
                         /\ (2 * d) * h[o] - (2 * Scale) * g[o] <= d
                         /\ (2 * Scale) * g[o] - (2 * d) * h[o] <= d
  <2> SUFFICES ASSUME NEW o \in Outcome
               PROVE  /\ h[o] = Rounded(g[o], d) /\ h[o] \in Int
                      /\ (2 * d) * h[o] - (2 * Scale) * g[o] <= d
                      /\ (2 * Scale) * g[o] - (2 * d) * h[o] <= d
    OBVIOUS
  <2>1. h[o] = Rounded(g[o], d)
    BY <1>4, <1>5
  <2>2. PICK n \in Nat : n = g[o]
    BY <1>3
  <2>3. /\ Rounded(n, d) \in Nat
        /\ (2 * d) * Rounded(n, d) - (2 * Scale) * n <= d
        /\ (2 * Scale) * n - (2 * d) * Rounded(n, d) <= d
    BY <1>3, RoundedIs
  <2> QED
    BY <2>1, <2>2, <2>3
<1> HIDE DEF products, chances
<1>7. ASSUME NEW o \in Outcome, NEW p \in Outcome, rows[o].supply <= rows[p].supply
      PROVE  rows[o].chance >= rows[p].chance
  <2>1. PICK x \in Nat \ {0}, y \in Nat \ {0}, u \in Nat \ {0}, v \in Nat \ {0} :
          x = of[o] /\ y = of[p] /\ u = g[o] /\ v = g[p]
    BY <1>3
  <2>2. x <= y /\ u * x = v * y
    BY <1>3, <1>4, <1>7, <2>1
  <2>3. u * x <= u * y
    BY <2>1, <2>2
  <2>4. u < v => u * y < v * y
    BY <2>1
  <2>5. v <= u
    <3>1. u * y \in Nat /\ v * y \in Nat /\ u * x \in Nat
      OBVIOUS
    <3> QED
      BY <2>1, <2>2, <2>3, <2>4, <3>1
  <2>6. rows[o].chance = Rounded(u, d) /\ rows[p].chance = Rounded(v, d)
    BY <1>4, <2>1
  <2>7. Rounded(u, d) \in Nat /\ Rounded(v, d) \in Nat /\ Rounded(v, d) <= Rounded(u, d)
    BY <1>3, <2>5, RoundedIs, RoundedGrows
  <2> QED
    BY <2>6, <2>7
<1>8. /\ 2 * AllChances(rows) <= 2 * Scale + Cardinality(Outcome)
      /\ 2 * AllChances(rows) >= 2 * Scale - Cardinality(Outcome)
  <2>1. AllChances(rows) = Summed(h, Outcome)
    <3>1. AllChances(rows) = SumFunction(h) /\ DOMAIN h = Outcome
      BY <1>5 DEF AllChances, chances
    <3> QED
      BY <1>6, <3>1, OutcomesCounted, SumFunctionIs
  <2>2. Summed(h, Outcome) \in Int
    BY <1>6, OutcomesCounted, SummedInt
  <2>3. PICK s \in Int, n \in Nat, a \in Int, b \in Int :
          s = Summed(h, Outcome) /\ n = Cardinality(Outcome) /\ a = 2 * d /\ b = 2 * Scale
    BY <1>3, <2>2, OutcomesCounted, ChancesAssumption
  <2>4. \A o \in Outcome : /\ h[o] \in Int /\ g[o] \in Int
                           /\ a * h[o] - b * g[o] <= d /\ b * g[o] - a * h[o] <= d
    BY <1>3, <1>6, <2>3
  <2>5. /\ a * Summed(h, Outcome) - b * Summed(g, Outcome) <= Cardinality(Outcome) * d
        /\ b * Summed(g, Outcome) - a * Summed(h, Outcome) <= Cardinality(Outcome) * d
    <3>1. a \in Int /\ b \in Int /\ d \in Int /\ IsFiniteSet(Outcome)
      BY <1>3, <2>3, OutcomesCounted
    <3> QED
      BY <2>4, <3>1, SummedNear, Zenon
  <2>6. a * s - b * d <= n * d /\ b * d - a * s <= n * d
    BY <1>3, <2>3, <2>5
  <2>7. a * s = (2 * s) * d
    BY <1>3, <2>3
  <2>8. 2 * s \in Int /\ b + n \in Int /\ b - n \in Int /\ d \in Int /\ d > 0
    BY <1>3, <2>3
  <2>9. (b + n) * d = b * d + n * d /\ (b - n) * d = b * d - n * d
    BY <2>3, <2>8
  <2>10. (2 * s) * d <= (b + n) * d /\ (b - n) * d <= (2 * s) * d
    <3>1. b * d \in Int /\ n * d \in Int /\ (2 * s) * d \in Int
      BY <2>3, <2>8
    <3> QED
      BY <2>6, <2>7, <2>9, <3>1
  <2>11. \A x, y \in Int : x * d <= y * d => x <= y
    BY <2>8
  <2>12. 2 * s <= b + n /\ b - n <= 2 * s
    BY <2>8, <2>10, <2>11
  <2> QED
    BY <2>1, <2>3, <2>12
<1>9. AllSupplies(rows) = rows[0].totalSupply
  <2>1. [i \in Outcome |-> rows[i].supply] = of
    BY <1>3, <1>4
  <2> QED
    BY <1>4, <2>1, OutcomesCounted DEF AllSupplies
<1> QED
  BY <1>4, <1>7, <1>8, <1>9, Zenon

\* A reading of a pool that holds every token gives rows with a chance.
LEMMA FundedRows ==
  ASSUME NEW of \in Funded, NEW o \in Outcome
  PROVE  ChanceRow(o, of) \in Row
<1> DEFINE products == [p \in Outcome |-> ProductOfOthers(p, of)]
<1>1. PICK g : g = products
  OBVIOUS
<1>2. /\ of \in [Outcome -> Nat] /\ g[o] \in Nat /\ g[o] = ProductOfOthers(o, of)
      /\ AllProducts(of) \in Nat \ {0}
  BY <1>1, FundedProducts
<1>3. Rounded(ProductOfOthers(o, of), AllProducts(of)) \in Nat
  BY <1>2, RoundedIs
<1>4. SumFunction(of) \in Nat
  <2>1. DOMAIN of = Outcome /\ \A p \in Outcome : of[p] \in Int
    BY <1>2
  <2>2. SumFunction(of) = Summed(of, Outcome)
    BY <2>1, OutcomesCounted, SumFunctionIs
  <2>3. \A p \in Outcome : of[p] \in Nat
    BY <1>2
  <2>4. Summed(of, Outcome) \in Nat
    BY <2>3, OutcomesCounted, SummedNat
  <2> QED
    BY <2>2, <2>4
<1> QED
  BY <1>2, <1>3, <1>4, ChanceRowIs DEF Row

\* What a refresh has read is worth a row, and its loop is within the outcomes.
ReadsFunded ==
  \A r \in Refresher : refresh[r] # Idle => refresh[r].of \in Funded /\ refresh[r].next \in Outcome

\* A refresh that is alone has inserted the rows up to the next.
LoneRefresh ==
  \A r \in Refresher : refresh[r] # Idle /\ refresh[r].alone =>
    /\ Busy = {r}
    /\ \A o \in Outcome : o < refresh[r].next => latest[o] = ChanceRow(o, refresh[r].of)

\* Unless they may be torn the newest rows are of one reading, also while a refresh that
\* has inserted nothing is under way.
OneReading ==
  ~ torn => \E of \in Funded : \A o \in Outcome : latest[o] = ChanceRow(o, of)

ChancesInv ==
  /\ ChancesTypeOK
  /\ ReadsFunded
  /\ LoneRefresh
  /\ OneReading

LEMMA OneReadingSuffices == ChancesInv => ChancesConsistent
<1> SUFFICES ASSUME ChancesInv, ~ torn PROVE ChancesConsistent
  BY DEF ChancesConsistent
<1>1. PICK of \in Funded : \A o \in Outcome : latest[o] = ChanceRow(o, of)
  BY DEF ChancesInv, OneReading
<1>2. /\ \A o, p \in Outcome :
           /\ latest[o].totalSupply = latest[p].totalSupply
           /\ latest[o].supply <= latest[p].supply => latest[o].chance >= latest[p].chance
      /\ AllSupplies(latest) = latest[0].totalSupply
      /\ 2 * AllChances(latest) <= 2 * Scale + Cardinality(Outcome)
      /\ 2 * AllChances(latest) >= 2 * Scale - Cardinality(Outcome)
  BY <1>1, OneReadingConsistent
<1> QED
  BY <1>2, Zenon DEF ChancesConsistent, AllChances, AllSupplies

LEMMA ChancesInitially == ChancesInit => ChancesInv
<1> SUFFICES ASSUME ChancesInit PROVE ChancesInv
  OBVIOUS
<1>1. NoRow \in Row
  BY DEF NoRow, Row
<1>2. ChancesTypeOK
  BY <1>1, ChancesAssumption DEF ChancesInit, ChancesTypeOK
<1>3. ReadsFunded /\ LoneRefresh /\ OneReading
  BY DEF ChancesInit, ReadsFunded, LoneRefresh, OneReading
<1> QED
  BY <1>2, <1>3 DEF ChancesInv

LEMMA QueuedInBounds ==
  ASSUME queue \in 0 .. MaxMessages, NEW n \in Nat
  PROVE  Queued(n) \in 0 .. MaxMessages
BY ChancesAssumption DEF Queued

LEMMA RefreshTyped ==
  ASSUME ChancesInv, NEW r \in Refresher, refresh[r] # Idle
  PROVE  /\ refresh[r] \in Inserting /\ refresh[r].of \in Funded /\ refresh[r].next \in Outcome
         /\ r \in Busy /\ refresh[r].alone \in BOOLEAN
BY DEF ChancesInv, ChancesTypeOK, ReadsFunded, Busy, Inserting

\* The chain, the indexer, the planner and the end time touch no refresh and no row.
LEMMA QuietStep ==
  ASSUME ChancesInv, Trade \/ Close \/ Indexed \/ Plan
  PROVE  ChancesInv'
<1>1. UNCHANGED <<refresh, latest, torn>>
  BY DEF Trade, Close, Indexed, Plan
<1>2. ReadsFunded' /\ LoneRefresh' /\ OneReading'
  BY <1>1 DEF ChancesInv, ReadsFunded, LoneRefresh, OneReading, Busy
<1>3. Queued(1) \in 0 .. MaxMessages /\ Queued(Cardinality(Outcome)) \in 0 .. MaxMessages
  BY OutcomesCounted, QueuedInBounds DEF ChancesInv, ChancesTypeOK
<1>4. ChancesTypeOK'
  <2>1. CASE Trade
    BY <2>1, ChancesAssumption DEF Trade, ChancesInv, ChancesTypeOK
  <2>2. CASE Close
    BY <2>2 DEF Close, ChancesInv, ChancesTypeOK
  <2>3. CASE Indexed
    BY <1>3, <2>3 DEF Indexed, ChancesInv, ChancesTypeOK
  <2>4. CASE Plan
    BY <1>3, <2>4 DEF Plan, ChancesInv, ChancesTypeOK
  <2> QED
    BY <2>1, <2>2, <2>3, <2>4
<1> QED
  BY <1>2, <1>4 DEF ChancesInv

LEMMA ReadInv ==
  ASSUME ChancesInv, NEW r \in Refresher, Read(r)
  PROVE  ChancesInv'
<1>1. /\ queue' \in 0 .. MaxMessages /\ refresh[r] = Idle
      /\ UNCHANGED <<pool, moves, untold, open, latest, torn, deaths>>
  BY ChancesAssumption DEF Read, ChancesInv, ChancesTypeOK
<1>2. OneReading'
  BY <1>1 DEF ChancesInv, OneReading
<1>3. CASE pool \notin Funded
  <2>1. refresh' = refresh
    BY <1>3 DEF Read
  <2> QED
    BY <1>1, <1>2, <2>1 DEF ChancesInv, ChancesTypeOK, ReadsFunded, LoneRefresh, Busy
<1>4. CASE pool \in Funded
  <2> DEFINE step == [at |-> "insert", of |-> pool, next |-> 0, alone |-> Busy = {}]
  <2>1. refresh' = Started(r)
    BY <1>4 DEF Read
  <2>2. step \in Inserting /\ step # Idle
    BY OutcomesCounted DEF ChancesInv, ChancesTypeOK, Inserting, Idle
  <2>3. refresh'[r] = step
    BY <2>1 DEF Started
  <2>4. ASSUME NEW p \in Refresher \ {r}
        PROVE  IF p \in Busy
               THEN /\ refresh'[p] \in Inserting /\ refresh'[p] # Idle
                    /\ refresh'[p].of = refresh[p].of /\ refresh'[p].next = refresh[p].next
                    /\ refresh'[p].alone = FALSE
               ELSE refresh'[p] = Idle
    <3>1. CASE p \in Busy
      <4>1. refresh[p] # Idle /\ refresh[p] \in Inserting
        BY <3>1, RefreshTyped DEF Busy
      <4>2. refresh'[p] = [refresh[p] EXCEPT !.alone = FALSE]
        BY <2>1, <3>1 DEF Started
      <4> QED
        BY <3>1, <4>1, <4>2 DEF Inserting, Idle
    <3>2. CASE p \notin Busy
      BY <2>1, <3>2 DEF Started
    <3> QED
      BY <3>1, <3>2
  <2>5. refresh' \in [Refresher -> {Idle} \cup Inserting]
    <3>1. \A p \in Refresher : refresh'[p] \in {Idle} \cup Inserting
      BY <2>2, <2>3, <2>4
    <3>2. refresh' = [p \in Refresher |-> refresh'[p]]
      BY <2>1 DEF Started
    <3> QED
      BY <3>1, <3>2, Zenon
  <2>6. ChancesTypeOK'
    BY <1>1, <2>5 DEF ChancesInv, ChancesTypeOK
  <2>7. ReadsFunded'
    <3> SUFFICES ASSUME NEW p \in Refresher, refresh'[p] # Idle
                 PROVE  refresh'[p].of \in Funded /\ refresh'[p].next \in Outcome
      BY DEF ReadsFunded
    <3>1. CASE p = r
      BY <1>4, <2>3, <3>1, OutcomesCounted
    <3>2. CASE p # r
      BY <2>4, <3>2 DEF ChancesInv, ReadsFunded, Busy
    <3> QED
      BY <3>1, <3>2
  <2>8. LoneRefresh'
    <3> SUFFICES ASSUME NEW p \in Refresher, refresh'[p] # Idle, refresh'[p].alone
                 PROVE  /\ Busy' = {p}
                        /\ \A o \in Outcome : o < refresh'[p].next => latest'[o] = ChanceRow(o, refresh'[p].of)
      BY DEF LoneRefresh
    <3>1. p = r
      BY <2>4
    <3>2. Busy = {} /\ refresh'[p].next = 0
      <4>1. step.alone = (Busy = {}) /\ step.next = 0
        BY Zenon
      <4> HIDE DEF step
      <4> QED
        BY <2>3, <3>1, <4>1, Zenon
    <3>3. Busy' = {r}
      BY <2>2, <2>3, <2>4, <3>2 DEF Busy
    <3> QED
      BY <3>1, <3>2, <3>3, OutcomesCounted
  <2> QED
    BY <1>2, <2>6, <2>7, <2>8 DEF ChancesInv
<1> QED
  BY <1>3, <1>4

LEMMA InsertInv ==
  ASSUME ChancesInv, NEW r \in Refresher, Insert(r)
  PROVE  ChancesInv'
<1> DEFINE of == refresh[r].of
           next == refresh[r].next
<1>1. /\ refresh[r] \in Inserting /\ of \in Funded /\ next \in Outcome /\ next \in Nat
      /\ r \in Busy /\ refresh[r].alone \in BOOLEAN /\ refresh[r] # Idle
      /\ refresh \in [Refresher -> {Idle} \cup Inserting]
  BY RefreshTyped, OutcomesCounted DEF Insert, ChancesInv, ChancesTypeOK
<1>2. latest' = [latest EXCEPT ![next] = ChanceRow(next, of)] /\ UNCHANGED <<pool, moves, untold, open, queue, deaths>>
  BY DEF Insert, Inserted
<1>3. latest' \in [Outcome -> Row]
  BY <1>1, <1>2, FundedRows DEF ChancesInv, ChancesTypeOK
<1>4. /\ latest'[next] = ChanceRow(next, of)
      /\ \A o \in Outcome \ {next} : latest'[o] = latest[o]
  BY <1>1, <1>2 DEF ChancesInv, ChancesTypeOK
<1>5. refresh[r].alone =>
        Busy = {r} /\ \A o \in Outcome : o <= next => latest'[o] = ChanceRow(o, of)
  <2> SUFFICES ASSUME refresh[r].alone
               PROVE  Busy = {r} /\ \A o \in Outcome : o <= next => latest'[o] = ChanceRow(o, of)
    OBVIOUS
  <2>1. Busy = {r} /\ \A o \in Outcome : o < next => latest[o] = ChanceRow(o, of)
    BY <1>1 DEF ChancesInv, LoneRefresh
  <2>2. \A o \in Outcome : o <= next => o = next \/ o < next
    BY <1>1, OutcomesCounted
  <2> QED
    BY <1>4, <2>1, <2>2
<1>6. \A p \in Refresher \ {r} : refresh[p] # Idle => ~ refresh[p].alone
  BY <1>1 DEF ChancesInv, LoneRefresh
<1>7. CASE next + 1 \in Outcome
  <2>1. refresh' = [refresh EXCEPT ![r].next = @ + 1] /\ torn' = TRUE
    BY <1>7 DEF Insert
  <2>2. /\ refresh'[r] \in Inserting /\ refresh'[r] # Idle /\ refresh'[r].next = next + 1
        /\ refresh'[r].of = of /\ refresh'[r].alone = refresh[r].alone
    <3>1. refresh'[r] = [refresh[r] EXCEPT !.next = next + 1]
      BY <1>1, <2>1
    <3> QED
      BY <1>1, <3>1 DEF Inserting, Idle
  <2>3. \A p \in Refresher \ {r} : refresh'[p] = refresh[p]
    BY <1>1, <2>1
  <2>4. refresh' \in [Refresher -> {Idle} \cup Inserting]
    BY <1>1, <2>1, <2>2
  <2>5. ChancesTypeOK'
    BY <1>2, <1>3, <2>1, <2>4 DEF ChancesInv, ChancesTypeOK
  <2>6. ReadsFunded'
    BY <1>1, <1>7, <2>2, <2>3 DEF ChancesInv, ReadsFunded
  <2>7. LoneRefresh'
    <3> SUFFICES ASSUME NEW p \in Refresher, refresh'[p] # Idle, refresh'[p].alone
                 PROVE  /\ Busy' = {p}
                        /\ \A o \in Outcome : o < refresh'[p].next => latest'[o] = ChanceRow(o, refresh'[p].of)
      BY DEF LoneRefresh
    <3>1. p = r
      BY <1>6, <2>3
    <3>2. Busy = {r} /\ \A o \in Outcome : o <= next => latest'[o] = ChanceRow(o, of)
      BY <1>5, <2>2, <3>1
    <3>3. Busy' = {r}
      BY <1>1, <2>2, <2>3, <3>2 DEF Busy
    <3>4. \A o \in Outcome : o < next + 1 => o <= next
      BY <1>1, OutcomesCounted
    <3> QED
      BY <2>2, <3>1, <3>2, <3>3, <3>4
  <2> QED
    BY <2>1, <2>5, <2>6, <2>7 DEF ChancesInv, OneReading
<1>8. CASE next + 1 \notin Outcome
  <2>1. refresh' = [refresh EXCEPT ![r] = Idle] /\ torn' = ~ refresh[r].alone
    BY <1>8 DEF Insert
  <2>2. refresh'[r] = Idle /\ \A p \in Refresher \ {r} : refresh'[p] = refresh[p]
    BY <1>1, <2>1
  <2>3. ChancesTypeOK'
    BY <1>1, <1>2, <1>3, <2>1 DEF ChancesInv, ChancesTypeOK
  <2>4. ReadsFunded'
    BY <2>2 DEF ChancesInv, ReadsFunded
  <2>5. LoneRefresh'
    BY <1>6, <2>2 DEF LoneRefresh
  <2>6. OneReading'
    <3> SUFFICES ASSUME refresh[r].alone
                 PROVE  \A o \in Outcome : latest'[o] = ChanceRow(o, of)
      BY <1>1, <2>1 DEF OneReading
    <3>1. \A o \in Outcome : o <= next
      BY <1>1, <1>8, OutcomesCounted
    <3> QED
      BY <1>5, <3>1
  <2> QED
    BY <2>3, <2>4, <2>5, <2>6 DEF ChancesInv
<1> QED
  BY <1>7, <1>8

LEMMA FailInv ==
  ASSUME ChancesInv, NEW r \in Refresher, Fail(r)
  PROVE  ChancesInv'
<1>1. /\ r \in Busy /\ refresh \in [Refresher -> {Idle} \cup Inserting]
      /\ refresh' = [refresh EXCEPT ![r] = Idle]
      /\ UNCHANGED <<pool, moves, untold, open, latest, torn>>
  BY RefreshTyped DEF Fail, ChancesInv, ChancesTypeOK
<1>2. refresh'[r] = Idle /\ \A p \in Refresher \ {r} : refresh'[p] = refresh[p]
  BY <1>1
<1>3. queue' \in 0 .. MaxMessages /\ deaths' \in 0 .. MaxDeaths
  BY QueuedInBounds, ChancesAssumption DEF Fail, ChancesInv, ChancesTypeOK
<1>4. ChancesTypeOK'
  BY <1>1, <1>3 DEF ChancesInv, ChancesTypeOK
<1>5. ReadsFunded'
  BY <1>2 DEF ChancesInv, ReadsFunded
<1>6. LoneRefresh'
  BY <1>1, <1>2 DEF ChancesInv, LoneRefresh
<1>7. OneReading'
  BY <1>1 DEF ChancesInv, OneReading
<1> QED
  BY <1>4, <1>5, <1>6, <1>7 DEF ChancesInv

\* Whatever refreshes overlap, die or fail, a reading that was inserted alone stays whole.
THEOREM ChancesCorrect == Spec => []ChancesInv
<1>1. Init => ChancesInv
  BY ChancesInitially DEF Init
<1>2. ChancesInv /\ [Next]_vars => ChancesInv'
  <2> SUFFICES ASSUME ChancesInv, [Next]_vars PROVE ChancesInv'
    OBVIOUS
  <2>1. CASE ChancesNext
    <3>1. ASSUME NEW r \in Refresher, Read(r) \/ Insert(r) \/ Fail(r)
          PROVE  ChancesInv'
      BY <3>1, ReadInv, InsertInv, FailInv
    <3> QED
      BY <2>1, <3>1, QuietStep DEF ChancesNext
  <2>2. CASE UNCHANGED chanceVars
    BY <2>2 DEF chanceVars, ChancesInv, ChancesTypeOK, ReadsFunded, LoneRefresh, OneReading, Busy
  <2> QED
    BY <2>1, <2>2 DEF Next, vars
<1> QED
  BY <1>1, <1>2, PTL DEF Spec

\* The chances shown sum to one up to the rounding of the column, a larger reserve has no
\* larger chance and the reserves sum to the total, for every number of outcomes, every
\* scale of the column and all reserves (refresh-outcome-chances.worker.ts:54-89,
\* 20-outcome-chance.ts:9).
THEOREM ChancesOfOneReading == Spec => []ChancesConsistent
BY OneReadingSuffices, ChancesCorrect, PTL

-----------------------------------------------------------------------------
(* The transactions of a market *)

\* Removed funding has no collateral: the parser inserts none.
RowsTyped ==
  /\ share \in Seq(Share) /\ funding \in Seq(Funding) /\ claim \in Seq(Claim)
  /\ market \in Market
  /\ \A i \in DOMAIN funding : funding[i].type = "REMOVED" => funding[i].collateral = 0

LEMMA ByIndexTyped ==
  ASSUME NEW S \in SUBSET Outcome
  PROVE  ByIndex(S) \in Seq(S)
<1> DEFINE R == {p \in S \X S : p[1] < p[2]}
           n == Cardinality(S)
<1>1. IsFiniteSet(S) /\ S \subseteq Nat /\ n \in Nat
  BY OutcomesCounted, FS_Subset, FS_CardinalityType
<1>2. Orders(R, S)
  BY <1>1 DEF Orders
<1>3. \A x \in S : Ahead(R, S, x) = {y \in S : y < x}
  BY DEF Ahead
<1>4. ASSUME NEW i \in 1 .. n
      PROVE  \E x \in S : Cardinality({y \in S : y < x}) = i - 1
  <2> HIDE DEF R
  <2>1. PICK x \in S : Cardinality(Ahead(R, S, x)) = i - 1
    BY <1>1, <1>2, PlacesTaken
  <2> QED
    BY <1>3, <2>1
<1>5. ByIndex(S) = [i \in 1 .. n |-> CHOOSE x \in S : Cardinality({y \in S : y < x}) = i - 1]
  BY Zenon DEF ByIndex, Ordered
<1>6. \A i \in 1 .. n : (CHOOSE x \in S : Cardinality({y \in S : y < x}) = i - 1) \in S
  BY <1>4
<1>7. ByIndex(S) \in [1 .. n -> S]
  BY <1>5, <1>6
<1> QED
  BY <1>1, <1>7

LEMMA FundRowTyped ==
  ASSUME NEW u \in Owner, NEW o \in Outcome, NEW amounts \in [Outcome -> Nat],
         NEW collateral \in Nat, amounts[o] < collateral, NEW time \in Nat
  PROVE  FundRow(u, o, amounts, collateral, time) \in Share
<1> DEFINE g == [p \in Outcome |-> ProductOfOthers(p, amounts)]
           sum == SumFunction(g)
           tokens == collateral - amounts[o]
           row == [type |-> "FUND", user |-> u, outcome |-> o, fee |-> 0, tokens |-> tokens, time |-> time,
                   amount |-> IF sum = 0 THEN 0 ELSE (tokens * ProductOfOthers(o, amounts)) \div sum]
<1>1. \A p \in Outcome : ProductOfOthers(p, amounts) \in Nat
  <2> SUFFICES ASSUME NEW p \in Outcome PROVE ProductOfOthers(p, amounts) \in Nat
    OBVIOUS
  <2> DEFINE S == Outcome \ {p}
  <2>1. IsFiniteSet(S) /\ (\A q \in S : amounts[q] \in Nat) /\ \A q \in Outcome : amounts[q] \in Int
    BY OutcomesCounted, FS_Subset
  <2>2. ProductOfOthers(p, amounts) = Multiplied(amounts, S)
    BY <2>1, ProductOfOthersIs
  <2> HIDE DEF S
  <2> QED
    BY <2>1, <2>2, MultipliedNat
<1>2. sum \in Nat
  <2>1. DOMAIN g = Outcome /\ \A p \in Outcome : g[p] \in Nat /\ g[p] \in Int
    BY <1>1
  <2> HIDE DEF g
  <2>2. SumFunction(g) = Summed(g, Outcome) /\ Summed(g, Outcome) \in Nat
    BY <2>1, OutcomesCounted, SumFunctionIs, SummedNat
  <2> QED
    BY <2>2
<1>3. tokens \in Nat \ {0}
  <2>1. amounts[o] \in Nat
    OBVIOUS
  <2> QED
    BY <2>1
<1>4. FundRow(u, o, amounts, collateral, time) = row
  BY DEF FundRow
<1> HIDE DEF sum, tokens
<1>5. (IF sum = 0 THEN 0 ELSE (tokens * ProductOfOthers(o, amounts)) \div sum) \in Nat
  <2>1. PICK product \in Nat : product = tokens * ProductOfOthers(o, amounts)
    <3>1. ProductOfOthers(o, amounts) \in Nat
      BY <1>1
    <3>2. \A a, b \in Nat : a * b \in Nat
      OBVIOUS
    <3> QED
      BY <1>3, <3>1, <3>2
  <2>2. \A a \in Nat, b \in Nat \ {0} : a \div b \in Nat
    OBVIOUS
  <2>3. sum # 0 => product \div sum \in Nat
    BY <1>2, <2>2
  <2> QED
    BY <2>1, <2>3
<1>6. row \in Share
  BY <1>3, <1>5 DEF Share
<1> QED
  BY <1>4, <1>6

LEMMA Exploring ==
  ASSUME RowsTyped
  PROVE  /\ market.users \subseteq Owner /\ market.outcomes \subseteq Outcome
         /\ market.amounts \subseteq Nat /\ market.tokens \subseteq Nat \ {0}
         /\ market.fee \in Nat /\ market.tick \in Nat
BY PortfolioAssumption DEF RowsTyped

LEMMA NowTyped == ASSUME RowsTyped PROVE Now \in Nat
<1>1. CASE share = <<>>
  BY <1>1 DEF Now
<1>2. CASE share # <<>>
  <2>1. share \in Seq(Share) /\ Len(share) \in 1 .. Len(share)
    BY <1>2, EmptySeq DEF RowsTyped
  <2>2. share[Len(share)] \in Share
    BY <2>1
  <2> QED
    BY <1>2, <2>2 DEF Now, Last, Share
<1> QED
  BY <1>1, <1>2

\* Rows are only added, and what is added is typed.
LEMMA ShareAdded ==
  ASSUME RowsTyped, NEW row \in Share, share' = Append(share, row), UNCHANGED <<funding, claim, market>>
  PROVE  RowsTyped'
BY DEF RowsTyped

LEMMA FundingAdded ==
  ASSUME RowsTyped, NEW row \in Funding, row.type = "REMOVED" => row.collateral = 0,
         funding' = Append(funding, row), share' \in Seq(Share), UNCHANGED <<claim, market>>
  PROVE  RowsTyped'
<1>1. funding \in Seq(Funding) /\ funding' \in Seq(Funding)
  BY DEF RowsTyped
<1>2. ASSUME NEW i \in DOMAIN funding', funding'[i].type = "REMOVED"
      PROVE  funding'[i].collateral = 0
  <2>1. CASE i \in DOMAIN funding
    BY <1>1, <1>2, <2>1 DEF RowsTyped
  <2>2. CASE i \notin DOMAIN funding
    <3>1. funding'[i] = row
      BY <1>1, <2>2
    <3> QED
      BY <1>2, <3>1
  <2> QED
    BY <2>1, <2>2
<1> QED
  BY <1>1, <1>2 DEF RowsTyped

LEMMA AddFundingTyped ==
  ASSUME RowsTyped, NEW u \in Owner, NEW amounts \in [Outcome -> Nat], NEW time \in Nat,
         AddFunding(u, amounts, time)
  PROVE  /\ RowsTyped'
         /\ \E rows \in Seq(Share) :
              /\ share' = share \o rows /\ left' = left \o [i \in DOMAIN rows |-> rows[i].tokens]
              /\ \A k \in DOMAIN rows : rows[k].type = "FUND" /\ rows[k].time = time
<1> DEFINE values == {amounts[o] : o \in Outcome}
           collateral == Max(values)
           S == {o \in Outcome : amounts[o] # collateral}
           short == ByIndex(S)
           rows == [i \in DOMAIN short |-> FundRow(u, short[i], amounts, collateral, time)]
<1>1. collateral \in Nat /\ \A o \in Outcome : amounts[o] <= collateral
  <2>1. values \in SUBSET Int /\ values # {} /\ values \subseteq Nat
    BY OutcomesCounted
  <2>2. amounts \in Surjection(Outcome, values)
    BY DEF Surjection
  <2>3. IsFiniteSet(values)
    <3> HIDE DEF values
    <3> QED
      BY <2>2, OutcomesCounted, FS_Surjection
  <2>4. Max(values) \in values /\ \A y \in values : Max(values) >= y
    <3> HIDE DEF values
    <3> QED
      BY <2>1, <2>3, MaxIs
  <2> HIDE DEF collateral
  <2>5. collateral \in values /\ \A y \in values : collateral >= y
    BY <2>4 DEF collateral
  <2>6. collateral \in Nat
    BY <2>1, <2>5
  <2> QED
    BY <2>5, <2>6
<1> HIDE DEF collateral
<1>2. short \in Seq(S)
  BY ByIndexTyped
<1> HIDE DEF short
<1>3. \A i \in DOMAIN short : FundRow(u, short[i], amounts, collateral, time) \in Share
  <2> SUFFICES ASSUME NEW i \in DOMAIN short
               PROVE  FundRow(u, short[i], amounts, collateral, time) \in Share
    OBVIOUS
  <2>1. short[i] \in S
    BY <1>2
  <2>2. short[i] \in Outcome /\ amounts[short[i]] < collateral
    BY <1>1, <2>1
  <2> QED
    BY <1>1, <2>2, FundRowTyped
<1>4. rows \in Seq(Share)
  BY <1>2, <1>3
<1>5. share' = share \o rows /\ left' = left \o [i \in DOMAIN rows |-> rows[i].tokens]
  BY DEF AddFunding, rows, short, S, collateral, values
<1>6. \A k \in DOMAIN rows : rows[k].type = "FUND" /\ rows[k].time = time
  BY DEF FundRow
<1> HIDE DEF rows
<1>7. share' \in Seq(Share)
  BY <1>4, <1>5 DEF RowsTyped
<1> DEFINE row == [type |-> "ADDED", user |-> u, collateral |-> collateral, shares |-> collateral]
<1>8. funding' = Append(funding, row) /\ UNCHANGED <<claim, market>>
  BY DEF AddFunding, collateral, values
<1>9. row \in Funding /\ row.type # "REMOVED"
  BY <1>1 DEF Funding
<1>10. RowsTyped'
  BY <1>7, <1>8, <1>9, FundingAdded
<1> QED
  BY <1>4, <1>5, <1>6, <1>10, Zenon

LEMMA RowsStep == RowsTyped /\ PortfolioNext => RowsTyped'
<1> SUFFICES ASSUME RowsTyped, PortfolioNext PROVE RowsTyped'
  OBVIOUS
<1>1. ASSUME NEW u \in market.users, NEW o \in market.outcomes, NEW tokens \in market.tokens,
             NEW time \in Now .. Now + market.tick, NEW amount \in market.amounts,
             Buy(u, o, amount, tokens, time)
      PROVE  RowsTyped'
  <2> DEFINE row == [type |-> "BUY", user |-> u, outcome |-> o, amount |-> amount,
                     fee |-> market.fee, tokens |-> tokens, time |-> time]
  <2>1. row \in Share
    BY <1>1, Exploring, NowTyped DEF Share
  <2>2. share' = Append(share, row) /\ UNCHANGED <<funding, claim, market>>
    BY <1>1 DEF Buy
  <2> QED
    BY <2>1, <2>2, ShareAdded
<1>2. ASSUME NEW u \in market.users, NEW o \in market.outcomes, NEW tokens \in market.tokens,
             NEW time \in Now .. Now + market.tick, Sell(u, o, 1, tokens, time)
      PROVE  RowsTyped'
  <2> DEFINE row == [type |-> "SELL", user |-> u, outcome |-> o, amount |-> 1,
                     fee |-> market.fee, tokens |-> tokens, time |-> time]
  <2>1. row \in Share
    BY <1>2, Exploring, NowTyped DEF Share
  <2>2. share' = Append(share, row) /\ UNCHANGED <<funding, claim, market>>
    BY <1>2 DEF Sell
  <2> QED
    BY <2>1, <2>2, ShareAdded
<1>3. ASSUME NEW u \in market.users, NEW amounts \in [Outcome -> market.amounts],
             NEW time \in Now .. Now + market.tick, AddFunding(u, amounts, time)
      PROVE  RowsTyped'
  <2>1. u \in Owner /\ amounts \in [Outcome -> Nat] /\ time \in Nat
    BY Exploring, NowTyped
  <2> QED
    BY <1>3, <2>1, AddFundingTyped
<1>4. ASSUME NEW u \in market.users, RemoveFunding(u, 1)
      PROVE  RowsTyped'
  <2> DEFINE row == [type |-> "REMOVED", user |-> u, collateral |-> 0, shares |-> 1]
  <2>1. row \in Funding /\ row.collateral = 0
    BY Exploring DEF Funding
  <2>2. funding' = Append(funding, row) /\ share' \in Seq(Share) /\ UNCHANGED <<claim, market>>
    BY <1>4 DEF RemoveFunding, RowsTyped
  <2> QED
    BY <2>1, <2>2, FundingAdded
<1>5. ASSUME NEW u \in market.users \cap User, NEW o \in market.outcomes, ClaimWinnings(u, o, 2)
      PROVE  RowsTyped'
  <2>1. [user |-> u, outcome |-> o, amount |-> 2] \in Claim
    BY Exploring DEF Claim
  <2> QED
    BY <1>5, <2>1 DEF ClaimWinnings, RowsTyped
<1> QED
  BY <1>1, <1>2, <1>3, <1>4, <1>5 DEF PortfolioNext

\* The columns of the rows
Amounts == [i \in DOMAIN share |-> share[i].amount]
Fees == [i \in DOMAIN share |-> share[i].fee]
Nets == [i \in DOMAIN share |-> share[i].amount - share[i].fee]
Tokens == [i \in DOMAIN share |-> share[i].tokens]
Collaterals == [i \in DOMAIN funding |-> funding[i].collateral]

LEMMA RowsFinite ==
  ASSUME RowsTyped
  PROVE  /\ IsFiniteSet(DOMAIN share) /\ IsFiniteSet(DOMAIN funding)
         /\ \A i \in DOMAIN share : share[i] \in Share
         /\ \A i \in DOMAIN funding : funding[i] \in Funding
<1>1. /\ DOMAIN share = 1 .. Len(share) /\ Len(share) \in Nat
      /\ DOMAIN funding = 1 .. Len(funding) /\ Len(funding) \in Nat
      /\ \A i \in DOMAIN share : share[i] \in Share
      /\ \A i \in DOMAIN funding : funding[i] \in Funding
  BY DEF RowsTyped
<1>2. \A n \in Nat : IsFiniteSet(1 .. n)
  BY FS_Interval
<1> QED
  BY <1>1, <1>2

LEMMA ColumnsTyped ==
  ASSUME RowsTyped
  PROVE  /\ \A i \in DOMAIN share : Amounts[i] \in Nat /\ Fees[i] \in Nat /\ Tokens[i] \in Nat /\ Nets[i] \in Int
         /\ \A i \in DOMAIN funding : Collaterals[i] \in Nat
BY RowsFinite DEF Amounts, Fees, Tokens, Nets, Collaterals, Share, Funding

LEMMA SumsAre ==
  ASSUME RowsTyped, NEW ids \in SUBSET DOMAIN share
  PROVE  /\ IsFiniteSet(ids)
         /\ SumOf(ids, AmountOf) = Summed(Amounts, ids) /\ Summed(Amounts, ids) \in Nat
         /\ SumOf(ids, FeeOf) = Summed(Fees, ids) /\ Summed(Fees, ids) \in Nat
         /\ SumOf(ids, NetOf) = Summed(Nets, ids) /\ Summed(Nets, ids) \in Int
         /\ SumOf(ids, TokensOf) = Summed(Tokens, ids) /\ Summed(Tokens, ids) \in Nat
<1>1. IsFiniteSet(ids)
  BY RowsFinite, FS_Subset
<1>2. ASSUME NEW f, \A i \in ids : f[i] \in Int
      PROVE  SumFunction([i \in ids |-> f[i]]) = Summed(f, ids)
  <2> DEFINE g == [i \in ids |-> f[i]]
  <2>1. DOMAIN g = ids /\ \A i \in ids : g[i] \in Int /\ g[i] = f[i]
    BY <1>2
  <2> HIDE DEF g
  <2>2. SumFunction(g) = Summed(g, ids)
    BY <1>1, <2>1, SumFunctionIs
  <2>3. Summed(g, ids) = Summed(f, ids)
    BY <1>1, <2>1, SummedCongruent
  <2> QED
    BY <2>2, <2>3 DEF g
<1>3. /\ \A i \in ids : Amounts[i] \in Nat /\ Fees[i] \in Nat /\ Tokens[i] \in Nat /\ Nets[i] \in Int
      /\ \A i \in ids : Amounts[i] \in Int /\ Fees[i] \in Int /\ Tokens[i] \in Int
  BY ColumnsTyped
<1>4. /\ [i \in ids |-> Amounts[i]] = [i \in ids |-> share[i].amount]
      /\ [i \in ids |-> Fees[i]] = [i \in ids |-> share[i].fee]
      /\ [i \in ids |-> Nets[i]] = [i \in ids |-> share[i].amount - share[i].fee]
      /\ [i \in ids |-> Tokens[i]] = [i \in ids |-> share[i].tokens]
  BY DEF Amounts, Fees, Nets, Tokens
<1>5. /\ SumOf(ids, AmountOf) = SumFunction([i \in ids |-> share[i].amount])
      /\ SumOf(ids, FeeOf) = SumFunction([i \in ids |-> share[i].fee])
      /\ SumOf(ids, NetOf) = SumFunction([i \in ids |-> share[i].amount - share[i].fee])
      /\ SumOf(ids, TokensOf) = SumFunction([i \in ids |-> share[i].tokens])
  BY Zenon DEF SumOf, AmountOf, FeeOf, NetOf, TokensOf
<1>6. /\ Summed(Amounts, ids) \in Nat /\ Summed(Fees, ids) \in Nat
      /\ Summed(Tokens, ids) \in Nat /\ Summed(Nets, ids) \in Int
  BY <1>1, <1>3, SummedNat, SummedInt
<1>7. /\ SumFunction([i \in ids |-> Amounts[i]]) = Summed(Amounts, ids)
      /\ SumFunction([i \in ids |-> Fees[i]]) = Summed(Fees, ids)
      /\ SumFunction([i \in ids |-> Nets[i]]) = Summed(Nets, ids)
      /\ SumFunction([i \in ids |-> Tokens[i]]) = Summed(Tokens, ids)
  BY <1>2, <1>3
<1> QED
  BY <1>1, <1>4, <1>5, <1>6, <1>7

LEMMA CollateralIs ==
  ASSUME RowsTyped, NEW ids \in SUBSET DOMAIN funding
  PROVE  /\ IsFiniteSet(ids)
         /\ CollateralOf(ids) = Summed(Collaterals, ids) /\ Summed(Collaterals, ids) \in Nat
<1> DEFINE g == [i \in ids |-> funding[i].collateral]
<1>1. IsFiniteSet(ids) /\ \A i \in ids : Collaterals[i] \in Nat
  BY RowsFinite, ColumnsTyped, FS_Subset
<1>2. DOMAIN g = ids /\ \A i \in ids : g[i] \in Int /\ g[i] = Collaterals[i]
  <2>1. \A i \in ids : g[i] = Collaterals[i]
    BY DEF Collaterals
  <2> QED
    BY <1>1, <2>1
<1>3. CollateralOf(ids) = SumFunction(g)
  BY DEF CollateralOf
<1> HIDE DEF g
<1>4. SumFunction(g) = Summed(g, ids) /\ Summed(g, ids) = Summed(Collaterals, ids)
  BY <1>1, <1>2, SumFunctionIs, SummedCongruent
<1> QED
  BY <1>1, <1>3, <1>4, SummedNat

\* What the removed funding of a user would count is nothing.
LEMMA FundingIsAdded ==
  ASSUME RowsTyped, NEW u \in Owner
  PROVE  /\ OpenFunding(u) = CollateralOf(Fundings(u, {"ADDED"}))
         /\ OpenFunding(u) = Summed(Collaterals, {i \in DOMAIN funding : funding[i].user = u})
         /\ OpenFunding(u) \in Nat
<1> DEFINE A == Fundings(u, {"ADDED"})
           R == Fundings(u, {"REMOVED"})
           F == {i \in DOMAIN funding : funding[i].user = u}
<1>1. /\ A \in SUBSET DOMAIN funding /\ R \in SUBSET DOMAIN funding /\ F \in SUBSET DOMAIN funding
      /\ A \cap R = {} /\ A \cup R = F /\ Fundings(u, {"ADDED", "REMOVED"}) = F
  BY RowsFinite DEF Fundings, Funding
<1>2. \A i \in R : Collaterals[i] = 0
  BY DEF Fundings, Collaterals, RowsTyped
<1> HIDE DEF A, R, F
<1>3. /\ CollateralOf(F) = Summed(Collaterals, F) /\ Summed(Collaterals, F) \in Nat
      /\ CollateralOf(A) = Summed(Collaterals, A) /\ Summed(Collaterals, A) \in Nat
      /\ IsFiniteSet(A) /\ IsFiniteSet(R)
  BY <1>1, CollateralIs
<1>4. Summed(Collaterals, R) = 0
  BY <1>2, <1>3, SummedZero
<1>5. Summed(Collaterals, A \cup R) = Summed(Collaterals, A) + Summed(Collaterals, R)
  <2>1. \A i \in A \cup R : Collaterals[i] \in Int
    BY <1>1, ColumnsTyped
  <2> QED
    BY <1>1, <1>3, <2>1, SummedUnion
<1>6. OpenFunding(u) = CollateralOf(F)
  BY <1>1 DEF OpenFunding
<1>7. OpenFunding(u) = CollateralOf(A) /\ OpenFunding(u) = Summed(Collaterals, F) /\ OpenFunding(u) \in Nat
  <2>1. Summed(Collaterals, F) = Summed(Collaterals, A) + Summed(Collaterals, R)
    BY <1>1, <1>5, Zenon
  <2> QED
    BY <1>3, <1>4, <1>6, <2>1
<1> QED
  BY <1>7 DEF A, F

LEMMA OwnersFinite == IsFiniteSet(Owner)
BY PortfolioAssumption, FS_AddElement DEF Owner

\* Each funding is some user's or nobody's.
LEMMA FundingsOfOwners ==
  ASSUME RowsTyped
  PROVE  /\ SumFunction([u \in Owner |-> OpenFunding(u)]) = FundingVolume
         /\ Summed([u \in Owner |-> OpenFunding(u)], Owner) = FundingVolume
         /\ FundingVolume \in Nat
<1> DEFINE t == [u \in Owner |-> OpenFunding(u)]
           owner == [i \in DOMAIN funding |-> funding[i].user]
           F == DOMAIN funding
<1>1. DOMAIN t = Owner /\ \A u \in Owner : t[u] \in Int
  <2>1. \A u \in Owner : OpenFunding(u) \in Int
    <3>1. \A u \in Owner : OpenFunding(u) \in Nat
      BY FundingIsAdded, Zenon
    <3> QED
      BY <3>1
  <2> QED
    BY <2>1
<1>2. \A u \in Owner : t[u] = Summed(Collaterals, OwnedBy(owner, F, u))
  <2> SUFFICES ASSUME NEW u \in Owner
               PROVE  t[u] = Summed(Collaterals, OwnedBy(owner, F, u))
    OBVIOUS
  <2>1. OwnedBy(owner, F, u) = {i \in DOMAIN funding : funding[i].user = u}
    BY DEF OwnedBy
  <2> QED
    BY <2>1, FundingIsAdded
<1>3. IsFiniteSet(F) /\ \A i \in F : Collaterals[i] \in Int /\ owner[i] \in Owner
  BY RowsFinite, ColumnsTyped DEF Funding
<1>4. FundingVolume = Summed(Collaterals, F) /\ FundingVolume \in Nat
  BY CollateralIs DEF FundingVolume
<1> HIDE DEF t, owner, F
<1>5. Summed(t, Owner) = Summed(Collaterals, F)
  BY <1>2, <1>3, OwnersFinite, SummedByOwner
<1>6. SumFunction(t) = Summed(t, Owner)
  BY <1>1, OwnersFinite, SumFunctionIs
<1> QED
  BY <1>4, <1>5, <1>6 DEF t

\* The buys of all users
LEMMA RankingIs ==
  ASSUME RowsTyped
  PROVE  SumFunction([u \in Owner |-> TopVolume(u)])
           = Summed(Amounts, {i \in DOMAIN share : share[i].type = "BUY"}) + FundingVolume
<1> DEFINE B == {i \in DOMAIN share : share[i].type = "BUY"}
           owner == [i \in B |-> share[i].user]
           Of(u) == {i \in DOMAIN share : share[i].user = u /\ share[i].type = "BUY"}
           f == [u \in Owner |-> Summed(Amounts, Of(u))]
           g == [u \in Owner |-> OpenFunding(u)]
           h == [u \in Owner |-> TopVolume(u)]
<1>1. \A u \in Owner : f[u] \in Int /\ g[u] \in Int /\ h[u] = f[u] + g[u]
  <2> SUFFICES ASSUME NEW u \in Owner
               PROVE  f[u] \in Int /\ g[u] \in Int /\ h[u] = f[u] + g[u]
    OBVIOUS
  <2>1. Of(u) \in SUBSET DOMAIN share
    OBVIOUS
  <2>2. TopVolume(u) = SumOf(Of(u), AmountOf) + CollateralOf(Fundings(u, {"ADDED"}))
    BY Zenon DEF TopVolume
  <2>3. SumOf(Of(u), AmountOf) = Summed(Amounts, Of(u)) /\ Summed(Amounts, Of(u)) \in Nat
    BY <2>1, SumsAre
  <2> HIDE DEF Of
  <2>4. OpenFunding(u) \in Nat /\ OpenFunding(u) = CollateralOf(Fundings(u, {"ADDED"}))
    BY FundingIsAdded
  <2>5. f[u] = Summed(Amounts, Of(u)) /\ g[u] = OpenFunding(u) /\ h[u] = TopVolume(u)
    OBVIOUS
  <2> HIDE DEF f, g, h
  <2> QED
    BY <2>2, <2>3, <2>4, <2>5
<1>2. DOMAIN h = Owner
  OBVIOUS
<1>3. \A u \in Owner : f[u] = Summed(Amounts, OwnedBy(owner, B, u))
  <2> SUFFICES ASSUME NEW u \in Owner
               PROVE  f[u] = Summed(Amounts, OwnedBy(owner, B, u))
    OBVIOUS
  <2>1. OwnedBy(owner, B, u) = Of(u)
    BY DEF OwnedBy
  <2> QED
    BY <2>1
<1>4. IsFiniteSet(B) /\ \A i \in B : Amounts[i] \in Int /\ owner[i] \in Owner
  <2>1. B \in SUBSET DOMAIN share
    OBVIOUS
  <2> QED
    BY <2>1, RowsFinite, ColumnsTyped, FS_Subset DEF Share
<1> HIDE DEF f, g, h, B, owner
<1>5. Summed(f, Owner) = Summed(Amounts, B)
  BY <1>3, <1>4, OwnersFinite, SummedByOwner
<1>6. Summed(h, Owner) = Summed(f, Owner) + Summed(g, Owner)
  BY <1>1, OwnersFinite, SummedPlus
<1>7. Summed(g, Owner) = FundingVolume
  BY FundingsOfOwners DEF g
<1>8. SumFunction(h) = Summed(h, Owner)
  <2>1. \A u \in Owner : h[u] \in Int
    BY <1>1
  <2> QED
    BY <1>2, <2>1, OwnersFinite, SumFunctionIs
<1> QED
  BY <1>5, <1>6, <1>7, <1>8 DEF h, B

\* What is bought and paid out of rows, as sums of their columns
Buys(ids) == {i \in ids : share[i].type = "BUY"}
Sales(ids) == {i \in ids : share[i].type = "SELL"}

LEMMA VolumeOf ==
  ASSUME RowsTyped, NEW ids \in SUBSET DOMAIN share
  PROVE  /\ NetBought(ids) = Summed(Nets, Buys(ids)) /\ NetBought(ids) \in Int
         /\ PaidOut(ids) = Summed(Amounts, Sales(ids)) /\ PaidOut(ids) \in Nat
<1>1. Buys(ids) \in SUBSET DOMAIN share /\ Sales(ids) \in SUBSET DOMAIN share
  BY DEF Buys, Sales
<1>2. NetBought(ids) = SumOf(Buys(ids), NetOf) /\ PaidOut(ids) = SumOf(Sales(ids), AmountOf)
  BY Zenon DEF NetBought, PaidOut, Buys, Sales
<1>3. SumOf(Buys(ids), NetOf) = Summed(Nets, Buys(ids)) /\ Summed(Nets, Buys(ids)) \in Int
  BY <1>1, SumsAre
<1>4. SumOf(Sales(ids), AmountOf) = Summed(Amounts, Sales(ids)) /\ Summed(Amounts, Sales(ids)) \in Nat
  BY <1>1, SumsAre
<1> QED
  BY <1>2, <1>3, <1>4

\* A column of typed rows, summed outcome by outcome
LEMMA ByOutcome ==
  ASSUME RowsTyped, NEW ids \in SUBSET DOMAIN share, NEW f, \A i \in ids : f[i] \in Int,
         NEW t, \A o \in Outcome : t[o] = Summed(f, {i \in ids : share[i].outcome = o})
  PROVE  Summed(t, Outcome) = Summed(f, ids)
<1> DEFINE owner == [i \in ids |-> share[i].outcome]
<1>1. IsFiniteSet(ids) /\ \A i \in ids : owner[i] \in Outcome
  BY RowsFinite, FS_Subset DEF Share
<1>2. \A o \in Outcome : t[o] = Summed(f, OwnedBy(owner, ids, o))
  <2> SUFFICES ASSUME NEW o \in Outcome PROVE t[o] = Summed(f, OwnedBy(owner, ids, o))
    OBVIOUS
  <2>1. OwnedBy(owner, ids, o) = {i \in ids : share[i].outcome = o}
    BY DEF OwnedBy
  <2> QED
    BY <2>1
<1> HIDE DEF owner
<1> QED
  BY <1>1, <1>2, OutcomesCounted, SummedByOwner

\* The outcomes' volumes, none of which is shown as negative, cover the set's.
LEMMA OutcomesCover ==
  ASSUME RowsTyped
  PROVE  SumFunction([o \in Outcome |-> OutcomeVolume(o)]) >= TransactionsVolume
<1> DEFINE n == [o \in Outcome |-> NetBought(OfOutcome(o))]
           p == [o \in Outcome |-> PaidOut(OfOutcome(o))]
           d == [o \in Outcome |-> NetBought(OfOutcome(o)) - PaidOut(OfOutcome(o))]
           v == [o \in Outcome |-> OutcomeVolume(o)]
           all == DOMAIN share
<1>1. \A o \in Outcome : OfOutcome(o) \in SUBSET DOMAIN share
  BY DEF OfOutcome
<1>2. \A o \in Outcome : NetBought(OfOutcome(o)) \in Int /\ PaidOut(OfOutcome(o)) \in Int
  <2>1. \A i \in Nat : i \in Int
    OBVIOUS
  <2> QED
    BY <1>1, <2>1, VolumeOf
<1>3. /\ \A o \in Outcome : d[o] \in Int /\ p[o] \in Int /\ n[o] = d[o] + p[o]
      /\ \A o \in Outcome : d[o] \in Int /\ v[o] \in Int /\ d[o] <= v[o]
  <2>1. ASSUME NEW a \in Int PROVE Max({a, 0}) \in Int /\ a <= Max({a, 0})
    BY MaxOfTwo
  <2>2. \A o \in Outcome : OutcomeVolume(o) = Max({NetBought(OfOutcome(o)) - PaidOut(OfOutcome(o)), 0})
    BY DEF OutcomeVolume
  <2>3. \A o \in Outcome : NetBought(OfOutcome(o)) - PaidOut(OfOutcome(o)) \in Int
    BY <1>2
  <2>4. \A o \in Outcome : /\ OutcomeVolume(o) \in Int
                           /\ NetBought(OfOutcome(o)) - PaidOut(OfOutcome(o)) <= OutcomeVolume(o)
    BY <2>1, <2>2, <2>3
  <2> QED
    BY <1>2, <2>4
<1>4. Summed(n, Outcome) = NetBought(all)
  <2>1. /\ Buys(all) \in SUBSET DOMAIN share /\ \A i \in Buys(all) : Nets[i] \in Int
    BY ColumnsTyped DEF Buys
  <2>2. \A o \in Outcome : n[o] = Summed(Nets, {i \in Buys(all) : share[i].outcome = o})
    <3> SUFFICES ASSUME NEW o \in Outcome
                 PROVE  n[o] = Summed(Nets, {i \in Buys(all) : share[i].outcome = o})
      OBVIOUS
    <3>1. Buys(OfOutcome(o)) = {i \in Buys(all) : share[i].outcome = o}
      BY DEF Buys, OfOutcome
    <3> QED
      BY <1>1, <3>1, VolumeOf
  <2> HIDE DEF n
  <2>3. Summed(n, Outcome) = Summed(Nets, Buys(all))
    BY <2>1, <2>2, ByOutcome
  <2> QED
    BY <2>3, VolumeOf
<1>5. Summed(p, Outcome) = PaidOut(all)
  <2>1. /\ Sales(all) \in SUBSET DOMAIN share /\ \A i \in Sales(all) : Amounts[i] \in Int
    BY ColumnsTyped DEF Sales
  <2>2. \A o \in Outcome : p[o] = Summed(Amounts, {i \in Sales(all) : share[i].outcome = o})
    <3> SUFFICES ASSUME NEW o \in Outcome
                 PROVE  p[o] = Summed(Amounts, {i \in Sales(all) : share[i].outcome = o})
      OBVIOUS
    <3>1. Sales(OfOutcome(o)) = {i \in Sales(all) : share[i].outcome = o}
      BY DEF Sales, OfOutcome
    <3> QED
      BY <1>1, <3>1, VolumeOf
  <2> HIDE DEF p
  <2>3. Summed(p, Outcome) = Summed(Amounts, Sales(all))
    BY <2>1, <2>2, ByOutcome
  <2> QED
    BY <2>3, VolumeOf
<1>6. DOMAIN v = Outcome
  OBVIOUS
<1>7. TransactionsVolume = NetBought(all) - PaidOut(all)
  BY DEF TransactionsVolume
<1> HIDE DEF n, p, d, v
<1>8. Summed(n, Outcome) = Summed(d, Outcome) + Summed(p, Outcome)
  BY <1>3, OutcomesCounted, SummedPlus
<1>9. Summed(d, Outcome) <= Summed(v, Outcome)
  BY <1>3, OutcomesCounted, SummedAtMost
<1>10. /\ Summed(d, Outcome) \in Int /\ Summed(p, Outcome) \in Int
       /\ Summed(v, Outcome) \in Int /\ SumFunction(v) = Summed(v, Outcome)
  BY <1>3, <1>6, OutcomesCounted, SummedInt, SumFunctionIs
<1>11. SumFunction(v) >= TransactionsVolume
  BY <1>4, <1>5, <1>7, <1>8, <1>9, <1>10
<1> QED
  BY <1>11 DEF v

LEMMA VolumesOfRows == RowsTyped => VolumesReconcile
<1> SUFFICES ASSUME RowsTyped PROVE VolumesReconcile
  OBVIOUS
<1> DEFINE all == DOMAIN share
           B == Buys(all)
<1>1. B \in SUBSET DOMAIN share /\ B = {i \in DOMAIN share : share[i].type = "BUY"}
  BY DEF Buys
<1>2. /\ IsFiniteSet(B) /\ \A i \in B : Nets[i] \in Int /\ Fees[i] \in Int /\ Amounts[i] = Nets[i] + Fees[i]
  <2>1. IsFiniteSet(B)
    BY <1>1, RowsFinite, FS_Subset
  <2>2. \A i \in DOMAIN share : Nets[i] \in Int /\ Fees[i] \in Nat /\ Amounts[i] \in Nat
    BY ColumnsTyped
  <2>3. \A i \in DOMAIN share : Nets[i] = Amounts[i] - Fees[i]
    BY DEF Nets, Amounts, Fees
  <2> QED
    BY <1>1, <2>1, <2>2, <2>3
<1> HIDE DEF B
<1>3. Summed(Amounts, B) = Summed(Nets, B) + Summed(Fees, B)
  BY <1>2, SummedPlus
<1>4. /\ SumOf(B, FeeOf) = Summed(Fees, B) /\ Summed(Fees, B) \in Nat
      /\ Summed(Nets, B) \in Int
  BY <1>1, SumsAre
<1>5. NetBought(all) = Summed(Nets, B) /\ PaidOut(all) \in Nat
  BY VolumeOf DEF B
<1>6. ListVolume = (Summed(Nets, B) - PaidOut(all)) + FundingVolume /\ FundingVolume \in Nat
  BY <1>5, FundingsOfOwners DEF ListVolume, TransactionsVolume
<1>7. SumFunction([u \in Owner |-> TopVolume(u)]) = Summed(Amounts, B) + FundingVolume
  BY <1>1, RankingIs
<1>8. SumFunction([u \in Owner |-> TopVolume(u)]) = ListVolume + SumOf(B, FeeOf) + PaidOut(all)
  BY <1>3, <1>4, <1>5, <1>6, <1>7
<1>9. SumOf(B, FeeOf) = SumOf({i \in DOMAIN share : share[i].type = "BUY"}, FeeOf)
  BY <1>1, Zenon
<1>10. \A u \in Owner : OpenFunding(u) = FundingPosition(u).funded
  BY FundingIsAdded DEF FundingPosition
<1> QED
  BY <1>8, <1>9, <1>10, OutcomesCover, FundingsOfOwners DEF VolumesReconcile

\* The sales of a user's position in an outcome
Gave(u, o) == Ids(u, o, {"SELL"})

LEMMA PositionIs ==
  ASSUME RowsTyped, NEW u \in User, NEW o \in Outcome
  PROVE  /\ Position(u, o).shares = Summed(Tokens, Purchases(u, o)) - Summed(Tokens, Gave(u, o))
         /\ Position(u, o).collateral = Summed(Amounts, Purchases(u, o)) - Summed(Amounts, Gave(u, o))
         /\ Position(u, o).cost = RemainingCost(ByTime(Purchases(u, o)), Position(u, o).shares)
<1>1. Purchases(u, o) \in SUBSET DOMAIN share /\ Gave(u, o) \in SUBSET DOMAIN share
  BY DEF Purchases, Gave, Ids
<1>2. /\ SumOf(Purchases(u, o), TokensOf) = Summed(Tokens, Purchases(u, o))
      /\ SumOf(Purchases(u, o), AmountOf) = Summed(Amounts, Purchases(u, o))
      /\ SumOf(Gave(u, o), TokensOf) = Summed(Tokens, Gave(u, o))
      /\ SumOf(Gave(u, o), AmountOf) = Summed(Amounts, Gave(u, o))
  BY <1>1, SumsAre
<1>3. Position(u, o) =
        [shares |-> SumOf(Purchases(u, o), TokensOf) - SumOf(Gave(u, o), TokensOf),
         collateral |-> SumOf(Purchases(u, o), AmountOf) - SumOf(Gave(u, o), AmountOf),
         cost |-> RemainingCost(ByTime(Purchases(u, o)),
                                SumOf(Purchases(u, o), TokensOf) - SumOf(Gave(u, o), TokensOf))]
  BY Zenon DEF Position, Purchases, Gave
<1>4. PICK cost :
        /\ cost = RemainingCost(ByTime(Purchases(u, o)),
                                 Summed(Tokens, Purchases(u, o)) - Summed(Tokens, Gave(u, o)))
        /\ Position(u, o) =
             [shares |-> Summed(Tokens, Purchases(u, o)) - Summed(Tokens, Gave(u, o)),
              collateral |-> Summed(Amounts, Purchases(u, o)) - Summed(Amounts, Gave(u, o)),
              cost |-> cost]
  BY <1>2, <1>3, Zenon
<1> QED
  BY <1>4

LEMMA ClaimsFinite ==
  ASSUME RowsTyped, NEW u \in User, NEW o \in Outcome
  PROVE  Cardinality(ClaimsOf(u, o)) \in Nat
<1>1. DOMAIN claim = 1 .. Len(claim) /\ Len(claim) \in Nat
  BY DEF RowsTyped
<1>2. IsFiniteSet(DOMAIN claim)
  BY <1>1, FS_Interval
<1>3. ClaimsOf(u, o) \in SUBSET DOMAIN claim
  BY DEF ClaimsOf
<1> QED
  BY <1>2, <1>3, FS_Subset, FS_CardinalityType

\* A user who has claimed once at most is joined to one row.
LEMMA PredictionIs ==
  ASSUME RowsTyped, NEW u \in User, NEW o \in Outcome, Cardinality(ClaimsOf(u, o)) <= 1
  PROVE  /\ Prediction(u, o).tokens = Summed(Tokens, Purchases(u, o)) - Summed(Tokens, Gave(u, o))
         /\ Prediction(u, o).bought = Summed(Nets, Purchases(u, o))
         /\ Prediction(u, o).sold = Summed(Amounts, Gave(u, o))
<1> DEFINE tokens == SumOf(Purchases(u, o), TokensOf) - SumOf(Gave(u, o), TokensOf)
<1>1. Purchases(u, o) \in SUBSET DOMAIN share /\ Gave(u, o) \in SUBSET DOMAIN share
  BY DEF Purchases, Gave, Ids
<1>2. /\ SumOf(Purchases(u, o), TokensOf) = Summed(Tokens, Purchases(u, o)) /\ Summed(Tokens, Purchases(u, o)) \in Nat
      /\ SumOf(Purchases(u, o), NetOf) = Summed(Nets, Purchases(u, o)) /\ Summed(Nets, Purchases(u, o)) \in Int
      /\ SumOf(Gave(u, o), TokensOf) = Summed(Tokens, Gave(u, o)) /\ Summed(Tokens, Gave(u, o)) \in Nat
      /\ SumOf(Gave(u, o), AmountOf) = Summed(Amounts, Gave(u, o)) /\ Summed(Amounts, Gave(u, o)) \in Nat
  BY <1>1, SumsAre
<1>3. Joined(u, o) = 1
  <2>1. \A n \in Nat : n <= 1 => Max({n, 1}) = 1
    BY MaxOfTwo
  <2>2. Max({Cardinality(ClaimsOf(u, o)), 1}) = 1
    BY <2>1, ClaimsFinite
  <2> QED
    BY <2>2, Zenon DEF Joined
<1>4. Prediction(u, o) =
        [bought |-> Joined(u, o) * SumOf(Purchases(u, o), NetOf),
         sold |-> Joined(u, o) * SumOf(Gave(u, o), AmountOf),
         tokens |-> Joined(u, o) * tokens,
         claimed |-> {claim[i].amount : i \in ClaimsOf(u, o)}]
  BY Zenon DEF Prediction, Purchases, Gave
<1>5. PICK claimed : Prediction(u, o) =
        [bought |-> 1 * Summed(Nets, Purchases(u, o)),
         sold |-> 1 * Summed(Amounts, Gave(u, o)),
         tokens |-> 1 * (Summed(Tokens, Purchases(u, o)) - Summed(Tokens, Gave(u, o))),
         claimed |-> claimed]
  BY <1>2, <1>3, <1>4, Zenon
<1> QED
  BY <1>2, <1>5

LEMMA PositionsOfRows == RowsTyped => PositionsAgree
<1> SUFFICES ASSUME RowsTyped, NEW u \in User
             PROVE  /\ OpenPositions(u) \subseteq Predictions(u)
                    /\ \A o \in Predictions(u) :
                         Cardinality(ClaimsOf(u, o)) <= 1 =>
                           /\ Prediction(u, o).tokens = Position(u, o).shares
                           /\ Prediction(u, o).tokens = Holding(u, o) + SumOf(Ids(u, o, {"FUND"}), TokensOf)
                           /\ Prediction(u, o).bought - Prediction(u, o).sold
                                + SumOf(Ids(u, o, {"BUY", "FUND"}), FeeOf) = Position(u, o).collateral
  BY Zenon DEF PositionsAgree
<1>1. ASSUME NEW o \in OpenPositions(u) PROVE o \in Predictions(u)
  <2>1. o \in Outcome /\ Position(u, o).shares > 0
    BY <1>1 DEF OpenPositions
  <2>2. Purchases(u, o) \in SUBSET DOMAIN share /\ Gave(u, o) \in SUBSET DOMAIN share
    BY DEF Purchases, Gave, Ids
  <2>3. Summed(Tokens, Purchases(u, o)) \in Nat /\ Summed(Tokens, Gave(u, o)) \in Nat
    BY <2>2, SumsAre
  <2>4. Summed(Tokens, Purchases(u, o)) # 0
    BY <2>1, <2>3, PositionIs
  <2>5. Purchases(u, o) # {}
    BY <2>4, SummedEmpty
  <2>6. PICK i \in Purchases(u, o) : TRUE
    BY <2>5
  <2>7. i \in OfOutcome(o) /\ share[i].user = u
    BY <2>6 DEF Purchases, Ids, OfOutcome
  <2> QED
    BY <2>1, <2>7 DEF Predictions
<1>2. ASSUME NEW o \in Predictions(u), Cardinality(ClaimsOf(u, o)) <= 1
      PROVE  /\ Prediction(u, o).tokens = Position(u, o).shares
             /\ Prediction(u, o).tokens = Holding(u, o) + SumOf(Ids(u, o, {"FUND"}), TokensOf)
             /\ Prediction(u, o).bought - Prediction(u, o).sold
                  + SumOf(Ids(u, o, {"BUY", "FUND"}), FeeOf) = Position(u, o).collateral
  <2> DEFINE buys == Ids(u, o, {"BUY"})
             funds == Ids(u, o, {"FUND"})
             got == Purchases(u, o)
             gave == Gave(u, o)
  <2>1. o \in Outcome
    BY DEF Predictions
  <2>2. /\ buys \in SUBSET DOMAIN share /\ funds \in SUBSET DOMAIN share
        /\ got \in SUBSET DOMAIN share /\ gave \in SUBSET DOMAIN share
        /\ buys \cap funds = {} /\ buys \cup funds = got
    BY DEF Purchases, Gave, Ids
  <2>3. Holding(u, o) = SumOf(buys, TokensOf) - SumOf(gave, TokensOf)
    BY Zenon DEF Holding, Gave
  <2>4. SumOf(Ids(u, o, {"BUY", "FUND"}), FeeOf) = SumOf(got, FeeOf)
    BY Zenon DEF Purchases
  <2> HIDE DEF buys, funds, got, gave
  <2>5. /\ SumOf(buys, TokensOf) = Summed(Tokens, buys) /\ Summed(Tokens, buys) \in Nat /\ IsFiniteSet(buys)
        /\ SumOf(funds, TokensOf) = Summed(Tokens, funds) /\ Summed(Tokens, funds) \in Nat /\ IsFiniteSet(funds)
        /\ SumOf(gave, TokensOf) = Summed(Tokens, gave) /\ Summed(Tokens, gave) \in Nat
        /\ SumOf(got, FeeOf) = Summed(Fees, got) /\ Summed(Fees, got) \in Nat /\ IsFiniteSet(got)
        /\ Summed(Nets, got) \in Int /\ Summed(Amounts, gave) \in Nat /\ Summed(Amounts, got) \in Nat
    BY <2>2, SumsAre
  <2>6. Summed(Tokens, got) = Summed(Tokens, buys) + Summed(Tokens, funds)
    <3>1. \A i \in buys \cup funds : Tokens[i] \in Int
      BY <2>2, ColumnsTyped
    <3>2. Summed(Tokens, buys \cup funds) = Summed(Tokens, buys) + Summed(Tokens, funds)
      BY <2>2, <2>5, <3>1, SummedUnion
    <3> QED
      BY <2>2, <3>2, Zenon
  <2>7. Summed(Amounts, got) = Summed(Nets, got) + Summed(Fees, got)
    <3>1. \A i \in DOMAIN share : Nets[i] \in Int /\ Fees[i] \in Nat /\ Amounts[i] \in Nat
      BY ColumnsTyped
    <3>2. \A i \in DOMAIN share : Nets[i] = Amounts[i] - Fees[i]
      BY DEF Nets, Amounts, Fees
    <3>3. \A i \in got : Nets[i] \in Int /\ Fees[i] \in Int /\ Amounts[i] = Nets[i] + Fees[i]
      BY <2>2, <3>1, <3>2
    <3> QED
      BY <2>5, <3>3, SummedPlus
  <2>8. /\ Position(u, o).shares = Summed(Tokens, got) - Summed(Tokens, gave)
        /\ Position(u, o).collateral = Summed(Amounts, got) - Summed(Amounts, gave)
        /\ Prediction(u, o).tokens = Summed(Tokens, got) - Summed(Tokens, gave)
        /\ Prediction(u, o).bought = Summed(Nets, got)
        /\ Prediction(u, o).sold = Summed(Amounts, gave)
    BY <1>2, <2>1, PositionIs, PredictionIs DEF got, gave
  <2>9. Prediction(u, o).tokens = Holding(u, o) + SumOf(funds, TokensOf)
    BY <2>3, <2>5, <2>6, <2>8
  <2>10. Prediction(u, o).bought - Prediction(u, o).sold + SumOf(got, FeeOf) = Position(u, o).collateral
    BY <2>5, <2>7, <2>8
  <2> QED
    BY <2>4, <2>8, <2>9, <2>10, Zenon DEF funds
<1> QED
  BY <1>1, <1>2

\* The rows stay typed, and only added funding has a collateral, whatever buys, sales,
\* fundings and claims the parsers insert (prediction-set-parser.ts,
\* prediction-set-finalized-parser.worker.ts, claims-parser.worker.ts).
THEOREM TransactionsTyped == Spec => []RowsTyped
<1>1. Init => RowsTyped
  BY DEF Init, PortfolioInit, RowsTyped
<1>2. RowsTyped /\ [Next]_vars => RowsTyped'
  <2> SUFFICES ASSUME RowsTyped, [Next]_vars PROVE RowsTyped'
    OBVIOUS
  <2>1. CASE PortfolioNext
    BY <2>1, RowsStep
  <2>2. CASE UNCHANGED portfolioVars
    BY <2>2 DEF portfolioVars, RowsTyped
  <2> QED
    BY <2>1, <2>2 DEF Next, vars
<1> QED
  BY <1>1, <1>2, PTL DEF Spec

\* The users' ranking, the outcomes' volumes and the volume of the set are sums of the
\* same rows, and each funding is counted for its user or for nobody, for every number of
\* users, outcomes and rows (prediction-set.model.ts:593-671, 1155-1175,
\* stats.service.ts:88-185).
THEOREM VolumesAddUp == Spec => []VolumesReconcile
BY VolumesOfRows, TransactionsTyped, PTL

\* The positions of a set, the list of predictions and the holders of an outcome tell a
\* user of the same shares unless the user claimed an outcome twice
\* (prediction-set.model.ts:456, 917, 980).
THEOREM PositionsTold == Spec => []PositionsAgree
BY PositionsOfRows, TransactionsTyped, PTL

-----------------------------------------------------------------------------
(* The first-in first-out account *)

Held(s, u, o, types) ==
  {i \in DOMAIN s : s[i].user = u /\ s[i].outcome = o /\ s[i].type \in types}

Bought(s, u, o) == Held(s, u, o, {"BUY", "FUND"})
Sold(s, u, o) == Held(s, u, o, {"SELL"})
TokensIn(s) == [i \in DOMAIN s |-> s[i].tokens]

\* No purchase has more tokens left than it brought, and the ids follow the times.
Kept(s, l) ==
  /\ l \in Seq(Nat) /\ Len(l) = Len(s)
  /\ \A i \in DOMAIN s : l[i] <= s[i].tokens
  /\ \A i, j \in DOMAIN s : i <= j => s[i].time <= s[j].time

\* What is left is what was bought without what was sold, and a purchase is whole when
\* an older one has tokens left.
Balanced(s, l, u, o) ==
  /\ Summed(l, Bought(s, u, o)) = Summed(TokensIn(s), Bought(s, u, o)) - Summed(TokensIn(s), Sold(s, u, o))
  /\ \A i, j \in Bought(s, u, o) : i < j /\ l[i] > 0 => l[j] = s[j].tokens

AccountSound ==
  /\ Kept(share, left)
  /\ \A u \in Owner, o \in Outcome : <<u, o>> \notin oversold => Balanced(share, left, u, o)

AccountInv == RowsTyped /\ AccountSound

LEMMA HeldIs ==
  ASSUME NEW s \in Seq(Share), NEW u, NEW o, NEW types
  PROVE  /\ IsFiniteSet(Held(s, u, o, types)) /\ Held(s, u, o, types) \in SUBSET (1 .. Len(s))
         /\ Len(s) \in Nat /\ DOMAIN s = 1 .. Len(s)
         /\ \A i \in DOMAIN s : i \in Int /\ s[i] \in Share /\ s[i].tokens \in Nat /\ TokensIn(s)[i] = s[i].tokens
<1>1. Len(s) \in Nat /\ DOMAIN s = 1 .. Len(s) /\ \A i \in DOMAIN s : i \in Int /\ s[i] \in Share
  OBVIOUS
<1>2. IsFiniteSet(1 .. Len(s))
  <2>1. 1 \in Int /\ Len(s) \in Int
    BY <1>1
  <2> QED
    BY <2>1, FS_Interval
<1>3. Held(s, u, o, types) \in SUBSET (1 .. Len(s))
  BY <1>1 DEF Held
<1>4. \A i \in DOMAIN s : s[i].tokens \in Nat /\ TokensIn(s)[i] = s[i].tokens
  BY <1>1 DEF Share, TokensIn
<1> QED
  BY <1>1, <1>2, <1>3, <1>4, FS_Subset

\* The sums over the rows there were do not change.
LEMMA SumsStay ==
  ASSUME NEW s \in Seq(Share), NEW t \in Seq(Share), Len(s) <= Len(t),
         \A i \in DOMAIN s : t[i] = s[i], NEW ids \in SUBSET DOMAIN s
  PROVE  Summed(TokensIn(t), ids) = Summed(TokensIn(s), ids)
<1>1. DOMAIN s = 1 .. Len(s) /\ DOMAIN t = 1 .. Len(t) /\ Len(s) \in Nat /\ Len(t) \in Nat
  OBVIOUS
<1>2. \A i \in ids : TokensIn(t)[i] = TokensIn(s)[i]
  BY <1>1 DEF TokensIn
<1>3. IsFiniteSet(ids)
  <2>1. 1 \in Int /\ Len(s) \in Int
    BY <1>1
  <2> QED
    BY <1>1, <2>1, FS_Interval, FS_Subset
<1> QED
  BY <1>2, <1>3, SummedCongruent

LEMMA Concatenated ==
  ASSUME NEW A, NEW s \in Seq(A), NEW r \in Seq(A)
  PROVE  /\ s \o r \in Seq(A) /\ Len(s \o r) = Len(s) + Len(r)
         /\ \A i \in DOMAIN s : (s \o r)[i] = s[i]
         /\ \A i \in DOMAIN (s \o r) : i \notin DOMAIN s =>
              i - Len(s) \in DOMAIN r /\ (s \o r)[i] = r[i - Len(s)]
OBVIOUS

\* Purchases that are added at the end, with all their tokens
LEMMA PurchasesAdded ==
  ASSUME NEW s \in Seq(Share), NEW l, Kept(s, l), NEW time \in Nat,
         \A i \in DOMAIN s : s[i].time <= time,
         NEW t \in Seq(Share), Len(s) <= Len(t), NEW m \in Seq(Nat), Len(m) = Len(t),
         \A i \in DOMAIN s : t[i] = s[i] /\ m[i] = l[i],
         \A i \in DOMAIN t \ DOMAIN s : t[i].type # "SELL" /\ t[i].time = time /\ m[i] = t[i].tokens
  PROVE  /\ Kept(t, m)
         /\ \A u \in Owner, o \in Outcome : Balanced(s, l, u, o) => Balanced(t, m, u, o)
<1>1. /\ Len(s) \in Nat /\ Len(t) \in Nat
      /\ DOMAIN s = 1 .. Len(s) /\ DOMAIN t = 1 .. Len(t) /\ DOMAIN m = 1 .. Len(t)
  OBVIOUS
<1>2. /\ \A i \in DOMAIN s : i \in DOMAIN t /\ t[i] = s[i]
      /\ \A i \in DOMAIN t, j \in DOMAIN s : i \notin DOMAIN s => j < i
  BY <1>1
<1>3. /\ \A i \in DOMAIN s : m[i] = l[i]
      /\ \A i \in DOMAIN t : i \notin DOMAIN s =>
           t[i].type # "SELL" /\ t[i].time = time /\ m[i] = t[i].tokens
  OBVIOUS
<1>4. \A i \in DOMAIN t : t[i].tokens \in Nat /\ t[i].time \in Nat /\ m[i] \in Nat
  <2>1. \A i \in DOMAIN t : t[i] \in Share /\ m[i] \in Nat
    BY <1>1
  <2> QED
    BY <2>1 DEF Share
<1>5. Kept(t, m)
  <2>1. ASSUME NEW i \in DOMAIN t
        PROVE  m[i] <= t[i].tokens
    <3>1. CASE i \in DOMAIN s
      <4>1. l[i] <= s[i].tokens
        BY <3>1 DEF Kept
      <4>2. m[i] = l[i] /\ t[i] = s[i]
        BY <1>2, <1>3, <3>1
      <4> QED
        BY <4>1, <4>2
    <3>2. CASE i \notin DOMAIN s
      <4>1. m[i] = t[i].tokens /\ m[i] \in Nat
        BY <1>3, <1>4, <2>1, <3>2
      <4> QED
        BY <4>1
    <3> QED
      BY <3>1, <3>2
  <2>2. ASSUME NEW i \in DOMAIN t, NEW j \in DOMAIN t, i <= j
        PROVE  t[i].time <= t[j].time
    <3>1. i \in DOMAIN s \/ j \notin DOMAIN s
      BY <1>1, <2>2
    <3>2. j \notin DOMAIN s => t[j].time = time
      BY <1>3
    <3>3. i \notin DOMAIN s => t[i].time = time
      BY <1>3
    <3>4. i \in DOMAIN s => t[i].time <= time
      BY <1>2
    <3>5. i \in DOMAIN s /\ j \in DOMAIN s => t[i].time <= t[j].time
      BY <1>2, <2>2 DEF Kept
    <3> QED
      BY <1>4, <3>1, <3>2, <3>3, <3>4, <3>5
  <2> QED
    BY <2>1, <2>2 DEF Kept
<1>6. ASSUME NEW u \in Owner, NEW o \in Outcome, Balanced(s, l, u, o)
      PROVE  Balanced(t, m, u, o)
  <2> DEFINE P == Bought(s, u, o)
             Q == Bought(t, u, o)
             N == Q \ P
             V == Sold(s, u, o)
  <2>1. Sold(t, u, o) = V
    <3>1. \A i \in DOMAIN t : t[i].type = "SELL" => i \in DOMAIN s
      BY <1>3
    <3> QED
      BY <1>2, <3>1 DEF Sold, Held
  <2>2. P \subseteq Q /\ \A i \in Q : i \in DOMAIN s => i \in P
    BY <1>2 DEF Bought, Held
  <2>3. /\ P \in SUBSET DOMAIN s /\ V \in SUBSET DOMAIN s /\ Q \in SUBSET DOMAIN t
        /\ IsFiniteSet(P) /\ IsFiniteSet(Q) /\ IsFiniteSet(V)
    BY <1>1, HeldIs DEF Bought, Sold
  <2>4. Balanced(s, l, u, o) <=>
          /\ Summed(l, P) = Summed(TokensIn(s), P) - Summed(TokensIn(s), V)
          /\ \A i, j \in P : i < j /\ l[i] > 0 => l[j] = s[j].tokens
    BY DEF Balanced
  <2>5. Balanced(t, m, u, o) <=>
          /\ Summed(m, Q) = Summed(TokensIn(t), Q) - Summed(TokensIn(t), V)
          /\ \A i, j \in Q : i < j /\ m[i] > 0 => m[j] = t[j].tokens
    BY <2>1 DEF Balanced
  <2>6. IsFiniteSet(N) /\ P \cap N = {} /\ P \cup N = Q /\ \A i \in N : i \in DOMAIN t /\ i \notin DOMAIN s
    <3>1. N \in SUBSET Q
      OBVIOUS
    <3>2. IsFiniteSet(N)
      BY <2>3, <3>1, FS_Subset
    <3> QED
      BY <2>2, <2>3, <3>2
  <2> HIDE DEF P, Q, N, V
  <2>7. \A i \in DOMAIN t : TokensIn(t)[i] = t[i].tokens /\ TokensIn(t)[i] \in Nat
    BY <1>1, HeldIs
  <2>8. /\ Summed(TokensIn(t), P) = Summed(TokensIn(s), P)
        /\ Summed(TokensIn(t), V) = Summed(TokensIn(s), V)
    BY <1>1, <1>2, <2>3, SumsStay
  <2>9. Summed(m, P) = Summed(l, P)
    BY <1>3, <2>3, SummedCongruent
  <2>10. Summed(m, N) = Summed(TokensIn(t), N)
    BY <1>3, <2>6, <2>7, SummedCongruent
  <2>11. Summed(m, Q) = Summed(m, P) + Summed(m, N)
    <3>1. \A i \in P \cup N : m[i] \in Int
      BY <1>4, <2>3, <2>6
    <3>2. Summed(m, P \cup N) = Summed(m, P) + Summed(m, N)
      BY <2>3, <2>6, <3>1, SummedUnion
    <3> QED
      BY <2>6, <3>2
  <2>12. Summed(TokensIn(t), Q) = Summed(TokensIn(t), P) + Summed(TokensIn(t), N)
    <3>1. \A i \in P \cup N : TokensIn(t)[i] \in Int
      BY <2>3, <2>6, <2>7
    <3>2. Summed(TokensIn(t), P \cup N) = Summed(TokensIn(t), P) + Summed(TokensIn(t), N)
      BY <2>3, <2>6, <3>1, SummedUnion
    <3> QED
      BY <2>6, <3>2
  <2>13. /\ Summed(TokensIn(s), P) \in Int /\ Summed(TokensIn(s), V) \in Int
         /\ Summed(TokensIn(t), N) \in Int
    <3>1. \A i \in DOMAIN s : TokensIn(s)[i] \in Nat
      BY HeldIs
    <3>2. /\ \A i \in P : TokensIn(s)[i] \in Int
          /\ \A i \in V : TokensIn(s)[i] \in Int
          /\ \A i \in N : TokensIn(t)[i] \in Int
      BY <2>3, <2>6, <2>7, <3>1
    <3> QED
      BY <2>3, <2>6, <3>2, SummedInt
  <2>14. ASSUME NEW i \in Q, NEW j \in Q, i < j, m[i] > 0
         PROVE  m[j] = t[j].tokens
    <3>1. CASE j \in DOMAIN s
      <4>1. i \in DOMAIN s /\ i \in P /\ j \in P
        <5>1. i \in DOMAIN s
          BY <1>1, <2>3, <2>14, <3>1
        <5> QED
          BY <2>6, <3>1, <5>1
      <4>2. m[i] = l[i] /\ m[j] = l[j] /\ t[j] = s[j]
        BY <1>2, <1>3, <3>1, <4>1
      <4> QED
        BY <1>6, <2>4, <2>14, <4>1, <4>2
    <3>2. CASE j \notin DOMAIN s
      BY <1>3, <2>3, <3>2
    <3> QED
      BY <3>1, <3>2
  <2> QED
    BY <1>6, <2>4, <2>5, <2>8, <2>9, <2>10, <2>11, <2>12, <2>13, <2>14
<1> QED
  BY <1>5, <1>6

\* A sale by someone who has the tokens
LEMMA SaleAdded ==
  ASSUME NEW s \in Seq(Share), NEW l, Kept(s, l), NEW row \in Share, row.type = "SELL",
         \A i \in DOMAIN s : s[i].time <= row.time,
         NEW t \in Seq(Share), Len(t) = Len(s) + 1, NEW m \in Seq(Nat), Len(m) = Len(t),
         \A i \in DOMAIN s : t[i] = s[i], t[Len(s) + 1] = row, m[Len(s) + 1] = 0,
         TakenFrom(Bought(s, row.user, row.outcome), row.tokens, l, m),
         \A i \in DOMAIN s : i \notin Bought(s, row.user, row.outcome) => m[i] = l[i]
  PROVE  /\ Kept(t, m)
         /\ \A u \in Owner, o \in Outcome :
              /\ Balanced(s, l, u, o)
              /\ row.user = u /\ row.outcome = o => row.tokens <= Summed(l, Bought(s, u, o))
              => Balanced(t, m, u, o)
<1> DEFINE n == Len(s)
           B == Bought(s, row.user, row.outcome)
<1>1. /\ n \in Nat /\ Len(t) = n + 1 /\ Len(m) = n + 1
      /\ l \in Seq(Nat) /\ Len(l) = n
      /\ DOMAIN s = 1 .. n /\ DOMAIN t = 1 .. n + 1
      /\ t[n + 1] = row /\ m[n + 1] = 0
      /\ \A i \in 1 .. n : t[i] = s[i] /\ m[i] \in Nat
  <2>1. n \in Nat /\ Len(t) = n + 1 /\ Len(m) = n + 1 /\ l \in Seq(Nat) /\ Len(l) = n
    BY DEF Kept
  <2>2. DOMAIN s = 1 .. n /\ DOMAIN t = 1 .. n + 1
    BY <2>1
  <2>3. \A i \in 1 .. n : t[i] = s[i]
    BY <2>2
  <2>4. \A i \in 1 .. n : m[i] \in Nat
    BY <2>1
  <2> QED
    BY <2>1, <2>2, <2>3, <2>4
<1>2. row.tokens \in Nat /\ row.time \in Nat /\ \A i \in 1 .. n : s[i].time \in Nat /\ s[i].tokens \in Nat /\ l[i] \in Nat
  <2>1. \A i \in 1 .. n : s[i] \in Share /\ l[i] \in Nat
    BY <1>1
  <2> QED
    BY <2>1 DEF Share
<1>3. IsFiniteSet(B) /\ B \in SUBSET (1 .. n)
  BY HeldIs DEF Bought
<1>4. /\ \A i \in B : m[i] <= l[i]
      /\ \A i, j \in B : i < j /\ m[i] > 0 => m[j] = l[j]
      /\ row.tokens <= Summed(l, B) => Summed(m, B) = Summed(l, B) - row.tokens
      /\ \A i \in 1 .. n : i \notin B => m[i] = l[i]
  BY <1>1 DEF TakenFrom
<1> HIDE DEF B, n
<1>6. Kept(t, m)
  <2>1. ASSUME NEW i \in 1 .. n + 1
        PROVE  m[i] <= t[i].tokens
    <3>1. CASE i = n + 1
      BY <1>1, <1>2, <3>1
    <3>2. CASE i # n + 1
      <4>1. i \in 1 .. n
        BY <1>1, <3>2
      <4>2. l[i] <= s[i].tokens /\ t[i] = s[i]
        BY <1>1, <4>1 DEF Kept
      <4>3. m[i] <= l[i] /\ m[i] \in Nat
        <5>1. m[i] \in Nat /\ l[i] \in Nat
          BY <1>1, <1>2, <4>1
        <5>2. i \notin B => m[i] = l[i]
          BY <1>4, <4>1
        <5> QED
          BY <1>4, <5>1, <5>2
      <4> QED
        BY <1>2, <4>1, <4>2, <4>3
    <3> QED
      BY <3>1, <3>2
  <2>2. ASSUME NEW i \in 1 .. n + 1, NEW j \in 1 .. n + 1, i <= j
        PROVE  t[i].time <= t[j].time
    <3>1. CASE j = n + 1
      <4>1. t[j].time = row.time
        BY <1>1, <3>1
      <4>2. t[i].time <= row.time
        <5>1. CASE i = n + 1
          BY <1>1, <1>2, <5>1
        <5>2. CASE i # n + 1
          <6>1. i \in 1 .. n
            BY <1>1, <5>2
          <6>2. t[i] = s[i] /\ s[i].time <= row.time
            BY <1>1, <6>1
          <6> QED
            BY <6>2
        <5> QED
          BY <5>1, <5>2
      <4> QED
        BY <4>1, <4>2
    <3>2. CASE j # n + 1
      <4>1. i \in 1 .. n /\ j \in 1 .. n
        BY <1>1, <2>2, <3>2
      <4> QED
        BY <1>1, <2>2, <4>1 DEF Kept
    <3> QED
      BY <3>1, <3>2
  <2> QED
    BY <1>1, <2>1, <2>2 DEF Kept
<1>7. ASSUME NEW u \in Owner, NEW o \in Outcome, Balanced(s, l, u, o),
             row.user = u /\ row.outcome = o => row.tokens <= Summed(l, Bought(s, u, o))
      PROVE  Balanced(t, m, u, o)
  <2> DEFINE P == Bought(s, u, o)
             V == Sold(s, u, o)
             W == Sold(t, u, o)
  <2>1. Bought(t, u, o) = P
    BY <1>1 DEF Bought, Held
  <2>2. /\ row.user = u /\ row.outcome = o => W = V \cup {n + 1}
        /\ ~ (row.user = u /\ row.outcome = o) => W = V
    BY <1>1 DEF Sold, Held
  <2>3. /\ P \in SUBSET (1 .. n) /\ V \in SUBSET (1 .. n) /\ IsFiniteSet(P) /\ IsFiniteSet(V)
    BY HeldIs DEF Bought, Sold, n
  <2>4. /\ row.user = u /\ row.outcome = o => P = B
        /\ ~ (row.user = u /\ row.outcome = o) => P \cap B = {}
    BY DEF B, Bought, Held
  <2>5. Balanced(s, l, u, o) <=>
          /\ Summed(l, P) = Summed(TokensIn(s), P) - Summed(TokensIn(s), V)
          /\ \A i, j \in P : i < j /\ l[i] > 0 => l[j] = s[j].tokens
    BY DEF Balanced
  <2>6. Balanced(t, m, u, o) <=>
          /\ Summed(m, P) = Summed(TokensIn(t), P) - Summed(TokensIn(t), W)
          /\ \A i, j \in P : i < j /\ m[i] > 0 => m[j] = t[j].tokens
    BY <2>1 DEF Balanced
  <2>7. row.user = u /\ row.outcome = o => row.tokens <= Summed(l, P)
    BY <1>7
  <2> HIDE DEF P, V, W
  <2>8. \A i \in 1 .. n + 1 : TokensIn(t)[i] = t[i].tokens /\ TokensIn(t)[i] \in Nat
    BY <1>1, HeldIs
  <2>9. /\ Summed(TokensIn(t), P) = Summed(TokensIn(s), P)
        /\ Summed(TokensIn(t), V) = Summed(TokensIn(s), V)
    <3>1. Len(s) <= Len(t) /\ \A i \in DOMAIN s : t[i] = s[i]
      BY <1>1 DEF n
    <3> QED
      BY <1>1, <2>3, <3>1, SumsStay
  <2>10. /\ \A i \in P : TokensIn(t)[i] \in Int
         /\ \A i \in V : TokensIn(t)[i] \in Int
         /\ \A i \in V \cup {n + 1} : TokensIn(t)[i] \in Int
         /\ n + 1 \notin V
         /\ \A i \in P : l[i] \in Int
    <3>1. \A i \in P : i \in 1 .. n + 1 /\ l[i] \in Int
      BY <1>1, <1>2, <2>3
    <3>2. \A i \in V \cup {n + 1} : i \in 1 .. n + 1
      BY <1>1, <2>3
    <3>3. n + 1 \notin V
      BY <1>1, <2>3
    <3> QED
      BY <2>8, <3>1, <3>2, <3>3
  <2>11. /\ Summed(TokensIn(t), P) \in Int /\ Summed(TokensIn(t), V) \in Int /\ Summed(l, P) \in Int
         /\ Summed(TokensIn(t), V \cup {n + 1}) = TokensIn(t)[n + 1] + Summed(TokensIn(t), V)
    BY <2>3, <2>10, SummedInt, SummedAdd
  <2>12. TokensIn(t)[n + 1] = row.tokens
    BY <1>1, <2>8
  <2>13. CASE row.user = u /\ row.outcome = o
    <3>1. P = B /\ W = V \cup {n + 1}
      BY <2>2, <2>4, <2>13
    <3>2. Summed(m, P) = Summed(TokensIn(t), P) - Summed(TokensIn(t), W)
      <4>1. Summed(m, P) = Summed(l, P) - row.tokens
        BY <1>4, <2>7, <2>13, <3>1
      <4>2. Summed(TokensIn(t), W) = row.tokens + Summed(TokensIn(t), V)
        BY <2>11, <2>12, <3>1
      <4>3. Summed(l, P) = Summed(TokensIn(t), P) - Summed(TokensIn(t), V)
        BY <1>7, <2>5, <2>9
      <4> QED
        BY <1>2, <2>11, <4>1, <4>2, <4>3
    <3>3. ASSUME NEW i \in P, NEW j \in P, i < j, m[i] > 0
          PROVE  m[j] = t[j].tokens
      <4>1. i \in 1 .. n /\ j \in 1 .. n /\ i \in B /\ j \in B
        BY <2>3, <3>1
      <4>2. t[j] = s[j] /\ l[i] \in Nat /\ m[i] \in Nat
        BY <1>1, <1>2, <4>1
      <4>3. m[i] <= l[i] /\ m[j] = l[j]
        BY <1>4, <3>3, <4>1
      <4>4. l[i] > 0
        BY <3>3, <4>2, <4>3
      <4> QED
        BY <1>7, <2>5, <3>3, <4>2, <4>3, <4>4
    <3> QED
      BY <2>6, <3>2, <3>3
  <2>14. CASE ~ (row.user = u /\ row.outcome = o)
    <3>1. P \cap B = {} /\ W = V
      BY <2>2, <2>4, <2>14
    <3>2. \A i \in P : i \in 1 .. n /\ m[i] = l[i] /\ t[i] = s[i]
      BY <1>1, <1>4, <2>3, <3>1
    <3>3. Summed(m, P) = Summed(l, P)
      BY <2>3, <3>2, SummedCongruent
    <3> QED
      BY <1>7, <2>5, <2>6, <2>9, <3>1, <3>2, <3>3
  <2> QED
    BY <2>13, <2>14
<1> QED
  BY <1>6, <1>7

LEMMA AccountIs ==
  ASSUME AccountInv
  PROVE  /\ \A u, o : Purchases(u, o) = Bought(share, u, o) /\ Ids(u, o, {"SELL"}) = Sold(share, u, o)
         /\ Tokens = TokensIn(share)
         /\ left \in Seq(Nat) /\ Len(left) = Len(share) /\ share \in Seq(Share)
         /\ DOMAIN share = 1 .. Len(share) /\ DOMAIN left = 1 .. Len(share) /\ Len(share) \in Nat
         /\ \A ids \in SUBSET DOMAIN share :
              IsFiniteSet(ids) /\ LeftOf(ids) = Summed(left, ids) /\ Summed(left, ids) \in Nat
         /\ Now \in Nat /\ \A i \in DOMAIN share : share[i].time <= Now
<1>1. left \in Seq(Nat) /\ Len(left) = Len(share) /\ share \in Seq(Share)
  BY DEF AccountInv, RowsTyped, AccountSound, Kept
<1>2. DOMAIN share = 1 .. Len(share) /\ DOMAIN left = 1 .. Len(share) /\ Len(share) \in Nat
  BY <1>1
<1>3. ASSUME NEW ids \in SUBSET DOMAIN share
      PROVE  IsFiniteSet(ids) /\ LeftOf(ids) = Summed(left, ids) /\ Summed(left, ids) \in Nat
  <2>1. IsFiniteSet(ids)
    BY RowsFinite, FS_Subset DEF AccountInv
  <2>2. PICK l : l = left
    OBVIOUS
  <2>3. \A i \in ids : l[i] \in Nat
    BY <1>1, <1>2, <2>2
  <2>4. SumFunction([i \in ids |-> l[i]]) = Summed(l, ids) /\ Summed(l, ids) \in Nat
    BY <2>1, <2>3, SumOfValues, SummedNat
  <2> QED
    BY <2>1, <2>2, <2>4 DEF LeftOf
<1>4. \A u, o : Purchases(u, o) = Bought(share, u, o) /\ Ids(u, o, {"SELL"}) = Sold(share, u, o)
  BY DEF Purchases, Ids, Bought, Sold, Held
<1>5. Now \in Nat
  BY NowTyped DEF AccountInv
<1>6. ASSUME NEW i \in DOMAIN share
      PROVE  share[i].time <= Now
  <2>1. Now = share[Len(share)].time
    BY <1>1, <1>2 DEF Now, Last
  <2>2. Len(share) \in DOMAIN share /\ i <= Len(share)
    BY <1>2
  <2> QED
    BY <2>1, <2>2 DEF AccountInv, AccountSound, Kept
<1> QED
  BY <1>1, <1>2, <1>3, <1>4, <1>5, <1>6 DEF Tokens, TokensIn

LEMMA LeftAfterIs ==
  ASSUME AccountInv, NEW u \in Owner, NEW o \in Outcome, NEW tokens \in Nat
  PROVE  /\ LeftAfter(u, o, tokens) \in Seq(Nat) /\ Len(LeftAfter(u, o, tokens)) = Len(left)
         /\ TakenFrom(Bought(share, u, o), tokens, left, LeftAfter(u, o, tokens))
         /\ \A i \in DOMAIN share : i \notin Bought(share, u, o) => LeftAfter(u, o, tokens)[i] = left[i]
<1> DEFINE B == Bought(share, u, o)
           g == LeftAfter(u, o, tokens)
           n == Len(share)
<1>1. /\ n \in Nat /\ B \in SUBSET (1 .. n) /\ Purchases(u, o) = B
      /\ DOMAIN share = 1 .. n /\ DOMAIN left = 1 .. n /\ left \in Seq(Nat) /\ Len(left) = n
  BY AccountIs, HeldIs DEF Bought
<1>2. g = [i \in 1 .. n |->
             IF i \in B /\ LeftOf(Lower(B, i)) < tokens
             THEN Max({left[i] - (tokens - LeftOf(Lower(B, i))), 0})
             ELSE left[i]]
  BY <1>1, Zenon DEF LeftAfter, Lower
<1>3. \A i : LeftOf(Lower(B, i)) = Summed(left, Lower(B, i))
  <2>1. \A i : Lower(B, i) \in SUBSET DOMAIN share
    BY <1>1 DEF Lower
  <2> QED
    BY <2>1, AccountIs
<1> HIDE DEF B, g, n
<1>4. /\ \A i \in B : g[i] = IF Summed(left, Lower(B, i)) < tokens
                             THEN Max({left[i] - (tokens - Summed(left, Lower(B, i))), 0})
                             ELSE left[i]
      /\ \A i \in 1 .. n : i \notin B => g[i] = left[i]
  BY <1>1, <1>2, <1>3
<1>5. \A i \in 1 .. n : left[i] \in Nat
  BY <1>1
<1>6. TakenFrom(B, tokens, left, g)
  <2>1. PICK l, h, P, k : l = left /\ h = g /\ P = B /\ k = n
    OBVIOUS
  <2>2. k \in Nat /\ P \in SUBSET (1 .. k) /\ \A i \in P : l[i] \in Nat
    BY <1>1, <1>5, <2>1
  <2>3. IsTaken(h, l, P, tokens)
    BY <1>4, <2>1 DEF IsTaken, AfterTaking
  <2>4. TakenFrom(P, tokens, l, h)
    BY <2>2, <2>3, FirstTaken
  <2> QED
    BY <2>1, <2>4
<1>7. g \in Seq(Nat) /\ Len(g) = n
  <2>1. \A i \in 1 .. n : g[i] \in Nat
    BY <1>4, <1>5, <1>6 DEF TakenFrom
  <2>2. DOMAIN g = 1 .. n /\ g = [i \in 1 .. n |-> g[i]]
    BY <1>2
  <2> QED
    BY <1>1, <2>1, <2>2
<1> QED
  BY <1>1, <1>4, <1>6, <1>7 DEF g, B

LEMMA PurchaseStep ==
  ASSUME AccountInv, RowsTyped', NEW time \in Now .. Now + market.tick, NEW rows \in Seq(Share),
         \A k \in DOMAIN rows : rows[k].type # "SELL" /\ rows[k].time = time,
         share' = share \o rows, left' = left \o [k \in DOMAIN rows |-> rows[k].tokens],
         UNCHANGED oversold
  PROVE  AccountInv'
<1> DEFINE more == [k \in DOMAIN rows |-> rows[k].tokens]
<1>1. /\ share \in Seq(Share) /\ left \in Seq(Nat) /\ Len(left) = Len(share) /\ Len(share) \in Nat
      /\ time \in Nat /\ \A i \in DOMAIN share : share[i].time <= time
  <2>1. market.tick \in Nat
    BY Exploring DEF AccountInv
  <2>2. Now \in Nat /\ \A i \in DOMAIN share : share[i].time <= Now
    BY AccountIs
  <2>3. \A i \in DOMAIN share : share[i].time \in Nat
    BY RowsFinite DEF AccountInv, Share
  <2>4. time \in Nat /\ Now <= time
    BY <2>1, <2>2
  <2> QED
    BY <2>2, <2>3, <2>4, AccountIs
<1>2. PICK s, l, t, m : s = share /\ l = left /\ t = s \o rows /\ m = l \o more
  OBVIOUS
<1>3. more \in Seq(Nat) /\ Len(more) = Len(rows) /\ \A k \in DOMAIN rows : more[k] = rows[k].tokens
  <2>1. \A k \in DOMAIN rows : rows[k] \in Share
    OBVIOUS
  <2>2. \A k \in DOMAIN rows : rows[k].tokens \in Nat
    BY <2>1 DEF Share
  <2> QED
    BY <2>2
<1>4. share' = t /\ left' = m
  BY <1>2
<1> HIDE DEF more
<1>5. /\ t \in Seq(Share) /\ Len(t) = Len(s) + Len(rows)
      /\ \A i \in DOMAIN s : t[i] = s[i]
      /\ \A i \in DOMAIN t : i \notin DOMAIN s => i - Len(s) \in DOMAIN rows /\ t[i] = rows[i - Len(s)]
  BY <1>1, <1>2, Concatenated
<1>6. /\ m \in Seq(Nat) /\ Len(m) = Len(l) + Len(more)
      /\ \A i \in DOMAIN l : m[i] = l[i]
      /\ \A i \in DOMAIN m : i \notin DOMAIN l => i - Len(l) \in DOMAIN more /\ m[i] = more[i - Len(l)]
  <2>1. l \in Seq(Nat) /\ more \in Seq(Nat)
    BY <1>1, <1>2, <1>3
  <2>2. m = l \o more
    BY <1>2
  <2> HIDE <1>2, <1>4
  <2> QED
    BY <2>1, <2>2, Concatenated
<1>7. /\ Len(l) = Len(s) /\ Len(m) = Len(t) /\ Len(s) <= Len(t)
      /\ DOMAIN l = DOMAIN s /\ DOMAIN m = DOMAIN t
  <2>1. Len(rows) \in Nat /\ Len(s) \in Nat
    BY <1>1, <1>2
  <2>2. l \in Seq(Nat) /\ s \in Seq(Share) /\ Len(l) = Len(s)
    BY <1>1, <1>2
  <2>3. Len(m) = Len(t) /\ Len(s) <= Len(t)
    BY <1>3, <1>5, <1>6, <2>1, <2>2
  <2>4. DOMAIN l = 1 .. Len(l) /\ DOMAIN s = 1 .. Len(s)
    BY <2>2
  <2>5. DOMAIN m = 1 .. Len(m) /\ DOMAIN t = 1 .. Len(t)
    BY <1>5, <1>6
  <2> QED
    BY <2>2, <2>3, <2>4, <2>5
<1>8. ASSUME NEW i \in DOMAIN t \ DOMAIN s
      PROVE  t[i].type # "SELL" /\ t[i].time = time /\ m[i] = t[i].tokens
  <2>1. i - Len(s) \in DOMAIN rows /\ t[i] = rows[i - Len(s)]
    BY <1>5
  <2>2. m[i] = more[i - Len(s)]
    BY <1>6, <1>7
  <2> QED
    BY <1>3, <2>1, <2>2
<1>9. Kept(s, l) /\ \A u \in Owner, o \in Outcome : <<u, o>> \notin oversold => Balanced(s, l, u, o)
  BY <1>2 DEF AccountInv, AccountSound
<1>10. Kept(t, m) /\ \A u \in Owner, o \in Outcome : Balanced(s, l, u, o) => Balanced(t, m, u, o)
  <2>1. s \in Seq(Share) /\ \A i \in DOMAIN s : s[i].time <= time
    BY <1>1, <1>2
  <2> HIDE <1>2, <1>4
  <2>2. \A i \in DOMAIN s : t[i] = s[i] /\ m[i] = l[i]
    BY <1>5, <1>6, <1>7
  <2> QED
    BY <1>1, <1>5, <1>6, <1>7, <1>8, <1>9, <2>1, <2>2, PurchasesAdded
<1>11. AccountSound'
  BY <1>4, <1>9, <1>10, Zenon DEF AccountSound
<1> QED
  BY <1>11 DEF AccountInv

LEMMA SaleStep ==
  ASSUME AccountInv, RowsTyped', NEW u \in market.users, NEW o \in market.outcomes,
         NEW tokens \in market.tokens, NEW time \in Now .. Now + market.tick, Sell(u, o, 1, tokens, time)
  PROVE  AccountInv'
<1> DEFINE row == [type |-> "SELL", user |-> u, outcome |-> o, amount |-> 1,
                   fee |-> market.fee, tokens |-> tokens, time |-> time]
           g == LeftAfter(u, o, tokens)
<1>1. u \in Owner /\ o \in Outcome /\ tokens \in Nat /\ row \in Share /\ time \in Nat /\ Now <= time /\ Now \in Nat
  BY Exploring, NowTyped DEF AccountInv, Share
<1>2. /\ share' = Append(share, row) /\ left' = Append(g, 0)
      /\ oversold' = oversold \cup (IF LeftOf(Purchases(u, o)) < tokens THEN {<<u, o>>} ELSE {})
  BY DEF Sell
<1>3. PICK r : r = row
  OBVIOUS
<1>4. r \in Share /\ r.type = "SELL" /\ r.user = u /\ r.outcome = o /\ r.tokens = tokens /\ r.time = time
  BY <1>1, <1>3
<1>5. /\ g \in Seq(Nat) /\ Len(g) = Len(left)
      /\ TakenFrom(Bought(share, u, o), tokens, left, g)
      /\ \A i \in DOMAIN share : i \notin Bought(share, u, o) => g[i] = left[i]
  BY <1>1, LeftAfterIs
<1> HIDE DEF row, g
<1>6. PICK s, l, t, m, h : s = share /\ l = left /\ h = g /\ t = Append(s, r) /\ m = Append(h, 0)
  OBVIOUS
<1>7. share' = t /\ left' = m
  BY <1>2, <1>3, <1>6
<1>8. /\ s \in Seq(Share) /\ Len(l) = Len(s) /\ Len(s) \in Nat
      /\ Kept(s, l) /\ \A i \in DOMAIN s : s[i].time <= time
  <2>1. \A i \in DOMAIN share : share[i].time \in Nat
    BY RowsFinite DEF AccountInv, Share
  <2>2. \A i \in DOMAIN share : share[i].time <= Now
    BY AccountIs
  <2>3. \A i \in DOMAIN s : s[i].time <= time
    BY <1>1, <1>6, <2>1, <2>2
  <2> QED
    BY <1>6, <2>3, AccountIs DEF AccountInv, AccountSound
<1>9. /\ h \in Seq(Nat) /\ Len(h) = Len(s) /\ TakenFrom(Bought(s, u, o), tokens, l, h)
      /\ \A i \in DOMAIN s : i \notin Bought(s, u, o) => h[i] = l[i]
  BY <1>5, <1>6, <1>8
<1>10. /\ t \in Seq(Share) /\ Len(t) = Len(s) + 1 /\ t[Len(s) + 1] = r
       /\ m \in Seq(Nat) /\ Len(m) = Len(t) /\ m[Len(s) + 1] = 0
       /\ \A i \in DOMAIN s : t[i] = s[i] /\ m[i] = h[i]
  BY <1>4, <1>6, <1>8, <1>9
<1>11. Bought(s, u, o) \subseteq DOMAIN s /\ IsFiniteSet(Bought(s, u, o))
  BY <1>8, HeldIs DEF Bought
<1>12. TakenFrom(Bought(s, u, o), tokens, l, m)
  <2>1. \A i \in Bought(s, u, o) : m[i] = h[i]
    BY <1>10, <1>11
  <2>2. Summed(m, Bought(s, u, o)) = Summed(h, Bought(s, u, o))
    BY <1>11, <2>1, SummedCongruent
  <2> QED
    BY <1>9, <2>1, <2>2 DEF TakenFrom
<1>13. LeftOf(Purchases(u, o)) = Summed(l, Bought(s, u, o)) /\ Summed(l, Bought(s, u, o)) \in Nat
  <2>1. Bought(share, u, o) \in SUBSET DOMAIN share /\ Purchases(u, o) = Bought(share, u, o)
    BY <1>6, <1>11, AccountIs
  <2> QED
    BY <1>6, <2>1, AccountIs
<1>14. /\ Kept(t, m)
       /\ \A v \in Owner, p \in Outcome :
            /\ Balanced(s, l, v, p)
            /\ u = v /\ o = p => tokens <= Summed(l, Bought(s, v, p))
            => Balanced(t, m, v, p)
  <2>1. \A i \in DOMAIN s : i \notin Bought(s, u, o) => m[i] = l[i]
    BY <1>9, <1>10
  <2>2. /\ TakenFrom(Bought(s, r.user, r.outcome), r.tokens, l, m)
        /\ \A i \in DOMAIN s : i \notin Bought(s, r.user, r.outcome) => m[i] = l[i]
        /\ \A i \in DOMAIN s : s[i].time <= r.time
    BY <1>4, <1>8, <1>12, <2>1
  <2>3. \A i \in DOMAIN s : t[i] = s[i]
    BY <1>10
  <2> HIDE <1>6, <1>7
  <2>4. /\ Kept(t, m)
        /\ \A v \in Owner, p \in Outcome :
             /\ Balanced(s, l, v, p)
             /\ r.user = v /\ r.outcome = p => r.tokens <= Summed(l, Bought(s, v, p))
             => Balanced(t, m, v, p)
    BY <1>4, <1>8, <1>10, <2>2, <2>3, SaleAdded
  <2> QED
    BY <1>4, <2>4
<1>15. ASSUME NEW v \in Owner, NEW p \in Outcome, <<v, p>> \notin oversold'
       PROVE  Balanced(t, m, v, p)
  <2>1. <<v, p>> \notin oversold
    BY <1>2, <1>15
  <2>2. Balanced(s, l, v, p)
    BY <1>6, <2>1 DEF AccountInv, AccountSound
  <2>3. u = v /\ o = p => tokens <= Summed(l, Bought(s, v, p))
    <3> SUFFICES ASSUME u = v, o = p PROVE tokens <= Summed(l, Bought(s, u, o))
      OBVIOUS
    <3>1. ~ (LeftOf(Purchases(u, o)) < tokens)
      BY <1>2, <1>15
    <3> QED
      BY <1>1, <1>13, <3>1
  <2> QED
    BY <1>14, <2>2, <2>3
<1>16. AccountSound'
  BY <1>7, <1>14, <1>15, Zenon DEF AccountSound
<1> QED
  BY <1>16 DEF AccountInv

LEMMA AccountInitially == Init => AccountInv
<1> SUFFICES ASSUME Init PROVE AccountInv
  OBVIOUS
<1>1. share = <<>> /\ left = <<>> /\ RowsTyped
  BY DEF Init, PortfolioInit, RowsTyped
<1>2. Kept(share, left)
  BY <1>1 DEF Kept
<1>3. \A u, o : Bought(share, u, o) = {} /\ Sold(share, u, o) = {}
  BY <1>1 DEF Bought, Sold, Held
<1>4. \A u, o : Balanced(share, left, u, o)
  BY <1>3, SummedEmpty DEF Balanced
<1> QED
  BY <1>1, <1>2, <1>4 DEF AccountInv, AccountSound

LEMMA OneAdded ==
  ASSUME NEW A, NEW r \in A, NEW s \in Seq(A)
  PROVE  <<r>> \in Seq(A) /\ DOMAIN <<r>> = {1} /\ <<r>>[1] = r /\ Append(s, r) = s \o <<r>>
OBVIOUS

LEMMA AccountStep == AccountInv /\ [Next]_vars => AccountInv'
<1> SUFFICES ASSUME AccountInv, [Next]_vars PROVE AccountInv'
  OBVIOUS
<1>1. ASSUME PortfolioNext PROVE RowsTyped'
  BY <1>1, RowsStep DEF AccountInv
<1>2. ASSUME PortfolioNext,
             NEW u \in market.users, NEW o \in market.outcomes, NEW tokens \in market.tokens,
             NEW time \in Now .. Now + market.tick, NEW amount \in market.amounts,
             Buy(u, o, amount, tokens, time)
      PROVE  AccountInv'
  <2> DEFINE row == [type |-> "BUY", user |-> u, outcome |-> o, amount |-> amount,
                     fee |-> market.fee, tokens |-> tokens, time |-> time]
  <2>1. /\ row \in Share /\ row.type # "SELL" /\ row.time = time /\ row.tokens = tokens
        /\ share \in Seq(Share) /\ left \in Seq(Nat) /\ tokens \in Nat
    BY Exploring, NowTyped, AccountIs DEF AccountInv, Share
  <2>2. share' = Append(share, row) /\ left' = Append(left, tokens) /\ UNCHANGED oversold
    BY <1>2 DEF Buy
  <2> HIDE DEF row
  <2>3. PICK rows : rows = <<row>>
    OBVIOUS
  <2>4. /\ rows \in Seq(Share) /\ DOMAIN rows = {1} /\ rows[1] = row
        /\ share' = share \o rows /\ left' = left \o <<tokens>>
    BY <2>1, <2>2, <2>3, OneAdded
  <2>5. /\ \A k \in DOMAIN rows : rows[k].type # "SELL" /\ rows[k].time = time
        /\ [k \in DOMAIN rows |-> rows[k].tokens] = <<tokens>>
    BY <2>1, <2>4
  <2>6. left' = left \o [k \in DOMAIN rows |-> rows[k].tokens]
    BY <2>4, <2>5
  <2> QED
    BY <1>1, <1>2, <2>2, <2>4, <2>5, <2>6, PurchaseStep
<1>3. ASSUME PortfolioNext,
             NEW u \in market.users, NEW o \in market.outcomes, NEW tokens \in market.tokens,
             NEW time \in Now .. Now + market.tick, Sell(u, o, 1, tokens, time)
      PROVE  AccountInv'
  BY <1>1, <1>3, SaleStep
<1>4. ASSUME PortfolioNext,
             NEW u \in market.users, NEW amounts \in [Outcome -> market.amounts],
             NEW time \in Now .. Now + market.tick, AddFunding(u, amounts, time)
      PROVE  AccountInv'
  <2>1. u \in Owner /\ amounts \in [Outcome -> Nat] /\ time \in Nat
    BY Exploring, NowTyped DEF AccountInv
  <2>2. PICK rows \in Seq(Share) :
          /\ share' = share \o rows /\ left' = left \o [i \in DOMAIN rows |-> rows[i].tokens]
          /\ \A k \in DOMAIN rows : rows[k].type = "FUND" /\ rows[k].time = time
    BY <1>4, <2>1, AddFundingTyped DEF AccountInv
  <2>3. \A k \in DOMAIN rows : rows[k].type # "SELL" /\ rows[k].time = time
    BY <2>2
  <2>4. UNCHANGED oversold
    BY <1>4 DEF AddFunding
  <2> QED
    BY <1>1, <1>4, <2>2, <2>3, <2>4, PurchaseStep
<1>5. ASSUME RowsTyped', UNCHANGED <<share, left, oversold>>
      PROVE  AccountInv'
  BY <1>5 DEF AccountInv, AccountSound
<1>6. CASE PortfolioNext
  <2>1. ASSUME NEW u \in market.users, RemoveFunding(u, 1) PROVE AccountInv'
    BY <1>1, <1>5, <1>6, <2>1 DEF RemoveFunding
  <2>2. ASSUME NEW u \in market.users \cap User, NEW o \in market.outcomes, ClaimWinnings(u, o, 2)
        PROVE  AccountInv'
    BY <1>1, <1>5, <1>6, <2>2 DEF ClaimWinnings
  <2> QED
    BY <1>2, <1>3, <1>4, <1>6, <2>1, <2>2 DEF PortfolioNext
<1>7. CASE UNCHANGED portfolioVars
  <2>1. RowsTyped'
    BY <1>7 DEF portfolioVars, RowsTyped, AccountInv
  <2> QED
    BY <1>5, <1>7, <2>1 DEF portfolioVars
<1> QED
  BY <1>6, <1>7 DEF Next, vars

\* What was bought and not sold is what is left of the purchases, the oldest of them
\* empty before a newer one is touched, whatever is bought, sold and funded in any order,
\* by any number of users, as long as nobody sells what came from elsewhere
\* (prediction-set-parser.ts, prediction-set.model.ts:456-556).
THEOREM AccountCorrect == Spec => []AccountInv
BY AccountInitially, AccountStep, PTL DEF Spec

\* The ids of a user's purchases are in the order of their times.
LEMMA OldestFirst ==
  ASSUME AccountInv, NEW P \in SUBSET DOMAIN share
  PROVE  \E N \in Nat :
           /\ ByTime(P) \in [1 .. N -> P]
           /\ \A i, j \in 1 .. N : i < j => ByTime(P)[i] < ByTime(P)[j]
           /\ \A x \in P : \E i \in 1 .. N : ByTime(P)[i] = x
<1> DEFINE Sooner(x) == {y \in P : share[y].time < share[x].time \/ (share[y].time = share[x].time /\ y < x)}
           R == {p \in P \X P : p[1] < p[2]}
           N == Cardinality(P)
           q == ByTime(P)
<1>1. ByTime(P) = [n \in 1 .. N |-> CHOOSE x \in P : Cardinality(Sooner(x)) = n - 1]
  BY Zenon DEF ByTime, Ordered
<1>2. IsFiniteSet(P) /\ N \in Nat
  BY RowsFinite, FS_Subset, FS_CardinalityType DEF AccountInv
<1>3. \A x \in P : x \in Int /\ share[x].time \in Nat
  BY RowsFinite, AccountIs DEF AccountInv, Share
<1>4. Orders(R, P)
  BY <1>3 DEF Orders
<1>5. \A x \in P : Sooner(x) = Ahead(R, P, x)
  <2>1. \A x, y \in P : y < x => share[y].time <= share[x].time
    BY <1>3 DEF AccountInv, AccountSound, Kept
  <2>2. \A x, y \in P : y < x <=> y \in Sooner(x)
    <3>1. ASSUME NEW x \in P, NEW y \in P PROVE y < x <=> y \in Sooner(x)
      <4>1. y < x \/ x < y \/ x = y
        BY <1>3
      <4> QED
        BY <1>3, <2>1, <4>1
    <3> QED
      BY <3>1
  <2>3. \A x, y \in P : y \in Ahead(R, P, x) <=> y < x
    BY DEF Ahead
  <2>4. \A x : Sooner(x) \subseteq P /\ Ahead(R, P, x) \subseteq P
    BY DEF Ahead
  <2> HIDE DEF Sooner, R
  <2> QED
    BY <2>2, <2>3, <2>4
<1>6. \A x, y \in P : x < y => <<x, y>> \in R
  OBVIOUS
<1> HIDE DEF R, N
<1>7. ASSUME NEW n \in 1 .. N
      PROVE  \E x \in P : Cardinality(Sooner(x)) = n - 1
  <2>1. PICK x \in P : Cardinality(Ahead(R, P, x)) = n - 1
    BY <1>2, <1>4, PlacesTaken DEF N
  <2> HIDE DEF Sooner
  <2> QED
    BY <1>5, <2>1
<1> HIDE DEF Sooner
<1>8. /\ q \in [1 .. N -> P]
      /\ \A n \in 1 .. N : Cardinality(Ahead(R, P, q[n])) = n - 1
  <2>1. \A n \in 1 .. N : q[n] \in P /\ Cardinality(Sooner(q[n])) = n - 1
    BY <1>1, <1>7
  <2>2. q = [n \in 1 .. N |-> q[n]]
    BY <1>1
  <2> QED
    BY <1>5, <2>1, <2>2
<1> HIDE DEF q
<1>9. /\ \A x \in P : Cardinality(Ahead(R, P, x)) \in 0 .. N - 1
      /\ \A x, y \in P : Cardinality(Ahead(R, P, x)) = Cardinality(Ahead(R, P, y)) => x = y
      /\ \A x, y \in P : <<x, y>> \in R => Cardinality(Ahead(R, P, x)) < Cardinality(Ahead(R, P, y))
  BY <1>2, <1>4, PlacesDiffer DEF N
<1>10. ASSUME NEW i \in 1 .. N, NEW j \in 1 .. N, i < j
       PROVE  q[i] < q[j]
  <2>1. /\ q[i] \in P /\ q[j] \in P /\ q[i] \in Int /\ q[j] \in Int
        /\ Cardinality(Ahead(R, P, q[i])) = i - 1 /\ Cardinality(Ahead(R, P, q[j])) = j - 1
    BY <1>3, <1>8
  <2>2. q[j] < q[i] => j - 1 < i - 1
    BY <1>6, <1>9, <2>1
  <2>3. q[j] # q[i]
    BY <1>10, <2>1
  <2> QED
    BY <1>2, <1>10, <2>1, <2>2, <2>3
<1>11. ASSUME NEW x \in P
       PROVE  \E i \in 1 .. N : q[i] = x
  <2>1. PICK k \in 0 .. N - 1 : k = Cardinality(Ahead(R, P, x))
    BY <1>9
  <2>2. k + 1 \in 1 .. N
    BY <1>2
  <2>3. Cardinality(Ahead(R, P, q[k + 1])) = k /\ q[k + 1] \in P
    BY <1>8, <2>2
  <2> QED
    BY <1>9, <2>1, <2>2, <2>3
<1> QED
  BY <1>2, <1>8, <1>10, <1>11 DEF q

\* Read backwards, the newest purchase is first.
LEMMA NewestFirst ==
  ASSUME AccountInv, NEW P \in SUBSET DOMAIN share
  PROVE  \E N \in Nat :
           /\ Reverse(ByTime(P)) \in [1 .. N -> P]
           /\ \A i, j \in 1 .. N : i < j => Reverse(ByTime(P))[j] < Reverse(ByTime(P))[i]
           /\ \A x \in P : \E i \in 1 .. N : Reverse(ByTime(P))[i] = x
<1>1. PICK N \in Nat :
        /\ ByTime(P) \in [1 .. N -> P]
        /\ \A i, j \in 1 .. N : i < j => ByTime(P)[i] < ByTime(P)[j]
        /\ \A x \in P : \E i \in 1 .. N : ByTime(P)[i] = x
  BY OldestFirst
<1>2. PICK q : q = ByTime(P)
  OBVIOUS
<1>3. Len(q) = N
  BY <1>1, <1>2
<1>4. Reverse(q) = [i \in 1 .. N |-> q[N - i + 1]]
  BY <1>3 DEF Reverse
<1>5. \A i \in 1 .. N : N - i + 1 \in 1 .. N /\ N - (N - i + 1) + 1 = i
  OBVIOUS
<1>6. Reverse(q) \in [1 .. N -> P] /\ \A i \in 1 .. N : Reverse(q)[i] = q[N - i + 1]
  BY <1>1, <1>2, <1>4, <1>5
<1>7. \A i, j \in 1 .. N : i < j => Reverse(q)[j] < Reverse(q)[i]
  <2>1. \A i, j \in 1 .. N : i < j => N - j + 1 < N - i + 1
    OBVIOUS
  <2> QED
    BY <1>1, <1>2, <1>5, <1>6, <2>1
<1>8. ASSUME NEW x \in P
      PROVE  \E i \in 1 .. N : Reverse(q)[i] = x
  <2>1. PICK i \in 1 .. N : q[i] = x
    BY <1>1, <1>2
  <2> QED
    BY <1>5, <1>6, <2>1
<1> QED
  BY <1>2, <1>6, <1>7, <1>8

Account == [left: Int, cost: Int]

\* What the tokens that are left of each purchase have cost
Worths == [i \in DOMAIN share |-> Worth(left[i], share[i])]

LEMMA WorthTyped ==
  ASSUME NEW n \in Nat, NEW row \in Share
  PROVE  Worth(n, row) \in Nat /\ (n = 0 => Worth(n, row) = 0)
<1>1. row.amount \in Nat /\ row.tokens \in Nat \ {0} /\ Unit \in Nat
  BY PortfolioAssumption DEF Share
<1>2. \A a, b \in Nat : a * b \in Nat
  OBVIOUS
<1>3. \A a \in Nat, b \in Nat \ {0} : a \div b \in Nat /\ 0 \div b = 0
  OBVIOUS
<1>4. (n * row.amount) * Unit \in Nat
  BY <1>1, <1>2, Zenon
<1>5. n = 0 => (n * row.amount) * Unit = 0
  <2>1. \A a \in Nat : 0 * a = 0
    OBVIOUS
  <2>2. n = 0 => n * row.amount = 0
    BY <1>1, <2>1, Zenon
  <2> QED
    BY <1>1, <2>1, <2>2, Zenon
<1>6. Worth(n, row) = ((n * row.amount) * Unit) \div row.tokens
  BY DEF Worth
<1>7. PICK c, d : c = (n * row.amount) * Unit /\ d = row.tokens
  OBVIOUS
<1>8. c \in Nat /\ d \in Nat \ {0} /\ (n = 0 => c = 0) /\ Worth(n, row) = c \div d
  BY <1>1, <1>4, <1>5, <1>6, <1>7, Zenon
<1>9. c \div d \in Nat /\ (c = 0 => c \div d = 0)
  BY <1>3, <1>8
<1> QED
  BY <1>8, <1>9, Zenon

LEMMA AccountedIs ==
  ASSUME RowsTyped, NEW i \in DOMAIN share, NEW acc \in Account
  PROVE  /\ Accounted(acc, i) \in Account
         /\ acc.left = 0 => Accounted(acc, i) = acc
         /\ \A taken \in Nat :
              acc.left > 0 /\ taken = (IF share[i].tokens <= acc.left THEN share[i].tokens ELSE acc.left)
              => Accounted(acc, i) = [left |-> acc.left - taken, cost |-> acc.cost + Worth(taken, share[i])]
<1>1. share[i] \in Share /\ share[i].tokens \in Nat /\ acc.left \in Int /\ acc.cost \in Int
  BY RowsFinite DEF Share, Account
<1>2. Accounted(acc, i) =
        IF acc.left <= 0 THEN acc
        ELSE [left |-> acc.left - Min({share[i].tokens, acc.left}),
              cost |-> acc.cost + Worth(Min({share[i].tokens, acc.left}), share[i])]
  BY DEF Accounted
<1>3. CASE acc.left <= 0
  <2>1. Accounted(acc, i) = acc /\ ~ (acc.left > 0)
    BY <1>1, <1>2, <1>3
  <2> QED
    BY <2>1
<1>4. CASE ~ (acc.left <= 0)
  <2>1. acc.left \in Nat /\ acc.left # 0
    BY <1>1, <1>4
  <2>2. PICK n \in Nat : n = IF share[i].tokens <= acc.left THEN share[i].tokens ELSE acc.left
    BY <1>1, <2>1
  <2>3. Min({share[i].tokens, acc.left}) = n
    BY <1>1, <2>1, <2>2, MinOfTwo
  <2>4. Accounted(acc, i) = [left |-> acc.left - n, cost |-> acc.cost + Worth(n, share[i])]
    BY <1>2, <1>4, <2>3
  <2>5. Worth(n, share[i]) \in Nat
    BY <1>1, WorthTyped
  <2>6. [left |-> acc.left - n, cost |-> acc.cost + Worth(n, share[i])] \in Account
    BY <1>1, <2>5 DEF Account
  <2> QED
    BY <2>1, <2>2, <2>4, <2>6
<1> QED
  BY <1>3, <1>4

Pass(remaining, r) == FoldLeft(Accounted, [left |-> remaining, cost |-> 0], r)

\* c is the account after each purchase of the pass.
IsPass(c, remaining, r, N) ==
  /\ c[{}] = [left |-> remaining, cost |-> 0]
  /\ \A k \in 1 .. N : c[1 .. k] = Accounted(c[1 .. k - 1], r[k])

\* The second pass goes through the purchases one by one.
LEMMA SecondPass ==
  ASSUME RowsTyped, NEW N \in Nat, NEW r \in [1 .. N -> DOMAIN share], NEW remaining \in Int
  PROVE  \E c : Pass(remaining, r) = c[1 .. N] /\ IsPass(c, remaining, r, N)
<1> DEFINE base == [left |-> remaining, cost |-> 0]
           D == DOMAIN share
           S == 1 .. N
           op == [p \in D \X Account |-> Accounted(p[2], p[1])]
           c == CHOOSE k : k = [s \in SUBSET S |->
                                  IF s = {} THEN base ELSE Accounted(k[s \ {Max(s)}], r[Max(s)])]
<1>1. Pass(remaining, r) = c[S]
  <2>1. DOMAIN r = S
    OBVIOUS
  <2> QED
    BY <2>1, Zenon DEF Pass, FoldLeft, MapThenFoldSet
<1>2. base \in Account
  BY DEF Account
<1>3. \A x \in D, v \in Account : op[<<x, v>>] = Accounted(v, x) /\ op[<<x, v>>] \in Account
  <2>1. \A x \in D, v \in Account : op[<<x, v>>] = Accounted(v, x)
    OBVIOUS
  <2> QED
    BY <2>1, AccountedIs
<1>4. \A i \in 1 .. N : r[i] \in D
  OBVIOUS
<1> HIDE DEF base, op, D, c
<1>5. PICK f \in [SUBSET (1 .. N) -> Account] :
        \A s \in SUBSET (1 .. N) : f[s] = IF s = {} THEN base ELSE op[<<r[Max(s)], f[s \ {Max(s)}]>>]
  <2>1. StaysIn(op, D, Account)
    BY <1>3 DEF StaysIn
  <2>2. r \in [1 .. N -> D]
    BY DEF D
  <2>3. \E f \in [SUBSET (1 .. N) -> Account] : IsSequenceFold(f, op, base, r, N)
    BY <1>2, <2>1, <2>2, SequenceFoldExists
  <2> QED
    BY <2>3 DEF IsSequenceFold
<1>6. \A s \in SUBSET (1 .. N) : s # {} => Max(s) \in s
  BY LastPlace
<1>7. ASSUME NEW s \in SUBSET (1 .. N)
      PROVE  f[s] = IF s = {} THEN base ELSE Accounted(f[s \ {Max(s)}], r[Max(s)])
  <2>1. CASE s = {}
    BY <1>5, <2>1
  <2>2. CASE s # {}
    <3>1. r[Max(s)] \in D /\ f[s \ {Max(s)}] \in Account
      BY <1>4, <1>6, <2>2
    <3> QED
      BY <1>3, <1>5, <2>2, <3>1
  <2> QED
    BY <2>1, <2>2
<1>8. f = [s \in SUBSET S |-> IF s = {} THEN base ELSE Accounted(f[s \ {Max(s)}], r[Max(s)])]
  BY <1>5, <1>7
<1>9. c = [s \in SUBSET S |-> IF s = {} THEN base ELSE Accounted(c[s \ {Max(s)}], r[Max(s)])]
  BY <1>8, Zenon DEF c
<1>10. c[{}] = base
  BY <1>9
<1>11. ASSUME NEW k \in 1 .. N
       PROVE  c[1 .. k] = Accounted(c[1 .. k - 1], r[k])
  <2>1. 1 .. k \in SUBSET S /\ 1 .. k # {} /\ k \in Nat /\ k # 0
    OBVIOUS
  <2>2. Max(1 .. k) = k /\ (1 .. k) \ {k} = 1 .. k - 1
    BY <2>1, LastPlace
  <2>3. c[1 .. k] = Accounted(c[(1 .. k) \ {Max(1 .. k)}], r[Max(1 .. k)])
    BY <1>9, <2>1
  <2> QED
    BY <2>2, <2>3
<1> QED
  BY <1>1, <1>10, <1>11 DEF base, IsPass

\* r lists P, the newest first.
ListsNewest(r, P, N) ==
  /\ r \in [1 .. N -> P]
  /\ \A i, j \in 1 .. N : i < j => r[j] < r[i]
  /\ \A x \in P : \E i \in 1 .. N : r[i] = x

\* The newest purchases are whole as far as the shares go, so that counting from the
\* newest finds what is left of each.
LEMMA NewestCounted ==
  ASSUME AccountInv, NEW P \in SUBSET DOMAIN share,
         \A i, j \in P : i < j /\ left[i] > 0 => left[j] = share[j].tokens,
         NEW N \in Nat, NEW r, ListsNewest(r, P, N), NEW c, IsPass(c, Summed(left, P), r, N)
  PROVE  c[1 .. N] = [left |-> 0, cost |-> Summed(Worths, P)]
<1> DEFINE Seen(k) == {r[i] : i \in 1 .. k}
           Rest(k) == P \ Seen(k)
           Good(k) == c[1 .. k] = [left |-> Summed(left, Rest(k)), cost |-> Summed(Worths, Seen(k))]
           H == {k \in Nat : k <= N => Good(k)}
<1>0. /\ r \in [1 .. N -> P]
      /\ \A i, j \in 1 .. N : i < j => r[j] < r[i]
      /\ \A x \in P : \E i \in 1 .. N : r[i] = x
  BY DEF ListsNewest
<1>1. IsFiniteSet(P) /\ \A i \in P : i \in Int /\ share[i] \in Share
  BY RowsFinite, AccountIs DEF AccountInv
<1>2. \A i \in P : left[i] \in Nat /\ share[i].tokens \in Nat /\ left[i] <= share[i].tokens
  <2>1. \A i \in P : left[i] <= share[i].tokens
    BY DEF AccountInv, AccountSound, Kept
  <2>2. left \in Seq(Nat) /\ DOMAIN left = DOMAIN share
    BY AccountIs
  <2>3. \A i \in P : left[i] \in Nat
    BY <2>2
  <2>4. \A i \in P : share[i].tokens \in Nat
    BY <1>1 DEF Share
  <2> QED
    BY <2>1, <2>3, <2>4
<1>3. \A i \in P : Worths[i] = Worth(left[i], share[i]) /\ Worths[i] \in Nat
  BY <1>1, <1>2, WorthTyped DEF Worths
<1>4. \A T \in SUBSET P :
        IsFiniteSet(T) /\ Summed(left, T) \in Nat /\ Summed(Worths, T) \in Nat
  <2> SUFFICES ASSUME NEW T \in SUBSET P
               PROVE  IsFiniteSet(T) /\ Summed(left, T) \in Nat /\ Summed(Worths, T) \in Nat
    OBVIOUS
  <2>1. IsFiniteSet(T)
    BY <1>1, FS_Subset
  <2>2. /\ \A i \in T : left[i] \in Nat
        /\ \A i \in T : Worths[i] \in Nat
    BY <1>2, <1>3
  <2> QED
    BY <2>1, <2>2, SummedNat
<1>5. \A k \in 0 .. N : Seen(k) \in SUBSET P
  BY <1>0
<1>6. Good(0)
  <2>1. 1 .. 0 = {} /\ Seen(0) = {} /\ Rest(0) = P
    OBVIOUS
  <2>2. Summed(Worths, Seen(0)) = 0
    BY <2>1, SummedEmpty
  <2> HIDE DEF Seen, Rest
  <2> QED
    BY <2>1, <2>2 DEF IsPass
<1>7. ASSUME NEW k \in Nat, k + 1 <= N, Good(k)
      PROVE  Good(k + 1)
  <2> DEFINE x == r[k + 1]
             acc == [left |-> Summed(left, Rest(k)), cost |-> Summed(Worths, Seen(k))]
  <2>1. k \in 0 .. N /\ k + 1 \in 1 .. N /\ k + 1 - 1 = k /\ x \in P
    BY <1>0, <1>7
  <2>2. c[1 .. k + 1] = Accounted(acc, x)
    BY <1>7, <2>1 DEF IsPass
  <2>3. x \notin Seen(k) /\ Seen(k + 1) = Seen(k) \cup {x}
    <3>1. \A i \in 1 .. k : i \in 1 .. N /\ r[i] \in P /\ i < k + 1
      BY <1>0, <2>1
    <3>2. \A i \in 1 .. k : r[i] # x
      <4>1. \A i \in 1 .. k : x < r[i]
        BY <1>0, <2>1, <3>1
      <4> QED
        BY <1>1, <2>1, <3>1, <4>1
    <3>3. 1 .. k + 1 = (1 .. k) \cup {k + 1}
      OBVIOUS
    <3>4. Seen(k + 1) = {r[i] : i \in (1 .. k) \cup {k + 1}}
      BY <3>3
    <3>5. {r[i] : i \in (1 .. k) \cup {k + 1}} = Seen(k) \cup {x}
      OBVIOUS
    <3>6. x \notin Seen(k)
      BY <3>2
    <3> HIDE DEF Seen, x
    <3> QED
      BY <3>4, <3>5, <3>6
  <2>4. x \in Rest(k) /\ Rest(k) = Rest(k + 1) \cup {x} /\ x \notin Rest(k + 1)
    BY <2>1, <2>3
  <2>5. \A y \in Rest(k + 1) : y \in P /\ y < x
    <3> SUFFICES ASSUME NEW y \in Rest(k + 1) PROVE y < x
      OBVIOUS
    <3>1. PICK i \in 1 .. N : r[i] = y
      BY <1>0
    <3>2. i \notin 1 .. k + 1
      BY <3>1
    <3> QED
      BY <1>0, <2>1, <3>1, <3>2
  <2>6. Seen(k) \in SUBSET P /\ Rest(k) \in SUBSET P /\ Rest(k + 1) \in SUBSET P
    BY <1>5, <2>1
  <2> HIDE DEF Seen, Rest, x
  <2>7. Summed(left, Rest(k)) = left[x] + Summed(left, Rest(k + 1))
    <3>1. PICK l : l = left
      OBVIOUS
    <3>2. IsFiniteSet(Rest(k + 1)) /\ \A y \in Rest(k + 1) \cup {x} : l[y] \in Int
      BY <1>2, <1>4, <2>1, <2>6, <3>1
    <3>3. Summed(l, Rest(k + 1) \cup {x}) = l[x] + Summed(l, Rest(k + 1))
      BY <2>4, <3>2, SummedAdd
    <3> QED
      BY <2>4, <3>1, <3>3
  <2>8. Summed(Worths, Seen(k + 1)) = Worths[x] + Summed(Worths, Seen(k))
    <3>1. PICK w : w = Worths
      OBVIOUS
    <3>2. IsFiniteSet(Seen(k)) /\ \A y \in Seen(k) \cup {x} : w[y] \in Int
      BY <1>3, <1>4, <2>1, <2>6, <3>1
    <3>3. Summed(w, Seen(k) \cup {x}) = w[x] + Summed(w, Seen(k))
      BY <2>3, <3>2, SummedAdd
    <3> QED
      BY <2>3, <3>1, <3>3
  <2>9. PICK a, b, d, n \in Nat :
          /\ a = Summed(left, Rest(k)) /\ b = Summed(left, Rest(k + 1))
          /\ d = Summed(Worths, Seen(k)) /\ n = left[x]
    BY <1>2, <1>4, <2>1, <2>6, Zenon
  <2>10. acc = [left |-> a, cost |-> d] /\ a = n + b
    BY <2>7, <2>9
  <2>11. /\ Worths[x] = Worth(n, share[x]) /\ Worths[x] \in Nat
         /\ share[x].tokens \in Nat /\ n <= share[x].tokens /\ x \in DOMAIN share
    BY <1>2, <1>3, <2>1, <2>9
  <2>12. acc \in Account
    BY <2>10 DEF Account
  <2> HIDE DEF acc
  <2>13. Accounted(acc, x) = [left |-> b, cost |-> Worths[x] + d]
    <3>1. CASE a = 0
      <4>1. n = 0 /\ b = 0 /\ acc.left = 0
        BY <2>9, <2>10, <3>1
      <4>2. Accounted(acc, x) = acc
        BY <2>11, <2>12, <4>1, AccountedIs DEF AccountInv
      <4>3. Worths[x] = 0
        BY <1>1, <2>1, <2>11, <4>1, WorthTyped
      <4> QED
        BY <2>9, <2>10, <4>1, <4>2, <4>3
    <3>2. CASE a # 0
      <4>1. n = IF share[x].tokens <= a THEN share[x].tokens ELSE a
        <5>1. CASE n = share[x].tokens
          BY <2>9, <2>10, <5>1
        <5>2. CASE n # share[x].tokens
          <6>1. \A y \in Rest(k + 1) : left[y] = 0
            BY <1>2, <2>1, <2>5, <2>9, <5>2
          <6>2. b = 0
            BY <1>4, <2>6, <2>9, <6>1, SummedZero
          <6> QED
            BY <2>9, <2>10, <2>11, <5>2, <6>2
        <5> QED
          BY <5>1, <5>2
      <4>2. acc.left = a /\ acc.cost = d /\ a > 0
        BY <2>9, <2>10, <3>2
      <4>3. Accounted(acc, x) = [left |-> acc.left - n, cost |-> acc.cost + Worth(n, share[x])]
        <5>1. acc.left > 0 /\ n = IF share[x].tokens <= acc.left THEN share[x].tokens ELSE acc.left
          BY <4>1, <4>2
        <5> QED
          BY <2>9, <2>11, <2>12, <5>1, AccountedIs DEF AccountInv
      <4>4. a - n = b /\ d + Worths[x] = Worths[x] + d
        BY <2>9, <2>10, <2>11
      <4> QED
        BY <2>11, <4>2, <4>3, <4>4
    <3> QED
      BY <3>1, <3>2
  <2> QED
    BY <2>2, <2>8, <2>9, <2>13
<1>8. Good(N)
  <2> HIDE DEF Good
  <2>1. 0 \in H /\ \A k \in Nat : k \in H => k + 1 \in H
    BY <1>6, <1>7
  <2>2. Nat \subseteq H
    <3> HIDE DEF H
    <3> QED
      BY <2>1, UpwardInduction
  <2> QED
    BY <2>2
<1>9. Seen(N) = P /\ Rest(N) = {}
  <2>1. Seen(N) = P
    BY <1>0
  <2> QED
    BY <2>1
<1>10. Summed(left, Rest(N)) = 0
  BY <1>9, SummedEmpty
<1> QED
  BY <1>8, <1>9, <1>10

LEMMA CostOfRows == AccountInv => CostIsFifo
<1> SUFFICES ASSUME AccountInv, NEW u \in User, NEW o \in Outcome, <<u, o>> \notin oversold
             PROVE  /\ Position(u, o).shares = LeftOf(Purchases(u, o))
                    /\ Position(u, o).cost = WorthLeft(Purchases(u, o))
  BY DEF CostIsFifo
<1> DEFINE P == Purchases(u, o)
           shares == Summed(left, P)
<1>1. /\ P \in SUBSET DOMAIN share /\ IsFiniteSet(P) /\ LeftOf(P) = shares /\ shares \in Nat
      /\ P = Bought(share, u, o) /\ Gave(u, o) = Sold(share, u, o) /\ Tokens = TokensIn(share)
  <2>1. P \in SUBSET DOMAIN share
    BY DEF Purchases, Ids
  <2> QED
    BY <2>1, AccountIs DEF Gave
<1>2. u \in Owner
  BY DEF Owner
<1>3. Balanced(share, left, u, o)
  BY <1>2 DEF AccountInv, AccountSound
<1>4. Position(u, o).shares = shares /\ Position(u, o).cost = RemainingCost(ByTime(P), shares)
  <2>1. /\ Position(u, o).shares = Summed(Tokens, P) - Summed(Tokens, Gave(u, o))
        /\ Position(u, o).cost = RemainingCost(ByTime(P), Position(u, o).shares)
    BY PositionIs DEF AccountInv
  <2>2. shares = Summed(Tokens, P) - Summed(Tokens, Gave(u, o))
    BY <1>1, <1>3 DEF Balanced
  <2> QED
    BY <2>1, <2>2, Zenon
<1>5. \A i, j \in P : i < j /\ left[i] > 0 => left[j] = share[j].tokens
  BY <1>1, <1>3 DEF Balanced
<1> HIDE DEF P, shares
<1> DEFINE r == Reverse(ByTime(P))
<1>6. PICK N \in Nat : ListsNewest(r, P, N)
  BY <1>1, NewestFirst DEF ListsNewest
<1> HIDE DEF r
<1>7. r \in [1 .. N -> DOMAIN share]
  BY <1>1, <1>6 DEF ListsNewest
<1>8. RemainingCost(ByTime(P), shares) = Pass(shares, r).cost
  BY Zenon DEF RemainingCost, Pass, r
<1>9. PICK rest \in Int : rest = shares
  BY <1>1
<1>10. PICK c : Pass(rest, r) = c[1 .. N] /\ IsPass(c, rest, r, N)
  BY <1>7, SecondPass DEF AccountInv
<1>11. IsPass(c, Summed(left, P), r, N)
  BY <1>9, <1>10 DEF shares
<1>12. c[1 .. N] = [left |-> 0, cost |-> Summed(Worths, P)]
  BY <1>1, <1>5, <1>6, <1>11, NewestCounted
<1>13. RemainingCost(ByTime(P), shares) = Summed(Worths, P)
  BY <1>8, <1>9, <1>10, <1>12
<1>14. WorthLeft(P) = Summed(Worths, P)
  <2>1. PICK w : w = Worths
    OBVIOUS
  <2>2. \A i \in P : w[i] \in Int /\ w[i] = Worth(left[i], share[i])
    <3>1. \A i \in P : left[i] \in Nat /\ share[i] \in Share
      BY <1>1, RowsFinite, AccountIs DEF AccountInv
    <3> QED
      BY <1>1, <2>1, <3>1, WorthTyped DEF Worths
  <2>3. SumFunction([i \in P |-> w[i]]) = Summed(w, P)
    BY <1>1, <2>2, SumOfValues
  <2>4. [i \in P |-> w[i]] = [i \in P |-> Worth(left[i], share[i])]
    BY <2>2
  <2> QED
    BY <2>1, <2>3, <2>4, Zenon DEF WorthLeft
<1> QED
  BY <1>1, <1>4, <1>13, <1>14 DEF P

\* The price of an open position, found from the newest purchases alone, is that of the
\* shares a first-in first-out account has left, for every number of users, rows, amounts
\* and orders of buys, sales and fundings (prediction-set.model.ts:456-556).
THEOREM CostsAreFifo == Spec => []CostIsFifo
BY CostOfRows, AccountCorrect, PTL

-----------------------------------------------------------------------------
(* The pages of a list *)

\* The page on which the place i is
LEMMA PageOfPlace ==
  ASSUME NEW n \in Nat \ {0}, NEW total \in Nat, NEW i \in 1 .. total
  PROVE  \E p \in 1 .. ((total + n - 1) \div n) : (p - 1) * n < i /\ i <= p * n
<1> DEFINE d == (i - 1) \div n
           e == (total + n - 1) \div n
<1>1. /\ d \in Nat /\ d * n <= i - 1 /\ i - 1 < (d + 1) * n
      /\ e \in Nat /\ e * n <= total + n - 1 /\ total + n - 1 < (e + 1) * n
  <2>1. i - 1 \in Nat /\ total + n - 1 \in Nat
    OBVIOUS
  <2> QED
    BY <2>1, DivBounds
<1> HIDE DEF d, e
<1>2. d + 1 <= e
  <2>1. (e + 1) * n = e * n + n
    BY <1>1
  <2>2. d * n < e * n
    BY <1>1, <2>1
  <2>3. e <= d => e * n <= d * n
    BY <1>1
  <2> QED
    BY <1>1, <2>2, <2>3
<1>3. d + 1 \in 1 .. e /\ ((d + 1) - 1) * n < i /\ i <= (d + 1) * n
  BY <1>1, <1>2
<1> QED
  BY <1>3 DEF e

\* Behind the last page there is nothing.
LEMMA PastThePages ==
  ASSUME NEW n \in Nat \ {0}, NEW total \in Nat, NEW p \in Nat \ {0},
         p + 1 \notin 1 .. ((total + n - 1) \div n)
  PROVE  total <= p * n
<1> DEFINE e == (total + n - 1) \div n
<1>1. e \in Nat /\ total + n - 1 < (e + 1) * n
  <2>1. total + n - 1 \in Nat
    OBVIOUS
  <2> QED
    BY <2>1, DivBounds
<1>2. p + 1 \notin 1 .. e
  OBVIOUS
<1> HIDE DEF e
<1>3. e <= p
  BY <1>1, <1>2
<1>4. (e + 1) * n = e * n + n
  BY <1>1
<1>5. e * n <= p * n
  BY <1>1, <1>3
<1> QED
  BY <1>1, <1>4, <1>5

LEMMA LimitIs == ASSUME NEW limit \in Nat PROVE Limit(limit) \in Nat \ {0}
BY DefaultLimitAssumption DEF Limit

LEMMA PartOf ==
  ASSUME NEW S, NEW list \in Seq(S), NEW first \in Nat, NEW last \in 0 .. Len(list),
         NEW part, part = SubSeq(list, first + 1, last)
  PROVE  /\ part \in Seq(S) /\ ToSet(part) \subseteq ToSet(list)
         /\ \A i \in 1 .. Len(list) : first < i /\ i <= last => list[i] \in ToSet(part)
<1>1. Len(list) \in Nat /\ DOMAIN list = 1 .. Len(list) /\ \A i \in 1 .. Len(list) : list[i] \in S
  OBVIOUS
<1>2. \A i \in first + 1 .. last : list[i] \in S
  BY <1>1
<1>3. first + 1 \in Int /\ last \in Int /\ last - (first + 1) + 1 = last - first
  BY <1>1
<1>4. /\ SubSeq(list, first + 1, last) \in Seq(S)
      /\ Len(SubSeq(list, first + 1, last)) = IF first + 1 <= last THEN last - (first + 1) + 1 ELSE 0
      /\ \A i \in 1 .. last - (first + 1) + 1 : SubSeq(list, first + 1, last)[i] = list[first + 1 + i - 1]
  <2> DEFINE m == first + 1
  <2>1. m \in Int /\ \A i \in m .. last : list[i] \in S
    BY <1>2, <1>3
  <2> HIDE DEF m
  <2>2. /\ SubSeq(list, m, last) \in Seq(S)
        /\ Len(SubSeq(list, m, last)) = IF m <= last THEN last - m + 1 ELSE 0
        /\ \A i \in 1 .. last - m + 1 : SubSeq(list, m, last)[i] = list[m + i - 1]
    BY <1>3, <2>1, SubSeqProperties
  <2> QED
    BY <2>2, Zenon DEF m
<1>5. /\ part \in Seq(S)
      /\ Len(part) = IF first + 1 <= last THEN last - first ELSE 0
      /\ \A i \in 1 .. last - first : part[i] = list[first + 1 + i - 1]
  BY <1>3, <1>4, Zenon
<1>6. DOMAIN part = 1 .. Len(part)
  BY <1>5
<1>7. ASSUME NEW i \in DOMAIN part PROVE part[i] \in ToSet(list)
  <2>1. i \in 1 .. last - first
    BY <1>1, <1>5, <1>6
  <2>2. part[i] = list[first + 1 + i - 1] /\ first + 1 + i - 1 \in 1 .. Len(list)
    BY <1>1, <1>5, <2>1
  <2> QED
    BY <1>1, <2>2 DEF ToSet
<1>8. ASSUME NEW i \in 1 .. Len(list), first < i, i <= last
      PROVE  list[i] \in ToSet(part)
  <2>1. i - first \in 1 .. last - first /\ first + 1 + (i - first) - 1 = i
    BY <1>1, <1>8
  <2>2. part[i - first] = list[i] /\ i - first \in DOMAIN part
    BY <1>5, <1>6, <2>1
  <2> QED
    BY <2>2 DEF ToSet
<1> QED
  BY <1>5, <1>7, <1>8 DEF ToSet

LEMMA PageHolds ==
  ASSUME NEW S, NEW list \in Seq(S), NEW page \in Nat \ {0}, NEW limit \in Nat,
         NEW n \in Nat, n = Limit(limit), NEW first \in Nat, first = (page - 1) * n
  PROVE  /\ PageOf(list, page, limit) \in Seq(S)
         /\ ToSet(PageOf(list, page, limit)) \subseteq ToSet(list)
         /\ \A i \in 1 .. Len(list) :
              first < i /\ i <= page * n => list[i] \in ToSet(PageOf(list, page, limit))
<1> DEFINE last == IF first + n < Len(list) THEN first + n ELSE Len(list)
<1>1. PageOf(list, page, limit) = SubSeq(list, first + 1, last)
  <2>1. Offset(page, limit) = first
    BY DEF Offset, PageNumber
  <2> QED
    BY <2>1, Zenon DEF PageOf
<1>2. page * n = first + n
  <2>1. (page - 1) * n + n = page * n
    OBVIOUS
  <2> QED
    BY <2>1
<1>3. Len(list) \in Nat
  OBVIOUS
<1>4. last \in 0 .. Len(list) /\ \A i \in 1 .. Len(list) : i <= page * n => i <= last
  BY <1>2, <1>3
<1> HIDE DEF last
<1> QED
  BY <1>1, <1>4, PartOf

LEMMA AllReached ==
  ASSUME NEW S, NEW list \in Seq(S), NEW limit \in Nat, NEW total \in Nat, Len(list) <= total
  PROVE  Reached(list, total, limit) = ToSet(list)
<1> DEFINE n == Limit(limit)
           pages == 1 .. ((total + n - 1) \div n)
<1>1. n \in Nat \ {0}
  BY LimitIs
<1>2. /\ Reached(list, total, limit) = UNION {ToSet(PageOf(list, page, limit)) : page \in pages}
      /\ pages \subseteq Nat \ {0}
  <2>1. Reached(list, total, limit) = UNION {ToSet(PageOf(list, page, limit)) : page \in pages}
    BY Zenon DEF Reached, ToSet, Pages
  <2> QED
    BY <2>1
<1>3. ASSUME NEW page \in pages PROVE ToSet(PageOf(list, page, limit)) \subseteq ToSet(list)
  <2>1. page \in Nat \ {0}
    BY <1>2
  <2>2. (page - 1) * n \in Nat
    BY <1>1, <2>1
  <2> QED
    BY <1>1, <2>1, <2>2, PageHolds
<1>4. ASSUME NEW x \in ToSet(list)
      PROVE  \E page \in pages : x \in ToSet(PageOf(list, page, limit))
  <2>1. PICK i \in 1 .. Len(list) : x = list[i]
    BY DEF ToSet
  <2>2. i \in 1 .. total
    BY <2>1
  <2> HIDE DEF n
  <2>3. PICK page \in 1 .. ((total + n - 1) \div n) : (page - 1) * n < i /\ i <= page * n
    BY <1>1, <2>2, PageOfPlace
  <2>4. page \in Nat \ {0}
    BY <1>2
  <2>5. (page - 1) * n \in Nat
    BY <1>1, <2>4
  <2> QED
    BY <1>1, <2>1, <2>3, <2>4, <2>5, PageHolds DEF n
<1> HIDE DEF pages
<1> QED
  BY <1>2, <1>3, <1>4

LEMMA SetInSequence ==
  ASSUME NEW S, IsFiniteSet(S)
  PROVE  SetToSeq(S) \in Seq(S) /\ Len(SetToSeq(S)) = Cardinality(S) /\ ToSet(SetToSeq(S)) = S
<1> DEFINE n == Cardinality(S)
           D == 1 .. n
<1>1. n \in Nat /\ ExistsBijection(D, S)
  BY FS_CardinalityType
<1>2. IsFiniteSet(D) /\ Cardinality(D) = n
  <2>1. 1 \in Int /\ n \in Int
    BY <1>1
  <2> QED
    BY <1>1, <2>1, FS_Interval
<1>3. \E f \in [D -> S] : IsInjective(f)
  BY <1>1 DEF ExistsBijection, Bijection, Injection
<1>4. SetToSeq(S) \in [D -> S] /\ IsInjective(SetToSeq(S))
  BY <1>3, Zenon DEF SetToSeq
<1>5. SetToSeq(S) \in Surjection(D, S)
  <2>1. SetToSeq(S) \in Injection(D, S)
    BY <1>4 DEF Injection
  <2> HIDE DEF D
  <2> QED
    BY <1>2, <2>1, FS_Injection
<1>6. \A y \in S : \E i \in D : SetToSeq(S)[i] = y
  BY <1>5 DEF Surjection
<1>7. DOMAIN SetToSeq(S) = D /\ \A i \in D : SetToSeq(S)[i] \in S
  BY <1>4
<1>8. SetToSeq(S) \in Seq(S) /\ Len(SetToSeq(S)) = n
  BY <1>1, <1>4
<1> QED
  BY <1>6, <1>7, <1>8 DEF ToSet

LEMMA EverythingReached ==
  ASSUME NEW S, IsFiniteSet(S), NEW total \in Nat, Cardinality(S) <= total
  PROVE  Everything(S, total)
<1>1. SetToSeq(S) \in Seq(S) /\ Len(SetToSeq(S)) <= total /\ ToSet(SetToSeq(S)) = S
  BY SetInSequence
<1>2. \A limit \in 0 .. 2 : limit \in Nat
  OBVIOUS
<1>3. \A limit \in 0 .. 2 : Reached(SetToSeq(S), total, limit) = ToSet(SetToSeq(S))
  BY <1>1, <1>2, AllReached
<1> QED
  BY <1>1, <1>3, Zenon DEF Everything

\* A row of the activity is told by its id while the ids of the tables differ.
LEMMA ActivityCounted ==
  ASSUME RowsTyped, NEW type \in 0 .. 6, IdsDistinct(type)
  PROVE  /\ IsFiniteSet(Activity(type))
         /\ ActivityTotal(type) \in Nat /\ Cardinality(Activity(type)) <= ActivityTotal(type)
<1> DEFINE shares == ActivityShares(type)
           fundings == ActivityFundings(type)
           claims == ActivityClaims(type)
           ids == (shares \cup fundings) \cup claims
           idOf == [row \in Activity(type) |-> row[2]]
<1>1. shares \in SUBSET DOMAIN share /\ fundings \in SUBSET DOMAIN funding /\ claims \in SUBSET DOMAIN claim
  BY DEF ActivityShares, ActivityFundings, ActivityClaims
<1>2. IsFiniteSet(DOMAIN claim)
  <2>1. DOMAIN claim = 1 .. Len(claim) /\ 1 \in Int /\ Len(claim) \in Int
    BY DEF RowsTyped
  <2> QED
    BY <2>1, FS_Interval
<1>3. IsFiniteSet(shares) /\ IsFiniteSet(fundings) /\ IsFiniteSet(claims)
  BY <1>1, <1>2, RowsFinite, FS_Subset
<1>4. IsFiniteSet(ids) /\ Cardinality(ids) \in Nat
  <2> HIDE DEF shares, fundings, claims
  <2>1. IsFiniteSet(shares \cup fundings)
    BY <1>3, FS_Union
  <2>2. IsFiniteSet(ids)
    BY <1>3, <2>1, FS_Union
  <2> QED
    BY <2>2, FS_CardinalityType
<1>5. ActivityTotal(type) = Cardinality(ids)
  <2>1. UNION {shares, fundings, claims} = ids
    OBVIOUS
  <2> QED
    BY <2>1, Zenon DEF ActivityTotal, UnionTotal
<1>6. \A row \in Activity(type) :
        \/ \E i \in shares : row = <<Shown(share[i]), i>>
        \/ \E i \in fundings : row = <<FundingType[funding[i].type] + 2, i>>
        \/ \E i \in claims : row = <<5, i>>
  BY DEF Activity
<1>7. shares \cap fundings = {} /\ shares \cap claims = {} /\ fundings \cap claims = {}
  BY DEF IdsDistinct
<1>8. idOf \in [Activity(type) -> ids]
  <2> HIDE DEF shares, fundings, claims
  <2> QED
    BY <1>6
<1>9. ASSUME NEW a \in Activity(type), NEW b \in Activity(type), a[2] = b[2]
      PROVE  a = b
  <2> HIDE DEF shares, fundings, claims
  <2>1. CASE \E i \in shares : a = <<Shown(share[i]), i>>
    <3>1. PICK i \in shares : a = <<Shown(share[i]), i>>
      BY <2>1
    <3>2. b[2] = i /\ i \notin fundings /\ i \notin claims
      BY <1>7, <1>9, <3>1
    <3>3. PICK j \in shares : b = <<Shown(share[j]), j>>
      BY <1>6, <3>2
    <3> QED
      BY <3>1, <3>2, <3>3
  <2>2. CASE \E i \in fundings : a = <<FundingType[funding[i].type] + 2, i>>
    <3>1. PICK i \in fundings : a = <<FundingType[funding[i].type] + 2, i>>
      BY <2>2
    <3>2. b[2] = i /\ i \notin shares /\ i \notin claims
      BY <1>7, <1>9, <3>1
    <3>3. PICK j \in fundings : b = <<FundingType[funding[j].type] + 2, j>>
      BY <1>6, <3>2
    <3> QED
      BY <3>1, <3>2, <3>3
  <2>3. CASE \E i \in claims : a = <<5, i>>
    <3>1. PICK i \in claims : a = <<5, i>>
      BY <2>3
    <3>2. b[2] = i /\ i \notin shares /\ i \notin fundings
      BY <1>7, <1>9, <3>1
    <3>3. PICK j \in claims : b = <<5, j>>
      BY <1>6, <3>2
    <3> QED
      BY <3>1, <3>2, <3>3
  <2> QED
    BY <1>6, <2>1, <2>2, <2>3
<1>10. idOf \in Injection(Activity(type), ids)
  <2> HIDE DEF ids
  <2> QED
    BY <1>8, <1>9 DEF Injection, IsInjective
<1> HIDE DEF ids, idOf
<1> QED
  BY <1>4, <1>5, <1>10, FS_Injection

\* Who holds shares of an outcome has transactions in it.
LEMMA HoldersCounted ==
  ASSUME RowsTyped, NEW o \in Outcome
  PROVE  LET total == GroupTotal(OfOutcome(o), [i \in OfOutcome(o) |-> share[i].user])
         IN  IsFiniteSet(Holders(o)) /\ total \in Nat /\ Cardinality(Holders(o)) <= total
<1> DEFINE traders == {share[i].user : i \in OfOutcome(o)}
<1>1. OfOutcome(o) \in SUBSET DOMAIN share
  BY DEF OfOutcome
<1>2. traders \in SUBSET Owner
  BY <1>1, RowsFinite DEF Share
<1>3. IsFiniteSet(traders)
  BY <1>2, OwnersFinite, FS_Subset
<1>4. Cardinality(traders) \in Nat
  BY <1>3, FS_CardinalityType
<1>5. ASSUME NEW u \in Holders(o) PROVE u \in traders
  <2>1. u \in Owner /\ SumOf(Ids(u, o, {"BUY"}), TokensOf) - SumOf(Ids(u, o, {"SELL"}), TokensOf) > 0
    BY DEF Holders, Holding
  <2>2. Ids(u, o, {"BUY"}) \in SUBSET DOMAIN share /\ Ids(u, o, {"SELL"}) \in SUBSET DOMAIN share
    BY DEF Ids
  <2>3. /\ SumOf(Ids(u, o, {"BUY"}), TokensOf) = Summed(Tokens, Ids(u, o, {"BUY"}))
        /\ Summed(Tokens, Ids(u, o, {"BUY"})) \in Nat
        /\ SumOf(Ids(u, o, {"SELL"}), TokensOf) \in Nat
    BY <2>2, SumsAre
  <2>4. Summed(Tokens, Ids(u, o, {"BUY"})) # 0
    BY <2>1, <2>3
  <2>5. Ids(u, o, {"BUY"}) # {}
    BY <2>4, SummedEmpty
  <2>6. PICK i \in Ids(u, o, {"BUY"}) : TRUE
    BY <2>5
  <2>7. i \in OfOutcome(o) /\ share[i].user = u
    BY <2>6 DEF Ids, OfOutcome
  <2> QED
    BY <2>7
<1>6. Holders(o) \in SUBSET traders
  BY <1>5
<1>7. GroupTotal(OfOutcome(o), [i \in OfOutcome(o) |-> share[i].user]) = Cardinality(traders)
  <2>1. {[i \in OfOutcome(o) |-> share[i].user][r] : r \in OfOutcome(o)} = traders
    OBVIOUS
  <2> QED
    BY <2>1, Zenon DEF GroupTotal
<1> HIDE DEF traders
<1> QED
  BY <1>3, <1>4, <1>6, <1>7, FS_Subset

LEMMA PagesOfRows == RowsTyped => PagesReachEverything
<1> SUFFICES ASSUME RowsTyped PROVE PagesReachEverything
  OBVIOUS
<1>1. \A type \in 0 .. 6 : IdsDistinct(type) => Everything(Activity(type), ActivityTotal(type))
  BY ActivityCounted, EverythingReached
<1>2. ASSUME NEW o \in Outcome
      PROVE  Everything(Holders(o), GroupTotal(OfOutcome(o), [i \in OfOutcome(o) |-> share[i].user]))
  BY HoldersCounted, EverythingReached
<1> QED
  BY <1>1, <1>2 DEF PagesReachEverything

-----------------------------------------------------------------------------
(* The list of sets and its reader *)

Reader == [at : {"reading", "done"}, query : Request, page : Nat \ {0},
           read : SUBSET {"items", "total"}, total : Nat,
           seen : SUBSET SetId, kept : SUBSET SetId, fell : BOOLEAN, short : BOOLEAN]

\* The order of the list, and what comes before a set in it
Earlier(q, a, b) ==
  \/ Rank(q, sets[a]) < Rank(q, sets[b])
  \/ Rank(q, sets[a]) = Rank(q, sets[b]) /\ a < b

Sooner(q, id) == {a \in Found(q) : Earlier(q, a, id)}

\* The pages whose items a reader has read
PagesRead(r) == IF "items" \in r.read THEN r.page ELSE r.page - 1

\* While nothing has fallen back and no count was short, a set that has kept its place is
\* in the list, and the reader has seen it if its place is on a page already read.
PlacesKept(r) ==
  ~ r.fell /\ ~ r.short =>
    IF r.at = "done" THEN r.kept \subseteq r.seen
    ELSE \A id \in r.kept :
           /\ id \in Found(r.query)
           /\ Cardinality(Sooner(r.query, id)) < PagesRead(r) * Limit(r.query.limit)
                => id \in r.seen

ListsInv ==
  /\ sets \in [SetId -> ListedSet]
  /\ reading = NoReader \/ (reading \in Reader /\ PlacesKept(reading))

LEMMA QueryTyped ==
  ASSUME NEW q \in Request
  PROVE  q \in Query /\ Limit(q.limit) \in Nat \ {0}
<1>1. q \in Query
  BY SetListsAssumption
<1>2. q.limit \in Nat
  BY <1>1 DEF Query
<1> QED
  BY <1>1, <1>2, LimitIs

LEMMA RankTyped == ASSUME NEW q, NEW row PROVE Rank(q, row) \in 0 .. 6
<1>1. CASE q.admin
  <2>1. Rank(q, row) = 0
    BY <1>1, Zenon DEF Rank
  <2> QED
    BY <2>1
<1>2. CASE ~ q.admin
  <2> DEFINE ranked == CASE row.setStatus = "ACTIVE" -> IF row.ended THEN 3 ELSE 1
                         [] row.setStatus = "FUNDING" -> 2
                         [] row.setStatus = "VOTING" -> 4
                         [] row.setStatus = "FINALIZED" -> 5
                         [] OTHER -> 6
  <2>1. Rank(q, row) = ranked
    BY <1>2 DEF Rank
  <2> QED
    BY <2>1
<1> QED
  BY <1>1, <1>2

LEMMA FoundFinite ==
  ASSUME NEW q
  PROVE  /\ Found(q) \in SUBSET SetId /\ IsFiniteSet(Found(q)) /\ Cardinality(Found(q)) \in Nat
<1>1. Found(q) \in SUBSET SetId
  BY DEF Found
<1> QED
  BY <1>1, SetListsAssumption, FS_Subset, FS_CardinalityType

LEMMA SoonerFinite ==
  ASSUME NEW q, NEW id
  PROVE  IsFiniteSet(Sooner(q, id)) /\ Cardinality(Sooner(q, id)) \in Nat
<1>1. Sooner(q, id) \in SUBSET Found(q)
  BY DEF Sooner
<1> QED
  BY <1>1, FoundFinite, FS_Subset, FS_CardinalityType

\* Each set is in the list at the place behind those before it.
LEMMA SetListIs ==
  ASSUME NEW q
  PROVE  /\ SetList(q) \in Seq(Found(q))
         /\ Len(SetList(q)) = Cardinality(Found(q))
         /\ \A id \in Found(q) :
              /\ Cardinality(Sooner(q, id)) + 1 \in 1 .. Len(SetList(q))
              /\ SetList(q)[Cardinality(Sooner(q, id)) + 1] = id
<1> DEFINE S == Found(q)
           R == {p \in S \X S : Earlier(q, p[1], p[2])}
           n == Cardinality(S)
           place(id) == Cardinality(Sooner(q, id))
<1>1. IsFiniteSet(S) /\ n \in Nat /\ S \subseteq Nat
  BY FoundFinite, SetListsAssumption
<1>2. Orders(R, S)
  <2>1. \A a \in S : Rank(q, sets[a]) \in Int /\ a \in Int
    BY <1>1, RankTyped
  <2> QED
    BY <2>1 DEF Orders, Earlier
<1>3. \A id \in S : Ahead(R, S, id) = Sooner(q, id)
  BY DEF Ahead, Sooner
<1>4. /\ \A a \in S : place(a) \in 0 .. n - 1
      /\ \A a, b \in S : place(a) = place(b) => a = b
  <2> HIDE DEF R, S
  <2> QED
    BY <1>1, <1>2, <1>3, PlacesDiffer
<1>5. ASSUME NEW i \in 1 .. n PROVE \E a \in S : place(a) = i - 1
  <2> HIDE DEF R, S
  <2>1. PICK a \in S : Cardinality(Ahead(R, S, a)) = i - 1
    BY <1>1, <1>2, PlacesTaken
  <2> QED
    BY <1>3, <2>1
<1>6. SetList(q) = [i \in 1 .. n |-> CHOOSE a \in S : place(a) = i - 1]
  BY Zenon DEF SetList, Ordered, Sooner, Earlier
<1>7. \A i \in 1 .. n : (CHOOSE a \in S : place(a) = i - 1) \in S
  <2> HIDE DEF S
  <2> QED
    BY <1>5, Zenon
<1>8. SetList(q) \in [1 .. n -> S]
  BY <1>6, <1>7
<1>9. SetList(q) \in Seq(S) /\ Len(SetList(q)) = n
  BY <1>1, <1>8
<1>10. ASSUME NEW id \in S
       PROVE  place(id) + 1 \in 1 .. n /\ SetList(q)[place(id) + 1] = id
  <2>1. place(id) + 1 \in 1 .. n /\ (place(id) + 1) - 1 = place(id)
    BY <1>1, <1>4
  <2>2. SetList(q)[place(id) + 1] = CHOOSE a \in S : place(a) = place(id)
    BY <1>6, <2>1
  <2>3. (CHOOSE a \in S : place(a) = place(id)) = id
    <3> HIDE DEF S, place
    <3> QED
      BY <1>4, Zenon
  <2> QED
    BY <2>1, <2>2, <2>3
<1> QED
  BY <1>9, <1>10

LEMMA ListsInitially == ListInit => ListsInv
BY SetListsAssumption DEF ListInit, ListsInv

\* What is said of a reader depends on the sets only.
LEMMA SameSets ==
  ASSUME sets' = sets, NEW r
  PROVE  /\ PlacesKept(r)' = PlacesKept(r)
         /\ Found(r.query)' = Found(r.query)
<1>1. \A q : Found(q)' = Found(q) /\ \A id : Sooner(q, id)' = Sooner(q, id)
  BY DEF Found, Sooner, Earlier
<1> QED
  BY <1>1 DEF PlacesKept, PagesRead

LEMMA AskInv ==
  ASSUME ListsInv, NEW q \in Request, Ask(q)
  PROVE  ListsInv'
<1> DEFINE r == [at |-> "reading", query |-> q, page |-> 1, read |-> {}, total |-> 0,
                 seen |-> {}, kept |-> Found(q), fell |-> FALSE, short |-> FALSE]
<1>1. reading' = r /\ sets' = sets
  BY DEF Ask
<1>2. Limit(q.limit) \in Nat
  BY QueryTyped
<1>3. r \in Reader
  BY FoundFinite DEF Reader
<1>4. PlacesKept(r)
  <2>1. /\ r.at = "reading" /\ r.query = q /\ r.kept = Found(q) /\ PagesRead(r) = 0
    BY DEF PagesRead
  <2>2. \A id \in Found(q) : ~ (Cardinality(Sooner(q, id)) < 0 * Limit(q.limit))
    BY <1>2, SoonerFinite
  <2> HIDE DEF r
  <2> QED
    BY <2>1, <2>2 DEF PlacesKept
<1> HIDE DEF r
<1> PICK t : t = r
  OBVIOUS
<1>5. PlacesKept(t)' = PlacesKept(t)
  BY <1>1, SameSets
<1> QED
  BY <1>1, <1>3, <1>4, <1>5 DEF ListsInv

\* With both queries answered the reader turns the page, or is done and has seen all.
LEMMA TurnedKeeps ==
  ASSUME NEW r \in Reader, r.at = "reading", PlacesKept(r),
         r.read = {"items", "total"} => r.short \/ Cardinality(Found(r.query)) <= r.total
  PROVE  Turned(r) \in Reader /\ PlacesKept(Turned(r))
<1> DEFINE q == r.query
           n == Limit(q.limit)
           more == r.page + 1 \in Pages(r.total, q.limit)
<1>1. /\ q \in Request /\ r.page \in Nat \ {0} /\ r.total \in Nat
      /\ r.fell \in BOOLEAN /\ r.short \in BOOLEAN
  BY DEF Reader
<1>2. n \in Nat \ {0}
  BY <1>1, QueryTyped
<1>3. CASE r.read # {"items", "total"}
  <2>1. Turned(r) = r
    BY <1>3, Zenon DEF Turned
  <2> QED
    BY <2>1
<1>4. CASE r.read = {"items", "total"} /\ more
  <2> DEFINE t == [r EXCEPT !.page = r.page + 1, !.read = {}, !.total = 0]
  <2>1. Turned(r) = t
    <3>1. Turned(r) = [r EXCEPT !.page = @ + 1, !.read = {}, !.total = 0]
      BY <1>4, Zenon DEF Turned
    <3> QED
      BY <3>1
  <2>2. /\ t \in Reader /\ t.at = "reading" /\ t.query = q /\ t.page = r.page + 1 /\ t.read = {}
        /\ t.seen = r.seen /\ t.kept = r.kept /\ t.fell = r.fell /\ t.short = r.short
    <3>1. r.page + 1 \in Nat \ {0}
      BY <1>1
    <3> PICK p : p = r.page + 1
      OBVIOUS
    <3>2. t = [r EXCEPT !.page = p, !.read = {}, !.total = 0]
      BY Zenon
    <3> HIDE DEF t, more, n
    <3> QED
      BY <3>1, <3>2 DEF Reader
  <2> HIDE DEF t
  <2>3. PagesRead(t) = r.page /\ PagesRead(r) = r.page
    BY <1>1, <1>4, <2>2 DEF PagesRead
  <2>4. PlacesKept(t)
    BY <2>2, <2>3 DEF PlacesKept
  <2> QED
    BY <2>1, <2>2, <2>4
<1>5. CASE r.read = {"items", "total"} /\ ~ more
  <2> DEFINE t == [r EXCEPT !.at = "done"]
  <2>1. Turned(r) = t
    BY <1>5, Zenon DEF Turned
  <2>2. /\ t \in Reader /\ t.at = "done"
        /\ t.seen = r.seen /\ t.kept = r.kept /\ t.fell = r.fell /\ t.short = r.short
    BY DEF Reader
  <2> HIDE DEF t
  <2>3. r.total <= r.page * n
    <3>1. r.page + 1 \notin 1 .. ((r.total + n - 1) \div n)
      BY <1>5, Zenon DEF Pages
    <3> HIDE DEF n
    <3> QED
      BY <1>1, <1>2, <3>1, PastThePages
  <2>4. ASSUME ~ r.fell, ~ r.short, NEW id \in r.kept PROVE id \in r.seen
    <3> DEFINE place == Cardinality(Sooner(q, id))
    <3>1. id \in Found(q) /\ (place < PagesRead(r) * n => id \in r.seen)
      BY <2>4 DEF PlacesKept
    <3>2. place + 1 \in 1 .. Cardinality(Found(q)) /\ place \in Nat
          /\ Cardinality(Found(q)) \in Nat
      BY <3>1, SetListIs, SoonerFinite, FoundFinite
    <3>3. r.page * n \in Nat /\ PagesRead(r) = r.page
      BY <1>1, <1>2, <1>5 DEF PagesRead
    <3>4. Cardinality(Found(q)) <= r.total
      BY <1>5, <2>4
    <3>5. place < r.page * n
      <4> HIDE DEF place, n, q
      <4> QED
        BY <1>1, <2>3, <3>2, <3>3, <3>4
    <3> QED
      BY <3>1, <3>3, <3>5
  <2>5. PlacesKept(t)
    BY <2>2, <2>4 DEF PlacesKept
  <2> QED
    BY <2>1, <2>2, <2>5
<1> QED
  BY <1>3, <1>4, <1>5

LEMMA ReadItemsInv ==
  ASSUME ListsInv, ReadItems
  PROVE  ListsInv'
<1> PICK r : r = reading
  OBVIOUS
<1> DEFINE q == r.query
           n == Limit(q.limit)
           first == (r.page - 1) * n
           found == ToSet(PageOf(SetList(q), r.page, q.limit))
           low == "total" \in r.read /\ r.total < Len(SetList(q))
           w == WithItems(r, SetList(q))
<1>1. /\ r \in Reader /\ r.at = "reading" /\ "items" \notin r.read /\ sets' = sets
      /\ reading' = Turned(w) /\ PlacesKept(r)
  BY DEF ReadItems, ListsInv, NoReader
<1>2. /\ q \in Request /\ r.page \in Nat \ {0} /\ r.seen \in SUBSET SetId /\ r.total \in Nat
      /\ r.kept \in SUBSET SetId /\ r.fell \in BOOLEAN /\ r.short \in BOOLEAN
      /\ r.read \in SUBSET {"items", "total"}
  BY <1>1 DEF Reader
<1>3. n \in Nat \ {0} /\ q.limit \in Nat
  BY <1>2, QueryTyped DEF Query
<1>4. first \in Nat
  BY <1>2, <1>3
<1>5. /\ SetList(q) \in Seq(Found(q)) /\ Found(q) \in SUBSET SetId
      /\ Len(SetList(q)) = Cardinality(Found(q)) /\ Cardinality(Found(q)) \in Nat
  BY SetListIs, FoundFinite
<1>6. /\ found \subseteq SetId
      /\ \A i \in 1 .. Len(SetList(q)) : first < i /\ i <= r.page * n => SetList(q)[i] \in found
  <2>1. /\ PageOf(SetList(q), r.page, q.limit) \in Seq(Found(q))
        /\ \A i \in 1 .. Len(SetList(q)) : first < i /\ i <= r.page * n => SetList(q)[i] \in found
    <3> HIDE DEF first
    <3>1. first = (r.page - 1) * n
      BY DEF first
    <3> HIDE DEF n, q
    <3>2. n = Limit(q.limit)
      BY DEF n
    <3> QED
      BY <1>2, <1>3, <1>4, <1>5, <3>1, <3>2, PageHolds
  <2>2. found \subseteq Found(q)
    BY <2>1 DEF ToSet
  <2> QED
    BY <1>5, <2>1, <2>2
<1>7. w = [r EXCEPT !.read = r.read \cup {"items"}, !.seen = r.seen \cup found,
                    !.short = r.short \/ low]
  BY DEF WithItems
<1>8. low \in BOOLEAN
  OBVIOUS
<1> HIDE DEF found, low, w
<1>9. /\ w \in Reader /\ w.at = "reading" /\ w.query = q /\ w.total = r.total
      /\ w.page = r.page /\ w.read = r.read \cup {"items"} /\ w.seen = r.seen \cup found
      /\ w.kept = r.kept /\ w.fell = r.fell /\ w.short = (r.short \/ low)
  <2>1. r.short \/ low \in BOOLEAN
    BY <1>2, <1>8, Zenon
  <2> PICK short : short = (r.short \/ low)
    OBVIOUS
  <2>2. w = [r EXCEPT !.read = r.read \cup {"items"}, !.seen = r.seen \cup found, !.short = short]
    BY <1>7, Zenon
  <2>3. short \in BOOLEAN
    BY <2>1, Zenon
  <2>4. /\ w \in Reader /\ w.at = "reading" /\ w.query = q /\ w.total = r.total
        /\ w.page = r.page /\ w.read = r.read \cup {"items"} /\ w.seen = r.seen \cup found
        /\ w.kept = r.kept /\ w.fell = r.fell /\ w.short = short
    <3> HIDE DEF q, n
    <3> QED
      BY <1>1, <1>2, <1>6, <2>2, <2>3 DEF Reader, q
  <2> QED
    BY <2>4, Zenon
<1>10. ASSUME ~ r.fell, ~ r.short, NEW id \in r.kept
       PROVE  /\ id \in Found(q)
              /\ Cardinality(Sooner(q, id)) < r.page * n => id \in r.seen \cup found
  <2> DEFINE place == Cardinality(Sooner(q, id))
  <2>1. id \in Found(q) /\ (place < first => id \in r.seen)
    BY <1>1, <1>10 DEF PlacesKept, PagesRead
  <2>2. place + 1 \in 1 .. Len(SetList(q)) /\ SetList(q)[place + 1] = id
    BY <2>1, SetListIs
  <2>3. place \in Nat /\ r.page * n \in Nat
    BY <1>2, <1>3, SoonerFinite
  <2>4. ASSUME place < r.page * n, ~ (place < first) PROVE id \in found
    <3> HIDE DEF first, n, place, q
    <3>1. first < place + 1 /\ place + 1 <= r.page * n
      BY <1>4, <2>3, <2>4
    <3> QED
      BY <1>6, <2>2, <3>1
  <2> QED
    BY <2>1, <2>4
<1>11. PlacesKept(w)
  <2>1. PagesRead(w) = r.page
    BY <1>9 DEF PagesRead
  <2>2. ~ w.short => ~ r.short
    BY <1>9, Zenon
  <2> QED
    BY <1>9, <1>10, <2>1, <2>2 DEF PlacesKept
<1>12. w.read = {"items", "total"} => w.short \/ Cardinality(Found(w.query)) <= w.total
  <2> SUFFICES ASSUME w.read = {"items", "total"}, ~ w.short
               PROVE  Cardinality(Found(q)) <= r.total
    BY <1>9
  <2>1. "total" \in r.read /\ ~ low
    BY <1>9
  <2>2. ~ (r.total < Len(SetList(q)))
    BY <2>1 DEF low
  <2> QED
    BY <1>2, <1>5, <2>2
<1>13. Turned(w) \in Reader /\ PlacesKept(Turned(w))
  BY <1>9, <1>11, <1>12, TurnedKeeps
<1> PICK t : t = Turned(w)
  OBVIOUS
<1>14. PlacesKept(t)' = PlacesKept(t)
  BY <1>1, SameSets
<1> QED
  BY <1>1, <1>13, <1>14 DEF ListsInv

LEMMA ReadTotalInv ==
  ASSUME ListsInv, ReadTotal
  PROVE  ListsInv'
<1> PICK r : r = reading
  OBVIOUS
<1> DEFINE q == r.query
           total == GroupTotal(Found(q), [id \in SetId |-> id])
           w == WithTotal(r, total)
<1>1. /\ r \in Reader /\ r.at = "reading" /\ sets' = sets
      /\ reading' = Turned(w) /\ PlacesKept(r)
  BY DEF ReadTotal, ListsInv, NoReader
<1>2. total = Cardinality(Found(q)) /\ total \in Nat
  <2>1. {[id \in SetId |-> id][i] : i \in Found(q)} = Found(q)
    BY FoundFinite
  <2>2. total = Cardinality({[id \in SetId |-> id][i] : i \in Found(q)})
    BY Zenon DEF GroupTotal
  <2> QED
    BY <2>1, <2>2, FoundFinite, Zenon
<1> HIDE DEF total
<1>3. /\ w \in Reader /\ w.at = "reading" /\ w.query = q /\ w.total = total
      /\ w.page = r.page /\ w.read = r.read \cup {"total"} /\ w.seen = r.seen
      /\ w.kept = r.kept /\ w.fell = r.fell /\ w.short = r.short
  BY <1>1, <1>2 DEF WithTotal, Reader
<1> HIDE DEF w
<1>4. PlacesKept(w)
  <2>1. PagesRead(w) = PagesRead(r)
    BY <1>3 DEF PagesRead
  <2> QED
    BY <1>1, <1>3, <2>1 DEF PlacesKept
<1>5. Cardinality(Found(w.query)) <= w.total
  BY <1>2, <1>3
<1>6. Turned(w) \in Reader /\ PlacesKept(Turned(w))
  BY <1>3, <1>4, <1>5, TurnedKeeps
<1> PICK t : t = Turned(w)
  OBVIOUS
<1>7. PlacesKept(t)' = PlacesKept(t)
  BY <1>1, SameSets
<1> QED
  BY <1>1, <1>6, <1>7 DEF ListsInv

\* A step of a set moves those that keep their place only backwards.
LEMMA BecomesInv ==
  ASSUME ListsInv, NEW id \in SetId, NEW row \in ListedSet, Becomes(id, row)
  PROVE  ListsInv'
<1>1. /\ sets' = [sets EXCEPT ![id] = row] /\ reading' = Noted(id, row)
      /\ sets \in [SetId -> ListedSet]
  BY DEF Becomes, ListsInv
<1>2. sets' \in [SetId -> ListedSet]
  BY <1>1
<1>3. CASE reading.at # "reading"
  <2>1. reading' = reading
    BY <1>1, <1>3 DEF Noted
  <2>2. ASSUME reading \in Reader, PlacesKept(reading)
        PROVE  reading' \in Reader /\ PlacesKept(reading)'
    <3>1. reading.at = "done"
      BY <1>3, <2>2 DEF Reader
    <3>2. ~ reading.fell /\ ~ reading.short => reading.kept \subseteq reading.seen
      BY <2>2, <3>1 DEF PlacesKept
    <3> QED
      BY <2>1, <2>2, <3>1, <3>2 DEF PlacesKept
  <2> QED
    BY <1>2, <2>1, <2>2 DEF ListsInv
<1>4. CASE reading.at = "reading"
  <2> PICK q : q = reading.query
    OBVIOUS
  <2> DEFINE n == Limit(q.limit)
             before == Listed(q, id, sets[id])
             after == Listed(q, id, row)
             was == Rank(q, sets[id])
             is == Rank(q, row)
             back == is - was
  <2>1. /\ reading \in Reader /\ PlacesKept(reading)
        /\ reading' = [reading EXCEPT
             !.kept = IF before /\ after /\ back = 0 THEN @ ELSE @ \ {id},
             !.fell = @ \/ (before /\ (~ after \/ back > 0))]
    <3>1. reading \in Reader /\ PlacesKept(reading)
      BY <1>4 DEF ListsInv, NoReader
    <3>2. ~ (reading.at # "reading")
      BY <1>4
    <3> QED
      BY <1>1, <3>1, <3>2, Zenon DEF Noted
  <2>2. /\ q \in Request /\ reading.page \in Nat \ {0} /\ reading.seen \in SUBSET SetId
        /\ reading.kept \in SUBSET SetId /\ reading.fell \in BOOLEAN
        /\ reading.short \in BOOLEAN
    BY <2>1 DEF Reader
  <2>3. /\ reading' \in Reader /\ reading'.at = reading.at /\ reading'.query = q
        /\ reading'.page = reading.page /\ reading'.seen = reading.seen
        /\ reading'.read = reading.read /\ reading'.short = reading.short
        /\ reading'.kept = (IF before /\ after /\ back = 0 THEN reading.kept ELSE reading.kept \ {id})
        /\ reading'.fell = (reading.fell \/ (before /\ (~ after \/ back > 0)))
    <3> HIDE DEF before, after, back
    <3> QED
      BY <2>1 DEF Reader
  <2>4. was \in Int /\ is \in Int /\ \A a \in SetId : Rank(q, sets[a]) \in Int /\ a \in Int
    BY RankTyped, SetListsAssumption
  <2>5. /\ sets'[id] = row
        /\ \A a \in SetId \ {id} : sets'[a] = sets[a]
    BY <1>1
  <2>6. /\ id \in Found(q) <=> before
        /\ id \in Found(q)' <=> after
        /\ \A a \in SetId \ {id} : a \in Found(q)' <=> a \in Found(q)
    BY <2>5 DEF Found
  <2>7. ASSUME ~ reading'.fell, ~ reading'.short, NEW a \in reading'.kept
        PROVE  /\ a \in reading.kept /\ ~ reading.fell /\ ~ reading.short
               /\ a \in Found(q) /\ a \in Found(q)'
               /\ Sooner(q, a) \subseteq Sooner(q, a)'
    <3>1. /\ a \in reading.kept /\ ~ reading.fell /\ ~ reading.short /\ a \in SetId
          /\ before => after /\ ~ (back > 0)
          /\ a = id => before /\ after /\ back = 0
      <4> HIDE DEF before, after, back
      <4> QED
        BY <2>2, <2>3, <2>7
    <3>2. a \in Found(q)
      BY <1>4, <2>1, <3>1 DEF PlacesKept
    <3>3. a \in Found(q)'
      <4> HIDE DEF before, after, back
      <4> QED
        BY <2>6, <3>1, <3>2
    <3>4. before => is <= was
      <4> HIDE DEF before, was, is
      <4> QED
        BY <2>4, <3>1
    <3>5. a = id => is = was
      <4> HIDE DEF before, was, is
      <4> QED
        BY <2>4, <3>1
    <3>6. Rank(q, sets[a])' = Rank(q, sets[a])
      <4>1. CASE a = id
        BY <2>5, <3>5, <4>1
      <4>2. CASE a # id
        <5>1. sets'[a] = sets[a]
          BY <2>5, <3>1, <4>2
        <5> QED
          BY <2>3, <5>1
      <4> QED
        BY <4>1, <4>2
    <3>7. ASSUME NEW b \in Sooner(q, a) PROVE b \in Sooner(q, a)'
      <4>1. b \in Found(q) /\ b \in SetId
            /\ (Rank(q, sets[b]) < Rank(q, sets[a]) \/ (Rank(q, sets[b]) = Rank(q, sets[a]) /\ b < a))
        BY FoundFinite DEF Sooner, Earlier
      <4>2. b \in Found(q)' /\ Rank(q, sets[b])' <= Rank(q, sets[b]) /\ Rank(q, sets[b])' \in Int
        <5>1. CASE b = id
          <6>1. before /\ after
            <7> HIDE DEF before, after, back
            <7> QED
              BY <2>6, <3>1, <4>1, <5>1
          <6>2. Rank(q, sets[b])' = is /\ Rank(q, sets[b]) = was
            BY <2>5, <5>1
          <6> HIDE DEF before, after, was, is
          <6> QED
            BY <2>4, <2>6, <3>4, <5>1, <6>1, <6>2
        <5>2. CASE b # id
          <6>1. sets'[b] = sets[b]
            BY <2>5, <4>1, <5>2
          <6>2. Rank(q, sets[b])' = Rank(q, sets[b])
            BY <6>1
          <6> QED
            BY <2>4, <2>6, <4>1, <5>2, <6>2
        <5> QED
          BY <5>1, <5>2
      <4>3. Rank(q, sets[b]) \in Int /\ Rank(q, sets[a]) \in Int
        BY <2>4, <3>1, <4>1
      <4>4. Rank(q, sets[b])' < Rank(q, sets[a])' \/ (Rank(q, sets[b])' = Rank(q, sets[a])' /\ b < a)
        BY <3>6, <4>1, <4>2, <4>3
      <4> QED
        BY <4>2, <4>4 DEF Sooner, Earlier
    <3> QED
      BY <3>1, <3>2, <3>3, <3>7
  <2> DEFINE pages == PagesRead(reading)
  <2>8. PagesRead(reading)' = pages /\ pages \in Nat /\ n \in Nat
    BY <2>2, <2>3, QueryTyped DEF PagesRead
  <2>9. ASSUME ~ reading'.fell, ~ reading'.short, NEW a \in reading'.kept,
               Cardinality(Sooner(q, a)') < pages * n
        PROVE  a \in reading.seen
    <3>1. Sooner(q, a) \subseteq Sooner(q, a)' /\ IsFiniteSet(Sooner(q, a)')
      <4>1. Sooner(q, a)' \in SUBSET Found(q)' /\ Found(q)' \in SUBSET SetId
        BY DEF Sooner, Found
      <4> QED
        BY <2>7, <2>9, <4>1, SetListsAssumption, FS_Subset
    <3>2. /\ Cardinality(Sooner(q, a)) <= Cardinality(Sooner(q, a)')
          /\ Cardinality(Sooner(q, a)) \in Nat /\ Cardinality(Sooner(q, a)') \in Nat
      BY <3>1, FS_Subset, FS_CardinalityType
    <3>3. pages * n \in Nat
      BY <2>8
    <3>4. Cardinality(Sooner(q, a)) < pages * n
      <4> HIDE DEF n, pages
      <4> QED
        BY <2>9, <3>2, <3>3
    <3> QED
      BY <1>4, <2>1, <2>7, <2>9, <3>4 DEF PlacesKept
  <2>10. PlacesKept(reading)'
    BY <1>4, <2>3, <2>7, <2>8, <2>9 DEF PlacesKept
  <2> QED
    BY <1>2, <2>3, <2>10 DEF ListsInv
<1> QED
  BY <1>3, <1>4

LEMMA ListsStep == ListsInv /\ ListNext => ListsInv'
<1> SUFFICES ASSUME ListsInv, ListNext PROVE ListsInv'
  OBVIOUS
<1>1. ASSUME NEW q \in Request, Ask(q) PROVE ListsInv'
  BY <1>1, AskInv
<1>2. ASSUME NEW id \in SetId,
             \/ \E status \in SetStatus : Proceed(id, status)
             \/ Fund(id) \/ Ends(id) \/ DeleteSet(id)
             \/ \E hide \in BOOLEAN : Hide(id, hide)
      PROVE  ListsInv'
  <2>1. sets[id] \in ListedSet
    BY DEF ListsInv
  <2>2. /\ \A status \in SetStatus : [sets[id] EXCEPT !.setStatus = status] \in ListedSet
        /\ \A hide \in BOOLEAN : [sets[id] EXCEPT !.hide = hide] \in ListedSet
        /\ [sets[id] EXCEPT !.funded = TRUE] \in ListedSet
        /\ [sets[id] EXCEPT !.ended = TRUE] \in ListedSet
        /\ [sets[id] EXCEPT !.deleted = TRUE] \in ListedSet
    BY <2>1 DEF ListedSet
  <2>3. \E row \in ListedSet : Becomes(id, row)
    BY <1>2, <2>2 DEF Proceed, Fund, Ends, DeleteSet, Hide
  <2> QED
    BY <2>3, BecomesInv
<1> QED
  BY <1>1, <1>2, ReadItemsInv, ReadTotalInv DEF ListNext

\* The reader's history stays true while the sets go on with their lives.
THEOREM ListsCorrect == Spec => []ListsInv
<1>1. Init => ListsInv
  BY ListsInitially DEF Init
<1>2. ListsInv /\ [Next]_vars => ListsInv'
  <2> SUFFICES ASSUME ListsInv, [Next]_vars PROVE ListsInv'
    OBVIOUS
  <2>1. CASE ListNext
    BY <2>1, ListsStep
  <2>2. CASE UNCHANGED listVars
    <3>1. sets' = sets /\ reading' = reading
      BY <2>2 DEF listVars
    <3> PICK r : r = reading
      OBVIOUS
    <3>2. PlacesKept(r)' = PlacesKept(r)
      BY <3>1, SameSets
    <3> QED
      BY <3>1, <3>2 DEF ListsInv
  <2> QED
    BY <2>1, <2>2 DEF Next, vars
<1> QED
  BY <1>1, <1>2, PTL DEF Spec

LEMMA ListsAreComplete == RowsTyped /\ ListsInv => ListsComplete
<1> SUFFICES ASSUME RowsTyped, ListsInv PROVE ListsComplete
  OBVIOUS
<1>1. ReaderMissesNothing
  <2> SUFFICES ASSUME reading.at = "done", ~ reading.fell, ~ reading.short
               PROVE  reading.kept \subseteq reading.seen
    BY DEF ReaderMissesNothing
  <2>1. reading # NoReader
    BY DEF NoReader
  <2>2. PlacesKept(reading)
    BY <2>1, Zenon DEF ListsInv
  <2> QED
    BY <2>2 DEF PlacesKept
<1>2. ListedIsOpened
  BY DEF ListedIsOpened, Found, Listed, Opened
<1> QED
  BY <1>1, <1>2, PagesOfRows DEF ListsComplete

\* The pages that a total announces hold every item of the activity and of the holders,
\* a reader who follows the totals misses no set that kept its place, unless a set fell
\* back or joined between a count and its page, and what is listed can be opened, for
\* every number of rows, sets and requests (sql-utils.ts:77-126, 174-247,
\* prediction-set.model.ts:1198-1236, prediction-set.service.ts:434-460).
THEOREM ListsReadWhole == Spec => []ListsComplete
BY ListsAreComplete, TransactionsTyped, ListsCorrect, PTL
=============================================================================
