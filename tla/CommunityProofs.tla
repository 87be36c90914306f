--------------------------- MODULE CommunityProofs ---------------------------
(***************************************************************************)
(* Theorems about Community, for any users, posts and number of goroutines. *)
(***************************************************************************)
EXTENDS Community, FiniteSetTheorems, TLAPS

(***************************************************************************)
(* Type correctness.  A comment's goroutine increments a post that exists, *)
(* because it has read it and posts are never deleted.                     *)
(***************************************************************************)
CommentsHavePosts ==
  \A h \in Handlers : inflight[h].op = "comment" => posts[inflight[h].post] # NoRow

TypeInv == TypeOK /\ CommentsHavePosts

\* A counter that is incremented remains a counter.
LEMMA CountersIncrement ==
  ASSUME NEW r \in Counters
  PROVE  /\ [r EXCEPT !.likes = @ + 1] \in Counters
         /\ [r EXCEPT !.comments = @ + 1] \in Counters
         /\ [r EXCEPT !.likes = @ + 1].likes = r.likes + 1
         /\ [r EXCEPT !.likes = @ + 1].comments = r.comments
         /\ [r EXCEPT !.comments = @ + 1].likes = r.likes
         /\ [r EXCEPT !.comments = @ + 1].comments = r.comments + 1
  BY DEF Counters

\* What each kind of request in flight carries.
LEMMA RequestTypes ==
  ASSUME TypeInv, NEW h \in Handlers
  PROVE  /\ inflight[h].op = "comment" =>
              /\ inflight[h].user \in Users /\ inflight[h].post \in Posts
              /\ inflight[h].seen \in Counters
              /\ posts[inflight[h].post] \in Counters
         /\ inflight[h].op = "delete" =>
              inflight[h].user \in Users /\ inflight[h].id \in CommentIds
         /\ inflight[h].op = "unfavorite" =>
              inflight[h].user \in Users /\ inflight[h].id \in FavoriteIds
  BY DEF TypeInv, TypeOK, CommentsHavePosts, Requests, Idle

\* Every step of the program preserves TypeInv.
LEMMA TypeInvStep == TypeInv /\ [Next]_vars => TypeInv'
<1> USE CommunityAssumption
<1> SUFFICES ASSUME TypeInv, [Next]_vars PROVE TypeInv'
  OBVIOUS
<1> USE DEF TypeInv, TypeOK, CommentsHavePosts, Requests, Idle, tables
<1>1. ASSUME NEW p \in Posts, CreatePost(p)
      PROVE  TypeInv'
  BY <1>1 DEF CreatePost, Counters
<1>2. ASSUME NEW p \in Posts, Like(p)
      PROVE  TypeInv'
  <2>1. [posts[p] EXCEPT !.likes = @ + 1] \in Counters
    <3>1. posts[p] \in Counters
      BY <1>2 DEF Like
    <3> QED BY <3>1, CountersIncrement
  <2>2. posts' = [posts EXCEPT ![p] = [posts[p] EXCEPT !.likes = @ + 1]]
    BY <1>2 DEF Like
  <2>3. posts' \in [Posts -> Counters \cup {NoRow}]
    BY <2>1, <2>2
  <2>4. CommentsHavePosts'
    <3>1. posts'[p] # NoRow /\ \A q \in Posts \ {p} : posts'[q] = posts[q]
      BY <2>1, <2>2
    <3>2. inflight' = inflight
      BY <1>2 DEF Like
    <3> QED BY <3>1, <3>2, RequestTypes
  <2>5. liked' \in [Posts -> Nat]
    BY <1>2 DEF Like
  <2> QED BY <1>2, <2>3, <2>4, <2>5 DEF Like
<1>3. ASSUME NEW h \in Handlers, NEW u \in Users, NEW p \in Posts, CommentCheck(h, u, p)
      PROVE  TypeInv'
  BY <1>3 DEF CommentCheck, Begin
<1>4. ASSUME NEW h \in Handlers, CommentWrite(h)
      PROVE  TypeInv'
  <2>0. inflight[h].user \in Users /\ inflight[h].post \in Posts
        /\ posts[inflight[h].post] \in Counters
    BY <1>4, RequestTypes DEF CommentWrite
  <2>1. /\ lastComment + 1 \in CommentIds
        /\ NewComment(inflight[h]) \in Comments
        /\ Incremented(posts[inflight[h].post], inflight[h].seen) \in Counters
    <3>1. lastComment + 1 \in CommentIds
      BY <1>4 DEF CommentWrite, CommentIds
    <3>2. NewComment(inflight[h]) \in Comments
      BY <2>0 DEF NewComment, Comments
    <3>3. Incremented(posts[inflight[h].post], inflight[h].seen) \in Counters
      BY <2>0, CountersIncrement DEF Incremented
    <3> QED BY <3>1, <3>2, <3>3
  <2>2. /\ posts' \in [Posts -> Counters \cup {NoRow}]
        /\ comments' \in [CommentIds -> Comments \cup {NoRow}]
        /\ inflight' \in [Handlers -> Requests]
    BY <1>4, <2>1 DEF CommentWrite, End
  <2>3. lastComment' \in 0..MaxComment
    BY <1>4 DEF CommentWrite
  <2>4. CommentsHavePosts'
    BY <1>4, <2>1 DEF CommentWrite, End
  <2> QED BY <1>4, <2>2, <2>3, <2>4 DEF CommentWrite
<1>5. ASSUME NEW h \in Handlers, NEW u \in Users, NEW c \in CommentIds, DeleteCheck(h, u, c)
      PROVE  TypeInv'
  BY <1>5 DEF DeleteCheck, Begin
<1>6. ASSUME NEW h \in Handlers, DeleteRow(h)
      PROVE  TypeInv'
  <2>1. /\ comments' \in [CommentIds -> Comments \cup {NoRow}]
        /\ inflight' \in [Handlers -> Requests]
        /\ CommentsHavePosts'
    BY <1>6 DEF DeleteRow, End
  <2>2. deleted' \in [CommentIds -> Nat]
    <3> DEFINE id == inflight[h].id
    <3>1. id \in CommentIds
      BY <1>6, RequestTypes DEF DeleteRow
    <3>2. deleted' = deleted \/ deleted' = [deleted EXCEPT ![id] = @ + 1]
      BY <1>6 DEF DeleteRow
    <3>3. deleted \in [CommentIds -> Nat]
      OBVIOUS
    <3> HIDE DEF id, TypeInv
    <3> QED BY <3>1, <3>2, <3>3
  <2>3. gone' \in [Posts -> Nat]
    <3>1. \A n \in Nat : n + 0 \in Nat /\ n + 1 \in Nat
      OBVIOUS
    <3> QED BY <1>6, <3>1 DEF DeleteRow
  <2> QED BY <1>6, <2>1, <2>2, <2>3 DEF DeleteRow
<1>7. ASSUME NEW u \in Users, Add(u)
      PROVE  TypeInv'
  <2>1. lastFavorite + 1 \in FavoriteIds
    BY <1>7 DEF Add, FavoriteIds
  <2> QED BY <1>7, <2>1 DEF Add, FavoriteIds
<1>8. ASSUME NEW h \in Handlers, NEW u \in Users, RemoveFind(h, u)
      PROVE  TypeInv'
  BY <1>8 DEF RemoveFind, Begin
<1>9. ASSUME NEW h \in Handlers, RemoveDelete(h)
      PROVE  TypeInv'
  BY <1>9 DEF RemoveDelete, DeletedById, End
<1>10. ASSUME NEW h \in Handlers, Fail(h)
       PROVE  TypeInv'
  BY <1>10 DEF Fail, End
<1>11. CASE Crash
  BY <1>11 DEF Crash
<1>12. CASE UNCHANGED vars
  BY <1>12 DEF vars
<1> QED
  BY <1>1, <1>2, <1>3, <1>4, <1>5, <1>6, <1>7, <1>8, <1>9, <1>10, <1>11, <1>12
     DEF Next, Request

\* The seed's comments are finitely many, and their number is the last id.
LEMMA SeedIds ==
  /\ Cardinality(SeedCommentIds) \in 0..MaxComment
  /\ \A c \in CommentIds : c > Cardinality(SeedCommentIds) => SeedComments[c] = NoRow
<1>1. IsFiniteSet(CommentIds) /\ Cardinality(CommentIds) = MaxComment
  BY CommunityAssumption, FS_Interval DEF CommentIds
<1>2. /\ IsFiniteSet(SeedCommentIds)
      /\ Cardinality(SeedCommentIds) <= MaxComment
  BY <1>1, FS_Subset DEF SeedCommentIds
<1>3. Cardinality(SeedCommentIds) \in Nat
  BY <1>2, FS_CardinalityType
<1>4. \A c \in SeedCommentIds : c <= Cardinality(SeedCommentIds)
  <2> DEFINE n == Cardinality(SeedCommentIds)
  <2>1. SeedCommentIds = 1..n
    BY CommunityAssumption
  <2> HIDE DEF n
  <2> QED BY <1>3, <2>1 DEF n
<1>5. \A c \in CommentIds : c \notin SeedCommentIds => SeedComments[c] = NoRow
  BY DEF SeedCommentIds
<1> QED BY <1>2, <1>3, <1>4, <1>5, CommunityAssumption DEF CommentIds

\* The types, with what they rest on.
LEMMA TypeInvariant == Spec => []TypeInv
<1>1. Init => TypeInv
  BY CommunityAssumption, SeedIds
     DEF Init, TypeInv, TypeOK, CommentsHavePosts, Requests, Idle, SeedCommentIds
<1> QED
  BY <1>1, TypeInvStep, PTL DEF Spec

\* Every variable keeps its type.
THEOREM CommunityTypeCorrect == Spec => []TypeOK
<1>1. TypeInv => TypeOK
  BY DEF TypeInv
<1> QED
  BY <1>1, TypeInvariant, PTL

(***************************************************************************)
(* The rows that comments refer to, and the ids that are not used yet.     *)
(***************************************************************************)
RowsInv ==
  /\ \A c \in CommentIds : comments[c] # NoRow => posts[comments[c].post] # NoRow
  /\ \A p \in Posts : posts[p] = NoRow => /\ liked[p] = 0 /\ gone[p] = 0
                                           /\ SeedPosts[p] = NoRow
  /\ \A c \in CommentIds : c > lastComment => comments[c] = NoRow /\ deleted[c] = 0

\* What CommentWrite writes.
LEMMA CommentWritten ==
  ASSUME TypeInv, NEW h \in Handlers, CommentWrite(h)
  PROVE  LET p == inflight[h].post
             id == lastComment + 1
         IN  /\ p \in Posts /\ id \in CommentIds /\ lastComment' = id
             /\ comments'[id] # NoRow /\ comments'[id].post = p
             /\ \A c \in CommentIds \ {id} : comments'[c] = comments[c]
             /\ posts[p] \in Counters /\ posts'[p] \in Counters /\ posts'[p] # NoRow
             /\ posts'[p].likes = posts[p].likes
             /\ posts'[p].comments = posts[p].comments + 1
             /\ \A q \in Posts \ {p} : posts'[q] = posts[q]
             /\ deleted' = deleted /\ gone' = gone /\ liked' = liked
<1> USE CommunityAssumption
<1> DEFINE r == inflight[h]
           new == [posts[r.post] EXCEPT !.comments = @ + 1]
<1>1. r.user \in Users /\ r.post \in Posts /\ posts[r.post] \in Counters
  BY RequestTypes DEF CommentWrite
<1>2. lastComment + 1 \in CommentIds /\ lastComment' = lastComment + 1
  BY DEF CommentWrite, CommentIds, TypeInv, TypeOK
<1>3. NewComment(r) \in Comments /\ NewComment(r).post = r.post
  BY <1>1 DEF NewComment, Comments
<1>4. /\ comments' = [comments EXCEPT ![lastComment + 1] = NewComment(r)]
      /\ posts' = [posts EXCEPT ![r.post] = new]
      /\ deleted' = deleted /\ gone' = gone /\ liked' = liked
  BY DEF CommentWrite, Incremented
<1>5. /\ new \in Counters
      /\ new.likes = posts[r.post].likes
      /\ new.comments = posts[r.post].comments + 1
  BY <1>1, CountersIncrement
<1> HIDE DEF new
<1>6. /\ posts'[r.post] = new
      /\ \A q \in Posts \ {r.post} : posts'[q] = posts[q]
  BY <1>1, <1>4 DEF TypeInv, TypeOK
<1>7. /\ comments'[lastComment + 1] = NewComment(r)
      /\ \A c \in CommentIds \ {lastComment + 1} : comments'[c] = comments[c]
  BY <1>2, <1>4 DEF TypeInv, TypeOK
<1> QED BY <1>1, <1>2, <1>3, <1>4, <1>5, <1>6, <1>7

\* What Like writes.
LEMMA LikeWritten ==
  ASSUME TypeInv, NEW p \in Posts, Like(p)
  PROVE  /\ posts[p] \in Counters /\ posts'[p] \in Counters /\ posts'[p] # NoRow
         /\ posts'[p].likes = posts[p].likes + 1
         /\ posts'[p].comments = posts[p].comments
         /\ liked'[p] = liked[p] + 1
         /\ \A q \in Posts \ {p} : posts'[q] = posts[q] /\ liked'[q] = liked[q]
         /\ comments' = comments /\ lastComment' = lastComment /\ deleted' = deleted
         /\ gone' = gone
<1> DEFINE new == [posts[p] EXCEPT !.likes = @ + 1]
<1>1. posts[p] \in Counters
  BY DEF Like, TypeInv, TypeOK
<1>2. posts' = [posts EXCEPT ![p] = new]
  BY DEF Like
<1>3. /\ new \in Counters
      /\ new.likes = posts[p].likes + 1
      /\ new.comments = posts[p].comments
  BY <1>1, CountersIncrement
<1> HIDE DEF new
<1>4. posts'[p] = new /\ \A q \in Posts \ {p} : posts'[q] = posts[q]
  BY <1>2 DEF TypeInv, TypeOK
<1> QED BY <1>1, <1>3, <1>4, CommunityAssumption DEF Like, TypeInv, TypeOK

\* Every step of the program preserves RowsInv.
LEMMA RowsInvStep == TypeInv /\ RowsInv /\ [Next]_vars => RowsInv'
<1> USE CommunityAssumption
<1> SUFFICES ASSUME TypeInv, RowsInv, [Next]_vars PROVE RowsInv'
  OBVIOUS
<1> USE DEF RowsInv, tables
<1>t. \A c \in CommentIds : comments[c] # NoRow => comments[c].post \in Posts
  BY DEF TypeInv, TypeOK, Comments
<1>s. ASSUME UNCHANGED <<posts, comments, lastComment, deleted, gone, liked>>
      PROVE  RowsInv'
  BY <1>s
<1>1. ASSUME NEW p \in Posts, CreatePost(p)
      PROVE  RowsInv'
  <2>1. posts'[p] # NoRow /\ \A q \in Posts \ {p} : posts'[q] = posts[q]
    BY <1>1 DEF CreatePost, Counters, TypeInv, TypeOK
  <2>2. UNCHANGED <<comments, lastComment, deleted, gone, liked>>
    BY <1>1 DEF CreatePost
  <2> QED BY <1>t, <2>1, <2>2
<1>2. ASSUME NEW p \in Posts, Like(p)
      PROVE  RowsInv'
  <2>1. /\ posts'[p] # NoRow
        /\ \A q \in Posts \ {p} : posts'[q] = posts[q] /\ liked'[q] = liked[q]
        /\ UNCHANGED <<comments, lastComment, deleted, gone>>
    BY <1>2, LikeWritten
  <2> QED BY <1>t, <2>1
<1>3. ASSUME NEW h \in Handlers, NEW u \in Users, NEW p \in Posts, CommentCheck(h, u, p)
      PROVE  RowsInv'
  BY <1>3, <1>s DEF CommentCheck
<1>4. ASSUME NEW h \in Handlers, CommentWrite(h)
      PROVE  RowsInv'
  <2> DEFINE p == inflight[h].post
             id == lastComment + 1
  <2>1. /\ p \in Posts /\ id \in CommentIds /\ lastComment' = id
        /\ comments'[id].post = p /\ posts[p] # NoRow /\ posts'[p] # NoRow
        /\ \A c \in CommentIds \ {id} : comments'[c] = comments[c]
        /\ \A q \in Posts \ {p} : posts'[q] = posts[q]
        /\ deleted' = deleted /\ gone' = gone /\ liked' = liked
    BY <1>4, CommentWritten, CommunityAssumption
  <2>2. lastComment \in Nat
    BY DEF TypeInv, TypeOK
  <2> HIDE DEF p
  <2>3. \A q \in Posts : posts'[q] = NoRow => posts[q] = NoRow
    BY <2>1
  <2>4. \A c \in CommentIds : comments'[c] # NoRow => posts'[comments'[c].post] # NoRow
    BY <1>t, <2>1, <2>3
  <2>5. \A c \in CommentIds : c > id => c > lastComment /\ c # id
    BY <2>2 DEF CommentIds
  <2> QED BY <2>1, <2>3, <2>4, <2>5
<1>5. ASSUME NEW h \in Handlers, NEW u \in Users, NEW c \in CommentIds, DeleteCheck(h, u, c)
      PROVE  RowsInv'
  BY <1>5, <1>s DEF DeleteCheck
<1>6. ASSUME NEW h \in Handlers, DeleteRow(h)
      PROVE  RowsInv'
  <2> DEFINE id == inflight[h].id
  <2>1. id \in CommentIds
    BY <1>6, RequestTypes DEF DeleteRow
  <2>2. \A c \in CommentIds :
          /\ comments'[c] # NoRow => comments'[c] = comments[c]
          /\ c > lastComment => comments'[c] = NoRow /\ deleted'[c] = 0
    BY <1>6, <2>1 DEF DeleteRow, Affected, TypeInv, TypeOK
  <2>3. ASSUME NEW p \in Posts, posts[p] = NoRow
        PROVE  gone'[p] = 0
    <3>1. id \notin CommentsOn(p) /\ gone[p] = 0
      BY <2>3 DEF CommentsOn
    <3>2. gone'[p] = gone[p] + 0
      BY <1>6, <3>1 DEF DeleteRow
    <3> QED BY <3>1, <3>2
  <2> HIDE DEF id
  <2> QED BY <1>6, <2>2, <2>3 DEF DeleteRow
<1>7. ASSUME NEW u \in Users, Add(u)
      PROVE  RowsInv'
  BY <1>7, <1>s DEF Add
<1>8. ASSUME NEW h \in Handlers, NEW u \in Users, RemoveFind(h, u)
      PROVE  RowsInv'
  BY <1>8, <1>s DEF RemoveFind
<1>9. ASSUME NEW h \in Handlers, RemoveDelete(h)
      PROVE  RowsInv'
  BY <1>9, <1>s DEF RemoveDelete
<1>10. ASSUME NEW h \in Handlers, Fail(h)
       PROVE  RowsInv'
  BY <1>10, <1>s DEF Fail
<1>11. CASE Crash
  BY <1>11, <1>s DEF Crash
<1>12. CASE UNCHANGED vars
  BY <1>12, <1>s DEF vars
<1> QED
  BY <1>1, <1>2, <1>3, <1>4, <1>5, <1>6, <1>7, <1>8, <1>9, <1>10, <1>11, <1>12
     DEF Next, Request

\* Comments and likes are of posts that are there.
LEMMA RowsInvariant == Spec => []RowsInv
<1>1. Init => RowsInv
  BY CommunityAssumption, SeedIds DEF Init, RowsInv, SeedCommentIds
<1> QED
  BY <1>1, TypeInvariant, RowsInvStep, PTL DEF Spec

(***************************************************************************)
(* A comment is deleted once.                                              *)
(***************************************************************************)
LEMMA DeletedOnceStep ==
  TypeInv /\ RowsInv /\ DeletedOnce /\ [Next]_vars => DeletedOnce'
<1> SUFFICES ASSUME TypeInv, RowsInv, DeletedOnce, [Next]_vars PROVE DeletedOnce'
  OBVIOUS
<1> USE DEF DeletedOnce, tables
<1>s. ASSUME UNCHANGED <<comments, deleted>>
      PROVE  DeletedOnce'
  BY <1>s
<1>1. ASSUME NEW p \in Posts, CreatePost(p)
      PROVE  DeletedOnce'
  BY <1>1, <1>s DEF CreatePost
<1>2. ASSUME NEW p \in Posts, Like(p)
      PROVE  DeletedOnce'
  BY <1>2, <1>s DEF Like
<1>3. ASSUME NEW h \in Handlers, NEW u \in Users, NEW p \in Posts, CommentCheck(h, u, p)
      PROVE  DeletedOnce'
  BY <1>3, <1>s DEF CommentCheck
<1>4. ASSUME NEW h \in Handlers, CommentWrite(h)
      PROVE  DeletedOnce'
  <2> DEFINE id == lastComment + 1
  <2>1. /\ id \in CommentIds /\ comments'[id] # NoRow /\ deleted' = deleted
        /\ \A c \in CommentIds \ {id} : comments'[c] = comments[c]
    BY <1>4, CommentWritten
  <2>2. id > lastComment
    BY DEF TypeInv, TypeOK
  <2>3. deleted[id] = 0
    BY <2>1, <2>2 DEF RowsInv
  <2> QED BY <2>1, <2>3
<1>5. ASSUME NEW h \in Handlers, NEW u \in Users, NEW c \in CommentIds, DeleteCheck(h, u, c)
      PROVE  DeletedOnce'
  BY <1>5, <1>s DEF DeleteCheck
<1>6. ASSUME NEW h \in Handlers, DeleteRow(h)
      PROVE  DeletedOnce'
  <2> DEFINE id == inflight[h].id
  <2>1. id \in CommentIds
    BY <1>6, RequestTypes DEF DeleteRow
  <2>2. /\ comments'[id] = NoRow
        /\ \A c \in CommentIds \ {id} : comments'[c] = comments[c]
    BY <1>6, <2>1 DEF DeleteRow, TypeInv, TypeOK
  <2>3. CASE comments[id] = NoRow
    <3>1. deleted' = deleted
      BY <1>6, <2>3 DEF DeleteRow, Affected
    <3> QED BY <2>1, <2>2, <2>3, <3>1
  <2>4. CASE comments[id] # NoRow
    <3>1. deleted[id] = 0
      BY <2>1, <2>4 DEF TypeInv, TypeOK
    <3>2. /\ deleted'[id] = 1
          /\ \A c \in CommentIds \ {id} : deleted'[c] = deleted[c]
      BY <1>6, <2>1, <2>4, <3>1 DEF DeleteRow, Affected, TypeInv, TypeOK
    <3> QED BY <2>1, <2>2, <3>2
  <2> QED BY <2>3, <2>4
<1>7. ASSUME NEW u \in Users, Add(u)
      PROVE  DeletedOnce'
  BY <1>7, <1>s DEF Add
<1>8. ASSUME NEW h \in Handlers, NEW u \in Users, RemoveFind(h, u)
      PROVE  DeletedOnce'
  BY <1>8, <1>s DEF RemoveFind
<1>9. ASSUME NEW h \in Handlers, RemoveDelete(h)
      PROVE  DeletedOnce'
  BY <1>9, <1>s DEF RemoveDelete
<1>10. ASSUME NEW h \in Handlers, Fail(h)
       PROVE  DeletedOnce'
  BY <1>10, <1>s DEF Fail
<1>11. CASE Crash
  BY <1>11, <1>s DEF Crash
<1>12. CASE UNCHANGED vars
  BY <1>12, <1>s DEF vars
<1> QED
  BY <1>1, <1>2, <1>3, <1>4, <1>5, <1>6, <1>7, <1>8, <1>9, <1>10, <1>11, <1>12
     DEF Next, Request

\* Of the requests to delete one comment, one at most is answered "deleted", whatever
\* their number: an id is used once, and the row that a deletion found is gone.
THEOREM CommunityDeletedOnce == Spec => []DeletedOnce
<1>1. Init => DeletedOnce
  BY DEF Init, DeletedOnce
<1> QED
  BY <1>1, TypeInvariant, RowsInvariant, DeletedOnceStep, PTL DEF Spec

(***************************************************************************)
(* The counters add up.                                                    *)
(***************************************************************************)
\* Comments are finitely many, so that their number can be reasoned about.
LEMMA CommentsFinite ==
  ASSUME NEW S \in SUBSET CommentIds
  PROVE  IsFiniteSet(S) /\ Cardinality(S) \in Nat
<1>1. IsFiniteSet(CommentIds)
  BY CommunityAssumption, FS_Interval DEF CommentIds
<1> QED BY <1>1, FS_Subset, FS_CardinalityType

AddsUp(p) ==
  posts[p] # NoRow =>
    /\ posts[p].comments = Cardinality(CommentsOn(p)) + gone[p] + SeedSurplus(p)
    /\ posts[p].likes = liked[p] + SeedLikes(p)

\* What the seed leaves to be explained is a number.
LEMMA SeedTypes ==
  ASSUME NEW p \in Posts
  PROVE  SeedSurplus(p) \in Nat /\ SeedLikes(p) \in Nat
<1>1. SeedCommentsOn(p) \in SUBSET CommentIds
  BY DEF SeedCommentsOn, SeedCommentIds
<1>2. Cardinality(SeedCommentsOn(p)) \in Nat
  BY <1>1, CommentsFinite
<1>3. CASE SeedPosts[p] = NoRow
  BY <1>3 DEF SeedSurplus, SeedLikes
<1>4. CASE SeedPosts[p] # NoRow
  <2>1. /\ SeedPosts[p].comments \in Nat /\ SeedPosts[p].likes \in Nat
        /\ Cardinality(SeedCommentsOn(p)) <= SeedPosts[p].comments
    BY <1>4, CommunityAssumption DEF Counters
  <2> QED BY <1>2, <1>4, <2>1 DEF SeedSurplus, SeedLikes
<1> QED BY <1>3, <1>4

\* The numbers that are added up.
LEMMA AddedTypes ==
  ASSUME TypeInv, NEW p \in Posts
  PROVE  /\ Cardinality(CommentsOn(p)) \in Nat /\ gone[p] \in Nat /\ liked[p] \in Nat
         /\ posts[p] # NoRow => posts[p].comments \in Nat /\ posts[p].likes \in Nat
<1>1. CommentsOn(p) \in SUBSET CommentIds
  BY DEF CommentsOn
<1> QED BY <1>1, CommentsFinite DEF TypeInv, TypeOK, Counters

\* A post that nothing happens to adds up as before.
LEMMA AddsUpKept ==
  ASSUME NEW p \in Posts, AddsUp(p), posts'[p] = posts[p], liked'[p] = liked[p],
         gone'[p] = gone[p], CommentsOn(p)' = CommentsOn(p)
  PROVE  AddsUp(p)'
  BY DEF AddsUp, SeedSurplus, SeedLikes, SeedCommentsOn, SeedCommentIds

\* Every step keeps each post's counters in balance.
LEMMA CountersStep ==
  TypeInv /\ RowsInv /\ CountersAddUp /\ [Next]_vars => CountersAddUp'
<1> SUFFICES ASSUME TypeInv, RowsInv, CountersAddUp, [Next]_vars, NEW q \in Posts
             PROVE  AddsUp(q)'
  BY DEF CountersAddUp, AddsUp, SeedSurplus, SeedLikes, SeedCommentsOn, SeedCommentIds
<1>0. AddsUp(q)
  BY DEF CountersAddUp, AddsUp
<1> USE DEF tables
<1>n. /\ Cardinality(CommentsOn(q)) \in Nat /\ gone[q] \in Nat /\ liked[q] \in Nat
      /\ SeedSurplus(q) \in Nat /\ SeedLikes(q) \in Nat
  BY AddedTypes, SeedTypes
<1>p. SeedSurplus(q)' = SeedSurplus(q) /\ SeedLikes(q)' = SeedLikes(q)
  BY DEF SeedSurplus, SeedLikes, SeedCommentsOn, SeedCommentIds
<1>s. ASSUME UNCHANGED <<posts, comments, gone, liked>>
      PROVE  AddsUp(q)'
  BY <1>0, <1>s, AddsUpKept DEF CommentsOn
<1>1. ASSUME NEW p \in Posts, CreatePost(p)
      PROVE  AddsUp(q)'
  <2>1. UNCHANGED <<comments, gone, liked>>
    BY <1>1 DEF CreatePost
  <2>2. CASE q = p
    <3>1. posts'[q].likes = 0 /\ posts'[q].comments = 0
      BY <1>1, <2>2 DEF CreatePost, TypeInv, TypeOK
    <3>2. liked'[q] = 0 /\ gone'[q] = 0 /\ CommentsOn(q)' = {} /\ SeedPosts[q] = NoRow
      BY <1>1, <2>1, <2>2 DEF CreatePost, RowsInv, CommentsOn
    <3>3. Cardinality(CommentsOn(q)') = 0
      BY <3>2, FS_EmptySet
    <3>4. SeedSurplus(q) = 0 /\ SeedLikes(q) = 0
      BY <3>2 DEF SeedSurplus, SeedLikes
    <3> QED BY <1>p, <3>1, <3>2, <3>3, <3>4 DEF AddsUp
  <2>3. CASE q # p
    <3>1. posts'[q] = posts[q]
      BY <1>1, <2>3 DEF CreatePost, TypeInv, TypeOK
    <3> QED BY <1>0, <2>1, <3>1, AddsUpKept DEF CommentsOn
  <2> QED BY <2>2, <2>3
<1>2. ASSUME NEW p \in Posts, Like(p)
      PROVE  AddsUp(q)'
  <2>1. CommentsOn(q)' = CommentsOn(q) /\ gone' = gone
    BY <1>2, LikeWritten DEF CommentsOn
  <2>2. CASE q = p
    <3>1. /\ posts'[q].likes = posts[q].likes + 1
          /\ posts'[q].comments = posts[q].comments
          /\ liked'[q] = liked[q] + 1
          /\ posts[q] # NoRow
      BY <1>2, <2>2, LikeWritten, CommunityAssumption
    <3>2. posts'[q].likes = liked'[q] + SeedLikes(q)
      BY <1>0, <1>n, <3>1 DEF AddsUp
    <3> QED BY <1>0, <1>p, <2>1, <3>1, <3>2 DEF AddsUp
  <2>3. CASE q # p
    <3>1. posts'[q] = posts[q] /\ liked'[q] = liked[q]
      BY <1>2, <2>3, LikeWritten
    <3> QED BY <1>0, <2>1, <3>1, AddsUpKept
  <2> QED BY <2>2, <2>3
<1>3. ASSUME NEW h \in Handlers, NEW u \in Users, NEW p \in Posts, CommentCheck(h, u, p)
      PROVE  AddsUp(q)'
  BY <1>3, <1>s DEF CommentCheck
<1>4. ASSUME NEW h \in Handlers, CommentWrite(h)
      PROVE  AddsUp(q)'
  <2> DEFINE p == inflight[h].post
             id == lastComment + 1
  <2>1. /\ p \in Posts /\ id \in CommentIds
        /\ comments'[id] # NoRow /\ comments'[id].post = p
        /\ \A c \in CommentIds \ {id} : comments'[c] = comments[c]
        /\ posts[p] \in Counters /\ posts[p] # NoRow
        /\ posts'[p].likes = posts[p].likes
        /\ posts'[p].comments = posts[p].comments + 1
        /\ \A r \in Posts \ {p} : posts'[r] = posts[r]
        /\ gone' = gone /\ liked' = liked
    BY <1>4, CommentWritten, CommunityAssumption
  <2>2. comments[id] = NoRow
    <3>1. id > lastComment
      BY DEF TypeInv, TypeOK
    <3> QED BY <2>1, <3>1 DEF RowsInv
  <2> HIDE DEF p, id
  <2>3. CASE q = p
    <3>1. CommentsOn(q)' = CommentsOn(q) \cup {id} /\ id \notin CommentsOn(q)
      BY <2>1, <2>2, <2>3 DEF CommentsOn
    <3>2. IsFiniteSet(CommentsOn(q))
      BY CommentsFinite DEF CommentsOn
    <3>3. Cardinality(CommentsOn(q)') = Cardinality(CommentsOn(q)) + 1
      BY <3>1, <3>2, FS_AddElement
    <3>4. posts'[q].comments = Cardinality(CommentsOn(q)') + gone[q] + SeedSurplus(q)
      BY <1>0, <1>n, <2>1, <2>3, <3>3 DEF AddsUp
    <3> QED BY <1>0, <1>p, <2>1, <2>3, <3>4 DEF AddsUp
  <2>4. CASE q # p
    <3>1. posts'[q] = posts[q]
      BY <2>1, <2>4
    <3>2. CommentsOn(q)' = CommentsOn(q)
      BY <2>1, <2>2, <2>4 DEF CommentsOn
    <3> QED BY <1>0, <2>1, <3>1, <3>2, AddsUpKept
  <2> QED BY <2>3, <2>4
<1>5. ASSUME NEW h \in Handlers, NEW u \in Users, NEW c \in CommentIds, DeleteCheck(h, u, c)
      PROVE  AddsUp(q)'
  BY <1>5, <1>s DEF DeleteCheck
<1>6. ASSUME NEW h \in Handlers, DeleteRow(h)
      PROVE  AddsUp(q)'
  <2> DEFINE id == inflight[h].id
  <2>1. /\ id \in CommentIds /\ posts' = posts /\ liked' = liked
        /\ comments' = [comments EXCEPT ![id] = NoRow]
        /\ gone'[q] = gone[q] + IF id \in CommentsOn(q) THEN 1 ELSE 0
    BY <1>6, RequestTypes DEF DeleteRow
  <2> HIDE DEF id
  <2>2. CommentsOn(q)' = CommentsOn(q) \ {id}
    BY <2>1 DEF CommentsOn, TypeInv, TypeOK
  <2>3. CASE id \in CommentsOn(q)
    <3>1. IsFiniteSet(CommentsOn(q))
      BY CommentsFinite DEF CommentsOn
    <3>2. Cardinality(CommentsOn(q)') = Cardinality(CommentsOn(q)) - 1
      BY <2>2, <2>3, <3>1, FS_RemoveElement
    <3>3. gone'[q] = gone[q] + 1
      BY <2>1, <2>3
    <3>4. ASSUME posts[q] # NoRow
          PROVE  posts[q].comments = Cardinality(CommentsOn(q)') + gone'[q] + SeedSurplus(q)
      BY <1>0, <1>n, <3>2, <3>3, <3>4 DEF AddsUp
    <3> QED BY <1>0, <1>p, <2>1, <3>4 DEF AddsUp
  <2>4. CASE id \notin CommentsOn(q)
    <3>1. CommentsOn(q)' = CommentsOn(q)
      BY <2>2, <2>4
    <3>2. gone'[q] = gone[q]
      BY <1>n, <2>1, <2>4
    <3> QED BY <1>0, <2>1, <3>1, <3>2, AddsUpKept
  <2> QED BY <2>3, <2>4
<1>7. ASSUME NEW u \in Users, Add(u)
      PROVE  AddsUp(q)'
  BY <1>7, <1>s DEF Add
<1>8. ASSUME NEW h \in Handlers, NEW u \in Users, RemoveFind(h, u)
      PROVE  AddsUp(q)'
  BY <1>8, <1>s DEF RemoveFind
<1>9. ASSUME NEW h \in Handlers, RemoveDelete(h)
      PROVE  AddsUp(q)'
  BY <1>9, <1>s DEF RemoveDelete
<1>10. ASSUME NEW h \in Handlers, Fail(h)
       PROVE  AddsUp(q)'
  BY <1>10, <1>s DEF Fail
<1>11. CASE Crash
  BY <1>11, <1>s DEF Crash
<1>12. CASE UNCHANGED vars
  BY <1>12, <1>s DEF vars
<1> QED
  BY <1>1, <1>2, <1>3, <1>4, <1>5, <1>6, <1>7, <1>8, <1>9, <1>10, <1>11, <1>12
     DEF Next, Request

\* No interleaving of comments, likes and deletions, of any number of goroutines, loses
\* an increment or adds one: a post's likes are those it got, and its comment counter differs
\* from its comments by the seed's surplus and the deletions, each counted once.
THEOREM CommunityCountersAddUp == Spec => []CountersAddUp
<1>1. Init => CountersAddUp
  <2> SUFFICES ASSUME Init, NEW p \in Posts, posts[p] # NoRow
               PROVE  /\ posts[p].comments
                           = Cardinality(CommentsOn(p)) + gone[p] + SeedSurplus(p)
                      /\ posts[p].likes = liked[p] + SeedLikes(p)
    BY DEF CountersAddUp
  <2>1. /\ posts[p] = SeedPosts[p] /\ posts[p].comments \in Nat /\ posts[p].likes \in Nat
        /\ liked[p] = 0 /\ gone[p] = 0
    BY CommunityAssumption DEF Init, Counters
  <2>2. CommentsOn(p) = SeedCommentsOn(p)
    BY DEF Init, CommentsOn, SeedCommentsOn, SeedCommentIds
  <2>3. Cardinality(CommentsOn(p)) \in Nat
    <3>1. CommentsOn(p) \in SUBSET CommentIds
      BY DEF CommentsOn
    <3> QED BY <3>1, CommentsFinite
  <2>4. /\ SeedSurplus(p) = posts[p].comments - Cardinality(CommentsOn(p))
        /\ SeedLikes(p) = posts[p].likes
    BY <2>1, <2>2 DEF SeedSurplus, SeedLikes
  <2> QED BY <2>1, <2>3, <2>4
<1> QED
  BY <1>1, TypeInvariant, RowsInvariant, CountersStep, PTL DEF Spec

(***************************************************************************)
(* A deletion by id takes the comment whose author was checked, or none:   *)
(* an id that was handed out never belongs to another comment.             *)
(***************************************************************************)
DeletesOwn(h) ==
  inflight[h].op = "delete" =>
    /\ inflight[h].id <= lastComment
    /\ comments[inflight[h].id] # NoRow => comments[inflight[h].id].user = inflight[h].user

DeletesInv == \A h \in Handlers : DeletesOwn(h)

\* A request that begins leaves the others what they were.
LEMMA BeginsOne ==
  ASSUME TypeInv, NEW h \in Handlers, NEW STATE r, Begin(h, r)
  PROVE  inflight'[h] = r /\ \A g \in Handlers \ {h} : inflight'[g] = inflight[g]
  BY DEF TypeInv, TypeOK, Begin

\* So does one that ends.
LEMMA EndsOne ==
  ASSUME TypeInv, NEW h \in Handlers, End(h)
  PROVE  inflight'[h].op = "idle" /\ \A g \in Handlers \ {h} : inflight'[g] = inflight[g]
  BY DEF TypeInv, TypeOK, End, Idle

\* Comments that are as they were, or gone, are still those the requests had checked.
LEMMA DeletesOwnKept ==
  ASSUME TypeInv, NEW h \in Handlers, DeletesOwn(h), inflight'[h] = inflight[h],
         lastComment' = lastComment,
         \A c \in CommentIds : comments'[c] # NoRow => comments'[c] = comments[c]
  PROVE  DeletesOwn(h)'
  BY RequestTypes DEF DeletesOwn

\* Every step of the program preserves DeletesInv.
LEMMA DeletesInvStep == TypeInv /\ RowsInv /\ DeletesInv /\ [Next]_vars => DeletesInv'
<1> SUFFICES ASSUME TypeInv, RowsInv, DeletesInv, [Next]_vars, NEW g \in Handlers
             PROVE  DeletesOwn(g)'
  BY DEF DeletesInv
<1>0. DeletesOwn(g)
  BY DEF DeletesInv
<1> USE DEF tables
<1>s. ASSUME UNCHANGED <<comments, lastComment>>, inflight'[g] = inflight[g]
      PROVE  DeletesOwn(g)'
  BY <1>0, <1>s, DeletesOwnKept
<1>i. ASSUME inflight'[g].op # "delete"
      PROVE  DeletesOwn(g)'
  BY <1>i DEF DeletesOwn
<1>1. ASSUME NEW p \in Posts, CreatePost(p)
      PROVE  DeletesOwn(g)'
  BY <1>1, <1>s DEF CreatePost
<1>2. ASSUME NEW p \in Posts, Like(p)
      PROVE  DeletesOwn(g)'
  BY <1>2, <1>s DEF Like
<1>3. ASSUME NEW h \in Handlers, NEW u \in Users, NEW p \in Posts, CommentCheck(h, u, p)
      PROVE  DeletesOwn(g)'
  <2>1. /\ inflight'[h].op = "comment"
        /\ h # g => inflight'[g] = inflight[g]
    BY <1>3, BeginsOne DEF CommentCheck
  <2>2. UNCHANGED <<comments, lastComment>>
    BY <1>3 DEF CommentCheck
  <2> QED BY <1>s, <1>i, <2>1, <2>2
<1>4. ASSUME NEW h \in Handlers, CommentWrite(h)
      PROVE  DeletesOwn(g)'
  <2> DEFINE id == lastComment + 1
  <2>1. /\ inflight'[h].op = "idle"
        /\ h # g => inflight'[g] = inflight[g]
    BY <1>4, EndsOne DEF CommentWrite
  <2>2. /\ lastComment' = id
        /\ \A c \in CommentIds \ {id} : comments'[c] = comments[c]
    BY <1>4, CommentWritten
  <2>3. lastComment \in Nat
    BY DEF TypeInv, TypeOK
  <2>4. CASE h # g /\ inflight[g].op = "delete"
    <3>1. inflight'[g] = inflight[g]
      BY <2>1, <2>4
    <3>2. inflight[g].id \in CommentIds /\ inflight[g].id <= lastComment
      BY <1>0, <2>4, RequestTypes DEF DeletesOwn
    <3>3. inflight[g].id \in Nat /\ inflight[g].id # id
      BY <2>3, <3>2 DEF CommentIds
    <3>4. comments'[inflight[g].id] = comments[inflight[g].id]
      BY <2>2, <3>2, <3>3
    <3>5. inflight[g].id <= lastComment'
      BY <2>2, <2>3, <3>2, <3>3
    <3> QED BY <1>0, <2>4, <3>1, <3>4, <3>5 DEF DeletesOwn
  <2>5. CASE h = g \/ inflight[g].op # "delete"
    BY <1>i, <2>1, <2>5
  <2> QED BY <2>4, <2>5
<1>5. ASSUME NEW h \in Handlers, NEW u \in Users, NEW c \in CommentIds, DeleteCheck(h, u, c)
      PROVE  DeletesOwn(g)'
  <2>1. /\ inflight'[h] = [op |-> "delete", user |-> u, id |-> c]
        /\ h # g => inflight'[g] = inflight[g]
    BY <1>5, BeginsOne DEF DeleteCheck
  <2>2. UNCHANGED <<comments, lastComment>>
    BY <1>5 DEF DeleteCheck
  <2>3. comments[c] # NoRow /\ comments[c].user = u
    BY <1>5 DEF DeleteCheck, MayDelete
  <2>4. c <= lastComment
    <3>1. ~ (c > lastComment)
      BY <2>3 DEF RowsInv
    <3> QED BY <3>1 DEF TypeInv, TypeOK, CommentIds
  <2>5. CASE h = g
    BY <2>1, <2>2, <2>3, <2>4, <2>5 DEF DeletesOwn
  <2> QED BY <1>s, <2>1, <2>2, <2>5
<1>6. ASSUME NEW h \in Handlers, DeleteRow(h)
      PROVE  DeletesOwn(g)'
  <2>1. /\ inflight'[h].op = "idle"
        /\ h # g => inflight'[g] = inflight[g]
    BY <1>6, EndsOne DEF DeleteRow
  <2>2. lastComment' = lastComment
    BY <1>6 DEF DeleteRow
  <2>3. \A c \in CommentIds : comments'[c] # NoRow => comments'[c] = comments[c]
    BY <1>6 DEF DeleteRow, TypeInv, TypeOK
  <2>4. CASE h # g
    BY <1>0, <2>1, <2>2, <2>3, <2>4, DeletesOwnKept
  <2> QED BY <1>i, <2>1, <2>4
<1>7. ASSUME NEW u \in Users, Add(u)
      PROVE  DeletesOwn(g)'
  BY <1>7, <1>s DEF Add
<1>8. ASSUME NEW h \in Handlers, NEW u \in Users, RemoveFind(h, u)
      PROVE  DeletesOwn(g)'
  <2>1. /\ inflight'[h].op = "unfavorite"
        /\ h # g => inflight'[g] = inflight[g]
    BY <1>8, BeginsOne DEF RemoveFind
  <2>2. UNCHANGED <<comments, lastComment>>
    BY <1>8 DEF RemoveFind
  <2> QED BY <1>s, <1>i, <2>1, <2>2
<1>9. ASSUME NEW h \in Handlers, RemoveDelete(h)
      PROVE  DeletesOwn(g)'
  <2>1. /\ inflight'[h].op = "idle"
        /\ h # g => inflight'[g] = inflight[g]
    BY <1>9, EndsOne DEF RemoveDelete
  <2>2. UNCHANGED <<comments, lastComment>>
    BY <1>9 DEF RemoveDelete
  <2> QED BY <1>s, <1>i, <2>1, <2>2
<1>10. ASSUME NEW h \in Handlers, Fail(h)
       PROVE  DeletesOwn(g)'
  <2>1. /\ inflight'[h].op = "idle"
        /\ h # g => inflight'[g] = inflight[g]
    BY <1>10, EndsOne DEF Fail
  <2>2. UNCHANGED <<comments, lastComment>>
    BY <1>10 DEF Fail
  <2> QED BY <1>s, <1>i, <2>1, <2>2
<1>11. CASE Crash
  BY <1>11, <1>i DEF Crash, Idle
<1>12. CASE UNCHANGED vars
  BY <1>12, <1>s DEF vars
<1> QED
  BY <1>1, <1>2, <1>3, <1>4, <1>5, <1>6, <1>7, <1>8, <1>9, <1>10, <1>11, <1>12
     DEF Next, Request

\* A deletion under way still has the author it checked.
LEMMA DeletesInvariant == Spec => []DeletesInv
<1>1. Init => DeletesInv
  BY DEF Init, DeletesInv, DeletesOwn, Idle
<1> QED
  BY <1>1, TypeInvariant, RowsInvariant, DeletesInvStep, PTL DEF Spec

Deletes(h, c) ==
  /\ inflight[h].op = "delete" /\ inflight[h].user = comments[c].user
  /\ inflight[h].id = c /\ inflight'[h] = Idle

\* A comment changes only through a deletion that checked its author.
LEMMA AuthorsStep ==
  ASSUME TypeInv, RowsInv, DeletesInv, [Next]_vars, NEW c \in CommentIds,
         comments[c] # NoRow, comments'[c] # comments[c]
  PROVE  \E h \in Handlers : Deletes(h, c)
<1>1. comments \in [CommentIds -> Comments \cup {NoRow}] /\ inflight \in [Handlers -> Requests]
  BY DEF TypeInv, TypeOK
<1>2. ASSUME NEW h \in Handlers, CommentWrite(h)
      PROVE  FALSE
  <2>1. c = lastComment + 1
    BY <1>2, CommentWritten
  <2>2. c > lastComment
    BY <2>1 DEF TypeInv, TypeOK
  <2> QED BY <2>2 DEF RowsInv
<1>3. ASSUME NEW h \in Handlers, DeleteRow(h)
      PROVE  Deletes(h, c)
  <2>1. inflight[h].op = "delete" /\ inflight[h].id = c
    BY <1>1, <1>3 DEF DeleteRow
  <2>2. inflight'[h] = Idle
    BY <1>1, <1>3 DEF DeleteRow, End
  <2>3. inflight[h].user = comments[c].user
    BY <2>1 DEF DeletesInv, DeletesOwn
  <2> QED BY <2>1, <2>2, <2>3 DEF Deletes
<1>4. \/ comments' = comments
      \/ \E h \in Handlers : CommentWrite(h)
      \/ \E h \in Handlers : DeleteRow(h)
  BY DEF Next, Request, CreatePost, Like, Add, CommentCheck, DeleteCheck,
         RemoveFind, RemoveDelete, Fail, Crash, vars, tables
<1> QED BY <1>2, <1>3, <1>4

\* However the check of an author and the deletion that follows it are interleaved with
\* the requests of others, a comment disappears only by a request of its author.
THEOREM CommunityOnlyAuthorsDelete == Spec => OnlyAuthorsDelete
<1>1. TypeInv /\ RowsInv /\ DeletesInv /\ [Next]_vars =>
        [\A c \in CommentIds :
           comments[c] # NoRow /\ comments'[c] # comments[c]
             => \E h \in Handlers : /\ inflight[h].op = "delete"
                                    /\ inflight[h].user = comments[c].user
                                    /\ inflight[h].id = c
                                    /\ inflight'[h] = Idle]_vars
  BY AuthorsStep DEF Deletes
<1> QED
  BY <1>1, TypeInvariant, RowsInvariant, DeletesInvariant, PTL DEF Spec, OnlyAuthorsDelete

(***************************************************************************)
(* A late removal takes what it found or nothing.                          *)
(***************************************************************************)
Removes(h, u) ==
  /\ inflight[h].op = "unfavorite" /\ inflight[h].user = u
  /\ inflight[h].id = favorites[u] /\ inflight'[h] = Idle

\* A favorite disappears only through a removal that found its row.
LEMMA SparesStep ==
  ASSUME TypeInv, [Next]_vars, NEW u \in Users,
         favorites[u] # NoRow, favorites'[u] # favorites[u]
  PROVE  \E h \in Handlers : Removes(h, u)
<1>1. favorites \in [Users -> FavoriteIds \cup {NoRow}] /\ inflight \in [Handlers -> Requests]
  BY DEF TypeInv, TypeOK
<1>2. ASSUME NEW v \in Users, Add(v)
      PROVE  FALSE
  BY <1>1, <1>2 DEF Add
<1>3. ASSUME NEW h \in Handlers, RemoveDelete(h)
      PROVE  Removes(h, u)
  <2>1. inflight[h].user = u /\ inflight[h].id = favorites[u]
    BY <1>1, <1>3 DEF RemoveDelete, DeletedById
  <2>2. inflight'[h] = Idle
    BY <1>1, <1>3 DEF RemoveDelete, End
  <2> QED BY <1>3, <2>1, <2>2 DEF RemoveDelete, Removes
<1>4. \/ favorites' = favorites
      \/ \E v \in Users : Add(v)
      \/ \E h \in Handlers : RemoveDelete(h)
  BY DEF Next, Request, CreatePost, Like, CommentCheck, CommentWrite, DeleteCheck, DeleteRow,
         RemoveFind, Fail, Crash, vars, tables
<1> QED BY <1>2, <1>3, <1>4

\* However removals and additions of one target overlap, a removal undoes what it found
\* and spares a favorite that was added again since.
THEOREM CommunityRemoveSparesNew == Spec => RemoveSparesNew
<1>1. TypeInv /\ [Next]_vars =>
        [\A u \in Users :
           favorites[u] # NoRow /\ favorites'[u] # favorites[u]
             => \E h \in Handlers : /\ inflight[h].op = "unfavorite"
                                    /\ inflight[h].user = u
                                    /\ inflight[h].id = favorites[u]
                                    /\ inflight'[h] = Idle]_vars
  BY SparesStep DEF Removes
<1> QED BY <1>1, TypeInvariant, PTL DEF Spec, RemoveSparesNew
=============================================================================
