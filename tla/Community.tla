------------------------------ MODULE Community ------------------------------
(***************************************************************************)
(* Posts with their counters, comments, and what users favorite.           *)
(*                                                                         *)
(* Counters are incremented by the database (comment_count + 1), comments  *)
(* are deleted by id after a read that checks their author, a favorite is  *)
(* found first and then deleted by the id that was found.  Each goroutine  *)
(* of Handlers is between two such calls.                                  *)
(***************************************************************************)
EXTENDS Naturals, FiniteSets

CONSTANTS
  Users, Posts,
  SeedPosts,    \* the posts the seed inserts, with their counters, and NoRow elsewhere
  SeedComments, \* the comments it inserts, from id 1, as [post, user]
  MaxComment,   \* ids the sequence of comments may hand out (a bound)
  MaxLikes,     \* likes a post may get (a bound)
  MaxFavorite,  \* ids the sequence of favorites may hand out (a bound)
  Handlers,     \* request goroutines at work at the same time (a bound)
  NoRow         \* the row does not exist

CommentIds  == 1..MaxComment
FavoriteIds == 1..MaxFavorite

Counters == [likes: Nat, comments: Nat]
Comments == [post: Posts, user: Users]

SeedCommentIds   == {c \in CommentIds : SeedComments[c] # NoRow}
SeedCommentsOn(p) == {c \in SeedCommentIds : SeedComments[c].post = p}

\* Ids start at 1, and the counters the seed writes are no less than its comments.
ASSUME CommunityAssumption ==
  /\ MaxComment \in Nat /\ MaxLikes \in Nat /\ MaxFavorite \in Nat
  /\ NoRow \notin Counters \cup Comments \cup FavoriteIds
  /\ SeedPosts \in [Posts -> Counters \cup {NoRow}]
  /\ SeedComments \in [CommentIds -> Comments \cup {NoRow}]
  /\ SeedCommentIds = 1..Cardinality(SeedCommentIds)
  /\ \A c \in SeedCommentIds : SeedPosts[SeedComments[c].post] # NoRow
  /\ \A p \in Posts : SeedPosts[p] # NoRow =>
       Cardinality(SeedCommentsOn(p)) <= SeedPosts[p].comments

Idle == [op |-> "idle"]

\* A comment's goroutine has read the post, counters included.
Requests ==
  {Idle} \cup [op: {"comment"}, user: Users, post: Posts, seen: Counters]
         \cup [op: {"delete"}, user: Users, id: CommentIds]
         \cup [op: {"unfavorite"}, user: Users, id: FavoriteIds]

VARIABLES
  posts,       \* the community_posts table
  comments,    \* the post_comments table
  lastComment, \* the sequence behind post_comments.id
  favorites,   \* one target's rows of favorites: the id of each user's row, which the
               \* unique index on user and target makes one at most
  lastFavorite,\* the sequence behind favorites.id
  inflight,    \* the request each goroutine is serving
  deleted,     \* history: the "deleted" answers to requests for each comment
  gone,        \* history: how many of each post's comments have been deleted
  liked        \* history: the likes each post got

tables == <<posts, comments, lastComment, favorites, lastFavorite>>
vars == <<tables, inflight, deleted, gone, liked>>

TypeOK ==
  /\ posts \in [Posts -> Counters \cup {NoRow}]
  /\ comments \in [CommentIds -> Comments \cup {NoRow}]
  /\ lastComment \in 0..MaxComment
  /\ favorites \in [Users -> FavoriteIds \cup {NoRow}]
  /\ lastFavorite \in 0..MaxFavorite
  /\ inflight \in [Handlers -> Requests]
  /\ deleted \in [CommentIds -> Nat]
  /\ gone \in [Posts -> Nat]
  /\ liked \in [Posts -> Nat]

CommentsOn(p) == {c \in CommentIds : comments[c] # NoRow /\ comments[c].post = p}

Init ==
  /\ posts = SeedPosts
  /\ comments = SeedComments
  /\ lastComment = Cardinality(SeedCommentIds)
  /\ favorites = [u \in Users |-> NoRow]
  /\ lastFavorite = 0
  /\ inflight = [h \in Handlers |-> Idle]
  /\ deleted = [c \in CommentIds |-> 0]
  /\ gone = [p \in Posts |-> 0]
  /\ liked = [p \in Posts |-> 0]

Begin(h, request) ==
  /\ inflight[h] = Idle
  /\ inflight' = [inflight EXCEPT ![h] = request]

End(h) == inflight' = [inflight EXCEPT ![h] = Idle]

(***************************************************************************)
(* PostService                                                             *)
(***************************************************************************)
CreatePost(p) ==
  /\ posts[p] = NoRow
  /\ posts' = [posts EXCEPT ![p] = [likes |-> 0, comments |-> 0]]
  /\ UNCHANGED <<comments, lastComment, favorites, lastFavorite, inflight, deleted, gone, liked>>

\* The increment of a post that does not exist changes no row.
Like(p) ==
  /\ posts[p] # NoRow
  /\ liked[p] < MaxLikes
  /\ posts' = [posts EXCEPT ![p].likes = @ + 1]
  /\ liked' = [liked EXCEPT ![p] = @ + 1]
  /\ UNCHANGED <<comments, lastComment, favorites, lastFavorite, inflight, deleted, gone>>

(***************************************************************************)
(* CommentService                                                          *)
(***************************************************************************)
CommentCheck(h, u, p) ==
  /\ posts[p] # NoRow
  /\ Begin(h, [op |-> "comment", user |-> u, post |-> p, seen |-> posts[p]])
  /\ UNCHANGED <<tables, deleted, gone, liked>>

\* Wrong on purpose: the post that was read is saved with one comment more.
SavedAsSeen(post, seen) == [seen EXCEPT !.comments = @ + 1]

Incremented(post, seen) == [post EXCEPT !.comments = @ + 1]

\* Wrong on purpose: post and user confused.
MixedUpComment(r) == [post |-> r.user, user |-> r.post]

NewComment(r) == [post |-> r.post, user |-> r.user]

\* Insert and increment in one transaction.
CommentWrite(h) ==
  LET r == inflight[h]
      id == lastComment + 1
  IN  /\ r.op = "comment"
      /\ lastComment < MaxComment
      /\ comments' = [comments EXCEPT ![id] = NewComment(r)]
      /\ posts' = [posts EXCEPT ![r.post] = Incremented(@, r.seen)]
      /\ lastComment' = id
      /\ End(h)
      /\ UNCHANGED <<favorites, lastFavorite, deleted, gone, liked>>

\* Wrong on purpose: the author is not looked at.
AnyoneMayDelete(u, c) == TRUE

MayDelete(u, c) == comments[c].user = u

DeleteCheck(h, u, c) ==
  /\ comments[c] # NoRow
  /\ MayDelete(u, c)
  /\ Begin(h, [op |-> "delete", user |-> u, id |-> c])
  /\ UNCHANGED <<tables, deleted, gone, liked>>

\* Wrong on purpose: the number of affected rows is not looked at.
AnyAffected(c) == TRUE

Affected(c) == comments[c] # NoRow

\* The counter of the post is left as it is.
DeleteRow(h) ==
  LET r == inflight[h]
  IN  /\ r.op = "delete"
      /\ comments' = [comments EXCEPT ![r.id] = NoRow]
      /\ deleted' = IF Affected(r.id) THEN [deleted EXCEPT ![r.id] = @ + 1] ELSE deleted
      /\ gone' = [p \in Posts |-> gone[p] + IF r.id \in CommentsOn(p) THEN 1 ELSE 0]
      /\ End(h)
      /\ UNCHANGED <<posts, lastComment, favorites, lastFavorite, liked>>

(***************************************************************************)
(* FavoriteService, for one target                                         *)
(***************************************************************************)
\* One INSERT, refused by the unique index; the refused one has used up its id.
Add(u) ==
  /\ lastFavorite < MaxFavorite
  /\ lastFavorite' = lastFavorite + 1
  /\ favorites' = [favorites EXCEPT ![u] = IF @ = NoRow THEN lastFavorite + 1 ELSE @]
  /\ UNCHANGED <<posts, comments, lastComment, inflight, deleted, gone, liked>>

RemoveFind(h, u) ==
  /\ favorites[u] # NoRow
  /\ Begin(h, [op |-> "unfavorite", user |-> u, id |-> favorites[u]])
  /\ UNCHANGED <<tables, deleted, gone, liked>>

\* Wrong on purpose: deleted by user and target.
DeletedByTarget(u, id) == [favorites EXCEPT ![u] = NoRow]

DeletedById(u, id) == [favorites EXCEPT ![u] = IF @ = id THEN NoRow ELSE @]

RemoveDelete(h) ==
  LET r == inflight[h]
  IN  /\ r.op = "unfavorite"
      /\ favorites' = DeletedById(r.user, r.id)
      /\ End(h)
      /\ UNCHANGED <<posts, comments, lastComment, lastFavorite, deleted, gone, liked>>

\* A database error ends a handler, a crash ends them all.
Fail(h) ==
  /\ inflight[h] # Idle
  /\ End(h)
  /\ UNCHANGED <<tables, deleted, gone, liked>>

Crash ==
  /\ \E h \in Handlers : inflight[h] # Idle
  /\ inflight' = [h \in Handlers |-> Idle]
  /\ UNCHANGED <<tables, deleted, gone, liked>>

Request(h) ==
  \/ \E u \in Users, p \in Posts : CommentCheck(h, u, p)
  \/ CommentWrite(h)
  \/ \E u \in Users, c \in CommentIds : DeleteCheck(h, u, c)
  \/ DeleteRow(h)
  \/ \E u \in Users : RemoveFind(h, u)
  \/ RemoveDelete(h)
  \/ Fail(h)

Next ==
  \/ \E p \in Posts : CreatePost(p) \/ Like(p)
  \/ \E u \in Users : Add(u)
  \/ \E h \in Handlers : Request(h)
  \/ Crash

Spec == Init /\ [][Next]_vars

(***************************************************************************)
(* Properties                                                              *)
(***************************************************************************)
\* What the seed has written into the counters of a post beyond the comments it inserted,
\* and its likes.
SeedSurplus(p) ==
  IF SeedPosts[p] = NoRow THEN 0
                          ELSE SeedPosts[p].comments - Cardinality(SeedCommentsOn(p))
SeedLikes(p) == IF SeedPosts[p] = NoRow THEN 0 ELSE SeedPosts[p].likes

\* The counters of a post lose no increment and gain none, however requests overlap, fail or
\* are cut off by a crash: the likes are those it got, and the comments are off by what the
\* seed began with and by the comments that were deleted, which nobody takes off, once each.
CountersAddUp ==
  \A p \in Posts : posts[p] # NoRow =>
    /\ posts[p].comments = Cardinality(CommentsOn(p)) + gone[p] + SeedSurplus(p)
    /\ posts[p].likes = liked[p] + SeedLikes(p)

\* Of several requests to delete a comment, one at most is told that it did.
DeletedOnce ==
  \A c \in CommentIds : deleted[c] <= IF comments[c] = NoRow THEN 1 ELSE 0

\* The author of a comment is checked by one query and the row deleted by its id in a
\* later one, without the author: still no comment disappears but by a request of the
\* user who wrote it, however requests overlap and whatever is deleted in between.
OnlyAuthorsDelete ==
  [][\A c \in CommentIds :
       comments[c] # NoRow /\ comments'[c] # comments[c]
         => \E h \in Handlers : /\ inflight[h].op = "delete"
                                /\ inflight[h].user = comments[c].user
                                /\ inflight[h].id = c
                                /\ inflight'[h] = Idle]_vars

\* Removing a favorite undoes what the request found, never one the user has added
\* again since: a favorite disappears only through a request that read its very row.
RemoveSparesNew ==
  [][\A u \in Users :
       favorites[u] # NoRow /\ favorites'[u] # favorites[u]
         => \E h \in Handlers : /\ inflight[h].op = "unfavorite"
                                /\ inflight[h].user = u
                                /\ inflight[h].id = favorites[u]
                                /\ inflight'[h] = Idle]_vars
=============================================================================
