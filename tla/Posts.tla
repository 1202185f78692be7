-------------------------------- MODULE Posts --------------------------------
(***************************************************************************)
(* The posts of the app: AddViewController writes them, PostViewController *)
(* lists all or those with a tag, and SearchViewController those of the    *)
(* member that was found.  Each list is filled by the callback of a query; *)
(* a query is answered at any time after it was asked, in any order.       *)
(***************************************************************************)
EXTENDS Integers, Sequences, FiniteSets, SequencesExt

CONSTANTS
  Tags,             \* the titles of the segments after the first
  Emails,           \* what may be typed: a sequence, like a title
  Members,          \* those of them that have an account
  Authors,          \* who may be logged in here: a member, or Nobody
  MaxPosts,         \* bound: posts written
  MaxAsked          \* bound: queries asked

VARIABLES
  posts,            \* the nodes under /posts
  author,           \* UserManager.getUserEmail
  screen,           \* what each screen shows
  asked,            \* the queries that have no answer yet
  asks,             \* how many were asked
  newest,           \* the number of the last one for the posts of a screen
  shown             \* the query that filled each list last

postsVars == <<posts, author, screen, asked, asks, newest, shown>>

Nobody == <<>>
All == <<>>
Segments == {All} \cup Tags

(* addPost: a new key and the fields of a post; author_tag is the e-mail    *)
(* with the tag after it.                                                   *)
Post(n, from, tag) ==
  [article_id |-> n, author |-> from, article_tag |-> tag,
   author_tag |-> from \o tag]

Write(from, tag) ==
  posts' = posts \cup {Post(Cardinality(posts) + 1, from, tag)}

(* AddViewController.postClick: without an author nothing is written.       *)
postClick(tag) ==
  /\ Cardinality(posts) < MaxPosts
  /\ IF author = Nobody THEN UNCHANGED posts ELSE Write(author, tag)
  /\ UNCHANGED <<author, screen, asked, asks, newest, shown>>

(* The same on another device. *)
OtherPost(from, tag) ==
  /\ Cardinality(posts) < MaxPosts /\ Write(from, tag)
  /\ UNCHANGED <<author, screen, asked, asks, newest, shown>>

-----------------------------------------------------------------------------
(* The queries; had is what was posted when they were asked.                *)
getAllPosts == [key |-> "all", value |-> All]
queryPost(key, value) == [key |-> key, value |-> value]
searchMember(email) == [key |-> "member", value |-> email]

Matching(q) ==
  {p \in posts : CASE q.key = "all" -> TRUE
                   [] q.key = "article_tag" -> p.article_tag = q.value
                   [] q.key = "author" -> p.author = q.value
                   [] q.key = "author_tag" -> p.author_tag = q.value}

Ask(s, q) ==
  /\ asks < MaxAsked /\ asks' = asks + 1
  /\ asked' = Append(asked, [screen |-> s, query |-> q, n |-> asks + 1,
                             had |-> posts])
  /\ newest' = IF q.key = "member" THEN newest
               ELSE [newest EXCEPT ![s] = asks + 1]

(* PostViewController.getPosts, tagSegmentChanged *)
BoardQuery(tag) ==
  IF tag = All THEN getAllPosts ELSE queryPost("article_tag", tag)
(* SearchViewController.getPosts: queryUserPosts, queryUserTagPosts         *)
SearchQuery(email, tag) ==
  IF tag = All THEN queryPost("author", email)
  ELSE queryPost("author_tag", email \o tag)

\* The segments of the search screen are in the view that is hidden.
tagSegmentChanged(s, tag) ==
  /\ ~screen[s].hidden /\ screen[s].tag # tag
  /\ screen' = [screen EXCEPT ![s].tag = tag]
  /\ Ask(s, IF s = "board" THEN BoardQuery(tag)
            ELSE SearchQuery(screen[s].email, tag))
  /\ UNCHANGED <<posts, author, shown>>

searchClick(email) ==
  Ask("search", searchMember(email)) /\ UNCHANGED <<posts, author, screen, shown>>

Rest(i) == SubSeq(asked, 1, i - 1) \o SubSeq(asked, i + 1, Len(asked))

(* A list is what the answer has, and empty when it has nothing.            *)
PostsFound(i) ==
  LET q == asked[i]
  IN  /\ q.query.key # "member"
      /\ screen' = [screen EXCEPT ![q.screen].posts = Matching(q.query)]
      /\ shown' = [shown EXCEPT ![q.screen] = q]
      /\ asked' = Rest(i) /\ UNCHANGED <<posts, author, asks, newest>>

(* searchClick: the member found is shown and his posts are asked for.      *)
MemberFound(i) ==
  LET q == asked[i]
      found == q.query.value
      next == SearchQuery(found, screen["search"].tag)
  IN  /\ q.query.key = "member" /\ found \in Members /\ asks < MaxAsked
      /\ screen' = [screen EXCEPT !["search"].email = found,
                                  !["search"].hidden = FALSE]
      /\ asks' = asks + 1 /\ newest' = [newest EXCEPT !["search"] = asks + 1]
      /\ asked' = Append(Rest(i), [screen |-> "search", query |-> next,
                                   n |-> asks + 1, had |-> posts])
      /\ UNCHANGED <<posts, author, shown>>
NobodyFound(i) ==
  /\ asked[i].query.key = "member" /\ asked[i].query.value \notin Members
  /\ screen' = [screen EXCEPT !["search"].hidden = TRUE]
  /\ asked' = Rest(i) /\ UNCHANGED <<posts, author, asks, newest, shown>>

-----------------------------------------------------------------------------
(* viewDidLoad: the list of all posts is asked for, no member is shown.     *)
Init ==
  /\ posts = {} /\ author \in Authors
  /\ screen = [board |-> [email |-> Nobody, tag |-> All, posts |-> {},
                          hidden |-> FALSE],
               search |-> [email |-> Nobody, tag |-> All, posts |-> {},
                           hidden |-> TRUE]]
  /\ asks = 1
  /\ asked = <<[screen |-> "board", query |-> getAllPosts, n |-> 1,
                had |-> {}]>>
  /\ newest = [s \in {"board", "search"} |-> IF s = "board" THEN 1 ELSE 0]
  /\ shown = [s \in {"board", "search"} |->
                [screen |-> s, query |-> getAllPosts, n |-> 0, had |-> {}]]

Next ==
  \/ \E tag \in Tags : postClick(tag)
  \/ \E from \in Members, tag \in Tags : OtherPost(from, tag)
  \/ \E s \in {"board", "search"}, tag \in Segments : tagSegmentChanged(s, tag)
  \/ \E email \in Emails : searchClick(email)
  \/ \E i \in DOMAIN asked : PostsFound(i) \/ MemberFound(i) \/ NobodyFound(i)

-----------------------------------------------------------------------------
\* The posts a screen should show: of the tag selected, by the member shown
Fitting(s, P) ==
  {p \in P : /\ screen[s].tag \in {All, p.article_tag}
             /\ s = "search" => p.author = screen[s].email}

(* Unless its newest query is not answered or its answer was overtaken, a   *)
(* list has exactly posts that were asked for: all that were there when the *)
(* segment was chosen or the member found, and none of another tag or       *)
(* author (getPosts, tagSegmentChanged, searchClick).                       *)
ListsAreRight ==
  \A s \in {"board", "search"} :
    shown[s].n > 0 /\ shown[s].n = newest[s] =>
      /\ Fitting(s, shown[s].had) \subseteq screen[s].posts
      /\ screen[s].posts \subseteq Fitting(s, posts)
=============================================================================
