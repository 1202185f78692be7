----------------------------- MODULE FriendList -----------------------------
(***************************************************************************)
(* The friend list of ProfileViewController on one device whose user was   *)
(* logged in when the app was launched: the table of friends and           *)
(* invitations, filled by callbacks.                                       *)
(*                                                                         *)
(* TabBarViewController observes the user's friend links and posts         *)
(* UPDATE_FRIEND for each one added, changed or removed.  Each             *)
(* notification empties the list and asks three queries, one per status;   *)
(* each of their answers asks one query per member; each of those answers  *)
(* appends a row, and the last of them redraws the table.  Everything the  *)
(* app does runs on the main queue, which is `inbox`.  The library answers *)
(* the queries: those for links from the observed node, those for members  *)
(* from the server, one listen per member at a time.                       *)
(* The links are module Members' db under this device's pending writes.    *)
(***************************************************************************)
EXTENDS Naturals, Sequences, SequencesExt

CONSTANTS
    Member,     \* the members the user may be linked with
    Start,      \* the links and the ghosts there may be at launch
    Absent,     \* no link
    MaxSteps    \* BOUND: how often others change a link or the user taps

Tags    == <<"valid", "pending_send", "pending_confirm">>
Pending == {"pending_send", "pending_confirm"}
Status  == ToSet(Tags)

ASSUME MemberAssumption == IsFiniteSet(Member)
ASSUME LinkAssumption ==
    /\ Absent \notin Status
    /\ Start \subseteq [links : [Member -> Status \cup {Absent}],
                        ghosts : SUBSET Member]
ASSUME BoundAssumption == MaxSteps \in Nat

VARIABLES
    links,      \* /member/<user>/friend as this device sees it
    ghosts,     \* members without a profile in the tree
    observing,  \* observeFriend has got its first answer
    loaded,     \* viewDidLoad has run: the tab was opened
    inbox,      \* the main queue
    asked,      \* getFriends queries not answered yet, by tag
    line,       \* members with a listen in flight, in the order sent
    waiting,    \* member queries that wait for a member's listen
    friends,    \* the controller's array
    drawn,      \* the rows of the table as last drawn
    steps,      \* what is spent of the bound
    clean       \* history: the array comes from one undisturbed refresh

tree  == <<links, ghosts>>
query == <<asked, line, waiting>>
list  == <<friends, drawn>>
vars  == <<tree, observing, loaded, inbox, query, list, steps, clean>>

Row  == [id : Member, status : Status]
\* success and complete of getFriends: the row to append, and whether the
\* member was the last one of the answer
Want == [row : Row, last : BOOLEAN]

Update == [kind |-> "update"]
Wanted(w) == [kind |-> "member", want |-> w]
List(tag, ids) == [kind |-> "list", tag |-> tag, ids |-> ids]

OfKind(kind) == {i \in DOMAIN inbox : inbox[i].kind = kind}
\* Nothing asked by an earlier refresh is still to come.
Idle ==
    /\ asked = <<>> /\ line = <<>>
    /\ OfKind("list") \cup OfKind("member") = {}

Linked == {f \in Member : links[f] # Absent}

-----------------------------------------------------------------------------
Init ==
    /\ \E start \in Start : links = start.links /\ ghosts = start.ghosts
    /\ observing = FALSE
    /\ loaded = FALSE
    /\ inbox = <<>>
    /\ asked = <<>>
    /\ line = <<>>
    /\ waiting = [f \in Member |-> <<>>]
    /\ friends = <<>> /\ drawn = <<>>
    /\ steps = 0
    /\ clean = FALSE

\* Mutant: childRemoved is not observed.
SetLink_NotRemoved(f, s) ==
    /\ links' = [links EXCEPT ![f] = s]
    /\ inbox' = IF observing /\ links[f] # s /\ s # Absent
                THEN Append(inbox, Update) ELSE inbox
\* Mutant: childChanged is not observed.
SetLink_NotChanged(f, s) ==
    /\ links' = [links EXCEPT ![f] = s]
    /\ inbox' = IF observing /\ links[f] # s /\ Absent \in {s, links[f]}
                THEN Append(inbox, Update) ELSE inbox
\* A link is set or removed; the observers of observeFriend see the change.
SetLink(f, s) ==
    /\ links' = [links EXCEPT ![f] = s]
    /\ inbox' = IF observing /\ links[f] # s THEN Append(inbox, Update)
                ELSE inbox

Step == steps < MaxSteps /\ steps' = steps + 1

\* The other side, or another device of this user, changes a link.
Change(f, s) ==
    /\ Step
    /\ links[f] # s
    /\ SetLink(f, s)
    /\ UNCHANGED <<ghosts, observing, loaded, query, list, clean>>

\* observeFriend's first answer: childAdded for every link
ObserveFriend ==
    /\ ~observing
    /\ observing' = TRUE
    /\ inbox' = inbox \o [i \in 1..Cardinality(Linked) |-> Update]
    /\ UNCHANGED <<tree, loaded, query, list, steps, clean>>

-----------------------------------------------------------------------------
(* ProfileViewController.                                                  *)

\* Mutant: the table is not told that the array was emptied.
GatFriends_NoReload ==
    /\ friends' = <<>>
    /\ UNCHANGED drawn
    /\ asked' = asked \o Tags
    /\ clean' = Idle
\* gatFriends
GatFriends ==
    /\ friends' = <<>>
    /\ drawn' = <<>>
    /\ asked' = asked \o Tags
    /\ clean' = Idle

\* viewDidLoad; setProfile fills two labels nothing reads and is left out.
ViewDidLoad ==
    /\ ~loaded
    /\ loaded' = TRUE
    /\ GatFriends
    /\ UNCHANGED <<tree, observing, inbox, line, waiting, steps>>

Runs(kind) ==
    /\ inbox # <<>>
    /\ Head(inbox).kind = kind

\* updateFriendList; before viewDidLoad nobody receives the notification.
UpdateFriendList ==
    /\ Runs("update")
    /\ inbox' = Tail(inbox)
    /\ \/ loaded /\ GatFriends
       \/ ~loaded /\ UNCHANGED <<friends, drawn, asked, clean>>
    /\ UNCHANGED <<tree, observing, loaded, line, waiting, steps>>

\* Some member query on f is answered but its callback has not run: the
\* library still has the member's data and answers at once.
Cached(f) == \E i \in OfKind("member") : inbox[i].want.row.id = f

\* Mutant: every member query gets a listen of its own.
NeedsListen_Always(f) == TRUE
NeedsListen(f) == f \notin ToSet(line)

\* What happens with each element of a list, in the order of the list.
InOrder(S) ==
    {s \in [1..Cardinality(S) -> S] : \A i, j \in DOMAIN s : i < j => s[i] < s[j]}

\* The callback of getFriends: searchMember for every member of the answer
FriendsFound ==
    /\ Runs("list")
    /\ LET ids == Head(inbox).ids
           want(i) == [row |-> [id |-> ids[i], status |-> Head(inbox).tag],
                       last |-> i = Len(ids)]
           later == {i \in DOMAIN ids : ~Cached(ids[i])}
       IN
       /\ \E now \in InOrder(DOMAIN ids \ later) :
              inbox' = Tail(inbox) \o [i \in DOMAIN now |-> Wanted(want(now[i]))]
       /\ \E new \in InOrder({i \in later : NeedsListen(ids[i])}) :
              line' = line \o [i \in DOMAIN new |-> ids[new[i]]]
       /\ waiting' = [f \in Member |->
             IF \E i \in later : ids[i] = f
             THEN Append(waiting[f], want(CHOOSE i \in later : ids[i] = f))
             ELSE waiting[f]]
    /\ UNCHANGED <<tree, observing, loaded, asked, list, steps, clean>>

\* The callback of searchMember: without a name and an email it does nothing.
MemberFound ==
    /\ Runs("member")
    /\ inbox' = Tail(inbox)
    /\ LET w == Head(inbox).want IN
       \/ /\ w.row.id \in ghosts
          /\ clean' = FALSE
          /\ UNCHANGED list
       \/ /\ w.row.id \notin ghosts
          /\ friends' = Append(friends, w.row)
          /\ \/ w.last /\ drawn' = friends'
             \/ ~w.last /\ UNCHANGED drawn
          /\ UNCHANGED clean
    /\ UNCHANGED <<tree, observing, loaded, query, steps>>

\* A tap on a button acts on friends[sender.tag], whatever that is now.
YesButtonClicked(i) ==
    /\ drawn[i].status = "pending_confirm"
    /\ Step
    /\ SetLink(friends[i].id, "valid")
    /\ UNCHANGED <<ghosts, observing, loaded, query, list, clean>>

NoButtonClicked(i) ==
    /\ drawn[i].status \in Pending
    /\ Step
    /\ SetLink(friends[i].id, Absent)
    /\ UNCHANGED <<ghosts, observing, loaded, query, list, clean>>

-----------------------------------------------------------------------------
(* The library.                                                            *)

\* The members with one status, in the order of an NSDictionary's keys: any
AnswerList ==
    /\ observing
    /\ asked # <<>>
    /\ asked' = Tail(asked)
    /\ \E ids \in SetToSeqs({f \in Member : links[f] = Head(asked)}) :
           inbox' = Append(inbox, List(Head(asked), ids))
    /\ UNCHANGED <<tree, observing, loaded, line, waiting, list, steps, clean>>

\* The server answers the oldest listen; every query on that member is served.
AnswerMember ==
    /\ line # <<>>
    /\ LET f == Head(line) IN
       /\ inbox' = inbox \o
             [i \in DOMAIN waiting[f] |-> Wanted(waiting[f][i])]
       /\ waiting' = [waiting EXCEPT ![f] = <<>>]
    /\ line' = Tail(line)
    /\ UNCHANGED <<tree, observing, loaded, asked, list, steps, clean>>

MainQueue == UpdateFriendList \/ FriendsFound \/ MemberFound

Next ==
    \/ \E f \in Member, s \in Status \cup {Absent} : Change(f, s)
    \/ ObserveFriend
    \/ ViewDidLoad
    \/ MainQueue
    \/ \E i \in DOMAIN drawn : YesButtonClicked(i) \/ NoButtonClicked(i)
    \/ AnswerList
    \/ AnswerMember

\* Queries are answered and blocks of the main queue run; nobody has to open
\* the tab, tap or change a link.
Fairness ==
    /\ WF_vars(ObserveFriend)
    /\ WF_vars(MainQueue)
    /\ WF_vars(AnswerList)
    /\ WF_vars(AnswerMember)

Spec == Init /\ [][Next]_vars /\ Fairness

-----------------------------------------------------------------------------
TypeOK ==
    /\ links \in [Member -> Status \cup {Absent}]
    /\ ghosts \in SUBSET Member
    /\ observing \in BOOLEAN /\ loaded \in BOOLEAN /\ clean \in BOOLEAN
    /\ \A i \in OfKind("list") : inbox[i].ids \in Seq(Member)
    /\ \A i \in OfKind("member") : inbox[i].want \in Want
    /\ asked \in Seq(Status)
    /\ line \in Seq(Member) /\ IsInjective(line)
    /\ waiting \in [Member -> Seq(Want)]
    /\ \A f \in Member : waiting[f] # <<>> <=> f \in ToSet(line)
    /\ friends \in Seq(Row) /\ drawn \in Seq(Row)

\* A tap always acts on the row the user saw, and never on an index past the
\* array, although refreshes empty and refill the array under a drawn table
\* (yesButtonClicked and noButtonClicked index friends by sender.tag).
TapMeansDrawnRow == IsPrefix(drawn, friends)

\* When all callbacks of an undisturbed refresh have run, the table shows
\* every link exactly once with its current status, although the three
\* queries see the links at different times (gatFriends; the complete of
\* getFriends, called for the last member only).  Overlapping refreshes and
\* members without a profile do leave duplicate, stale or undrawn rows.
CleanListIsRight ==
    Idle /\ OfKind("update") = {} /\ clean =>
        /\ drawn = friends
        /\ IsInjective(friends)
        /\ ToSet(friends) = {[id |-> f, status |-> links[f]] : f \in Linked}

\* Once the links stop changing, the opened list has a row for every linked
\* member with a profile and its current status, however refreshes overlap
\* (observeFriend, updateFriendList).
ListCatchesUp ==
    <>[](loaded => \A f \in Linked \ ghosts :
             [id |-> f, status |-> links[f]] \in ToSet(friends))
=============================================================================
