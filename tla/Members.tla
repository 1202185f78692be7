------------------------------ MODULE Members ------------------------------
(***************************************************************************)
(* The accounts and the friend links of FirabaseDemo.                      *)
(*                                                                         *)
(* Every device runs the app: FirebaseManager.swift behind the log-in,     *)
(* search and profile screens.  All devices share one Firebase tree; the   *)
(* part that matters here is                                               *)
(*     /member/<key>/user_email                                            *)
(*     /member/<key>/friend/<other key>/invite_status                      *)
(* The app never writes that tree directly.  It hands each write to the    *)
(* realtime client library, which applies it locally at once, sends the    *)
(* writes of a device in the order they were made, keeps each until its    *)
(* acknowledgement, and sends all unacknowledged ones again after a lost   *)
(* connection; module PersistentConnection models how.  Persistence is off *)
(* (AppDelegate never enables it), so a killed app forgets its queue.      *)
(* A query is asked, answered some time later from the server's tree       *)
(* overlaid with the device's own pending writes, and its callback runs    *)
(* later still, on the main queue, in the order of the answers.            *)
(***************************************************************************)
EXTENDS Naturals, Sequences, FiniteSets

CONSTANTS
    Device,     \* the installations of the app
    Key,        \* the auto-ids a member can get
    Email,      \* the addresses users type
    None,       \* nil: no value in UserDefaults, no node in the tree
    Accounts,   \* the members that exist at the start: key |-> email
    Sessions,   \* what the devices' UserDefaults may hold at the start
    Budget,     \* BOUND: how many clicks of each kind the users make
    MaxDrops,   \* BOUND: connections lost while a write awaits its ack
    MaxKills    \* BOUND: times the system kills an app

Click == {"signUp", "logIn", "search", "add", "yes", "no"}

ASSUME NoneAssumption == None \notin Key /\ None \notin Email
ASSUME AccountsAssumption ==
    /\ DOMAIN Accounts \subseteq Key
    /\ \A k \in DOMAIN Accounts : Accounts[k] \in Email
    /\ Sessions \subseteq [Device -> DOMAIN Accounts \cup {None}]
ASSUME BudgetAssumption ==
    Budget \in [Click -> Nat] /\ MaxDrops \in Nat /\ MaxKills \in Nat

VARIABLES
    db,         \* the server's tree: emails and friend links
    userKey,    \* UserDefaults "userKey" of each device
    userEmail,  \* UserDefaults "userEmail" of each device
    outbox,     \* writes of each device the server has not acknowledged
    applied,    \* how many of those the server has applied on this connection
    asked,      \* queries in flight: how many of each
    inbox,      \* answered queries whose callback has not run, oldest first
    label,      \* the email of the visible search result, None when hidden
    canAdd,     \* whether its Add Friend button is enabled
    shown,      \* rows the friend list may still be showing
    taps, drops,    \* what is spent of each bound
    launches,   \* how often the app was relaunched on each device
    owner,      \* the email a key was handed out for, None while unused
    \* History the properties speak of; no action reads it.
    lost,       \* keys whose sign-up a killed app never sent
    switched,   \* devices that changed account since their launch
    invited,    \* pairs <<a, b>> such that a invited b
    accepted,   \* pairs <<a, b>> such that a accepted b's invitation
    strays      \* pairs a device confirmed after it had changed account

session == <<userKey, userEmail>>
queue   == <<outbox, applied>>
screen  == <<label, canAdd>>
history == <<lost, switched, invited, accepted, strays>>
vars    == <<db, session, queue, asked, inbox, screen, shown,
             taps, drops, launches, owner, history>>

-----------------------------------------------------------------------------
(* The tree and the writes made to it.                                     *)

Absent == "absent"
Status == {"pending_send", "pending_confirm", "valid"}
Tree   == [profile : [Key -> Email \cup {None}],
           link    : [Key -> [Key -> Status \cup {Absent}]]]

\* setValue at /member/k
SetMember(k, e) == [op |-> "set", from |-> k, email |-> e]
\* updateChildValues on the two friend entries of a pair, one atomic write
Update(a, b, mine, theirs) ==
    [op |-> "update", from |-> a, to |-> b, mine |-> mine, theirs |-> theirs]
Invite(a, b)  == Update(a, b, "pending_send", "pending_confirm")
\* Mutant: accepting leaves the inviter's half as it was.
Confirm_OneSide(a, b) == Update(a, b, "valid", "pending_send")
Confirm(a, b) == Update(a, b, "valid", "valid")
\* removeValue at /member/a/friend/b
Remove(a, b)  == [op |-> "remove", from |-> a, to |-> b]

Write == {SetMember(k, e) : k \in Key, e \in Email}
    \cup {Invite(a, b)  : a \in Key, b \in Key}
    \cup {Confirm(a, b) : a \in Key, b \in Key}
    \cup {Remove(a, b)  : a \in Key, b \in Key}

\* w writes /member/a/friend/b; setValue replaces the whole member node, the
\* friends under it included.
Touches(w, a, b) ==
    \/ w.op = "set" /\ w.from = a
    \/ w.op = "remove" /\ w.from = a /\ w.to = b
    \/ w.op = "update" /\ <<a, b>> \in {<<w.from, w.to>>, <<w.to, w.from>>}

\* ... and what it writes there
Effect(w, a) ==
    IF w.op = "update" THEN (IF w.from = a THEN w.mine ELSE w.theirs)
    ELSE Absent

Apply(t, w) ==
    [profile |-> [k \in Key |-> IF w.op = "set" /\ w.from = k THEN w.email
                                ELSE t.profile[k]],
     link |-> [a \in Key |-> [b \in Key |->
                   IF Touches(w, a, b) THEN Effect(w, a) ELSE t.link[a][b]]]]

\* What device d reads is the server's tree under its own pending writes:
\* the newest of those that touches a location wins.
Newest(i, T) == i \in T /\ \A j \in T : j <= i

SeesStatus(d, a, b, s) ==
    LET T == {i \in DOMAIN outbox[d] : Touches(outbox[d][i], a, b)} IN
    \/ T = {} /\ db.link[a][b] = s
    \/ \E i \in T : Newest(i, T) /\ Effect(outbox[d][i], a) = s

SeesEmail(d, k, e) ==
    LET T == {i \in DOMAIN outbox[d] :
                 outbox[d][i].op = "set" /\ outbox[d][i].from = k} IN
    \/ T = {} /\ db.profile[k] = e
    \/ \E i \in T : Newest(i, T) /\ outbox[d][i].email = e

\* queryOrdered(byChild: "user_email").queryEqual(toValue: e)
Matching(d, e) == {k \in Key : SeesEmail(d, k, e)}

Request == {r \in [op : {"signUp", "logIn", "search", "addFriend"},
                   email : Email, key : Key \cup {None}] :
               (r.op = "addFriend") = (r.key # None)}
Answered == [request : Request, match : SUBSET Key]

-----------------------------------------------------------------------------
Init ==
    /\ db = [profile |-> [k \in Key |-> IF k \in DOMAIN Accounts
                                        THEN Accounts[k] ELSE None],
             link |-> [k \in Key |-> [f \in Key |-> Absent]]]
    \* each device is freshly installed or was used for one of the accounts
    /\ userKey \in Sessions
    /\ userEmail = [d \in Device |-> IF userKey[d] = None THEN None
                                     ELSE Accounts[userKey[d]]]
    /\ outbox = [d \in Device |-> <<>>]
    /\ applied = [d \in Device |-> 0]
    /\ asked = [d \in Device |-> [r \in Request |-> 0]]
    /\ inbox = [d \in Device |-> <<>>]
    /\ label = [d \in Device |-> None]
    /\ canAdd = [d \in Device |-> FALSE]
    /\ shown = [d \in Device |-> {}]
    /\ taps = [c \in Click |-> 0]
    /\ drops = 0
    /\ launches = [d \in Device |-> 0]
    /\ owner = db.profile
    /\ lost = {}
    /\ switched = {}
    /\ invited = {}
    /\ accepted = {}
    /\ strays = {}

\* The user clicks, within the bound.
Tap(c) == taps[c] < Budget[c] /\ taps' = [taps EXCEPT ![c] = @ + 1]

Ask(d, r) == asked' = [asked EXCEPT ![d][r] = @ + 1]

\* Mutant: the newest write is sent first.
Enqueue_NewestFirst(d, ws) == outbox' = [outbox EXCEPT ![d] = ws \o @]
\* The library takes writes over: local effect at once, the server later.
Enqueue(d, ws) == outbox' = [outbox EXCEPT ![d] = @ \o ws]

\* The app process on d ends and is launched again: only UserDefaults stays.
Relaunch(d) ==
    /\ outbox' = [outbox EXCEPT ![d] = <<>>]
    /\ applied' = [applied EXCEPT ![d] = 0]
    /\ asked' = [asked EXCEPT ![d] = [r \in Request |-> 0]]
    /\ inbox' = [inbox EXCEPT ![d] = <<>>]
    /\ label' = [label EXCEPT ![d] = None]
    /\ canAdd' = [canAdd EXCEPT ![d] = FALSE]
    /\ shown' = [shown EXCEPT ![d] = {}]
    /\ lost' = lost \cup {w.from : w \in
                 {outbox[d][i] : i \in {j \in DOMAIN outbox[d] :
                     outbox[d][j].op = "set" /\ j > applied[d]}}}
    /\ switched' = switched \ {d}
    /\ launches' = [launches EXCEPT ![d] = @ + 1]
    /\ UNCHANGED <<db, session, drops, owner, invited>>

-----------------------------------------------------------------------------
(* The log-in screen.                                                      *)

\* enterClick with the segment on sign-up (c = "signUp") or on log-in
EnterClick(d, c, e) ==
    /\ Tap(c)
    /\ Ask(d, [op |-> c, email |-> e, key |-> None])
    /\ UNCHANGED <<db, session, queue, inbox, screen, shown, drops, launches,
                   owner, history>>

\* Answered query at the head of d's main queue, for the callback of op
Callback(d, op) ==
    /\ inbox[d] # <<>>
    /\ Head(inbox[d]).request.op = op
    /\ inbox' = [inbox EXCEPT ![d] = Tail(@)]

\* Mutant: the email of the previous account stays in UserDefaults.
SetSession_KeyOnly(d, k, e) ==
    /\ userKey' = [userKey EXCEPT ![d] = k]
    /\ UNCHANGED userEmail
    /\ switched' = IF userKey[d] \in {None, k} THEN switched
                   ELSE switched \cup {d}
SetSession(d, k, e) ==
    /\ userKey' = [userKey EXCEPT ![d] = k]
    /\ userEmail' = [userEmail EXCEPT ![d] = e]
    /\ switched' = IF userKey[d] \in {None, k} THEN switched
                   ELSE switched \cup {d}

\* callback of signUpUser: "User exists." or a new member and a session
SignUp(d) ==
    /\ Callback(d, "signUp")
    /\ LET ev == Head(inbox[d]) IN
       \/ /\ ev.match # {}
          /\ UNCHANGED <<session, outbox, owner, switched>>
       \/ /\ ev.match = {}
          /\ \E k \in Key :
               /\ owner[k] = None
               /\ Enqueue(d, <<SetMember(k, ev.request.email)>>)
               /\ SetSession(d, k, ev.request.email)
               /\ owner' = [owner EXCEPT ![k] = ev.request.email]
    /\ UNCHANGED <<db, applied, asked, screen, shown, taps, drops, launches,
                   lost, invited, accepted, strays>>

\* callback of logInUser: "User not exist." or allKeys[0], whichever that is
LogIn(d) ==
    /\ Callback(d, "logIn")
    /\ LET ev == Head(inbox[d]) IN
       \/ ev.match = {} /\ UNCHANGED <<session, switched>>
       \/ \E k \in ev.match : SetSession(d, k, ev.request.email)
    /\ UNCHANGED <<db, queue, asked, screen, shown, taps, drops, launches,
                   owner, lost, invited, accepted, strays>>

-----------------------------------------------------------------------------
(* The search screen.                                                      *)

SearchClick(d, e) ==
    /\ Tap("search")
    /\ Ask(d, [op |-> "search", email |-> e, key |-> None])
    /\ UNCHANGED <<db, session, queue, inbox, screen, shown, drops, launches,
                   owner, history>>

\* callback of searchMember(userEmail:) for searchClick
SearchResult(d) ==
    /\ Callback(d, "search")
    /\ LET ev == Head(inbox[d]) IN
       \/ /\ ev.match = {}
          /\ label' = [label EXCEPT ![d] = None]
          /\ UNCHANGED canAdd
       \/ /\ ev.match # {}
          /\ label' = [label EXCEPT ![d] = ev.request.email]
          /\ canAdd' = [canAdd EXCEPT ![d] = TRUE]
    /\ UNCHANGED <<db, session, queue, asked, shown, taps, drops, launches,
                   owner, history>>

\* The button is disabled even if nobody is logged in and nothing is asked.
AddFriendClick(d) ==
    /\ label[d] # None /\ canAdd[d]
    /\ label[d] # userEmail[d]
    /\ Tap("add")
    /\ canAdd' = [canAdd EXCEPT ![d] = FALSE]
    /\ \/ userKey[d] = None /\ UNCHANGED asked
       \/ /\ userKey[d] # None
          /\ Ask(d, [op |-> "addFriend", email |-> label[d],
                     key |-> userKey[d]])
    /\ UNCHANGED <<db, session, queue, inbox, label, shown, drops, launches,
                   owner, history>>

\* callback of searchMember(userEmail:) for addFriend: whatever the pair's
\* status was, it becomes an invitation.
AddFriend(d) ==
    /\ Callback(d, "addFriend")
    /\ LET ev == Head(inbox[d]) IN
       \/ ev.match = {} /\ UNCHANGED <<outbox, invited>>
       \/ \E f \in ev.match :
             /\ Enqueue(d, <<Invite(ev.request.key, f)>>)
             /\ invited' = invited \cup {<<ev.request.key, f>>}
    /\ UNCHANGED <<db, session, applied, asked, screen, shown, taps, drops,
                   launches, owner, lost, switched, accepted, strays>>

-----------------------------------------------------------------------------
(* The profile screen.  Module FriendList models how its list is filled;   *)
(* here it may show every row that was right at some moment since launch.  *)

Refresh(d) ==
    LET me == userKey[d] IN
    /\ me # None
    /\ shown' = [shown EXCEPT ![d] = @ \cup
          {row \in Key \X Status :
              /\ SeesStatus(d, me, row[1], row[2])
              /\ \E e \in Email : SeesEmail(d, row[1], e)}]
    /\ UNCHANGED <<db, session, queue, asked, inbox, screen, taps, drops,
                   launches, owner, history>>

\* Mutant: the accept button is left enabled in the inviter's own row.
CanAccept_AnyPending(d, f) ==
    \E s \in {"pending_send", "pending_confirm"} : <<f, s>> \in shown[d]
\* the accept button: hidden for valid, disabled for pending_send
CanAccept(d, f) == <<f, "pending_confirm">> \in shown[d]
\* the other button: disabled for valid
CanDelete(d, f) ==
    \E s \in {"pending_send", "pending_confirm"} : <<f, s>> \in shown[d]

\* yesButtonClicked, enabled for pending_confirm: confirmFriend, for whoever
\* is logged in now.  With oneself, the dictionary literal traps.
YesClick(d, f) ==
    /\ CanAccept(d, f)
    /\ userKey[d] # None
    /\ Tap("yes")
    /\ \/ /\ f # userKey[d]
          /\ Enqueue(d, <<Confirm(userKey[d], f)>>)
          /\ accepted' = accepted \cup {<<userKey[d], f>>}
          /\ strays' = IF d \in switched THEN strays \cup {{userKey[d], f}}
                       ELSE strays
          /\ UNCHANGED <<db, session, applied, asked, inbox, screen, shown,
                         drops, launches, owner, lost, switched, invited>>
       \/ /\ f = userKey[d]
          /\ Relaunch(d)
          /\ UNCHANGED <<accepted, strays>>

\* noButtonClicked, enabled while pending: deleteFriend, two separate writes
NoClick(d, f) ==
    /\ CanDelete(d, f)
    /\ userKey[d] # None
    /\ Tap("no")
    /\ Enqueue(d, <<Remove(userKey[d], f), Remove(f, userKey[d])>>)
    /\ UNCHANGED <<db, session, applied, asked, inbox, screen, shown, drops,
                   launches, owner, history>>

-----------------------------------------------------------------------------
(* The library and the server.                                             *)

\* The server answers a query of d; the event waits for the main queue.
Answer(d, r) ==
    /\ asked[d][r] > 0
    /\ asked' = [asked EXCEPT ![d][r] = @ - 1]
    /\ inbox' = [inbox EXCEPT ![d] =
                   Append(@, [request |-> r, match |-> Matching(d, r.email)])]
    /\ UNCHANGED <<db, session, queue, screen, shown, taps, drops, launches,
                   owner, history>>

\* The server applies the next write of d's connection.
Deliver(d) ==
    /\ applied[d] < Len(outbox[d])
    /\ db' = Apply(db, outbox[d][applied[d] + 1])
    /\ applied' = [applied EXCEPT ![d] = @ + 1]
    /\ UNCHANGED <<session, outbox, asked, inbox, screen, shown, taps, drops,
                   launches, owner, history>>

\* Mutant: the count of applied writes is not moved with the queue.
Ack_KeepsCount(d) ==
    /\ applied[d] > 0
    /\ outbox' = [outbox EXCEPT ![d] = Tail(@)]
    /\ UNCHANGED <<db, session, applied, asked, inbox, screen, shown, taps,
                   drops, launches, owner, history>>

\* The acknowledgement of the oldest write arrives.
Ack(d) ==
    /\ applied[d] > 0
    /\ outbox' = [outbox EXCEPT ![d] = Tail(@)]
    /\ applied' = [applied EXCEPT ![d] = @ - 1]
    /\ UNCHANGED <<db, session, asked, inbox, screen, shown, taps, drops,
                   launches, owner, history>>

\* Mutant: what was in flight when the connection was lost is forgotten.
Reconnect_Forgets(d) ==
    /\ applied[d] > 0 /\ drops < MaxDrops
    /\ drops' = drops + 1
    /\ outbox' = [outbox EXCEPT ![d] = <<>>]
    /\ applied' = [applied EXCEPT ![d] = 0]
    /\ UNCHANGED <<db, session, asked, inbox, screen, shown, taps, launches,
                   owner, history>>

\* The connection is lost and restored: every pending write is sent again,
\* those the server has already applied included.
Reconnect(d) ==
    /\ applied[d] > 0 /\ drops < MaxDrops
    /\ drops' = drops + 1
    /\ applied' = [applied EXCEPT ![d] = 0]
    /\ UNCHANGED <<db, session, outbox, asked, inbox, screen, shown, taps,
                   launches, owner, history>>

Kill(d) ==
    /\ launches[d] < MaxKills
    /\ Relaunch(d)
    /\ UNCHANGED <<taps, accepted, strays>>

Next == \E d \in Device :
    \/ \E e \in Email, c \in {"signUp", "logIn"} : EnterClick(d, c, e)
    \/ \E e \in Email : SearchClick(d, e)
    \/ SignUp(d) \/ LogIn(d) \/ SearchResult(d) \/ AddFriend(d)
    \/ AddFriendClick(d)
    \/ Refresh(d)
    \/ \E f \in Key : YesClick(d, f) \/ NoClick(d, f)
    \/ \E r \in Request : Answer(d, r)
    \/ Deliver(d) \/ Ack(d) \/ Reconnect(d) \/ Kill(d)

\* A connected client is answered, its callbacks run and its writes arrive;
\* nobody has to click, and no connection or process has to fail.
Fairness == \A d \in Device :
    /\ \A r \in Request : WF_vars(Answer(d, r))
    /\ WF_vars(SignUp(d) \/ LogIn(d) \/ SearchResult(d) \/ AddFriend(d))
    /\ WF_vars(Deliver(d))
    /\ WF_vars(Ack(d))

Spec == Init /\ [][Next]_vars /\ Fairness

-----------------------------------------------------------------------------
TreeOK == db \in Tree
SessionOK ==
    /\ userKey \in [Device -> Key \cup {None}]
    /\ userEmail \in [Device -> Email \cup {None}]
QueueOK ==
    /\ outbox \in [Device -> Seq(Write)]
    /\ applied \in [Device -> Nat]
    /\ \A d \in Device : applied[d] <= Len(outbox[d])
QueryOK ==
    /\ asked \in [Device -> [Request -> Nat]]
    /\ inbox \in [Device -> Seq(Answered)]
ScreenOK ==
    /\ label \in [Device -> Email \cup {None}]
    /\ canAdd \in [Device -> BOOLEAN]
    /\ shown \in [Device -> SUBSET (Key \X Status)]
SpentOK ==
    /\ taps \in [Click -> Nat] /\ drops \in Nat
    /\ launches \in [Device -> Nat]
    /\ owner \in [Key -> Email \cup {None}]
HistoryOK ==
    /\ lost \in SUBSET Key /\ switched \in SUBSET Device
    /\ invited \in SUBSET (Key \X Key) /\ accepted \in SUBSET (Key \X Key)
    /\ strays \in SUBSET (SUBSET Key)

TypeOK ==
    /\ TreeOK /\ SessionOK /\ QueueOK /\ QueryOK /\ ScreenOK
    /\ SpentOK /\ HistoryOK

-----------------------------------------------------------------------------
(* What goes right although updates, removals, crashes and repeated        *)
(* deliveries of several devices interleave.                               *)

\* The two sides of a friendship never contradict each other: they are the
\* two halves of one invitation or both "valid"; a half may be missing,
\* because deleteFriend removes the halves one by one and a repeated sign-up
\* write clears the friends it overwrites (updateChildValues in addFriend and
\* confirmFriend, the two removeValue calls of deleteFriend).
HalvesAgree(x, y) ==
    \/ x = Absent \/ y = Absent
    \/ x = "valid" /\ y = "valid"
    \/ {x, y} = {"pending_send", "pending_confirm"}
PairConsistent ==
    \A a, b \in Key : a # b => HalvesAgree(db.link[a][b], db.link[b][a])

\* addFriend never runs with the user's own key among the matches, where its
\* dictionary literal would trap: the own email is refused at the click, the
\* search is answered later, and key and email of the session always match
\* (addFriendClick, setUserKey and setUserEmail in signUpUser and logInUser).
AddNeverTargetsSelf ==
    \A d \in Device : \A i \in DOMAIN inbox[d] :
        LET ev == inbox[d][i] IN
        ev.request.op = "addFriend" => ev.request.key \notin ev.match

\* A member with friends but without an email is one whose sign-up was still
\* queued when its app was killed: signUpUser stores the key in UserDefaults
\* before the server has the member, so only the order of a device's writes
\* keeps such ghosts out.
GhostOnlyAfterKill ==
    \A k, f \in Key :
        db.link[k][f] # Absent =>
            /\ db.profile[k] # None \/ k \in lost
            /\ db.profile[f] # None \/ f \in lost

\* A valid friendship was wanted by both: one invited, the other accepted that
\* invitation.  The exception is a device that changed account while rows of
\* the old account could still arrive (yesButtonClicked takes the row's id and
\* whatever key is logged in now).
ValidWasWanted ==
    \A a, b \in Key :
        db.link[a][b] = "valid" =>
            \/ <<a, b>> \in invited /\ <<b, a>> \in accepted
            \/ <<b, a>> \in invited /\ <<a, b>> \in accepted
            \/ {a, b} \in strays

\* w waits on d for the server to apply it
Queued(d, w) == \E i \in DOMAIN outbox[d] : i > applied[d] /\ outbox[d][i] = w

\* Unless the app is killed, both removals of a deleteFriend reach the server
\* even if the connection is lost in between: the half-deleted friendship is
\* not left behind (ref.removeValue twice, restoreState on reconnect).
DeleteReachesBothSides ==
    \A d \in Device, n \in 0..MaxKills :
    \A a \in Key : \A b \in Key \ {a} :
        Queued(d, Remove(a, b)) /\ launches[d] = n
            ~> db.link[a][b] = Absent \/ launches[d] > n
=============================================================================
