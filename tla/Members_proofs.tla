--------------------------- MODULE Members_proofs ---------------------------
(***************************************************************************)
(* Proofs about module Members, for any devices, keys, addresses, start    *)
(* and bounds.                                                             *)
(***************************************************************************)
EXTENDS Members, TLAPS

-----------------------------------------------------------------------------
(* The writes and the tree.                                                *)

\* The four writes the app makes are writes.
LEMMA WritesAreWrites ==
    /\ \A k \in Key, e \in Email : SetMember(k, e) \in Write
    /\ \A a, b \in Key : Invite(a, b) \in Write
    /\ \A a, b \in Key : Confirm(a, b) \in Write
    /\ \A a, b \in Key : Remove(a, b) \in Write
BY DEF Write

\* Every kind of write, with the fields it has
LEMMA WriteCases ==
    ASSUME NEW w \in Write
    PROVE  \/ \E k \in Key, e \in Email : w = SetMember(k, e)
           \/ \E a, b \in Key : w = Invite(a, b)
           \/ \E a, b \in Key : w = Confirm(a, b)
           \/ \E a, b \in Key : w = Remove(a, b)
BY DEF Write

\* A write leaves a tree.
LEMMA ApplyType ==
    ASSUME NEW t \in Tree, NEW w \in Write
    PROVE  Apply(t, w) \in Tree
<1>1. \A a \in Key : Effect(w, a) \in Status \cup {Absent}
  BY WriteCases DEF Effect, SetMember, Invite, Confirm, Update, Remove, Status
<1>2. w.op = "set" => w.email \in Email
  BY WriteCases DEF SetMember, Invite, Confirm, Update, Remove
<1>3. /\ t.profile \in [Key -> Email \cup {None}]
      /\ t.link \in [Key -> [Key -> Status \cup {Absent}]]
  BY DEF Tree
<1>4. [k \in Key |-> IF w.op = "set" /\ w.from = k THEN w.email
                     ELSE t.profile[k]] \in [Key -> Email \cup {None}]
  BY <1>2, <1>3
<1>5. [a \in Key |-> [b \in Key |->
          IF Touches(w, a, b) THEN Effect(w, a) ELSE t.link[a][b]]]
      \in [Key -> [Key -> Status \cup {Absent}]]
  BY <1>1, <1>3
<1>. QED  BY <1>4, <1>5 DEF Apply, Tree

-----------------------------------------------------------------------------
(* Type correctness.                                                       *)

\* Adding to a queue keeps the queues well-formed.
LEMMA EnqueueType ==
    ASSUME TypeOK, NEW d \in Device, NEW ws \in Seq(Write),
           Enqueue(d, ws), UNCHANGED applied
    PROVE  QueueOK'
<1>1. outbox[d] \o ws \in Seq(Write) /\ Len(outbox[d] \o ws) >= Len(outbox[d])
  BY DEF TypeOK, QueueOK
<1>. QED  BY <1>1 DEF TypeOK, QueueOK, Enqueue

\* Taking the head of the main queue keeps it well-formed.
LEMMA CallbackType ==
    ASSUME TypeOK, NEW d \in Device, NEW op, Callback(d, op)
    PROVE  /\ inbox' \in [Device -> Seq(Answered)]
           /\ Head(inbox[d]) \in Answered
<1>1. inbox[d] \in Seq(Answered) /\ inbox[d] # <<>>
  BY DEF TypeOK, QueryOK, Callback
<1>2. Tail(inbox[d]) \in Seq(Answered) /\ Head(inbox[d]) \in Answered
  BY <1>1
<1>. QED  BY <1>2 DEF TypeOK, QueryOK, Callback

\* A query that is asked is counted.
LEMMA AskType ==
    ASSUME TypeOK, NEW d \in Device, NEW r \in Request, Ask(d, r),
           UNCHANGED inbox
    PROVE  QueryOK'
BY DEF TypeOK, QueryOK, Ask

\* A relaunch leaves a device with empty queues and screens.
LEMMA RelaunchType ==
    ASSUME TypeOK, NEW d \in Device, Relaunch(d)
    PROVE  /\ TreeOK' /\ SessionOK' /\ QueueOK' /\ QueryOK' /\ ScreenOK'
           /\ drops' \in Nat /\ launches' \in [Device -> Nat]
           /\ owner' \in [Key -> Email \cup {None}]
           /\ lost' \in SUBSET Key /\ switched' \in SUBSET Device
           /\ invited' \in SUBSET (Key \X Key)
<1>. USE DEF TypeOK, Relaunch
<1>1. TreeOK' /\ SessionOK'
  BY DEF TreeOK, SessionOK, session
<1>2. QueueOK'
  BY DEF QueueOK
<1>3. QueryOK'
  BY DEF QueryOK
<1>4. ScreenOK'
  BY DEF ScreenOK
<1>5. /\ drops' \in Nat /\ launches' \in [Device -> Nat]
      /\ owner' \in [Key -> Email \cup {None}]
  BY DEF SpentOK
<1>6. \A w \in Write : w.from \in Key
  BY WriteCases DEF SetMember, Invite, Confirm, Update, Remove
<1>7. \A j \in DOMAIN outbox[d] : outbox[d][j] \in Write
  BY DEF QueueOK
<1>8. lost' \in SUBSET Key
  BY <1>6, <1>7 DEF HistoryOK
<1>9. switched' \in SUBSET Device /\ invited' \in SUBSET (Key \X Key)
  BY DEF HistoryOK
<1>. QED  BY <1>1, <1>2, <1>3, <1>4, <1>5, <1>8, <1>9

\* A session is set to a key and an address.
LEMMA SetSessionType ==
    ASSUME TypeOK, NEW d \in Device, NEW k \in Key, NEW e \in Email,
           SetSession(d, k, e)
    PROVE  SessionOK' /\ switched' \in SUBSET Device
BY DEF TypeOK, SessionOK, HistoryOK, SetSession

\* The initial states are well-typed.
LEMMA InitType == Init => TypeOK
<1>. SUFFICES ASSUME Init PROVE TypeOK
  OBVIOUS
<1>. USE AccountsAssumption DEF Init
<1>1. TreeOK
  BY DEF TreeOK, Tree
<1>2. userKey \in [Device -> DOMAIN Accounts \cup {None}]
  OBVIOUS
<1>3. SessionOK
  BY <1>2 DEF SessionOK
<1>4. QueueOK /\ QueryOK
  BY DEF QueueOK, QueryOK
<1>5. ScreenOK /\ HistoryOK
  BY DEF ScreenOK, HistoryOK
<1>6. SpentOK
  BY DEF SpentOK
<1>. QED  BY <1>1, <1>3, <1>4, <1>5, <1>6 DEF TypeOK

\* Clicks of the log-in and the search screen
LEMMA ClickType ==
    ASSUME TypeOK, NEW d \in Device,
           \/ \E e \in Email, c \in {"signUp", "logIn"} : EnterClick(d, c, e)
           \/ \E e \in Email : SearchClick(d, e)
           \/ AddFriendClick(d)
    PROVE  TypeOK'
<1>. USE DEF TypeOK
<1>1. ASSUME NEW e \in Email, NEW c \in {"signUp", "logIn"},
             EnterClick(d, c, e)
      PROVE  TypeOK'
  <2>1. [op |-> c, email |-> e, key |-> None] \in Request
    BY DEF Request
  <2>2. QueryOK'
    BY <1>1, <2>1, AskType DEF EnterClick
  <2>3. SpentOK'
    BY <1>1 DEF EnterClick, Tap, SpentOK, Click
  <2>. QED
    BY <1>1, <2>2, <2>3 DEF EnterClick, session, queue, screen, history,
       TreeOK, SessionOK, QueueOK, ScreenOK, HistoryOK
<1>2. ASSUME NEW e \in Email, SearchClick(d, e)
      PROVE  TypeOK'
  <2>1. [op |-> "search", email |-> e, key |-> None] \in Request
    BY DEF Request
  <2>2. QueryOK'
    BY <1>2, <2>1, AskType DEF SearchClick
  <2>3. SpentOK'
    BY <1>2 DEF SearchClick, Tap, SpentOK, Click
  <2>. QED
    BY <1>2, <2>2, <2>3 DEF SearchClick, session, queue, screen, history,
       TreeOK, SessionOK, QueueOK, ScreenOK, HistoryOK
<1>3. ASSUME AddFriendClick(d)
      PROVE  TypeOK'
  <2>1. QueryOK'
    <3>1. CASE userKey[d] = None
      BY <1>3, <3>1 DEF AddFriendClick, QueryOK
    <3>2. CASE userKey[d] # None
      <4>1. label[d] \in Email /\ userKey[d] \in Key
        BY <1>3, <3>2 DEF AddFriendClick, ScreenOK, SessionOK
      <4>2. [op |-> "addFriend", email |-> label[d], key |-> userKey[d]]
              \in Request
        BY <4>1, NoneAssumption DEF Request
      <4>. QED
        BY <1>3, <3>2, <4>2, AskType DEF AddFriendClick
    <3>. QED  BY <3>1, <3>2
  <2>2. ScreenOK'
    BY <1>3 DEF AddFriendClick, ScreenOK
  <2>3. SpentOK'
    BY <1>3 DEF AddFriendClick, Tap, SpentOK, Click
  <2>. QED
    BY <1>3, <2>1, <2>2, <2>3 DEF AddFriendClick, session, queue, history,
       TreeOK, SessionOK, QueueOK, HistoryOK
<1>. QED  BY <1>1, <1>2, <1>3
\* Callbacks of the log-in and the search screen
LEMMA CallbacksType ==
    ASSUME TypeOK, NEW d \in Device,
           SignUp(d) \/ LogIn(d) \/ SearchResult(d) \/ AddFriend(d)
    PROVE  TypeOK'
<1>. USE DEF TypeOK
<1>. DEFINE ev == Head(inbox[d])
<1>0. /\ inbox' \in [Device -> Seq(Answered)]
      /\ ev.request \in Request /\ ev.match \in SUBSET Key
  <2>1. PICK op : Callback(d, op)
    BY DEF SignUp, LogIn, SearchResult, AddFriend
  <2>. QED  BY <2>1, CallbackType DEF Answered
<1>e. ev.request.email \in Email
  BY <1>0 DEF Request
<1>1. CASE SignUp(d)
  <2>0. QueryOK'
    BY <1>0, <1>1 DEF SignUp, QueryOK
  <2>1. CASE ev.match # {}
    BY <1>1, <2>0, <2>1 DEF SignUp, session, TreeOK, SessionOK, QueueOK,
       screen, ScreenOK, SpentOK, HistoryOK
  <2>2. CASE ev.match = {}
    <3>1. PICK k \in Key :
             /\ Enqueue(d, <<SetMember(k, ev.request.email)>>)
             /\ SetSession(d, k, ev.request.email)
             /\ owner' = [owner EXCEPT ![k] = ev.request.email]
      BY <1>1, <2>2 DEF SignUp
    <3>2. <<SetMember(k, ev.request.email)>> \in Seq(Write)
      BY <1>e, WritesAreWrites
    <3>3. QueueOK'
      BY <1>1, <3>1, <3>2, EnqueueType DEF SignUp
    <3>4. SessionOK' /\ switched' \in SUBSET Device
      BY <1>e, <3>1, SetSessionType
    <3>5. SpentOK'
      BY <1>1, <1>e, <3>1 DEF SignUp, SpentOK
    <3>. QED
      BY <1>1, <2>0, <3>3, <3>4, <3>5 DEF SignUp, TreeOK, screen, ScreenOK,
         HistoryOK
  <2>. QED  BY <2>1, <2>2
<1>2. CASE LogIn(d)
  <2>0. QueryOK'
    BY <1>0, <1>2 DEF LogIn, QueryOK
  <2>1. SessionOK' /\ switched' \in SUBSET Device
    <3>1. CASE UNCHANGED <<session, switched>>
      BY <3>1 DEF session, SessionOK, HistoryOK
    <3>2. CASE \E k \in ev.match : SetSession(d, k, ev.request.email)
      BY <1>0, <1>e, <3>2, SetSessionType
    <3>. QED  BY <1>2, <3>1, <3>2 DEF LogIn
  <2>. QED
    BY <1>2, <2>0, <2>1 DEF LogIn, queue, screen, TreeOK, QueueOK, ScreenOK,
       SpentOK, HistoryOK
<1>3. CASE SearchResult(d)
  <2>0. QueryOK'
    BY <1>0, <1>3 DEF SearchResult, QueryOK
  <2>1. ScreenOK'
    BY <1>3, <1>e DEF SearchResult, ScreenOK
  <2>. QED
    BY <1>3, <2>0, <2>1 DEF SearchResult, session, queue, history, TreeOK,
       SessionOK, QueueOK, SpentOK, HistoryOK
<1>4. CASE AddFriend(d)
  <2>0. QueryOK'
    BY <1>0, <1>4 DEF AddFriend, QueryOK
  <2>1. QueueOK' /\ invited' \in SUBSET (Key \X Key)
    <3>1. CASE UNCHANGED <<outbox, invited>>
      BY <1>4, <3>1 DEF AddFriend, QueueOK, HistoryOK
    <3>2. CASE \E f \in ev.match :
                 /\ Enqueue(d, <<Invite(ev.request.key, f)>>)
                 /\ invited' = invited \cup {<<ev.request.key, f>>}
      <4>1. ev.request.key \in Key
        BY <1>0, <1>4 DEF AddFriend, Callback, Request
      <4>2. PICK f \in Key :
                 /\ Enqueue(d, <<Invite(ev.request.key, f)>>)
                 /\ invited' = invited \cup {<<ev.request.key, f>>}
        BY <1>0, <3>2
      <4>3. <<Invite(ev.request.key, f)>> \in Seq(Write)
        BY <4>1, WritesAreWrites
      <4>4. QueueOK'
        BY <1>4, <4>2, <4>3, EnqueueType DEF AddFriend
      <4>. QED  BY <4>1, <4>2, <4>4 DEF HistoryOK
    <3>. QED  BY <1>4, <3>1, <3>2 DEF AddFriend
  <2>. QED
    BY <1>4, <2>0, <2>1 DEF AddFriend, session, screen, TreeOK, SessionOK,
       ScreenOK, SpentOK, HistoryOK
<1>. QED  BY <1>1, <1>2, <1>3, <1>4

\* The profile screen
LEMMA ProfileType ==
    ASSUME TypeOK, NEW d \in Device,
           \/ Refresh(d)
           \/ \E f \in Key : YesClick(d, f) \/ NoClick(d, f)
    PROVE  TypeOK'
<1>. USE DEF TypeOK
<1>1. CASE Refresh(d)
  <2>1. ScreenOK'
    BY <1>1 DEF Refresh, screen, ScreenOK
  <2>. QED
    BY <1>1, <2>1 DEF Refresh, session, queue, screen, history, TreeOK,
       SessionOK, QueueOK, QueryOK, SpentOK, HistoryOK
<1>2. ASSUME NEW f \in Key, YesClick(d, f)
      PROVE  TypeOK'
  <2>0. taps' \in [Click -> Nat] /\ userKey[d] \in Key
    BY <1>2 DEF YesClick, Tap, SpentOK, Click, SessionOK
  <2>1. CASE f # userKey[d]
    <3>1. <<Confirm(userKey[d], f)>> \in Seq(Write)
      BY <2>0, WritesAreWrites
    <3>2. QueueOK'
      BY <1>2, <2>1, <3>1, EnqueueType DEF YesClick
    <3>3. HistoryOK'
      BY <1>2, <2>0, <2>1 DEF YesClick, HistoryOK
    <3>4. SpentOK'
      BY <1>2, <2>0, <2>1 DEF YesClick, SpentOK
    <3>. QED
      BY <1>2, <2>1, <3>2, <3>3, <3>4 DEF YesClick, session, screen, TreeOK,
         SessionOK, QueryOK, ScreenOK
  <2>2. CASE f = userKey[d]
    BY <1>2, <2>0, <2>2, RelaunchType DEF YesClick, SpentOK, HistoryOK
  <2>. QED  BY <2>1, <2>2
<1>3. ASSUME NEW f \in Key, NoClick(d, f)
      PROVE  TypeOK'
  <2>0. taps' \in [Click -> Nat] /\ userKey[d] \in Key
    BY <1>3 DEF NoClick, Tap, SpentOK, Click, SessionOK
  <2>1. <<Remove(userKey[d], f), Remove(f, userKey[d])>> \in Seq(Write)
    BY <2>0, WritesAreWrites
  <2>2. QueueOK'
    BY <1>3, <2>1, EnqueueType DEF NoClick
  <2>3. SpentOK'
    BY <1>3, <2>0 DEF NoClick, SpentOK
  <2>. QED
    BY <1>3, <2>2, <2>3 DEF NoClick, session, screen, history, TreeOK,
       SessionOK, QueryOK, ScreenOK, HistoryOK
<1>. QED  BY <1>1, <1>2, <1>3

\* The library and the server
LEMMA LibraryType ==
    ASSUME TypeOK, NEW d \in Device,
           \/ \E r \in Request : Answer(d, r)
           \/ Deliver(d) \/ Ack(d) \/ Reconnect(d) \/ Kill(d)
    PROVE  TypeOK'
<1>. USE DEF TypeOK
<1>1. ASSUME NEW r \in Request, Answer(d, r)
      PROVE  TypeOK'
  <2>1. [request |-> r, match |-> Matching(d, r.email)] \in Answered
    BY DEF Answered, Matching
  <2>2. inbox' \in [Device -> Seq(Answered)]
    BY <1>1, <2>1 DEF Answer, QueryOK
  <2>3. asked' \in [Device -> [Request -> Nat]]
    BY <1>1 DEF Answer, QueryOK
  <2>. QED
    BY <1>1, <2>2, <2>3 DEF Answer, session, queue, screen, history, TreeOK,
       SessionOK, QueueOK, QueryOK, ScreenOK, SpentOK, HistoryOK
<1>2. CASE Deliver(d)
  <2>1. outbox[d][applied[d] + 1] \in Write
    BY <1>2 DEF Deliver, QueueOK
  <2>2. TreeOK'
    BY <1>2, <2>1, ApplyType DEF Deliver, TreeOK
  <2>3. QueueOK'
    BY <1>2 DEF Deliver, QueueOK
  <2>. QED
    BY <1>2, <2>2, <2>3 DEF Deliver, session, screen, history, SessionOK,
       QueryOK, ScreenOK, SpentOK, HistoryOK
<1>3. CASE Ack(d)
  <2>1. outbox[d] # <<>> /\ outbox[d] \in Seq(Write)
    BY <1>3 DEF Ack, QueueOK
  <2>2. /\ Tail(outbox[d]) \in Seq(Write)
        /\ Len(Tail(outbox[d])) = Len(outbox[d]) - 1
    BY <2>1
  <2>3. QueueOK'
    BY <1>3, <2>2 DEF Ack, QueueOK
  <2>. QED
    BY <1>3, <2>3 DEF Ack, session, screen, history, TreeOK, SessionOK,
       QueryOK, ScreenOK, SpentOK, HistoryOK
<1>4. CASE Reconnect(d)
  <2>1. QueueOK' /\ SpentOK'
    BY <1>4 DEF Reconnect, QueueOK, SpentOK
  <2>. QED
    BY <1>4, <2>1 DEF Reconnect, session, screen, history, TreeOK, SessionOK,
       QueryOK, ScreenOK, HistoryOK
<1>5. CASE Kill(d)
  BY <1>5, RelaunchType DEF Kill, SpentOK, HistoryOK
<1>. QED  BY <1>1, <1>2, <1>3, <1>4, <1>5

\* Every step keeps the types.
LEMMA StepType ==
    ASSUME TypeOK, [Next]_vars
    PROVE  TypeOK'
<1>1. CASE Next
  BY <1>1, ClickType, CallbacksType, ProfileType, LibraryType DEF Next
<1>2. CASE UNCHANGED vars
  BY <1>2 DEF vars, session, queue, screen, history, TypeOK, TreeOK,
     SessionOK, QueueOK, QueryOK, ScreenOK, SpentOK, HistoryOK
<1>. QED  BY <1>1, <1>2

\* Every state of every run is well-typed.
THEOREM TypeCorrect == Spec => []TypeOK
BY InitType, StepType, PTL DEF Spec

-----------------------------------------------------------------------------
(* The two sides of a friendship.  The tree changes by Deliver alone, and   *)
(* every write touches both halves of a pair, or blanks what it touches:    *)
(* PairConsistent is inductive together with the type of the queues.        *)

\* A write leaves the halves of every pair in agreement.
LEMMA ApplyKeepsPairs ==
    ASSUME NEW t \in Tree, NEW w \in Write, NEW a \in Key, NEW b \in Key,
           a # b, HalvesAgree(t.link[a][b], t.link[b][a])
    PROVE  HalvesAgree(Apply(t, w).link[a][b], Apply(t, w).link[b][a])
<1>1. \A x, y \in Key : Apply(t, w).link[x][y] =
          IF Touches(w, x, y) THEN Effect(w, x) ELSE t.link[x][y]
  BY DEF Apply
<1>2. CASE w.op # "update"
  <2>1. \A x \in Key : Effect(w, x) = Absent
    BY <1>2 DEF Effect
  <2>. QED  BY <1>1, <2>1 DEF HalvesAgree
<1>3. CASE w.op = "update"
  <2>1. Touches(w, a, b) <=> Touches(w, b, a)
    BY <1>3 DEF Touches
  <2>2. CASE ~Touches(w, a, b)
    BY <1>1, <2>1, <2>2
  <2>3. CASE Touches(w, a, b)
    <3>1. \/ w.from = a /\ Effect(w, a) = w.mine /\ Effect(w, b) = w.theirs
          \/ w.from = b /\ Effect(w, b) = w.mine /\ Effect(w, a) = w.theirs
      BY <1>3, <2>3 DEF Touches, Effect
    <3>2. \/ w.mine = "valid" /\ w.theirs = "valid"
          \/ w.mine = "pending_send" /\ w.theirs = "pending_confirm"
      BY <1>3, WriteCases
         DEF SetMember, Invite, Confirm, Update, Remove
    <3>3. HalvesAgree(Effect(w, a), Effect(w, b))
      BY <3>1, <3>2 DEF HalvesAgree
    <3>. QED  BY <1>1, <2>1, <2>3, <3>3
  <2>. QED  BY <2>2, <2>3
<1>. QED  BY <1>2, <1>3

\* The tree changes by a delivered write only.
LEMMA TreeChanges ==
    ASSUME [Next]_vars
    PROVE  UNCHANGED db \/ \E d \in Device : Deliver(d)
<1>. SUFFICES ASSUME NEW d \in Device, Next,
              \/ \E e \in Email, c \in {"signUp", "logIn"} :
                     EnterClick(d, c, e)
              \/ \E e \in Email : SearchClick(d, e)
              \/ SignUp(d) \/ LogIn(d) \/ SearchResult(d) \/ AddFriend(d)
              \/ AddFriendClick(d) \/ Refresh(d)
              \/ \E f \in Key : YesClick(d, f) \/ NoClick(d, f)
              \/ \E r \in Request : Answer(d, r)
              \/ Ack(d) \/ Reconnect(d) \/ Kill(d)
     PROVE UNCHANGED db
  BY DEF Next, vars
<1>. QED
  BY DEF EnterClick, SearchClick, SignUp, LogIn, SearchResult, AddFriend,
     AddFriendClick, Refresh, YesClick, NoClick, Answer, Ack, Reconnect, Kill,
     Relaunch

\* The two sides of a friendship never contradict each other.
THEOREM PairsConsistent == Spec => []PairConsistent
<1>1. Init => PairConsistent
  BY DEF Init, PairConsistent, HalvesAgree
<1>2. TypeOK /\ PairConsistent /\ [Next]_vars => PairConsistent'
  <2>. SUFFICES ASSUME TypeOK, PairConsistent, [Next]_vars
       PROVE PairConsistent'
    OBVIOUS
  <2>1. CASE UNCHANGED db
    BY <2>1 DEF PairConsistent
  <2>2. ASSUME NEW d \in Device, Deliver(d)
        PROVE  PairConsistent'
    <3>. DEFINE w == outbox[d][applied[d] + 1]
    <3>1. w \in Write /\ db \in Tree /\ db' = Apply(db, w)
      BY <2>2 DEF Deliver, TypeOK, QueueOK, TreeOK
    <3>. QED
      BY <3>1, ApplyKeepsPairs DEF PairConsistent
  <2>. QED  BY <2>1, <2>2, TreeChanges
<1>. QED  BY <1>1, <1>2, TypeCorrect, PTL DEF Spec

-----------------------------------------------------------------------------
(* What a step does to the queues and what it never takes back.            *)

\* What the app may hand to the library on device d
NewWrite(d, w) ==
    \/ \E k \in Key, e \in Email :
          w = SetMember(k, e) /\ owner[k] = None /\ owner'[k] = e
    \/ \E a \in Key, b \in Key :
          /\ w = Invite(a, b) /\ <<a, b>> \in invited'
          /\ inbox[d] # <<>> /\ Head(inbox[d]).request.op = "addFriend"
          /\ Head(inbox[d]).request.key = a /\ b \in Head(inbox[d]).match
    \/ \E f \in Key :
          /\ w = Confirm(userKey[d], f) /\ CanAccept(d, f)
          /\ userKey[d] \in Key /\ <<userKey[d], f>> \in accepted'
          /\ d \in switched => {userKey[d], f} \in strays'
    \/ \E a, b \in Key : w = Remove(a, b)

\* A new sign-up write has its key's address.
LEMMA NewSet ==
    ASSUME NEW d \in Device, NEW w, NewWrite(d, w), w.op = "set"
    PROVE  owner[w.from] = None /\ owner'[w.from] = w.email
<1>1. CASE \E k \in Key, e \in Email :
             w = SetMember(k, e) /\ owner[k] = None /\ owner'[k] = e
  BY <1>1 DEF SetMember
<1>2. CASE \E a, b \in Key : w = Invite(a, b)
  BY <1>2 DEF Invite, Update
<1>3. CASE \E a, b \in Key : w = Remove(a, b)
  BY <1>3 DEF Remove
<1>4. CASE \E f \in Key : w = Confirm(userKey[d], f)
  BY <1>4 DEF Confirm, Update
<1>. QED  BY <1>1, <1>2, <1>3, <1>4 DEF NewWrite

\* The app appends writes to one queue.
Enqueues(d) ==
    \E ws \in Seq(Write) :
        /\ Enqueue(d, ws) /\ UNCHANGED <<db, applied>>
        /\ \A i \in DOMAIN ws : NewWrite(d, ws[i])

\* One write is appended.
LEMMA EnqueuesOne ==
    ASSUME NEW d, NEW w \in Write, NewWrite(d, w), Enqueue(d, <<w>>),
           UNCHANGED <<db, applied>>
    PROVE  Enqueues(d)
<1>. DEFINE ws == <<w>>
<1>1. ws \in Seq(Write) /\ DOMAIN ws = {1} /\ ws[1] = w
  OBVIOUS
<1>. QED  BY <1>1 DEF Enqueues

\* Everything that happens to the queues
LEMMA QueueSteps ==
    ASSUME TypeOK, [Next]_vars
    PROVE  \/ UNCHANGED <<db, outbox, applied>>
           \/ \E d \in Device : Enqueues(d)
           \/ \E d \in Device : Deliver(d) \/ Ack(d) \/ Reconnect(d)
                                \/ Relaunch(d)
<1>. USE DEF TypeOK
<1>1. ASSUME NEW d \in Device, SignUp(d)
      PROVE  UNCHANGED <<db, outbox, applied>> \/ Enqueues(d)
  <2>. DEFINE ev == Head(inbox[d])
  <2>0. ev.request.email \in Email
    BY <1>1, CallbackType DEF SignUp, Answered, Request
  <2>1. CASE UNCHANGED outbox
    BY <1>1, <2>1 DEF SignUp
  <2>2. CASE \E k \in Key :
               /\ owner[k] = None
               /\ Enqueue(d, <<SetMember(k, ev.request.email)>>)
               /\ SetSession(d, k, ev.request.email)
               /\ owner' = [owner EXCEPT ![k] = ev.request.email]
    <3>1. PICK k \in Key :
               /\ owner[k] = None
               /\ Enqueue(d, <<SetMember(k, ev.request.email)>>)
               /\ owner' = [owner EXCEPT ![k] = ev.request.email]
      BY <2>2
    <3>2. owner'[k] = ev.request.email
      BY <3>1 DEF SpentOK
    <3>3. NewWrite(d, SetMember(k, ev.request.email))
      BY <2>0, <3>1, <3>2 DEF NewWrite
    <3>4. SetMember(k, ev.request.email) \in Write
      BY <2>0, WritesAreWrites
    <3>. QED  BY <1>1, <3>1, <3>3, <3>4, EnqueuesOne DEF SignUp
  <2>. QED  BY <1>1, <2>1, <2>2 DEF SignUp
<1>2. ASSUME NEW d \in Device, AddFriend(d)
      PROVE  UNCHANGED <<db, outbox, applied>> \/ Enqueues(d)
  <2>. DEFINE ev == Head(inbox[d])
  <2>0. ev.request.key \in Key /\ ev.match \in SUBSET Key
    BY <1>2, CallbackType DEF AddFriend, Callback, Answered, Request
  <2>1. CASE UNCHANGED outbox
    BY <1>2, <2>1 DEF AddFriend
  <2>2. CASE \E f \in ev.match :
               /\ Enqueue(d, <<Invite(ev.request.key, f)>>)
               /\ invited' = invited \cup {<<ev.request.key, f>>}
    <3>1. PICK f \in ev.match :
               /\ Enqueue(d, <<Invite(ev.request.key, f)>>)
               /\ invited' = invited \cup {<<ev.request.key, f>>}
      BY <2>2
    <3>2. NewWrite(d, Invite(ev.request.key, f))
      BY <1>2, <2>0, <3>1 DEF NewWrite, AddFriend, Callback
    <3>3. Invite(ev.request.key, f) \in Write
      BY <2>0, WritesAreWrites
    <3>. QED  BY <1>2, <3>1, <3>2, <3>3, EnqueuesOne DEF AddFriend
  <2>. QED  BY <1>2, <2>1, <2>2 DEF AddFriend
<1>3. ASSUME NEW d \in Device, NEW f \in Key, YesClick(d, f)
      PROVE  Relaunch(d) \/ Enqueues(d)
  <2>0. userKey[d] \in Key
    BY <1>3 DEF YesClick, SessionOK
  <2>1. CASE f # userKey[d]
    <3>1. NewWrite(d, Confirm(userKey[d], f))
      BY <1>3, <2>0, <2>1 DEF NewWrite, YesClick
    <3>2. Confirm(userKey[d], f) \in Write
      BY <2>0, WritesAreWrites
    <3>. QED  BY <1>3, <2>1, <3>1, <3>2, EnqueuesOne DEF YesClick
  <2>. QED  BY <1>3, <2>1 DEF YesClick
<1>4. ASSUME NEW d \in Device, NEW f \in Key, NoClick(d, f)
      PROVE  Enqueues(d)
  <2>. DEFINE ws == <<Remove(userKey[d], f), Remove(f, userKey[d])>>
  <2>0. userKey[d] \in Key
    BY <1>4 DEF NoClick, SessionOK
  <2>1. ws \in Seq(Write)
    BY <2>0, WritesAreWrites
  <2>2. \A i \in DOMAIN ws : NewWrite(d, ws[i])
    BY <2>0 DEF NewWrite
  <2>. QED  BY <1>4, <2>1, <2>2 DEF Enqueues, NoClick
<1>5. ASSUME NEW d \in Device,
             \/ \E e \in Email, c \in {"signUp", "logIn"} : EnterClick(d, c, e)
             \/ \E e \in Email : SearchClick(d, e)
             \/ LogIn(d) \/ SearchResult(d) \/ AddFriendClick(d) \/ Refresh(d)
             \/ \E r \in Request : Answer(d, r)
      PROVE  UNCHANGED <<db, outbox, applied>>
  BY <1>5 DEF EnterClick, SearchClick, LogIn, SearchResult, AddFriendClick,
     Refresh, Answer, queue
<1>6. ASSUME NEW d \in Device, Kill(d)
      PROVE  Relaunch(d)
  BY <1>6 DEF Kill
<1>7. CASE UNCHANGED vars
  BY <1>7 DEF vars, queue
<1>. QED  BY <1>1, <1>2, <1>3, <1>4, <1>5, <1>6, <1>7 DEF Next

\* A key keeps its address, and history only grows.
LEMMA NothingTakenBack ==
    ASSUME TypeOK, [Next]_vars
    PROVE  /\ \A k \in Key : owner[k] # None => owner'[k] = owner[k]
           /\ lost \subseteq lost' /\ invited \subseteq invited'
           /\ accepted \subseteq accepted' /\ strays \subseteq strays'
<1>. USE DEF TypeOK, SpentOK
<1>1. ASSUME NEW d \in Device, SignUp(d)
      PROVE  /\ \A k \in Key : owner[k] # None => owner'[k] = owner[k]
             /\ UNCHANGED <<lost, invited, accepted, strays>>
  BY <1>1 DEF SignUp
<1>2. ASSUME NEW d \in Device, AddFriend(d)
      PROVE  UNCHANGED <<owner, lost, accepted, strays>>
             /\ invited \subseteq invited'
  BY <1>2 DEF AddFriend
<1>3. ASSUME NEW d \in Device, NEW f \in Key, YesClick(d, f)
      PROVE  /\ UNCHANGED <<owner, invited>> /\ lost \subseteq lost'
             /\ accepted \subseteq accepted' /\ strays \subseteq strays'
  BY <1>3 DEF YesClick, Relaunch
<1>4. ASSUME NEW d \in Device, Kill(d)
      PROVE  UNCHANGED <<owner, invited, accepted, strays>>
             /\ lost \subseteq lost'
  BY <1>4 DEF Kill, Relaunch
<1>5. ASSUME NEW d \in Device,
             \/ \E e \in Email, c \in {"signUp", "logIn"} : EnterClick(d, c, e)
             \/ \E e \in Email : SearchClick(d, e)
             \/ LogIn(d) \/ SearchResult(d) \/ AddFriendClick(d) \/ Refresh(d)
             \/ \E f \in Key : NoClick(d, f)
             \/ \E r \in Request : Answer(d, r)
             \/ Deliver(d) \/ Ack(d) \/ Reconnect(d)
      PROVE  UNCHANGED <<owner, lost, invited, accepted, strays>>
  BY <1>5 DEF EnterClick, SearchClick, LogIn, SearchResult, AddFriendClick,
     Refresh, NoClick, Answer, Deliver, Ack, Reconnect, history
<1>6. CASE UNCHANGED vars
  BY <1>6 DEF vars, history
<1>. QED  BY <1>1, <1>2, <1>3, <1>4, <1>5, <1>6 DEF Next

\* A write in a queue was there before or is new.
LEMMA QueueAfter ==
    ASSUME TypeOK, [Next]_vars, NEW x \in Device, NEW i \in DOMAIN outbox'[x]
    PROVE  \/ \E j \in DOMAIN outbox[x] : outbox'[x][i] = outbox[x][j]
           \/ NewWrite(x, outbox'[x][i])
<1>0. outbox \in [Device -> Seq(Write)] /\ outbox[x] \in Seq(Write)
  BY DEF TypeOK, QueueOK
<1>1. CASE outbox'[x] = outbox[x]
  BY <1>1
<1>2. ASSUME NEW d \in Device, d = x, Enqueues(d)
      PROVE  \/ \E j \in DOMAIN outbox[x] : outbox'[x][i] = outbox[x][j]
             \/ NewWrite(x, outbox'[x][i])
  <2>1. PICK ws \in Seq(Write) :
           /\ Enqueue(x, ws)
           /\ \A j \in DOMAIN ws : NewWrite(x, ws[j])
    BY <1>2 DEF Enqueues
  <2>2. outbox'[x] = outbox[x] \o ws
    BY <1>0, <2>1 DEF Enqueue
  <2>3. CASE i <= Len(outbox[x])
    BY <1>0, <2>2, <2>3
  <2>4. CASE i > Len(outbox[x])
    <3>1. i - Len(outbox[x]) \in DOMAIN ws
          /\ outbox'[x][i] = ws[i - Len(outbox[x])]
      BY <1>0, <2>2, <2>4
    <3>. QED  BY <2>1, <3>1
  <2>5. i \in Nat /\ Len(outbox[x]) \in Nat
    BY <1>0, <2>2
  <2>. QED  BY <2>3, <2>4, <2>5
<1>3. ASSUME NEW d \in Device, d = x, Ack(d)
      PROVE  \E j \in DOMAIN outbox[x] : outbox'[x][i] = outbox[x][j]
  <2>1. outbox[x] # <<>> /\ outbox'[x] = Tail(outbox[x])
    BY <1>0, <1>3 DEF Ack, TypeOK, QueueOK
  <2>2. i + 1 \in DOMAIN outbox[x] /\ outbox'[x][i] = outbox[x][i + 1]
    BY <1>0, <2>1
  <2>. QED  BY <2>2
<1>4. ASSUME NEW d \in Device, d = x, Relaunch(d)
      PROVE  FALSE
  BY <1>0, <1>4 DEF Relaunch
<1>5. CASE outbox'[x] # outbox[x]
  <2>1. ASSUME NEW d \in Device, Enqueues(d) PROVE d = x
    BY <1>0, <1>5, <2>1 DEF Enqueues, Enqueue
  <2>2. ASSUME NEW d \in Device, Deliver(d) \/ Reconnect(d) PROVE FALSE
    BY <1>5, <2>2 DEF Deliver, Reconnect
  <2>3. ASSUME NEW d \in Device, Ack(d) \/ Relaunch(d) PROVE d = x
    BY <1>0, <1>5, <2>3 DEF Ack, Relaunch
  <2>. QED  BY <1>2, <1>3, <1>4, <1>5, <2>1, <2>2, <2>3, QueueSteps
<1>. QED  BY <1>1, <1>5

\* A session changes when a member signs up or is found by a log-in.
LEMMA SessionSteps ==
    ASSUME TypeOK, [Next]_vars
    PROVE  \/ UNCHANGED session /\ switched' \subseteq switched
              /\ \A d \in switched \ switched' : Relaunch(d)
           \/ \E d \in Device, k \in Key, e \in Email :
                 /\ SetSession(d, k, e)
                 /\ UNCHANGED <<db, shown, invited, lost>>
                 /\ \/ owner'[k] = e /\ Enqueue(d, <<SetMember(k, e)>>)
                    \/ /\ inbox[d] # <<>> /\ UNCHANGED <<outbox, owner>>
                       /\ k \in Head(inbox[d]).match
                       /\ e = Head(inbox[d]).request.email
<1>. USE DEF TypeOK
<1>1. ASSUME NEW d \in Device, SignUp(d)
      PROVE  \/ UNCHANGED <<session, switched>>
             \/ \E k \in Key, e \in Email :
                 /\ SetSession(d, k, e)
                 /\ UNCHANGED <<db, shown, invited, lost>>
                 /\ owner'[k] = e /\ Enqueue(d, <<SetMember(k, e)>>)
  <2>1. Head(inbox[d]).request.email \in Email
    BY <1>1, CallbackType DEF SignUp, Answered, Request
  <2>. QED  BY <1>1, <2>1 DEF SignUp, SpentOK
<1>2. ASSUME NEW d \in Device, LogIn(d)
      PROVE  \/ UNCHANGED <<session, switched>>
             \/ \E k \in Key, e \in Email :
                 /\ SetSession(d, k, e)
                 /\ UNCHANGED <<db, shown, invited, lost>>
                 /\ inbox[d] # <<>> /\ UNCHANGED <<outbox, owner>>
                 /\ k \in Head(inbox[d]).match
                 /\ e = Head(inbox[d]).request.email
  <2>1. Head(inbox[d]).request.email \in Email
        /\ Head(inbox[d]).match \subseteq Key
    BY <1>2, CallbackType DEF LogIn, Answered, Request
  <2>. QED  BY <1>2, <2>1 DEF LogIn, Callback, queue
<1>3. ASSUME NEW d \in Device, Relaunch(d)
      PROVE  UNCHANGED session /\ switched' \subseteq switched
             /\ \A x \in switched \ switched' : Relaunch(x)
  BY <1>3 DEF Relaunch
<1>4. ASSUME NEW d \in Device, NEW f \in Key, YesClick(d, f)
      PROVE  UNCHANGED <<session, switched>> \/ Relaunch(d)
  BY <1>4 DEF YesClick
<1>5. ASSUME NEW d \in Device,
             \/ \E e \in Email, c \in {"signUp", "logIn"} : EnterClick(d, c, e)
             \/ \E e \in Email : SearchClick(d, e)
             \/ SearchResult(d) \/ AddFriend(d) \/ AddFriendClick(d)
             \/ Refresh(d)
             \/ \E f \in Key : NoClick(d, f)
             \/ \E r \in Request : Answer(d, r)
             \/ Deliver(d) \/ Ack(d) \/ Reconnect(d)
      PROVE  UNCHANGED <<session, switched>>
  BY <1>5 DEF EnterClick, SearchClick, SearchResult, AddFriend,
     AddFriendClick, Refresh, NoClick, Answer, Deliver, Ack, Reconnect, history
<1>6. ASSUME NEW d \in Device, Kill(d) PROVE Relaunch(d)
  BY <1>6 DEF Kill
<1>7. CASE UNCHANGED vars
  BY <1>7 DEF vars, history
<1>. QED  BY <1>1, <1>2, <1>3, <1>4, <1>5, <1>6, <1>7 DEF Next

\* A query in flight was so before, or is no invitation, or was asked by the
\* user logged in for the address on the screen.
LEMMA AskedAfter ==
    ASSUME TypeOK, [Next]_vars, NEW x \in Device, NEW r \in Request,
           asked'[x][r] > 0
    PROVE  \/ asked[x][r] > 0
           \/ r.op # "addFriend"
           \/ /\ r.key = userKey[x] /\ r.email = label[x]
              /\ label[x] # userEmail[x] /\ userKey[x] # None
<1>0. asked \in [Device -> [Request -> Nat]]
  BY DEF TypeOK, QueryOK
<1>1. ASSUME NEW d \in Device, NEW q \in Request, Ask(d, q)
      PROVE  asked[x][r] > 0 \/ (d = x /\ q = r)
  BY <1>0, <1>1 DEF Ask
<1>2. ASSUME NEW d \in Device, NEW e \in Email, NEW c \in {"signUp", "logIn"},
             EnterClick(d, c, e)
      PROVE  asked[x][r] > 0 \/ r.op # "addFriend"
  <2>. DEFINE q == [op |-> c, email |-> e, key |-> None]
  <2>1. q \in Request /\ q.op # "addFriend"
    BY DEF Request
  <2>. QED  BY <1>1, <1>2, <2>1 DEF EnterClick
<1>3. ASSUME NEW d \in Device, NEW e \in Email, SearchClick(d, e)
      PROVE  asked[x][r] > 0 \/ r.op # "addFriend"
  <2>. DEFINE q == [op |-> "search", email |-> e, key |-> None]
  <2>1. q \in Request /\ q.op # "addFriend"
    BY DEF Request
  <2>. QED  BY <1>1, <1>3, <2>1 DEF SearchClick
<1>4. ASSUME NEW d \in Device, AddFriendClick(d)
      PROVE  \/ asked[x][r] > 0
             \/ /\ r.key = userKey[x] /\ r.email = label[x]
                /\ label[x] # userEmail[x] /\ userKey[x] # None
  <2>1. CASE UNCHANGED asked
    BY <2>1
  <2>2. CASE userKey[d] # None
    <3>. DEFINE q == [op |-> "addFriend", email |-> label[d],
                      key |-> userKey[d]]
    <3>1. q \in Request
      BY <1>4, <2>2, NoneAssumption
         DEF AddFriendClick, Request, TypeOK, ScreenOK, SessionOK
    <3>2. Ask(d, q)
      BY <1>4, <2>2 DEF AddFriendClick
    <3>. QED  BY <1>1, <1>4, <2>2, <3>1, <3>2 DEF AddFriendClick
  <2>. QED  BY <1>4, <2>1, <2>2 DEF AddFriendClick
<1>5. ASSUME NEW d \in Device, NEW q \in Request, Answer(d, q)
      PROVE  asked[x][r] > 0
  BY <1>0, <1>5 DEF Answer
<1>6. ASSUME NEW d \in Device, Relaunch(d)
      PROVE  asked[x][r] > 0
  BY <1>0, <1>6 DEF Relaunch
<1>7. ASSUME NEW d \in Device,
             \/ SignUp(d) \/ LogIn(d) \/ SearchResult(d) \/ AddFriend(d)
             \/ Refresh(d) \/ \E f \in Key : NoClick(d, f)
             \/ Deliver(d) \/ Ack(d) \/ Reconnect(d)
      PROVE  UNCHANGED asked
  BY <1>7 DEF SignUp, LogIn, SearchResult, AddFriend, Refresh, NoClick,
     Deliver, Ack, Reconnect
<1>8. ASSUME NEW d \in Device, \/ Kill(d) \/ \E f \in Key : YesClick(d, f)
      PROVE  UNCHANGED asked \/ Relaunch(d)
  BY <1>8 DEF Kill, YesClick
<1>9. CASE UNCHANGED vars
  BY <1>9 DEF vars
<1>. QED  BY <1>2, <1>3, <1>4, <1>5, <1>6, <1>7, <1>8, <1>9 DEF Next

\* An answer that waits did so before, or has just been given from the tree
\* as the device sees it.
LEMMA InboxAfter ==
    ASSUME TypeOK, [Next]_vars, NEW x \in Device, NEW i \in DOMAIN inbox'[x]
    PROVE  \/ \E j \in DOMAIN inbox[x] : inbox'[x][i] = inbox[x][j]
           \/ \E r \in Request :
                 /\ asked[x][r] > 0 /\ UNCHANGED <<db, outbox, owner, lost>>
                 /\ inbox'[x][i] = [request |-> r,
                                    match |-> Matching(x, r.email)]
<1>0. inbox \in [Device -> Seq(Answered)] /\ inbox[x] \in Seq(Answered)
  BY DEF TypeOK, QueryOK
<1>1. CASE inbox'[x] = inbox[x]
  BY <1>1
<1>2. ASSUME NEW d \in Device, NEW op, Callback(d, op), inbox'[x] # inbox[x]
      PROVE  \E j \in DOMAIN inbox[x] : inbox'[x][i] = inbox[x][j]
  <2>1. d = x /\ inbox[x] # <<>> /\ inbox'[x] = Tail(inbox[x])
    BY <1>0, <1>2 DEF Callback
  <2>2. i + 1 \in DOMAIN inbox[x] /\ inbox'[x][i] = inbox[x][i + 1]
    BY <1>0, <2>1
  <2>. QED  BY <2>2
<1>3. ASSUME NEW d \in Device,
             SignUp(d) \/ LogIn(d) \/ SearchResult(d) \/ AddFriend(d)
      PROVE  \E op : Callback(d, op)
  BY <1>3 DEF SignUp, LogIn, SearchResult, AddFriend
<1>4. ASSUME NEW d \in Device, NEW r \in Request, Answer(d, r),
             inbox'[x] # inbox[x]
      PROVE  \/ \E j \in DOMAIN inbox[x] : inbox'[x][i] = inbox[x][j]
             \/ /\ asked[x][r] > 0 /\ UNCHANGED <<db, outbox, owner, lost>>
                /\ inbox'[x][i] = [request |-> r,
                                   match |-> Matching(x, r.email)]
  <2>. DEFINE ev == [request |-> r, match |-> Matching(x, r.email)]
  <2>1. d = x /\ inbox'[x] = Append(inbox[x], ev)
    BY <1>0, <1>4 DEF Answer
  <2>2. i \in 1..Len(inbox[x]) + 1 /\ Len(inbox[x]) \in Nat
        /\ inbox'[x][i] = IF i = Len(inbox[x]) + 1 THEN ev ELSE inbox[x][i]
    BY <1>0, <2>1
  <2>3. asked[x][r] > 0 /\ UNCHANGED <<db, outbox, owner, lost>>
    BY <1>4, <2>1 DEF Answer, queue, history
  <2>. QED  BY <1>0, <2>2, <2>3
<1>5. ASSUME NEW d \in Device, Relaunch(d), inbox'[x] # inbox[x]
      PROVE  FALSE
  BY <1>0, <1>5 DEF Relaunch
<1>6. ASSUME NEW d \in Device,
             \/ \E e \in Email, c \in {"signUp", "logIn"} : EnterClick(d, c, e)
             \/ \E e \in Email : SearchClick(d, e)
             \/ AddFriendClick(d) \/ Refresh(d)
             \/ \E f \in Key : NoClick(d, f)
             \/ Deliver(d) \/ Ack(d) \/ Reconnect(d)
      PROVE  UNCHANGED inbox
  BY <1>6 DEF EnterClick, SearchClick, AddFriendClick, Refresh, NoClick,
     Deliver, Ack, Reconnect
<1>7. ASSUME NEW d \in Device, \/ Kill(d) \/ \E f \in Key : YesClick(d, f)
      PROVE  UNCHANGED inbox \/ Relaunch(d)
  BY <1>7 DEF Kill, YesClick
<1>8. CASE UNCHANGED vars
  BY <1>8 DEF vars
<1>. QED  BY <1>1, <1>2, <1>3, <1>4, <1>5, <1>6, <1>7, <1>8 DEF Next


\* A row that can be accepted could be before, or the profile screen has just
\* read it from the tree as the device sees it; a relaunch shows no row.
LEMMA ShownAfter ==
    ASSUME TypeOK, [Next]_vars, NEW x \in Device, NEW f \in Key,
           CanAccept(x, f)'
    PROVE  /\ ~Relaunch(x)
           /\ \/ CanAccept(x, f)
              \/ /\ userKey[x] # None
                 /\ SeesStatus(x, userKey[x], f, "pending_confirm")
                 /\ \E e \in Email : SeesEmail(x, f, e)
                 /\ UNCHANGED session
<1>0. shown \in [Device -> SUBSET (Key \X Status)]
  BY DEF TypeOK, ScreenOK
<1>1. ASSUME NEW d \in Device, Refresh(d)
      PROVE  \/ CanAccept(x, f)
             \/ /\ userKey[x] # None
                /\ SeesStatus(x, userKey[x], f, "pending_confirm")
                /\ \E e \in Email : SeesEmail(x, f, e)
                /\ UNCHANGED session
  <2>1. CASE d # x
    BY <1>0, <1>1, <2>1 DEF Refresh, CanAccept
  <2>2. CASE d = x
    <3>. DEFINE new == {row \in Key \X Status :
                  /\ SeesStatus(x, userKey[x], row[1], row[2])
                  /\ \E e \in Email : SeesEmail(x, row[1], e)}
    <3>1. shown'[x] = shown[x] \cup new
      BY <1>0, <1>1, <2>2 DEF Refresh
    <3>2. CASE <<f, "pending_confirm">> \in shown[x]
      BY <3>2 DEF CanAccept
    <3>3. CASE <<f, "pending_confirm">> \in new
      BY <1>1, <2>2, <3>3 DEF Refresh
    <3>. QED  BY <3>1, <3>2, <3>3 DEF CanAccept
  <2>. QED  BY <2>1, <2>2
<1>2. ASSUME NEW d \in Device, Relaunch(d)
      PROVE  CanAccept(x, f)
  BY <1>0, <1>2 DEF Relaunch, CanAccept
<1>3. ASSUME NEW d \in Device,
             \/ \E e \in Email, c \in {"signUp", "logIn"} : EnterClick(d, c, e)
             \/ \E e \in Email : SearchClick(d, e)
             \/ SignUp(d) \/ LogIn(d) \/ SearchResult(d) \/ AddFriend(d)
             \/ AddFriendClick(d) \/ \E g \in Key : NoClick(d, g)
             \/ \E r \in Request : Answer(d, r)
             \/ Deliver(d) \/ Ack(d) \/ Reconnect(d)
      PROVE  UNCHANGED shown
  BY <1>3 DEF EnterClick, SearchClick, SignUp, LogIn, SearchResult, AddFriend,
     AddFriendClick, NoClick, Answer, Deliver, Ack, Reconnect, screen
<1>4. ASSUME NEW d \in Device, \/ Kill(d) \/ \E g \in Key : YesClick(d, g)
      PROVE  UNCHANGED shown \/ Relaunch(d)
  BY <1>4 DEF Kill, YesClick
<1>5. UNCHANGED vars => UNCHANGED shown
  BY DEF vars
<1>6. ~Relaunch(x)
  BY <1>0 DEF Relaunch, CanAccept
<1>7. UNCHANGED shown => CanAccept(x, f)
  BY DEF CanAccept
<1>. QED  BY <1>1, <1>2, <1>3, <1>4, <1>5, <1>6, <1>7 DEF Next

-----------------------------------------------------------------------------
(* addFriend never meets the user's own key.  Every address the app sees,  *)
(* in the tree, in a queue, in a session or in an answer, is the one its   *)
(* key was handed out for; so a key found under another address than the   *)
(* session's is another key.                                               *)

ProfilesOwned ==
    \A k \in Key : db.profile[k] # None => db.profile[k] = owner[k]

QueuesOwned ==
    \A x \in Device : \A i \in DOMAIN outbox[x] :
        LET w == outbox[x][i] IN
        w.op = "set" => owner[w.from] = w.email

SessionsOwned ==
    \A x \in Device :
        userKey[x] # None => /\ userEmail[x] # None
                             /\ owner[userKey[x]] = userEmail[x]

\* An invitation under way goes out from a key with another address.
GoesElsewhere(r) ==
    r.op = "addFriend" => owner[r.key] # None /\ owner[r.key] # r.email

AskedElsewhere ==
    \A x \in Device : \A r \in Request : asked[x][r] > 0 => GoesElsewhere(r)

AnswersOwned ==
    \A x \in Device : \A i \in DOMAIN inbox[x] :
        LET ev == inbox[x][i] IN
        /\ GoesElsewhere(ev.request)
        /\ \A k \in ev.match : owner[k] = ev.request.email

OwnersInv == /\ ProfilesOwned /\ QueuesOwned /\ SessionsOwned
             /\ AskedElsewhere /\ AnswersOwned

\* A query finds a key under no address but its own.
LEMMA SeenEmailOwned ==
    ASSUME TypeOK, ProfilesOwned, QueuesOwned, NEW x \in Device,
           NEW k \in Key, NEW e \in Email, SeesEmail(x, k, e)
    PROVE  owner[k] = e
<1>1. CASE db.profile[k] = e
  BY <1>1, NoneAssumption DEF ProfilesOwned
<1>2. CASE \E i \in DOMAIN outbox[x] :
              outbox[x][i].op = "set" /\ outbox[x][i].from = k
              /\ outbox[x][i].email = e
  BY <1>2 DEF QueuesOwned
<1>. QED  BY <1>1, <1>2 DEF SeesEmail

\* At the start the sessions are those of the accounts.
LEMMA OwnersInit == Init => OwnersInv
<1>. SUFFICES ASSUME Init PROVE OwnersInv
  OBVIOUS
<1>1. ProfilesOwned
  BY DEF Init, ProfilesOwned
<1>2. SessionsOwned
  <2>. SUFFICES ASSUME NEW x \in Device, userKey[x] # None
       PROVE  userEmail[x] # None /\ owner[userKey[x]] = userEmail[x]
    BY DEF SessionsOwned
  <2>1. userKey[x] \in DOMAIN Accounts
    BY AccountsAssumption DEF Init
  <2>. QED
    BY <2>1, AccountsAssumption, NoneAssumption DEF Init
<1>3. QueuesOwned /\ AskedElsewhere /\ AnswersOwned
  BY DEF Init, QueuesOwned, AskedElsewhere, AnswersOwned
<1>. QED  BY <1>1, <1>2, <1>3 DEF OwnersInv

\* Every step keeps the addresses with their keys.
LEMMA OwnersStep == TypeOK /\ OwnersInv /\ [Next]_vars => OwnersInv'
<1>. SUFFICES ASSUME TypeOK, OwnersInv, [Next]_vars PROVE OwnersInv'
  OBVIOUS
<1>. USE DEF OwnersInv
<1>0. \A k \in Key : owner[k] # None => owner'[k] = owner[k]
  BY NothingTakenBack
<1>1. ProfilesOwned'
  <2>1. CASE UNCHANGED db
    BY <1>0, <2>1 DEF ProfilesOwned
  <2>2. ASSUME NEW d \in Device, Deliver(d)
        PROVE  ProfilesOwned'
    <3>. DEFINE w == outbox[d][applied[d] + 1]
    <3>1. applied[d] + 1 \in DOMAIN outbox[d]
      BY <2>2 DEF Deliver, TypeOK, QueueOK
    <3>2. /\ UNCHANGED owner
          /\ \A k \in Key : db'.profile[k] =
                IF w.op = "set" /\ w.from = k THEN w.email ELSE db.profile[k]
      BY <2>2 DEF Deliver, Apply
    <3>3. w.op = "set" => owner[w.from] = w.email
      BY <3>1 DEF QueuesOwned
    <3>. QED  BY <3>2, <3>3 DEF ProfilesOwned
  <2>. QED  BY <2>1, <2>2, TreeChanges
<1>2. QueuesOwned'
  <2>. SUFFICES ASSUME NEW x \in Device, NEW i \in DOMAIN outbox'[x],
                       outbox'[x][i].op = "set"
       PROVE  owner'[outbox'[x][i].from] = outbox'[x][i].email
    BY DEF QueuesOwned
  <2>1. CASE \E j \in DOMAIN outbox[x] : outbox'[x][i] = outbox[x][j]
    <3>1. PICK j \in DOMAIN outbox[x] : outbox'[x][i] = outbox[x][j]
      BY <2>1
    <3>. DEFINE w == outbox[x][j]
    <3>2. w \in Write
      BY DEF TypeOK, QueueOK
    <3>3. w.from \in Key /\ w.email \in Email
      BY <3>1, <3>2, WriteCases DEF SetMember, Invite, Confirm, Update, Remove
    <3>4. owner[w.from] = w.email
      BY <3>1 DEF QueuesOwned
    <3>. QED  BY <1>0, <3>1, <3>3, <3>4, NoneAssumption
  <2>2. CASE NewWrite(x, outbox'[x][i])
    BY <2>2, NewSet
  <2>. QED  BY <2>1, <2>2, QueueAfter
<1>3. SessionsOwned'
  <2>1. CASE UNCHANGED session
    <3>1. UNCHANGED userKey /\ UNCHANGED userEmail
      BY <2>1 DEF session
    <3>2. \A x \in Device : userKey[x] \in Key \cup {None}
      BY DEF TypeOK, SessionOK
    <3>. QED  BY <1>0, <3>1, <3>2 DEF SessionsOwned
  <2>2. ASSUME NEW d \in Device, NEW k \in Key, NEW e \in Email,
               SetSession(d, k, e), owner'[k] = e
        PROVE  SessionsOwned'
    <3>. SUFFICES ASSUME NEW x \in Device, userKey'[x] # None
         PROVE  userEmail'[x] # None /\ owner'[userKey'[x]] = userEmail'[x]
      BY DEF SessionsOwned
    <3>1. CASE x = d
      BY <2>2, <3>1, NoneAssumption DEF SetSession, TypeOK, SessionOK
    <3>2. CASE x # d
      <4>1. userKey'[x] = userKey[x] /\ userEmail'[x] = userEmail[x]
            /\ userKey[x] \in Key \cup {None}
        BY <2>2, <3>2 DEF SetSession, TypeOK, SessionOK
      <4>. QED  BY <1>0, <4>1 DEF SessionsOwned
    <3>. QED  BY <3>1, <3>2
  <2>3. ASSUME NEW d \in Device, NEW k \in Key, NEW e \in Email,
               inbox[d] # <<>>, UNCHANGED owner, k \in Head(inbox[d]).match,
               e = Head(inbox[d]).request.email
        PROVE  owner'[k] = e
    <3>1. 1 \in DOMAIN inbox[d] /\ Head(inbox[d]) = inbox[d][1]
      BY <2>3 DEF TypeOK, QueryOK
    <3>. QED  BY <2>3, <3>1 DEF AnswersOwned
  <2>. QED  BY <2>1, <2>2, <2>3, SessionSteps
<1>4. AskedElsewhere'
  <2>. SUFFICES ASSUME NEW x \in Device, NEW r \in Request, asked'[x][r] > 0,
                       r.op = "addFriend"
       PROVE  owner'[r.key] # None /\ owner'[r.key] # r.email
    BY DEF AskedElsewhere, GoesElsewhere
  <2>1. r.key \in Key
    BY DEF Request
  <2>2. CASE asked[x][r] > 0
    BY <1>0, <2>1, <2>2 DEF AskedElsewhere, GoesElsewhere
  <2>3. CASE /\ r.key = userKey[x] /\ r.email = label[x]
             /\ label[x] # userEmail[x] /\ userKey[x] # None
    BY <1>0, <2>1, <2>3 DEF SessionsOwned
  <2>. QED  BY <2>2, <2>3, AskedAfter
<1>5. AnswersOwned'
  <2>. SUFFICES ASSUME NEW x \in Device, NEW i \in DOMAIN inbox'[x]
       PROVE  LET ev == inbox'[x][i] IN
              /\ ev.request.op = "addFriend" =>
                    /\ owner'[ev.request.key] # None
                    /\ owner'[ev.request.key] # ev.request.email
              /\ \A k \in ev.match : owner'[k] = ev.request.email
    BY DEF AnswersOwned, GoesElsewhere
  <2>1. CASE \E j \in DOMAIN inbox[x] : inbox'[x][i] = inbox[x][j]
    <3>1. PICK j \in DOMAIN inbox[x] : inbox'[x][i] = inbox[x][j]
      BY <2>1
    <3>2. inbox[x][j] \in Answered
      BY <3>1 DEF TypeOK, QueryOK
    <3>3. /\ inbox[x][j].match \subseteq Key
          /\ inbox[x][j].request.email \in Email
          /\ inbox[x][j].request.op = "addFriend" =>
                inbox[x][j].request.key \in Key
      BY <3>2 DEF Answered, Request
    <3>4. /\ inbox[x][j].request.op = "addFriend" =>
                /\ owner[inbox[x][j].request.key] # None
                /\ owner[inbox[x][j].request.key] # inbox[x][j].request.email
          /\ \A k \in inbox[x][j].match :
                owner[k] = inbox[x][j].request.email
      BY <3>1 DEF AnswersOwned, GoesElsewhere
    <3>. QED  BY <1>0, <3>1, <3>3, <3>4, NoneAssumption
  <2>2. CASE \E r \in Request :
               /\ asked[x][r] > 0 /\ UNCHANGED <<db, outbox, owner, lost>>
               /\ inbox'[x][i] = [request |-> r,
                                  match |-> Matching(x, r.email)]
    <3>1. PICK r \in Request :
               /\ asked[x][r] > 0 /\ UNCHANGED <<db, outbox, owner, lost>>
               /\ inbox'[x][i] = [request |-> r,
                                  match |-> Matching(x, r.email)]
      BY <2>2
    <3>2. /\ inbox'[x][i].request = r
          /\ inbox'[x][i].match = Matching(x, r.email)
      BY <3>1
    <3>3. \A k \in Matching(x, r.email) : owner'[k] = r.email
      <4>1. r.email \in Email
        BY DEF Request
      <4>. QED  BY <3>1, <4>1, SeenEmailOwned DEF Matching
    <3>4. r.op = "addFriend" =>
              owner'[r.key] # None /\ owner'[r.key] # r.email
      BY <3>1 DEF AskedElsewhere, GoesElsewhere
    <3>. QED  BY <3>2, <3>3, <3>4
  <2>. QED  BY <2>1, <2>2, InboxAfter
<1>. QED  BY <1>1, <1>2, <1>3, <1>4, <1>5

\* addFriend never runs with the user's own key among the matches.
THEOREM NoSelfInvitation == Spec => []AddNeverTargetsSelf
<1>1. TypeOK /\ OwnersInv => AddNeverTargetsSelf
  BY DEF OwnersInv, AnswersOwned, GoesElsewhere, AddNeverTargetsSelf
<1>. QED  BY <1>1, OwnersInit, OwnersStep, TypeCorrect, PTL DEF Spec

-----------------------------------------------------------------------------
(* A valid friendship was wanted.                                          *)

Wanted(a, b) ==
    \/ <<a, b>> \in invited /\ <<b, a>> \in accepted
    \/ <<b, a>> \in invited /\ <<a, b>> \in accepted
    \/ {a, b} \in strays

LinksWanted ==
    \A a, b \in Key :
        /\ db.link[a][b] = "valid" => Wanted(a, b)
        /\ db.link[a][b] = "pending_confirm" => <<b, a>> \in invited

QueuesWanted ==
    \A x \in Device : \A i \in DOMAIN outbox[x] :
        LET w == outbox[x][i] IN
        w.op = "update" =>
            /\ w.mine = "valid" => Wanted(w.from, w.to)
            /\ w.theirs = "pending_confirm" => <<w.from, w.to>> \in invited

RowsWanted ==
    \A x \in Device \ switched : \A f \in Key :
        CanAccept(x, f) => userKey[x] # None /\ <<f, userKey[x]>> \in invited

WantedInv == LinksWanted /\ QueuesWanted /\ RowsWanted

\* A friendship that was wanted stays so.
LEMMA WantedStays ==
    ASSUME TypeOK, [Next]_vars, NEW a, NEW b, Wanted(a, b)
    PROVE  Wanted(a, b)'
BY NothingTakenBack DEF Wanted

\* What a queued write puts on a link was wanted.
LEMMA EffectWanted ==
    ASSUME TypeOK, QueuesWanted, NEW x \in Device, NEW i \in DOMAIN outbox[x],
           NEW a \in Key, NEW b \in Key, Touches(outbox[x][i], a, b)
    PROVE  /\ Effect(outbox[x][i], a) = "valid" => Wanted(a, b)
           /\ Effect(outbox[x][i], a) = "pending_confirm" =>
                 <<b, a>> \in invited
<1>. DEFINE w == outbox[x][i]
<1>1. CASE w.op # "update"
  BY <1>1 DEF Effect, Absent
<1>2. CASE w.op = "update"
  <2>1. w \in Write
    BY DEF TypeOK, QueueOK
  <2>2. \/ w.mine = "valid" /\ w.theirs = "valid"
        \/ w.mine = "pending_send" /\ w.theirs = "pending_confirm"
    BY <1>2, <2>1, WriteCases DEF SetMember, Invite, Confirm, Update, Remove
  <2>3. /\ w.mine = "valid" => Wanted(w.from, w.to)
        /\ w.theirs = "pending_confirm" => <<w.from, w.to>> \in invited
    BY <1>2 DEF QueuesWanted
  <2>4. Wanted(w.from, w.to) => Wanted(w.to, w.from)
    <3>1. {w.from, w.to} = {w.to, w.from}
      OBVIOUS
    <3>. QED  BY <3>1 DEF Wanted
  <2>5. \/ w.from = a /\ w.to = b /\ Effect(w, a) = w.mine
        \/ w.from = b /\ w.to = a /\ Effect(w, a) \in {w.mine, w.theirs}
    BY <1>2 DEF Touches, Effect
  <2>. QED  BY <2>2, <2>3, <2>4, <2>5
<1>. QED  BY <1>1, <1>2

\* Nobody was invited, and nobody waits, at the start.
LEMMA WantedInit == Init => WantedInv
<1>. SUFFICES ASSUME Init PROVE WantedInv
  OBVIOUS
<1>1. LinksWanted
  BY DEF Init, LinksWanted, Absent
<1>2. QueuesWanted /\ RowsWanted
  BY DEF Init, QueuesWanted, RowsWanted, CanAccept
<1>. QED  BY <1>1, <1>2 DEF WantedInv

\* Every step keeps it.
LEMMA WantedStep == TypeOK /\ WantedInv /\ [Next]_vars => WantedInv'
<1>. SUFFICES ASSUME TypeOK, WantedInv, [Next]_vars PROVE WantedInv'
  OBVIOUS
<1>. USE DEF WantedInv
<1>1. LinksWanted'
  <2>1. CASE UNCHANGED db
    BY <2>1, WantedStays, NothingTakenBack DEF LinksWanted
  <2>2. ASSUME NEW d \in Device, Deliver(d), NEW a \in Key, NEW b \in Key
        PROVE  /\ db'.link[a][b] = "valid" => Wanted(a, b)
               /\ db'.link[a][b] = "pending_confirm" => <<b, a>> \in invited
    <3>. DEFINE i == applied[d] + 1
    <3>1. i \in DOMAIN outbox[d]
      BY <2>2 DEF Deliver, TypeOK, QueueOK
    <3>2. db'.link[a][b] = IF Touches(outbox[d][i], a, b)
                           THEN Effect(outbox[d][i], a) ELSE db.link[a][b]
      BY <2>2 DEF Deliver, Apply
    <3>. QED  BY <3>1, <3>2, EffectWanted DEF LinksWanted
  <2>. QED
    BY <2>1, <2>2, TreeChanges, WantedStays, NothingTakenBack DEF LinksWanted
<1>2. QueuesWanted'
  <2>. SUFFICES ASSUME NEW x \in Device, NEW i \in DOMAIN outbox'[x],
                       NEW w, w = outbox'[x][i], w.op = "update"
       PROVE  /\ w.mine = "valid" => Wanted(w.from, w.to)'
              /\ w.theirs = "pending_confirm" =>
                    <<w.from, w.to>> \in invited'
    BY DEF QueuesWanted
  <2>1. CASE \E j \in DOMAIN outbox[x] : outbox'[x][i] = outbox[x][j]
    <3>1. PICK j \in DOMAIN outbox[x] : outbox'[x][i] = outbox[x][j]
      BY <2>1
    <3>2. /\ w.mine = "valid" => Wanted(w.from, w.to)
          /\ w.theirs = "pending_confirm" => <<w.from, w.to>> \in invited
      BY <3>1 DEF QueuesWanted
    <3>. QED  BY <3>2, WantedStays, NothingTakenBack
  <2>2. CASE NewWrite(x, w)
    <3>1. CASE \E k \in Key, e \in Email : w = SetMember(k, e)
      BY <3>1 DEF SetMember
    <3>2. CASE \E a, b \in Key : w = Invite(a, b) /\ <<a, b>> \in invited'
      BY <3>2 DEF Invite, Update
    <3>3. CASE \E f \in Key :
                  /\ w = Confirm(userKey[x], f) /\ CanAccept(x, f)
                  /\ userKey[x] \in Key /\ <<userKey[x], f>> \in accepted'
                  /\ x \in switched => {userKey[x], f} \in strays'
      <4>1. PICK f \in Key :
                  /\ w = Confirm(userKey[x], f) /\ CanAccept(x, f)
                  /\ userKey[x] \in Key /\ <<userKey[x], f>> \in accepted'
                  /\ x \in switched => {userKey[x], f} \in strays'
        BY <3>3
      <4>2. w.from = userKey[x] /\ w.to = f /\ w.theirs = "valid"
        BY <4>1 DEF Confirm, Update
      <4>3. x \notin switched => <<f, userKey[x]>> \in invited'
        BY <4>1, NothingTakenBack DEF RowsWanted
      <4>. QED  BY <4>1, <4>2, <4>3 DEF Wanted
    <3>4. CASE \E a, b \in Key : w = Remove(a, b)
      BY <3>4 DEF Remove
    <3>. QED  BY <2>2, <3>1, <3>2, <3>3, <3>4 DEF NewWrite
  <2>. QED  BY <2>1, <2>2, QueueAfter
<1>3. RowsWanted'
  <2>. SUFFICES ASSUME NEW x \in Device, x \notin switched', NEW f \in Key,
                       CanAccept(x, f)'
       PROVE  userKey'[x] # None /\ <<f, userKey'[x]>> \in invited'
    BY DEF RowsWanted
  <2>0. /\ userKey \in [Device -> Key \cup {None}]
        /\ invited \subseteq invited' /\ ~Relaunch(x)
    BY NothingTakenBack, ShownAfter DEF TypeOK, SessionOK
  <2>1. CASE /\ userKey[x] # None
             /\ SeesStatus(x, userKey[x], f, "pending_confirm")
             /\ UNCHANGED session
    <3>1. userKey[x] \in Key
      BY <2>0, <2>1
    <3>2. <<f, userKey[x]>> \in invited
      <4>1. CASE db.link[userKey[x]][f] = "pending_confirm"
        BY <3>1, <4>1 DEF LinksWanted
      <4>2. CASE \E i \in DOMAIN outbox[x] :
                    /\ Touches(outbox[x][i], userKey[x], f)
                    /\ Effect(outbox[x][i], userKey[x]) = "pending_confirm"
        BY <3>1, <4>2, EffectWanted
      <4>. QED  BY <2>1, <4>1, <4>2 DEF SeesStatus
    <3>. QED  BY <2>0, <2>1, <3>2 DEF session
  <2>2. CASE CanAccept(x, f)
    <3>1. x \notin switched =>
              userKey[x] # None /\ <<f, userKey[x]>> \in invited'
      BY <2>0, <2>2 DEF RowsWanted
    <3>2. CASE /\ UNCHANGED session
               /\ \A d \in switched \ switched' : Relaunch(d)
      BY <2>0, <3>1, <3>2 DEF session
    <3>3. ASSUME NEW d \in Device, NEW k \in Key, NEW e \in Email,
                 SetSession(d, k, e)
          PROVE  userKey'[x] # None /\ <<f, userKey'[x]>> \in invited'
      <4>1. CASE x # d
        BY <2>0, <3>1, <3>3, <4>1 DEF SetSession
      <4>2. CASE x = d
        <5>1. x \notin switched /\ userKey[x] \in {None, k}
          BY <3>3, <4>2 DEF SetSession
        <5>2. userKey'[x] = k
          BY <2>0, <3>3, <4>2 DEF SetSession
        <5>. QED  BY <3>1, <5>1, <5>2
      <4>. QED  BY <4>1, <4>2
    <3>. QED  BY <3>2, <3>3, SessionSteps
  <2>. QED  BY <2>1, <2>2, ShownAfter
<1>. QED  BY <1>1, <1>2, <1>3

\* A valid friendship was invited by one and accepted by the other, or was
\* confirmed from a device that had changed account.
THEOREM FriendshipsWereWanted == Spec => []ValidWasWanted
<1>1. WantedInv => ValidWasWanted
  BY DEF WantedInv, LinksWanted, Wanted, ValidWasWanted
<1>. QED  BY <1>1, WantedInit, WantedStep, TypeCorrect, PTL DEF Spec

-----------------------------------------------------------------------------
(* No ghosts.                                                              *)

IsSet(w, k) == w.op = "set" /\ w.from = k

\* k has a profile, or lost the only chance of one
Known(k) == db.profile[k] # None \/ k \in lost
\* ... or will have one before x's write i is applied
KnownAt(x, k, i) ==
    Known(k) \/ \E j \in DOMAIN outbox[x] : j < i /\ IsSet(outbox[x][j], k)
\* ... or before any write x has yet to make
KnownTo(x, k) ==
    Known(k) \/ \E j \in DOMAIN outbox[x] : IsSet(outbox[x][j], k)

LinksKnown ==
    \A k, f \in Key : db.link[k][f] # Absent => Known(k) /\ Known(f)

AppliedKnown ==
    \A x \in Device : \A j \in DOMAIN outbox[x] : \A k \in Key :
        j <= applied[x] /\ IsSet(outbox[x][j], k) => Known(k)

QueuesKnown ==
    \A x \in Device : \A i \in DOMAIN outbox[x] :
        LET w == outbox[x][i] IN
        w.op = "update" => KnownAt(x, w.from, i) /\ KnownAt(x, w.to, i)

SessionsKnown == \A x \in Device : userKey[x] # None => KnownTo(x, userKey[x])

AskedKnown ==
    \A x \in Device : \A r \in Request :
        asked[x][r] > 0 /\ r.key # None => KnownTo(x, r.key)

AnswersKnown ==
    \A x \in Device : \A i \in DOMAIN inbox[x] :
        LET ev == inbox[x][i] IN
        /\ ev.request.key # None => KnownTo(x, ev.request.key)
        /\ \A k \in ev.match : KnownTo(x, k)

RowsKnown ==
    \A x \in Device : \A f \in Key :
        CanAccept(x, f) => KnownTo(x, f)

KnownInv == /\ LinksKnown /\ AppliedKnown /\ QueuesKnown /\ SessionsKnown
            /\ AskedKnown /\ AnswersKnown /\ RowsKnown

\* A known key stays known.
LEMMA KnownStays ==
    ASSUME TypeOK, [Next]_vars, NEW k \in Key, Known(k)
    PROVE  Known(k)'
<1>1. lost \subseteq lost'
  BY NothingTakenBack
<1>2. CASE UNCHANGED db
  BY <1>1, <1>2 DEF Known
<1>3. ASSUME NEW d \in Device, Deliver(d)
      PROVE  db.profile[k] # None => db'.profile[k] # None
  <2>. DEFINE w == outbox[d][applied[d] + 1]
  <2>1. w \in Write
    BY <1>3 DEF Deliver, TypeOK, QueueOK
  <2>2. w.op = "set" => w.email # None
    BY <2>1, WriteCases, NoneAssumption
       DEF SetMember, Invite, Confirm, Update, Remove
  <2>3. db'.profile[k] = IF w.op = "set" /\ w.from = k THEN w.email
                         ELSE db.profile[k]
    BY <1>3 DEF Deliver, Apply
  <2>. QED  BY <2>2, <2>3
<1>. QED  BY <1>1, <1>2, <1>3, TreeChanges DEF Known

\* What becomes of a device's queue, its writes applied included
LEMMA DeviceSteps ==
    ASSUME TypeOK, [Next]_vars, NEW x \in Device
    PROVE  \/ /\ outbox'[x] = outbox[x]
              /\ applied'[x] = applied[x] \/ applied'[x] = 0 \/ Deliver(x)
           \/ /\ applied'[x] = applied[x]
              /\ \E ws \in Seq(Write) : outbox'[x] = outbox[x] \o ws
           \/ /\ outbox[x] # <<>> /\ outbox'[x] = Tail(outbox[x])
              /\ applied[x] > 0 /\ applied'[x] = applied[x] - 1
           \/ Relaunch(x)
<1>0. outbox \in [Device -> Seq(Write)] /\ applied \in [Device -> Nat]
      /\ applied[x] <= Len(outbox[x]) /\ outbox[x] \in Seq(Write)
  BY DEF TypeOK, QueueOK
<1>1. CASE UNCHANGED <<db, outbox, applied>>
  BY <1>1
<1>2. ASSUME NEW d \in Device, Enqueues(d)
      PROVE  /\ applied'[x] = applied[x]
             /\ \/ outbox'[x] = outbox[x]
                \/ \E ws \in Seq(Write) : outbox'[x] = outbox[x] \o ws
  BY <1>0, <1>2 DEF Enqueues, Enqueue
<1>3. ASSUME NEW d \in Device, Deliver(d)
      PROVE  /\ outbox'[x] = outbox[x]
             /\ applied'[x] = applied[x] \/ Deliver(x)
  BY <1>0, <1>3 DEF Deliver
<1>4. ASSUME NEW d \in Device, Ack(d)
      PROVE  \/ outbox'[x] = outbox[x] /\ applied'[x] = applied[x]
             \/ /\ outbox[x] # <<>> /\ outbox'[x] = Tail(outbox[x])
                /\ applied[x] > 0 /\ applied'[x] = applied[x] - 1
  BY <1>0, <1>4 DEF Ack
<1>5. ASSUME NEW d \in Device, Reconnect(d)
      PROVE  /\ outbox'[x] = outbox[x]
             /\ applied'[x] = applied[x] \/ applied'[x] = 0
  BY <1>0, <1>5 DEF Reconnect
<1>6. ASSUME NEW d \in Device, Relaunch(d)
      PROVE  \/ outbox'[x] = outbox[x] /\ applied'[x] = applied[x]
             \/ Relaunch(x)
  BY <1>0, <1>6 DEF Relaunch
<1>. QED  BY <1>1, <1>2, <1>3, <1>4, <1>5, <1>6, QueueSteps

\* A relaunch forgets only sign-ups the server has not applied.
LEMMA LostWithQueue ==
    ASSUME TypeOK, AppliedKnown, NEW x \in Device, Relaunch(x),
           NEW k \in Key, NEW j \in DOMAIN outbox[x], IsSet(outbox[x][j], k)
    PROVE  Known(k)'
<1>1. CASE j <= applied[x]
  BY <1>1 DEF AppliedKnown, Known, Relaunch
<1>2. CASE j > applied[x]
  BY <1>2 DEF Relaunch, IsSet, Known
<1>. QED  BY <1>1, <1>2 DEF TypeOK, QueueOK

\* A key known to a device's later writes stays known to them.
LEMMA KnownToStays ==
    ASSUME TypeOK, AppliedKnown, [Next]_vars, NEW x \in Device,
           NEW k \in Key, KnownTo(x, k)
    PROVE  KnownTo(x, k)'
<1>0. outbox[x] \in Seq(Write)
  BY DEF TypeOK, QueueOK
<1>1. CASE Known(k)
  BY <1>1, KnownStays DEF KnownTo
<1>2. ASSUME NEW j \in DOMAIN outbox[x], IsSet(outbox[x][j], k)
      PROVE  KnownTo(x, k)'
  <2>1. CASE outbox'[x] = outbox[x]
    BY <1>2, <2>1 DEF KnownTo
  <2>2. ASSUME NEW ws \in Seq(Write), outbox'[x] = outbox[x] \o ws
        PROVE  KnownTo(x, k)'
    <3>1. j \in DOMAIN outbox'[x] /\ outbox'[x][j] = outbox[x][j]
      BY <1>0, <2>2
    <3>. QED  BY <1>2, <3>1 DEF KnownTo
  <2>3. CASE /\ outbox[x] # <<>> /\ outbox'[x] = Tail(outbox[x])
             /\ applied[x] > 0
    <3>1. CASE j = 1
      <4>1. Known(k)
        BY <1>2, <2>3, <3>1 DEF AppliedKnown, TypeOK, QueueOK
      <4>. QED  BY <4>1, KnownStays DEF KnownTo
    <3>2. CASE j > 1
      <4>1. j - 1 \in DOMAIN outbox'[x] /\ outbox'[x][j - 1] = outbox[x][j]
        BY <1>0, <2>3, <3>2
      <4>. QED  BY <1>2, <4>1 DEF KnownTo
    <3>. QED  BY <1>0, <3>1, <3>2
  <2>4. CASE Relaunch(x)
    BY <1>2, <2>4, LostWithQueue DEF KnownTo
  <2>. QED  BY <2>1, <2>2, <2>3, <2>4, DeviceSteps
<1>. QED  BY <1>1, <1>2 DEF KnownTo

\* A key the device can see in a query has a profile or one is queued.
LEMMA SeenEmailKnown ==
    ASSUME NEW x \in Device, NEW k \in Key, NEW e \in Email,
           SeesEmail(x, k, e)
    PROVE  KnownTo(x, k)
BY NoneAssumption DEF SeesEmail, KnownTo, Known, IsSet

\* What the server has applied of a queue is known.
LEMMA AppliedStep ==
    ASSUME TypeOK, AppliedKnown, [Next]_vars
    PROVE  AppliedKnown'
<1>. SUFFICES ASSUME NEW x \in Device, NEW j \in DOMAIN outbox'[x],
                     NEW k \in Key, j <= applied'[x], IsSet(outbox'[x][j], k)
     PROVE  Known(k)'
  BY DEF AppliedKnown
<1>0. /\ outbox[x] \in Seq(Write) /\ applied[x] \in Nat
      /\ applied[x] <= Len(outbox[x])
  BY DEF TypeOK, QueueOK
<1>1. ASSUME NEW i \in DOMAIN outbox[x], i <= applied[x],
             outbox'[x][j] = outbox[x][i]
      PROVE  Known(k)'
  BY <1>1, KnownStays DEF AppliedKnown
<1>2. CASE outbox'[x] = outbox[x] /\ applied'[x] \in {applied[x], 0}
  BY <1>0, <1>1, <1>2
<1>3. CASE Deliver(x)
  <2>1. outbox'[x] = outbox[x] /\ applied'[x] = applied[x] + 1
    BY <1>0, <1>3 DEF Deliver, TypeOK, QueueOK
  <2>2. CASE j <= applied[x]
    BY <1>1, <2>1, <2>2
  <2>3. CASE j = applied[x] + 1
    <3>1. outbox[x][j] \in Write /\ IsSet(outbox[x][j], k)
      BY <1>0, <2>1
    <3>2. outbox[x][j].email # None
      BY <3>1, WriteCases, NoneAssumption
         DEF SetMember, Invite, Confirm, Update, Remove, IsSet
    <3>3. db'.profile[k] = outbox[x][j].email
      BY <1>3, <2>3, <3>1 DEF Deliver, Apply, IsSet
    <3>. QED  BY <3>2, <3>3 DEF Known
  <2>. QED  BY <1>0, <2>1, <2>2, <2>3
<1>4. ASSUME NEW ws \in Seq(Write), outbox'[x] = outbox[x] \o ws,
             applied'[x] = applied[x]
      PROVE  Known(k)'
  <2>1. j \in DOMAIN outbox[x] /\ outbox'[x][j] = outbox[x][j]
    BY <1>0, <1>4
  <2>. QED  BY <1>1, <1>4, <2>1
<1>5. CASE /\ outbox[x] # <<>> /\ outbox'[x] = Tail(outbox[x])
           /\ applied[x] > 0 /\ applied'[x] = applied[x] - 1
  <2>1. j + 1 \in DOMAIN outbox[x] /\ outbox'[x][j] = outbox[x][j + 1]
    BY <1>0, <1>5
  <2>2. j + 1 <= applied[x]
    BY <1>0, <1>5, <2>1
  <2>. QED  BY <1>1, <2>1, <2>2
<1>6. CASE Relaunch(x)
  BY <1>6 DEF Relaunch, TypeOK, QueueOK
<1>. QED  BY <1>2, <1>3, <1>4, <1>5, <1>6, DeviceSteps

\* The two members of a new update are known to what its device has yet to
\* write.
LEMMA NewUpdateKnown ==
    ASSUME TypeOK, SessionsKnown, AnswersKnown, RowsKnown, NEW x \in Device,
           NEW w, NewWrite(x, w), w.op = "update"
    PROVE  /\ w.from \in Key /\ w.to \in Key
           /\ KnownTo(x, w.from) /\ KnownTo(x, w.to)
<1>1. CASE \E a, b \in Key :
             /\ w = Invite(a, b) /\ inbox[x] # <<>>
             /\ Head(inbox[x]).request.key = a /\ b \in Head(inbox[x]).match
  <2>1. 1 \in DOMAIN inbox[x] /\ Head(inbox[x]) = inbox[x][1]
    BY <1>1 DEF TypeOK, QueryOK
  <2>2. PICK a \in Key, b \in Key :
             /\ w = Invite(a, b)
             /\ Head(inbox[x]).request.key = a /\ b \in Head(inbox[x]).match
    BY <1>1
  <2>3. KnownTo(x, a) /\ KnownTo(x, b)
    BY <2>1, <2>2, NoneAssumption DEF AnswersKnown
  <2>. QED  BY <2>2, <2>3 DEF Invite, Update
<1>2. CASE \E f \in Key : /\ w = Confirm(userKey[x], f) /\ CanAccept(x, f)
                          /\ userKey[x] \in Key
  <2>1. KnownTo(x, userKey[x])
    BY <1>2, NoneAssumption DEF SessionsKnown
  <2>. QED  BY <1>2, <2>1 DEF RowsKnown, Confirm, Update
<1>3. CASE \E k \in Key, e \in Email : w = SetMember(k, e)
  BY <1>3 DEF SetMember
<1>4. CASE \E a, b \in Key : w = Remove(a, b)
  BY <1>4 DEF Remove
<1>. QED  BY <1>1, <1>2, <1>3, <1>4 DEF NewWrite

\* Before an update is applied its two members are known.
LEMMA QueuesStep ==
    ASSUME TypeOK, KnownInv, [Next]_vars
    PROVE  QueuesKnown'
<1>. USE DEF KnownInv
<1>. SUFFICES ASSUME NEW x \in Device, NEW i \in DOMAIN outbox'[x],
                     NEW w, w = outbox'[x][i], w.op = "update"
     PROVE  KnownAt(x, w.from, i)' /\ KnownAt(x, w.to, i)'
  BY DEF QueuesKnown
<1>0. outbox[x] \in Seq(Write)
  BY DEF TypeOK, QueueOK
<1>1. ASSUME NEW j \in DOMAIN outbox[x], outbox[x][j] = w
      PROVE  /\ w.from \in Key /\ w.to \in Key
             /\ KnownAt(x, w.from, j) /\ KnownAt(x, w.to, j)
  <2>1. w \in Write
    BY <1>0, <1>1
  <2>. QED
    BY <1>1, <2>1, WriteCases
       DEF SetMember, Invite, Confirm, Update, Remove, QueuesKnown
<1>2. ASSUME NEW k \in Key, Known(k)
      PROVE  KnownAt(x, k, i)'
  BY <1>2, KnownStays DEF KnownAt
<1>3. CASE outbox'[x] = outbox[x]
  BY <1>1, <1>2, <1>3 DEF KnownAt
<1>4. ASSUME NEW ws \in Seq(Write), outbox'[x] = outbox[x] \o ws
      PROVE  KnownAt(x, w.from, i)' /\ KnownAt(x, w.to, i)'
  <2>1. \A j \in DOMAIN outbox[x] :
            j \in DOMAIN outbox'[x] /\ outbox'[x][j] = outbox[x][j]
    BY <1>0, <1>4
  <2>2. ASSUME NEW k \in Key, NEW j \in DOMAIN outbox[x], KnownAt(x, k, j),
               \A n \in DOMAIN outbox[x] : n < j => n < i
        PROVE  KnownAt(x, k, i)'
    BY <1>2, <2>1, <2>2 DEF KnownAt
  <2>3. CASE i \in DOMAIN outbox[x]
    BY <1>0, <1>1, <2>1, <2>2, <2>3
  <2>4. CASE i \notin DOMAIN outbox[x]
    <3>1. \A j \in DOMAIN outbox[x] : j < i
      BY <1>0, <1>4, <2>4
    <3>2. CASE \E j \in DOMAIN outbox[x] : outbox[x][j] = w
      <4>1. PICK j \in DOMAIN outbox[x] : outbox[x][j] = w
        BY <3>2
      <4>. QED  BY <1>1, <2>2, <3>1, <4>1
    <3>3. CASE NewWrite(x, w)
      <4>1. ASSUME NEW k \in Key, KnownTo(x, k)
            PROVE  KnownAt(x, k, i)'
        BY <1>2, <2>1, <3>1, <4>1 DEF KnownAt, KnownTo
      <4>. QED  BY <3>3, <4>1, NewUpdateKnown
    <3>. QED  BY <3>2, <3>3, QueueAfter
  <2>. QED  BY <2>3, <2>4
<1>5. CASE /\ outbox[x] # <<>> /\ outbox'[x] = Tail(outbox[x])
           /\ applied[x] > 0
  <2>1. i + 1 \in DOMAIN outbox[x] /\ outbox[x][i + 1] = w /\ i \in Nat
    BY <1>0, <1>5
  <2>2. ASSUME NEW k \in Key, KnownAt(x, k, i + 1)
        PROVE  KnownAt(x, k, i)'
    <3>1. ASSUME NEW j \in DOMAIN outbox[x], j < i + 1,
                 IsSet(outbox[x][j], k)
          PROVE  KnownAt(x, k, i)'
      <4>1. CASE j = 1
        <5>1. Known(k)
          BY <1>5, <3>1, <4>1 DEF AppliedKnown, TypeOK, QueueOK
        <5>. QED  BY <1>2, <5>1
      <4>2. CASE j > 1
        <5>1. /\ j - 1 \in DOMAIN outbox'[x]
              /\ outbox'[x][j - 1] = outbox[x][j]
          BY <1>0, <1>5, <4>2
        <5>2. j - 1 < i
          BY <1>0, <2>1, <3>1
        <5>. QED  BY <3>1, <5>1, <5>2 DEF KnownAt
      <4>. QED  BY <1>0, <4>1, <4>2
    <3>. QED  BY <1>2, <2>2, <3>1 DEF KnownAt
  <2>. QED  BY <1>1, <2>1, <2>2
<1>6. CASE Relaunch(x)
  BY <1>6 DEF Relaunch, TypeOK, QueueOK
<1>. QED  BY <1>3, <1>4, <1>5, <1>6, DeviceSteps

\* A link is set between known members only.
LEMMA LinksStep ==
    ASSUME TypeOK, KnownInv, [Next]_vars
    PROVE  LinksKnown'
<1>. USE DEF KnownInv
<1>. SUFFICES ASSUME NEW a \in Key, NEW b \in Key,
                     db'.link[a][b] # Absent
     PROVE  Known(a)' /\ Known(b)'
  BY DEF LinksKnown
<1>1. CASE db.link[a][b] # Absent
  BY <1>1, KnownStays DEF LinksKnown
<1>2. ASSUME NEW d \in Device, Deliver(d), db.link[a][b] = Absent
      PROVE  Known(a) /\ Known(b)
  <2>. DEFINE i == applied[d] + 1
              w == outbox[d][i]
  <2>1. i \in DOMAIN outbox[d] /\ applied[d] \in Nat
        /\ DOMAIN outbox[d] \subseteq Nat
    BY <1>2 DEF Deliver, TypeOK, QueueOK
  <2>2. Touches(w, a, b) /\ Effect(w, a) # Absent
    BY <1>2 DEF Deliver, Apply
  <2>3. w.op = "update" /\ {w.from, w.to} = {a, b}
    BY <2>2 DEF Touches, Effect
  <2>4. KnownAt(d, a, i) /\ KnownAt(d, b, i)
    <3>1. KnownAt(d, w.from, i) /\ KnownAt(d, w.to, i)
      BY <2>1, <2>3 DEF QueuesKnown
    <3>2. {a, b} \subseteq {w.from, w.to}
      BY <2>3
    <3>. QED  BY <3>1, <3>2
  <2>5. ASSUME NEW k \in Key, KnownAt(d, k, i) PROVE Known(k)
    <3>1. \A j \in DOMAIN outbox[d] : j < i => j <= applied[d]
      BY <2>1
    <3>. QED  BY <2>5, <3>1 DEF KnownAt, AppliedKnown
  <2>. QED  BY <2>4, <2>5
<1>3. ~UNCHANGED db \/ db.link[a][b] # Absent
  OBVIOUS
<1>. QED  BY <1>1, <1>2, <1>3, KnownStays, TreeChanges

\* Whoever is logged in has a profile, queued one, or lost it.
LEMMA SessionsStep ==
    ASSUME TypeOK, KnownInv, [Next]_vars
    PROVE  SessionsKnown'
<1>. USE DEF KnownInv
<1>0. \A x \in Device : userKey[x] \in Key \cup {None}
  BY DEF TypeOK, SessionOK
<1>1. ASSUME NEW x \in Device, userKey'[x] = userKey[x], userKey[x] # None,
             NEW k, k = userKey[x]
      PROVE  KnownTo(x, k)'
  BY <1>0, <1>1, KnownToStays DEF SessionsKnown
<1>2. CASE UNCHANGED session
  <2>1. UNCHANGED userKey
    BY <1>2 DEF session
  <2>. SUFFICES ASSUME NEW x \in Device, userKey'[x] # None,
                       NEW k, k = userKey'[x]
       PROVE  KnownTo(x, k)'
    BY DEF SessionsKnown
  <2>. QED  BY <1>1, <2>1
<1>3. ASSUME NEW d \in Device, NEW k \in Key, NEW e \in Email,
             SetSession(d, k, e), KnownTo(d, k)'
      PROVE  SessionsKnown'
  <2>. SUFFICES ASSUME NEW x \in Device, userKey'[x] # None,
                       NEW m, m = userKey'[x]
       PROVE  KnownTo(x, m)'
    BY DEF SessionsKnown
  <2>1. CASE x = d
    BY <1>3, <2>1 DEF SetSession, TypeOK, SessionOK
  <2>2. CASE x # d
    BY <1>1, <1>3, <2>2 DEF SetSession, TypeOK, SessionOK
  <2>. QED  BY <2>1, <2>2
<1>4. ASSUME NEW d \in Device, NEW k \in Key, NEW e \in Email,
             Enqueue(d, <<SetMember(k, e)>>)
      PROVE  KnownTo(d, k)'
  <2>. DEFINE j == Len(outbox[d]) + 1
  <2>1. /\ outbox[d] \in Seq(Write)
        /\ outbox'[d] = outbox[d] \o <<SetMember(k, e)>>
    BY <1>4 DEF Enqueue, TypeOK, QueueOK
  <2>2. j \in DOMAIN outbox'[d] /\ outbox'[d][j] = SetMember(k, e)
    BY <2>1
  <2>3. IsSet(SetMember(k, e), k)
    BY DEF IsSet, SetMember
  <2>. QED  BY <2>2, <2>3 DEF KnownTo
<1>5. ASSUME NEW d \in Device, NEW k \in Key, inbox[d] # <<>>,
             k \in Head(inbox[d]).match
      PROVE  KnownTo(d, k)'
  <2>1. 1 \in DOMAIN inbox[d] /\ Head(inbox[d]) = inbox[d][1]
    BY <1>5 DEF TypeOK, QueryOK
  <2>. QED  BY <1>5, <2>1, KnownToStays DEF AnswersKnown
<1>. QED  BY <1>2, <1>3, <1>4, <1>5, SessionSteps

\* So has whoever asks, is found, or waits in a row to be accepted.
LEMMA QueriesStep ==
    ASSUME TypeOK, KnownInv, [Next]_vars
    PROVE  AskedKnown' /\ AnswersKnown' /\ RowsKnown'
<1>. USE DEF KnownInv
<1>1. AskedKnown'
  <2>. SUFFICES ASSUME NEW x \in Device, NEW r \in Request, asked'[x][r] > 0,
                       r.key # None
       PROVE  KnownTo(x, r.key)'
    BY DEF AskedKnown
  <2>1. r.op = "addFriend" /\ r.key \in Key
    BY DEF Request
  <2>2. KnownTo(x, r.key)
    BY <2>1, AskedAfter DEF AskedKnown, SessionsKnown
  <2>. QED  BY <2>1, <2>2, KnownToStays
<1>2. AnswersKnown'
  <2>. SUFFICES ASSUME NEW x \in Device, NEW i \in DOMAIN inbox'[x],
                       NEW ev, ev = inbox'[x][i],
                       NEW k \in Key, k = ev.request.key \/ k \in ev.match
       PROVE  KnownTo(x, k)'
    <3>1. ASSUME NEW x \in Device, NEW i \in DOMAIN inbox'[x]
          PROVE  inbox'[x][i] \in Answered
      <4>1. TypeOK'
        BY StepType
      <4>. QED  BY <4>1 DEF TypeOK, QueryOK
    <3>. QED  BY <3>1 DEF AnswersKnown, Answered, Request
  <2>1. KnownTo(x, k)
    <3>1. CASE \E j \in DOMAIN inbox[x] : ev = inbox[x][j]
      BY <3>1, NoneAssumption DEF AnswersKnown
    <3>2. CASE \E r \in Request :
                  /\ asked[x][r] > 0
                  /\ ev = [request |-> r, match |-> Matching(x, r.email)]
      <4>1. PICK r \in Request :
                  /\ asked[x][r] > 0
                  /\ ev = [request |-> r, match |-> Matching(x, r.email)]
        BY <3>2
      <4>2. CASE k = r.key
        BY <4>1, <4>2, NoneAssumption DEF AskedKnown
      <4>3. CASE k \in Matching(x, r.email)
        BY <4>3, SeenEmailKnown DEF Matching, Request
      <4>. QED  BY <4>1, <4>2, <4>3
    <3>. QED  BY <3>1, <3>2, InboxAfter
  <2>. QED  BY <2>1, KnownToStays
<1>3. RowsKnown'
  <2>. SUFFICES ASSUME NEW x \in Device, NEW f \in Key, CanAccept(x, f)'
       PROVE  KnownTo(x, f)'
    BY DEF RowsKnown
  <2>1. KnownTo(x, f)
    BY ShownAfter, SeenEmailKnown DEF RowsKnown
  <2>. QED  BY <2>1, KnownToStays
<1>. QED  BY <1>1, <1>2, <1>3

\* At the start every account has a profile and there is no link.
LEMMA KnownInit == Init => KnownInv
<1>. SUFFICES ASSUME Init PROVE KnownInv
  OBVIOUS
<1>1. SessionsKnown
  <2>. SUFFICES ASSUME NEW x \in Device, userKey[x] # None
       PROVE  db.profile[userKey[x]] # None
    BY DEF SessionsKnown, KnownTo, Known
  <2>1. userKey[x] \in DOMAIN Accounts
    BY AccountsAssumption DEF Init
  <2>. QED  BY <2>1, AccountsAssumption, NoneAssumption DEF Init
<1>2. LinksKnown /\ AskedKnown
  BY DEF Init, LinksKnown, AskedKnown
<1>3. AppliedKnown /\ QueuesKnown /\ AnswersKnown
  BY DEF Init, AppliedKnown, QueuesKnown, AnswersKnown
<1>4. RowsKnown
  BY DEF Init, RowsKnown, CanAccept
<1>. QED  BY <1>1, <1>2, <1>3, <1>4 DEF KnownInv

\* A member with friends but without an email is one whose sign-up was queued
\* when its app was killed.
THEOREM GhostsAreLost == Spec => []GhostOnlyAfterKill
<1>1. TypeOK /\ KnownInv /\ [Next]_vars => KnownInv'
  BY LinksStep, AppliedStep, QueuesStep, SessionsStep, QueriesStep
     DEF KnownInv
<1>2. KnownInv => GhostOnlyAfterKill
  BY DEF KnownInv, LinksKnown, Known, GhostOnlyAfterKill
<1>. QED  BY <1>1, <1>2, KnownInit, TypeCorrect, PTL DEF Spec

=============================================================================
