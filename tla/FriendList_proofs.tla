--------------------------- MODULE FriendList_proofs ---------------------------
(***************************************************************************)
(* Proofs about module FriendList, for any finite set of members, any      *)
(* links and ghosts at launch, and any bound.                              *)
(***************************************************************************)
EXTENDS FriendList, SequenceFacts, FiniteSetTheorems, TLAPS

-----------------------------------------------------------------------------
(* The data.                                                               *)

\* The blocks of the main queue
Message ==
    {Update} \cup {Wanted(w) : w \in Want}
    \cup {List(tag, ids) : tag \in Status,
                           ids \in {s \in Seq(Member) : IsInjective(s)}}

Types ==
    /\ TypeOK
    /\ inbox \in Seq(Message)
    /\ steps \in Nat

KindIn(s, kind) == {i \in DOMAIN s : s[i].kind = kind}

\* The three tags are different.
LEMMA TagsType ==
  /\ Tags \in Seq(Status) /\ Len(Tags) = 3
  /\ Status = {"valid", "pending_send", "pending_confirm"}
  /\ ToSet(Tags) = Status
  /\ IsInjective(Tags)
<1>1. /\ Len(Tags) = 3 /\ DOMAIN Tags = 1..3
      /\ Tags[1] = "valid" /\ Tags[2] = "pending_send"
      /\ Tags[3] = "pending_confirm"
  BY DEF Tags
<1>2. 1..3 = {1, 2, 3}
  OBVIOUS
<1>3. ToSet(Tags) = {"valid", "pending_send", "pending_confirm"}
  BY <1>1, <1>2 DEF ToSet
<1>4. Tags \in Seq({"valid", "pending_send", "pending_confirm"})
  BY DEF Tags
<1>5. IsInjective(Tags)
  BY <1>1, <1>2 DEF IsInjective
<1>. QED
  BY <1>1, <1>3, <1>4, <1>5 DEF Status

\* Every block is of one of three kinds.
LEMMA MessageCases ==
  ASSUME NEW m \in Message
  PROVE  \/ m = Update /\ m.kind = "update"
         \/ /\ m.kind = "member" /\ m.want \in Want /\ m = Wanted(m.want)
         \/ /\ m.kind = "list" /\ m.tag \in Status /\ m.ids \in Seq(Member)
            /\ IsInjective(m.ids) /\ m = List(m.tag, m.ids)
<1>1. CASE m = Update
  BY <1>1 DEF Update
<1>2. CASE \E w \in Want : m = Wanted(w)
  BY <1>2 DEF Wanted
<1>3. CASE \E tag \in Status, ids \in {s \in Seq(Member) : IsInjective(s)} :
               m = List(tag, ids)
  BY <1>3 DEF List
<1>. QED
  BY <1>1, <1>2, <1>3 DEF Message

\* Updates, answers and lists are messages.
LEMMA MessageType ==
  /\ Update \in Message
  /\ \A w \in Want : Wanted(w) \in Message
  /\ \A tag \in Status, ids \in Seq(Member) :
         IsInjective(ids) => List(tag, ids) \in Message
BY DEF Message

\* What inbox holds has the types TypeOK asks for.
LEMMA InboxType ==
  ASSUME inbox' \in Seq(Message)
  PROVE  (/\ \A i \in OfKind("list") : inbox[i].ids \in Seq(Member)
          /\ \A i \in OfKind("member") : inbox[i].want \in Want)'
<1>1. ASSUME NEW i \in DOMAIN inbox'
      PROVE  /\ inbox'[i].kind = "list" => inbox'[i].ids \in Seq(Member)
             /\ inbox'[i].kind = "member" => inbox'[i].want \in Want
  <2>1. inbox'[i] \in Message
    OBVIOUS
  <2>. QED
    BY <2>1, MessageCases DEF Update
<1>. QED
  BY <1>1 DEF OfKind

\* The enumeration of some positions in their order
LEMMA InOrderType ==
  ASSUME NEW n \in Nat, NEW S \in SUBSET (1..n), NEW s \in InOrder(S)
  PROVE  /\ s \in Seq(S) /\ DOMAIN s = 1..Len(s)
         /\ \A i, j \in DOMAIN s : s[i] = s[j] => i = j
         /\ \A x \in S : \E i \in DOMAIN s : s[i] = x
         /\ \A i, j \in DOMAIN s : i < j => s[i] < s[j]
         /\ Len(s) = 0 <=> S = {}
<1>1. IsFiniteSet(1..n)
  <2>1. 1 \in Int /\ n \in Int
    OBVIOUS
  <2>. QED
    BY <2>1, FS_Interval
<1>2. IsFiniteSet(S)
  BY <1>1, FS_Subset
<1>3. /\ s \in [1..Cardinality(S) -> S]
      /\ \A i, j \in DOMAIN s : i < j => s[i] < s[j]
  BY DEF InOrder
<1>4. Cardinality(S) \in Nat
  BY <1>2, FS_CardinalityType
<1>5. ASSUME NEW i \in DOMAIN s, NEW j \in DOMAIN s, s[i] = s[j]
      PROVE  i = j
  <2>1. i \in 1..Cardinality(S) /\ j \in 1..Cardinality(S)
    BY <1>3
  <2>2. s[i] \in 1..n /\ s[j] \in 1..n
    BY <1>3, <2>1
  <2>3. i \in Nat /\ j \in Nat /\ s[i] \in Nat /\ s[j] \in Nat
    BY <1>4, <2>1, <2>2
  <2>4. ~(i < j) /\ ~(j < i)
    BY <2>3, <1>3, <1>5
  <2>. QED
    BY <2>3, <2>4
<1>6. /\ s \in Seq(S) /\ Len(s) = Cardinality(S)
      /\ DOMAIN s = 1..Cardinality(S)
      /\ \A x \in S : \E i \in DOMAIN s : s[i] = x
  BY <1>2, <1>3, <1>5, ListsAll
<1>7. Cardinality(S) = 0 <=> S = {}
  BY <1>2, FS_EmptySet
<1>. QED
  BY <1>3, <1>5, <1>6, <1>7

\* The members with one status, listed in some order
LEMMA ListType ==
  ASSUME NEW S \in SUBSET Member, NEW ids \in SetToSeqs(S)
  PROVE  /\ ids \in Seq(Member) /\ IsInjective(ids) /\ ToSet(ids) = S
<1>1. IsFiniteSet(S)
  BY MemberAssumption, FS_Subset
<1>2. ids \in [1..Cardinality(S) -> S]
  BY DEF SetToSeqs
<1>3. \A i, j \in DOMAIN ids : ids[i] = ids[j] => i = j
  BY <1>2 DEF SetToSeqs
<1>4. /\ ids \in Seq(S) /\ \A x \in S : \E i \in DOMAIN ids : ids[i] = x
  BY <1>1, <1>2, <1>3, ListsAll
<1>. QED
  BY <1>2, <1>3, <1>4 DEF IsInjective, ToSet

-----------------------------------------------------------------------------
(* Type correctness.                                                       *)

\* The initial values have their types.
LEMMA TypesInit ==
  ASSUME Init
  PROVE  Types
<1>1. PICK start \in Start : links = start.links /\ ghosts = start.ghosts
  BY DEF Init
<1>2. links \in [Member -> Status \cup {Absent}] /\ ghosts \in SUBSET Member
  BY <1>1, LinkAssumption
<1>3. OfKind("list") = {} /\ OfKind("member") = {}
  <2>1. inbox = <<>> /\ DOMAIN <<>> = {}
    BY DEF Init
  <2>. QED
    BY <2>1 DEF OfKind
<1>4. line \in Seq(Member) /\ IsInjective(line) /\ ToSet(line) = {}
  BY DEF Init, IsInjective, ToSet
<1>5. waiting \in [Member -> Seq(Want)] /\ \A f \in Member : waiting[f] = <<>>
  BY DEF Init
<1>6. inbox \in Seq(Message) /\ steps \in Nat
  BY DEF Init
<1>7. asked \in Seq(Status) /\ friends \in Seq(Row) /\ drawn \in Seq(Row)
  BY DEF Init
<1>9. observing \in BOOLEAN /\ loaded \in BOOLEAN /\ clean \in BOOLEAN
  BY DEF Init
<1>8. \A f \in Member : waiting[f] # <<>> <=> f \in ToSet(line)
  BY <1>4, <1>5
<1>. QED
  BY <1>2, <1>3, <1>4, <1>5, <1>6, <1>7, <1>8, <1>9 DEF Types, TypeOK

\* Setting a link keeps the types and adds at most an update.
LEMMA SetLinkType ==
  ASSUME Types, NEW f \in Member, NEW s \in Status \cup {Absent}, SetLink(f, s)
  PROVE  /\ links' \in [Member -> Status \cup {Absent}]
         /\ inbox' \in Seq(Message)
<1>1. links' \in [Member -> Status \cup {Absent}]
  BY DEF SetLink, Types, TypeOK
<1>2. inbox' \in Seq(Message)
  BY MessageType DEF SetLink, Types
<1>. QED
  BY <1>1, <1>2

\* Steps that change only the links, the queue and the bound
LEMMA TypesSetLink ==
  ASSUME Types, NEW f \in Member, NEW s \in Status \cup {Absent}, SetLink(f, s),
         Step, UNCHANGED <<ghosts, observing, loaded, query, list, clean>>
  PROVE  Types'
<1>1. /\ links' \in [Member -> Status \cup {Absent}]
      /\ inbox' \in Seq(Message)
  BY SetLinkType
<1>2. steps' \in Nat
  BY DEF Step, Types
<1>. QED
  BY <1>1, <1>2, InboxType DEF Types, TypeOK, query, list

\* Asking the three queries again keeps the types.
LEMMA TypesGatFriends ==
  ASSUME Types, GatFriends, inbox' \in Seq(Message), loaded' \in BOOLEAN,
         UNCHANGED <<tree, observing, line, waiting, steps>>
  PROVE  Types'
<1>1. asked' \in Seq(Status)
  BY TagsType DEF GatFriends, Types, TypeOK
<1>2. clean' \in BOOLEAN
  BY DEF GatFriends, Idle
<1>3. friends' \in Seq(Row) /\ drawn' \in Seq(Row)
  BY DEF GatFriends
<1>. QED
  BY <1>1, <1>2, <1>3, InboxType DEF Types, TypeOK, tree

\* A row that is tapped exists and names a member.
LEMMA TappedType ==
  ASSUME Types, TapMeansDrawnRow, NEW i \in DOMAIN drawn
  PROVE  /\ i \in DOMAIN friends /\ friends[i].id \in Member
<1>1. /\ drawn \in Seq(Row) /\ friends \in Seq(Row)
      /\ Len(drawn) <= Len(friends)
  BY DEF Types, TypeOK, TapMeansDrawnRow, IsPrefix
<1>2. i \in 1..Len(friends) /\ DOMAIN friends = 1..Len(friends)
  BY <1>1
<1>3. friends[i] \in Row
  BY <1>1, <1>2
<1>. QED
  BY <1>2, <1>3 DEF Row

\* Taking the first block of the main queue
LEMMA TakeType ==
  ASSUME Types, NEW kind, Runs(kind)
  PROVE  /\ inbox # <<>> /\ Head(inbox) \in Message /\ Head(inbox).kind = kind
         /\ Tail(inbox) \in Seq(Message)
BY DEF Runs, Types

\* The callback of getFriends keeps the types: every member of the answer is
\* served from the library's data or waits for one listen.
LEMMA TypesFriendsFound ==
  ASSUME Types, FriendsFound
  PROVE  Types'
<1>. DEFINE ids == Head(inbox).ids
            tag == Head(inbox).tag
            want(i) == [row |-> [id |-> ids[i], status |-> tag],
                        last |-> i = Len(ids)]
            later == {i \in DOMAIN ids : ~Cached(ids[i])}
            fresh == {i \in later : NeedsListen(ids[i])}
            served == DOMAIN ids \ later
<1>1. /\ ids \in Seq(Member) /\ IsInjective(ids) /\ tag \in Status
      /\ Tail(inbox) \in Seq(Message)
  <2>1. /\ Head(inbox) \in Message /\ Head(inbox).kind = "list"
        /\ Tail(inbox) \in Seq(Message)
    BY TakeType DEF FriendsFound
  <2>. QED
    BY <2>1, MessageCases DEF Update
<1>2. PICK now \in InOrder(served) :
          inbox' = Tail(inbox) \o [i \in DOMAIN now |-> Wanted(want(now[i]))]
  BY DEF FriendsFound
<1>3. PICK new \in InOrder(fresh) :
          line' = line \o [i \in DOMAIN new |-> ids[new[i]]]
  BY DEF FriendsFound
<1>4. waiting' = [f \in Member |->
             IF \E i \in later : ids[i] = f
             THEN Append(waiting[f], want(CHOOSE i \in later : ids[i] = f))
             ELSE waiting[f]]
  BY DEF FriendsFound
<1>5. UNCHANGED <<tree, observing, loaded, asked, list, steps, clean>>
  BY DEF FriendsFound
<1>6. Len(ids) \in Nat /\ DOMAIN ids = 1..Len(ids)
  BY <1>1
<1>7. \A i \in DOMAIN ids : want(i) \in Want
  <2>1. ASSUME NEW i \in DOMAIN ids
        PROVE  want(i) \in Want
    <3>1. ids[i] \in Member
      BY <1>1
    <3>2. [id |-> ids[i], status |-> tag] \in Row
      BY <1>1, <3>1 DEF Row
    <3>. QED
      BY <3>2 DEF Want
  <2>. QED
    BY <2>1
<1>8. later \subseteq 1..Len(ids) /\ fresh \subseteq later
      /\ served \subseteq 1..Len(ids)
  BY <1>6
<1>a. /\ \A i \in DOMAIN ids : i \in later <=> ~Cached(ids[i])
      /\ \A i \in later : i \in fresh <=> ids[i] \notin ToSet(line)
  BY DEF NeedsListen
<1>. HIDE DEF ids, tag, later, fresh, served
<1>9. inbox' \in Seq(Message)
  <2>1. /\ now \in Seq(served) /\ DOMAIN now = 1..Len(now)
    BY <1>6, <1>8, InOrderType
  <2>. DEFINE f == [i \in DOMAIN now |-> Wanted(want(now[i]))]
  <2>7. \A i \in 1..Len(now) : now[i] \in served
    BY <2>1
  <2>2. \A i \in 1..Len(now) : now[i] \in DOMAIN ids
    BY <2>7, <1>8, <1>6
  <2>3. \A i \in 1..Len(now) : f[i] \in Message
    BY <2>1, <2>2, <1>7, MessageType
  <2>4. f = [i \in 1..Len(now) |-> f[i]] /\ Len(now) \in Nat
    BY <2>1
  <2>. HIDE DEF f
  <2>5. f \in Seq(Message)
    BY <2>3, <2>4, MapIsSeq
  <2>6. inbox' = Tail(inbox) \o f
    BY <1>2 DEF f
  <2>. QED
    BY <1>1, <2>5, <2>6
<1>10. /\ new \in Seq(fresh) /\ DOMAIN new = 1..Len(new)
       /\ \A i, j \in DOMAIN new : new[i] = new[j] => i = j
       /\ \A x \in fresh : \E i \in DOMAIN new : new[i] = x
  BY <1>6, <1>8, InOrderType
<1>. DEFINE g == [i \in DOMAIN new |-> ids[new[i]]]
<1>11. /\ g \in Seq(Member) /\ Len(g) = Len(new) /\ DOMAIN g = DOMAIN new
       /\ \A i \in DOMAIN new : new[i] \in fresh /\ g[i] = ids[new[i]]
  <2>1. \A i \in 1..Len(new) : new[i] \in fresh
    BY <1>10
  <2>5. \A i \in 1..Len(new) : g[i] = ids[new[i]]
    BY <1>10
  <2>6. \A i \in 1..Len(new) : new[i] \in 1..Len(ids)
    BY <2>1, <1>8
  <2>2. \A i \in 1..Len(new) : g[i] \in Member /\ g[i] = ids[new[i]]
    BY <2>5, <2>6, <1>1
  <2>3. g = [i \in 1..Len(new) |-> g[i]] /\ Len(new) \in Nat
    BY <1>10
  <2>. HIDE DEF g
  <2>4. g \in Seq(Member) /\ Len(g) = Len(new)
    BY <2>2, <2>3, MapIsSeq
  <2>. QED
    BY <2>1, <2>2, <2>3, <2>4, <1>10
<1>12. line' = line \o g
  BY <1>3
<1>. HIDE DEF g
<1>13. /\ \A i, j \in DOMAIN g : g[i] = g[j] => i = j
       /\ \A i \in DOMAIN g : g[i] \notin ToSet(line)
  <2>1. ASSUME NEW i \in DOMAIN g, NEW j \in DOMAIN g, g[i] = g[j]
        PROVE  i = j
    <3>1. new[i] \in DOMAIN ids /\ new[j] \in DOMAIN ids
      BY <1>11, <1>8, <1>6
    <3>2. new[i] = new[j]
      BY <3>1, <2>1, <1>11, <1>1 DEF IsInjective
    <3>. QED
      BY <3>2, <1>10, <1>11
  <2>2. \A i \in fresh : ids[i] \notin ToSet(line)
    BY <1>a, <1>8
  <2>. QED
    BY <2>1, <2>2, <1>11
<1>14. line' \in Seq(Member) /\ IsInjective(line')
  <2>1. line \in Seq(Member) /\ IsInjective(line)
    BY DEF Types, TypeOK
  <2>2. ASSUME NEW i \in DOMAIN (line \o g), NEW j \in DOMAIN (line \o g),
               (line \o g)[i] = (line \o g)[j]
        PROVE  i = j
    <3>1. /\ \/ i \in DOMAIN line /\ (line \o g)[i] = line[i]
             \/ i - Len(line) \in DOMAIN g /\ (line \o g)[i] = g[i - Len(line)]
          /\ \/ j \in DOMAIN line /\ (line \o g)[j] = line[j]
             \/ j - Len(line) \in DOMAIN g /\ (line \o g)[j] = g[j - Len(line)]
      BY <2>1, <1>11, ConcatElements
    <3>2. i \in Int /\ j \in Int /\ Len(line) \in Int
      BY <2>1, <1>11
    <3>3. \A k \in DOMAIN line, l \in DOMAIN g : line[k] # g[l]
      BY <1>13 DEF ToSet
    <3>4. \A k, l \in DOMAIN line : line[k] = line[l] => k = l
      BY <2>1 DEF IsInjective
    <3>5. i - Len(line) = j - Len(line) => i = j
      BY <3>2
    <3>. QED
      BY <2>2, <3>1, <3>3, <3>4, <3>5, <1>13
  <2>. QED
    BY <2>1, <2>2, <1>11, <1>12 DEF IsInjective
<1>15. \A f \in Member : f \in ToSet(line')
                         <=> f \in ToSet(line) \/ \E i \in fresh : ids[i] = f
  <2>1. line \in Seq(Member)
    BY DEF Types, TypeOK
  <2>2. ASSUME NEW f, f \in ToSet(line')
        PROVE  f \in ToSet(line) \/ \E i \in fresh : ids[i] = f
    <3>1. PICK i \in DOMAIN (line \o g) : (line \o g)[i] = f
      BY <2>2, <1>12 DEF ToSet
    <3>2. \/ i \in DOMAIN line /\ (line \o g)[i] = line[i]
          \/ i - Len(line) \in DOMAIN g /\ (line \o g)[i] = g[i - Len(line)]
      BY <2>1, <1>11, ConcatElements
    <3>. QED
      BY <3>1, <3>2, <1>11 DEF ToSet
  <2>3. ASSUME NEW f, f \in ToSet(line)
        PROVE  f \in ToSet(line')
    <3>1. PICK i \in DOMAIN line : line[i] = f
      BY <2>3 DEF ToSet
    <3>2. i \in DOMAIN (line \o g) /\ (line \o g)[i] = line[i]
      BY <2>1, <1>11, ConcatElements
    <3>. QED
      BY <3>1, <3>2, <1>12 DEF ToSet
  <2>4. ASSUME NEW x \in fresh
        PROVE  ids[x] \in ToSet(line')
    <3>1. PICK i \in DOMAIN new : new[i] = x
      BY <1>10
    <3>2. i + Len(line) \in DOMAIN (line \o g)
          /\ (line \o g)[i + Len(line)] = g[i]
      BY <2>1, <1>11, ConcatElements
    <3>. QED
      BY <3>1, <3>2, <1>11, <1>12 DEF ToSet
  <2>. QED
    BY <2>2, <2>3, <2>4
<1>16. ASSUME NEW f \in Member
       PROVE  /\ waiting'[f] \in Seq(Want)
              /\ waiting'[f] # <<>> <=> f \in ToSet(line')
  <2>1. /\ waiting[f] \in Seq(Want)
        /\ waiting[f] # <<>> <=> f \in ToSet(line)
    BY DEF Types, TypeOK
  <2>2. CASE \E i \in later : ids[i] = f
    <3>. DEFINE k == CHOOSE i \in later : ids[i] = f
    <3>1. k \in later /\ ids[k] = f
      BY <2>2
    <3>2. waiting'[f] = Append(waiting[f], want(k))
      BY <1>4, <2>2
    <3>. HIDE DEF k
    <3>3. want(k) \in Want
      BY <3>1, <1>7, <1>8, <1>6
    <3>4. waiting'[f] \in Seq(Want) /\ waiting'[f] # <<>>
      BY <2>1, <3>2, <3>3
    <3>5. f \in ToSet(line')
      BY <3>1, <1>15, <1>a
    <3>. QED
      BY <3>4, <3>5
  <2>3. CASE ~\E i \in later : ids[i] = f
    <3>1. waiting'[f] = waiting[f]
      BY <1>4, <2>3
    <3>. QED
      BY <2>1, <2>3, <3>1, <1>15, <1>8
  <2>. QED
    BY <2>2, <2>3
<1>17. waiting' \in [Member -> Seq(Want)]
  BY <1>4, <1>16
<1>. QED
  BY <1>5, <1>9, <1>14, <1>16, <1>17, InboxType DEF Types, TypeOK, tree, list

\* The callback of searchMember appends a row or does nothing.
LEMMA TypesMemberFound ==
  ASSUME Types, MemberFound
  PROVE  Types'
<1>1. /\ Head(inbox).want \in Want /\ inbox' \in Seq(Message)
  <2>1. /\ Head(inbox) \in Message /\ Head(inbox).kind = "member"
        /\ Tail(inbox) \in Seq(Message)
    BY TakeType DEF MemberFound
  <2>2. inbox' = Tail(inbox)
    BY DEF MemberFound
  <2>. QED
    BY <2>1, <2>2, MessageCases DEF Update
<1>2. friends' \in Seq(Row) /\ drawn' \in Seq(Row)
  <2>1. friends \in Seq(Row) /\ drawn \in Seq(Row)
    BY DEF Types, TypeOK
  <2>2. Head(inbox).want.row \in Row
    BY <1>1 DEF Want
  <2>3. \/ friends' = friends
        \/ friends' = Append(friends, Head(inbox).want.row)
    BY DEF MemberFound, list
  <2>4. drawn' = drawn \/ drawn' = friends'
    BY DEF MemberFound, list
  <2>5. friends' \in Seq(Row)
    BY <2>1, <2>2, <2>3
  <2>. QED
    BY <2>1, <2>4, <2>5
<1>3. clean' \in BOOLEAN
  BY DEF MemberFound, Types, TypeOK
<1>4. UNCHANGED <<tree, observing, loaded, query, steps>>
  BY DEF MemberFound
<1>. QED
  BY <1>1, <1>2, <1>3, <1>4, InboxType DEF Types, TypeOK, tree, query

\* The library answers a query for links.
LEMMA TypesAnswerList ==
  ASSUME Types, AnswerList
  PROVE  Types'
<1>1. PICK ids \in SetToSeqs({f \in Member : links[f] = Head(asked)}) :
          inbox' = Append(inbox, List(Head(asked), ids))
  BY DEF AnswerList
<1>2. ids \in Seq(Member) /\ IsInjective(ids)
  BY <1>1, ListType
<1>3. /\ asked \in Seq(Status) /\ asked # <<>> /\ asked' = Tail(asked)
  BY DEF Types, TypeOK, AnswerList
<1>4. Head(asked) \in Status /\ asked' \in Seq(Status)
  BY <1>3
<1>5. inbox' \in Seq(Message)
  BY <1>1, <1>2, <1>4, MessageType DEF Types
<1>6. UNCHANGED <<tree, observing, loaded, line, waiting, list, steps, clean>>
  BY DEF AnswerList
<1>. QED
  BY <1>4, <1>5, <1>6, InboxType DEF Types, TypeOK, tree, list

\* Taking the first member off the line
LEMMA LineTail ==
  ASSUME Types, line # <<>>
  PROVE  /\ Head(line) \in Member /\ Tail(line) \in Seq(Member)
         /\ IsInjective(Tail(line))
         /\ \A f : f \in ToSet(Tail(line)) <=> f \in ToSet(line) /\ f # Head(line)
<1>1. line \in Seq(Member) /\ IsInjective(line)
  BY DEF Types, TypeOK
<1>2. /\ \A i \in DOMAIN Tail(line) : /\ i + 1 \in DOMAIN line
                                      /\ Tail(line)[i] = line[i + 1]
                                      /\ i \in Nat /\ i >= 1
      /\ \A i \in DOMAIN line : i \in Nat /\ i >= 1
                                /\ (i # 1 => i - 1 \in DOMAIN Tail(line))
      /\ Head(line) = line[1] /\ 1 \in DOMAIN line
  BY <1>1, TailElements
<1>3. ASSUME NEW i \in DOMAIN Tail(line), NEW j \in DOMAIN Tail(line),
             Tail(line)[i] = Tail(line)[j]
      PROVE  i = j
  <2>1. i + 1 = j + 1
    BY <1>1, <1>2, <1>3 DEF IsInjective
  <2>. QED
    BY <2>1, <1>2
<1>4. ASSUME NEW i \in DOMAIN Tail(line)
      PROVE  Tail(line)[i] \in ToSet(line) /\ Tail(line)[i] # Head(line)
  <2>1. i + 1 # 1 /\ i + 1 \in DOMAIN line
    BY <1>2
  <2>2. line[i + 1] # line[1]
    BY <2>1, <1>1, <1>2 DEF IsInjective
  <2>. QED
    BY <2>1, <2>2, <1>2 DEF ToSet
<1>5. ASSUME NEW i \in DOMAIN line, line[i] # Head(line)
      PROVE  line[i] \in ToSet(Tail(line))
  <2>1. i # 1 /\ i - 1 \in DOMAIN Tail(line)
    BY <1>2, <1>5
  <2>2. Tail(line)[i - 1] = line[(i - 1) + 1] /\ (i - 1) + 1 = i
    BY <2>1, <1>2
  <2>. QED
    BY <2>1, <2>2 DEF ToSet
<1>. QED
  BY <1>1, <1>2, <1>3, <1>4, <1>5 DEF IsInjective, ToSet

\* What waited for a listen, as blocks of the main queue
Answers(f) == [i \in DOMAIN waiting[f] |-> Wanted(waiting[f][i])]

\* They are messages.
LEMMA AnswersType ==
  ASSUME Types, NEW f \in Member
  PROVE  /\ Answers(f) \in Seq(Message)
         /\ DOMAIN Answers(f) = 1..Len(waiting[f])
         /\ Len(Answers(f)) = Len(waiting[f])
         /\ \A i \in DOMAIN Answers(f) : Answers(f)[i] = Wanted(waiting[f][i])
<1>1. waiting[f] \in Seq(Want)
  BY DEF Types, TypeOK
<1>2. \A i \in 1..Len(waiting[f]) : waiting[f][i] \in Want
  BY <1>1
<1>. DEFINE g == [i \in DOMAIN waiting[f] |-> Wanted(waiting[f][i])]
<1>3. \A i \in 1..Len(waiting[f]) : g[i] \in Message /\ g[i] = Wanted(waiting[f][i])
  BY <1>1, <1>2, MessageType
<1>4. g = [i \in 1..Len(waiting[f]) |-> g[i]] /\ Len(waiting[f]) \in Nat
  BY <1>1
<1>5. Answers(f) = g
  BY DEF Answers
<1>. HIDE DEF g
<1>6. /\ g \in Seq(Message) /\ Len(g) = Len(waiting[f])
      /\ DOMAIN g = 1..Len(waiting[f])
  BY <1>3, <1>4, MapIsSeq
<1>. QED
  BY <1>3, <1>5, <1>6

\* The server answers a listen.
LEMMA TypesAnswerMember ==
  ASSUME Types, AnswerMember
  PROVE  Types'
<1>. DEFINE f == Head(line)
<1>1. /\ inbox' = inbox \o Answers(f)
      /\ waiting' = [waiting EXCEPT ![f] = <<>>]
      /\ line' = Tail(line) /\ line # <<>>
      /\ UNCHANGED <<tree, observing, loaded, asked, list, steps, clean>>
  BY DEF AnswerMember, Answers
<1>2. /\ f \in Member /\ Tail(line) \in Seq(Member)
      /\ IsInjective(Tail(line))
      /\ \A e : e \in ToSet(Tail(line)) <=> e \in ToSet(line) /\ e # f
  BY <1>1, LineTail
<1>. HIDE DEF f
<1>3. inbox' \in Seq(Message)
  BY <1>1, <1>2, AnswersType DEF Types
<1>4. waiting' \in [Member -> Seq(Want)]
  BY <1>1, <1>2 DEF Types, TypeOK
<1>5. \A e \in Member : waiting'[e] # <<>> <=> e \in ToSet(line')
  BY <1>1, <1>2 DEF Types, TypeOK
<1>. QED
  BY <1>1, <1>2, <1>3, <1>4, <1>5, InboxType DEF Types, TypeOK, tree, list

\* Every step keeps the types.
LEMMA TypesStep ==
  ASSUME Types, TapMeansDrawnRow, Next
  PROVE  Types'
<1>1. ASSUME NEW f \in Member, NEW s \in Status \cup {Absent}, Change(f, s)
      PROVE  Types'
  BY <1>1, TypesSetLink DEF Change
<1>2. CASE ObserveFriend
  <2>1. inbox' = inbox \o [i \in 1..Cardinality(Linked) |-> Update]
    BY <1>2 DEF ObserveFriend
  <2>2. [i \in 1..Cardinality(Linked) |-> Update] \in Seq(Message)
    <3>1. IsFiniteSet(Linked)
      BY MemberAssumption, FS_Subset DEF Linked
    <3>2. Cardinality(Linked) \in Nat
      BY <3>1, FS_CardinalityType
    <3>. DEFINE n == Cardinality(Linked)
                g == [i \in 1..n |-> Update]
    <3>3. \A i \in 1..n : g[i] \in Message
      BY MessageType
    <3>4. g = [i \in 1..n |-> g[i]]
      OBVIOUS
    <3>. HIDE DEF g, n
    <3>5. g \in Seq(Message)
      BY <3>2, <3>3, <3>4, MapIsSeq DEF n
    <3>. QED
      BY <3>5 DEF g, n
  <2>3. inbox' \in Seq(Message)
    BY <2>1, <2>2 DEF Types
  <2>4. observing' \in BOOLEAN
    BY <1>2 DEF ObserveFriend
  <2>5. UNCHANGED <<tree, loaded, query, list, steps, clean>>
    BY <1>2 DEF ObserveFriend
  <2>. QED
    BY <2>3, <2>4, <2>5, InboxType DEF Types, TypeOK, tree, query, list
<1>3. CASE ViewDidLoad
  BY <1>3, TypesGatFriends DEF ViewDidLoad, Types
<1>4. CASE UpdateFriendList
  <2>1. inbox' \in Seq(Message)
    BY <1>4, TakeType DEF UpdateFriendList
  <2>2. CASE loaded
    BY <2>1, <2>2, <1>4, TypesGatFriends DEF UpdateFriendList, Types, TypeOK
  <2>3. CASE ~loaded
    BY <2>1, <2>3, <1>4, InboxType
      DEF UpdateFriendList, Types, TypeOK, tree
  <2>. QED
    BY <2>2, <2>3
<1>5. CASE FriendsFound
  BY <1>5, TypesFriendsFound
<1>6. CASE MemberFound
  BY <1>6, TypesMemberFound
<1>7. ASSUME NEW i \in DOMAIN drawn, YesButtonClicked(i)
      PROVE  Types'
  <2>1. "valid" \in Status
    BY TagsType
  <2>. QED
    BY <1>7, <2>1, TappedType, TypesSetLink DEF YesButtonClicked
<1>8. ASSUME NEW i \in DOMAIN drawn, NoButtonClicked(i)
      PROVE  Types'
  BY <1>8, TappedType, TypesSetLink DEF NoButtonClicked
<1>9. CASE AnswerList
  BY <1>9, TypesAnswerList
<1>10. CASE AnswerMember
  BY <1>10, TypesAnswerMember
<1>. QED
  BY <1>1, <1>2, <1>3, <1>4, <1>5, <1>6, <1>7, <1>8, <1>9, <1>10
    DEF Next, MainQueue

-----------------------------------------------------------------------------
(* A tap always acts on the row the user saw.                              *)

\* Rows are only added to the array that was drawn, or both are emptied.
LEMMA DrawnStep ==
  ASSUME Types, TapMeansDrawnRow, Next
  PROVE  TapMeansDrawnRow'
<1>1. /\ friends \in Seq(Row) /\ drawn \in Seq(Row)
      /\ Len(drawn) <= Len(friends)
      /\ \A i \in 1..Len(drawn) : drawn[i] = friends[i]
  BY DEF Types, TypeOK, TapMeansDrawnRow, IsPrefix
<1>2. CASE UNCHANGED list
  BY <1>2 DEF list, TapMeansDrawnRow, IsPrefix
<1>3. CASE GatFriends
  BY <1>3 DEF GatFriends, TapMeansDrawnRow, IsPrefix
<1>4. CASE MemberFound
  <2>1. Head(inbox).want.row \in Row
    BY <1>4, TakeType, MessageCases DEF MemberFound, Update, Want
  <2>. DEFINE w == Head(inbox).want
  <2>2. CASE friends' = Append(friends, w.row) /\ drawn' = friends'
    BY <2>1, <2>2, <1>1 DEF TapMeansDrawnRow, IsPrefix
  <2>3. CASE friends' = Append(friends, w.row) /\ drawn' = drawn
    <3>1. /\ Len(friends') = Len(friends) + 1
          /\ \A i \in 1..Len(friends) : friends'[i] = friends[i]
      BY <2>1, <2>3, <1>1
    <3>. QED
      BY <3>1, <2>3, <1>1 DEF TapMeansDrawnRow, IsPrefix
  <2>4. CASE UNCHANGED list
    BY <2>4, <1>2
  <2>. QED
    BY <2>2, <2>3, <2>4, <1>4 DEF MemberFound, list
<1>. QED
  BY <1>2, <1>3, <1>4
    DEF Next, MainQueue, Change, ObserveFriend, ViewDidLoad, UpdateFriendList,
        FriendsFound, YesButtonClicked, NoButtonClicked, AnswerList,
        AnswerMember, list

-----------------------------------------------------------------------------
(* An undisturbed refresh shows every link once, with its current status.  *)
(* While it runs, the row of each linked member is in exactly one place:   *)
(* its tag is still to be answered, or it is listed in an answer on the    *)
(* main queue, or its member query waits in line or on the main queue, or  *)
(* it is in the array.                                                     *)

RowOf(f) == [id |-> f, status |-> links[f]]
Due(f) == links[f] \in ToSet(asked)
InRow(f) == \E i \in DOMAIN friends : friends[i].id = f
InLine(f) == f \in ToSet(line)
InList(f) == \E i \in OfKind("list") : f \in ToSet(inbox[i].ids)

\* No later refresh has begun or is about to, and no link has changed.
Undisturbed == clean /\ OfKind("update") = {}

RowsRight ==
    /\ \A i \in DOMAIN friends :
           /\ friends[i] = RowOf(friends[i].id)
           /\ friends[i].id \in Linked /\ ~Due(friends[i].id)
    /\ \A i, j \in DOMAIN friends : friends[i].id = friends[j].id => i = j

Id(i) == inbox[i].want.row.id
AnswersRight ==
    /\ \A i \in OfKind("member") :
           /\ inbox[i].want.row = RowOf(Id(i))
           /\ Id(i) \in Linked /\ ~Due(Id(i)) /\ ~InRow(Id(i))
    /\ \A i, j \in OfKind("member") : Id(i) = Id(j) => i = j

LineRight ==
    \A f \in ToSet(line) :
        /\ Len(waiting[f]) = 1 /\ waiting[f][1].row = RowOf(f)
        /\ f \in Linked /\ ~Due(f) /\ ~InRow(f) /\ ~Cached(f)

ListsRight ==
    /\ \A i \in OfKind("list") :
           /\ inbox[i].tag \notin ToSet(asked)
           /\ ToSet(inbox[i].ids) = {f \in Member : links[f] = inbox[i].tag}
           /\ \A f \in ToSet(inbox[i].ids) : ~InRow(f) /\ ~Cached(f) /\ ~InLine(f)
    /\ \A i, j \in OfKind("list") : inbox[i].tag = inbox[j].tag => i = j

NoneMissing ==
    \A f \in Linked : Due(f) \/ InRow(f) \/ Cached(f) \/ InLine(f) \/ InList(f)

\* The row that redraws the table is the last one to arrive.
LastDraws ==
    /\ line # <<>> => waiting[line[Len(line)]][1].last
    /\ line = <<>> /\ OfKind("member") = {} => drawn = friends
    /\ line = <<>> => \A i \in OfKind("member") :
           (\A j \in OfKind("member") : j <= i) => inbox[i].want.last

CleanInv ==
    Undisturbed => /\ IsInjective(asked)
                   /\ RowsRight /\ AnswersRight /\ LineRight /\ ListsRight
                   /\ NoneMissing /\ LastDraws

\* Before the links are observed, and before the tab is opened
Before ==
    /\ ~observing => /\ inbox = <<>> /\ line = <<>> /\ friends = <<>>
                     /\ drawn = <<>> /\ (clean => asked = Tags)
    /\ ~loaded => /\ asked = <<>> /\ line = <<>> /\ friends = <<>>
                  /\ drawn = <<>> /\ ~clean
                  /\ OfKind("list") \cup OfKind("member") = {}

Inv == Types /\ TapMeansDrawnRow /\ Before /\ CleanInv

\* A refresh that has only asked its three queries is right.
LEMMA Fresh ==
  ASSUME (/\ Types /\ asked = Tags /\ line = <<>>
          /\ friends = <<>> /\ drawn = <<>>
          /\ OfKind("list") \cup OfKind("member") = {})'
  PROVE  CleanInv'
<1>1. IsInjective(asked')
  BY TagsType
<1>2. RowsRight'
  BY DEF RowsRight
<1>3. AnswersRight'
  BY DEF AnswersRight
<1>4. LineRight'
  BY DEF LineRight, ToSet
<1>5. ListsRight'
  BY DEF ListsRight
<1>6. NoneMissing'
  <2>1. ASSUME NEW f \in Member, links'[f] # Absent
        PROVE  links'[f] \in ToSet(asked')
    <3>1. links'[f] \in Status
      BY <2>1 DEF Types, TypeOK
    <3>. QED
      BY <3>1, TagsType
  <2>. QED
    BY <2>1 DEF NoneMissing, Linked, Due
<1>7. LastDraws'
  BY DEF LastDraws
<1>. QED
  BY <1>1, <1>2, <1>3, <1>4, <1>5, <1>6, <1>7 DEF CleanInv

\* Nothing the invariant is about has changed.
LEMMA Unchanged ==
  ASSUME CleanInv, UNCHANGED <<links, inbox, query, list>>, clean' => clean
  PROVE  CleanInv'
<1>1. /\ links' = links /\ inbox' = inbox /\ asked' = asked /\ line' = line
      /\ waiting' = waiting /\ friends' = friends /\ drawn' = drawn
  BY DEF query, list
<1>2. RowsRight' <=> RowsRight
  BY <1>1 DEF RowsRight, RowOf, Linked, Due
<1>3. AnswersRight' <=> AnswersRight
  BY <1>1 DEF AnswersRight, OfKind, Id, RowOf, Linked, Due, InRow
<1>4. LineRight' <=> LineRight
  BY <1>1 DEF LineRight, OfKind, RowOf, Linked, Due, InRow, Cached
<1>5. ListsRight' <=> ListsRight
  BY <1>1 DEF ListsRight, OfKind, InRow, Cached, InLine
<1>6. NoneMissing' <=> NoneMissing
  BY <1>1 DEF NoneMissing, Linked, Due, InRow, Cached, InLine, InList, OfKind
<1>7. LastDraws' <=> LastDraws
  BY <1>1 DEF LastDraws, OfKind
<1>8. Undisturbed' => Undisturbed
  BY <1>1 DEF Undisturbed, OfKind
<1>. QED
  BY <1>1, <1>2, <1>3, <1>4, <1>5, <1>6, <1>7, <1>8 DEF CleanInv

\* gatFriends begins an undisturbed refresh only when nothing of an earlier
\* one is still to come.
LEMMA CleanGatFriends ==
  ASSUME Types', GatFriends, UNCHANGED line,
         OfKind("list") \cup OfKind("member") = {}
             => (OfKind("list") \cup OfKind("member"))' = {}
  PROVE  CleanInv'
<1>1. CASE ~clean'
  BY <1>1 DEF CleanInv, Undisturbed
<1>2. CASE clean'
  <2>1. Idle
    BY <1>2 DEF GatFriends
  <2>2. asked' = Tags
    BY <2>1, TagsType DEF GatFriends, Idle
  <2>3. /\ line' = <<>> /\ friends' = <<>> /\ drawn' = <<>>
        /\ (OfKind("list") \cup OfKind("member"))' = {}
    BY <2>1 DEF GatFriends, Idle
  <2>. QED
    BY <2>2, <2>3, Fresh
<1>. QED
  BY <1>1, <1>2

\* A link that changes disturbs the refresh: an update is on its way, or the
\* links are not observed yet and the queries are still to be answered.
LEMMA CleanSetLink ==
  ASSUME Types, Types', Before, CleanInv,
         NEW f \in Member, NEW s \in Status \cup {Absent}, SetLink(f, s),
         UNCHANGED <<ghosts, observing, loaded, query, list, clean>>
  PROVE  CleanInv'
<1>1. CASE ~observing
  <2>1. CASE clean
    <3>1. /\ inbox' = <<>> /\ line' = <<>> /\ friends' = <<>> /\ drawn' = <<>>
          /\ asked' = Tags
      BY <1>1, <2>1 DEF Before, SetLink, query, list
    <3>2. (OfKind("list") \cup OfKind("member"))' = {}
      <4>1. DOMAIN inbox' = {}
        BY <3>1
      <4>. QED
        BY <4>1 DEF OfKind
    <3>. QED
      BY <3>1, <3>2, Fresh
  <2>2. CASE ~clean
    BY <2>2 DEF CleanInv, Undisturbed
  <2>. QED
    BY <2>1, <2>2
<1>2. CASE observing /\ links[f] # s
  <2>1. inbox' = Append(inbox, Update) /\ inbox \in Seq(Message)
    BY <1>2 DEF SetLink, Types
  <2>2. Len(inbox) + 1 \in DOMAIN inbox' /\ inbox'[Len(inbox) + 1] = Update
    BY <2>1, MessageType, AppendElements
  <2>3. OfKind("update")' # {}
    BY <2>2 DEF OfKind, Update
  <2>. QED
    BY <2>3 DEF CleanInv, Undisturbed
<1>3. CASE observing /\ links[f] = s
  <2>1. links' = links /\ inbox' = inbox
    BY <1>3 DEF SetLink, Types, TypeOK
  <2>. QED
    BY <2>1, Unchanged
<1>. QED
  BY <1>1, <1>2, <1>3

\* The blocks of one kind after one more block was dispatched
LEMMA InboxAppend ==
  ASSUME inbox \in Seq(Message), NEW m \in Message, inbox' = Append(inbox, m),
         NEW kind
  PROVE  /\ \A i \in OfKind(kind)' :
                \/ i \in OfKind(kind) /\ inbox'[i] = inbox[i]
                \/ i = Len(inbox) + 1 /\ m.kind = kind /\ inbox'[i] = m
         /\ \A i \in OfKind(kind) : /\ i \in OfKind(kind)' /\ inbox'[i] = inbox[i]
                                    /\ i \in Nat /\ i <= Len(inbox)
         /\ m.kind = kind => Len(inbox) + 1 \in OfKind(kind)'
         /\ inbox'[Len(inbox) + 1] = m /\ Len(inbox) \in Nat
BY AppendElements DEF OfKind

\* The blocks of one kind after the first block has run
LEMMA InboxTail ==
  ASSUME inbox \in Seq(Message), inbox # <<>>, inbox' = Tail(inbox), NEW kind
  PROVE  /\ \A i \in OfKind(kind)' : /\ i + 1 \in OfKind(kind)
                                     /\ inbox'[i] = inbox[i + 1]
                                     /\ i \in Nat /\ i >= 1
         /\ \A i \in OfKind(kind) :
                /\ i \in Nat /\ i >= 1
                /\ i # 1 => i - 1 \in OfKind(kind)' /\ inbox'[i - 1] = inbox[i]
         /\ Head(inbox) = inbox[1]
         /\ Head(inbox).kind = kind => 1 \in OfKind(kind)
<1>1. /\ \A i \in DOMAIN inbox' : /\ i + 1 \in DOMAIN inbox
                                  /\ inbox'[i] = inbox[i + 1]
                                  /\ i \in Nat /\ i >= 1
      /\ \A i \in DOMAIN inbox : i \in Nat /\ i >= 1
                                 /\ (i # 1 => i - 1 \in DOMAIN inbox')
      /\ Head(inbox) = inbox[1] /\ 1 \in DOMAIN inbox
  BY TailElements
<1>2. ASSUME NEW i \in DOMAIN inbox, i # 1
      PROVE  i - 1 \in DOMAIN inbox' /\ inbox'[i - 1] = inbox[i]
  <2>1. i - 1 \in DOMAIN inbox' /\ (i - 1) + 1 = i
    BY <1>1, <1>2
  <2>. QED
    BY <2>1, <1>1
<1>. QED
  BY <1>1, <1>2 DEF OfKind

\* The library answers a query: its members leave their tag for the list.
LEMMA CleanAnswerList ==
  ASSUME Types, CleanInv, AnswerList
  PROVE  CleanInv'
<1>. DEFINE tag == Head(asked)
            S == {f \in Member : links[f] = tag}
<1>1. PICK ids \in SetToSeqs(S) : inbox' = Append(inbox, List(tag, ids))
  BY DEF AnswerList
<1>2. ids \in Seq(Member) /\ IsInjective(ids) /\ ToSet(ids) = S
  BY ListType
<1>3. /\ asked \in Seq(Status) /\ asked # <<>> /\ asked' = Tail(asked)
      /\ UNCHANGED <<tree, line, waiting, list, clean>>
  BY DEF AnswerList, Types, TypeOK
<1>4. tag \in Status
  BY <1>3
<1>. DEFINE m == List(tag, ids)
            n == Len(inbox) + 1
<1>5. m \in Message /\ m.kind = "list" /\ m.tag = tag /\ m.ids = ids
  BY <1>2, <1>4, MessageType DEF List
<1>6. inbox \in Seq(Message) /\ inbox' = Append(inbox, m)
  BY <1>1 DEF Types
<1>. HIDE DEF m
<1>7. /\ \A i \in OfKind("list")' :
             \/ i \in OfKind("list") /\ inbox'[i] = inbox[i]
             \/ i = n /\ inbox'[i] = m
      /\ \A i \in OfKind("list") : /\ i \in OfKind("list")' /\ inbox'[i] = inbox[i]
                                   /\ i # n
      /\ n \in OfKind("list")' /\ inbox'[n] = m
  <2>1. /\ \A i \in OfKind("list")' :
               \/ i \in OfKind("list") /\ inbox'[i] = inbox[i]
               \/ i = Len(inbox) + 1 /\ inbox'[i] = m
        /\ \A i \in OfKind("list") :
               /\ i \in OfKind("list")' /\ inbox'[i] = inbox[i]
               /\ i \in Nat /\ i <= Len(inbox)
        /\ Len(inbox) + 1 \in OfKind("list")'
        /\ inbox'[Len(inbox) + 1] = m /\ Len(inbox) \in Nat
    BY <1>5, <1>6, InboxAppend, Zenon
  <2>. QED
    BY <2>1
<1>8. /\ OfKind("member")' = OfKind("member")
      /\ \A i \in OfKind("member") : inbox'[i] = inbox[i]
  <2>1. /\ \A i \in OfKind("member")' :
               i \in OfKind("member") \/ m.kind = "member"
        /\ \A i \in OfKind("member") :
               i \in OfKind("member")' /\ inbox'[i] = inbox[i]
    BY <1>5, <1>6, InboxAppend, Zenon
  <2>2. m.kind # "member"
    BY <1>5
  <2>. QED
    BY <2>1, <2>2
<1>9. OfKind("update") \subseteq OfKind("update")'
  <2>1. \A i \in OfKind("update") : i \in OfKind("update")'
    BY <1>5, <1>6, InboxAppend, Zenon
  <2>. QED
    BY <2>1
<1>. SUFFICES ASSUME Undisturbed'
     PROVE  (/\ IsInjective(asked) /\ RowsRight /\ AnswersRight /\ LineRight
             /\ ListsRight /\ NoneMissing /\ LastDraws)'
  BY DEF CleanInv
<1>10. /\ IsInjective(asked) /\ RowsRight /\ AnswersRight /\ LineRight
       /\ ListsRight /\ NoneMissing /\ LastDraws
  BY <1>3, <1>9 DEF CleanInv, Undisturbed
<1>11. /\ IsInjective(asked')
       /\ \A t : t \in ToSet(asked') <=> t \in ToSet(asked) /\ t # tag
       /\ tag \in ToSet(asked)
  <2>1. /\ \A i \in DOMAIN Tail(asked) : /\ i + 1 \in DOMAIN asked
                                         /\ Tail(asked)[i] = asked[i + 1]
                                         /\ i \in Nat /\ i >= 1
        /\ \A i \in DOMAIN asked : i \in Nat /\ i >= 1
                                   /\ (i # 1 => i - 1 \in DOMAIN Tail(asked))
        /\ Head(asked) = asked[1] /\ 1 \in DOMAIN asked
    BY <1>3, TailElements
  <2>2. ASSUME NEW i \in DOMAIN Tail(asked), NEW j \in DOMAIN Tail(asked),
               Tail(asked)[i] = Tail(asked)[j]
        PROVE  i = j
    <3>1. i + 1 = j + 1
      BY <2>1, <2>2, <1>10 DEF IsInjective
    <3>. QED
      BY <3>1, <2>1
  <2>3. ASSUME NEW i \in DOMAIN Tail(asked)
        PROVE  Tail(asked)[i] \in ToSet(asked) /\ Tail(asked)[i] # tag
    <3>1. i + 1 # 1 /\ i + 1 \in DOMAIN asked
      BY <2>1
    <3>2. asked[i + 1] # asked[1]
      BY <3>1, <2>1, <1>10 DEF IsInjective
    <3>. QED
      BY <3>1, <3>2, <2>1 DEF ToSet
  <2>4. ASSUME NEW i \in DOMAIN asked, asked[i] # tag
        PROVE  asked[i] \in ToSet(Tail(asked))
    <3>1. i # 1 /\ i - 1 \in DOMAIN Tail(asked)
      BY <2>1, <2>4
    <3>2. Tail(asked)[i - 1] = asked[(i - 1) + 1] /\ (i - 1) + 1 = i
      BY <3>1, <2>1
    <3>. QED
      BY <3>1, <3>2 DEF ToSet
  <2>5. IsInjective(asked')
    BY <2>2, <1>3 DEF IsInjective
  <2>6. \A t : t \in ToSet(asked') => t \in ToSet(asked) /\ t # tag
    BY <2>3, <1>3 DEF ToSet
  <2>7. \A t : t \in ToSet(asked) /\ t # tag => t \in ToSet(asked')
    BY <2>4, <1>3 DEF ToSet
  <2>8. tag \in ToSet(asked)
    BY <2>1 DEF ToSet
  <2>. QED
    BY <2>5, <2>6, <2>7, <2>8
<1>12. /\ links' = links /\ line' = line /\ waiting' = waiting
       /\ friends' = friends /\ drawn' = drawn
  BY <1>3 DEF tree, list
<1>13. /\ Linked' = Linked
       /\ \A f : /\ RowOf(f)' = RowOf(f) /\ InRow(f)' = InRow(f)
                 /\ InLine(f)' = InLine(f)
       /\ \A f : Due(f)' => Due(f)
  BY <1>11, <1>12 DEF Linked, RowOf, InRow, InLine, Due
<1>14. \A f : Cached(f)' <=> Cached(f)
  BY <1>8 DEF Cached
<1>15. RowsRight'
  BY <1>10, <1>12, <1>13 DEF RowsRight
<1>16. AnswersRight'
  BY <1>10, <1>8, <1>13 DEF AnswersRight, Id
<1>17. LineRight'
  BY <1>10, <1>12, <1>13, <1>14 DEF LineRight
<1>18. ListsRight'
  <2>1. \A f \in S : ~InRow(f) /\ ~Cached(f) /\ ~InLine(f)
    <3>1. \A f \in S : Due(f) /\ f \in Member
      BY <1>11 DEF Due
    <3>. QED
      BY <3>1, <1>10
        DEF RowsRight, AnswersRight, LineRight, InRow, Cached, InLine, Id
  <2>2. ASSUME NEW i \in OfKind("list")'
        PROVE  /\ inbox'[i].tag \notin ToSet(asked')
               /\ ToSet(inbox'[i].ids) = {f \in Member : links[f] = inbox'[i].tag}
               /\ \A f \in ToSet(inbox'[i].ids) :
                      ~InRow(f) /\ ~Cached(f) /\ ~InLine(f)
    <3>1. CASE i \in OfKind("list") /\ inbox'[i] = inbox[i]
      BY <3>1, <1>10, <1>11 DEF ListsRight
    <3>2. CASE inbox'[i] = m
      BY <3>2, <2>1, <1>2, <1>5, <1>11
    <3>. QED
      BY <3>1, <3>2, <1>7
  <2>3. \A i \in OfKind("list") : inbox[i].tag # tag
    BY <1>10, <1>11 DEF ListsRight
  <2>4. \A i, j \in OfKind("list")' : inbox'[i].tag = inbox'[j].tag => i = j
    BY <2>3, <1>5, <1>7, <1>10 DEF ListsRight
  <2>. QED
    BY <2>2, <2>4, <1>12, <1>13, <1>14 DEF ListsRight
<1>19. NoneMissing'
  <2>1. ASSUME NEW f \in Linked
        PROVE  Due(f)' \/ InRow(f) \/ Cached(f) \/ InLine(f) \/ InList(f)'
    <3>1. InList(f) => InList(f)'
      BY <1>7 DEF InList
    <3>2. Due(f) /\ links[f] # tag => Due(f)'
      BY <1>11, <1>12 DEF Due
    <3>3. links[f] = tag => InList(f)'
      <4>1. f \in Member
        BY DEF Linked
      <4>. QED
        BY <4>1, <1>2, <1>5, <1>7 DEF InList
    <3>. QED
      BY <3>1, <3>2, <3>3, <1>10 DEF NoneMissing
  <2>. QED
    BY <2>1, <1>13, <1>14 DEF NoneMissing
<1>20. LastDraws'
  BY <1>8, <1>10, <1>12 DEF LastDraws
<1>. QED
  BY <1>11, <1>15, <1>16, <1>17, <1>18, <1>19, <1>20

\* The server answers a listen: the one row that waited for it moves from the
\* line to the main queue.
LEMMA CleanAnswerMember ==
  ASSUME Types, CleanInv, AnswerMember
  PROVE  CleanInv'
<1>. DEFINE f == Head(line)
            w == waiting[f][1]
            m == Wanted(w)
            n == Len(inbox) + 1
<1>1. /\ inbox' = inbox \o Answers(f)
      /\ waiting' = [waiting EXCEPT ![f] = <<>>]
      /\ line' = Tail(line) /\ line # <<>>
      /\ UNCHANGED <<tree, asked, list, clean>>
  BY DEF AnswerMember, Answers
<1>2. /\ f \in Member /\ IsInjective(line) /\ line \in Seq(Member)
      /\ \A e : e \in ToSet(Tail(line)) <=> e \in ToSet(line) /\ e # f
      /\ inbox \in Seq(Message) /\ waiting[f] \in Seq(Want)
      /\ waiting \in [Member -> Seq(Want)]
  BY <1>1, LineTail DEF Types, TypeOK
<1>3. f \in ToSet(line)
  BY <1>1, <1>2 DEF ToSet
<1>4. CASE ~Undisturbed
  <2>1. Answers(f) \in Seq(Message)
    BY <1>2, AnswersType
  <2>2. \A i \in DOMAIN inbox : i \in DOMAIN inbox' /\ inbox'[i] = inbox[i]
    BY <1>1, <1>2, <2>1, ConcatElements
  <2>3. ~Undisturbed'
    BY <1>1, <1>4, <2>2 DEF Undisturbed, OfKind
  <2>. QED
    BY <2>3 DEF CleanInv
<1>5. CASE Undisturbed
  <2>1. /\ IsInjective(asked) /\ RowsRight /\ AnswersRight /\ LineRight
        /\ ListsRight /\ NoneMissing /\ LastDraws
    BY <1>5 DEF CleanInv
  <2>2. /\ Len(waiting[f]) = 1 /\ w \in Want
        /\ w.row = RowOf(f) /\ w.row.id = f
        /\ f \in Linked /\ ~Due(f) /\ ~InRow(f) /\ ~Cached(f)
    <3>1. Len(waiting[f]) = 1 /\ w.row = RowOf(f)
      BY <1>3, <2>1 DEF LineRight
    <3>2. w \in Want
      BY <1>2, <3>1
    <3>. QED
      BY <1>3, <2>1, <3>1, <3>2 DEF LineRight, RowOf
  <2>3. inbox' = Append(inbox, m) /\ m \in Message
    <3>1. m \in Message
      BY <2>2, MessageType
    <3>2. Answers(f) = <<m>>
      <4>1. /\ Answers(f) \in Seq(Message) /\ Len(Answers(f)) = 1
            /\ Answers(f)[1] = m
        BY <1>2, <2>2, AnswersType
      <4>. HIDE DEF m
      <4>. QED
        BY <4>1
    <3>3. inbox \o <<m>> = Append(inbox, m)
      BY <1>2, <3>1
    <3>. QED
      BY <1>1, <3>1, <3>2, <3>3
  <2>4. m.kind = "member" /\ m.want = w
    BY DEF Wanted
  <2>. HIDE DEF f, m, w
  <2>5. /\ \A i \in OfKind("member")' :
               \/ i \in OfKind("member") /\ inbox'[i] = inbox[i]
               \/ i = n /\ inbox'[i] = m
        /\ \A i \in OfKind("member") :
               /\ i \in OfKind("member")' /\ inbox'[i] = inbox[i]
               /\ i \in Nat /\ i <= Len(inbox)
        /\ n \in OfKind("member")' /\ inbox'[n] = m /\ Len(inbox) \in Nat
    BY <1>2, <2>3, <2>4, InboxAppend, Zenon
  <2>6. /\ OfKind("list")' = OfKind("list")
        /\ \A i \in OfKind("list") : inbox'[i] = inbox[i]
    <3>1. /\ \A i \in OfKind("list")' :
                 i \in OfKind("list") \/ m.kind = "list"
          /\ \A i \in OfKind("list") :
                 i \in OfKind("list")' /\ inbox'[i] = inbox[i]
      BY <1>2, <2>3, InboxAppend, Zenon
    <3>2. m.kind # "list"
      BY <2>4
    <3>. QED
      BY <3>1, <3>2
  <2>7. /\ links' = links /\ asked' = asked
        /\ friends' = friends /\ drawn' = drawn
    BY <1>1 DEF tree, list
  <2>8. /\ Linked' = Linked
        /\ \A e : RowOf(e)' = RowOf(e)
        /\ \A e : InRow(e)' <=> InRow(e)
        /\ \A e : Due(e)' <=> Due(e)
        /\ \A e : InList(e)' <=> InList(e)
    BY <2>6, <2>7 DEF Linked, RowOf, InRow, Due, InList
  <2>9. \A e : InLine(e)' <=> InLine(e) /\ e # f
    BY <1>1, <1>2 DEF InLine
  <2>10. \A e : Cached(e)' <=> Cached(e) \/ e = f
    BY <2>2, <2>4, <2>5 DEF Cached
  <2>11. \A e \in Member : e # f => waiting'[e] = waiting[e]
    BY <1>1, <1>2
  <2>12. RowsRight'
    BY <2>1, <2>7, <2>8 DEF RowsRight
  <2>13. AnswersRight'
    <3>1. \A i \in OfKind("member") :
              Id(i)' = Id(i) /\ inbox'[i].want = inbox[i].want /\ Id(i) # f
      BY <2>2, <2>5 DEF Id, Cached
    <3>2. \A i : i = n => Id(i)' = f /\ inbox'[i].want.row = RowOf(f)
      BY <2>2, <2>4, <2>5 DEF Id
    <3>3. ASSUME NEW i \in OfKind("member")'
          PROVE  /\ inbox'[i].want.row = RowOf(Id(i)')
                 /\ Id(i)' \in Linked /\ ~Due(Id(i)') /\ ~InRow(Id(i)')
      <4>1. CASE i \in OfKind("member")
        BY <4>1, <3>1, <2>1 DEF AnswersRight
      <4>2. CASE i = n
        BY <4>2, <3>2, <2>2
      <4>. QED
        BY <4>1, <4>2, <2>5
    <3>4. ASSUME NEW i \in OfKind("member")', NEW j \in OfKind("member")',
                 Id(i)' = Id(j)'
          PROVE  i = j
      <4>1. \A k, l \in OfKind("member") : Id(k) = Id(l) => k = l
        BY <2>1 DEF AnswersRight
      <4>. QED
        BY <4>1, <3>1, <3>2, <3>4, <2>5
    <3>. QED
      BY <3>3, <3>4, <2>8 DEF AnswersRight
  <2>14. LineRight'
    <3>1. ASSUME NEW e \in ToSet(line')
          PROVE  /\ Len(waiting'[e]) = 1 /\ waiting'[e][1].row = RowOf(e)
                 /\ e \in Linked /\ ~Due(e) /\ ~InRow(e) /\ ~Cached(e)'
      <4>1. e \in ToSet(line) /\ e # f
        BY <1>1, <1>2 DEF f
      <4>2. e \in Linked /\ e \in Member
        BY <4>1, <2>1 DEF LineRight, Linked
      <4>. QED
        BY <4>1, <4>2, <2>1, <2>10, <2>11 DEF LineRight
    <3>. QED
      BY <3>1, <2>8 DEF LineRight
  <2>15. ListsRight'
    <3>1. ASSUME NEW i \in OfKind("list"), NEW e \in ToSet(inbox[i].ids)
          PROVE  ~InRow(e) /\ ~Cached(e)' /\ ~InLine(e)'
      <4>1. ~InRow(e) /\ ~Cached(e) /\ ~InLine(e)
        BY <2>1 DEF ListsRight
      <4>2. e # f
        BY <4>1, <1>3 DEF InLine, f
      <4>. QED
        BY <4>1, <4>2, <2>9, <2>10
    <3>. QED
      BY <3>1, <2>1, <2>6, <2>7, <2>8 DEF ListsRight
  <2>16. NoneMissing'
    BY <2>1, <2>8, <2>9, <2>10 DEF NoneMissing
  <2>17. LastDraws'
    <3>1. /\ Len(line) \in Nat /\ Len(line) >= 1
          /\ line' # <<>> => /\ Len(line') = Len(line) - 1
                             /\ Len(line) >= 2
                             /\ line'[Len(line')] = line[Len(line)]
          /\ line' = <<>> => Len(line) = 1
          /\ f = line[1]
      <4>1. /\ Len(line) \in Nat /\ Len(line) >= 1 /\ Len(Tail(line)) = Len(line) - 1
            /\ Head(line) = line[1]
        BY <1>1, <1>2
      <4>2. Tail(line) # <<>> => Len(line) >= 2
        BY <4>1, <1>2
      <4>3. Tail(line) = <<>> => Len(line) = 1
        <5>1. Len(<<>>) = 0
          OBVIOUS
        <5>2. Tail(line) = <<>> => Len(Tail(line)) = Len(<<>>)
          BY Zenon
        <5>. QED
          BY <4>1, <5>1, <5>2
      <4>4. Tail(line) # <<>> => Tail(line)[Len(line) - 1] = line[(Len(line) - 1) + 1]
        BY <4>1, <4>2, <1>2
      <4>5. (Len(line) - 1) + 1 = Len(line)
        BY <4>1
      <4>. QED
        BY <4>1, <4>2, <4>3, <4>4, <4>5, <1>1 DEF f
    <3>2. line' # <<>> => waiting'[line'[Len(line')]][1].last
      <4>1. ASSUME line' # <<>>
            PROVE  line[Len(line)] # f /\ line[Len(line)] \in Member
        <5>3. Len(line) \in Nat /\ Len(line) >= 2
          BY <4>1, <3>1
        <5>1. Len(line) # 1 /\ 1 \in DOMAIN line /\ Len(line) \in DOMAIN line
          BY <5>3, <1>2
        <5>2. line[Len(line)] # line[1]
          BY <5>1, <1>2 DEF IsInjective
        <5>. QED
          BY <5>1, <5>2, <3>1, <1>2
      <4>. QED
        BY <4>1, <3>1, <2>1, <2>11, <1>1 DEF LastDraws
    <3>3. OfKind("member")' # {}
      BY <2>5
    <3>4. ASSUME line' = <<>>, NEW i \in OfKind("member")',
                 \A j \in OfKind("member")' : j <= i
          PROVE  inbox'[i].want.last
      <4>1. i = n
        BY <3>4, <2>5
      <4>2. w.last
        BY <3>1, <3>4, <2>1, <1>1 DEF LastDraws, w
      <4>. QED
        BY <4>1, <4>2, <2>4, <2>5
    <3>. QED
      BY <3>2, <3>3, <3>4 DEF LastDraws
  <2>. QED
    BY <2>1, <2>7, <2>12, <2>13, <2>14, <2>15, <2>16, <2>17 DEF CleanInv
<1>. QED
  BY <1>4, <1>5

\* The callback of searchMember: the row moves from the main queue to the
\* array, or the refresh met a ghost and is not clean any more.
LEMMA CleanMemberFound ==
  ASSUME Types, CleanInv, MemberFound
  PROVE  CleanInv'
<1>. DEFINE w == Head(inbox).want
            f == w.row.id
            n == Len(friends) + 1
<1>1. /\ inbox \in Seq(Message) /\ inbox # <<>> /\ inbox' = Tail(inbox)
      /\ Head(inbox).kind = "member" /\ w \in Want /\ w.row \in Row
      /\ friends \in Seq(Row)
      /\ UNCHANGED <<tree, query>>
  <2>1. /\ inbox # <<>> /\ Head(inbox) \in Message /\ Head(inbox).kind = "member"
    BY TakeType DEF MemberFound
  <2>2. w \in Want
    BY <2>1, MessageCases DEF Update
  <2>. QED
    BY <2>1, <2>2 DEF MemberFound, Types, TypeOK, Want
<1>2. /\ links' = links /\ asked' = asked /\ line' = line /\ waiting' = waiting
  BY <1>1 DEF tree, query
<1>. HIDE DEF w, f
<1>3. SUFFICES ASSUME Undisturbed'
      PROVE  (/\ IsInjective(asked) /\ RowsRight /\ AnswersRight /\ LineRight
              /\ ListsRight /\ NoneMissing /\ LastDraws)'
  BY DEF CleanInv
<1>4. /\ clean' = clean /\ clean
      /\ friends' = Append(friends, w.row)
      /\ (w.last => drawn' = friends')
  BY <1>3 DEF MemberFound, Undisturbed, w
<1>5. Undisturbed
  <2>1. \A i \in OfKind("update") :
            i # 1 => i - 1 \in OfKind("update")'
    BY <1>1, InboxTail, Zenon
  <2>2. 1 \notin OfKind("update")
    <3>1. Head(inbox) = inbox[1]
      BY <1>1
    <3>. QED
      BY <3>1, <1>1 DEF OfKind
  <2>. QED
    BY <2>1, <2>2, <1>3, <1>4 DEF Undisturbed
<1>6. /\ IsInjective(asked) /\ RowsRight /\ AnswersRight /\ LineRight
      /\ ListsRight /\ NoneMissing /\ LastDraws
  BY <1>5 DEF CleanInv
<1>7. /\ \A i \in OfKind("member")' : /\ i + 1 \in OfKind("member")
                                      /\ inbox'[i] = inbox[i + 1]
                                      /\ i \in Nat /\ i >= 1
      /\ \A i \in OfKind("member") :
             /\ i \in Nat /\ i >= 1
             /\ i # 1 => i - 1 \in OfKind("member")' /\ inbox'[i - 1] = inbox[i]
      /\ 1 \in OfKind("member") /\ inbox[1].want = w /\ Id(1) = f
  <2>1. inbox[1] = Head(inbox)
    BY <1>1
  <2>2. inbox[1].want = w /\ Id(1) = f
    BY <2>1 DEF Id, f, w
  <2>. QED
    BY <1>1, <2>2, InboxTail, Zenon
<1>8. /\ \A i \in OfKind("list")' : /\ i + 1 \in OfKind("list")
                                    /\ inbox'[i] = inbox[i + 1]
                                    /\ i \in Nat /\ i >= 1
      /\ \A i \in OfKind("list") :
             i - 1 \in OfKind("list")' /\ inbox'[i - 1] = inbox[i]
  <2>1. 1 \notin OfKind("list")
    <3>1. Head(inbox) = inbox[1]
      BY <1>1
    <3>. QED
      BY <3>1, <1>1 DEF OfKind
  <2>2. /\ \A i \in OfKind("list")' : /\ i + 1 \in OfKind("list")
                                      /\ inbox'[i] = inbox[i + 1]
                                      /\ i \in Nat /\ i >= 1
        /\ \A i \in OfKind("list") :
               i # 1 => i - 1 \in OfKind("list")' /\ inbox'[i - 1] = inbox[i]
    BY <1>1, InboxTail, Zenon
  <2>. QED
    BY <2>1, <2>2
<1>9. w.row = RowOf(f) /\ f \in Linked /\ ~Due(f) /\ ~InRow(f) /\ Cached(f)
  BY <1>6, <1>7 DEF AnswersRight, Cached, Id
<1>10. /\ Len(friends) \in Nat
       /\ DOMAIN friends' = DOMAIN friends \cup {n}
       /\ \A i \in DOMAIN friends : friends'[i] = friends[i] /\ i # n
       /\ friends'[n] = w.row
  BY <1>1, <1>4, AppendElements
<1>11. /\ Linked' = Linked
       /\ \A e : RowOf(e)' = RowOf(e)
       /\ \A e : Due(e)' <=> Due(e)
       /\ \A e : InLine(e)' <=> InLine(e)
  BY <1>2 DEF Linked, RowOf, Due, InLine
<1>12. \A e : InRow(e)' <=> InRow(e) \/ e = f
  BY <1>10 DEF InRow, f
<1>13. /\ \A e : Cached(e)' => Cached(e) /\ e # f
       /\ \A e : Cached(e) /\ e # f => Cached(e)'
  <2>1. ASSUME NEW i \in OfKind("member")'
        PROVE  /\ inbox'[i].want.row.id # f
               /\ Cached(inbox'[i].want.row.id)
    <3>1. i + 1 \in OfKind("member") /\ i + 1 # 1 /\ inbox'[i] = inbox[i + 1]
      BY <1>7
    <3>2. Id(i + 1) # Id(1)
      BY <3>1, <1>6, <1>7 DEF AnswersRight
    <3>. QED
      BY <3>1, <3>2, <1>7 DEF Id, Cached
  <2>2. \A e : Cached(e) /\ e # f => Cached(e)'
    BY <1>7 DEF Cached, Id
  <2>. QED
    BY <2>1, <2>2 DEF Cached
<1>14. RowsRight'
  <2>1. ASSUME NEW i \in DOMAIN friends'
        PROVE  /\ friends'[i] = RowOf(friends'[i].id)
               /\ friends'[i].id \in Linked /\ ~Due(friends'[i].id)
    <3>1. CASE i \in DOMAIN friends
      BY <3>1, <1>6, <1>10 DEF RowsRight
    <3>2. CASE i = n
      BY <3>2, <1>9, <1>10 DEF f
    <3>. QED
      BY <3>1, <3>2, <1>10
  <2>2. \A i, j \in DOMAIN friends' : friends'[i].id = friends'[j].id => i = j
    <3>1. \A i \in DOMAIN friends : friends[i].id # f
      BY <1>9 DEF InRow
    <3>2. \A i, j \in DOMAIN friends : friends[i].id = friends[j].id => i = j
      BY <1>6 DEF RowsRight
    <3>3. friends'[n].id = f
      BY <1>10 DEF f
    <3>. QED
      BY <3>1, <3>2, <3>3, <1>10
  <2>. QED
    BY <2>1, <2>2, <1>11 DEF RowsRight
<1>15. AnswersRight'
  <2>1. ASSUME NEW i \in OfKind("member")'
        PROVE  /\ inbox'[i].want.row = RowOf(Id(i)')
               /\ Id(i)' \in Linked /\ ~Due(Id(i)') /\ ~InRow(Id(i)')
               /\ Id(i)' # f
    <3>1. i + 1 \in OfKind("member") /\ Id(i)' = Id(i + 1)
          /\ inbox'[i] = inbox[i + 1]
      BY <1>7 DEF Id
    <3>2. \A e : e = Id(i)' => e # f
      BY <1>13 DEF Cached, Id
    <3>. QED
      BY <3>1, <3>2, <1>6 DEF AnswersRight
  <2>2. ASSUME NEW i \in OfKind("member")', NEW j \in OfKind("member")',
               Id(i)' = Id(j)'
        PROVE  i = j
    <3>1. i + 1 = j + 1
      BY <2>2, <1>6, <1>7 DEF AnswersRight, Id
    <3>. QED
      BY <3>1, <1>7
  <2>. QED
    BY <2>1, <2>2, <1>11, <1>12 DEF AnswersRight
<1>16. LineRight'
  <2>1. \A e \in ToSet(line) : ~Cached(e) /\ ~Cached(e)' /\ ~InRow(e)'
    BY <1>6, <1>9, <1>12, <1>13 DEF LineRight
  <2>. QED
    BY <2>1, <1>2, <1>6, <1>11 DEF LineRight
<1>17. ListsRight'
  <2>1. ASSUME NEW i \in OfKind("list")'
        PROVE  /\ inbox'[i].tag \notin ToSet(asked)
               /\ ToSet(inbox'[i].ids) = {e \in Member : links[e] = inbox'[i].tag}
               /\ \A e \in ToSet(inbox'[i].ids) :
                      ~InRow(e)' /\ ~Cached(e)' /\ ~InLine(e)
    <3>1. i + 1 \in OfKind("list") /\ inbox'[i] = inbox[i + 1]
      BY <1>8
    <3>2. \A e \in ToSet(inbox'[i].ids) : ~InRow(e) /\ ~Cached(e) /\ ~InLine(e)
      BY <3>1, <1>6 DEF ListsRight
    <3>. QED
      BY <3>1, <3>2, <1>6, <1>9, <1>12, <1>13 DEF ListsRight
  <2>2. ASSUME NEW i \in OfKind("list")', NEW j \in OfKind("list")',
               inbox'[i].tag = inbox'[j].tag
        PROVE  i = j
    <3>1. i + 1 = j + 1
      BY <2>2, <1>6, <1>8 DEF ListsRight
    <3>. QED
      BY <3>1, <1>8
  <2>. QED
    BY <2>1, <2>2, <1>2, <1>11 DEF ListsRight
<1>18. NoneMissing'
  <2>1. \A e : InList(e) => InList(e)'
    BY <1>8 DEF InList
  <2>. QED
    BY <2>1, <1>6, <1>11, <1>12, <1>13 DEF NoneMissing
<1>19. LastDraws'
  <2>1. ASSUME line = <<>>, OfKind("member")' = {}
        PROVE  drawn' = friends'
    <3>1. \A i \in OfKind("member") : i = 1
      BY <2>1, <1>7
    <3>2. w.last
      BY <3>1, <2>1, <1>6, <1>7 DEF LastDraws
    <3>. QED
      BY <3>2, <1>4
  <2>2. ASSUME line = <<>>, NEW i \in OfKind("member")',
               \A j \in OfKind("member")' : j <= i
        PROVE  inbox'[i].want.last
    <3>1. i + 1 \in OfKind("member") /\ inbox'[i] = inbox[i + 1]
          /\ i \in Nat
      BY <1>7
    <3>2. ASSUME NEW j \in OfKind("member")
          PROVE  j <= i + 1
      <4>1. CASE j = 1
        BY <4>1, <3>1
      <4>2. CASE j # 1
        <5>1. j - 1 <= i /\ j \in Nat
          BY <4>2, <1>7, <2>2
        <5>. QED
          BY <5>1, <3>1
      <4>. QED
        BY <4>1, <4>2
    <3>. QED
      BY <3>1, <3>2, <2>2, <1>6 DEF LastDraws
  <2>. QED
    BY <2>1, <2>2, <1>2, <1>6 DEF LastDraws
<1>. QED
  BY <1>2, <1>6, <1>14, <1>15, <1>16, <1>17, <1>18, <1>19

\* In an undisturbed refresh no member of an answer has a listen in flight or
\* data the library still holds: each gets a listen of its own, in the order
\* of the answer.
LEMMA AllAreAsked ==
  ASSUME Types, FriendsFound, NEW ids, ids = Head(inbox).ids,
         NEW tag, tag = Head(inbox).tag,
         \A f \in ToSet(ids) : ~Cached(f) /\ ~InLine(f)
  PROVE  /\ inbox' = Tail(inbox)
         /\ \A f : f \in ToSet(line') <=> f \in ToSet(line) \/ f \in ToSet(ids)
         /\ \A f \in Member : f \notin ToSet(ids) => waiting'[f] = waiting[f]
         /\ \A i \in DOMAIN ids :
                /\ Len(waiting'[ids[i]]) = 1
                /\ waiting'[ids[i]][1] =
                       [row |-> [id |-> ids[i], status |-> tag],
                        last |-> i = Len(ids)]
         /\ ids = <<>> => line' = line
         /\ ids # <<>> => line' # <<>> /\ line'[Len(line')] = ids[Len(ids)]
<1>. DEFINE want(i) == [row |-> [id |-> ids[i], status |-> tag],
                        last |-> i = Len(ids)]
            later == {i \in DOMAIN ids : ~Cached(ids[i])}
            fresh == {i \in later : NeedsListen(ids[i])}
            served == DOMAIN ids \ later
            n == Len(ids)
<1>1. /\ ids \in Seq(Member) /\ IsInjective(ids) /\ tag \in Status
      /\ inbox # <<>> /\ inbox \in Seq(Message) /\ Tail(inbox) \in Seq(Message)
      /\ n \in Nat /\ DOMAIN ids = 1..n
      /\ line \in Seq(Member)
  <2>1. /\ Head(inbox) \in Message /\ Head(inbox).kind = "list"
        /\ Tail(inbox) \in Seq(Message) /\ inbox # <<>>
    BY TakeType DEF FriendsFound
  <2>2. ids \in Seq(Member) /\ IsInjective(ids) /\ tag \in Status
    BY <2>1, MessageCases DEF Update
  <2>. QED
    BY <2>1, <2>2 DEF Types, TypeOK
<1>2. PICK now \in InOrder(served) :
          inbox' = Tail(inbox) \o [i \in DOMAIN now |-> Wanted(want(now[i]))]
  BY DEF FriendsFound
<1>3. PICK new \in InOrder(fresh) :
          line' = line \o [i \in DOMAIN new |-> ids[new[i]]]
  BY DEF FriendsFound
<1>4. waiting' = [f \in Member |->
             IF \E i \in later : ids[i] = f
             THEN Append(waiting[f], want(CHOOSE i \in later : ids[i] = f))
             ELSE waiting[f]]
  BY DEF FriendsFound
<1>5. later = DOMAIN ids /\ fresh = DOMAIN ids /\ served = {}
  <2>1. \A i \in DOMAIN ids : ids[i] \in ToSet(ids)
    BY DEF ToSet
  <2>. QED
    BY <2>1 DEF NeedsListen, InLine
<1>. HIDE DEF later, fresh, served
<1>6. inbox' = Tail(inbox)
  <2>1. Cardinality(served) = 0
    BY <1>5, FS_EmptySet
  <2>2. now \in [1..0 -> served]
    BY <2>1 DEF InOrder
  <2>3. DOMAIN now = {}
    BY <2>2
  <2>4. [i \in DOMAIN now |-> Wanted(want(now[i]))] = <<>>
    BY <2>3
  <2>. QED
    BY <1>1, <1>2, <2>4
<1>7. /\ new \in Seq(1..n) /\ DOMAIN new = 1..Len(new) /\ Len(new) \in Nat
      /\ \A x \in 1..n : \E i \in DOMAIN new : new[i] = x
      /\ \A i, j \in DOMAIN new : i < j => new[i] < new[j]
      /\ Len(new) = 0 <=> 1..n = {}
  <2>1. fresh = 1..n
    BY <1>1, <1>5
  <2>. DEFINE S == 1..n
  <2>2. new \in InOrder(S) /\ S \in SUBSET (1..n) /\ n \in Nat
    BY <1>1, <2>1
  <2>. HIDE DEF S, n
  <2>3. /\ new \in Seq(S) /\ DOMAIN new = 1..Len(new)
        /\ \A x \in S : \E i \in DOMAIN new : new[i] = x
        /\ \A i, j \in DOMAIN new : i < j => new[i] < new[j]
        /\ Len(new) = 0 <=> S = {}
    BY <2>2, InOrderType
  <2>4. Len(new) \in Nat
    BY <2>3
  <2>. QED
    BY <2>3, <2>4 DEF S
<1>. DEFINE g == [i \in DOMAIN new |-> ids[new[i]]]
<1>8. /\ g \in Seq(Member) /\ Len(g) = Len(new) /\ DOMAIN g = DOMAIN new
      /\ \A i \in DOMAIN new : new[i] \in 1..n /\ g[i] = ids[new[i]]
  <2>1. \A i \in 1..Len(new) : new[i] \in 1..n /\ g[i] = ids[new[i]]
    BY <1>7
  <2>5. \A k \in 1..n : ids[k] \in Member
    BY <1>1
  <2>2. \A i \in 1..Len(new) : g[i] \in Member
    BY <2>1, <2>5
  <2>3. g = [i \in 1..Len(new) |-> g[i]]
    BY <1>7
  <2>. HIDE DEF g
  <2>4. g \in Seq(Member) /\ Len(g) = Len(new)
    BY <2>2, <2>3, <1>7, MapIsSeq
  <2>. QED
    BY <2>1, <2>3, <2>4, <1>7
<1>9. line' = line \o g
  BY <1>3
<1>. HIDE DEF g
<1>10. \A f : f \in ToSet(line') <=> f \in ToSet(line) \/ f \in ToSet(ids)
  <2>1. /\ \A i \in DOMAIN (line \o g) :
               \/ i \in DOMAIN line /\ (line \o g)[i] = line[i]
               \/ i - Len(line) \in DOMAIN g /\ (line \o g)[i] = g[i - Len(line)]
        /\ \A i \in DOMAIN line :
               i \in DOMAIN (line \o g) /\ (line \o g)[i] = line[i]
        /\ \A i \in DOMAIN g : /\ i + Len(line) \in DOMAIN (line \o g)
                               /\ (line \o g)[i + Len(line)] = g[i]
    BY <1>1, <1>8, ConcatElements
  <2>2. \A f : f \in ToSet(g) <=> f \in ToSet(ids)
    <3>1. \A i \in DOMAIN g : new[i] \in DOMAIN ids /\ g[i] = ids[new[i]]
      BY <1>1, <1>8
    <3>2. \A x \in DOMAIN ids : \E i \in DOMAIN g : g[i] = ids[x]
      <4>1. ASSUME NEW x \in 1..n
            PROVE  \E i \in DOMAIN g : g[i] = ids[x]
        <5>1. PICK i \in DOMAIN new : new[i] = x
          BY <1>7
        <5>. QED
          BY <5>1, <1>8
      <4>. QED
        BY <4>1, <1>1
    <3>. QED
      BY <3>1, <3>2 DEF ToSet
  <2>3. \A f : f \in ToSet(line \o g) => f \in ToSet(line) \/ f \in ToSet(g)
    BY <2>1 DEF ToSet
  <2>4. \A f : f \in ToSet(line) \/ f \in ToSet(g) => f \in ToSet(line \o g)
    <3>1. ASSUME NEW i \in DOMAIN g
          PROVE  g[i] \in ToSet(line \o g)
      BY <2>1 DEF ToSet
    <3>2. ASSUME NEW i \in DOMAIN line
          PROVE  line[i] \in ToSet(line \o g)
      BY <2>1 DEF ToSet
    <3>. QED
      BY <3>1, <3>2 DEF ToSet
  <2>. QED
    BY <2>2, <2>3, <2>4, <1>9
<1>11. \A f \in Member : f \notin ToSet(ids) => waiting'[f] = waiting[f]
  BY <1>4, <1>5 DEF ToSet
<1>12. ASSUME NEW i \in DOMAIN ids
       PROVE  Len(waiting'[ids[i]]) = 1 /\ waiting'[ids[i]][1] = want(i)
  <2>1. (CHOOSE k \in later : ids[k] = ids[i]) = i
    BY <1>1, <1>5 DEF IsInjective
  <2>2. ids[i] \in Member
    BY <1>1
  <2>3. waiting'[ids[i]] = Append(waiting[ids[i]], want(i))
    BY <2>1, <2>2, <1>4, <1>5
  <2>4. waiting[ids[i]] = <<>>
    <3>1. ids[i] \notin ToSet(line)
      BY DEF InLine, ToSet
    <3>. QED
      BY <2>2, <3>1 DEF Types, TypeOK
  <2>. HIDE DEF want
  <2>. QED
    BY <2>3, <2>4
<1>13. ids = <<>> => line' = line
  <2>1. ASSUME ids = <<>>
        PROVE  g = <<>>
    <3>1. n = 0
      BY <2>1
    <3>2. 1..n = {}
      BY <3>1
    <3>. QED
      BY <3>2, <1>7, <1>8
  <2>. QED
    BY <2>1, <1>1, <1>9
<1>14. ASSUME ids # <<>>
       PROVE  line' # <<>> /\ line'[Len(line')] = ids[Len(ids)]
  <2>1. n \in 1..n
    BY <1>1, <1>14
  <2>2. PICK k \in DOMAIN new : new[k] = n
    BY <2>1, <1>7
  <2>3. k = Len(new)
    <3>1. k \in 1..Len(new) /\ Len(new) \in DOMAIN new
      BY <1>7
    <3>2. new[Len(new)] \in 1..n
      BY <3>1, <1>8
    <3>3. ~(k < Len(new))
      BY <3>1, <3>2, <2>2, <1>1, <1>7
    <3>. QED
      BY <3>1, <3>3
  <2>4. Len(g) >= 1 /\ Len(g) \in DOMAIN g /\ g[Len(g)] = ids[n]
    BY <2>2, <2>3, <1>7, <1>8
  <2>5. Len(line \o g) = Len(line) + Len(g)
    <3>1. line \in Seq(Member) /\ g \in Seq(Member)
      BY <1>1, <1>8
    <3>. QED
      BY <3>1
  <2>6. (line \o g)[Len(line) + Len(g)] = g[Len(g)]
    <3>1. /\ (line \o g)[Len(g) + Len(line)] = g[Len(g)]
          /\ Len(g) \in Nat /\ Len(line) \in Nat
      BY <2>4, <1>1, <1>8, ConcatElements
    <3>2. Len(g) + Len(line) = Len(line) + Len(g)
      BY <3>1
    <3>. QED
      BY <3>1, <3>2
  <2>7. Len(line') >= 1
    BY <2>4, <2>5, <1>1, <1>8, <1>9
  <2>. QED
    BY <2>4, <2>5, <2>6, <2>7, <1>9
<1>. QED
  BY <1>6, <1>10, <1>11, <1>12, <1>13, <1>14

\* The callback of getFriends: the listed members go into the line.
LEMMA CleanFriendsFound ==
  ASSUME Types, CleanInv, FriendsFound
  PROVE  CleanInv'
<1>. DEFINE ids == Head(inbox).ids
            tag == Head(inbox).tag
<1>1. /\ inbox \in Seq(Message) /\ inbox # <<>>
      /\ Head(inbox).kind = "list" /\ tag \in Status /\ inbox[1] = Head(inbox)
      /\ ids \in Seq(Member)
  <2>1. /\ inbox # <<>> /\ Head(inbox) \in Message /\ Head(inbox).kind = "list"
    BY TakeType DEF FriendsFound
  <2>2. inbox \in Seq(Message)
    BY DEF Types
  <2>. QED
    BY <2>1, <2>2, MessageCases DEF Update
<1>2. /\ links' = links /\ asked' = asked /\ friends' = friends
      /\ drawn' = drawn /\ clean' = clean
  BY DEF FriendsFound, tree, list
<1>3. OfKind("update") # {} => OfKind("update")' # {}
  <2>1. 1 \notin OfKind("update")
    BY <1>1 DEF OfKind
  <2>2. PICK now : inbox' = Tail(inbox) \o [i \in DOMAIN now |->
            Wanted([row |-> [id |-> ids[now[i]], status |-> tag],
                    last |-> now[i] = Len(ids)])]
    BY DEF FriendsFound
  <2>. DEFINE g == [i \in DOMAIN now |->
            Wanted([row |-> [id |-> ids[now[i]], status |-> tag],
                    last |-> now[i] = Len(ids)])]
  <2>3. inbox' = Tail(inbox) \o g
    BY <2>2
  <2>. HIDE DEF g
  <2>4. ASSUME NEW i \in OfKind("update")
        PROVE  OfKind("update")' # {}
    <3>1. i \in DOMAIN inbox /\ i # 1 /\ inbox[i].kind = "update"
      BY <2>1 DEF OfKind
    <3>2. i - 1 \in 1..Len(Tail(inbox)) /\ Tail(inbox)[i - 1] = inbox[i]
      <4>1. i - 1 \in DOMAIN Tail(inbox) /\ (i - 1) + 1 = i
        BY <3>1, <1>1, TailElements
      <4>2. Tail(inbox)[i - 1] = inbox[(i - 1) + 1]
        BY <4>1, <1>1, TailElements
      <4>. QED
        BY <4>1, <4>2, <1>1
    <3>3. /\ i - 1 \in DOMAIN (Tail(inbox) \o g)
          /\ (Tail(inbox) \o g)[i - 1] = Tail(inbox)[i - 1]
      <4>1. Tail(inbox) \in Seq(Message)
        BY <1>1
      <4>2. inbox' \in Seq(Message)
        BY TypesFriendsFound DEF Types
      <4>. QED
        BY <3>2, <4>1
    <3>. QED
      BY <3>1, <3>2, <3>3, <2>3 DEF OfKind
  <2>. QED
    BY <2>4
<1>4. SUFFICES ASSUME Undisturbed'
      PROVE  (/\ IsInjective(asked) /\ RowsRight /\ AnswersRight /\ LineRight
              /\ ListsRight /\ NoneMissing /\ LastDraws)'
  BY DEF CleanInv
<1>5. Undisturbed
  BY <1>2, <1>3, <1>4 DEF Undisturbed
<1>6. /\ IsInjective(asked) /\ RowsRight /\ AnswersRight /\ LineRight
      /\ ListsRight /\ NoneMissing /\ LastDraws
  BY <1>5 DEF CleanInv
<1>7. /\ 1 \in OfKind("list")
      /\ tag \notin ToSet(asked) /\ ToSet(ids) = {f \in Member : links[f] = tag}
      /\ \A f \in ToSet(ids) : ~InRow(f) /\ ~Cached(f) /\ ~InLine(f)
  <2>1. 1 \in OfKind("list") /\ inbox[1].tag = tag /\ inbox[1].ids = ids
    BY <1>1 DEF OfKind
  <2>. QED
    BY <2>1, <1>6 DEF ListsRight
<1>. HIDE DEF ids, tag
<1>8. /\ inbox' = Tail(inbox)
      /\ \A f : f \in ToSet(line') <=> f \in ToSet(line) \/ f \in ToSet(ids)
      /\ \A f \in Member : f \notin ToSet(ids) => waiting'[f] = waiting[f]
      /\ \A i \in DOMAIN ids :
             /\ Len(waiting'[ids[i]]) = 1
             /\ waiting'[ids[i]][1] =
                    [row |-> [id |-> ids[i], status |-> tag],
                     last |-> i = Len(ids)]
      /\ ids = <<>> => line' = line
      /\ ids # <<>> => line' # <<>> /\ line'[Len(line')] = ids[Len(ids)]
  BY <1>7, AllAreAsked DEF ids, tag
<1>9. /\ \A i \in OfKind("list")' : /\ i + 1 \in OfKind("list")
                                    /\ inbox'[i] = inbox[i + 1]
                                    /\ i \in Nat /\ i >= 1
      /\ \A i \in OfKind("list") :
             i # 1 => i - 1 \in OfKind("list")' /\ inbox'[i - 1] = inbox[i]
  BY <1>1, <1>8, InboxTail, Zenon
<1>10. /\ \A i \in OfKind("member")' : /\ i + 1 \in OfKind("member")
                                       /\ inbox'[i] = inbox[i + 1]
                                       /\ i \in Nat /\ i >= 1
       /\ \A i \in OfKind("member") :
              /\ i - 1 \in OfKind("member")' /\ inbox'[i - 1] = inbox[i]
              /\ i \in Nat
  <2>1. 1 \notin OfKind("member")
    BY <1>1 DEF OfKind
  <2>2. /\ \A i \in OfKind("member")' : /\ i + 1 \in OfKind("member")
                                        /\ inbox'[i] = inbox[i + 1]
                                        /\ i \in Nat /\ i >= 1
        /\ \A i \in OfKind("member") :
               /\ i \in Nat
               /\ i # 1 => i - 1 \in OfKind("member")' /\ inbox'[i - 1] = inbox[i]
    BY <1>1, <1>8, InboxTail, Zenon
  <2>. QED
    BY <2>1, <2>2
<1>11. /\ Linked' = Linked
       /\ \A e : RowOf(e)' = RowOf(e)
       /\ \A e : Due(e)' <=> Due(e)
       /\ \A e : InRow(e)' <=> InRow(e)
  BY <1>2 DEF Linked, RowOf, Due, InRow
<1>12. \A e : InLine(e)' <=> InLine(e) \/ e \in ToSet(ids)
  BY <1>8 DEF InLine
<1>13. \A e : Cached(e)' <=> Cached(e)
  BY <1>10 DEF Cached
<1>14. RowsRight'
  BY <1>2, <1>6, <1>11 DEF RowsRight
<1>15. AnswersRight'
  <2>1. ASSUME NEW i \in OfKind("member")'
        PROVE  /\ inbox'[i].want.row = RowOf(Id(i)')
               /\ Id(i)' \in Linked /\ ~Due(Id(i)') /\ ~InRow(Id(i)')
    <3>1. i + 1 \in OfKind("member") /\ Id(i)' = Id(i + 1)
          /\ inbox'[i] = inbox[i + 1]
      BY <1>10 DEF Id
    <3>. QED
      BY <3>1, <1>6 DEF AnswersRight
  <2>2. ASSUME NEW i \in OfKind("member")', NEW j \in OfKind("member")',
               Id(i)' = Id(j)'
        PROVE  i = j
    <3>1. i + 1 = j + 1
      BY <2>2, <1>6, <1>10 DEF AnswersRight, Id
    <3>. QED
      BY <3>1, <1>10
  <2>. QED
    BY <2>1, <2>2, <1>11 DEF AnswersRight
<1>16. LineRight'
  <2>1. ASSUME NEW e \in ToSet(line')
        PROVE  /\ Len(waiting'[e]) = 1 /\ waiting'[e][1].row = RowOf(e)
               /\ e \in Linked /\ ~Due(e) /\ ~InRow(e) /\ ~Cached(e)
    <3>1. CASE e \in ToSet(ids)
      <4>1. PICK i \in DOMAIN ids : ids[i] = e
        BY <3>1 DEF ToSet
      <4>2. e \in Member /\ links[e] = tag
        BY <3>1, <1>7
      <4>3. waiting'[e][1].row = RowOf(e) /\ Len(waiting'[e]) = 1
        <5>. DEFINE r == [row |-> [id |-> ids[i], status |-> tag],
                          last |-> i = Len(ids)]
        <5>1. Len(waiting'[ids[i]]) = 1 /\ waiting'[ids[i]][1] = r
          BY <1>8, Zenon
        <5>2. r.row = [id |-> ids[i], status |-> tag]
          OBVIOUS
        <5>. HIDE DEF r
        <5>. QED
          BY <5>1, <5>2, <4>1, <4>2 DEF RowOf
      <4>4. e \in Linked /\ ~Due(e)
        BY <4>2, <1>1, <1>7, LinkAssumption DEF Linked, Due
      <4>. QED
        BY <4>3, <4>4, <3>1, <1>7
    <3>2. CASE e \notin ToSet(ids)
      <4>1. e \in ToSet(line)
        BY <3>2, <1>8
      <4>2. e \in Member
        BY <4>1, <1>6 DEF LineRight, Linked
      <4>. QED
        BY <4>1, <4>2, <3>2, <1>6, <1>8 DEF LineRight
    <3>. QED
      BY <3>1, <3>2
  <2>. QED
    BY <2>1, <1>11, <1>13 DEF LineRight
<1>17. ListsRight'
  <2>1. ASSUME NEW i \in OfKind("list")'
        PROVE  /\ inbox'[i].tag \notin ToSet(asked)
               /\ ToSet(inbox'[i].ids) = {e \in Member : links[e] = inbox'[i].tag}
               /\ \A e \in ToSet(inbox'[i].ids) :
                      ~InRow(e) /\ ~Cached(e) /\ ~InLine(e)'
    <3>1. i + 1 \in OfKind("list") /\ inbox'[i] = inbox[i + 1] /\ i + 1 # 1
      BY <1>9
    <3>2. inbox[i + 1].tag # tag
      <4>1. inbox[1].tag = tag
        BY <1>1 DEF tag
      <4>. QED
        BY <3>1, <4>1, <1>6, <1>7 DEF ListsRight
    <3>3. /\ inbox'[i].tag \notin ToSet(asked)
          /\ ToSet(inbox'[i].ids) = {e \in Member : links[e] = inbox'[i].tag}
          /\ \A e \in ToSet(inbox'[i].ids) :
                 ~InRow(e) /\ ~Cached(e) /\ ~InLine(e)
      BY <3>1, <1>6 DEF ListsRight
    <3>4. \A e \in ToSet(inbox'[i].ids) : e \notin ToSet(ids)
      BY <3>1, <3>2, <3>3, <1>7
    <3>. QED
      BY <3>3, <3>4, <1>12
  <2>2. ASSUME NEW i \in OfKind("list")', NEW j \in OfKind("list")',
               inbox'[i].tag = inbox'[j].tag
        PROVE  i = j
    <3>1. i + 1 = j + 1
      BY <2>2, <1>6, <1>9 DEF ListsRight
    <3>. QED
      BY <3>1, <1>9
  <2>. QED
    BY <2>1, <2>2, <1>2, <1>11, <1>13 DEF ListsRight
<1>18. NoneMissing'
  <2>1. ASSUME NEW f, InList(f)
        PROVE  InList(f)' \/ f \in ToSet(ids)
    <3>1. PICK i \in OfKind("list") : f \in ToSet(inbox[i].ids)
      BY <2>1 DEF InList
    <3>2. CASE i = 1
      BY <3>1, <3>2, <1>1 DEF ids
    <3>3. CASE i # 1
      BY <3>1, <3>3, <1>9 DEF InList
    <3>. QED
      BY <3>2, <3>3
  <2>. QED
    BY <2>1, <1>6, <1>11, <1>12, <1>13 DEF NoneMissing
<1>19. LastDraws'
  <2>1. CASE ids = <<>>
    <3>1. line' = line /\ waiting' = waiting
      <4>1. ToSet(ids) = {}
        BY <2>1 DEF ToSet
      <4>2. waiting' \in [Member -> Seq(Want)] /\ waiting \in [Member -> Seq(Want)]
        BY TypesFriendsFound DEF Types, TypeOK
      <4>. QED
        BY <4>1, <4>2, <2>1, <1>8
    <3>2. OfKind("member")' = {} => OfKind("member") = {}
      BY <1>10
    <3>3. ASSUME line = <<>>, NEW i \in OfKind("member")',
                 \A j \in OfKind("member")' : j <= i
          PROVE  inbox'[i].want.last
      <4>1. i + 1 \in OfKind("member") /\ inbox'[i] = inbox[i + 1] /\ i \in Nat
        BY <1>10
      <4>2. \A j \in OfKind("member") : j - 1 <= i /\ j \in Nat
        BY <1>10, <3>3
      <4>3. \A j \in OfKind("member") : j <= i + 1
        BY <4>1, <4>2
      <4>. QED
        BY <4>1, <4>3, <3>3, <1>6 DEF LastDraws
    <3>. QED
      BY <3>1, <3>2, <3>3, <1>2, <1>6 DEF LastDraws
  <2>2. CASE ids # <<>>
    <3>1. Len(ids) \in DOMAIN ids
      BY <2>2, <1>1
    <3>2. waiting'[line'[Len(line')]][1].last
      <4>. DEFINE r == [row |-> [id |-> ids[Len(ids)], status |-> tag],
                        last |-> Len(ids) = Len(ids)]
      <4>3. waiting'[ids[Len(ids)]][1] = r
        BY <3>1, <1>8, Zenon
      <4>4. r.last
        OBVIOUS
      <4>. HIDE DEF r
      <4>1. waiting'[ids[Len(ids)]][1].last
        BY <4>3, <4>4
      <4>2. line'[Len(line')] = ids[Len(ids)]
        BY <2>2, <1>8
      <4>. QED
        BY <4>1, <4>2
    <3>. QED
      BY <3>2, <2>2, <1>8 DEF LastDraws
  <2>. QED
    BY <2>1, <2>2
<1>. QED
  BY <1>2, <1>6, <1>14, <1>15, <1>16, <1>17, <1>18, <1>19

\* Every step keeps an undisturbed refresh right.
LEMMA CleanStep ==
  ASSUME Inv, Types', Next
  PROVE  CleanInv'
<1>1. ASSUME NEW f \in Member, NEW s \in Status \cup {Absent}, Change(f, s)
      PROVE  CleanInv'
  BY <1>1, CleanSetLink DEF Change, Inv
<1>2. CASE ObserveFriend
  <2>1. /\ inbox = <<>> /\ clean' = clean /\ UNCHANGED <<links, query, list>>
        /\ inbox' = inbox \o [i \in 1..Cardinality(Linked) |-> Update]
    BY <1>2 DEF ObserveFriend, Inv, Before, tree
  <2>2. CASE Linked = {}
    <3>1. Cardinality(Linked) = 0
      BY <2>2, FS_EmptySet
    <3>2. [i \in 1..Cardinality(Linked) |-> Update] = <<>>
      BY <3>1
    <3>3. inbox' = inbox
      BY <2>1, <3>2
    <3>. QED
      BY <2>1, <3>3, Unchanged DEF Inv
  <2>3. CASE Linked # {}
    <3>1. IsFiniteSet(Linked)
      BY MemberAssumption, FS_Subset DEF Linked
    <3>2. Cardinality(Linked) \in Nat /\ Cardinality(Linked) # 0
      BY <2>3, <3>1, FS_EmptySet, FS_CardinalityType
    <3>. DEFINE n == Cardinality(Linked)
                g == [i \in 1..n |-> Update]
    <3>3. g[1] = Update /\ g = [i \in 1..n |-> g[i]]
      BY <3>2
    <3>4. \A i \in 1..n : g[i] \in Message
      BY MessageType
    <3>5. inbox' = <<>> \o g
      BY <2>1
    <3>. HIDE DEF g, n
    <3>6. n \in Nat /\ n # 0
      BY <3>2 DEF n
    <3>7. g \in Seq(Message) /\ DOMAIN g = 1..n
      BY <3>3, <3>4, <3>6, MapIsSeq
    <3>8. inbox' = g
      BY <3>5, <3>7
    <3>9. 1 \in OfKind("update")'
      BY <3>3, <3>6, <3>7, <3>8 DEF OfKind, Update
    <3>. QED
      BY <3>9 DEF CleanInv, Undisturbed
  <2>. QED
    BY <2>2, <2>3
<1>3. CASE ViewDidLoad
  <2>1. GatFriends /\ line' = line /\ inbox' = inbox
    BY <1>3 DEF ViewDidLoad
  <2>2. (OfKind("list") \cup OfKind("member"))' = OfKind("list") \cup OfKind("member")
    BY <2>1 DEF OfKind
  <2>. QED
    BY <2>1, <2>2, CleanGatFriends
<1>4. CASE UpdateFriendList
  <2>1. /\ inbox' = Tail(inbox) /\ inbox # <<>> /\ inbox \in Seq(Message)
        /\ line' = line
    BY <1>4 DEF UpdateFriendList, Runs, Inv, Types
  <2>2. CASE ~loaded
    BY <2>2, <1>4 DEF UpdateFriendList, Inv, Before, CleanInv, Undisturbed
  <2>3. CASE loaded
    <3>1. GatFriends
      BY <2>3, <1>4 DEF UpdateFriendList
    <3>2. \A i \in OfKind("list")' : i + 1 \in OfKind("list")
      BY <2>1, InboxTail, Zenon
    <3>3. \A i \in OfKind("member")' : i + 1 \in OfKind("member")
      BY <2>1, InboxTail, Zenon
    <3>4. OfKind("list") \cup OfKind("member") = {}
             => (OfKind("list") \cup OfKind("member"))' = {}
      BY <3>2, <3>3
    <3>. QED
      BY <2>1, <3>1, <3>4, CleanGatFriends
  <2>. QED
    BY <2>2, <2>3
<1>5. CASE FriendsFound
  BY <1>5, CleanFriendsFound DEF Inv
<1>6. CASE MemberFound
  BY <1>6, CleanMemberFound DEF Inv
<1>7. ASSUME NEW i \in DOMAIN drawn, YesButtonClicked(i)
      PROVE  CleanInv'
  <2>1. "valid" \in Status /\ friends[i].id \in Member
    BY TagsType, TappedType DEF Inv
  <2>. QED
    BY <1>7, <2>1, CleanSetLink DEF YesButtonClicked, Inv
<1>8. ASSUME NEW i \in DOMAIN drawn, NoButtonClicked(i)
      PROVE  CleanInv'
  <2>1. friends[i].id \in Member
    BY TappedType DEF Inv
  <2>. QED
    BY <1>8, <2>1, CleanSetLink DEF NoButtonClicked, Inv
<1>9. CASE AnswerList
  BY <1>9, CleanAnswerList DEF Inv
<1>10. CASE AnswerMember
  BY <1>10, CleanAnswerMember DEF Inv
<1>. QED
  BY <1>1, <1>2, <1>3, <1>4, <1>5, <1>6, <1>7, <1>8, <1>9, <1>10
    DEF Next, MainQueue

\* Before the first answer of observeFriend nothing is dispatched, and before
\* viewDidLoad only updates are.
LEMMA BeforeStep ==
  ASSUME Inv, Types', Next
  PROVE  Before'
<1>. DEFINE Unseen == /\ inbox = <<>> /\ line = <<>> /\ friends = <<>>
                      /\ drawn = <<>> /\ (clean => asked = Tags)
            Closed == /\ asked = <<>> /\ line = <<>> /\ friends = <<>>
                      /\ drawn = <<>> /\ ~clean
                      /\ OfKind("list") \cup OfKind("member") = {}
<1>1. (~observing => Unseen) /\ (~loaded => Closed)
  BY DEF Inv, Before
<1>2. ASSUME ~observing'
      PROVE  Unseen'
  <2>1. ~observing
    BY <1>2 DEF Next, MainQueue, Change, ObserveFriend, ViewDidLoad,
      UpdateFriendList, FriendsFound, MemberFound, YesButtonClicked,
      NoButtonClicked, AnswerList, AnswerMember
  <2>2. Unseen
    BY <2>1, <1>1
  <2>3. DOMAIN drawn = {}
    BY <2>2
  <2>4. ASSUME NEW f \in Member, NEW s \in Status \cup {Absent}, Change(f, s)
        PROVE  Unseen'
    BY <2>1, <2>2, <2>4 DEF Change, SetLink, query, list
  <2>5. CASE ViewDidLoad
    <3>1. <<>> \o Tags = Tags
      BY TagsType
    <3>. QED
      BY <2>2, <2>5, <3>1 DEF ViewDidLoad, GatFriends, Idle
  <2>. QED
    BY <1>2, <2>1, <2>2, <2>3, <2>4, <2>5
      DEF Next, MainQueue, ObserveFriend, UpdateFriendList, FriendsFound,
          MemberFound, Runs, AnswerList, AnswerMember
<1>3. ASSUME ~loaded'
      PROVE  Closed'
  <2>1. ~loaded
    BY <1>3 DEF Next, MainQueue, Change, ObserveFriend, ViewDidLoad,
      UpdateFriendList, FriendsFound, MemberFound, YesButtonClicked,
      NoButtonClicked, AnswerList, AnswerMember
  <2>2. Closed /\ inbox \in Seq(Message)
    BY <2>1, <1>1 DEF Inv, Types
  <2>3. DOMAIN drawn = {}
    BY <2>2
  <2>4. ~Runs("list") /\ ~Runs("member")
    BY <2>2 DEF Runs, OfKind
  <2>5. ASSUME NEW f \in Member, NEW s \in Status \cup {Absent}, Change(f, s)
        PROVE  Closed'
    <3>1. inbox' = inbox \/ inbox' = Append(inbox, Update)
      BY <2>5 DEF Change, SetLink
    <3>2. (OfKind("list") \cup OfKind("member"))' = {}
      BY <2>2, <3>1 DEF OfKind, Update
    <3>. QED
      BY <2>2, <2>5, <3>2 DEF Change, query, list
  <2>6. CASE ObserveFriend
    <3>1. \A i \in DOMAIN inbox' :
              \/ inbox'[i] = Update
              \/ i \in DOMAIN inbox /\ inbox'[i] = inbox[i]
      <4>1. IsFiniteSet(Linked)
        BY MemberAssumption, FS_Subset DEF Linked
      <4>. DEFINE n == Cardinality(Linked)
                  g == [i \in 1..n |-> Update]
      <4>2. n \in Nat
        BY <4>1, FS_CardinalityType
      <4>3. \A i \in 1..n : g[i] \in Message /\ g[i] = Update
        BY MessageType
      <4>4. inbox' = inbox \o g /\ g = [i \in 1..n |-> g[i]]
        BY <2>6 DEF ObserveFriend
      <4>. HIDE DEF g, n
      <4>5. g \in Seq(Message) /\ DOMAIN g = 1..n
        BY <4>2, <4>3, <4>4, MapIsSeq
      <4>6. \A i \in DOMAIN (inbox \o g) :
                \/ i \in DOMAIN inbox /\ (inbox \o g)[i] = inbox[i]
                \/ i - Len(inbox) \in DOMAIN g
                   /\ (inbox \o g)[i] = g[i - Len(inbox)]
        <5>1. inbox \in Seq(Message) /\ g \in Seq(Message)
          BY <4>5, <2>2
        <5>. QED
          BY <5>1, ConcatElements
      <4>. QED
        BY <4>3, <4>4, <4>5, <4>6
    <3>2. (OfKind("list") \cup OfKind("member"))' = {}
      BY <2>2, <3>1 DEF OfKind, Update
    <3>. QED
      BY <2>2, <2>6, <3>2 DEF ObserveFriend, query, list
  <2>7. CASE UpdateFriendList
    <3>1. /\ inbox # <<>> /\ inbox' = Tail(inbox)
      BY <2>7 DEF UpdateFriendList, Runs
    <3>2. \A i \in OfKind("list")' : i + 1 \in OfKind("list")
      BY <2>2, <3>1, InboxTail, Zenon
    <3>3. \A i \in OfKind("member")' : i + 1 \in OfKind("member")
      BY <2>2, <3>1, InboxTail, Zenon
    <3>4. (OfKind("list") \cup OfKind("member"))' = {}
      BY <2>2, <3>2, <3>3
    <3>. QED
      BY <2>1, <2>2, <2>7, <3>4 DEF UpdateFriendList
  <2>. QED
    BY <1>3, <2>1, <2>2, <2>3, <2>4, <2>5, <2>6, <2>7
      DEF Next, MainQueue, ViewDidLoad, FriendsFound, MemberFound,
          AnswerList, AnswerMember
<1>. QED
  BY <1>2, <1>3 DEF Before

-----------------------------------------------------------------------------
(* Theorems.                                                               *)

\* The initial state
LEMMA InvInit ==
  ASSUME Init
  PROVE  Inv
<1>1. Types
  BY TypesInit
<1>2. TapMeansDrawnRow
  <2>1. drawn = <<>> /\ friends = <<>>
    BY DEF Init
  <2>. QED
    BY <2>1 DEF TapMeansDrawnRow, IsPrefix
<1>3. CleanInv
  BY DEF Init, CleanInv, Undisturbed
<1>4. Before
  <2>1. DOMAIN inbox = {}
    BY DEF Init
  <2>. QED
    BY <2>1 DEF Init, Before, OfKind
<1>. QED
  BY <1>1, <1>2, <1>3, <1>4 DEF Inv

\* Every step
LEMMA InvStep ==
  ASSUME Inv, [Next]_vars
  PROVE  Inv'
<1>1. CASE Next
  <2>1. Types' /\ TapMeansDrawnRow'
    BY <1>1, TypesStep, DrawnStep DEF Inv
  <2>. QED
    BY <1>1, <2>1, CleanStep, BeforeStep DEF Inv
<1>2. CASE UNCHANGED vars
  <2>1. /\ UNCHANGED <<links, inbox, query, list>> /\ clean' = clean
        /\ UNCHANGED <<ghosts, observing, loaded, steps>>
    BY <1>2 DEF vars, tree
  <2>2. CleanInv'
    BY <2>1, Unchanged DEF Inv
  <2>3. Types'
    BY <2>1, InboxType DEF Inv, Types, TypeOK, query, list
  <2>4. TapMeansDrawnRow'
    BY <2>1 DEF Inv, TapMeansDrawnRow, list
  <2>5. Before'
    BY <2>1 DEF Inv, Before, OfKind, query, list
  <2>. QED
    BY <2>2, <2>3, <2>4, <2>5 DEF Inv
<1>. QED
  BY <1>1, <1>2

\* The inductive invariant of the friend list
THEOREM InvIsKept == Spec => []Inv
BY InvInit, InvStep, PTL DEF Spec

\* Type correctness: one listen per member, and a member has waiting queries
\* exactly while it has a listen.
THEOREM TypesAreKept == Spec => []TypeOK
<1>1. Inv => TypeOK
  BY DEF Inv, Types
<1>. QED
  BY <1>1, InvIsKept, PTL

\* A tap acts on the row the user saw, whatever refreshes did to the array
\* since it was drawn (yesButtonClicked, noButtonClicked).
THEOREM TapsMeanDrawnRows == Spec => []TapMeansDrawnRow
<1>1. Inv => TapMeansDrawnRow
  BY DEF Inv
<1>. QED
  BY <1>1, InvIsKept, PTL

\* An undisturbed refresh ends with a table that shows every link once, with
\* its current status, for any number of members (gatFriends, getFriends).
THEOREM CleanListsAreRight == Spec => []CleanListIsRight
<1>1. ASSUME Inv, Idle, OfKind("update") = {}, clean
      PROVE  /\ drawn = friends
             /\ IsInjective(friends)
             /\ ToSet(friends) = {[id |-> f, status |-> links[f]] : f \in Linked}
  <2>1. RowsRight /\ NoneMissing /\ LastDraws
    BY <1>1 DEF Inv, CleanInv, Undisturbed
  <2>2. /\ asked = <<>> /\ line = <<>>
        /\ OfKind("list") = {} /\ OfKind("member") = {}
    BY <1>1 DEF Idle
  <2>3. drawn = friends
    BY <2>1, <2>2 DEF LastDraws
  <2>4. IsInjective(friends)
    BY <2>1 DEF RowsRight, IsInjective
  <2>5. \A f \in Linked : InRow(f)
    <3>1. ToSet(<<>>) = {}
      BY DEF ToSet
    <3>. QED
      BY <2>1, <2>2, <3>1 DEF NoneMissing, Due, Cached, InLine, InList
  <2>6. ASSUME NEW f \in Linked
        PROVE  [id |-> f, status |-> links[f]] \in ToSet(friends)
    <3>1. PICK i \in DOMAIN friends : friends[i].id = f
      BY <2>5 DEF InRow
    <3>2. friends[i] = RowOf(f)
      BY <3>1, <2>1 DEF RowsRight
    <3>. QED
      BY <3>2 DEF RowOf, ToSet
  <2>7. ASSUME NEW i \in DOMAIN friends
        PROVE  \E f \in Linked : friends[i] = [id |-> f, status |-> links[f]]
    BY <2>1 DEF RowsRight, RowOf
  <2>. QED
    BY <2>3, <2>4, <2>6, <2>7 DEF ToSet
<1>2. Inv => CleanListIsRight
  BY <1>1 DEF CleanListIsRight
<1>. QED
  BY <1>2, InvIsKept, PTL
==============================================================================
