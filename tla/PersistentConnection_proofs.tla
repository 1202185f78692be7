--------------------- MODULE PersistentConnection_proofs ---------------------
(***************************************************************************)
(* Proofs about module PersistentConnection, for any queries, budgets and  *)
(* bound on the events.                                                    *)
(***************************************************************************)
EXTENDS PersistentConnection, SequenceFacts, TLAPS, FiniteSetTheorems, SequenceTheorems

\* The queries the application listens to
Active == {q \in Query : listens[q] # 0}

-----------------------------------------------------------------------------
(* The steps, by who takes them.                                           *)

AppStep ==
    \/ \E q \in Query : Listen(q) \/ Unlisten(q)
    \/ \E hash \in BOOLEAN : PutData(hash)
    \/ OnDisconnectOperation
    \/ PurgeOutstandingWrites
    \/ \E token \in {None, cached} : RefreshAuthToken(token)

LinkStep ==
    \/ InterruptForReason
    \/ \E reason \in {"waiting_for_open", "repo_interrupt"} :
           ResumeForReason(reason)
    \/ RetryFires
    \/ \E f \in fetches : TokenFetched(f) \/ TokenFetchFailed(f)
    \/ OnReady \/ OnConnect \/ ConnectionLost \/ OnKill \/ Wake

MessageStep == Deliver

ServerStep ==
    \/ Server \/ ServerRevokesAuth
    \/ \E q \in Query : ServerRevokesListen(q)

\* A step is taken by the application, the network, the client on a message, or
\* the server.
LEMMA NextCases ==
  ASSUME Next
  PROVE  AppStep \/ LinkStep \/ MessageStep \/ ServerStep
BY Zenon DEF Next, Connect, AppStep, LinkStep, MessageStep, ServerStep

-----------------------------------------------------------------------------
(* Data.                                                                   *)

LEMMA OrdersShape ==
  ASSUME NEW S, IsFiniteSet(S), NEW s \in Orders(S)
  PROVE  /\ s \in Seq(S)
         /\ Len(s) = Cardinality(S)
         /\ DOMAIN s = 1..Len(s)
         /\ Len(s) \in Nat
         /\ \A i \in 1..Len(s) : s[i] \in S
         /\ \A x \in S : \E i \in 1..Len(s) : s[i] = x
         /\ \A i, j \in 1..Len(s) : s[i] = s[j] => i = j
<1> DEFINE n == Cardinality(S)
<1>1. n \in Nat
  BY FS_CardinalityType
<1>2. s \in [1..n -> S] /\ \A x \in S : \E i \in 1..n : s[i] = x
  BY DEF Orders
<1>3. s \in Seq(S) /\ Len(s) = n /\ DOMAIN s = 1..n
  BY <1>1, <1>2, SeqDef
<1>4. s \in Surjection(1..n, S)
  BY <1>2 DEF Surjection
<1>5. IsFiniteSet(1..n) /\ Cardinality(1..n) = n
  <2>1. 1 \in Int /\ n \in Int
    BY <1>1
  <2>. QED
    BY <2>1, <1>1, FS_Interval
<1>6. s \in Injection(1..n, S)
  BY <1>4, <1>5, FS_SurjSameCardinalityImpliesInj
<1>. QED
  BY <1>1, <1>2, <1>3, <1>6 DEF Injection, IsInjective

-----------------------------------------------------------------------------
Types ==
    /\ TypeOK
    /\ IsFiniteSet(Active)
    /\ IsFiniteSet(puts)

\* What restoreState sends: a listen for every query, the puts in the order of
\* their index, the onDisconnect operations.
Restored(ls, ps, os) ==
    /\ up' = up \o ls \o ps \o os
    /\ Len(ls) = Cardinality(Active)
    /\ \A i \in 1..Len(ls) :
           /\ ls[i].q \in Active
           /\ ls[i] = Req("listen", listens[ls[i].q], ls[i].q)
    /\ \A q \in Active : \E i \in 1..Len(ls) : ls[i].q = q
    /\ \A i \in 1..Len(ps) : \E p \in puts : ps[i] = PutReq(p)
    /\ \A p \in puts : \E i \in 1..Len(ps) : ps[i] = PutReq(p)
    /\ \A i, j \in 1..Len(ps) : i < j => ps[i].n < ps[j].n
    /\ \A i \in 1..Len(os) : \E n \in Nat : os[i] = Req("od", n, None)

\* The messages the client makes are requests.
LEMMA ReqType ==
  /\ \A q \in Query, n \in Nat : Req("listen", n, q) \in Request
  /\ \A q \in Query : Req("unlisten", 0, q) \in Request
  /\ \A n \in Nat : Req("od", n, None) \in Request
  /\ Req("unauth", 0, None) \in Request
  /\ \A n \in Nat, r \in BOOLEAN : AuthReq(n, r) \in Request
  /\ \A p \in Put : PutReq(p) \in Request
BY NoneAssumption DEF Req, Request, AuthReq, PutReq, Put

\* The three parts of what restoreState sends, by the kind of their messages
LEMMA RestoredKinds ==
  ASSUME NEW ls, NEW ps, NEW os, Restored(ls, ps, os)
  PROVE  /\ \A i \in 1..Len(ls) : ls[i].kind = "listen"
         /\ \A i \in 1..Len(ps) : ps[i].kind \in PutKinds
         /\ \A i \in 1..Len(os) : os[i].kind = "od"
<1>1. \A i \in 1..Len(ls) : ls[i].kind = "listen"
  BY DEF Restored, Req
<1>2. ASSUME NEW i \in 1..Len(ps)
      PROVE  ps[i].kind \in PutKinds
  <2>1. PICK p \in puts : ps[i] = PutReq(p)
    BY <1>2 DEF Restored
  <2>. QED
    BY <2>1 DEF PutReq, Req, PutKinds
<1>3. ASSUME NEW i \in 1..Len(os)
      PROVE  os[i].kind = "od"
  <2>1. PICK n \in Nat : os[i] = Req("od", n, None)
    BY <1>3 DEF Restored
  <2>. QED
    BY <2>1 DEF Req
<1>. QED
  BY <1>1, <1>2, <1>3

\* What restoreState does to the variables, without how it builds the messages
LEMMA RestoreShape ==
  ASSUME Types, RestoreState
  PROVE  /\ \E ls, ps, os \in Seq(Request) : Restored(ls, ps, os)
         /\ Cardinality(Active) \in Nat
         /\ unacked' = unacked + Cardinality(Active)
         /\ puts' = {[p EXCEPT !.sent = TRUE] : p \in puts}
         /\ odQueue' = <<>>
<1>1. PICK order \in Orders(Active), keys \in Orders(puts) :
        /\ Sorted(keys)
        /\ up' = up
              \o [i \in DOMAIN order |->
                     Req("listen", listens[order[i]], order[i])]
              \o PutRequests(keys)
              \o [i \in DOMAIN odQueue |-> Req("od", odQueue[i], None)]
  BY DEF RestoreState, Active
<1>2. /\ Cardinality(Active) \in Nat
      /\ unacked' = unacked + Cardinality(Active)
      /\ puts' = {[p EXCEPT !.sent = TRUE] : p \in puts}
      /\ odQueue' = <<>>
  BY FS_CardinalityType DEF RestoreState, CountListens, Active, Types
<1> DEFINE ls == [i \in DOMAIN order |->
                     Req("listen", listens[order[i]], order[i])]
           ps == PutRequests(keys)
           os == [i \in DOMAIN odQueue |-> Req("od", odQueue[i], None)]
<1>3. /\ DOMAIN order = 1..Len(order) /\ Len(order) \in Nat
      /\ Len(order) = Cardinality(Active)
      /\ \A i \in 1..Len(order) : order[i] \in Active
      /\ \A q \in Active : \E i \in 1..Len(order) : order[i] = q
  BY <1>1, OrdersShape DEF Types
<1>4. /\ DOMAIN keys = 1..Len(keys) /\ Len(keys) \in Nat
      /\ \A i \in 1..Len(keys) : keys[i] \in puts
      /\ \A p \in puts : \E i \in 1..Len(keys) : keys[i] = p
  BY <1>1, OrdersShape DEF Types
<1>5. DOMAIN odQueue = 1..Len(odQueue) /\ Len(odQueue) \in Nat
      /\ \A i \in 1..Len(odQueue) : odQueue[i] \in Nat
  BY DEF Types, TypeOK
<1>6. ls \in Seq(Request) /\ Len(ls) = Len(order)
  <2>1. \A i \in 1..Len(order) : ls[i] \in Request
    BY <1>3, ReqType DEF Types, TypeOK, Active
  <2>. QED
    BY <1>3, <2>1, MapIsSeq
<1>7. ps \in Seq(Request) /\ Len(ps) = Len(keys)
  <2>1. \A i \in 1..Len(keys) : ps[i] = PutReq(keys[i])
    BY <1>4 DEF PutRequests
  <2>2. \A i \in 1..Len(keys) : ps[i] \in Request
    BY <1>4, <2>1, ReqType DEF Types, TypeOK
  <2>3. ps = [i \in 1..Len(keys) |-> ps[i]]
    BY <1>4 DEF PutRequests
  <2>. QED
    BY <1>4, <2>2, <2>3, MapIsSeq
<1>8. os \in Seq(Request) /\ Len(os) = Len(odQueue)
  <2>1. \A i \in 1..Len(odQueue) : os[i] \in Request
    BY <1>5, ReqType
  <2>. QED
    BY <1>5, <2>1, MapIsSeq
<1>9. \A i, j \in 1..Len(ps) : i < j => ps[i].n < ps[j].n
  <2>1. \A i \in 1..Len(keys) : ps[i].n = keys[i].id
    BY <1>4 DEF PutRequests, PutReq, Req
  <2>2. \A i, j \in 1..Len(keys) : i < j => keys[i].id < keys[j].id
    BY <1>1, <1>4 DEF Sorted
  <2> HIDE DEF ps
  <2>. QED
    BY <1>4, <1>7, <2>1, <2>2
<1>10. \A i \in 1..Len(ls) :
           /\ ls[i].q \in Active
           /\ ls[i] = Req("listen", listens[ls[i].q], ls[i].q)
  BY <1>3, <1>6 DEF Req
<1>11. \A q \in Active : \E i \in 1..Len(ls) : ls[i].q = q
  BY <1>3, <1>6 DEF Req
<1>12. /\ \A i \in 1..Len(ps) : \E p \in puts : ps[i] = PutReq(p)
       /\ \A p \in puts : \E i \in 1..Len(ps) : ps[i] = PutReq(p)
  BY <1>4, <1>7 DEF PutRequests
<1>13. \A i \in 1..Len(os) : \E n \in Nat : os[i] = Req("od", n, None)
  BY <1>5, <1>8
<1>14. Restored(ls, ps, os)
  BY <1>1, <1>3, <1>6, <1>9, <1>10, <1>11, <1>12, <1>13 DEF Restored
<1>. QED
  BY <1>2, <1>6, <1>7, <1>8, <1>14

\* A batch reports some puts of S, each once.
BatchOf(batch, S) ==
    /\ batch \in Seq(Answered)
    /\ \A i \in 1..Len(batch) : \E p \in S : p.id = batch[i].id
    /\ \A i, j \in 1..Len(batch) :
           i # j => \E p, r \in S : p # r /\ p.id = batch[i].id
                                          /\ r.id = batch[j].id

\* Reporting the puts of S in some order reports each once.
LEMMA BatchShape ==
  ASSUME NEW S \in SUBSET Put, IsFiniteSet(S), NEW order \in Orders(S),
         NEW status \in Status
  PROVE  BatchOf(Report(order, status), S)
<1> DEFINE batch == Report(order, status)
<1>1. /\ DOMAIN order = 1..Len(order) /\ Len(order) \in Nat
      /\ \A i \in 1..Len(order) : order[i] \in S
      /\ \A i, j \in 1..Len(order) : order[i] = order[j] => i = j
  BY OrdersShape
<1>2. \A i \in 1..Len(order) : batch[i] \in Answered /\ batch[i].id = order[i].id
  BY <1>1 DEF Answered, Put, Report
<1>3. batch \in Seq(Answered) /\ Len(batch) = Len(order)
  BY <1>1, <1>2, MapIsSeq DEF Report
<1> HIDE DEF batch
<1>4. BatchOf(batch, S)
  BY <1>1, <1>2, <1>3 DEF BatchOf
<1>. QED
  BY <1>4 DEF batch

\* Completing a batch keeps what is recorded of completions well-typed.
LEMMA CompleteType ==
  ASSUME TypeOK, NEW batch \in Seq(Answered), NEW known \in SUBSET Nat,
         Complete(batch, known)
  PROVE  /\ done' \in Seq(Answered)
         /\ writes' \in SUBSET Nat
         /\ orphans' \in SUBSET Nat
<1>1. DOMAIN batch = 1..Len(batch)
      /\ \A i \in 1..Len(batch) : batch[i] \in Answered
  OBVIOUS
<1>2. {batch[i].id : i \in {j \in DOMAIN batch :
                     batch[j].status # "write_canceled"}} \in SUBSET Nat
  BY <1>1 DEF Answered
<1>3. done' \in Seq(Answered)
  BY DEF Complete, TypeOK
<1>. QED
  BY <1>2, <1>3 DEF Complete, TypeOK

\* An event uses up one of its budget, and is the only one counted.
LEMMA HappensType ==
  ASSUME TypeOK, NEW e \in Event, Happens(e)
  PROVE  /\ count' \in [Event -> Nat] /\ left' \in Nat /\ budget' \in Budgets
         /\ count'[e] = count[e] + 1 /\ count'[e] \in Nat
         /\ \A f \in Event : f # e => count'[f] = count[f]
BY DEF TypeOK, Happens

\* cancelSentTransactions gives up the transactions that were sent.
SentTransactions == {p \in puts : p.hash /\ p.sent}

\* What cancelSentTransactions removes is what it reports.
LEMMA CancelShape ==
  ASSUME Types, CancelSentTransactions
  PROVE  /\ puts' = puts \ SentTransactions
         /\ \E batch \in Seq(Answered) :
                BatchOf(batch, SentTransactions) /\ Complete(batch, writes)
<1>1. SentTransactions \in SUBSET Put /\ SentTransactions \in SUBSET puts
  BY DEF SentTransactions, Types, TypeOK
<1>2. IsFiniteSet(SentTransactions)
  BY <1>1, FS_Subset DEF Types
<1>3. PICK order \in Orders(SentTransactions) :
          Complete(Report(order, "disconnect"), writes)
  BY DEF CancelSentTransactions, SentTransactions
<1>4. BatchOf(Report(order, "disconnect"), SentTransactions)
  <2>1. "disconnect" \in Status
    BY DEF Status
  <2>. QED
    BY <1>1, <1>2, <2>1, BatchShape
<1>. QED
  BY <1>3, <1>4 DEF BatchOf, CancelSentTransactions, SentTransactions

\* The state after the socket is gone
Disconnected ==
    /\ state' = "disconnected" /\ state' \in State
    /\ retry' \in BOOLEAN \cup {None} /\ force' \in BOOLEAN
    /\ attempt' = attempt /\ fetches' = fetches /\ posted' = posted
    /\ listens' = listens /\ putsToAck' = putsToAck /\ odQueue' = odQueue
    /\ unacked' = 0 /\ unacked' \in Nat
    /\ up' = <<>> /\ up' \in Seq(Request)
    /\ down' = <<>> /\ down' \in Seq(Response)
    /\ holding' = {} /\ holding' \in SUBSET Query
    /\ puts' \in SUBSET puts /\ puts' \in SUBSET Put
    /\ connected' = FALSE /\ connected' \in BOOLEAN
    /\ writes' \in SUBSET Nat
    /\ done' \in Seq(Answered)
    /\ orphans' \in SUBSET Nat
    /\ IsFiniteSet(puts')

\* What onDisconnect leaves behind has its type.
LEMMA DisconnectType ==
  ASSUME Types, NEW reasons, NEW refresh \in BOOLEAN,
         OnDisconnect(reasons, refresh)
  PROVE  Disconnected
<1>1. CancelSentTransactions
  BY DEF OnDisconnect
<1>2. PICK batch \in Seq(Answered) : Complete(batch, writes)
  BY <1>1, CancelShape
<1>3. /\ writes' \in SUBSET Nat
      /\ done' \in Seq(Answered)
      /\ orphans' \in SUBSET Nat
  BY <1>2, CompleteType DEF Types, TypeOK
<1>4. puts' \in SUBSET puts /\ puts' \in SUBSET Put /\ IsFiniteSet(puts')
  BY <1>1, CancelShape, FS_Subset DEF Types, TypeOK
<1>5. retry' \in BOOLEAN \cup {None} /\ force' \in BOOLEAN
  BY DEF OnDisconnect, TryScheduleReconnect, Types, TypeOK
<1>6. up' = <<>> /\ down' = <<>> /\ up' \in Seq(Request)
      /\ down' \in Seq(Response) /\ unacked' = 0 /\ holding' = {}
  BY DEF OnDisconnect, ForgetRequests
<1>. QED
  BY <1>3, <1>4, <1>5, <1>6 DEF OnDisconnect, State, Disconnected

-----------------------------------------------------------------------------
(* Type correctness.                                                       *)

\* There is a listen to count down when the answer to one arrives.
Countable == Receive({"listen"}) => unacked > 0

\* The queries listened to stay finitely many, so that they can be counted.
LEMMA ActiveStep ==
  ASSUME Types
  PROVE  /\ listens' = listens => IsFiniteSet(Active')
         /\ Active' \in SUBSET Active => IsFiniteSet(Active')
         /\ \A q \in Query, n \in Nat :
                listens' = [listens EXCEPT ![q] = n] => IsFiniteSet(Active')
<1>1. listens' = listens => Active' = Active
  BY DEF Active
<1>2. ASSUME NEW q \in Query, NEW n \in Nat,
             listens' = [listens EXCEPT ![q] = n]
      PROVE  IsFiniteSet(Active')
  <2>1. IsFiniteSet(Active \cup {q})
    BY FS_AddElement DEF Types
  <2>2. Active' \in SUBSET (Active \cup {q})
    BY <1>2 DEF Active, Types, TypeOK
  <2>. QED
    BY <2>1, <2>2, FS_Subset
<1>3. Active' \in SUBSET Active => IsFiniteSet(Active')
  BY FS_Subset DEF Types
<1>. QED
  BY <1>1, <1>2, <1>3 DEF Types

\* What restoreState sends has its type.
LEMMA RestoreType ==
  ASSUME Types, RestoreState, listens' = listens
  PROVE  /\ up' \in Seq(Request)
         /\ unacked' \in Nat
         /\ puts' \in SUBSET Put /\ IsFiniteSet(puts')
         /\ odQueue' \in Seq(Nat)
<1>1. up' \in Seq(Request)
  <2>1. PICK ls, ps, os \in Seq(Request) : up' = up \o ls \o ps \o os
    BY RestoreShape DEF Restored
  <2>2. up \in Seq(Request)
    BY DEF Types, TypeOK
  <2>. QED
    BY <2>1, <2>2
<1>2. unacked' \in Nat
  BY RestoreShape DEF Types, TypeOK
<1>3. puts' = {[p EXCEPT !.sent = TRUE] : p \in puts}
  BY RestoreShape
<1>4. puts' \in SUBSET Put
  <2>1. \A p \in Put : [p EXCEPT !.sent = TRUE] \in Put
    BY DEF Put
  <2>2. \A p \in puts : p \in Put
    BY DEF Types, TypeOK
  <2>. QED
    BY <1>3, <2>1, <2>2
<1>5. IsFiniteSet(puts')
  <2> DEFINE f == [p \in puts |-> [p EXCEPT !.sent = TRUE]]
  <2>1. f \in Surjection(puts, puts')
    BY <1>3 DEF Surjection
  <2>. QED
    BY <2>1, FS_Surjection DEF Types
<1>. QED
  BY <1>1, <1>2, <1>4, <1>5, RestoreShape

\* Sending keeps the queue to the server well-formed.
LEMMA SendType ==
  ASSUME TypeOK
  PROVE  \A m \in Request : Append(up, m) \in Seq(Request)
BY DEF TypeOK

\* The calls of the application keep the types.
LEMMA TypesAppStep ==
  ASSUME Types, AppStep
  PROVE  Types'
<1> USE DEF client, auth, link, server, repo, used
<1>1. ASSUME NEW q \in Query, Listen(q)
      PROVE  Types'
  <2>1. "listen" \in Event
    BY DEF Event
  <2>2. /\ count' \in [Event -> Nat] /\ left' \in Nat /\ budget' \in Budgets
        /\ count'["listen"] \in Nat
    BY <1>1, <2>1, HappensType DEF Types, Listen
  <2>3. IsFiniteSet(Active')
    BY <1>1, <2>2, ActiveStep DEF Listen
  <2>4. listens' \in [Query -> Nat] /\ listens'[q] \in Nat
    BY <1>1, <2>2 DEF Listen, Types, TypeOK
  <2>5. up' \in Seq(Request) /\ unacked' \in Nat
    <3>1. Req("listen", listens'[q], q) \in Request
      BY <2>4, ReqType
    <3>2. up \in Seq(Request) /\ unacked \in Nat
      BY DEF Types, TypeOK
    <3>. QED
      BY <1>1, <3>1, <3>2, SendType DEF Listen, CountListens, Types
  <2>10. TypeOK'
    BY <1>1, <2>2, <2>3, <2>4, <2>5 DEF Listen, Types, TypeOK
  <2>. QED
    BY <1>1, <2>2, <2>3, <2>4, <2>5, <2>10 DEF Types, Listen
<1>2. ASSUME NEW q \in Query, Unlisten(q)
      PROVE  Types'
  <2>1. IsFiniteSet(Active')
    BY <1>2, ActiveStep DEF Unlisten
  <2>2. up' \in Seq(Request)
    <3>1. Req("unlisten", 0, q) \in Request /\ up \in Seq(Request)
      BY ReqType DEF Types, TypeOK
    <3>. QED
      BY <1>2, <3>1, SendType DEF Unlisten, Types
  <2>10. TypeOK'
    BY <1>2, <2>1, <2>2 DEF Unlisten, Types, TypeOK
  <2>. QED
    BY <1>2, <2>1, <2>2, <2>10 DEF Types, Unlisten
<1>3. ASSUME NEW hash \in BOOLEAN, PutData(hash)
      PROVE  Types'
  <2>1. "put" \in Event
    BY DEF Event
  <2>2. /\ count' \in [Event -> Nat] /\ left' \in Nat /\ budget' \in Budgets
        /\ count'["put"] \in Nat
    BY <1>3, <2>1, HappensType DEF Types, PutData
  <2> DEFINE put == [id |-> count'["put"], hash |-> hash, sent |-> CanWrite]
  <2>3. put \in Put
    BY <2>2 DEF Put, CanWrite
  <2>4. IsFiniteSet(puts') /\ puts' \in SUBSET Put
    BY <1>3, <2>3, FS_AddElement DEF PutData, Types, TypeOK
  <2>5. up' \in Seq(Request)
    <3>1. PutReq(put) \in Request /\ up \in Seq(Request)
      BY <2>3, ReqType DEF Types, TypeOK
    <3>. QED
      BY <1>3, <3>1, SendType DEF PutData, Types
  <2>6. writes' \in SUBSET Nat
    BY <1>3, <2>2 DEF PutData, Types, TypeOK
  <2>7. IsFiniteSet(Active')
    BY <1>3, ActiveStep DEF PutData
  <2>10. TypeOK'
    BY <1>3, <2>2, <2>4, <2>5, <2>6, <2>7 DEF PutData, Types, TypeOK
  <2>. QED
    BY <1>3, <2>2, <2>4, <2>5, <2>6, <2>7, <2>10 DEF Types, PutData
<1>4. ASSUME OnDisconnectOperation
      PROVE  Types'
  <2>1. "onDisconnect" \in Event
    BY DEF Event
  <2>2. /\ count' \in [Event -> Nat] /\ left' \in Nat /\ budget' \in Budgets
        /\ count'["onDisconnect"] \in Nat
    BY <1>4, <2>1, HappensType DEF Types, OnDisconnectOperation
  <2>3. up' \in Seq(Request) /\ odQueue' \in Seq(Nat)
    <3>1. /\ Req("od", count'["onDisconnect"], None) \in Request
          /\ up \in Seq(Request) /\ odQueue \in Seq(Nat)
      BY <2>2, ReqType DEF Types, TypeOK
    <3>2. /\ Append(up, Req("od", count'["onDisconnect"], None)) \in Seq(Request)
          /\ Append(odQueue, count'["onDisconnect"]) \in Seq(Nat)
      BY <2>2, <3>1, SendType DEF Types
    <3>. QED
      BY <1>4, <3>1, <3>2 DEF OnDisconnectOperation
  <2>4. IsFiniteSet(Active')
    BY <1>4, ActiveStep DEF OnDisconnectOperation
  <2>10. TypeOK'
    BY <1>4, <2>2, <2>3, <2>4 DEF OnDisconnectOperation, Types, TypeOK
  <2>. QED
    BY <1>4, <2>2, <2>3, <2>4, <2>10 DEF Types, OnDisconnectOperation
<1>5. ASSUME PurgeOutstandingWrites
      PROVE  Types'
  <2>1. "purge" \in Event
    BY DEF Event
  <2>2. /\ count' \in [Event -> Nat] /\ left' \in Nat /\ budget' \in Budgets
    BY <1>5, <2>1, HappensType DEF Types, PurgeOutstandingWrites
  <2>3. PICK keys \in Orders(puts) :
           Complete(putsToAck \o Report(keys, "write_canceled"), {})
    BY <1>5 DEF PurgeOutstandingWrites
  <2>4. Report(keys, "write_canceled") \in Seq(Answered)
    <3>1. "write_canceled" \in Status
      BY DEF Status
    <3>. QED
      BY <3>1, BatchShape DEF BatchOf, Types, TypeOK
  <2>5. putsToAck \o Report(keys, "write_canceled") \in Seq(Answered)
    BY <2>4 DEF Types, TypeOK
  <2>6. /\ done' \in Seq(Answered) /\ writes' \in SUBSET Nat
        /\ orphans' \in SUBSET Nat
    <3>1. {} \in SUBSET Nat /\ TypeOK
      BY DEF Types
    <3>. QED
      BY <2>3, <2>5, <3>1, CompleteType
  <2>7. IsFiniteSet(Active')
    BY <1>5, ActiveStep DEF PurgeOutstandingWrites
  <2>8. IsFiniteSet(puts') /\ puts' \in SUBSET Put
    BY <1>5, FS_EmptySet DEF PurgeOutstandingWrites
  <2>10. TypeOK'
    BY <1>5, <2>2, <2>6, <2>7, <2>8 DEF PurgeOutstandingWrites, Types, TypeOK
  <2>. QED
    BY <1>5, <2>2, <2>6, <2>7, <2>8, <2>10 DEF Types, PurgeOutstandingWrites
<1>6. ASSUME NEW token \in {None, cached}, RefreshAuthToken(token)
      PROVE  Types'
  <2>1. "tokenChange" \in Event
    BY DEF Event
  <2>2. /\ count' \in [Event -> Nat] /\ left' \in Nat /\ budget' \in Budgets
    BY <1>6, <2>1, HappensType DEF Types, RefreshAuthToken
  <2>3. up' \in Seq(Request)
    <3>1. /\ Req("unauth", 0, None) \in Request
          /\ token # None => AuthReq(token, FALSE) \in Request
          /\ up \in Seq(Request)
      BY ReqType DEF Types, TypeOK
    <3>. QED
      BY <1>6, <3>1, SendType DEF RefreshAuthToken, Types
  <2>4. IsFiniteSet(Active')
    BY <1>6, ActiveStep DEF RefreshAuthToken
  <2>5. authToken' \in Nat \cup {None}
    BY <1>6 DEF RefreshAuthToken, Types, TypeOK
  <2>10. TypeOK'
    BY <1>6, <2>2, <2>3, <2>4, <2>5 DEF RefreshAuthToken, Types, TypeOK
  <2>. QED
    BY <1>6, <2>2, <2>3, <2>4, <2>5, <2>10 DEF Types, RefreshAuthToken
<1>. QED
  BY <1>1, <1>2, <1>3, <1>4, <1>5, <1>6 DEF AppStep

\* The timers, tokens and sockets keep the types.
LEMMA TypesLinkStep ==
  ASSUME Types, LinkStep
  PROVE  Types'
<1> USE DEF client, auth, link, server, repo, used
<1>0. {"interrupt", "fetchError", "drop", "shutdown", "wake"} \subseteq Event
  BY DEF Event
<1>1. ASSUME NEW reason \in Reason, Interrupt(reason),
             count' \in [Event -> Nat], left' \in Nat, budget' \in Budgets
      PROVE  Types'
  <2>1. interrupts' \in SUBSET Reason
    BY <1>1 DEF Interrupt, Types, TypeOK
  <2>2. CASE HasRealtime(state)
    <3>1. OnDisconnect(interrupts', force) /\ force \in BOOLEAN
      BY <1>1, <2>2 DEF Interrupt, Types, TypeOK
    <3>2. Disconnected
      BY <3>1, DisconnectType
    <3>3. IsFiniteSet(puts') /\ IsFiniteSet(Active')
      BY <3>2, ActiveStep DEF Disconnected
    <3>4. TypeOK'
      BY <1>1, <2>1, <3>2 DEF Interrupt, Types, TypeOK, Disconnected
    <3>. QED
      BY <3>3, <3>4 DEF Types
  <2>3. CASE ~HasRealtime(state)
    <3>1. puts' = puts /\ listens' = listens
      BY <1>1, <2>3 DEF Interrupt
    <3>2. TypeOK'
      BY <1>1, <2>1, <2>3 DEF Interrupt, Hold, Types, TypeOK, State
    <3>. QED
      BY <3>1, <3>2, ActiveStep DEF Types
  <2>. QED
    BY <2>2, <2>3
<1>2. ASSUME InterruptForReason
      PROVE  Types'
  <2>1. "repo_interrupt" \in Reason
    BY DEF Reason
  <2>. QED
    BY <1>0, <1>1, <1>2, <2>1, HappensType DEF InterruptForReason, Types
<1>3. ASSUME NEW reason, ResumeForReason(reason)
      PROVE  Types'
  <2>1. TypeOK'
    BY <1>3 DEF ResumeForReason, TryScheduleReconnect, Types, TypeOK
  <2>2. puts' = puts /\ listens' = listens
    BY <1>3 DEF ResumeForReason
  <2>. QED
    BY <2>1, <2>2, ActiveStep DEF Types
<1>4. ASSUME RetryFires
      PROVE  Types'
  <2>1. TypeOK'
    BY <1>4 DEF RetryFires, Types, TypeOK, State
  <2>2. puts' = puts /\ listens' = listens
    BY <1>4 DEF RetryFires
  <2>. QED
    BY <2>1, <2>2, ActiveStep DEF Types
<1>5. ASSUME NEW f \in fetches, TokenFetched(f)
      PROVE  Types'
  <2>1. TypeOK'
    BY <1>5 DEF TokenFetched, Types, TypeOK, State
  <2>2. puts' = puts /\ listens' = listens
    BY <1>5 DEF TokenFetched
  <2>. QED
    BY <2>1, <2>2, ActiveStep DEF Types
<1>6. ASSUME NEW f \in fetches, TokenFetchFailed(f)
      PROVE  Types'
  <2>1. count' \in [Event -> Nat] /\ left' \in Nat /\ budget' \in Budgets
    BY <1>0, <1>6, HappensType DEF TokenFetchFailed, Types
  <2>2. TypeOK'
    BY <1>6, <2>1 DEF TokenFetchFailed, TryScheduleReconnect, Types, TypeOK,
       State
  <2>3. puts' = puts /\ listens' = listens
    BY <1>6 DEF TokenFetchFailed
  <2>. QED
    BY <2>2, <2>3, ActiveStep DEF Types
<1>7. ASSUME OnReady
      PROVE  Types'
  <2>1. listens' = listens
    BY <1>7 DEF OnReady
  <2>2. state' \in State /\ posted' \in Nat
    <3>1. state' = "connected" \/ state' = "authenticating"
      BY <1>7 DEF OnReady
    <3>2. posted' = posted + 1
      BY <1>7 DEF OnReady
    <3>. QED
      BY <3>1, <3>2 DEF Types, TypeOK, State
  <2>3. CASE RestoreState
    <3>1. /\ up' \in Seq(Request) /\ unacked' \in Nat
          /\ puts' \in SUBSET Put /\ IsFiniteSet(puts')
          /\ odQueue' \in Seq(Nat)
      BY <2>1, <2>3, RestoreType
    <3>2. TypeOK'
      BY <1>7, <2>1, <2>2, <3>1 DEF OnReady, Types, TypeOK
    <3>. QED
      BY <2>1, <3>1, <3>2, ActiveStep DEF Types
  <2>4. CASE /\ authToken # None
             /\ up' = Append(up, AuthReq(authToken, TRUE))
             /\ UNCHANGED <<unacked, puts, odQueue>>
    <3>1. AuthReq(authToken, TRUE) \in Request
      BY <2>4, ReqType DEF Types, TypeOK
    <3>2. up' \in Seq(Request)
      BY <2>4, <3>1, SendType DEF Types
    <3>3. TypeOK'
      BY <1>7, <2>1, <2>2, <2>4, <3>2 DEF OnReady, Types, TypeOK
    <3>. QED
      BY <2>1, <2>4, <3>3, ActiveStep DEF Types
  <2>. QED
    BY <1>7, <2>3, <2>4 DEF OnReady
<1>8. ASSUME OnConnect
      PROVE  Types'
  <2>1. TypeOK'
    BY <1>8 DEF OnConnect, Types, TypeOK
  <2>2. puts' = puts /\ listens' = listens
    BY <1>8 DEF OnConnect
  <2>. QED
    BY <2>1, <2>2, ActiveStep DEF Types
<1>9. ASSUME ConnectionLost
      PROVE  Types'
  <2>1. count' \in [Event -> Nat] /\ left' \in Nat /\ budget' \in Budgets
    BY <1>0, <1>9, HappensType DEF ConnectionLost, Types
  <2>2. OnDisconnect(interrupts, force) /\ force \in BOOLEAN
    BY <1>9 DEF ConnectionLost, Types, TypeOK
  <2>3. Disconnected
    BY <2>2, DisconnectType
  <2>4. IsFiniteSet(puts') /\ IsFiniteSet(Active')
    BY <2>3, ActiveStep DEF Disconnected
  <2>5. TypeOK'
    BY <1>9, <2>1, <2>3 DEF ConnectionLost, Types, TypeOK, Disconnected
  <2>. QED
    BY <2>4, <2>5 DEF Types
<1>10. ASSUME OnKill
       PROVE  Types'
  <2>1. "server_kill" \in Reason
    BY DEF Reason
  <2>. QED
    BY <1>0, <1>1, <1>10, <2>1, HappensType DEF OnKill, Types
<1>11. ASSUME Wake
       PROVE  Types'
  <2>1. count' \in [Event -> Nat] /\ left' \in Nat /\ budget' \in Budgets
    BY <1>0, <1>11, HappensType DEF Wake, Types
  <2>2. TypeOK'
    BY <1>11, <2>1 DEF Wake, TryScheduleReconnect, Types, TypeOK
  <2>3. puts' = puts /\ listens' = listens
    BY <1>11 DEF Wake
  <2>. QED
    BY <2>2, <2>3, ActiveStep DEF Types
<1>. QED
  BY <1>2, <1>3, <1>4, <1>5, <1>6, <1>7, <1>8, <1>9, <1>10, <1>11
     DEF LinkStep

\* The two ends of the queues
LEMMA QueueTypes ==
  ASSUME TypeOK
  PROVE  /\ down # <<>> => /\ Head(down) \in Response
                           /\ Tail(down) \in Seq(Response)
         /\ up # <<>> => /\ Head(up) \in Request
                         /\ Tail(up) \in Seq(Request)
         /\ \A m \in Response : Append(down, m) \in Seq(Response)
         /\ \A m \in Request : Append(received, m) \in Seq(Request)
BY DEF TypeOK

\* The server's answers are responses.
LEMMA AnswerType ==
  ASSUME NEW r \in Request, NEW status \in Status,
         r.kind \in {"auth", "listen", "put", "hashPut", "od"}
  PROVE  Answer(r, status) \in Response
BY DEF Answer, Request, Response

\* Handling a message keeps the types: the count of listens is not decremented
\* at zero.
LEMMA TypesMessageStep ==
  ASSUME Types, Countable, MessageStep
  PROVE  Types'
<1> USE DEF client, auth, link, server, repo, used
<1>1. ASSUME TokenRejected,
             UNCHANGED <<interrupts, denied, minToken, cached, received, used>>
      PROVE  Types'
  <2>1. OnDisconnect(interrupts, TRUE) /\ TRUE \in BOOLEAN
    BY <1>1 DEF TokenRejected
  <2>2. Disconnected
    BY <2>1, DisconnectType
  <2>3. IsFiniteSet(puts') /\ IsFiniteSet(Active')
    BY <2>2, ActiveStep DEF Disconnected
  <2>4. TypeOK'
    BY <1>1, <2>2 DEF TokenRejected, Types, TypeOK, Disconnected
  <2>. QED
    BY <2>3, <2>4 DEF Types
<1>2. ASSUME AuthResponse
      PROVE  Types'
  <2>1. CASE TokenRejected
    BY <1>1, <1>2, <2>1 DEF AuthResponse
  <2>2. CASE ~TokenRejected
    <3>1. /\ state' = "connected"
          /\ down' = Tail(down) /\ down # <<>>
          /\ UNCHANGED <<interrupts, retry, attempt, fetches, auth, posted,
                         listens, putsToAck, holding, denied, minToken, cached,
                         received, repo, used, stale>>
      BY <1>2, <2>2 DEF AuthResponse, Receive
    <3>2. down' \in Seq(Response)
      BY <3>1, QueueTypes DEF Types
    <3>3. CASE RestoreState
      <4>1. /\ up' \in Seq(Request) /\ unacked' \in Nat
            /\ puts' \in SUBSET Put /\ IsFiniteSet(puts')
            /\ odQueue' \in Seq(Nat)
        BY <3>1, <3>3, RestoreType
      <4>2. TypeOK'
        BY <3>1, <3>2, <4>1 DEF Types, TypeOK, State
      <4>. QED
        BY <3>1, <4>1, <4>2, ActiveStep DEF Types
    <3>4. CASE UNCHANGED <<up, unacked, puts, odQueue>>
      <4>1. TypeOK'
        BY <3>1, <3>2, <3>4 DEF Types, TypeOK, State
      <4>. QED
        BY <3>1, <3>4, <4>1, ActiveStep DEF Types
    <3>. QED
      BY <1>2, <2>2, <3>3, <3>4 DEF AuthResponse
  <2>. QED
    BY <2>1, <2>2
<1>3. ASSUME AuthRevoked
      PROVE  Types'
  BY <1>1, <1>3 DEF AuthRevoked
<1>4. ASSUME ListenResponse
      PROVE  Types'
  <2>1. down # <<>> /\ down' = Tail(down)
    BY <1>4 DEF ListenResponse, Receive
  <2>2. down' \in Seq(Response)
    BY <2>1, QueueTypes DEF Types
  <2>3. listens' \in [Query -> Nat] /\ Active' \in SUBSET Active
    BY <1>4 DEF ListenResponse, Types, TypeOK, Active
  <2>4. IsFiniteSet(Active')
    BY <2>3, ActiveStep
  <2>5. unacked' \in Nat
    <3>1. unacked \in Nat /\ unacked > 0
      BY <1>4 DEF ListenResponse, Countable, Types, TypeOK
    <3>2. unacked' = unacked - 1
      BY <1>4 DEF ListenResponse
    <3>. QED
      BY <3>1, <3>2
  <2>6. /\ done' \in Seq(Answered)
        /\ writes' \in SUBSET Nat
        /\ orphans' \in SUBSET Nat
        /\ putsToAck' \in Seq(Answered)
    <3>1. CASE AckPuts
      <4>1. writes \in SUBSET Nat /\ putsToAck \in Seq(Answered) /\ TypeOK
        BY DEF Types, TypeOK
      <4>2. putsToAck' \in Seq(Answered)
        BY <3>1 DEF AckPuts
      <4>. QED
        BY <3>1, <4>1, <4>2, CompleteType DEF AckPuts
    <3>2. CASE Hold /\ UNCHANGED putsToAck
      BY <3>2 DEF Hold, Types, TypeOK
    <3>. QED
      BY <1>4, <3>1, <3>2 DEF ListenResponse
  <2>7. TypeOK'
    BY <1>4, <2>2, <2>3, <2>5, <2>6 DEF ListenResponse, Types, TypeOK
  <2>. QED
    BY <1>4, <2>4, <2>7 DEF ListenResponse, Types
<1>5. ASSUME PutResponse
      PROVE  Types'
  <2>1. down # <<>> /\ down' = Tail(down)
    BY <1>5 DEF PutResponse, Receive
  <2>2. down' \in Seq(Response) /\ Head(down) \in Response
    BY <2>1, QueueTypes DEF Types
  <2> DEFINE answer == <<[id |-> Head(down).n, status |-> Head(down).status]>>
  <2>3. answer \in Seq(Answered)
    BY <2>2 DEF Response, Answered
  <2>4. puts' = {p \in puts : p.id # Head(down).n}
    BY <1>5 DEF PutResponse
  <2>5. puts' \in SUBSET Put /\ IsFiniteSet(puts')
    BY <2>4, FS_Subset DEF Types, TypeOK
  <2>6. /\ done' \in Seq(Answered)
        /\ writes' \in SUBSET Nat
        /\ orphans' \in SUBSET Nat
        /\ putsToAck' \in Seq(Answered)
    <3> HIDE DEF answer
    <3>1. CASE Complete(answer, writes) /\ UNCHANGED putsToAck
      <4>1. writes \in SUBSET Nat /\ putsToAck \in Seq(Answered) /\ TypeOK
        BY DEF Types, TypeOK
      <4>. QED
        BY <2>3, <3>1, <4>1, CompleteType
    <3>2. CASE Hold /\ putsToAck' = putsToAck \o answer
      BY <2>3, <3>2 DEF Hold, Types, TypeOK
    <3>3. CASE Hold /\ UNCHANGED putsToAck
      BY <3>3 DEF Hold, Types, TypeOK
    <3>. QED
      BY <1>5, <3>1, <3>2, <3>3 DEF PutResponse, answer
  <2>7. TypeOK'
    BY <1>5, <2>2, <2>5, <2>6 DEF PutResponse, Types, TypeOK
  <2>. QED
    BY <1>5, <2>5, <2>7, ActiveStep DEF PutResponse, Types
<1>6. ASSUME OnDisconnectResponse
      PROVE  Types'
  <2>1. down' \in Seq(Response)
    BY <1>6, QueueTypes DEF OnDisconnectResponse, Receive, Types
  <2>2. TypeOK'
    BY <1>6, <2>1 DEF OnDisconnectResponse, Types, TypeOK
  <2>. QED
    BY <1>6, <2>2, ActiveStep DEF OnDisconnectResponse, Types
<1>7. ASSUME ListenRevoked
      PROVE  Types'
  <2>1. down' \in Seq(Response)
    BY <1>7, QueueTypes DEF ListenRevoked, Receive, Types
  <2>2. listens' \in [Query -> Nat] /\ Active' \in SUBSET Active
    BY <1>7 DEF ListenRevoked, Types, TypeOK, Active
  <2>3. TypeOK'
    BY <1>7, <2>1, <2>2 DEF ListenRevoked, Types, TypeOK
  <2>. QED
    BY <1>7, <2>2, <2>3, ActiveStep DEF ListenRevoked, Types
<1>. QED
  BY <1>2, <1>3, <1>4, <1>5, <1>6, <1>7 DEF MessageStep, Deliver

\* The server's steps keep the types.
LEMMA TypesServerStep ==
  ASSUME Types, ServerStep
  PROVE  Types'
<1> USE DEF client, auth, link, server, repo, used
<1>0. /\ {"ok", "expired_token", "permission_denied", "error"} \subseteq Status
      /\ {"refuse", "revokeAuth", "revokeListen"} \subseteq Event
  BY DEF Status, Event
<1>1. ASSUME ServerAuth
      PROVE  Types'
  <2>1. /\ Head(up) \in Request /\ Tail(up) \in Seq(Request)
        /\ Head(up).kind = "auth"
    BY <1>1, QueueTypes DEF ServerAuth, Types
  <2>2. \A status \in Status : Append(down, Answer(Head(up), status))
                                   \in Seq(Response)
    BY <2>1, AnswerType, QueueTypes DEF Types
  <2>3. up' \in Seq(Request) /\ down' \in Seq(Response)
    BY <1>0, <1>1, <2>1, <2>2 DEF ServerAuth
  <2>4. TypeOK'
    BY <1>1, <2>3 DEF ServerAuth, Types, TypeOK
  <2>. QED
    BY <1>1, <2>4, ActiveStep DEF ServerAuth, Types
<1>2. ASSUME ServerListen
      PROVE  Types'
  <2>1. /\ Head(up) \in Request /\ Tail(up) \in Seq(Request)
        /\ Head(up).kind = "listen"
    BY <1>2, QueueTypes DEF ServerListen, Types
  <2>2. \A status \in Status : Append(down, Answer(Head(up), status))
                                   \in Seq(Response)
    BY <2>1, AnswerType, QueueTypes DEF Types
  <2>3. up' \in Seq(Request) /\ down' \in Seq(Response)
    BY <1>0, <1>2, <2>1, <2>2 DEF ServerListen
  <2>4. holding' \in SUBSET Query
    BY <1>2, <2>1 DEF ServerListen, Types, TypeOK, Request
  <2>5. TypeOK'
    BY <1>2, <2>3, <2>4 DEF ServerListen, Types, TypeOK
  <2>. QED
    BY <1>2, <2>5, ActiveStep DEF ServerListen, Types
<1>3. ASSUME NEW status \in {"ok", "error"}, ServerPut(status)
      PROVE  Types'
  <2>1. /\ Head(up) \in Request /\ Tail(up) \in Seq(Request)
        /\ Head(up).kind \in {"put", "hashPut"}
    BY <1>3, QueueTypes DEF ServerPut, PutKinds, Types
  <2>2. Append(down, Answer(Head(up), status)) \in Seq(Response)
    BY <1>0, <2>1, AnswerType, QueueTypes DEF Types
  <2>3. up' \in Seq(Request) /\ down' \in Seq(Response)
    BY <1>3, <2>1, <2>2 DEF ServerPut
  <2>4. received' \in Seq(Request)
    BY <1>3, <2>1, QueueTypes DEF ServerPut, Types
  <2>5. count' \in [Event -> Nat] /\ left' \in Nat /\ budget' \in Budgets
    <3>1. CASE Happens("refuse")
      BY <1>0, <3>1, HappensType DEF Types
    <3>2. CASE UNCHANGED used
      BY <3>2 DEF Types, TypeOK
    <3>. QED
      BY <1>3, <3>1, <3>2 DEF ServerPut
  <2>6. TypeOK'
    BY <1>3, <2>3, <2>4, <2>5 DEF ServerPut, Types, TypeOK
  <2>. QED
    BY <1>3, <2>6, ActiveStep DEF ServerPut, Types
<1>4. ASSUME ServerOther
      PROVE  Types'
  <2>1. Head(up) \in Request /\ Tail(up) \in Seq(Request)
    BY <1>4, QueueTypes DEF ServerOther, Types
  <2>2. Head(up).kind = "od" =>
            Append(down, Answer(Head(up), "ok")) \in Seq(Response)
    BY <1>0, <2>1, AnswerType, QueueTypes DEF Types
  <2>3. down \in Seq(Response) /\ holding \in SUBSET Query
    BY DEF Types, TypeOK
  <2>4. /\ up' \in Seq(Request) /\ down' \in Seq(Response)
        /\ holding' \in SUBSET Query
    BY <1>4, <2>1, <2>2, <2>3 DEF ServerOther
  <2>5. TypeOK'
    BY <1>4, <2>4 DEF ServerOther, Types, TypeOK
  <2>. QED
    BY <1>4, <2>5, ActiveStep DEF ServerOther, Types
<1>5. ASSUME ServerRevokesAuth
      PROVE  Types'
  <2>1. count' \in [Event -> Nat] /\ left' \in Nat /\ budget' \in Budgets
    BY <1>0, <1>5, HappensType DEF ServerRevokesAuth, Types
  <2>2. Answer(Req("authRevoked", 0, None), "expired_token") \in Response
    BY <1>0, NoneAssumption DEF Answer, Req, Response
  <2>3. down' \in Seq(Response)
    <3>1. down \in Seq(Response)
      BY DEF Types, TypeOK
    <3>. QED
      BY <1>5, <2>2, <3>1, QueueTypes DEF ServerRevokesAuth, Types
  <2>4. TypeOK'
    BY <1>5, <2>1, <2>3 DEF ServerRevokesAuth, Types, TypeOK
  <2>. QED
    BY <1>5, <2>4, ActiveStep DEF ServerRevokesAuth, Types
<1>6. ASSUME NEW q \in Query, ServerRevokesListen(q)
      PROVE  Types'
  <2>1. count' \in [Event -> Nat] /\ left' \in Nat /\ budget' \in Budgets
    BY <1>0, <1>6, HappensType DEF ServerRevokesListen, Types
  <2>2. Answer(Req("listenRevoked", 0, q), "permission_denied") \in Response
    BY <1>0, NoneAssumption DEF Answer, Req, Response
  <2>3. down' \in Seq(Response)
    <3>1. down \in Seq(Response)
      BY DEF Types, TypeOK
    <3>. QED
      BY <1>6, <2>2, <3>1, QueueTypes DEF ServerRevokesListen, Types
  <2>4. TypeOK'
    BY <1>6, <2>1, <2>3 DEF ServerRevokesListen, Types, TypeOK
  <2>. QED
    BY <1>6, <2>4, ActiveStep DEF ServerRevokesListen, Types
<1>. QED
  BY <1>1, <1>2, <1>3, <1>4, <1>5, <1>6 DEF ServerStep, Server

-----------------------------------------------------------------------------
(* The session: when the client is on the network.                         *)

\* Every fetch has a number of its own, the latest one the current, and its
\* callback has not led to a connection yet.
FetchesAreApart ==
    /\ \A f \in fetches : /\ f.n <= attempt
                          /\ f.n = attempt => ~HasRealtime(state)
    /\ \A f, g \in fetches : f.n = g.n => f = g

\* Without an open connection nothing is on its way and nothing is counted.
QuietOffline ==
    ~CanListen => up = <<>> /\ down = <<>> /\ holding = {} /\ unacked = 0

SessionInv ==
    /\ StaysOffline
    /\ FetchesAreApart
    /\ QuietOffline
    /\ InfoSeesConnection

\* No fetch and no connection at the start
LEMMA SessionInit ==
  ASSUME Init
  PROVE  SessionInv
BY DEF Init, SessionInv, StaysOffline, FetchesAreApart, QuietOffline,
   InfoSeesConnection, CanListen

\* Losing the connection leaves nothing under way that could still use it.
LEMMA SessionDisconnect ==
  ASSUME Types, SessionInv, HasRealtime(state), interrupts' \in SUBSET Reason,
         NEW refresh \in BOOLEAN, OnDisconnect(interrupts', refresh)
  PROVE  SessionInv'
<1>1. Disconnected
  BY DisconnectType
<1>2. retry = None
  BY DEF SessionInv, StaysOffline, HasRealtime
<1>3. retry' = None \/ interrupts' = {}
  BY <1>2 DEF OnDisconnect, TryScheduleReconnect
<1>4. StaysOffline'
  BY <1>1, <1>3 DEF StaysOffline, Disconnected
<1>5. FetchesAreApart'
  BY <1>1 DEF SessionInv, FetchesAreApart, Disconnected, HasRealtime
<1>6. QuietOffline' /\ InfoSeesConnection'
  BY <1>1 DEF QuietOffline, InfoSeesConnection, CanListen, Disconnected
<1>. QED
  BY <1>4, <1>5, <1>6 DEF SessionInv

\* The calls of the application leave the session consistent.
LEMMA SessionAppStep ==
  ASSUME Types, SessionInv, AppStep
  PROVE  SessionInv'
<1>1. /\ UNCHANGED <<state, interrupts, retry, attempt, fetches, posted,
                     connected, holding, down>>
      /\ ~CanListen => up' = up /\ unacked' = unacked
  BY Zenon DEF AppStep, Listen, Unlisten, PutData, OnDisconnectOperation,
     PurgeOutstandingWrites, RefreshAuthToken, client, auth, link, server, repo,
     CanListen, CanWrite
<1>. QED
  BY <1>1 DEF SessionInv, StaysOffline, FetchesAreApart, QuietOffline,
     InfoSeesConnection, CanListen, HasRealtime

\* So do the timers, tokens and sockets: a stale token opens nothing.
LEMMA SessionLinkStep ==
  ASSUME Types, SessionInv, LinkStep
  PROVE  SessionInv'
<1> USE DEF client, auth, link, server, repo, used
<1>0. force \in BOOLEAN /\ interrupts \in SUBSET Reason /\ attempt \in Nat
      /\ posted \in Nat /\ \A f \in fetches : f.n \in Nat
  BY DEF Types, TypeOK
<1>1. ASSUME NEW reason \in Reason, Interrupt(reason)
      PROVE  SessionInv'
  <2>1. interrupts' \in SUBSET Reason
    BY <1>0, <1>1 DEF Interrupt
  <2>2. CASE HasRealtime(state)
    BY <1>0, <1>1, <2>1, <2>2, SessionDisconnect DEF Interrupt
  <2>3. CASE ~HasRealtime(state)
    <3>1. /\ state' = "disconnected" /\ retry' = None
          /\ UNCHANGED <<attempt, fetches, unacked, up, down, holding>>
      BY <1>1, <2>3 DEF Interrupt
    <3>. QED
      BY <2>3, <3>1 DEF SessionInv, StaysOffline, FetchesAreApart,
         QuietOffline, InfoSeesConnection, CanListen, HasRealtime
  <2>. QED
    BY <2>2, <2>3
<1>2. ASSUME InterruptForReason
      PROVE  SessionInv'
  BY <1>1, <1>2 DEF InterruptForReason, Reason
<1>3. ASSUME NEW reason, ResumeForReason(reason)
      PROVE  SessionInv'
  BY <1>3 DEF ResumeForReason, TryScheduleReconnect, SessionInv, StaysOffline,
     FetchesAreApart, QuietOffline, InfoSeesConnection, CanListen, HasRealtime
<1>4. ASSUME RetryFires
      PROVE  SessionInv'
  <2>1. /\ state = "disconnected" /\ interrupts = {}
        /\ state' = "gettingToken" /\ attempt' = attempt + 1
        /\ fetches' = fetches \cup {[n |-> attempt + 1, refresh |-> retry]}
        /\ retry' = None
        /\ UNCHANGED <<interrupts, unacked, up, down, holding>>
    BY <1>4 DEF RetryFires, SessionInv, StaysOffline
  <2>2. FetchesAreApart'
    <3>1. \A f \in fetches' : f.n <= attempt'
      BY <1>0, <2>1 DEF SessionInv, FetchesAreApart
    <3>2. \A f, g \in fetches' : f.n = g.n => f = g
      BY <1>0, <2>1 DEF SessionInv, FetchesAreApart
    <3>. QED
      BY <2>1, <3>1, <3>2 DEF FetchesAreApart, HasRealtime
  <2>3. StaysOffline' /\ QuietOffline' /\ InfoSeesConnection'
    BY <2>1 DEF SessionInv, StaysOffline, QuietOffline, InfoSeesConnection,
       CanListen
  <2>. QED
    BY <2>2, <2>3 DEF SessionInv
<1>5. ASSUME NEW f \in fetches, TokenFetched(f)
      PROVE  SessionInv'
  BY <1>5 DEF TokenFetched, MayOpen, SessionInv, StaysOffline, FetchesAreApart,
     QuietOffline, InfoSeesConnection, CanListen, HasRealtime
<1>6. ASSUME NEW f \in fetches, TokenFetchFailed(f)
      PROVE  SessionInv'
  <2>1. /\ fetches' = fetches \ {f}
        /\ UNCHANGED <<interrupts, attempt, unacked, up, down, holding, posted,
                       connected>>
    BY <1>6 DEF TokenFetchFailed
  <2>2. CASE /\ f.n = attempt
             /\ state' = "disconnected"
             /\ TryScheduleReconnect(interrupts, force)
    <3>1. ~HasRealtime(state)
      BY <2>2 DEF SessionInv, FetchesAreApart
    <3>2. StaysOffline'
      BY <2>1, <2>2 DEF TryScheduleReconnect, SessionInv, StaysOffline
    <3>3. FetchesAreApart' /\ QuietOffline' /\ InfoSeesConnection'
      BY <2>1, <2>2, <3>1 DEF SessionInv, FetchesAreApart, QuietOffline,
         InfoSeesConnection, CanListen, HasRealtime
    <3>. QED
      BY <3>2, <3>3 DEF SessionInv
  <2>3. CASE UNCHANGED <<state, retry, force>>
    BY <2>1, <2>3 DEF SessionInv, StaysOffline, FetchesAreApart, QuietOffline,
       InfoSeesConnection, CanListen, HasRealtime
  <2>. QED
    BY <1>6, <2>2, <2>3 DEF TokenFetchFailed
<1>7. ASSUME OnReady
      PROVE  SessionInv'
  <2>1. /\ state = "connecting" /\ state' \in {"connected", "authenticating"}
        /\ posted' = posted + 1
        /\ UNCHANGED <<interrupts, retry, attempt, fetches>>
    BY <1>7 DEF OnReady
  <2>. QED
    BY <1>0, <2>1 DEF SessionInv, StaysOffline, FetchesAreApart, QuietOffline,
       InfoSeesConnection, CanListen, HasRealtime
<1>8. ASSUME OnConnect
      PROVE  SessionInv'
  BY <1>8 DEF OnConnect, SessionInv, StaysOffline, FetchesAreApart,
     QuietOffline, InfoSeesConnection, CanListen, HasRealtime
<1>9. ASSUME ConnectionLost
      PROVE  SessionInv'
  BY <1>0, <1>9, SessionDisconnect DEF ConnectionLost
<1>10. ASSUME OnKill
       PROVE  SessionInv'
  BY <1>1, <1>10 DEF OnKill, Reason
<1>11. ASSUME Wake
       PROVE  SessionInv'
  BY <1>11 DEF Wake, TryScheduleReconnect, SessionInv, StaysOffline,
     FetchesAreApart, QuietOffline, InfoSeesConnection, CanListen, HasRealtime
<1>. QED
  BY <1>2, <1>3, <1>4, <1>5, <1>6, <1>7, <1>8, <1>9, <1>10, <1>11
     DEF LinkStep

\* So does every message.
LEMMA SessionMessageStep ==
  ASSUME Types, SessionInv, MessageStep
  PROVE  SessionInv'
<1>1. down # <<>>
  BY DEF MessageStep, Deliver, AuthResponse, AuthRevoked, ListenResponse,
     PutResponse, OnDisconnectResponse, ListenRevoked, Receive
<1>2. CanListen /\ HasRealtime(state) /\ interrupts = {} /\ retry = None
  BY <1>1 DEF SessionInv, StaysOffline, QuietOffline, CanListen, HasRealtime
<1>3. CASE TokenRejected /\ UNCHANGED interrupts
  <2>1. OnDisconnect(interrupts', TRUE) /\ interrupts' \in SUBSET Reason
    BY <1>2, <1>3 DEF TokenRejected
  <2>. QED
    BY <1>2, <2>1, SessionDisconnect
<1>4. CASE /\ state' \in {state, "connected"}
           /\ UNCHANGED <<interrupts, retry, attempt, fetches, posted,
                          connected>>
  BY <1>2, <1>4 DEF SessionInv, StaysOffline, FetchesAreApart, QuietOffline,
     InfoSeesConnection, CanListen, HasRealtime
<1>. QED
  <2> USE DEF client, auth, link, server, repo, used
  <2>1. ASSUME AuthResponse PROVE SessionInv'
    BY <1>3, <1>4, <2>1 DEF AuthResponse
  <2>2. ASSUME AuthRevoked PROVE SessionInv'
    BY <1>3, <2>2 DEF AuthRevoked
  <2>3. ASSUME ListenResponse \/ PutResponse PROVE SessionInv'
    BY <1>4, <2>3 DEF ListenResponse, PutResponse
  <2>4. ASSUME OnDisconnectResponse \/ ListenRevoked PROVE SessionInv'
    BY <1>4, <2>4 DEF OnDisconnectResponse, ListenRevoked
  <2>. QED
    BY <2>1, <2>2, <2>3, <2>4 DEF MessageStep, Deliver

\* So does the server.
LEMMA SessionServerStep ==
  ASSUME Types, SessionInv, ServerStep
  PROVE  SessionInv'
<1> USE DEF client, auth, link, server, repo, used
<1>1. UNCHANGED <<state, interrupts, retry, attempt, fetches, posted, connected,
                  unacked>>
  BY DEF ServerStep, Server, ServerAuth, ServerListen, ServerPut, ServerOther,
     ServerRevokesAuth, ServerRevokesListen
<1>2. ~CanListen => up' = up /\ down' = down /\ holding' \in SUBSET holding
  <2>1. ASSUME ServerAuth \/ ServerListen PROVE CanListen
    BY <2>1 DEF ServerAuth, ServerListen, SessionInv, QuietOffline
  <2>2. ASSUME NEW status, ServerPut(status) PROVE CanListen
    BY <2>2 DEF ServerPut, SessionInv, QuietOffline
  <2>3. ASSUME ServerOther PROVE CanListen
    BY <2>3 DEF ServerOther, SessionInv, QuietOffline
  <2>4. ASSUME ServerRevokesAuth, ~CanListen
        PROVE  up' = up /\ down' = down /\ holding' = holding
    BY <2>4 DEF ServerRevokesAuth
  <2>5. ASSUME NEW q \in Query, ServerRevokesListen(q), ~CanListen
        PROVE  up' = up /\ down' = down /\ holding' \in SUBSET holding
    BY <2>5 DEF ServerRevokesListen, SessionInv, QuietOffline
  <2>. QED
    BY <2>1, <2>2, <2>3, <2>4, <2>5 DEF ServerStep, Server
<1>. QED
  BY <1>1, <1>2 DEF SessionInv, StaysOffline, FetchesAreApart, QuietOffline,
     InfoSeesConnection, CanListen, HasRealtime

-----------------------------------------------------------------------------
(* Counting the messages of a kind.                                        *)

Count(s, kind) == Cardinality(OfKind(s, kind))

\* A count is a natural number.
LEMMA CountType ==
  ASSUME NEW S, NEW s \in Seq(S), NEW kind
  PROVE  /\ IsFiniteSet(OfKind(s, kind))
         /\ OfKind(s, kind) \in SUBSET (1..Len(s))
         /\ Count(s, kind) \in Nat
<1>1. Len(s) \in Nat /\ DOMAIN s = 1..Len(s)
  OBVIOUS
<1>2. IsFiniteSet(1..Len(s))
  <2>1. 1 \in Int /\ Len(s) \in Int
    BY <1>1
  <2>. QED
    BY <2>1, FS_Interval
<1>3. OfKind(s, kind) \in SUBSET (1..Len(s))
  BY <1>1 DEF OfKind
<1>4. IsFiniteSet(OfKind(s, kind))
  BY <1>2, <1>3, FS_Subset
<1>. QED
  BY <1>3, <1>4, FS_CardinalityType DEF Count

\* Nothing is in the empty queue.
LEMMA CountEmpty ==
  ASSUME NEW kind
  PROVE  Count(<<>>, kind) = 0
<1>1. OfKind(<<>>, kind) = {}
  BY DEF OfKind
<1>. QED
  BY <1>1, FS_EmptySet DEF Count

\* Moving positions does not change how many there are.
LEMMA CountShift ==
  ASSUME NEW T \in SUBSET Nat, IsFiniteSet(T), NEW c \in Nat
  PROVE  /\ IsFiniteSet({i + c : i \in T})
         /\ Cardinality({i + c : i \in T}) = Cardinality(T)
<1> DEFINE U == {i + c : i \in T}
           f == [i \in T |-> i + c]
<1>1. f \in Bijection(T, U)
  <2>1. f \in Injection(T, U)
    BY DEF Injection, IsInjective
  <2>2. f \in Surjection(T, U)
    BY DEF Surjection
  <2>. QED
    BY <2>1, <2>2 DEF Bijection
<1>2. ExistsBijection(T, U)
  BY <1>1 DEF ExistsBijection
<1>. QED
  BY <1>2, FS_Bijection

\* The counts of two queues add up.
LEMMA CountConcat ==
  ASSUME NEW S, NEW s \in Seq(S), NEW t \in Seq(S), NEW kind
  PROVE  Count(s \o t, kind) = Count(s, kind) + Count(t, kind)
<1> DEFINE A == OfKind(s, kind)
           B == OfKind(t, kind)
           C == {i + Len(s) : i \in B}
<1>1. /\ Len(s) \in Nat /\ DOMAIN s = 1..Len(s)
      /\ Len(t) \in Nat /\ DOMAIN t = 1..Len(t)
      /\ DOMAIN (s \o t) = 1..(Len(s) + Len(t))
      /\ \A i \in 1..Len(s) : (s \o t)[i] = s[i]
      /\ \A i \in 1..Len(t) : (s \o t)[i + Len(s)] = t[i]
  OBVIOUS
<1>2. /\ IsFiniteSet(A) /\ A \in SUBSET (1..Len(s)) /\ Cardinality(A) \in Nat
      /\ IsFiniteSet(B) /\ B \in SUBSET (1..Len(t)) /\ Cardinality(B) \in Nat
  BY CountType DEF Count
<1>3. OfKind(s \o t, kind) = A \cup C
  <2>1. ASSUME NEW i \in OfKind(s \o t, kind)
        PROVE  i \in A \cup C
    <3>1. i \in 1..(Len(s) + Len(t)) /\ (s \o t)[i].kind = kind
      BY <1>1, <2>1 DEF OfKind
    <3>2. CASE i <= Len(s)
      BY <1>1, <3>1, <3>2 DEF OfKind
    <3>3. CASE i > Len(s)
      <4>1. i - Len(s) \in 1..Len(t) /\ i = (i - Len(s)) + Len(s)
        BY <1>1, <3>1, <3>3
      <4>2. t[i - Len(s)].kind = kind
        BY <1>1, <3>1, <4>1
      <4>3. i - Len(s) \in B
        BY <1>1, <4>1, <4>2 DEF OfKind
      <4>. QED
        BY <4>1, <4>3
    <3>. QED
      BY <1>1, <3>1, <3>2, <3>3
  <2>2. ASSUME NEW i \in A
        PROVE  i \in OfKind(s \o t, kind)
    BY <1>1, <2>2 DEF OfKind
  <2>3. ASSUME NEW i \in B
        PROVE  i + Len(s) \in OfKind(s \o t, kind)
    BY <1>1, <2>3 DEF OfKind
  <2>. QED
    BY <2>1, <2>2, <2>3
<1>4. IsFiniteSet(C) /\ Cardinality(C) = Cardinality(B)
  <2>1. B \in SUBSET Nat
    BY <1>1, <1>2
  <2>. QED
    BY <1>1, <1>2, <2>1, CountShift
<1>5. A \cap C = {}
  BY <1>1, <1>2
<1>6. Cardinality(A \cup C) = Cardinality(A) + Cardinality(C) - Cardinality({})
  <2> HIDE DEF A, B, C
  <2>. QED
    BY <1>2, <1>4, <1>5, FS_Union
<1>. QED
  BY <1>2, <1>3, <1>4, <1>6, FS_EmptySet DEF Count

\* A single message counts if it is of the kind.
LEMMA CountOne ==
  ASSUME NEW m, NEW kind
  PROVE  Count(<<m>>, kind) = IF m.kind = kind THEN 1 ELSE 0
<1>1. CASE m.kind = kind
  <2>1. OfKind(<<m>>, kind) = {1}
    BY <1>1 DEF OfKind
  <2>. QED
    BY <1>1, <2>1, FS_Singleton DEF Count
<1>2. CASE m.kind # kind
  <2>1. OfKind(<<m>>, kind) = {}
    BY <1>2 DEF OfKind
  <2>. QED
    BY <1>2, <2>1, FS_EmptySet DEF Count
<1>. QED
  BY <1>1, <1>2

\* What a message sent adds to the count
LEMMA CountAppend ==
  ASSUME NEW S, NEW s \in Seq(S), NEW m \in S, NEW kind
  PROVE  Count(Append(s, m), kind)
             = Count(s, kind) + (IF m.kind = kind THEN 1 ELSE 0)
<1> DEFINE u == <<m>>
<1>1. Append(s, m) = s \o u /\ u \in Seq(S)
  BY AppendIsConcat
<1>2. Count(u, kind) = IF m.kind = kind THEN 1 ELSE 0
  BY CountOne
<1> HIDE DEF u
<1>3. Count(s \o u, kind) = Count(s, kind) + Count(u, kind)
  BY <1>1, CountConcat
<1>. QED
  BY <1>1, <1>2, <1>3

\* What a message taken removes from the count
LEMMA CountTail ==
  ASSUME NEW S, NEW s \in Seq(S), s # <<>>, NEW kind
  PROVE  Count(s, kind)
             = Count(Tail(s), kind) + (IF Head(s).kind = kind THEN 1 ELSE 0)
<1> DEFINE u == <<Head(s)>>
<1>1. /\ Head(s) \in S /\ Tail(s) \in Seq(S) /\ u \in Seq(S)
  OBVIOUS
<1>2. s = u \o Tail(s)
  BY <1>1, SeqEqual
<1>3. Count(u, kind) = IF Head(s).kind = kind THEN 1 ELSE 0
  BY CountOne
<1> HIDE DEF u
<1>4. Count(u \o Tail(s), kind) = Count(u, kind) + Count(Tail(s), kind)
  BY <1>1, CountConcat
<1>5. Count(Tail(s), kind) \in Nat
  BY <1>1, CountType
<1>6. Count(s, kind) = Count(u, kind) + Count(Tail(s), kind)
  BY Zenon, <1>2, <1>4
<1>. QED
  BY <1>3, <1>5, <1>6

\* A queue of one kind counts all its messages.
LEMMA CountAll ==
  ASSUME NEW S, NEW s \in Seq(S), NEW kind,
         \A i \in 1..Len(s) : s[i].kind = kind
  PROVE  Count(s, kind) = Len(s)
<1>1. Len(s) \in Nat /\ DOMAIN s = 1..Len(s)
  OBVIOUS
<1>2. OfKind(s, kind) = 1..Len(s)
  BY <1>1 DEF OfKind
<1>3. 1 \in Int /\ Len(s) \in Int
  BY <1>1
<1>4. Cardinality(1..Len(s)) = IF 1 > Len(s) THEN 0 ELSE Len(s) - 1 + 1
  BY <1>3, FS_Interval
<1>. QED
  BY <1>1, <1>2, <1>4 DEF Count

\* A queue without the kind counts none.
LEMMA CountNone ==
  ASSUME NEW S, NEW s \in Seq(S), NEW kind,
         \A i \in 1..Len(s) : s[i].kind # kind
  PROVE  Count(s, kind) = 0
<1>1. OfKind(s, kind) = {}
  BY DEF OfKind
<1>. QED
  BY <1>1, FS_EmptySet DEF Count

-----------------------------------------------------------------------------
(* unackedListensCount.                                                    *)

InFlight == Count(up, "listen") + Count(down, "listen")

\* The invariant, with the counts of this section
LEMMA InFlightMeaning ==
  UnackedIsInFlight <=> unacked = InFlight
BY DEF UnackedIsInFlight, InFlight, Count

\* If the answer to a listen arrives, it is one of those counted.
LEMMA UnackedCountable ==
  ASSUME TypeOK, UnackedIsInFlight
  PROVE  Countable
<1> SUFFICES ASSUME Receive({"listen"})
             PROVE  unacked > 0
  BY DEF Countable
<1>1. /\ up \in Seq(Request) /\ down \in Seq(Response)
      /\ down # <<>> /\ Head(down).kind = "listen"
  BY DEF TypeOK, Receive
<1>2. /\ Count(up, "listen") \in Nat
      /\ Count(Tail(down), "listen") \in Nat
      /\ Count(down, "listen") = Count(Tail(down), "listen") + 1
  <2>1. Tail(down) \in Seq(Response)
    BY <1>1
  <2>. QED
    BY <1>1, <2>1, CountType, CountTail
<1>. QED
  BY <1>2, InFlightMeaning DEF InFlight

\* What restoreState sends is as many listens as it counts.
LEMMA RestoreCount ==
  ASSUME Types, RestoreState
  PROVE  Count(up', "listen") = Count(up, "listen") + Cardinality(Active)
<1>1. PICK ls, ps, os \in Seq(Request) : Restored(ls, ps, os)
  BY RestoreShape
<1>2. Count(ls, "listen") = Cardinality(Active)
  <2>1. \A i \in 1..Len(ls) : ls[i].kind = "listen"
    BY <1>1, RestoredKinds
  <2>. QED
    BY <1>1, <2>1, CountAll DEF Restored
<1>3. Count(ps, "listen") = 0
  <2>1. \A i \in 1..Len(ps) : ps[i].kind # "listen"
    BY <1>1, RestoredKinds DEF PutKinds
  <2>. QED
    BY <2>1, CountNone
<1>4. Count(os, "listen") = 0
  <2>1. \A i \in 1..Len(os) : os[i].kind # "listen"
    BY <1>1, RestoredKinds
  <2>. QED
    BY <2>1, CountNone
<1>5. up \in Seq(Request) /\ Count(up, "listen") \in Nat
      /\ Cardinality(Active) \in Nat
  BY CountType, RestoreShape DEF Types, TypeOK
<1>6. up \o ls \in Seq(Request) /\ (up \o ls) \o ps \in Seq(Request)
  BY <1>5
<1>7. /\ Count(up \o ls, "listen") = Count(up, "listen") + Count(ls, "listen")
      /\ Count((up \o ls) \o ps, "listen")
             = Count(up \o ls, "listen") + Count(ps, "listen")
      /\ Count(((up \o ls) \o ps) \o os, "listen")
             = Count((up \o ls) \o ps, "listen") + Count(os, "listen")
  BY <1>5, <1>6, CountConcat
<1>8. up' = ((up \o ls) \o ps) \o os
  BY <1>1 DEF Restored
<1>. QED
  BY <1>2, <1>3, <1>4, <1>5, <1>7, <1>8

\* Nothing is in flight and nothing counted at the start.
LEMMA UnackedInit ==
  ASSUME Init
  PROVE  UnackedIsInFlight
BY CountEmpty, InFlightMeaning DEF Init, InFlight

\* Sending something else than a listen leaves the count alone.
LEMMA UnackedSend ==
  ASSUME Types, UnackedIsInFlight, NEW m \in Request, m.kind # "listen",
         up' = Append(up, m), UNCHANGED <<down, unacked>>
  PROVE  UnackedIsInFlight'
<1>1. up \in Seq(Request) /\ unacked \in Nat /\ Count(up, "listen") \in Nat
  BY CountType DEF Types, TypeOK
<1>2. Count(up', "listen") = Count(up, "listen")
  BY <1>1, CountAppend
<1>. QED
  BY <1>1, <1>2, InFlightMeaning DEF UnackedIsInFlight, InFlight, Count

\* A listen the application adds is sent and counted at once.
LEMMA UnackedAppStep ==
  ASSUME Types, UnackedIsInFlight, AppStep
  PROVE  UnackedIsInFlight'
<1> USE DEF client, auth, link, server, repo, used
<1>0. ASSUME UNCHANGED <<up, down, unacked>>
      PROVE  UnackedIsInFlight'
  BY <1>0 DEF UnackedIsInFlight
<1>1. ASSUME NEW q \in Query, Listen(q)
      PROVE  UnackedIsInFlight'
  <2>1. CASE /\ up' = Append(up, Req("listen", listens'[q], q))
             /\ CountListens(1)
    <3>1. up \in Seq(Request) /\ unacked \in Nat
      BY DEF Types, TypeOK
    <3>2. listens'[q] \in Nat
      <4>1. "listen" \in Event
        BY DEF Event
      <4>. QED
        BY <1>1, <4>1, HappensType DEF Listen, Types, TypeOK
    <3>3. /\ Req("listen", listens'[q], q) \in Request
          /\ Req("listen", listens'[q], q).kind = "listen"
      BY <3>2, ReqType DEF Req
    <3>4. Count(up', "listen") = Count(up, "listen") + 1
      BY <2>1, <3>1, <3>3, CountAppend
    <3>5. down' = down /\ unacked' = unacked + 1
      BY <1>1, <2>1 DEF Listen, CountListens
    <3>6. Count(up, "listen") \in Nat /\ Count(down, "listen") \in Nat
      BY CountType DEF Types, TypeOK
    <3>. QED
      BY <3>1, <3>4, <3>5, <3>6 DEF UnackedIsInFlight, Count
  <2>2. CASE UNCHANGED <<up, unacked>>
    BY <1>0, <1>1, <2>2 DEF Listen
  <2>. QED
    BY <1>1, <2>1, <2>2 DEF Listen
<1>2. ASSUME NEW q \in Query, Unlisten(q)
      PROVE  UnackedIsInFlight'
  <2>1. /\ Req("unlisten", 0, q) \in Request
        /\ Req("unlisten", 0, q).kind # "listen"
    BY ReqType DEF Req
  <2>. QED
    BY <1>0, <1>2, <2>1, UnackedSend DEF Unlisten
<1>3. ASSUME NEW hash \in BOOLEAN, PutData(hash)
      PROVE  UnackedIsInFlight'
  <2> DEFINE put == [id |-> count'["put"], hash |-> hash, sent |-> CanWrite]
  <2>1. put \in Put
    <3>1. "put" \in Event
      BY DEF Event
    <3>. QED
      BY <1>3, <3>1, HappensType DEF PutData, Types, Put, CanWrite
  <2>2. PutReq(put) \in Request /\ PutReq(put).kind # "listen"
    BY <2>1, ReqType DEF PutReq, Req
  <2>3. UNCHANGED <<down, unacked>>
        /\ (up' = Append(up, PutReq(put)) \/ UNCHANGED up)
    BY <1>3 DEF PutData
  <2>. QED
    BY <1>0, <2>2, <2>3, UnackedSend
<1>4. ASSUME OnDisconnectOperation
      PROVE  UnackedIsInFlight'
  <2> DEFINE m == Req("od", count'["onDisconnect"], None)
  <2>1. m \in Request /\ m.kind # "listen"
    <3>1. "onDisconnect" \in Event
      BY DEF Event
    <3>2. count'["onDisconnect"] \in Nat
      BY <1>4, <3>1, HappensType DEF OnDisconnectOperation, Types
    <3>. QED
      BY <3>2, ReqType DEF Req
  <2>2. UNCHANGED <<down, unacked>> /\ (up' = Append(up, m) \/ UNCHANGED up)
    BY <1>4 DEF OnDisconnectOperation
  <2>. QED
    BY <1>0, <2>1, <2>2, UnackedSend
<1>5. ASSUME PurgeOutstandingWrites
      PROVE  UnackedIsInFlight'
  BY <1>0, <1>5 DEF PurgeOutstandingWrites
<1>6. ASSUME NEW token \in {None, cached}, RefreshAuthToken(token)
      PROVE  UnackedIsInFlight'
  <2>1. /\ Req("unauth", 0, None) \in Request
        /\ Req("unauth", 0, None).kind # "listen"
        /\ token # None => /\ AuthReq(token, FALSE) \in Request
                           /\ AuthReq(token, FALSE).kind # "listen"
    BY ReqType DEF Req, AuthReq, Types, TypeOK
  <2>2. /\ UNCHANGED <<down, unacked>>
        /\ \/ up' = up
           \/ up' = Append(up, Req("unauth", 0, None))
           \/ token # None /\ up' = Append(up, AuthReq(token, FALSE))
    BY <1>6 DEF RefreshAuthToken
  <2>. QED
    BY <1>0, <2>1, <2>2, UnackedSend
<1>. QED
  BY <1>1, <1>2, <1>3, <1>4, <1>5, <1>6 DEF AppStep

\* Nothing is in flight on a connection that is gone.
LEMMA UnackedDisconnect ==
  ASSUME Disconnected
  PROVE  UnackedIsInFlight'
BY CountEmpty DEF Disconnected, UnackedIsInFlight, Count

\* A new connection starts from zero, whatever the old one still owed.
LEMMA UnackedLinkStep ==
  ASSUME Types, UnackedIsInFlight, LinkStep
  PROVE  UnackedIsInFlight'
<1> USE DEF client, auth, link, server, repo, used
<1>0. ASSUME UNCHANGED <<up, down, unacked>>
      PROVE  UnackedIsInFlight'
  BY <1>0 DEF UnackedIsInFlight
<1>1. ASSUME NEW reasons, OnDisconnect(reasons, force)
      PROVE  UnackedIsInFlight'
  BY <1>1, DisconnectType, UnackedDisconnect DEF Types, TypeOK
<1>2. ASSUME NEW reason, Interrupt(reason)
      PROVE  UnackedIsInFlight'
  BY <1>0, <1>1, <1>2 DEF Interrupt
<1>3. ASSUME OnReady
      PROVE  UnackedIsInFlight'
  <2>1. CASE RestoreState /\ UNCHANGED down
    <3>1. Count(up', "listen") = Count(up, "listen") + Cardinality(Active)
      BY <2>1, RestoreCount
    <3>2. unacked' = unacked + Cardinality(Active) /\ Cardinality(Active) \in Nat
      BY <2>1, RestoreShape
    <3>3. /\ Count(up, "listen") \in Nat /\ Count(down, "listen") \in Nat
          /\ unacked \in Nat
      BY CountType DEF Types, TypeOK
    <3>. QED
      BY <2>1, <3>1, <3>2, <3>3 DEF UnackedIsInFlight, Count
  <2>2. CASE /\ authToken # None
             /\ up' = Append(up, AuthReq(authToken, TRUE))
             /\ UNCHANGED <<unacked, down>>
    <3>1. /\ AuthReq(authToken, TRUE) \in Request
          /\ AuthReq(authToken, TRUE).kind # "listen"
      BY <2>2, ReqType DEF Req, AuthReq, Types, TypeOK
    <3>. QED
      BY <2>2, <3>1, UnackedSend
  <2>. QED
    BY <1>3, <2>1, <2>2 DEF OnReady
<1>4. ASSUME UNCHANGED <<up, down, unacked>>
             \/ (\E reason : Interrupt(reason))
             \/ OnReady
             \/ OnDisconnect(interrupts, force)
      PROVE  UnackedIsInFlight'
  BY <1>0, <1>1, <1>2, <1>3, <1>4
<1>. QED
  BY <1>4 DEF LinkStep, InterruptForReason, ResumeForReason, RetryFires,
     TokenFetched, TokenFetchFailed, OnConnect, ConnectionLost, OnKill, Wake

\* An answer is counted down when it is taken, and restoreState counts what it
\* sends.
LEMMA UnackedMessageStep ==
  ASSUME Types, UnackedIsInFlight, MessageStep
  PROVE  UnackedIsInFlight'
<1> USE DEF client, auth, link, server, repo, used
<1>1. down # <<>>
  BY DEF MessageStep, Deliver, AuthResponse, AuthRevoked, ListenResponse,
     PutResponse, OnDisconnectResponse, ListenRevoked, Receive
<1>2. /\ Count(up, "listen") \in Nat /\ Count(down, "listen") \in Nat
      /\ Count(Tail(down), "listen") \in Nat
      /\ unacked \in Nat
      /\ Count(down, "listen") = Count(Tail(down), "listen")
             + (IF Head(down).kind = "listen" THEN 1 ELSE 0)
  <2>1. up \in Seq(Request) /\ down \in Seq(Response) /\ unacked \in Nat
    BY DEF Types, TypeOK
  <2>2. Tail(down) \in Seq(Response)
    BY <1>1, <2>1
  <2>. QED
    BY <1>1, <2>1, <2>2, CountType, CountTail
<1>3. ASSUME TokenRejected
      PROVE  UnackedIsInFlight'
  BY <1>3, DisconnectType, UnackedDisconnect DEF TokenRejected
<1>4. ASSUME Head(down).kind # "listen", down' = Tail(down),
             UNCHANGED <<up, unacked>>
      PROVE  UnackedIsInFlight'
  BY <1>2, <1>4 DEF UnackedIsInFlight, Count
<1>5. ASSUME Head(down).kind # "listen", down' = Tail(down), RestoreState
      PROVE  UnackedIsInFlight'
  <2>1. Count(up', "listen") = Count(up, "listen") + Cardinality(Active)
    BY <1>5, RestoreCount
  <2>2. unacked' = unacked + Cardinality(Active) /\ Cardinality(Active) \in Nat
    BY <1>5, RestoreShape
  <2>. QED
    BY <1>2, <1>5, <2>1, <2>2 DEF UnackedIsInFlight, Count
<1>6. ASSUME ListenResponse
      PROVE  UnackedIsInFlight'
  <2>1. /\ Head(down).kind = "listen" /\ down' = Tail(down)
        /\ unacked' = unacked - 1 /\ up' = up
    BY <1>6 DEF ListenResponse, Receive
  <2>. QED
    BY <1>2, <2>1 DEF UnackedIsInFlight, Count
<1>7. ASSUME AuthResponse
      PROVE  UnackedIsInFlight'
  <2>1. Head(down).kind # "listen"
    BY <1>7 DEF AuthResponse, Receive
  <2>2. \/ TokenRejected
        \/ down' = Tail(down) /\ (RestoreState \/ UNCHANGED <<up, unacked>>)
    BY <1>7 DEF AuthResponse
  <2>. QED
    BY <1>3, <1>4, <1>5, <2>1, <2>2
<1>8. ASSUME PutResponse \/ OnDisconnectResponse \/ ListenRevoked
      PROVE  UnackedIsInFlight'
  <2>1. /\ Head(down).kind # "listen"
        /\ down' = Tail(down) /\ UNCHANGED <<up, unacked>>
    BY <1>8 DEF PutResponse, OnDisconnectResponse, ListenRevoked, Receive,
       PutKinds
  <2>. QED
    BY <1>4, <2>1
<1>. QED
  BY <1>3, <1>6, <1>7, <1>8 DEF MessageStep, Deliver, AuthRevoked

\* The server turns a listen in flight into an answer in flight.
LEMMA UnackedServerStep ==
  ASSUME Types, UnackedIsInFlight, ServerStep
  PROVE  UnackedIsInFlight'
<1> USE DEF client, auth, link, server, repo, used
<1>0. up \in Seq(Request) /\ down \in Seq(Response) /\ unacked \in Nat
  BY DEF Types, TypeOK
<1>1. Count(up, "listen") \in Nat /\ Count(down, "listen") \in Nat
  BY <1>0, CountType
<1>2. ASSUME up # <<>>
      PROVE  /\ Head(up) \in Request
             /\ Count(Tail(up), "listen") \in Nat
             /\ Count(up, "listen") = Count(Tail(up), "listen")
                    + (IF Head(up).kind = "listen" THEN 1 ELSE 0)
  <2>1. Tail(up) \in Seq(Request)
    BY <1>0, <1>2
  <2>2. Head(up) \in Request
    BY <1>0, <1>2
  <2>. QED
    BY <1>0, <1>2, <2>1, <2>2, CountType, CountTail
<1>3. ASSUME NEW status \in Status, up # <<>>, up' = Tail(up),
             Head(up).kind \in {"auth", "listen", "put", "hashPut", "od"},
             down' = Append(down, Answer(Head(up), status)), unacked' = unacked
      PROVE  UnackedIsInFlight'
  <2>1. Answer(Head(up), status) \in Response
        /\ Answer(Head(up), status).kind = Head(up).kind
    BY <1>2, <1>3, AnswerType DEF Answer
  <2>2. Count(down', "listen") = Count(down, "listen")
            + (IF Head(up).kind = "listen" THEN 1 ELSE 0)
    BY <1>0, <1>3, <2>1, CountAppend
  <2>. QED
    BY <1>1, <1>2, <1>3, <2>2 DEF UnackedIsInFlight, Count
<1>4. ASSUME up # <<>>, up' = Tail(up), Head(up).kind # "listen",
             UNCHANGED <<down, unacked>>
      PROVE  UnackedIsInFlight'
  BY <1>1, <1>2, <1>4 DEF UnackedIsInFlight, Count
<1>5. ASSUME NEW m \in Response, m.kind # "listen", down' = Append(down, m),
             UNCHANGED <<up, unacked>>
      PROVE  UnackedIsInFlight'
  <2>1. Count(down', "listen") = Count(down, "listen")
    BY <1>0, <1>1, <1>5, CountAppend
  <2>. QED
    BY <1>1, <1>5, <2>1 DEF UnackedIsInFlight, Count
<1>6. {"ok", "error", "expired_token", "permission_denied"} \subseteq Status
  BY DEF Status
<1>7. ASSUME ServerAuth PROVE UnackedIsInFlight'
  BY <1>3, <1>6, <1>7 DEF ServerAuth
<1>8. ASSUME ServerListen PROVE UnackedIsInFlight'
  BY <1>3, <1>6, <1>8 DEF ServerListen
<1>9. ASSUME NEW status \in {"ok", "error"}, ServerPut(status)
      PROVE  UnackedIsInFlight'
  BY <1>3, <1>6, <1>9 DEF ServerPut, PutKinds
<1>10. ASSUME ServerOther PROVE UnackedIsInFlight'
  BY <1>3, <1>4, <1>6, <1>10 DEF ServerOther
<1>11. ASSUME ServerRevokesAuth PROVE UnackedIsInFlight'
  <2>1. /\ Answer(Req("authRevoked", 0, None), "expired_token") \in Response
        /\ Answer(Req("authRevoked", 0, None), "expired_token").kind # "listen"
    BY <1>6, NoneAssumption DEF Answer, Req, Response
  <2>. QED
    BY <1>5, <1>11, <2>1 DEF ServerRevokesAuth, UnackedIsInFlight
<1>12. ASSUME NEW q \in Query, ServerRevokesListen(q) PROVE UnackedIsInFlight'
  <2>1. /\ Answer(Req("listenRevoked", 0, q), "permission_denied") \in Response
        /\ Answer(Req("listenRevoked", 0, q), "permission_denied").kind
               # "listen"
    BY <1>6, NoneAssumption DEF Answer, Req, Response
  <2>. QED
    BY <1>5, <1>12, <2>1 DEF ServerRevokesListen, UnackedIsInFlight
<1>. QED
  BY <1>7, <1>8, <1>9, <1>10, <1>11, <1>12 DEF ServerStep, Server

-----------------------------------------------------------------------------
(* Completions.                                                            *)

Distinct(s) == \A i, j \in DOMAIN s : s[i].id = s[j].id => i = j

\* A write is outstanding, or answered but held back, or completed, and only
\* one of these; the numbers given out so far are at most the count.
CompletionInv ==
    /\ \A p, r \in puts : p.id = r.id => p = r
    /\ Distinct(putsToAck)
    /\ Distinct(done)
    /\ AnsweredIds(putsToAck) \cap PutIds(puts) = {}
    /\ AnsweredIds(done) \cap PutIds(puts) = {}
    /\ AnsweredIds(done) \cap AnsweredIds(putsToAck) = {}
    /\ \A n \in PutIds(puts) \cup AnsweredIds(putsToAck) \cup AnsweredIds(done) :
           n <= count["put"]

\* Two batches about different writes report every write once.
LEMMA DistinctConcat ==
  ASSUME NEW s \in Seq(Answered), NEW t \in Seq(Answered)
  PROVE  /\ AnsweredIds(s \o t) = AnsweredIds(s) \cup AnsweredIds(t)
         /\ Distinct(s) /\ Distinct(t) /\ AnsweredIds(s) \cap AnsweredIds(t) = {}
                => Distinct(s \o t)
<1> DEFINE u == s \o t
<1>1. /\ Len(s) \in Nat /\ DOMAIN s = 1..Len(s)
      /\ Len(t) \in Nat /\ DOMAIN t = 1..Len(t)
      /\ DOMAIN u = 1..(Len(s) + Len(t))
      /\ \A i \in 1..Len(s) : u[i] = s[i]
      /\ \A i \in 1..Len(t) : u[i + Len(s)] = t[i]
  OBVIOUS
<1> HIDE DEF u
<1>2. ASSUME NEW i \in DOMAIN u
      PROVE  \/ i \in DOMAIN s /\ u[i] = s[i]
             \/ i - Len(s) \in DOMAIN t /\ u[i] = t[i - Len(s)]
  <2>1. CASE i <= Len(s)
    BY <1>1, <2>1
  <2>2. CASE i > Len(s)
    <3>1. i - Len(s) \in 1..Len(t) /\ (i - Len(s)) + Len(s) = i
      BY <1>1, <2>2
    <3>. QED
      BY <1>1, <3>1
  <2>. QED
    BY <1>1, <2>1, <2>2
<1>3. AnsweredIds(u) = AnsweredIds(s) \cup AnsweredIds(t)
  <2>1. AnsweredIds(u) \subseteq AnsweredIds(s) \cup AnsweredIds(t)
    BY <1>2 DEF AnsweredIds
  <2>2. AnsweredIds(s) \subseteq AnsweredIds(u)
    BY <1>1 DEF AnsweredIds
  <2>3. AnsweredIds(t) \subseteq AnsweredIds(u)
    <3> SUFFICES ASSUME NEW i \in 1..Len(t)
                 PROVE  t[i].id \in AnsweredIds(u)
      BY <1>1 DEF AnsweredIds
    <3>1. i + Len(s) \in DOMAIN u /\ u[i + Len(s)] = t[i]
      BY <1>1
    <3>. QED
      BY <3>1 DEF AnsweredIds
  <2>. QED
    BY <2>1, <2>2, <2>3
<1>4. ASSUME Distinct(s), Distinct(t), AnsweredIds(s) \cap AnsweredIds(t) = {},
             NEW i \in DOMAIN u, NEW j \in DOMAIN u, u[i].id = u[j].id
      PROVE  i = j
  <2>0. i \in Int /\ j \in Int
    BY <1>1
  <2>1. CASE i \in DOMAIN s /\ u[i] = s[i] /\ j \in DOMAIN s /\ u[j] = s[j]
    BY <1>4, <2>1 DEF Distinct
  <2>2. CASE /\ i - Len(s) \in DOMAIN t /\ u[i] = t[i - Len(s)]
             /\ j - Len(s) \in DOMAIN t /\ u[j] = t[j - Len(s)]
    <3>1. i - Len(s) = j - Len(s)
      BY <1>4, <2>2 DEF Distinct
    <3>. QED
      BY <1>1, <2>0, <3>1
  <2>3. CASE /\ i \in DOMAIN s /\ u[i] = s[i]
             /\ j - Len(s) \in DOMAIN t /\ u[j] = t[j - Len(s)]
    BY <1>4, <2>3 DEF AnsweredIds
  <2>4. CASE /\ j \in DOMAIN s /\ u[j] = s[j]
             /\ i - Len(s) \in DOMAIN t /\ u[i] = t[i - Len(s)]
    BY <1>4, <2>4 DEF AnsweredIds
  <2>. QED
    BY <1>2, <2>1, <2>2, <2>3, <2>4
<1>. QED
  BY <1>3, <1>4 DEF Distinct, u

\* A batch reports every one of its puts once.
LEMMA BatchDistinct ==
  ASSUME NEW S \in SUBSET puts, NEW batch, BatchOf(batch, S), CompletionInv
  PROVE  Distinct(batch) /\ AnsweredIds(batch) \subseteq PutIds(S)
<1>1. DOMAIN batch = 1..Len(batch)
  BY DEF BatchOf
<1>2. Distinct(batch)
  BY <1>1 DEF BatchOf, Distinct, CompletionInv
<1>3. AnsweredIds(batch) \subseteq PutIds(S)
  BY <1>1 DEF BatchOf, AnsweredIds, PutIds
<1>. QED
  BY <1>2, <1>3

\* Completing writes that were outstanding or held back, and are so no more
LEMMA CompletionMove ==
  ASSUME TypeOK, CompletionInv, NEW batch \in Seq(Answered), Distinct(batch),
         AnsweredIds(batch) \subseteq PutIds(puts) \cup AnsweredIds(putsToAck),
         done' = done \o batch,
         puts' \subseteq puts,
         putsToAck' \in {putsToAck, <<>>},
         AnsweredIds(batch) \cap PutIds(puts') = {},
         AnsweredIds(batch) \cap AnsweredIds(putsToAck') = {},
         count'["put"] = count["put"]
  PROVE  CompletionInv'
<1>1. AnsweredIds(<<>>) = {} /\ Distinct(<<>>)
  BY DEF AnsweredIds, Distinct
<1>2. AnsweredIds(putsToAck') \subseteq AnsweredIds(putsToAck)
      /\ Distinct(putsToAck')
  BY <1>1 DEF CompletionInv
<1>3. PutIds(puts') \subseteq PutIds(puts)
  BY DEF PutIds
<1>4. AnsweredIds(done) \cap AnsweredIds(batch) = {}
  BY DEF CompletionInv
<1>5. /\ AnsweredIds(done') = AnsweredIds(done) \cup AnsweredIds(batch)
      /\ Distinct(done')
  BY <1>4, DistinctConcat DEF CompletionInv, TypeOK
<1>. QED
  BY <1>2, <1>3, <1>5 DEF CompletionInv

\* Steps that leave the writes alone
LEMMA CompletionSame ==
  ASSUME CompletionInv, UNCHANGED <<puts, putsToAck, done>>,
         count'["put"] = count["put"]
  PROVE  CompletionInv'
BY DEF CompletionInv

\* A lost connection completes the transactions it gives up, once.
LEMMA CompletionDisconnect ==
  ASSUME Types, CompletionInv, NEW reasons, NEW refresh,
         OnDisconnect(reasons, refresh), count'["put"] = count["put"]
  PROVE  CompletionInv'
<1>1. CancelSentTransactions /\ putsToAck' = putsToAck
  BY DEF OnDisconnect
<1>2. PICK batch \in Seq(Answered) :
          BatchOf(batch, SentTransactions) /\ Complete(batch, writes)
  BY <1>1, CancelShape
<1>3. puts' = puts \ SentTransactions
  BY <1>1, CancelShape
<1>4. Distinct(batch) /\ AnsweredIds(batch) \subseteq PutIds(SentTransactions)
  BY <1>2, BatchDistinct DEF SentTransactions
<1>5. PutIds(SentTransactions) \subseteq PutIds(puts)
      /\ PutIds(SentTransactions) \cap PutIds(puts') = {}
  BY <1>3 DEF PutIds, SentTransactions, CompletionInv
<1>6. done' = done \o batch
  BY <1>2 DEF Complete
<1>7. AnsweredIds(batch) \cap AnsweredIds(putsToAck') = {}
  BY <1>1, <1>4, <1>5 DEF CompletionInv
<1>. QED
  BY <1>1, <1>3, <1>4, <1>5, <1>6, <1>7, CompletionMove DEF Types

\* Sending the writes again completes none of them.
LEMMA CompletionRestore ==
  ASSUME Types, CompletionInv, RestoreState, UNCHANGED <<putsToAck, done>>,
         count'["put"] = count["put"]
  PROVE  CompletionInv'
<1>1. puts' = {[p EXCEPT !.sent = TRUE] : p \in puts}
  BY RestoreShape
<1>2. \A p \in puts : [p EXCEPT !.sent = TRUE].id = p.id
  BY DEF Types, TypeOK, Put
<1>3. PutIds(puts') = PutIds(puts)
  BY <1>1, <1>2 DEF PutIds
<1>4. ASSUME NEW p \in puts', NEW r \in puts', p.id = r.id
      PROVE  p = r
  <2>1. PICK p0 \in puts : p = [p0 EXCEPT !.sent = TRUE]
    BY <1>1
  <2>2. PICK r0 \in puts : r = [r0 EXCEPT !.sent = TRUE]
    BY <1>1
  <2>3. p0.id = r0.id
    BY <1>2, <1>4, <2>1, <2>2
  <2>. QED
    BY <2>1, <2>2, <2>3 DEF CompletionInv
<1>. QED
  BY <1>3, <1>4 DEF CompletionInv

\* Only making a write uses up a number.
LEMMA CountStays ==
  ASSUME TypeOK, Next, ~(\E hash \in BOOLEAN : PutData(hash))
  PROVE  count'["put"] = count["put"]
<1>1. ASSUME NEW e \in Event, e # "put", Happens(e)
      PROVE  count'["put"] = count["put"]
  BY <1>1, HappensType DEF Event
<1>2. {"listen", "onDisconnect", "interrupt", "drop", "shutdown", "wake",
       "purge", "fetchError", "tokenChange", "revokeAuth", "revokeListen",
       "refuse"} \subseteq Event
  BY DEF Event
<1> USE DEF used
<1>3. AppStep \/ LinkStep \/ MessageStep \/ ServerStep
  BY NextCases
<1>4. CASE AppStep
  BY <1>1, <1>2, <1>4 DEF AppStep, Listen, Unlisten, OnDisconnectOperation,
     PurgeOutstandingWrites, RefreshAuthToken
<1>5. CASE LinkStep
  BY <1>1, <1>2, <1>5 DEF LinkStep, InterruptForReason, ResumeForReason,
     RetryFires, TokenFetched, TokenFetchFailed, OnReady, OnConnect,
     ConnectionLost, OnKill, Wake
<1>6. CASE MessageStep
  BY <1>6 DEF MessageStep, Deliver, AuthResponse, AuthRevoked, ListenResponse,
     PutResponse, OnDisconnectResponse, ListenRevoked
<1>7. CASE ServerStep
  BY <1>1, <1>2, <1>7 DEF ServerStep, Server, ServerAuth, ServerListen,
     ServerPut, ServerOther, ServerRevokesAuth, ServerRevokesListen
<1>. QED
  BY <1>3, <1>4, <1>5, <1>6, <1>7

\* No write has been made.
LEMMA CompletionInit ==
  ASSUME Init
  PROVE  CompletionInv
BY DEF Init, CompletionInv, Distinct, AnsweredIds, PutIds

\* A new write has a number no other has had.
LEMMA CompletionPutData ==
  ASSUME Types, CompletionInv, NEW hash \in BOOLEAN, PutData(hash)
  PROVE  CompletionInv'
<1> DEFINE put == [id |-> count'["put"], hash |-> hash, sent |-> CanWrite]
<1>1. /\ puts' = puts \cup {put}
      /\ UNCHANGED <<putsToAck, done>>
  BY DEF PutData
<1>2. put.id = count["put"] + 1 /\ count["put"] \in Nat /\ put.id = count'["put"]
  <2>1. "put" \in Event
    BY DEF Event
  <2>. QED
    BY <2>1, HappensType DEF PutData, Types, TypeOK
<1> HIDE DEF put
<1>3. PutIds(puts') = PutIds(puts) \cup {put.id}
  BY <1>1 DEF PutIds
<1>4. /\ PutIds(puts) \in SUBSET Nat /\ AnsweredIds(putsToAck) \in SUBSET Nat
      /\ AnsweredIds(done) \in SUBSET Nat
  <2>1. PutIds(puts) \in SUBSET Nat
    BY DEF PutIds, Types, TypeOK, Put
  <2>2. \A s \in Seq(Answered) : AnsweredIds(s) \in SUBSET Nat
    <3> SUFFICES ASSUME NEW s \in Seq(Answered), NEW i \in DOMAIN s
                 PROVE  s[i].id \in Nat
      BY DEF AnsweredIds
    <3>1. s[i] \in Answered
      OBVIOUS
    <3>. QED
      BY <3>1 DEF Answered
  <2>. QED
    BY <2>1, <2>2 DEF Types, TypeOK
<1>5. put.id \notin PutIds(puts) \cup AnsweredIds(putsToAck)
                       \cup AnsweredIds(done)
  BY <1>2 DEF CompletionInv
<1>6. \A n \in PutIds(puts') \cup AnsweredIds(putsToAck') \cup AnsweredIds(done') :
          n <= count'["put"]
  <2>1. \A n \in PutIds(puts) \cup AnsweredIds(putsToAck) \cup AnsweredIds(done) :
            n <= count["put"] + 1
    BY <1>2, <1>4 DEF CompletionInv
  <2>. QED
    BY <1>1, <1>2, <1>3, <2>1
<1>7. \A p, r \in puts' : p.id = r.id => p = r
  BY <1>1, <1>5 DEF CompletionInv, PutIds
<1>8. /\ Distinct(putsToAck') /\ Distinct(done')
      /\ AnsweredIds(putsToAck') \cap PutIds(puts') = {}
      /\ AnsweredIds(done') \cap PutIds(puts') = {}
      /\ AnsweredIds(done') \cap AnsweredIds(putsToAck') = {}
  BY <1>1, <1>3, <1>5 DEF CompletionInv
<1>. QED
  BY <1>6, <1>7, <1>8 DEF CompletionInv

\* Every step moves a write from outstanding to held back or completed, or from
\* held back to completed, and never back.
LEMMA CompletionStep ==
  ASSUME Types, CompletionInv, Next
  PROVE  CompletionInv'
<1> USE DEF client, auth, link, server, repo, used
<1>1. CASE \E hash \in BOOLEAN : PutData(hash)
  BY <1>1, CompletionPutData
<1>2. ASSUME ~(\E hash \in BOOLEAN : PutData(hash))
      PROVE  CompletionInv'
  <2>1. count'["put"] = count["put"]
    BY <1>2, CountStays DEF Types
  <2>2. CASE UNCHANGED <<puts, putsToAck, done>>
    BY <2>1, <2>2, CompletionSame
  <2>3. CASE \E reasons, refresh : OnDisconnect(reasons, refresh)
    BY <2>1, <2>3, CompletionDisconnect
  <2>4. CASE RestoreState /\ UNCHANGED <<putsToAck, done>>
    BY <2>1, <2>4, CompletionRestore
  <2>5. CASE PurgeOutstandingWrites
    <3>1. PICK keys \in Orders(puts) :
             Complete(putsToAck \o Report(keys, "write_canceled"), {})
      BY <2>5 DEF PurgeOutstandingWrites
    <3> DEFINE batch == Report(keys, "write_canceled")
               all == putsToAck \o batch
    <3>2. BatchOf(batch, puts)
      <4>1. "write_canceled" \in Status
        BY DEF Status
      <4>. QED
        BY <4>1, BatchShape DEF Types, TypeOK
    <3>3. done' = done \o all
      BY <3>1 DEF Complete
    <3> HIDE DEF batch
    <3>4. batch \in Seq(Answered) /\ putsToAck \in Seq(Answered)
      BY <3>2 DEF BatchOf, Types, TypeOK
    <3>5. Distinct(batch) /\ AnsweredIds(batch) \subseteq PutIds(puts)
      BY <3>2, BatchDistinct
    <3>6. /\ all \in Seq(Answered) /\ Distinct(all)
          /\ AnsweredIds(all) \subseteq PutIds(puts) \cup AnsweredIds(putsToAck)
      BY <3>4, <3>5, DistinctConcat DEF CompletionInv
    <3>7. /\ puts' = {} /\ PutIds(puts') = {}
          /\ putsToAck' = <<>> /\ AnsweredIds(putsToAck') = {}
      BY <2>5 DEF PurgeOutstandingWrites, PutIds, AnsweredIds
    <3> HIDE DEF all
    <3>. QED
      BY <2>1, <3>3, <3>6, <3>7, CompletionMove DEF Types
  <2>6. CASE ListenResponse
    <3>1. CASE AckPuts
      <4>1. /\ done' = done \o putsToAck /\ putsToAck' = <<>>
            /\ AnsweredIds(putsToAck') = {}
            /\ puts' = puts
        BY <2>6, <3>1 DEF ListenResponse, AckPuts, Complete, AnsweredIds
      <4>2. putsToAck \in Seq(Answered) /\ Distinct(putsToAck)
            /\ AnsweredIds(putsToAck) \cap PutIds(puts) = {}
        BY DEF Types, TypeOK, CompletionInv
      <4>. QED
        BY <2>1, <4>1, <4>2, CompletionMove DEF Types
    <3>2. CASE UNCHANGED <<putsToAck, done>>
      BY <2>2, <2>6, <3>2 DEF ListenResponse
    <3>. QED
      BY <2>6, <3>1, <3>2 DEF ListenResponse, Hold
  <2>7. CASE PutResponse
    <3> DEFINE n == Head(down).n
               answer == <<[id |-> n, status |-> Head(down).status]>>
    <3>1. puts' = {p \in puts : p.id # n}
      BY <2>7 DEF PutResponse
    <3>2. Head(down) \in Response
      BY <2>7, QueueTypes DEF PutResponse, Receive, Types
    <3>3. answer \in Seq(Answered) /\ AnsweredIds(answer) = {n}
          /\ Distinct(answer)
      BY <3>2 DEF AnsweredIds, Distinct, Answered, Response
    <3>4. PutIds(puts') \subseteq PutIds(puts) /\ n \notin PutIds(puts')
      BY <3>1 DEF PutIds
    <3>5. \/ n \in PutIds(puts) /\ done' = done \o answer /\ putsToAck' = putsToAck
          \/ n \in PutIds(puts) /\ putsToAck' = putsToAck \o answer /\ done' = done
          \/ UNCHANGED <<putsToAck, done>>
      BY <2>7 DEF PutResponse, Complete, Hold
    <3> HIDE DEF answer, n
    <3>6. CASE n \in PutIds(puts) /\ done' = done \o answer
               /\ putsToAck' = putsToAck
      <4>1. AnsweredIds(answer) \cap AnsweredIds(putsToAck') = {}
        BY <3>3, <3>6 DEF CompletionInv
      <4>. QED
        BY <2>1, <3>1, <3>3, <3>4, <3>6, <4>1, CompletionMove DEF Types
    <3>7. CASE n \in PutIds(puts) /\ putsToAck' = putsToAck \o answer
               /\ done' = done
      <4>1. AnsweredIds(putsToAck) \cap AnsweredIds(answer) = {}
        BY <3>3, <3>7 DEF CompletionInv
      <4>2. /\ AnsweredIds(putsToAck') = AnsweredIds(putsToAck) \cup {n}
            /\ Distinct(putsToAck')
        BY <3>3, <3>7, <4>1, DistinctConcat DEF CompletionInv, Types, TypeOK
      <4>3. \A p, r \in puts' : p.id = r.id => p = r
        BY <3>1 DEF CompletionInv
      <4>. QED
        BY <2>1, <3>4, <3>7, <4>2, <4>3 DEF CompletionInv
    <3>8. CASE UNCHANGED <<putsToAck, done>>
      <4>1. \A p, r \in puts' : p.id = r.id => p = r
        BY <3>1 DEF CompletionInv
      <4>. QED
        BY <2>1, <3>4, <3>8, <4>1 DEF CompletionInv
    <3>. QED
      BY <3>5, <3>6, <3>7, <3>8
  <2>8. AppStep \/ LinkStep \/ MessageStep \/ ServerStep
    BY NextCases
  <2>9. CASE AppStep
    BY <1>2, <2>2, <2>5, <2>9 DEF AppStep, Listen, Unlisten,
       OnDisconnectOperation, RefreshAuthToken
  <2>10. ASSUME NEW reason, Interrupt(reason)
         PROVE  CompletionInv'
    BY <2>2, <2>3, <2>10 DEF Interrupt, Hold
  <2>11. CASE OnReady
    BY <2>2, <2>4, <2>11 DEF OnReady
  <2>12. CASE LinkStep
    BY <2>2, <2>3, <2>10, <2>11, <2>12 DEF LinkStep, InterruptForReason,
       ResumeForReason, RetryFires, TokenFetched, TokenFetchFailed, OnConnect,
       ConnectionLost, OnKill, Wake
  <2>13. CASE AuthResponse
    BY <2>2, <2>3, <2>4, <2>13 DEF AuthResponse, TokenRejected
  <2>14. CASE MessageStep
    BY <2>2, <2>3, <2>6, <2>7, <2>13, <2>14 DEF MessageStep, Deliver,
       AuthRevoked, TokenRejected, OnDisconnectResponse, ListenRevoked
  <2>15. CASE ServerStep
    BY <2>2, <2>15 DEF ServerStep, Server, ServerAuth, ServerListen, ServerPut,
       ServerOther, ServerRevokesAuth, ServerRevokesListen
  <2>. QED
    BY <2>8, <2>9, <2>12, <2>14, <2>15
<1>. QED
  BY <1>1, <1>2

-----------------------------------------------------------------------------
(* The authentication that restores the state.                             *)

Plain(s)  == \A i \in DOMAIN s : ~s[i].restore
NoAuth(s) == \A i \in DOMAIN s : s[i].kind # "auth"
\* The first authentication in s, and no later one, restores the state.
RestoresAt(s, i) ==
    /\ i \in DOMAIN s /\ s[i].kind = "auth" /\ s[i].restore
    /\ \A j \in DOMAIN s : /\ j < i => s[j].kind # "auth"
                           /\ j > i => ~s[j].restore

OnlyAuthRestores(s) == \A i \in DOMAIN s : s[i].restore => s[i].kind = "auth"

\* While the client authenticates, the next answer about a token is the one
\* that restores the state; afterwards none does.
AuthInv ==
    /\ OnlyAuthRestores(up) /\ OnlyAuthRestores(down)
    /\ state # "authenticating" => Plain(up) /\ Plain(down)
    /\ state = "authenticating" =>
           \/ Plain(up) /\ \E i \in DOMAIN down : RestoresAt(down, i)
           \/ NoAuth(down) /\ \E i \in DOMAIN up : RestoresAt(up, i)

\* What appending and removing do to the property
LEMMA RestoresAppend ==
  ASSUME NEW S, NEW s \in Seq(S), NEW m \in S
  PROVE  /\ Plain(s) /\ ~m.restore => Plain(Append(s, m))
         /\ NoAuth(s) /\ m.kind # "auth" => NoAuth(Append(s, m))
         /\ \A i \in DOMAIN s : RestoresAt(s, i) /\ ~m.restore
                => RestoresAt(Append(s, m), i) /\ i \in DOMAIN Append(s, m)
         /\ NoAuth(s) /\ m.kind = "auth" /\ m.restore
                => RestoresAt(Append(s, m), Len(s) + 1)
                   /\ Len(s) + 1 \in DOMAIN Append(s, m)
<1> DEFINE t == Append(s, m)
<1>1. /\ DOMAIN t = DOMAIN s \cup {Len(s) + 1}
      /\ \A i \in DOMAIN s : t[i] = s[i] /\ i <= Len(s) /\ i \in Nat
      /\ t[Len(s) + 1] = m
      /\ Len(s) \in Nat
  BY AppendElements
<1> HIDE DEF t
<1>2. /\ Plain(s) /\ ~m.restore => Plain(t)
      /\ NoAuth(s) /\ m.kind # "auth" => NoAuth(t)
  BY <1>1 DEF Plain, NoAuth
<1>3. ASSUME NEW i \in DOMAIN s, RestoresAt(s, i), ~m.restore
      PROVE  RestoresAt(t, i) /\ i \in DOMAIN t
  BY <1>1, <1>3 DEF RestoresAt
<1>4. NoAuth(s) /\ m.kind = "auth" /\ m.restore
          => RestoresAt(t, Len(s) + 1) /\ Len(s) + 1 \in DOMAIN t
  BY <1>1 DEF RestoresAt, NoAuth
<1>. QED
  BY <1>2, <1>3, <1>4 DEF t

\* What is left in front of and behind the restoring message when the first
\* message is taken
LEMMA RestoresTail ==
  ASSUME NEW S, NEW s \in Seq(S), s # <<>>
  PROVE  /\ Plain(s) => Plain(Tail(s)) /\ ~Head(s).restore
         /\ NoAuth(s) => NoAuth(Tail(s)) /\ Head(s).kind # "auth"
         /\ \A i \in DOMAIN s : RestoresAt(s, i) /\ Head(s).kind # "auth"
                => RestoresAt(Tail(s), i - 1) /\ i - 1 \in DOMAIN Tail(s)
         /\ \A i \in DOMAIN s : RestoresAt(s, i) /\ Head(s).kind = "auth"
                => Head(s).restore /\ Plain(Tail(s))
<1> DEFINE t == Tail(s)
<1>1. /\ \A i \in DOMAIN t : /\ i + 1 \in DOMAIN s
                             /\ t[i] = s[i + 1]
                             /\ i \in Nat /\ i >= 1
      /\ \A i \in DOMAIN s : i \in Nat /\ i >= 1 /\ (i # 1 => i - 1 \in DOMAIN t)
      /\ Head(s) = s[1] /\ 1 \in DOMAIN s
  BY TailElements
<1> HIDE DEF t
<1>2. /\ Plain(s) => Plain(t) /\ ~Head(s).restore
      /\ NoAuth(s) => NoAuth(t) /\ Head(s).kind # "auth"
  BY <1>1 DEF Plain, NoAuth
<1>3. ASSUME NEW i \in DOMAIN s, RestoresAt(s, i), Head(s).kind # "auth"
      PROVE  RestoresAt(t, i - 1) /\ i - 1 \in DOMAIN t
  <2>1. i # 1 /\ i \in Nat /\ i >= 1
    BY <1>1, <1>3 DEF RestoresAt
  <2>2. i - 1 \in DOMAIN t /\ t[i - 1] = s[i]
    <3>1. i - 1 \in DOMAIN t
      BY <1>1, <2>1
    <3>2. (i - 1) + 1 = i
      BY <2>1
    <3>. QED
      BY <1>1, <3>1, <3>2
  <2>3. \A j \in DOMAIN t : /\ j < i - 1 => t[j].kind # "auth"
                            /\ j > i - 1 => ~t[j].restore
    <3> SUFFICES ASSUME NEW j \in DOMAIN t
                 PROVE  /\ j < i - 1 => t[j].kind # "auth"
                        /\ j > i - 1 => ~t[j].restore
      OBVIOUS
    <3>1. j + 1 \in DOMAIN s /\ t[j] = s[j + 1] /\ j \in Nat
      BY <1>1
    <3>2. (j < i - 1 => j + 1 < i) /\ (j > i - 1 => j + 1 > i)
      BY <2>1, <3>1
    <3>3. /\ j + 1 < i => s[j + 1].kind # "auth"
          /\ j + 1 > i => ~s[j + 1].restore
      BY <1>3, <3>1 DEF RestoresAt
    <3>. QED
      BY <3>1, <3>2, <3>3
  <2>4. s[i].kind = "auth" /\ s[i].restore
    BY <1>3 DEF RestoresAt
  <2>5. t[i - 1].kind = "auth" /\ t[i - 1].restore
    BY <2>2, <2>4
  <2>. QED
    BY <2>2, <2>3, <2>5 DEF RestoresAt
<1>4. ASSUME NEW i \in DOMAIN s, RestoresAt(s, i), Head(s).kind = "auth"
      PROVE  Head(s).restore /\ Plain(t)
  <2>1. i = 1
    BY <1>1, <1>4 DEF RestoresAt
  <2>. QED
    BY <1>1, <1>4, <2>1 DEF RestoresAt, Plain
<1>. QED
  BY <1>2, <1>3, <1>4 DEF t

\* The elements of what is sent to restore the state, by where they come from
LEMMA RestoredElements ==
  ASSUME NEW ls \in Seq(Request), NEW ps \in Seq(Request),
         NEW os \in Seq(Request), up \in Seq(Request), Restored(ls, ps, os)
  PROVE  /\ \A i \in DOMAIN up' :
                \/ i \in DOMAIN up /\ up'[i] = up[i]
                \/ \E j \in 1..Len(ls) : up'[i] = ls[j]
                \/ \E j \in 1..Len(ps) : /\ up'[i] = ps[j]
                                         /\ i = j + Len(up \o ls)
                \/ \E j \in 1..Len(os) : up'[i] = os[j]
         /\ \A i \in DOMAIN up : /\ i <= Len(up)
                                 /\ i \in DOMAIN up' /\ up'[i] = up[i]
         /\ \A j \in 1..Len(ls) :
                \E i \in DOMAIN up' : up'[i] = ls[j] /\ i > Len(up)
         /\ \A j \in 1..Len(ps) : \E i \in DOMAIN up' : up'[i] = ps[j]
<1> DEFINE a == up \o ls
           b == a \o ps
<1>0. a \in Seq(Request) /\ b \in Seq(Request) /\ up' = b \o os
  BY DEF Restored
<1>1. /\ DOMAIN ls = 1..Len(ls) /\ DOMAIN ps = 1..Len(ps)
      /\ DOMAIN os = 1..Len(os)
      /\ Len(ps) \in Nat /\ Len(a) \in Nat /\ Len(up) \in Nat
      /\ DOMAIN up = 1..Len(up)
      /\ \A i \in DOMAIN b : i \in Int
  BY <1>0
<1>2. /\ \A i \in DOMAIN a :
             \/ i \in DOMAIN up /\ a[i] = up[i]
             \/ i - Len(up) \in DOMAIN ls /\ a[i] = ls[i - Len(up)]
      /\ \A i \in DOMAIN ls : i + Len(up) \in DOMAIN a /\ a[i + Len(up)] = ls[i]
      /\ \A i \in DOMAIN up : i \in DOMAIN a /\ a[i] = up[i]
  BY ConcatElements
<1> HIDE DEF a
<1>3. /\ \A i \in DOMAIN b :
             \/ i \in DOMAIN a /\ b[i] = a[i]
             \/ i - Len(a) \in DOMAIN ps /\ b[i] = ps[i - Len(a)]
      /\ \A i \in DOMAIN a : i \in DOMAIN b /\ b[i] = a[i]
      /\ \A i \in DOMAIN ps : i + Len(a) \in DOMAIN b /\ b[i + Len(a)] = ps[i]
  BY <1>0, ConcatElements
<1> HIDE DEF b
<1>4. /\ \A i \in DOMAIN up' :
             \/ i \in DOMAIN b /\ up'[i] = b[i]
             \/ i - Len(b) \in DOMAIN os /\ up'[i] = os[i - Len(b)]
      /\ \A i \in DOMAIN b : i \in DOMAIN up' /\ up'[i] = b[i]
  BY <1>0, ConcatElements
<1>5. ASSUME NEW i \in DOMAIN up'
      PROVE  \/ i \in DOMAIN up /\ up'[i] = up[i]
             \/ \E j \in 1..Len(ls) : up'[i] = ls[j]
             \/ \E j \in 1..Len(ps) : up'[i] = ps[j] /\ i = j + Len(a)
             \/ \E j \in 1..Len(os) : up'[i] = os[j]
  <2>1. CASE i \in DOMAIN b /\ up'[i] = b[i]
    <3>1. CASE i \in DOMAIN a /\ b[i] = a[i]
      BY <1>1, <1>2, <2>1, <3>1
    <3>2. CASE i - Len(a) \in DOMAIN ps /\ b[i] = ps[i - Len(a)]
      <4>1. i = (i - Len(a)) + Len(a)
        BY <1>1, <2>1
      <4>. QED
        BY <1>1, <2>1, <3>2, <4>1
    <3>. QED
      BY <1>3, <2>1, <3>1, <3>2
  <2>2. CASE i - Len(b) \in DOMAIN os /\ up'[i] = os[i - Len(b)]
    BY <1>1, <2>2
  <2>. QED
    BY <1>4, <2>1, <2>2
<1>6. ASSUME NEW j \in 1..Len(ls)
      PROVE  \E i \in DOMAIN up' : up'[i] = ls[j] /\ i > Len(up)
  <2>1. j + Len(up) > Len(up)
    BY <1>1
  <2>2. j + Len(up) \in DOMAIN up' /\ up'[j + Len(up)] = ls[j]
    BY <1>1, <1>2, <1>3, <1>4
  <2>. QED
    BY <2>1, <2>2
<1>8. \A i \in DOMAIN up : i <= Len(up) /\ i \in DOMAIN up' /\ up'[i] = up[i]
  BY <1>1, <1>2, <1>3, <1>4
<1>7. \A j \in 1..Len(ps) : \E i \in DOMAIN up' : up'[i] = ps[j]
  BY <1>1, <1>3, <1>4
<1>. QED
  BY <1>5, <1>6, <1>7, <1>8 DEF a

-----------------------------------------------------------------------------
(* The steps of the authentication.                                        *)

\* The next answer about a token ends the authentication exactly while the
\* client authenticates.
LEMMA AuthFirst ==
  ASSUME Types, SessionInv, AuthInv, Receive({"auth"})
  PROVE  /\ CanListen
         /\ Head(down).restore <=> state = "authenticating"
         /\ Plain(up) /\ Plain(Tail(down))
<1>1. /\ down # <<>> /\ Head(down).kind = "auth"
      /\ down \in Seq(Response)
  BY DEF Receive, Types, TypeOK
<1>2. CanListen
  BY <1>1 DEF SessionInv, QuietOffline
<1>3. CASE state # "authenticating"
  <2>1. Plain(up) /\ Plain(down)
    BY <1>3 DEF AuthInv
  <2>. QED
    BY <1>1, <1>2, <1>3, <2>1, RestoresTail
<1>4. CASE state = "authenticating"
  <2>1. ~NoAuth(down)
    BY <1>1, RestoresTail
  <2>2. Plain(up) /\ \E i \in DOMAIN down : RestoresAt(down, i)
    BY <1>4, <2>1 DEF AuthInv
  <2>3. Head(down).restore /\ Plain(Tail(down))
    BY <1>1, <2>2, RestoresTail
  <2>. QED
    BY <1>2, <1>4, <2>2, <2>3
<1>. QED
  BY <1>3, <1>4

\* Steps that touch neither the queues nor the authentication
LEMMA AuthKeep ==
  ASSUME AuthInv, UNCHANGED <<up, down>>,
         \/ state' = state
         \/ state # "authenticating" /\ state' # "authenticating"
  PROVE  AuthInv'
BY DEF AuthInv

\* Nothing is on its way when the connection is gone.
LEMMA AuthDisconnect ==
  ASSUME Types, NEW reasons, NEW refresh \in BOOLEAN,
         OnDisconnect(reasons, refresh)
  PROVE  AuthInv'
<1>1. Disconnected
  BY DisconnectType
<1>. QED
  BY <1>1 DEF AuthInv, Disconnected, OnlyAuthRestores, Plain

\* Only authentications restore the state, also after sending or taking.
LEMMA OnlyAuthMoves ==
  ASSUME NEW S, NEW s \in Seq(S), OnlyAuthRestores(s)
  PROVE  /\ \A m \in S : (m.restore => m.kind = "auth")
                             => OnlyAuthRestores(Append(s, m))
         /\ s # <<>> => /\ OnlyAuthRestores(Tail(s))
                        /\ Head(s).restore => Head(s).kind = "auth"
<1>1. ASSUME NEW m \in S, m.restore => m.kind = "auth"
      PROVE  OnlyAuthRestores(Append(s, m))
  <2> DEFINE t == Append(s, m)
  <2>1. /\ DOMAIN t = DOMAIN s \cup {Len(s) + 1}
        /\ \A i \in DOMAIN s : t[i] = s[i]
        /\ t[Len(s) + 1] = m
    BY AppendElements
  <2> HIDE DEF t
  <2>2. OnlyAuthRestores(t)
    BY <1>1, <2>1 DEF OnlyAuthRestores
  <2>. QED
    BY <2>2 DEF t
<1>2. ASSUME s # <<>>
      PROVE  /\ OnlyAuthRestores(Tail(s))
             /\ Head(s).restore => Head(s).kind = "auth"
  <2> DEFINE t == Tail(s)
  <2>1. /\ \A i \in DOMAIN t : i + 1 \in DOMAIN s /\ t[i] = s[i + 1]
        /\ Head(s) = s[1] /\ 1 \in DOMAIN s
    BY <1>2, TailElements
  <2> HIDE DEF t
  <2>2. /\ OnlyAuthRestores(t)
        /\ Head(s).restore => Head(s).kind = "auth"
    BY <2>1 DEF OnlyAuthRestores
  <2>. QED
    BY <2>2 DEF t
<1>. QED
  BY <1>1, <1>2

\* Sending a message that does not restore the state
LEMMA AuthSend ==
  ASSUME Types, AuthInv, NEW m \in Request, ~m.restore,
         up' = Append(up, m), UNCHANGED <<state, down>>
  PROVE  AuthInv'
<1>1. up \in Seq(Request)
  BY DEF Types, TypeOK
<1>2. /\ Plain(up) => Plain(up')
      /\ \A i \in DOMAIN up : RestoresAt(up, i)
             => RestoresAt(up', i) /\ i \in DOMAIN up'
  BY <1>1, RestoresAppend
<1>3. OnlyAuthRestores(up')
  BY <1>1, OnlyAuthMoves DEF AuthInv
<1>. QED
  BY <1>2, <1>3 DEF AuthInv

\* After restoreState no message on its way restores the state again.
LEMMA AuthRestored ==
  ASSUME Types, AuthInv, RestoreState, Plain(up), state' = "connected",
         Plain(down'), OnlyAuthRestores(down')
  PROVE  AuthInv'
<1>1. PICK ls, ps, os \in Seq(Request) : Restored(ls, ps, os)
  BY RestoreShape
<1>2. \A i \in 1..Len(ls) : ~ls[i].restore
  BY <1>1 DEF Restored, Req
<1>3. ASSUME NEW i \in 1..Len(ps) PROVE ~ps[i].restore
  <2>1. PICK p \in puts : ps[i] = PutReq(p)
    BY <1>1, <1>3 DEF Restored
  <2>. QED
    BY <2>1 DEF PutReq, Req
<1>4. ASSUME NEW i \in 1..Len(os) PROVE ~os[i].restore
  <2>1. PICK n \in Nat : os[i] = Req("od", n, None)
    BY <1>1, <1>4 DEF Restored
  <2>. QED
    BY <2>1 DEF Req
<1>5. up \in Seq(Request)
  BY DEF Types, TypeOK
<1>6. Plain(up')
  <2>1. ASSUME NEW i \in DOMAIN up' PROVE ~up'[i].restore
    <3>1. \/ i \in DOMAIN up /\ up'[i] = up[i]
          \/ \E j \in 1..Len(ls) : up'[i] = ls[j]
          \/ \E j \in 1..Len(ps) : up'[i] = ps[j]
          \/ \E j \in 1..Len(os) : up'[i] = os[j]
      BY <1>1, <1>5, RestoredElements
    <3>. QED
      BY <1>2, <1>3, <1>4, <3>1 DEF Plain
  <2>. QED
    BY <2>1 DEF Plain
<1>. QED
  BY <1>6 DEF AuthInv, Plain, OnlyAuthRestores

\* The server takes a message, and answers it or not.
LEMMA AuthServed ==
  ASSUME Types, AuthInv, state' = state, up # <<>>, up' = Tail(up),
         \/ /\ down' = down /\ Head(up).kind # "auth"
         \/ \E m \in Response : /\ down' = Append(down, m)
                                /\ m.kind = Head(up).kind
                                /\ m.restore = Head(up).restore
  PROVE  AuthInv'
<1>1. up \in Seq(Request) /\ down \in Seq(Response)
  BY DEF Types, TypeOK
<1>2. /\ OnlyAuthRestores(up') /\ (Head(up).restore => Head(up).kind = "auth")
      /\ Plain(up) => Plain(up') /\ ~Head(up).restore
      /\ \A i \in DOMAIN up : RestoresAt(up, i) /\ Head(up).kind # "auth"
             => RestoresAt(up', i - 1) /\ i - 1 \in DOMAIN up'
      /\ \A i \in DOMAIN up : RestoresAt(up, i) /\ Head(up).kind = "auth"
             => Head(up).restore /\ Plain(up')
  BY <1>1, OnlyAuthMoves, RestoresTail DEF AuthInv
<1>3. CASE down' = down /\ Head(up).kind # "auth"
  <2>1. CASE \E i \in DOMAIN up : RestoresAt(up, i)
    <3>1. \E i \in DOMAIN up' : RestoresAt(up', i)
      BY <1>2, <1>3, <2>1
    <3>. QED
      BY <1>2, <1>3, <2>1, <3>1 DEF AuthInv
  <2>2. CASE ~\E i \in DOMAIN up : RestoresAt(up, i)
    BY <1>2, <1>3, <2>2 DEF AuthInv
  <2>. QED
    BY <2>1, <2>2
<1>4. ASSUME NEW m \in Response, down' = Append(down, m),
             m.kind = Head(up).kind, m.restore = Head(up).restore
      PROVE  AuthInv'
  <2>1. /\ OnlyAuthRestores(down')
        /\ Plain(down) /\ ~m.restore => Plain(down')
        /\ NoAuth(down) /\ m.kind # "auth" => NoAuth(down')
        /\ \A i \in DOMAIN down : RestoresAt(down, i) /\ ~m.restore
               => RestoresAt(down', i) /\ i \in DOMAIN down'
        /\ NoAuth(down) /\ m.kind = "auth" /\ m.restore
               => \E i \in DOMAIN down' : RestoresAt(down', i)
    <3>1. m.restore => m.kind = "auth"
      BY <1>2, <1>4
    <3>2. OnlyAuthRestores(down')
      BY <1>1, <1>4, <3>1, OnlyAuthMoves DEF AuthInv
    <3>. QED
      BY <1>1, <1>4, <3>2, RestoresAppend
  <2>2. CASE state # "authenticating"
    BY <1>2, <1>4, <2>1, <2>2 DEF AuthInv
  <2>3. CASE Plain(up) /\ \E i \in DOMAIN down : RestoresAt(down, i)
    <3>1. \E i \in DOMAIN down' : RestoresAt(down', i)
      BY <1>2, <1>4, <2>1, <2>3
    <3>. QED
      BY <1>2, <1>4, <2>1, <2>3, <3>1 DEF AuthInv, Plain
  <2>4. CASE NoAuth(down) /\ \E i \in DOMAIN up : RestoresAt(up, i)
    <3>1. CASE Head(up).kind = "auth"
      BY <1>2, <1>4, <2>1, <2>4, <3>1 DEF AuthInv, RestoresAt, Plain
    <3>2. CASE Head(up).kind # "auth"
      <4>1. \E i \in DOMAIN up' : RestoresAt(up', i)
        BY <1>2, <2>4, <3>2
      <4>. QED
        BY <1>2, <1>4, <2>1, <2>4, <3>2, <4>1 DEF AuthInv, RestoresAt, Plain
    <3>. QED
      BY <3>1, <3>2
  <2>. QED
    BY <2>2, <2>3, <2>4 DEF AuthInv
<1>. QED
  BY <1>3, <1>4

\* The server tells the client something it did not ask for.
LEMMA AuthTold ==
  ASSUME Types, AuthInv, UNCHANGED <<state, up>>,
         NEW m \in Response, m.kind # "auth", ~m.restore,
         down' = Append(down, m)
  PROVE  AuthInv'
<1>1. down \in Seq(Response)
  BY DEF Types, TypeOK
<1>2. /\ OnlyAuthRestores(down')
      /\ Plain(down) => Plain(down')
      /\ NoAuth(down) => NoAuth(down')
      /\ \A i \in DOMAIN down : RestoresAt(down, i)
             => RestoresAt(down', i) /\ i \in DOMAIN down'
  BY <1>1, OnlyAuthMoves, RestoresAppend DEF AuthInv
<1>. QED
  BY <1>2 DEF AuthInv

\* The client takes a message about something else.
LEMMA AuthTaken ==
  ASSUME Types, AuthInv, UNCHANGED <<state, up>>,
         down # <<>>, down' = Tail(down), Head(down).kind # "auth"
  PROVE  AuthInv'
<1>1. down \in Seq(Response)
  BY DEF Types, TypeOK
<1>2. /\ OnlyAuthRestores(down')
      /\ Plain(down) => Plain(down')
      /\ NoAuth(down) => NoAuth(down')
      /\ \A i \in DOMAIN down : RestoresAt(down, i)
             => RestoresAt(down', i - 1) /\ i - 1 \in DOMAIN down'
  BY <1>1, OnlyAuthMoves, RestoresTail DEF AuthInv
<1>3. (\E i \in DOMAIN down : RestoresAt(down, i))
          => \E i \in DOMAIN down' : RestoresAt(down', i)
  BY <1>2
<1>. QED
  BY <1>2, <1>3 DEF AuthInv

\* No message is on its way at the start.
LEMMA AuthInit ==
  ASSUME Init
  PROVE  AuthInv
BY DEF Init, AuthInv, Plain, OnlyAuthRestores

\* Every step keeps the restoring authentication the next one answered.
LEMMA AuthStep ==
  ASSUME Types, SessionInv, AuthInv, Next
  PROVE  AuthInv'
<1> USE DEF client, auth, link, server, repo, used
<1>1. AppStep \/ LinkStep \/ MessageStep \/ ServerStep
  BY NextCases
<1>2. force \in BOOLEAN /\ interrupts \in SUBSET Reason
      /\ authToken \in Nat \cup {None} /\ cached \in Nat
  BY DEF Types, TypeOK
<1>3. CASE AppStep
  <2>1. ASSUME NEW q \in Query, Listen(q) PROVE AuthInv'
    <3>1. UNCHANGED <<state, down>>
      BY <2>1 DEF Listen
    <3>2. CASE UNCHANGED up
      BY <3>1, <3>2, AuthKeep
    <3>3. CASE up' = Append(up, Req("listen", listens'[q], q))
      <4>1. listens'[q] \in Nat
        <5>1. "listen" \in Event
          BY DEF Event
        <5>. QED
          BY <2>1, <5>1, HappensType DEF Listen, Types, TypeOK
      <4>2. Req("listen", listens'[q], q) \in Request
            /\ ~Req("listen", listens'[q], q).restore
        BY <4>1, ReqType DEF Req
      <4>. QED
        BY <3>1, <3>3, <4>2, AuthSend
    <3>. QED
      BY <2>1, <3>2, <3>3 DEF Listen
  <2>2. ASSUME NEW q \in Query, Unlisten(q) PROVE AuthInv'
    <3>1. Req("unlisten", 0, q) \in Request /\ ~Req("unlisten", 0, q).restore
      BY ReqType DEF Req
    <3>. QED
      BY <2>2, <3>1, AuthSend, AuthKeep DEF Unlisten
  <2>3. ASSUME NEW hash \in BOOLEAN, PutData(hash) PROVE AuthInv'
    <3> DEFINE put == [id |-> count'["put"], hash |-> hash, sent |-> CanWrite]
    <3>1. put \in Put
      <4>1. "put" \in Event
        BY DEF Event
      <4>. QED
        BY <2>3, <4>1, HappensType DEF PutData, Types, Put, CanWrite
    <3>2. PutReq(put) \in Request /\ ~PutReq(put).restore
      BY <3>1, ReqType DEF PutReq, Req
    <3>3. UNCHANGED <<state, down>>
          /\ (up' = Append(up, PutReq(put)) \/ UNCHANGED up)
      BY <2>3 DEF PutData
    <3> HIDE DEF put
    <3>. QED
      BY <3>2, <3>3, AuthSend, AuthKeep
  <2>4. ASSUME OnDisconnectOperation PROVE AuthInv'
    <3>1. count'["onDisconnect"] \in Nat
      <4>1. "onDisconnect" \in Event
        BY DEF Event
      <4>. QED
        BY <2>4, <4>1, HappensType DEF OnDisconnectOperation, Types
    <3>2. Req("od", count'["onDisconnect"], None) \in Request
          /\ ~Req("od", count'["onDisconnect"], None).restore
      BY <3>1, ReqType DEF Req
    <3>. QED
      BY <2>4, <3>2, AuthSend, AuthKeep DEF OnDisconnectOperation
  <2>5. ASSUME PurgeOutstandingWrites PROVE AuthInv'
    BY <2>5, AuthKeep DEF PurgeOutstandingWrites
  <2>6. ASSUME NEW token \in {None, cached}, RefreshAuthToken(token)
        PROVE  AuthInv'
    <3>1. UNCHANGED <<state, down>>
      BY <2>6 DEF RefreshAuthToken
    <3>2. CASE UNCHANGED up
      BY <3>1, <3>2, AuthKeep
    <3>3. CASE token = None /\ up' = Append(up, Req("unauth", 0, None))
      <4>1. Req("unauth", 0, None) \in Request
            /\ ~Req("unauth", 0, None).restore
        BY ReqType DEF Req
      <4>. QED
        BY <3>1, <3>3, <4>1, AuthSend
    <3>4. CASE token # None /\ up' = Append(up, AuthReq(token, FALSE))
      <4>1. AuthReq(token, FALSE) \in Request /\ ~AuthReq(token, FALSE).restore
        BY <1>2, <3>4, ReqType DEF AuthReq, Req
      <4>. QED
        BY <3>1, <3>4, <4>1, AuthSend
    <3>. QED
      BY <2>6, <3>2, <3>3, <3>4 DEF RefreshAuthToken
  <2>. QED
    BY <1>3, <2>1, <2>2, <2>3, <2>4, <2>5, <2>6 DEF AppStep
<1>4. ASSUME NEW reason, Interrupt(reason)
      PROVE  AuthInv'
  <2>1. CASE HasRealtime(state)
    BY <1>2, <1>4, <2>1, AuthDisconnect DEF Interrupt
  <2>2. CASE ~HasRealtime(state)
    BY <1>4, <2>2, AuthKeep DEF Interrupt, HasRealtime
  <2>. QED
    BY <2>1, <2>2
<1>5. CASE OnReady
  <2>1. up = <<>> /\ down = <<>> /\ state = "connecting"
        /\ down' = down
    BY <1>5 DEF OnReady, SessionInv, QuietOffline, CanListen
  <2>2. Plain(up) /\ Plain(down) /\ OnlyAuthRestores(down) /\ NoAuth(up)
        /\ NoAuth(down)
    BY <2>1 DEF Plain, OnlyAuthRestores, NoAuth
  <2>3. CASE state' = "connected" /\ RestoreState
    BY <2>1, <2>2, <2>3, AuthRestored
  <2>4. CASE /\ authToken # None /\ state' = "authenticating"
             /\ up' = Append(up, AuthReq(authToken, TRUE))
    <3>1. AuthReq(authToken, TRUE) \in Request
          /\ AuthReq(authToken, TRUE).restore
          /\ AuthReq(authToken, TRUE).kind = "auth"
      BY <1>2, <2>4, ReqType DEF AuthReq, Req
    <3>2. up \in Seq(Request)
      BY DEF Types, TypeOK
    <3>3. \E i \in DOMAIN up' : RestoresAt(up', i)
      BY <2>2, <2>4, <3>1, <3>2, RestoresAppend
    <3>4. OnlyAuthRestores(up')
      BY <2>4, <3>1, <3>2, OnlyAuthMoves DEF AuthInv
    <3>. QED
      BY <2>1, <2>2, <2>4, <3>3, <3>4 DEF AuthInv
  <2>. QED
    BY <1>5, <2>3, <2>4 DEF OnReady
<1>6. CASE LinkStep
  <2>1. ASSUME InterruptForReason \/ OnKill PROVE AuthInv'
    BY <1>4, <2>1 DEF InterruptForReason, OnKill
  <2>2. ASSUME ConnectionLost PROVE AuthInv'
    BY <1>2, <2>2, AuthDisconnect DEF ConnectionLost
  <2>3. ASSUME RetryFires PROVE AuthInv'
    BY <2>3, AuthKeep DEF RetryFires, SessionInv, StaysOffline
  <2>4. ASSUME NEW f \in fetches, TokenFetched(f) PROVE AuthInv'
    BY <2>4, AuthKeep DEF TokenFetched, MayOpen
  <2>5. ASSUME NEW f \in fetches, TokenFetchFailed(f) PROVE AuthInv'
    BY <2>5, AuthKeep DEF TokenFetchFailed, SessionInv, FetchesAreApart,
       HasRealtime
  <2>6. ASSUME NEW reason, ResumeForReason(reason) PROVE AuthInv'
    BY <2>6, AuthKeep DEF ResumeForReason
  <2>7. ASSUME OnConnect \/ Wake PROVE AuthInv'
    BY <2>7, AuthKeep DEF OnConnect, Wake
  <2>. QED
    BY <1>5, <1>6, <2>1, <2>2, <2>3, <2>4, <2>5, <2>6, <2>7 DEF LinkStep
<1>7. CASE MessageStep
  <2>1. ASSUME TokenRejected PROVE AuthInv'
    BY <2>1, AuthDisconnect DEF TokenRejected
  <2>2. ASSUME AuthResponse PROVE AuthInv'
    <3>1. Receive({"auth"})
      BY <2>2 DEF AuthResponse
    <3>2. /\ CanListen
          /\ Head(down).restore <=> state = "authenticating"
          /\ Plain(up) /\ Plain(Tail(down))
      BY <3>1, AuthFirst
    <3>3. CASE Head(down).status = "ok"
      <4>1. state' = "connected" /\ down' = Tail(down)
        BY <2>2, <3>3 DEF AuthResponse, TokenRejected, OnDisconnect
      <4>2. OnlyAuthRestores(down')
        BY <3>1, <4>1, OnlyAuthMoves DEF AuthInv, Types, TypeOK, Receive
      <4>3. CASE RestoreState
        BY <3>2, <4>1, <4>2, <4>3, AuthRestored
      <4>4. CASE UNCHANGED up
        BY <3>2, <4>1, <4>2, <4>4 DEF AuthInv
      <4>. QED
        BY <2>2, <3>3, <4>3, <4>4 DEF AuthResponse
    <3>4. CASE Head(down).status # "ok"
      BY <2>1, <2>2, <3>4 DEF AuthResponse
    <3>. QED
      BY <3>3, <3>4
  <2>3. ASSUME AuthRevoked PROVE AuthInv'
    BY <2>1, <2>3 DEF AuthRevoked
  <2>4. ASSUME ListenResponse \/ PutResponse \/ OnDisconnectResponse
               \/ ListenRevoked
        PROVE  AuthInv'
    <3>1. /\ down # <<>> /\ down' = Tail(down) /\ Head(down).kind # "auth"
          /\ UNCHANGED <<state, up>>
      BY <2>4 DEF ListenResponse, PutResponse, OnDisconnectResponse,
         ListenRevoked, Receive, PutKinds
    <3>. QED
      BY <3>1, AuthTaken
  <2>. QED
    BY <1>7, <2>2, <2>3, <2>4 DEF MessageStep, Deliver
<1>8. CASE ServerStep
  <2>0. {"ok", "error", "permission_denied", "expired_token"} \subseteq Status
    BY DEF Status
  <2>1. ASSUME NEW status \in Status,
               Head(up).kind \in {"auth", "listen", "put", "hashPut", "od"},
               up # <<>>, up' = Tail(up), state' = state,
               down' = Append(down, Answer(Head(up), status))
        PROVE  AuthInv'
    <3>1. Answer(Head(up), status) \in Response
      BY <2>1, QueueTypes, AnswerType DEF Types
    <3>2. /\ Answer(Head(up), status).kind = Head(up).kind
          /\ Answer(Head(up), status).restore = Head(up).restore
      BY DEF Answer
    <3>. QED
      BY <2>1, <3>1, <3>2, AuthServed
  <2>2. ASSUME ServerAuth PROVE AuthInv'
    BY <2>0, <2>1, <2>2 DEF ServerAuth
  <2>3. ASSUME ServerListen PROVE AuthInv'
    BY <2>0, <2>1, <2>3 DEF ServerListen
  <2>4. ASSUME NEW status \in {"ok", "error"}, ServerPut(status) PROVE AuthInv'
    BY <2>0, <2>1, <2>4 DEF ServerPut, PutKinds
  <2>5. ASSUME ServerOther PROVE AuthInv'
    BY <2>0, <2>1, <2>5, AuthServed DEF ServerOther
  <2>6. ASSUME ServerRevokesAuth PROVE AuthInv'
    <3> DEFINE m == Answer(Req("authRevoked", 0, None), "expired_token")
    <3>1. m \in Response /\ m.kind # "auth" /\ ~m.restore
      BY NoneAssumption DEF Answer, Req, Response, Status
    <3>2. UNCHANGED <<state, up>> /\ (down' = Append(down, m) \/ UNCHANGED down)
      BY <2>6 DEF ServerRevokesAuth
    <3> HIDE DEF m
    <3>. QED
      BY <3>1, <3>2, AuthTold, AuthKeep
  <2>7. ASSUME NEW q \in Query, ServerRevokesListen(q) PROVE AuthInv'
    <3> DEFINE m == Answer(Req("listenRevoked", 0, q), "permission_denied")
    <3>1. m \in Response /\ m.kind # "auth" /\ ~m.restore
      BY NoneAssumption DEF Answer, Req, Response, Status
    <3>2. UNCHANGED <<state, up>> /\ (down' = Append(down, m) \/ UNCHANGED down)
      BY <2>7 DEF ServerRevokesListen
    <3> HIDE DEF m
    <3>. QED
      BY <3>1, <3>2, AuthTold, AuthKeep
  <2>. QED
    BY <1>8, <2>2, <2>3, <2>4, <2>5, <2>6, <2>7 DEF ServerStep, Server
<1>. QED
  BY <1>1, <1>3, <1>6, <1>7, <1>8

-----------------------------------------------------------------------------
(* The order in which the server gets the writes.                          *)

PutIx(s)  == {i \in DOMAIN s : s[i].kind \in PutKinds}
PutsIn(s) == {s[i].n : i \in PutIx(s)}
Got       == {received[j].n : j \in DOMAIN received}

\* n was received no later than any write after it.
InTurn(n) == \A j \in DOMAIN received :
                 received[j].n > n => \E h \in 1..j : received[h].n = n

\* Writes are on their way only on an authenticated connection, by index, and
\* then every outstanding one is on its way or has been received.
SentInOrder ==
    /\ ~CanWrite => PutIx(up) = {}
    /\ \A i, j \in PutIx(up) : i < j => up[i].n < up[j].n
    /\ CanWrite => \A p \in puts : p.sent /\ p.id \in PutsIn(up) \cup Got
    /\ \A n \in PutsIn(up) \cup Got : n <= count["put"]

\* No write is overtaken by a later one.
NotOvertaken ==
    /\ \A p \in puts : InTurn(p.id)
    /\ \A i \in PutIx(up) : InTurn(up[i].n)
    /\ ReceivedInOrder

\* A transaction that may be sent, or is on its way, was not received before.
TransactionsAreNew ==
    /\ ~CanWrite => \A p \in puts : ~(p.hash /\ p.sent)
    /\ \A p \in puts : p.hash /\ ~p.sent => p.id \notin Got
    /\ \A i \in PutIx(up), j \in DOMAIN received :
           up[i].kind = "hashPut" => received[j] # up[i]
    /\ TransactionSentOnce

OrderInv == SentInOrder /\ NotOvertaken /\ TransactionsAreNew

-----------------------------------------------------------------------------
(* The steps that send writes or answer them.                              *)

\* t has the puts of s, d places earlier.
SamePuts(s, t, d) ==
    /\ \A i \in PutIx(t) : i + d \in PutIx(s) /\ t[i] = s[i + d]
    /\ \A i \in PutIx(s) : i - d \in PutIx(t) /\ t[i - d] = s[i]

\* Sending or taking something else than a put moves no put.
LEMMA SamePutsCases ==
  ASSUME NEW S, NEW s \in Seq(S)
  PROVE  /\ SamePuts(s, s, 0)
         /\ \A m \in S : m.kind \notin PutKinds => SamePuts(s, Append(s, m), 0)
         /\ s # <<>> /\ Head(s).kind \notin PutKinds => SamePuts(s, Tail(s), 1)
<1>0. \A i \in DOMAIN s : i + 0 = i /\ i - 0 = i
  OBVIOUS
<1>1. SamePuts(s, s, 0)
  BY <1>0 DEF SamePuts, PutIx
<1>2. ASSUME NEW m \in S, m.kind \notin PutKinds
      PROVE  SamePuts(s, Append(s, m), 0)
  <2> DEFINE t == Append(s, m)
  <2>1. /\ DOMAIN t = DOMAIN s \cup {Len(s) + 1}
        /\ \A i \in DOMAIN s : t[i] = s[i]
        /\ t[Len(s) + 1] = m
    BY AppendElements
  <2> HIDE DEF t
  <2>2. PutIx(t) = PutIx(s)
    BY <1>2, <2>1 DEF PutIx
  <2>3. \A i \in PutIx(s) : i \in DOMAIN s
    BY DEF PutIx
  <2>4. SamePuts(s, t, 0)
    BY <1>0, <2>1, <2>2, <2>3 DEF SamePuts
  <2>. QED
    BY <2>4 DEF t
<1>3. ASSUME s # <<>>, Head(s).kind \notin PutKinds
      PROVE  SamePuts(s, Tail(s), 1)
  <2> DEFINE t == Tail(s)
  <2>1. /\ \A i \in DOMAIN t : /\ i + 1 \in DOMAIN s
                               /\ t[i] = s[i + 1]
        /\ \A i \in DOMAIN s : i \in Nat /\ i >= 1 /\ (i # 1 => i - 1 \in DOMAIN t)
        /\ Head(s) = s[1] /\ 1 \in DOMAIN s
    BY <1>3, TailElements
  <2> HIDE DEF t
  <2>2. \A i \in PutIx(t) : i + 1 \in PutIx(s) /\ t[i] = s[i + 1]
    BY <2>1 DEF PutIx
  <2>3. ASSUME NEW i \in PutIx(s)
        PROVE  i - 1 \in PutIx(t) /\ t[i - 1] = s[i]
    <3>1. i # 1 /\ i \in DOMAIN s /\ s[i].kind \in PutKinds
      BY <1>3, <2>1, <2>3 DEF PutIx
    <3>2. i - 1 \in DOMAIN t /\ (i - 1) + 1 = i
      BY <2>1, <3>1
    <3>3. t[i - 1] = s[i]
      BY <2>1, <3>2
    <3>. QED
      BY <3>1, <3>2, <3>3 DEF PutIx
  <2>4. SamePuts(s, t, 1)
    BY <2>2, <2>3 DEF SamePuts
  <2>. QED
    BY <2>4 DEF t
<1>. QED
  BY <1>1, <1>2, <1>3

\* Steps that send, take or make no write
LEMMA OrderKeep ==
  ASSUME OrderInv, up \in Seq(Request), up' \in Seq(Request),
         NEW d \in Nat, CanWrite' <=> CanWrite, puts' \subseteq puts, received' = received,
         count'["put"] = count["put"], SamePuts(up, up', d)
  PROVE  OrderInv'
<1>1. /\ \A i \in PutIx(up') : i + d \in PutIx(up) /\ up'[i] = up[i + d]
      /\ \A i \in PutIx(up) : i - d \in PutIx(up') /\ up'[i - d] = up[i]
  BY DEF SamePuts
<1>2. PutsIn(up') = PutsIn(up)
  <2>1. PutsIn(up') \subseteq PutsIn(up)
    BY <1>1 DEF PutsIn
  <2>2. PutsIn(up) \subseteq PutsIn(up')
    BY <1>1 DEF PutsIn
  <2>. QED
    BY <2>1, <2>2
<1>3. Got' = Got /\ \A n : InTurn(n)' <=> InTurn(n)
  BY DEF Got, InTurn
<1>4. SentInOrder'
  <2>1. ~CanWrite' => PutIx(up') = {}
    BY <1>1 DEF OrderInv, SentInOrder
  <2>2. ASSUME NEW i \in PutIx(up'), NEW j \in PutIx(up'), i < j
        PROVE  up'[i].n < up'[j].n
    <3>1. i + d < j + d
      <4>1. i \in Int /\ j \in Int
        BY DEF PutIx
      <4>. QED
        BY <2>2, <4>1
    <3>. QED
      BY <1>1, <3>1 DEF OrderInv, SentInOrder
  <2>3. CanWrite' => \A p \in puts' : p.sent /\ p.id \in PutsIn(up') \cup Got'
    BY <1>2, <1>3 DEF OrderInv, SentInOrder
  <2>4. \A n \in PutsIn(up') \cup Got' : n <= count'["put"]
    BY <1>2, <1>3 DEF OrderInv, SentInOrder
  <2>. QED
    BY <2>1, <2>2, <2>3, <2>4 DEF SentInOrder
<1>5. NotOvertaken'
  BY <1>1, <1>3 DEF OrderInv, NotOvertaken, ReceivedInOrder
<1>6. TransactionsAreNew'
  BY <1>1, <1>3 DEF OrderInv, TransactionsAreNew, TransactionSentOnce
<1>. QED
  BY <1>4, <1>5, <1>6 DEF OrderInv

\* No write has been made or received.
LEMMA OrderInit ==
  ASSUME Init
  PROVE  OrderInv
BY DEF Init, OrderInv, SentInOrder, NotOvertaken, TransactionsAreNew, PutIx,
   PutsIn, Got, InTurn, ReceivedInOrder, TransactionSentOnce, CanWrite

\* A lost connection: the transactions that were sent are given up.
LEMMA OrderDisconnect ==
  ASSUME Types, OrderInv, NEW reasons, NEW refresh \in BOOLEAN,
         OnDisconnect(reasons, refresh), received' = received,
         count'["put"] = count["put"]
  PROVE  OrderInv'
<1>1. /\ state' = "disconnected" /\ up' = <<>>
      /\ puts' \subseteq puts
      /\ \A p \in puts' : ~(p.hash /\ p.sent)
  <2>1. Disconnected
    BY DisconnectType
  <2>2. puts' = puts \ SentTransactions
    BY CancelShape DEF OnDisconnect
  <2>. QED
    BY <2>1, <2>2 DEF Disconnected, SentTransactions
<1>2. /\ ~CanWrite' /\ PutIx(up') = {} /\ PutsIn(up') = {}
      /\ Got' = Got /\ \A n : InTurn(n)' <=> InTurn(n)
  BY <1>1 DEF CanWrite, PutIx, PutsIn, Got, InTurn
<1>3. SentInOrder'
  BY <1>2 DEF OrderInv, SentInOrder
<1>4. NotOvertaken'
  BY <1>1, <1>2 DEF OrderInv, NotOvertaken, ReceivedInOrder
<1>5. TransactionsAreNew'
  BY <1>1, <1>2 DEF OrderInv, TransactionsAreNew, TransactionSentOnce
<1>. QED
  BY <1>3, <1>4, <1>5 DEF OrderInv

\* Every outstanding write is sent again, in the order of the indexes.
LEMMA OrderRestored ==
  ASSUME Types, CompletionInv, OrderInv, ~CanWrite, RestoreState,
         state' = "connected", received' = received,
         count'["put"] = count["put"]
  PROVE  OrderInv'
<1>1. PICK ls, ps, os \in Seq(Request) : Restored(ls, ps, os)
  BY RestoreShape
<1>2. up \in Seq(Request) /\ Len(up \o ls) \in Nat
  BY DEF Types, TypeOK
<1>3. PutIx(up) = {}
  BY DEF OrderInv, SentInOrder
<1>4. ASSUME NEW i \in PutIx(up')
      PROVE  \E j \in 1..Len(ps) : up'[i] = ps[j] /\ i = j + Len(up \o ls)
  <2>1. i \in DOMAIN up' /\ up'[i].kind \in PutKinds
    BY <1>4 DEF PutIx
  <2>2. \/ i \in DOMAIN up /\ up'[i] = up[i]
        \/ \E j \in 1..Len(ls) : up'[i] = ls[j]
        \/ \E j \in 1..Len(ps) : up'[i] = ps[j] /\ i = j + Len(up \o ls)
        \/ \E j \in 1..Len(os) : up'[i] = os[j]
    BY <1>1, <1>2, <2>1, RestoredElements
  <2>3. ~(i \in DOMAIN up /\ up'[i] = up[i])
    BY <1>3, <2>1 DEF PutIx
  <2>4. ~\E j \in 1..Len(ls) : up'[i] = ls[j]
    BY <1>1, <2>1, RestoredKinds DEF PutKinds
  <2>5. ~\E j \in 1..Len(os) : up'[i] = os[j]
    BY <1>1, <2>1, RestoredKinds DEF PutKinds
  <2>. QED
    BY <2>2, <2>3, <2>4, <2>5
<1>5. ASSUME NEW i \in PutIx(up')
      PROVE  \E p \in puts : up'[i] = PutReq(p)
  <2>1. PICK j \in 1..Len(ps) : up'[i] = ps[j]
    BY <1>4
  <2>. QED
    BY <1>1, <2>1 DEF Restored
<1>6. ASSUME NEW p \in puts
      PROVE  \E i \in PutIx(up') : up'[i] = PutReq(p)
  <2>1. PICK j \in 1..Len(ps) : ps[j] = PutReq(p)
    BY <1>1 DEF Restored
  <2>2. PICK i \in DOMAIN up' : up'[i] = ps[j]
    BY <1>1, <1>2, RestoredElements
  <2>3. ps[j].kind \in PutKinds
    BY <1>1, RestoredKinds
  <2>. QED
    BY <2>1, <2>2, <2>3 DEF PutIx
<1>7. ASSUME NEW i \in PutIx(up'), NEW h \in PutIx(up'), i < h
      PROVE  up'[i].n < up'[h].n
  <2>1. PICK j \in 1..Len(ps) : up'[i] = ps[j] /\ i = j + Len(up \o ls)
    BY <1>4
  <2>2. PICK k \in 1..Len(ps) : up'[h] = ps[k] /\ h = k + Len(up \o ls)
    BY <1>4
  <2>3. j < k
    BY <1>2, <1>7, <2>1, <2>2
  <2>4. ps[j].n < ps[k].n
    BY <1>1, <2>3 DEF Restored
  <2>. QED
    BY <2>1, <2>2, <2>4
<1>8. \A p \in puts : /\ PutReq(p).n = p.id
                      /\ PutReq(p).kind = "hashPut" <=> p.hash
  BY DEF PutReq, Req
<1>9. \A r \in puts' : \E p \in puts : r.id = p.id /\ r.hash = p.hash /\ r.sent
  <2>1. puts' = {[p EXCEPT !.sent = TRUE] : p \in puts}
    BY RestoreShape
  <2>. QED
    BY <2>1 DEF Types, TypeOK, Put
<1>10. CanWrite' /\ Got' = Got /\ \A n : InTurn(n)' <=> InTurn(n)
  BY DEF CanWrite, Got, InTurn
<1>11. \A p \in puts : p.id \in PutsIn(up')
  BY <1>6, <1>8 DEF PutsIn
<1>12. SentInOrder'
  <2>1. \A r \in puts' : r.sent /\ r.id \in PutsIn(up') \cup Got'
    BY <1>9, <1>11
  <2>2. \A n \in PutsIn(up') : n \in PutIds(puts)
    BY <1>5, <1>8 DEF PutsIn, PutIds
  <2>3. \A n \in PutsIn(up') \cup Got' : n <= count'["put"]
    BY <1>10, <2>2 DEF OrderInv, SentInOrder, CompletionInv
  <2>. QED
    BY <1>7, <1>10, <2>1, <2>3 DEF SentInOrder
<1>13. NotOvertaken'
  <2>0. \A p \in puts : InTurn(p.id)
    BY DEF OrderInv, NotOvertaken
  <2>1. (\A r \in puts : InTurn(r.id))'
    BY <1>9, <1>10, <2>0
  <2>2. (\A i \in PutIx(up) : InTurn(up[i].n))'
    BY <1>5, <1>8, <1>10, <2>0
  <2>3. ReceivedInOrder'
    BY DEF OrderInv, NotOvertaken, ReceivedInOrder
  <2>. QED
    BY <2>1, <2>2, <2>3 DEF NotOvertaken
<1>14. TransactionsAreNew'
  <2>1. ASSUME NEW i \in PutIx(up'), NEW j \in DOMAIN received',
               up'[i].kind = "hashPut"
        PROVE  received'[j] # up'[i]
    <3>1. PICK p \in puts : up'[i] = PutReq(p)
      BY <1>5
    <3>2. p.hash /\ up'[i].n = p.id
      BY <1>8, <2>1, <3>1
    <3>3. p.id \notin Got
      BY <3>2 DEF OrderInv, TransactionsAreNew
    <3>4. received[j].n # p.id
      BY <2>1, <3>3 DEF Got
    <3>. QED
      BY <3>2, <3>4
  <2>2. \A r \in puts' : r.hash /\ ~r.sent => r.id \notin Got'
    BY <1>9
  <2>3. TransactionSentOnce'
    BY DEF OrderInv, TransactionsAreNew, TransactionSentOnce
  <2>. QED
    BY <1>10, <2>1, <2>2, <2>3 DEF TransactionsAreNew
<1>. QED
  BY <1>12, <1>13, <1>14 DEF OrderInv

\* A new write has a higher index than all before it.
LEMMA OrderPutData ==
  ASSUME Types, CompletionInv, OrderInv, NEW hash \in BOOLEAN, PutData(hash)
  PROVE  OrderInv'
<1> DEFINE put == [id |-> count'["put"], hash |-> hash, sent |-> CanWrite]
           m == PutReq(put)
<1>1. /\ puts' = puts \cup {put}
      /\ UNCHANGED <<state, received>>
      /\ CanWrite' <=> CanWrite
      /\ (CanWrite /\ up' = Append(up, m)) \/ (~CanWrite /\ up' = up)
  <2>1. UNCHANGED <<state, received>>
    BY DEF PutData, link, server
  <2>2. puts' = puts \cup {put}
    BY DEF PutData
  <2>3. (CanWrite /\ up' = Append(up, m)) \/ (~CanWrite /\ up' = up)
    BY DEF PutData
  <2>4. CanWrite' <=> CanWrite
    BY <2>1 DEF CanWrite
  <2> HIDE DEF put, m
  <2>. QED
    BY <2>1, <2>2, <2>3, <2>4
<1>2. /\ put.id = count["put"] + 1 /\ count["put"] \in Nat
      /\ put.id = count'["put"] /\ put.sent = CanWrite
  <2>1. "put" \in Event
    BY DEF Event
  <2>. QED
    BY <2>1, HappensType DEF PutData, Types, TypeOK
<1>3. m \in Request /\ m.n = put.id /\ m.kind \in PutKinds
  <2>1. put \in Put
    BY <1>2 DEF Put, CanWrite
  <2>2. m.n = put.id /\ m.kind \in PutKinds
    BY DEF PutReq, Req, PutKinds
  <2>. QED
    BY <2>1, <2>2, ReqType
<1> HIDE DEF put, m
<1>4. up \in Seq(Request) /\ received \in Seq(Request)
      /\ \A j \in DOMAIN received : received[j] \in Request
      /\ \A i \in DOMAIN up : up[i] \in Request
  BY DEF Types, TypeOK
<1>5. /\ \A i \in PutIx(up) : up[i].n \in Nat /\ up[i].n < put.id
      /\ \A j \in DOMAIN received : received[j].n \in Nat /\ received[j].n < put.id
  <2>1. \A n \in PutsIn(up) \cup Got : n <= count["put"]
    BY DEF OrderInv, SentInOrder
  <2>2. /\ \A i \in PutIx(up) : up[i].n \in Nat /\ up[i].n \in PutsIn(up)
        /\ \A j \in DOMAIN received : received[j].n \in Nat /\ received[j].n \in Got
    BY <1>4 DEF PutIx, PutsIn, Got, Request
  <2>. QED
    BY <1>2, <2>1, <2>2
<1>0. \A n \in PutsIn(up) \cup Got : n <= put.id
  BY <1>2, <1>5 DEF PutsIn, Got
<1>6. InTurn(put.id) /\ put.id \notin Got
  BY <1>2, <1>5 DEF InTurn, Got
<1>7. Got' = Got /\ \A n : InTurn(n)' <=> InTurn(n)
  BY <1>1 DEF Got, InTurn
<1>8. CASE ~CanWrite /\ up' = up
  <2>1. PutIx(up') = PutIx(up) /\ PutsIn(up') = PutsIn(up)
    BY <1>8
  <2>2. SentInOrder'
    <3>1. \A n \in PutsIn(up') \cup Got' : n <= count'["put"]
      BY <1>0, <1>2, <1>7, <2>1
    <3>. QED
      BY <1>1, <1>8, <2>1, <3>1 DEF OrderInv, SentInOrder
  <2>3. NotOvertaken'
    BY <1>1, <1>6, <1>7, <1>8 DEF OrderInv, NotOvertaken, ReceivedInOrder
  <2>4. TransactionsAreNew'
    BY <1>1, <1>2, <1>6, <1>7, <1>8 DEF OrderInv, TransactionsAreNew,
       TransactionSentOnce
  <2>. QED
    BY <2>2, <2>3, <2>4 DEF OrderInv
<1>9. CASE CanWrite /\ up' = Append(up, m)
  <2> DEFINE last == Len(up) + 1
  <2>1. /\ DOMAIN up' = DOMAIN up \cup {last}
        /\ \A i \in DOMAIN up : up'[i] = up[i] /\ i <= Len(up) /\ i \in Nat
        /\ up'[last] = m
        /\ Len(up) \in Nat
    BY <1>3, <1>4, <1>9, AppendElements
  <2>2. last \in Nat /\ last > Len(up)
    BY <2>1
  <2> HIDE DEF last
  <2>3. PutIx(up') = PutIx(up) \cup {last}
    BY <1>3, <2>1, <2>2 DEF PutIx
  <2>4. \A i \in PutIx(up) : i \in DOMAIN up
    BY DEF PutIx
  <2>5. PutsIn(up') = PutsIn(up) \cup {put.id}
    <3>1. \A i \in PutIx(up) : up'[i].n = up[i].n
      BY <2>1, <2>4
    <3>2. up'[last].n = put.id
      BY <1>3, <2>1
    <3>. QED
      BY <2>3, <3>1, <3>2 DEF PutsIn
  <2>6. SentInOrder'
    <3>1. \A i, j \in PutIx(up') : i < j => up'[i].n < up'[j].n
      <4>1. \A i, j \in PutIx(up) : i < j => up'[i].n < up'[j].n
        BY <2>1, <2>4 DEF OrderInv, SentInOrder
      <4>2. \A i \in PutIx(up) : up'[i].n < up'[last].n
        BY <1>3, <1>5, <2>1, <2>4
      <4>3. \A j \in PutIx(up') : ~(last < j)
        BY <2>1, <2>2, <2>3, <2>4
      <4>. QED
        BY <2>3, <4>1, <4>2, <4>3
    <3>2. CanWrite' => \A p \in puts' : p.sent /\ p.id \in PutsIn(up') \cup Got'
      BY <1>1, <1>2, <1>7, <1>9, <2>5 DEF OrderInv, SentInOrder
    <3>3. \A n \in PutsIn(up') \cup Got' : n <= count'["put"]
      BY <1>0, <1>2, <1>7, <2>5
    <3>. QED
      BY <1>1, <1>9, <3>1, <3>2, <3>3 DEF SentInOrder
  <2>7. NotOvertaken'
    <3>1. (\A r \in puts : InTurn(r.id))'
      BY <1>1, <1>6, <1>7 DEF OrderInv, NotOvertaken
    <3>2. \A i \in PutIx(up) : InTurn(up[i].n)
      BY DEF OrderInv, NotOvertaken
    <3>3. (\A i \in PutIx(up) : InTurn(up[i].n))'
      BY <1>3, <1>6, <1>7, <2>1, <2>3, <2>4, <3>2
    <3>. QED
      BY <1>1, <3>1, <3>3 DEF OrderInv, NotOvertaken, ReceivedInOrder
  <2>8. TransactionsAreNew'
    <3>1. ASSUME NEW i \in PutIx(up'), NEW j \in DOMAIN received',
                 up'[i].kind = "hashPut"
          PROVE  received'[j] # up'[i]
      <4>1. CASE i = last
        BY <1>1, <1>3, <1>5, <2>1, <3>1, <4>1
      <4>2. CASE i \in PutIx(up)
        BY <1>1, <2>1, <2>4, <3>1, <4>2 DEF OrderInv, TransactionsAreNew
      <4>. QED
        BY <2>3, <3>1, <4>1, <4>2
    <3>2. \A r \in puts' : r.hash /\ ~r.sent => r.id \notin Got'
      BY <1>1, <1>6, <1>7 DEF OrderInv, TransactionsAreNew
    <3>. QED
      BY <1>1, <1>9, <3>1, <3>2 DEF OrderInv, TransactionsAreNew,
         TransactionSentOnce
  <2>. QED
    BY <2>6, <2>7, <2>8 DEF OrderInv
<1>. QED
  BY <1>1, <1>8, <1>9

\* An index below another is neither it nor above it.
LEMMA Less ==
  ASSUME NEW x \in Nat, NEW y \in Nat, x < y
  PROVE  ~(x > y) /\ x # y
OBVIOUS

\* The server gets the first of the writes on their way.
LEMMA OrderReceived ==
  ASSUME Types, CompletionInv, OrderInv, up # <<>>, Head(up).kind \in PutKinds,
         up' = Tail(up), received' = Append(received, Head(up)),
         UNCHANGED <<state, puts>>, count'["put"] = count["put"]
  PROVE  OrderInv'
<1> DEFINE m == Head(up)
           last == Len(received) + 1
<1>1. /\ up \in Seq(Request) /\ received \in Seq(Request) /\ m \in Request
      /\ CanWrite' <=> CanWrite
      /\ \A i \in DOMAIN up : up[i].n \in Nat
      /\ \A p \in puts : p.id \in Nat
      /\ \A j \in DOMAIN received : received[j].n \in Nat
  <2>1. up \in Seq(Request) /\ received \in Seq(Request) /\ m \in Request
    BY QueueTypes DEF Types, TypeOK
  <2>2. /\ \A i \in DOMAIN up : up[i] \in Request
        /\ \A j \in DOMAIN received : received[j] \in Request
    BY <2>1
  <2>. QED
    BY <2>1, <2>2 DEF CanWrite, Request, Types, TypeOK, Put
<1>2. /\ \A i \in DOMAIN up' : /\ i + 1 \in DOMAIN up
                               /\ up'[i] = up[i + 1]
                               /\ i \in Nat /\ i >= 1
      /\ \A i \in DOMAIN up : i \in Nat /\ i >= 1
                              /\ (i # 1 => i - 1 \in DOMAIN up')
      /\ m = up[1] /\ 1 \in DOMAIN up
  BY <1>1, TailElements
<1>3. /\ DOMAIN received' = DOMAIN received \cup {last}
      /\ \A j \in DOMAIN received : /\ received'[j] = received[j]
                                    /\ j <= Len(received) /\ j \in Nat
      /\ received'[last] = m
      /\ Len(received) \in Nat
  BY <1>1, AppendElements
<1>4. last \in Nat /\ last > Len(received) /\ \A j \in DOMAIN received : j < last
  BY <1>3
<1> HIDE DEF m, last
<1>5. m.kind \in PutKinds /\ 1 \in PutIx(up)
  BY <1>2 DEF m, PutIx
<1>6. CanWrite
  BY <1>5 DEF OrderInv, SentInOrder
<1>7. \A i \in PutIx(up') : /\ i + 1 \in PutIx(up) /\ up'[i] = up[i + 1]
                            /\ m.n < up'[i].n /\ up'[i].n \in Nat
  <2>1. \A i \in PutIx(up') : i + 1 \in PutIx(up) /\ up'[i] = up[i + 1]
                              /\ 1 < i + 1
    BY <1>2 DEF PutIx
  <2>2. \A i \in PutIx(up) : up[i].n \in Nat
    BY <1>1 DEF PutIx
  <2>. QED
    BY <1>2, <1>5, <2>1, <2>2 DEF OrderInv, SentInOrder
<1>8. ASSUME NEW i \in PutIx(up), i # 1
      PROVE  i - 1 \in PutIx(up') /\ up'[i - 1] = up[i]
  <2>1. i - 1 \in DOMAIN up' /\ (i - 1) + 1 = i
    BY <1>2, <1>8 DEF PutIx
  <2>2. up'[i - 1] = up[i]
    BY <1>2, <2>1
  <2>. QED
    BY <1>8, <2>1, <2>2 DEF PutIx
<1>9. Got' = Got \cup {m.n}
  BY <1>3, <1>4 DEF Got
<1>10. PutsIn(up) \subseteq PutsIn(up') \cup {m.n} /\ PutsIn(up') \subseteq PutsIn(up)
  <2>1. PutsIn(up') \subseteq PutsIn(up)
    BY <1>7 DEF PutsIn
  <2>2. \A i \in PutIx(up) : up[i].n \in PutsIn(up') \cup {m.n}
    BY <1>2, <1>8 DEF PutsIn
  <2>3. PutsIn(up) \subseteq PutsIn(up') \cup {m.n}
    BY <2>2 DEF PutsIn
  <2>. QED
    BY <2>1, <2>3
<1>11. m.n \in PutsIn(up) /\ m.n \in Nat
  BY <1>1, <1>2, <1>5 DEF PutsIn
<1>12. SentInOrder'
  <2>1. ASSUME NEW i \in PutIx(up'), NEW j \in PutIx(up'), i < j
        PROVE  up'[i].n < up'[j].n
    <3>1. i \in DOMAIN up' /\ j \in DOMAIN up'
      BY DEF PutIx
    <3>2. i + 1 < j + 1
      BY <1>2, <2>1, <3>1
    <3>. QED
      BY <1>7, <3>2 DEF OrderInv, SentInOrder
  <2>2. \A p \in puts' : p.sent /\ p.id \in PutsIn(up') \cup Got'
    BY <1>6, <1>9, <1>10 DEF OrderInv, SentInOrder
  <2>3. \A n \in PutsIn(up') \cup Got' : n <= count'["put"]
    BY <1>9, <1>10, <1>11 DEF OrderInv, SentInOrder
  <2>. QED
    BY <1>1, <1>6, <2>1, <2>2, <2>3 DEF SentInOrder
\* What was in turn stays so, unless it comes before m and is still missing.
<1>13. ASSUME NEW n, InTurn(n), \/ ~(m.n > n)
                                \/ n \in Got
       PROVE  \A j \in DOMAIN received' :
                  received'[j].n > n => \E h \in 1..j : received'[h].n = n
  <2> SUFFICES ASSUME NEW j \in DOMAIN received', received'[j].n > n
               PROVE  \E h \in 1..j : received'[h].n = n
    OBVIOUS
  <2>1. CASE j \in DOMAIN received
    <3>1. PICK h \in 1..j : received[h].n = n
      BY <1>3, <1>13, <2>1 DEF InTurn
    <3>2. h \in DOMAIN received
      BY <1>1, <2>1, <3>1
    <3>. QED
      BY <1>3, <3>1, <3>2
  <2>2. CASE j = last
    <3>1. PICK h \in DOMAIN received : received[h].n = n
      BY <1>3, <1>13, <2>2 DEF Got
    <3>2. h \in 1..j /\ received'[h].n = n
      <4>1. h \in 1..Len(received)
        BY <1>1
      <4>. QED
        BY <1>3, <1>4, <2>2, <3>1, <4>1
    <3>. QED
      BY <3>2
  <2>. QED
    BY <1>3, <2>1, <2>2
<1>14. NotOvertaken'
  <2>1. ASSUME NEW p \in puts
        PROVE  InTurn(p.id)'
    <3>1. InTurn(p.id)
      BY DEF OrderInv, NotOvertaken
    <3>2. p.id \in PutsIn(up) \cup Got
      BY <1>6 DEF OrderInv, SentInOrder
    <3>3. CASE p.id \in Got
      BY <1>13, <3>1, <3>3 DEF InTurn
    <3>4. CASE p.id \in PutsIn(up)
      <4>1. ~(m.n > p.id)
        <5>1. PICK i \in PutIx(up) : p.id = up[i].n
          BY <3>4 DEF PutsIn
        <5>2. CASE i = 1
          BY <1>2, <1>11, <5>1, <5>2
        <5>3. CASE i # 1
          <6>1. up'[i - 1] = up[i] /\ i - 1 \in PutIx(up')
            BY <1>8, <5>3
          <6>. QED
            BY <1>7, <1>11, <5>1, <6>1, Less
        <5>. QED
          BY <5>2, <5>3
      <4>. QED
        BY <1>13, <3>1, <4>1 DEF InTurn
    <3>. QED
      BY <3>2, <3>3, <3>4
  <2>2. ASSUME NEW i \in PutIx(up')
        PROVE  \A j \in DOMAIN received' :
                   received'[j].n > up'[i].n
                       => \E h \in 1..j : received'[h].n = up'[i].n
    <3>1. InTurn(up[i + 1].n) /\ up'[i] = up[i + 1]
      BY <1>7 DEF OrderInv, NotOvertaken
    <3>2. ~(m.n > up'[i].n)
      <4>1. up'[i].n \in Nat /\ m.n < up'[i].n
        BY <1>7
      <4>. QED
        BY <1>11, <4>1, Less
    <3>. QED
      BY <1>13, <3>1, <3>2
  <2>3. ReceivedInOrder'
    <3> SUFFICES ASSUME NEW i \in DOMAIN received', NEW j \in DOMAIN received',
                        i < j, received'[i].n > received'[j].n
                 PROVE  \E h \in 1..i : received'[h].n = received'[j].n
      BY DEF ReceivedInOrder
    <3>1. i \in DOMAIN received
      BY <1>3, <1>4
    <3>2. CASE j \in DOMAIN received
      <4>1. PICK h \in 1..i : received[h].n = received[j].n
        BY <1>3, <3>1, <3>2 DEF OrderInv, NotOvertaken, ReceivedInOrder
      <4>2. h \in DOMAIN received
        BY <1>1, <3>1, <4>1
      <4>. QED
        BY <1>3, <3>2, <4>1, <4>2
    <3>3. CASE j = last
      <4>1. InTurn(m.n)
        BY <1>2, <1>5 DEF OrderInv, NotOvertaken
      <4>2. PICK h \in 1..i : received[h].n = m.n
        BY <1>3, <3>1, <3>3, <4>1 DEF InTurn
      <4>3. h \in DOMAIN received
        BY <1>1, <3>1, <4>2
      <4>. QED
        BY <1>3, <3>3, <4>2, <4>3
    <3>. QED
      BY <1>3, <3>2, <3>3
  <2>4. (\A p \in puts : InTurn(p.id))'
    BY <2>1
  <2>5. (\A i \in PutIx(up) : InTurn(up[i].n))'
    BY <2>2 DEF InTurn
  <2>. QED
    BY <2>3, <2>4, <2>5 DEF NotOvertaken
<1>15. TransactionsAreNew'
  <2>1. \A p \in puts' : p.hash /\ ~p.sent => p.id \notin Got'
    BY <1>6 DEF OrderInv, SentInOrder
  <2>2. ASSUME NEW i \in PutIx(up'), NEW j \in DOMAIN received',
               up'[i].kind = "hashPut"
        PROVE  received'[j] # up'[i]
    <3>1. CASE j \in DOMAIN received
      BY <1>3, <1>7, <2>2, <3>1 DEF OrderInv, TransactionsAreNew
    <3>2. CASE j = last
      <4>1. up'[i].n \in Nat /\ m.n < up'[i].n
        BY <1>7
      <4>2. up'[i].n # m.n
        BY <1>11, <4>1, Less
      <4>. QED
        BY <1>3, <3>2, <4>2
    <3>. QED
      BY <1>3, <2>2, <3>1, <3>2
  <2>3. TransactionSentOnce'
    <3>1. m.kind = "hashPut" => \A j \in DOMAIN received : received[j] # m
      BY <1>2, <1>5 DEF OrderInv, TransactionsAreNew
    <3>. QED
      BY <1>3, <3>1 DEF OrderInv, TransactionsAreNew, TransactionSentOnce
  <2>. QED
    BY <1>1, <1>6, <2>1, <2>2, <2>3 DEF TransactionsAreNew
<1>. QED
  BY <1>12, <1>14, <1>15 DEF OrderInv

\* Everything else sends no write and receives none.
LEMMA OrderStays ==
  ASSUME Types, Types', OrderInv, CanWrite' <=> CanWrite, puts' \subseteq puts,
         received' = received, count'["put"] = count["put"],
         \/ up' = up
         \/ \E m \in Request : m.kind \notin PutKinds /\ up' = Append(up, m)
         \/ up # <<>> /\ Head(up).kind \notin PutKinds /\ up' = Tail(up)
  PROVE  OrderInv'
<1>1. up \in Seq(Request) /\ up' \in Seq(Request)
  BY DEF Types, TypeOK
<1>2. SamePuts(up, up', 0) \/ SamePuts(up, up', 1)
  BY <1>1, SamePutsCases
<1>. QED
  BY <1>1, <1>2, OrderKeep

\* Every step keeps the writes in order.
LEMMA OrderStep ==
  ASSUME Types, Types', SessionInv, CompletionInv, AuthInv, OrderInv, Next
  PROVE  OrderInv'
<1> USE DEF client, auth, link, server, repo, used
<1>1. CASE \E hash \in BOOLEAN : PutData(hash)
  BY <1>1, OrderPutData
<1>2. ASSUME ~(\E hash \in BOOLEAN : PutData(hash))
      PROVE  OrderInv'
  <2>1. count'["put"] = count["put"]
    BY <1>2, CountStays DEF Types
  <2>2. /\ AppStep \/ LinkStep \/ MessageStep \/ ServerStep
        /\ force \in BOOLEAN /\ authToken \in Nat \cup {None} /\ cached \in Nat
    BY NextCases DEF Types, TypeOK
  <2>3. ASSUME NEW m \in Request, m.kind \notin PutKinds,
               up' = Append(up, m) \/ up' = up,
               UNCHANGED received, puts' \subseteq puts, CanWrite' <=> CanWrite
        PROVE  OrderInv'
    BY <2>1, <2>3, OrderStays
  <2>4. ASSUME UNCHANGED <<up, received>>, puts' \subseteq puts,
               CanWrite' <=> CanWrite
        PROVE  OrderInv'
    BY <2>1, <2>4, OrderStays
  <2>5. CASE AppStep
    <3>1. ASSUME NEW q \in Query, Listen(q) PROVE OrderInv'
      <4>1. listens'[q] \in Nat
        BY <3>1 DEF Types, TypeOK
      <4>2. /\ Req("listen", listens'[q], q) \in Request
            /\ Req("listen", listens'[q], q).kind \notin PutKinds
        BY <4>1, ReqType DEF Req, PutKinds
      <4>3. /\ UNCHANGED <<state, puts, received>>
            /\ \/ up' = Append(up, Req("listen", listens'[q], q))
               \/ up' = up
        BY <3>1 DEF Listen
      <4>. QED
        BY <2>3, <4>2, <4>3 DEF CanWrite
    <3>2. ASSUME NEW q \in Query, Unlisten(q) PROVE OrderInv'
      <4>1. /\ Req("unlisten", 0, q) \in Request
            /\ Req("unlisten", 0, q).kind \notin PutKinds
        BY ReqType DEF Req, PutKinds
      <4>2. /\ UNCHANGED <<state, puts, received>>
            /\ up' = Append(up, Req("unlisten", 0, q)) \/ up' = up
        BY <3>2 DEF Unlisten
      <4>. QED
        BY <2>3, <4>1, <4>2 DEF CanWrite
    <3>3. ASSUME OnDisconnectOperation PROVE OrderInv'
      <4>1. count'["onDisconnect"] \in Nat
        BY DEF Types, TypeOK, Event
      <4>2. /\ Req("od", count'["onDisconnect"], None) \in Request
            /\ Req("od", count'["onDisconnect"], None).kind \notin PutKinds
        BY <4>1, ReqType DEF Req, PutKinds
      <4>3. /\ UNCHANGED <<state, puts, received>>
            /\ \/ up' = Append(up, Req("od", count'["onDisconnect"], None))
               \/ up' = up
        BY <3>3 DEF OnDisconnectOperation
      <4>. QED
        BY <2>3, <4>2, <4>3 DEF CanWrite
    <3>4. ASSUME PurgeOutstandingWrites PROVE OrderInv'
      BY <2>4, <3>4 DEF PurgeOutstandingWrites, CanWrite
    <3>5. ASSUME NEW token \in {None, cached}, RefreshAuthToken(token)
          PROVE  OrderInv'
      <4>1. UNCHANGED <<state, puts, received>>
        BY <3>5 DEF RefreshAuthToken
      <4>2. CASE up' = up
        BY <2>4, <4>1, <4>2 DEF CanWrite
      <4>3. CASE up' = Append(up, Req("unauth", 0, None))
        <5>1. /\ Req("unauth", 0, None) \in Request
              /\ Req("unauth", 0, None).kind \notin PutKinds
          BY ReqType DEF Req, PutKinds
        <5>. QED
          BY <2>3, <4>1, <4>3, <5>1 DEF CanWrite
      <4>4. CASE token # None /\ up' = Append(up, AuthReq(token, FALSE))
        <5>1. /\ AuthReq(token, FALSE) \in Request
              /\ AuthReq(token, FALSE).kind \notin PutKinds
          BY <2>2, <4>4, ReqType DEF AuthReq, Req, PutKinds
        <5>. QED
          BY <2>3, <4>1, <4>4, <5>1 DEF CanWrite
      <4>. QED
        BY <3>5, <4>2, <4>3, <4>4 DEF RefreshAuthToken
    <3>. QED
      BY <1>2, <2>5, <3>1, <3>2, <3>3, <3>4, <3>5 DEF AppStep
  <2>6. ASSUME NEW reason, Interrupt(reason)
        PROVE  OrderInv'
    <3>1. CASE HasRealtime(state)
      BY <2>1, <2>2, <2>6, <3>1, OrderDisconnect DEF Interrupt
    <3>2. CASE ~HasRealtime(state)
      BY <2>4, <2>6, <3>2 DEF Interrupt, HasRealtime, CanWrite
    <3>. QED
      BY <3>1, <3>2
  <2>7. CASE OnReady
    <3>1. ~CanWrite /\ UNCHANGED received
      BY <2>7 DEF OnReady, CanWrite
    <3>2. CASE state' = "connected" /\ RestoreState
      BY <2>1, <3>1, <3>2, OrderRestored
    <3>3. CASE /\ authToken # None /\ state' = "authenticating"
               /\ up' = Append(up, AuthReq(authToken, TRUE))
               /\ UNCHANGED puts
      <4>1. /\ AuthReq(authToken, TRUE) \in Request
            /\ AuthReq(authToken, TRUE).kind \notin PutKinds
        BY <2>2, <3>3, ReqType DEF AuthReq, Req, PutKinds
      <4>. QED
        BY <2>3, <3>1, <3>3, <4>1 DEF CanWrite
    <3>. QED
      BY <2>7, <3>2, <3>3 DEF OnReady
  <2>8. CASE LinkStep
    <3>1. ASSUME InterruptForReason \/ OnKill PROVE OrderInv'
      BY <2>6, <3>1 DEF InterruptForReason, OnKill
    <3>2. ASSUME ConnectionLost PROVE OrderInv'
      BY <2>1, <2>2, <3>2, OrderDisconnect DEF ConnectionLost
    <3>3. ASSUME RetryFires PROVE OrderInv'
      BY <2>4, <3>3 DEF RetryFires, SessionInv, StaysOffline, CanWrite
    <3>4. ASSUME NEW f \in fetches, TokenFetched(f) PROVE OrderInv'
      BY <2>4, <3>4 DEF TokenFetched, MayOpen, CanWrite
    <3>5. ASSUME NEW f \in fetches, TokenFetchFailed(f) PROVE OrderInv'
      BY <2>4, <3>5 DEF TokenFetchFailed, SessionInv, FetchesAreApart,
         HasRealtime, CanWrite
    <3>6. ASSUME NEW reason, ResumeForReason(reason) PROVE OrderInv'
      BY <2>4, <3>6 DEF ResumeForReason, CanWrite
    <3>7. ASSUME OnConnect \/ Wake PROVE OrderInv'
      BY <2>4, <3>7 DEF OnConnect, Wake, CanWrite
    <3>. QED
      BY <2>7, <2>8, <3>1, <3>2, <3>3, <3>4, <3>5, <3>6, <3>7 DEF LinkStep
  <2>9. CASE MessageStep
    <3>1. ASSUME TokenRejected, UNCHANGED received PROVE OrderInv'
      BY <2>1, <3>1, OrderDisconnect DEF TokenRejected
    <3>2. ASSUME AuthResponse PROVE OrderInv'
      <4>1. /\ Receive({"auth"}) /\ UNCHANGED received
        BY <3>2 DEF AuthResponse
      <4>2. /\ CanListen
            /\ Head(down).restore <=> state = "authenticating"
        BY <4>1, AuthFirst
      <4>3. CASE Head(down).status = "ok"
        <5>1. /\ state' = "connected"
              /\ \/ Head(down).restore /\ RestoreState
                 \/ ~Head(down).restore /\ UNCHANGED <<up, puts>>
          BY <3>2, <4>3 DEF AuthResponse
        <5>2. CASE Head(down).restore /\ RestoreState
          BY <2>1, <4>1, <4>2, <5>1, <5>2, OrderRestored DEF CanWrite
        <5>3. CASE ~Head(down).restore /\ UNCHANGED <<up, puts>>
          BY <2>4, <4>1, <4>2, <5>1, <5>3 DEF CanWrite, CanListen
        <5>. QED
          BY <5>1, <5>2, <5>3
      <4>4. CASE Head(down).status # "ok"
        BY <3>1, <3>2, <4>1, <4>4 DEF AuthResponse
      <4>. QED
        BY <4>3, <4>4
    <3>3. ASSUME AuthRevoked PROVE OrderInv'
      BY <3>1, <3>3 DEF AuthRevoked
    <3>4. ASSUME ListenResponse \/ PutResponse \/ OnDisconnectResponse
                 \/ ListenRevoked
          PROVE  OrderInv'
      <4>1. UNCHANGED <<state, up, received>> /\ puts' \subseteq puts
        BY <3>4 DEF ListenResponse, PutResponse, OnDisconnectResponse,
           ListenRevoked
      <4>. QED
        BY <2>4, <4>1 DEF CanWrite
    <3>. QED
      BY <2>9, <3>2, <3>3, <3>4 DEF MessageStep, Deliver
  <2>10. CASE ServerStep
    <3>1. ASSUME NEW status, ServerPut(status) PROVE OrderInv'
      <4>1. /\ up # <<>> /\ Head(up).kind \in PutKinds
            /\ up' = Tail(up) /\ received' = Append(received, Head(up))
            /\ UNCHANGED <<state, puts>>
        BY <3>1 DEF ServerPut
      <4>. QED
        BY <2>1, <4>1, OrderReceived
    <3>2. ASSUME ServerAuth \/ ServerListen \/ ServerOther PROVE OrderInv'
      <4>1. /\ up # <<>> /\ Head(up).kind \notin PutKinds /\ up' = Tail(up)
            /\ UNCHANGED <<state, puts, received>>
        BY <3>2 DEF ServerAuth, ServerListen, ServerOther, PutKinds
      <4>2. CanWrite' <=> CanWrite
        BY <4>1 DEF CanWrite
      <4>. QED
        BY <2>1, <4>1, <4>2, OrderStays
    <3>3. ASSUME ServerRevokesAuth PROVE OrderInv'
      BY <2>4, <3>3 DEF ServerRevokesAuth, CanWrite
    <3>4. ASSUME NEW q \in Query, ServerRevokesListen(q) PROVE OrderInv'
      BY <2>4, <3>4 DEF ServerRevokesListen, CanWrite
    <3>. QED
      BY <2>10, <3>1, <3>2, <3>3, <3>4 DEF ServerStep, Server
  <2>. QED
    BY <2>2, <2>5, <2>8, <2>9, <2>10
<1>. QED
  BY <1>1, <1>2

-----------------------------------------------------------------------------
(* What the server holds for the client.                                   *)

About(s, q) == {i \in DOMAIN s : s[i].q = q}
\* The last messages about q in s are m.
EndsWith(s, q, m) ==
    \E i \in About(s, q) : \A j \in About(s, q) : j >= i => s[j] = m

\* What the server has to be told last about q
Wish(q) == IF listens[q] = 0 THEN Req("unlisten", 0, q)
           ELSE Req("listen", listens[q], q)
\* It has been told, or will be.
Agreed(q) == IF About(up, q) = {} THEN q \in holding <=> listens[q] # 0
             ELSE EndsWith(up, q, Wish(q))

Refusal(m) == \/ m.kind = "listenRevoked"
              \/ m.kind = "listen" /\ m.status # "ok"
\* The client will be told that its listen for q is refused.
WillBeRefused(q) ==
    \/ \E i \in DOMAIN up : up[i] = Req("listen", listens[q], q)
    \/ \E i \in DOMAIN down :
           /\ down[i].q = q /\ Refusal(down[i])
           /\ down[i].kind = "listen" => down[i].n = listens[q]

\* Before the state is restored, only what is not listened to is agreed.
HeldInv ==
    /\ holding \cap denied = {}
    /\ \A i \in DOMAIN down : Refusal(down[i]) => down[i].q \in denied
    /\ \A q \in Query \ denied :
           CanWrite \/ (CanListen /\ listens[q] = 0) => Agreed(q)
    /\ \A q \in Query \cap denied :
           CanWrite /\ listens[q] # 0 => WillBeRefused(q)

-----------------------------------------------------------------------------
(* The last message about a query.                                         *)

\* t ends with the same messages about q as s.
SameEnd(s, t, q) ==
    /\ About(s, q) = {} <=> About(t, q) = {}
    /\ \A w : EndsWith(s, q, w) => EndsWith(t, q, w)

\* A message sent about q is the last one about q.
LEMMA EndAppend ==
  ASSUME NEW S, NEW s \in Seq(S), NEW m \in S, NEW q
  PROVE  /\ m.q = q => About(Append(s, m), q) # {} /\ EndsWith(Append(s, m), q, m)
         /\ m.q # q => SameEnd(s, Append(s, m), q)
<1> DEFINE t == Append(s, m)
           last == Len(s) + 1
<1>1. /\ DOMAIN t = DOMAIN s \cup {last}
      /\ \A i \in DOMAIN s : t[i] = s[i] /\ i <= Len(s) /\ i \in Nat
      /\ t[last] = m
      /\ Len(s) \in Nat
  BY AppendElements
<1>2. last \in Nat /\ \A i \in DOMAIN s : ~(i >= last)
  BY <1>1
<1> HIDE DEF t, last
<1>3. ASSUME m.q = q
      PROVE  About(t, q) # {} /\ EndsWith(t, q, m)
  <2>1. last \in About(t, q)
    BY <1>1, <1>3 DEF About
  <2>2. \A j \in About(t, q) : j >= last => t[j] = m
    BY <1>1, <1>2 DEF About
  <2>. QED
    BY <2>1, <2>2 DEF EndsWith
<1>4. ASSUME m.q # q
      PROVE  SameEnd(s, t, q)
  <2>1. About(t, q) = About(s, q) /\ \A i \in About(s, q) : t[i] = s[i]
    BY <1>1, <1>2, <1>4 DEF About
  <2>. QED
    BY <2>1 DEF SameEnd, EndsWith
<1>. QED
  BY <1>3, <1>4 DEF t

\* Taking the first message changes the end for its own query at most.
LEMMA EndTail ==
  ASSUME NEW S, NEW s \in Seq(S), s # <<>>, NEW q
  PROVE  /\ Head(s).q # q => SameEnd(s, Tail(s), q)
         /\ Head(s).q = q =>
                /\ About(s, q) # {}
                /\ \A w : EndsWith(s, q, w) =>
                       IF About(Tail(s), q) = {} THEN Head(s) = w
                       ELSE EndsWith(Tail(s), q, w)
<1> DEFINE t == Tail(s)
<1>1. /\ \A i \in DOMAIN t : /\ i + 1 \in DOMAIN s
                             /\ t[i] = s[i + 1]
                             /\ i \in Nat /\ i >= 1
      /\ \A i \in DOMAIN s : i \in Nat /\ i >= 1 /\ (i # 1 => i - 1 \in DOMAIN t)
      /\ Head(s) = s[1] /\ 1 \in DOMAIN s
  BY TailElements
<1> HIDE DEF t
<1>2. \A i \in About(t, q) : /\ i + 1 \in About(s, q) /\ t[i] = s[i + 1]
                             /\ i \in Nat /\ i + 1 > 1
  BY <1>1 DEF About
<1>3. ASSUME NEW i \in About(s, q), i # 1
      PROVE  /\ i - 1 \in About(t, q) /\ t[i - 1] = s[i]
             /\ i \in Nat
  <2>1. i - 1 \in DOMAIN t /\ (i - 1) + 1 = i /\ i \in Nat
    BY <1>1, <1>3 DEF About
  <2>2. t[i - 1] = s[i]
    BY <1>1, <2>1
  <2>. QED
    BY <1>3, <2>1, <2>2 DEF About
\* A last message other than the first one stays the last.
<1>4. ASSUME NEW w, NEW i \in About(s, q), i # 1,
             \A j \in About(s, q) : j >= i => s[j] = w
      PROVE  EndsWith(t, q, w)
  <2>1. \A j \in About(t, q) : j >= i - 1 => t[j] = w
    <3> SUFFICES ASSUME NEW j \in About(t, q), j >= i - 1
                 PROVE  t[j] = w
      OBVIOUS
    <3>1. j + 1 >= i
      BY <1>2, <1>3, <1>4
    <3>. QED
      BY <1>2, <1>4, <3>1
  <2>2. i - 1 \in About(t, q)
    BY <1>3, <1>4
  <2>. QED
    BY <2>1, <2>2 DEF EndsWith
<1>5. ASSUME Head(s).q # q
      PROVE  SameEnd(s, t, q)
  <2>1. 1 \notin About(s, q)
    BY <1>1, <1>5 DEF About
  <2>2. About(s, q) = {} <=> About(t, q) = {}
    BY <1>2, <1>3, <2>1
  <2>3. ASSUME NEW w, EndsWith(s, q, w)
        PROVE  EndsWith(t, q, w)
    BY <1>4, <2>1, <2>3 DEF EndsWith
  <2>. QED
    BY <2>2, <2>3 DEF SameEnd
<1>6. ASSUME Head(s).q = q
      PROVE  About(s, q) # {}
  BY <1>1, <1>6 DEF About
<1>7. ASSUME Head(s).q = q, NEW w, EndsWith(s, q, w)
      PROVE  IF About(t, q) = {} THEN Head(s) = w ELSE EndsWith(t, q, w)
  <2>1. PICK i \in About(s, q) : \A j \in About(s, q) : j >= i => s[j] = w
    BY <1>7 DEF EndsWith
  <2>2. CASE i # 1
    BY <1>3, <1>4, <2>1, <2>2
  <2>3. CASE i = 1
    <3>1. \A j \in About(s, q) : s[j] = w
      BY <1>1, <2>1, <2>3 DEF About
    <3>2. 1 \in About(s, q)
      BY <2>3
    <3>3. Head(s) = w
      BY <1>1, <3>1, <3>2
    <3>4. \A j \in About(t, q) : t[j] = w
      BY <1>2, <3>1
    <3>5. About(t, q) # {} => EndsWith(t, q, w)
      BY <3>4 DEF EndsWith
    <3>. QED
      BY <3>3, <3>5
  <2>. QED
    BY <2>2, <2>3
<1>. QED
  BY <1>5, <1>6, <1>7 DEF t

\* The wish about q is a listen or an unlisten for q.
LEMMA WishMeaning ==
  ASSUME NEW q
  PROVE  /\ Wish(q).q = q
         /\ listens[q] = 0 => Wish(q).kind = "unlisten"
         /\ listens[q] # 0 => Wish(q).kind = "listen"
BY DEF Wish, Req

\* Steps that change nothing about q keep the agreement.
LEMMA AgreedKeep ==
  ASSUME NEW q, Agreed(q), SameEnd(up, up', q), listens'[q] = listens[q],
         q \in holding' <=> q \in holding
  PROVE  Agreed(q)'
<1>1. Wish(q)' = Wish(q)
  BY DEF Wish, Req
<1>2. CASE About(up, q) = {}
  BY <1>2 DEF Agreed, SameEnd
<1>3. CASE About(up, q) # {}
  BY <1>1, <1>3 DEF Agreed, SameEnd
<1>. QED
  BY <1>2, <1>3

\* The server takes a message about q.
LEMMA AgreedServed ==
  ASSUME NEW q, Agreed(q), up \in Seq(Request), up # <<>>, Head(up).q = q,
         up' = Tail(up), listens'[q] = listens[q],
         q \in holding' <=> Head(up).kind = "listen"
  PROVE  Agreed(q)'
<1>1. Wish(q)' = Wish(q)
  BY DEF Wish, Req
<1>2. /\ About(up, q) # {}
      /\ EndsWith(up, q, Wish(q)) => IF About(up', q) = {}
                                     THEN Head(up) = Wish(q)
                                     ELSE EndsWith(up', q, Wish(q))
  BY EndTail
<1>3. EndsWith(up, q, Wish(q))
  BY <1>2 DEF Agreed
<1>4. CASE About(up', q) = {}
  <2>1. Head(up) = Wish(q)
    BY <1>2, <1>3, <1>4
  <2>2. q \in holding' <=> listens[q] # 0
    BY <2>1, WishMeaning
  <2>. QED
    BY <1>4, <2>2 DEF Agreed
<1>5. CASE About(up', q) # {}
  BY <1>1, <1>2, <1>3, <1>5 DEF Agreed
<1>. QED
  BY <1>4, <1>5

\* The client sends a message about q.
LEMMA AgreedSent ==
  ASSUME NEW q, up \in Seq(Request), Wish(q)' \in Request,
         up' = Append(up, Wish(q)')
  PROVE  Agreed(q)'
<1>1. About(up', q) # {} /\ EndsWith(up', q, Wish(q)')
  <2>1. Wish(q)'.q = q
    BY DEF Wish, Req
  <2>. QED
    BY <2>1, EndAppend
<1>. QED
  BY <1>1 DEF Agreed

\* Each message of s, but perhaps the first, is still in t.
StillIn(s, t) == \A i \in DOMAIN s : \E j \in DOMAIN t : t[j] = s[i]

\* What is still in a queue after sending and after taking
LEMMA StillInCases ==
  ASSUME NEW S, NEW s \in Seq(S)
  PROVE  /\ \A m \in S : /\ StillIn(s, Append(s, m))
                         /\ \E j \in DOMAIN Append(s, m) : Append(s, m)[j] = m
                         /\ \A j \in DOMAIN Append(s, m) :
                                \/ Append(s, m)[j] = m
                                \/ \E i \in DOMAIN s : Append(s, m)[j] = s[i]
         /\ s # <<>> =>
                /\ \A i \in DOMAIN s :
                       \/ s[i] = Head(s)
                       \/ \E j \in DOMAIN Tail(s) : Tail(s)[j] = s[i]
                /\ StillIn(Tail(s), s)
<1>1. ASSUME NEW m \in S
      PROVE  /\ StillIn(s, Append(s, m))
             /\ \E j \in DOMAIN Append(s, m) : Append(s, m)[j] = m
             /\ \A j \in DOMAIN Append(s, m) :
                    \/ Append(s, m)[j] = m
                    \/ \E i \in DOMAIN s : Append(s, m)[j] = s[i]
  <2> DEFINE t == Append(s, m)
  <2>1. /\ DOMAIN t = DOMAIN s \cup {Len(s) + 1}
        /\ \A i \in DOMAIN s : t[i] = s[i]
        /\ t[Len(s) + 1] = m
    BY AppendElements
  <2> HIDE DEF t
  <2>2. /\ StillIn(s, t) /\ \E j \in DOMAIN t : t[j] = m
        /\ \A j \in DOMAIN t : t[j] = m \/ \E i \in DOMAIN s : t[j] = s[i]
    BY <2>1 DEF StillIn
  <2>. QED
    BY <2>2 DEF t
<1>2. ASSUME s # <<>>
      PROVE  /\ \A i \in DOMAIN s :
                    \/ s[i] = Head(s)
                    \/ \E j \in DOMAIN Tail(s) : Tail(s)[j] = s[i]
             /\ StillIn(Tail(s), s)
  <2> DEFINE t == Tail(s)
  <2>1. /\ \A i \in DOMAIN t : i + 1 \in DOMAIN s /\ t[i] = s[i + 1]
        /\ \A i \in DOMAIN s : /\ i \in Nat
                               /\ i # 1 => i - 1 \in DOMAIN t
        /\ Head(s) = s[1]
    BY <1>2, TailElements
  <2> HIDE DEF t
  <2>2. ASSUME NEW i \in DOMAIN s, i # 1
        PROVE  \E j \in DOMAIN t : t[j] = s[i]
    <3>1. i - 1 \in DOMAIN t /\ (i - 1) + 1 = i
      BY <2>1, <2>2
    <3>. QED
      BY <2>1, <3>1
  <2>3. StillIn(t, s)
    BY <2>1 DEF StillIn
  <2>4. \A i \in DOMAIN s : s[i] = Head(s) \/ \E j \in DOMAIN t : t[j] = s[i]
    BY <2>1, <2>2
  <2>. QED
    BY <2>3, <2>4 DEF t
<1>. QED
  BY <1>1, <1>2

\* A refusal on its way stays so while its messages do.
LEMMA RefusedKeep ==
  ASSUME NEW q, WillBeRefused(q), listens'[q] = listens[q],
         \A i \in DOMAIN up : up[i] = Req("listen", listens[q], q)
             => \E j \in DOMAIN up' : up'[j] = up[i],
         \A i \in DOMAIN down : down[i].q = q /\ Refusal(down[i])
             => \E j \in DOMAIN down' : down'[j] = down[i]
  PROVE  WillBeRefused(q)'
<1>1. CASE \E i \in DOMAIN up : up[i] = Req("listen", listens[q], q)
  <2>1. \E j \in DOMAIN up' : up'[j] = Req("listen", listens'[q], q)
    BY <1>1
  <2>. QED
    BY <2>1 DEF WillBeRefused
<1>2. CASE \E i \in DOMAIN down :
               /\ down[i].q = q /\ Refusal(down[i])
               /\ down[i].kind = "listen" => down[i].n = listens[q]
  <2>1. PICK i \in DOMAIN down :
               /\ down[i].q = q /\ Refusal(down[i])
               /\ down[i].kind = "listen" => down[i].n = listens[q]
    BY <1>2
  <2>2. PICK j \in DOMAIN down' : down'[j] = down[i]
    BY <2>1
  <2>3. /\ down'[j].q = q /\ Refusal(down'[j])
        /\ down'[j].kind = "listen" => down'[j].n = listens'[q]
    BY <2>1, <2>2
  <2>. QED
    BY <2>3 DEF WillBeRefused, Refusal
<1>. QED
  BY <1>1, <1>2 DEF WillBeRefused

-----------------------------------------------------------------------------
(* The steps that change what is listened to or what the server holds.     *)

LEMMA HeldInit ==
  ASSUME Init
  PROVE  HeldInv
BY DEF Init, HeldInv, CanWrite, CanListen

\* Without a connection nothing is claimed.
LEMMA HeldOffline ==
  ASSUME HeldInv, denied' = denied, holding' = {},
         \/ down' = <<>>
         \/ UNCHANGED down,
         ~CanListen'
  PROVE  HeldInv'
BY DEF HeldInv, CanListen, CanWrite

\* A step that is about no query.
LEMMA HeldQuiet ==
  ASSUME Types, HeldInv,
         CanWrite' <=> CanWrite, CanListen' <=> CanListen,
         UNCHANGED <<listens, holding, denied>>,
         \/ up' = up
         \/ \E m \in Request : m.q \notin Query /\ up' = Append(up, m)
         \/ up # <<>> /\ Head(up).q \notin Query /\ up' = Tail(up),
         \/ down' = down
         \/ \E m \in Response : ~Refusal(m) /\ down' = Append(down, m)
         \/ down # <<>> /\ ~Refusal(Head(down)) /\ down' = Tail(down)
  PROVE  HeldInv'
<1>1. up \in Seq(Request) /\ down \in Seq(Response)
  BY DEF Types, TypeOK
<1>2. ASSUME NEW q \in Query
      PROVE  SameEnd(up, up', q)
  <2>1. CASE up' = up
    BY <2>1 DEF SameEnd
  <2>2. ASSUME NEW m \in Request, m.q \notin Query, up' = Append(up, m)
        PROVE  SameEnd(up, up', q)
    <3>1. m.q # q
      BY <2>2
    <3>. QED
      BY <1>1, <2>2, <3>1, EndAppend
  <2>3. CASE up # <<>> /\ Head(up).q \notin Query /\ up' = Tail(up)
    <3>1. Head(up).q # q
      BY <2>3
    <3>. QED
      BY <1>1, <2>3, <3>1, EndTail
  <2>. QED
    BY <2>1, <2>2, <2>3
<1>3. ASSUME NEW i \in DOMAIN up, up[i].q \in Query
      PROVE  \E j \in DOMAIN up' : up'[j] = up[i]
  <2>1. CASE up' = up
    BY <2>1
  <2>2. ASSUME NEW m \in Request, up' = Append(up, m)
        PROVE  \E j \in DOMAIN up' : up'[j] = up[i]
    <3>1. StillIn(up, up')
      BY <1>1, <2>2, StillInCases
    <3>. QED
      BY <3>1 DEF StillIn
  <2>3. CASE up # <<>> /\ Head(up).q \notin Query /\ up' = Tail(up)
    BY <1>1, <1>3, <2>3, StillInCases
  <2>. QED
    BY <2>1, <2>2, <2>3
<1>4. ASSUME NEW i \in DOMAIN down, Refusal(down[i])
      PROVE  \E j \in DOMAIN down' : down'[j] = down[i]
  <2>1. CASE down' = down
    BY <2>1
  <2>2. ASSUME NEW m \in Response, down' = Append(down, m)
        PROVE  \E j \in DOMAIN down' : down'[j] = down[i]
    <3>1. StillIn(down, down')
      BY <1>1, <2>2, StillInCases
    <3>. QED
      BY <3>1 DEF StillIn
  <2>3. CASE down # <<>> /\ ~Refusal(Head(down)) /\ down' = Tail(down)
    BY <1>1, <1>4, <2>3, StillInCases
  <2>. QED
    BY <2>1, <2>2, <2>3
<1>5. ASSUME NEW j \in DOMAIN down', Refusal(down'[j])
      PROVE  down'[j].q \in denied
  <2>1. \A i \in DOMAIN down : Refusal(down[i]) => down[i].q \in denied
    BY DEF HeldInv
  <2>2. CASE down' = down
    BY <1>5, <2>1, <2>2
  <2>3. ASSUME NEW m \in Response, ~Refusal(m), down' = Append(down, m)
        PROVE  down'[j].q \in denied
    <3>1. down'[j] = m \/ \E i \in DOMAIN down : down'[j] = down[i]
      BY <1>1, <2>3, StillInCases
    <3>. QED
      BY <1>5, <2>1, <2>3, <3>1
  <2>4. CASE down # <<>> /\ down' = Tail(down)
    <3>1. \E i \in DOMAIN down : down'[j] = down[i]
      BY <1>1, <2>4, StillInCases DEF StillIn
    <3>. QED
      BY <1>5, <2>1, <3>1
  <2>. QED
    BY <2>2, <2>3, <2>4
<1>6. ASSUME NEW q \in Query \ denied, Agreed(q)
      PROVE  Agreed(q)'
  BY <1>2, <1>6, AgreedKeep
<1>7. ASSUME NEW q \in Query \cap denied, WillBeRefused(q)
      PROVE  WillBeRefused(q)'
  <2>1. \A i \in DOMAIN up : up[i] = Req("listen", listens[q], q)
            => \E j \in DOMAIN up' : up'[j] = up[i]
    <3>1. Req("listen", listens[q], q).q \in Query
      BY DEF Req
    <3>. QED
      BY <1>3, <3>1
  <2>. QED
    BY <1>4, <1>7, <2>1, RefusedKeep
<1>8. /\ (\A q \in Query \ denied :
             CanWrite \/ (CanListen /\ listens[q] = 0) => Agreed(q))'
      /\ (\A q \in Query \cap denied :
             CanWrite /\ listens[q] # 0 => WillBeRefused(q))'
  BY <1>6, <1>7 DEF HeldInv
<1>. QED
  BY <1>5, <1>8 DEF HeldInv

\* Listening or not listening to q any more, and telling the server
LEMMA HeldSent ==
  ASSUME Types, Types', HeldInv, NEW q \in Query,
         UNCHANGED <<state, down, holding, denied>>,
         \A x \in Query : x # q => listens'[x] = listens[x],
         \/ CanListen /\ up' = Append(up, Wish(q)')
         \/ ~CanListen /\ up' = up
  PROVE  HeldInv'
<1>1. CASE ~CanListen
  BY <1>1 DEF HeldInv, CanListen, CanWrite
<1>2. CASE CanListen /\ up' = Append(up, Wish(q)')
  <2>1. up \in Seq(Request)
    BY DEF Types, TypeOK
  <2>2. Wish(q)' \in Request /\ Wish(q)'.q = q
    <3>1. listens'[q] \in Nat
      BY DEF Types, TypeOK
    <3>2. Req("unlisten", 0, q) \in Request
          /\ Req("listen", listens'[q], q) \in Request
      BY <3>1, ReqType
    <3>. QED
      BY <3>2 DEF Wish, Req
  <2>3. Agreed(q)'
    BY <1>2, <2>1, <2>2, AgreedSent
  <2>4. listens'[q] # 0 => WillBeRefused(q)'
    <3>1. \E j \in DOMAIN up' : up'[j] = Wish(q)'
      BY <1>2, <2>1, <2>2, StillInCases
    <3>. QED
      BY <3>1 DEF WillBeRefused, Wish
  <2>5. ASSUME NEW x \in Query, x # q
        PROVE  /\ Agreed(x) => Agreed(x)'
               /\ WillBeRefused(x) => WillBeRefused(x)'
    <3>1. SameEnd(up, up', x)
      BY <1>2, <2>1, <2>2, <2>5, EndAppend
    <3>2. StillIn(up, up')
      BY <1>2, <2>1, <2>2, StillInCases
    <3>3. listens'[x] = listens[x]
      BY <2>5
    <3>4. Agreed(x) => Agreed(x)'
      BY <3>1, <3>3, AgreedKeep
    <3>5. WillBeRefused(x) => WillBeRefused(x)'
      BY <3>2, <3>3, RefusedKeep DEF StillIn
    <3>. QED
      BY <3>4, <3>5
  <2>6. (CanListen' <=> CanListen) /\ (CanWrite' <=> CanWrite)
    BY DEF CanListen, CanWrite
  <2>7. (\A x \in Query \ denied :
             CanWrite \/ (CanListen /\ listens[x] = 0) => Agreed(x))'
    <3> SUFFICES ASSUME NEW x \in Query \ denied, x # q,
                        CanWrite \/ (CanListen /\ listens'[x] = 0)
                 PROVE  Agreed(x)'
      BY <2>3, <2>6
    <3>1. listens'[x] = listens[x]
      OBVIOUS
    <3>. QED
      BY <2>5, <3>1 DEF HeldInv
  <2>8. (\A x \in Query \cap denied :
             CanWrite /\ listens[x] # 0 => WillBeRefused(x))'
    <3> SUFFICES ASSUME NEW x \in Query \cap denied, x # q,
                        CanWrite, listens'[x] # 0
                 PROVE  WillBeRefused(x)'
      BY <2>4, <2>6
    <3>1. listens'[x] = listens[x]
      OBVIOUS
    <3>. QED
      BY <2>5, <3>1 DEF HeldInv
  <2>. QED
    BY <2>7, <2>8 DEF HeldInv
<1>. QED
  BY <1>1, <1>2

\* Every listen is sent again.
LEMMA HeldRestored ==
  ASSUME Types, HeldInv, RestoreState, state' = "connected",
         UNCHANGED <<listens, holding, denied>>, StillIn(down', down),
         \A q \in Query \ denied : listens[q] = 0 => Agreed(q)
  PROVE  HeldInv'
<1>1. PICK ls, ps, os \in Seq(Request) : Restored(ls, ps, os)
  BY RestoreShape
<1>2. up \in Seq(Request)
  BY DEF Types, TypeOK
<1>3. ASSUME NEW i \in 1..Len(ps) PROVE ps[i].q = None
  <2>1. PICK p \in puts : ps[i] = PutReq(p)
    BY <1>1, <1>3 DEF Restored
  <2>. QED
    BY <2>1 DEF PutReq, Req
<1>4. ASSUME NEW i \in 1..Len(os) PROVE os[i].q = None
  <2>1. PICK n \in Nat : os[i] = Req("od", n, None)
    BY <1>1, <1>4 DEF Restored
  <2>. QED
    BY <2>1 DEF Req
<1>5. \A i \in 1..Len(ls) : ls[i].q \in Active /\ ls[i] = Wish(ls[i].q)
  BY <1>1 DEF Restored, Wish, Active
<1>6. \A i \in DOMAIN up' :
          \/ i \in DOMAIN up /\ up'[i] = up[i]
          \/ \E j \in 1..Len(ls) : up'[i] = ls[j]
          \/ \E j \in 1..Len(ps) : up'[i] = ps[j]
          \/ \E j \in 1..Len(os) : up'[i] = os[j]
  BY <1>1, <1>2, RestoredElements
\* What is new about a query
<1>7. ASSUME NEW q \in Query, NEW i \in About(up', q), i \notin DOMAIN up
      PROVE  q \in Active /\ up'[i] = Wish(q)
  <2>1. up'[i].q = q /\ i \in DOMAIN up'
    BY <1>7 DEF About
  <2>2. q # None
    BY NoneAssumption
  <2>3. \E j \in 1..Len(ls) : up'[i] = ls[j]
    BY <1>3, <1>4, <1>6, <1>7, <2>1, <2>2
  <2>. QED
    BY <1>5, <2>1, <2>3
<1>8. Len(up) \in Nat /\ \A i \in DOMAIN up : /\ i <= Len(up)
                                              /\ i \in DOMAIN up'
                                              /\ up'[i] = up[i]
  BY <1>1, <1>2, RestoredElements
<1>9. ASSUME NEW q \in Active
      PROVE  \E i \in About(up', q) : up'[i] = Wish(q) /\ i > Len(up)
  <2>1. PICK j \in 1..Len(ls) : ls[j].q = q
    BY <1>1 DEF Restored
  <2>2. PICK i \in DOMAIN up' : up'[i] = ls[j] /\ i > Len(up)
    BY <1>1, <1>2, RestoredElements
  <2>. QED
    BY <1>5, <2>1, <2>2 DEF About
<1>10. \A q : Wish(q)' = Wish(q)
  BY DEF Wish
<1>11. ASSUME NEW q \in Active
       PROVE  Agreed(q)' /\ WillBeRefused(q)'
  <2>1. PICK i \in About(up', q) : up'[i] = Wish(q) /\ i > Len(up)
    BY <1>9
  <2>2. ASSUME NEW j \in About(up', q), j >= i
        PROVE  up'[j] = Wish(q)
    <3>1. i \in Int /\ j \in Int
      <4>1. \A k \in DOMAIN up' : k \in Int
        <5>1. up' \in Seq(Request)
          BY <1>1, <1>2 DEF Restored
        <5>. QED
          BY <5>1
      <4>. QED
        BY <4>1 DEF About
    <3>2. j \notin DOMAIN up
      BY <1>8, <2>1, <2>2, <3>1
    <3>3. q \in Query
      BY DEF Active
    <3>. QED
      BY <1>7, <3>2, <3>3
  <2>3. EndsWith(up', q, Wish(q)')
    BY <1>10, <2>2 DEF EndsWith
  <2>4. Agreed(q)'
    BY <2>1, <2>3 DEF Agreed
  <2>5. up'[i] = Req("listen", listens'[q], q) /\ i \in DOMAIN up'
    BY <2>1 DEF Wish, Active, About
  <2>. QED
    BY <2>4, <2>5 DEF WillBeRefused
<1>12. ASSUME NEW q \in Query \ denied, listens[q] = 0
       PROVE  Agreed(q)'
  <2>1. q \notin Active
    BY <1>12 DEF Active
  <2>2. \A i \in About(up', q) : i \in About(up, q)
    BY <1>7, <1>8, <2>1 DEF About
  <2>3. About(up', q) = About(up, q) /\ \A i \in About(up, q) : up'[i] = up[i]
    BY <1>8, <2>2 DEF About
  <2>4. SameEnd(up, up', q)
    BY <2>3 DEF SameEnd, EndsWith
  <2>. QED
    BY <1>12, <2>4, AgreedKeep
<1>13. \A i \in DOMAIN down' : Refusal(down'[i]) => down'[i].q \in denied'
  BY DEF HeldInv, StillIn
<1>14. (\A q \in Query \ denied :
            CanWrite \/ (CanListen /\ listens[q] = 0) => Agreed(q))'
  BY <1>11, <1>12 DEF Active
<1>15. (\A q \in Query \cap denied :
            CanWrite /\ listens[q] # 0 => WillBeRefused(q))'
  BY <1>11 DEF Active
<1>. QED
  BY <1>13, <1>14, <1>15 DEF HeldInv

\* The client takes an answer to a listen or is told that one is revoked, and
\* removes the listen if it is refused.
LEMMA HeldAnswer ==
  ASSUME Types, HeldInv, down # <<>>, down' = Tail(down),
         UNCHANGED <<state, up, holding, denied>>,
         NEW q \in Query, Head(down).q = q,
         \A x \in Query : x # q => listens'[x] = listens[x],
         \/ listens'[q] = 0 /\ Refusal(Head(down))
         \/ /\ listens'[q] = listens[q] /\ Head(down).kind = "listen"
            /\ listens[q] = Head(down).n => Head(down).status = "ok"
  PROVE  HeldInv'
<1>1. up \in Seq(Request) /\ down \in Seq(Response)
  BY DEF Types, TypeOK
<1>2. /\ \A i \in DOMAIN down : \/ down[i] = Head(down)
                                \/ \E j \in DOMAIN down' : down'[j] = down[i]
      /\ StillIn(down', down)
      /\ \E i \in DOMAIN down : down[i] = Head(down)
  <2>1. 1 \in DOMAIN down /\ down[1] = Head(down)
    BY <1>1, TailElements
  <2>. QED
    BY <1>1, <2>1, StillInCases
<1>3. \A i \in DOMAIN down' : Refusal(down'[i]) => down'[i].q \in denied'
  BY <1>2 DEF HeldInv, StillIn
<1>4. listens'[q] = listens[q] \/ q \in denied
  BY <1>2 DEF HeldInv
<1>5. ASSUME NEW x \in Query \ denied
      PROVE  listens'[x] = listens[x] /\ (Agreed(x) => Agreed(x)')
  <2>1. listens'[x] = listens[x]
    BY <1>4
  <2>2. SameEnd(up, up', x)
    BY DEF SameEnd
  <2>. QED
    BY <2>1, <2>2, AgreedKeep
<1>6. ASSUME NEW x \in Query \cap denied, listens'[x] # 0, WillBeRefused(x)
      PROVE  listens'[x] = listens[x] /\ WillBeRefused(x)'
  <2>1. listens'[x] = listens[x]
    BY <1>6
  <2>2. CASE \E i \in DOMAIN up : up[i] = Req("listen", listens[x], x)
    <3>1. \E i \in DOMAIN up' : up'[i] = Req("listen", listens'[x], x)
      BY <2>1, <2>2
    <3>. QED
      BY <2>1, <3>1 DEF WillBeRefused
  <2>3. ASSUME NEW i \in DOMAIN down, down[i].q = x, Refusal(down[i]),
               down[i].kind = "listen" => down[i].n = listens[x]
        PROVE  WillBeRefused(x)'
    <3>1. down[i] # Head(down)
      <4>1. CASE x = q
        BY <1>6, <2>3, <4>1 DEF Refusal
      <4>2. CASE x # q
        BY <2>3, <4>2
      <4>. QED
        BY <4>1, <4>2
    <3>2. PICK j \in DOMAIN down' : down'[j] = down[i]
      BY <1>2, <3>1
    <3>3. /\ down'[j].q = x /\ Refusal(down'[j])
          /\ down'[j].kind = "listen" => down'[j].n = listens'[x]
      BY <2>1, <2>3, <3>2
    <3>. QED
      BY <3>3 DEF WillBeRefused, Refusal
  <2>. QED
    BY <1>6, <2>1, <2>2, <2>3 DEF WillBeRefused
<1>7. (CanListen' <=> CanListen) /\ (CanWrite' <=> CanWrite)
  BY DEF CanListen, CanWrite
<1>8. (\A x \in Query \ denied :
           CanWrite \/ (CanListen /\ listens[x] = 0) => Agreed(x))'
  BY <1>5, <1>7 DEF HeldInv
<1>9. (\A x \in Query \cap denied :
           CanWrite /\ listens[x] # 0 => WillBeRefused(x))'
  <2> SUFFICES ASSUME NEW x \in Query \cap denied, CanWrite, listens'[x] # 0
               PROVE  WillBeRefused(x)'
    BY <1>7
  <2>1. listens[x] # 0
    OBVIOUS
  <2>. QED
    BY <1>6, <2>1 DEF HeldInv
<1>. QED
  BY <1>3, <1>8, <1>9 DEF HeldInv

\* The server takes a message about q: it holds the listen, or refuses it, or
\* lets it go.
LEMMA HeldServed ==
  ASSUME Types, HeldInv, up # <<>>, up' = Tail(up),
         UNCHANGED <<state, listens, denied>>,
         NEW q \in Query, Head(up).q = q,
         \A x \in Query : x # q => (x \in holding' <=> x \in holding),
         holding' \subseteq Query,
         \/ /\ q \notin denied /\ Head(up).kind = "listen"
            /\ q \in holding'
            /\ \E m \in Response : ~Refusal(m) /\ down' = Append(down, m)
         \/ /\ q \in denied /\ Head(up).kind = "listen"
            /\ q \notin holding'
            /\ \E m \in Response : /\ m.q = q /\ Refusal(m) /\ m.kind = "listen"
                                   /\ m.n = Head(up).n
                                   /\ down' = Append(down, m)
         \/ /\ Head(up).kind = "unlisten"
            /\ q \notin holding'
            /\ down' = down
  PROVE  HeldInv'
<1>1. up \in Seq(Request) /\ down \in Seq(Response)
  BY DEF Types, TypeOK
<1>2. \A i \in DOMAIN up : \/ up[i] = Head(up)
                           \/ \E j \in DOMAIN up' : up'[j] = up[i]
  BY <1>1, StillInCases
<1>3. StillIn(down, down')
  <2>1. CASE down' = down
    BY <2>1 DEF StillIn
  <2>2. ASSUME NEW m \in Response, down' = Append(down, m)
        PROVE  StillIn(down, down')
    BY <1>1, <2>2, StillInCases
  <2>. QED
    BY <2>1, <2>2
<1>4. \A j \in DOMAIN down' :
          \/ \E i \in DOMAIN down : down'[j] = down[i]
          \/ Refusal(down'[j]) => down'[j].q \in denied
  <2>1. CASE down' = down
    BY <2>1
  <2>2. ASSUME NEW m \in Response, Refusal(m) => m.q \in denied,
               down' = Append(down, m), NEW j \in DOMAIN down'
        PROVE  \/ \E i \in DOMAIN down : down'[j] = down[i]
               \/ Refusal(down'[j]) => down'[j].q \in denied
    <3>1. down'[j] = m \/ \E i \in DOMAIN down : down'[j] = down[i]
      BY <1>1, <2>2, StillInCases
    <3>. QED
      BY <2>2, <3>1
  <2>. QED
    BY <2>1, <2>2
<1>5. \A j \in DOMAIN down' : Refusal(down'[j]) => down'[j].q \in denied'
  BY <1>4 DEF HeldInv
<1>6. holding' \cap denied' = {}
  BY DEF HeldInv
<1>7. ASSUME NEW x \in Query \ denied, Agreed(x)
      PROVE  Agreed(x)'
  <2>1. CASE x = q
    <3>1. q \in holding' <=> Head(up).kind = "listen"
      BY <1>7, <2>1
    <3>. QED
      BY <1>1, <1>7, <2>1, <3>1, AgreedServed
  <2>2. CASE x # q
    <3>1. SameEnd(up, up', x)
      BY <1>1, <2>2, EndTail
    <3>. QED
      BY <1>7, <2>2, <3>1, AgreedKeep
  <2>. QED
    BY <2>1, <2>2
<1>8. ASSUME NEW x \in Query \cap denied, WillBeRefused(x)
      PROVE  WillBeRefused(x)'
  <2>1. \A i \in DOMAIN down : \E j \in DOMAIN down' : down'[j] = down[i]
    BY <1>3 DEF StillIn
  <2>2. CASE Head(up) = Req("listen", listens[x], x)
    <3>1. x = q /\ Head(up).kind = "listen" /\ Head(up).n = listens[q]
      BY <2>2 DEF Req
    <3>2. PICK m \in Response : /\ m.q = q /\ Refusal(m) /\ m.kind = "listen"
                                /\ m.n = Head(up).n
                                /\ down' = Append(down, m)
      BY <1>8, <3>1
    <3>3. PICK j \in DOMAIN down' : down'[j] = m
      BY <1>1, <3>2, StillInCases
    <3>4. /\ down'[j].q = x /\ Refusal(down'[j])
          /\ down'[j].kind = "listen" => down'[j].n = listens'[x]
      BY <3>1, <3>2, <3>3
    <3>. QED
      BY <3>4 DEF WillBeRefused, Refusal
  <2>3. CASE Head(up) # Req("listen", listens[x], x)
    <3>1. \A i \in DOMAIN up : up[i] = Req("listen", listens[x], x)
              => \E j \in DOMAIN up' : up'[j] = up[i]
      BY <1>2, <2>3
    <3>. QED
      BY <1>8, <2>1, <3>1, RefusedKeep
  <2>. QED
    BY <2>2, <2>3
<1>9. /\ (\A x \in Query \ denied :
             CanWrite \/ (CanListen /\ listens[x] = 0) => Agreed(x))'
      /\ (\A x \in Query \cap denied :
             CanWrite /\ listens[x] # 0 => WillBeRefused(x))'
  BY <1>7, <1>8 DEF HeldInv, CanWrite, CanListen
<1>. QED
  BY <1>5, <1>6, <1>9 DEF HeldInv

\* The rules become stricter for q.
LEMMA HeldRevoked ==
  ASSUME Types, HeldInv, NEW q \in Query \ denied, ServerRevokesListen(q)
  PROVE  HeldInv'
<1> DEFINE m == Answer(Req("listenRevoked", 0, q), "permission_denied")
<1>1. /\ UNCHANGED <<state, listens, up>>
      /\ denied' = denied \cup {q} /\ holding' = holding \ {q}
      /\ \/ q \in holding /\ down' = Append(down, m)
         \/ q \notin holding /\ down' = down
  BY DEF ServerRevokesListen, link, client, auth
<1>2. m \in Response /\ Refusal(m) /\ m.q = q /\ m.kind = "listenRevoked"
  BY NoneAssumption DEF Answer, Req, Response, Status, Refusal
<1>3. down \in Seq(Response)
  BY DEF Types, TypeOK
<1> HIDE DEF m
<1>4. /\ StillIn(down, down')
      /\ \A j \in DOMAIN down' : down'[j] = m \/ \E i \in DOMAIN down :
                                                     down'[j] = down[i]
      /\ q \in holding => \E j \in DOMAIN down' : down'[j] = m
  <2>1. CASE down' = down
    BY <1>1, <1>3, <1>2, <2>1, StillInCases DEF StillIn
  <2>2. CASE down' = Append(down, m)
    BY <1>2, <1>3, <2>2, StillInCases
  <2>. QED
    BY <1>1, <2>1, <2>2
<1>5. \A j \in DOMAIN down' : Refusal(down'[j]) => down'[j].q \in denied'
  BY <1>1, <1>2, <1>4 DEF HeldInv
<1>6. holding' \cap denied' = {}
  BY <1>1 DEF HeldInv
<1>7. ASSUME NEW x \in Query \ denied', Agreed(x)
      PROVE  Agreed(x)'
  <2>1. SameEnd(up, up', x)
    BY <1>1 DEF SameEnd
  <2>2. x # q
    BY <1>1
  <2>. QED
    BY <1>1, <1>7, <2>1, <2>2, AgreedKeep
<1>8. ASSUME NEW x \in Query \cap denied, WillBeRefused(x)
      PROVE  WillBeRefused(x)'
  <2>1. \A i \in DOMAIN up : \E j \in DOMAIN up' : up'[j] = up[i]
    BY <1>1
  <2>. QED
    BY <1>1, <1>4, <1>8, <2>1, RefusedKeep DEF StillIn
<1>9. ASSUME Agreed(q), listens[q] # 0
      PROVE  WillBeRefused(q)'
  <2>1. CASE About(up, q) = {}
    <3>1. q \in holding
      BY <1>9, <2>1 DEF Agreed
    <3>2. PICK j \in DOMAIN down' : down'[j] = m
      BY <1>4, <3>1
    <3>. QED
      BY <1>2, <3>2 DEF WillBeRefused, Refusal
  <2>2. CASE About(up, q) # {}
    <3>1. EndsWith(up, q, Wish(q))
      BY <1>9, <2>2 DEF Agreed
    <3>2. PICK i \in About(up, q) : \A j \in About(up, q) :
                                        j >= i => up[j] = Wish(q)
      BY <3>1 DEF EndsWith
    <3>3. i \in DOMAIN up /\ i >= i
      <4>1. up \in Seq(Request)
        BY DEF Types, TypeOK
      <4>. QED
        BY <4>1 DEF About
    <3>4. up[i] = Req("listen", listens[q], q)
      BY <1>9, <3>2, <3>3 DEF Wish
    <3>5. \E k \in DOMAIN up' : up'[k] = Req("listen", listens'[q], q)
      BY <1>1, <3>3, <3>4
    <3>. QED
      BY <3>5 DEF WillBeRefused
  <2>. QED
    BY <2>1, <2>2
<1>10. (CanListen' <=> CanListen) /\ (CanWrite' <=> CanWrite)
  BY <1>1 DEF CanListen, CanWrite
<1>11. (\A x \in Query \ denied :
            CanWrite \/ (CanListen /\ listens[x] = 0) => Agreed(x))'
  BY <1>1, <1>7, <1>10 DEF HeldInv
<1>12. (\A x \in Query \cap denied :
            CanWrite /\ listens[x] # 0 => WillBeRefused(x))'
  <2> SUFFICES ASSUME NEW x \in Query \cap denied', CanWrite, listens[x] # 0
               PROVE  WillBeRefused(x)'
    BY <1>1, <1>10
  <2>1. CASE x = q
    BY <1>9, <2>1 DEF HeldInv
  <2>2. CASE x # q
    BY <1>1, <1>8, <2>2 DEF HeldInv
  <2>. QED
    BY <2>1, <2>2
<1>. QED
  BY <1>5, <1>6, <1>11, <1>12 DEF HeldInv

\* Every step keeps the server's listens agreed or being agreed.
LEMMA HeldStep ==
  ASSUME Types, Types', SessionInv, AuthInv, HeldInv, Next
  PROVE  HeldInv'
<1> USE DEF client, auth, link, server, repo, used
<1>1. /\ AppStep \/ LinkStep \/ MessageStep \/ ServerStep
      /\ force \in BOOLEAN /\ authToken \in Nat \cup {None} /\ cached \in Nat
      /\ listens' \in [Query -> Nat]
      /\ holding \subseteq Query /\ holding' \subseteq Query
      /\ None \notin Query
      /\ listens \in [Query -> Nat] /\ interrupts \in SUBSET Reason
  BY NextCases, NoneAssumption DEF Types, TypeOK
<1>2. ASSUME UNCHANGED <<state, listens, holding, denied, up, down>>
      PROVE  HeldInv'
  BY <1>2, HeldQuiet DEF CanWrite, CanListen
\* Sending a message about no query
<1>3. ASSUME UNCHANGED <<state, listens, holding, denied, down>>,
             NEW m \in Request, m.q = None, up' = Append(up, m)
      PROVE  HeldInv'
  BY <1>1, <1>3, HeldQuiet DEF CanWrite, CanListen
<1>4. ASSUME NEW reasons, NEW refresh \in BOOLEAN, UNCHANGED denied,
             OnDisconnect(reasons, refresh)
      PROVE  HeldInv'
  <2>1. Disconnected
    BY <1>4, DisconnectType
  <2>. QED
    BY <1>4, <2>1, HeldOffline DEF Disconnected, CanListen
\* Steps of a client that is not connected
<1>5. ASSUME ~CanListen, ~CanListen', UNCHANGED <<holding, denied, down>>
      PROVE  HeldInv'
  BY <1>5, HeldOffline DEF SessionInv, QuietOffline
<1>6. CASE AppStep
  <2>1. ASSUME NEW q \in Query, Listen(q) PROVE HeldInv'
    <3>1. listens'[q] = count'["listen"] /\ count'["listen"] # 0
      <4>1. "listen" \in Event
        BY DEF Event
      <4>2. count["listen"] \in Nat /\ count'["listen"] = count["listen"] + 1
        BY <2>1, <4>1, HappensType DEF Listen, Types, TypeOK
      <4>3. listens' = [listens EXCEPT ![q] = count'["listen"]]
        BY <2>1 DEF Listen
      <4>. QED
        BY <1>1, <4>2, <4>3
    <3>2. Wish(q)' = Req("listen", listens'[q], q)
      BY <3>1 DEF Wish
    <3>3. /\ UNCHANGED <<state, down, holding, denied>>
          /\ \A x \in Query : x # q => listens'[x] = listens[x]
      BY <1>1, <2>1 DEF Listen
    <3>4. \/ CanListen /\ up' = Append(up, Req("listen", listens'[q], q))
          \/ ~CanListen /\ up' = up
      BY <2>1 DEF Listen
    <3>. QED
      BY <3>2, <3>3, <3>4, HeldSent
  <2>2. ASSUME NEW q \in Query, Unlisten(q) PROVE HeldInv'
    <3>1. /\ UNCHANGED <<state, down, holding, denied>>
          /\ \A x \in Query : x # q => listens'[x] = listens[x]
          /\ listens'[q] = 0
          /\ \/ CanListen /\ up' = Append(up, Req("unlisten", 0, q))
             \/ ~CanListen /\ up' = up
      BY <1>1, <2>2 DEF Unlisten
    <3>2. Wish(q)' = Req("unlisten", 0, q)
      BY <3>1 DEF Wish
    <3>. QED
      BY <3>1, <3>2, HeldSent
  <2>3. ASSUME NEW hash \in BOOLEAN, PutData(hash) PROVE HeldInv'
    <3> DEFINE put == [id |-> count'["put"], hash |-> hash, sent |-> CanWrite]
    <3>1. put \in Put
      <4>1. "put" \in Event
        BY DEF Event
      <4>. QED
        BY <2>3, <4>1, HappensType DEF PutData, Types, Put, CanWrite
    <3>2. PutReq(put) \in Request /\ PutReq(put).q = None
      BY <3>1, ReqType DEF PutReq, Req
    <3>3. /\ UNCHANGED <<state, listens, holding, denied, down>>
          /\ up' = Append(up, PutReq(put)) \/ UNCHANGED up
      BY <2>3 DEF PutData
    <3> HIDE DEF put
    <3>. QED
      BY <1>2, <1>3, <3>2, <3>3
  <2>4. ASSUME OnDisconnectOperation PROVE HeldInv'
    <3>1. count'["onDisconnect"] \in Nat
      BY DEF Types, TypeOK, Event
    <3>2. /\ Req("od", count'["onDisconnect"], None) \in Request
          /\ Req("od", count'["onDisconnect"], None).q = None
      BY <3>1, ReqType DEF Req
    <3>. QED
      BY <1>2, <1>3, <2>4, <3>2 DEF OnDisconnectOperation
  <2>5. ASSUME PurgeOutstandingWrites PROVE HeldInv'
    BY <1>2, <2>5 DEF PurgeOutstandingWrites
  <2>6. ASSUME NEW token \in {None, cached}, RefreshAuthToken(token)
        PROVE  HeldInv'
    <3>1. UNCHANGED <<state, listens, holding, denied, down>>
      BY <2>6 DEF RefreshAuthToken
    <3>2. CASE up' = up
      BY <1>2, <3>1, <3>2
    <3>3. CASE up' = Append(up, Req("unauth", 0, None))
      <4>1. /\ Req("unauth", 0, None) \in Request
            /\ Req("unauth", 0, None).q = None
        BY ReqType DEF Req
      <4>. QED
        BY <1>3, <3>1, <3>3, <4>1
    <3>4. CASE token # None /\ up' = Append(up, AuthReq(token, FALSE))
      <4>1. /\ AuthReq(token, FALSE) \in Request
            /\ AuthReq(token, FALSE).q = None
        BY <1>1, <3>4, ReqType DEF AuthReq, Req
      <4>. QED
        BY <1>3, <3>1, <3>4, <4>1
    <3>. QED
      BY <2>6, <3>2, <3>3, <3>4 DEF RefreshAuthToken
  <2>. QED
    BY <1>6, <2>1, <2>2, <2>3, <2>4, <2>5, <2>6 DEF AppStep
<1>7. ASSUME NEW reason, Interrupt(reason)
      PROVE  HeldInv'
  <2>1. CASE HasRealtime(state)
    BY <1>1, <1>4, <1>7, <2>1 DEF Interrupt
  <2>2. CASE ~HasRealtime(state)
    BY <1>5, <1>7, <2>2 DEF Interrupt, HasRealtime, CanListen
  <2>. QED
    BY <2>1, <2>2
<1>8. CASE OnReady
  <2>1. /\ up = <<>> /\ down = <<>> /\ holding = {} /\ ~CanWrite /\ ~CanListen
        /\ UNCHANGED <<down, listens, holding, denied>>
    BY <1>8 DEF OnReady, SessionInv, QuietOffline, CanListen, CanWrite
  <2>2. \A q \in Query : listens[q] = 0 => Agreed(q)
    BY <2>1 DEF Agreed, About
  <2>3. CASE state' = "connected" /\ RestoreState
    <3>1. StillIn(down', down)
      BY <2>1 DEF StillIn
    <3>. QED
      BY <2>1, <2>2, <2>3, <3>1, HeldRestored
  <2>4. CASE /\ authToken # None /\ state' = "authenticating"
             /\ up' = Append(up, AuthReq(authToken, TRUE))
    <3>1. /\ AuthReq(authToken, TRUE) \in Request
          /\ AuthReq(authToken, TRUE).q = None
      BY <1>1, <2>4, ReqType DEF AuthReq, Req
    <3>2. ASSUME NEW q \in Query PROVE SameEnd(up, up', q)
      <4>1. up \in Seq(Request) /\ AuthReq(authToken, TRUE).q # q
        BY <1>1, <3>1 DEF Types, TypeOK
      <4>. QED
        BY <2>4, <3>1, <4>1, EndAppend
    <3>3. \A q \in Query : listens[q] = 0 => Agreed(q)'
      BY <2>1, <2>2, <3>2, AgreedKeep
    <3>. QED
      BY <2>1, <2>4, <3>3 DEF HeldInv, CanWrite
  <2>. QED
    BY <1>8, <2>3, <2>4 DEF OnReady
<1>9. CASE LinkStep
  <2>1. ASSUME InterruptForReason \/ OnKill PROVE HeldInv'
    BY <1>7, <2>1 DEF InterruptForReason, OnKill
  <2>2. ASSUME ConnectionLost PROVE HeldInv'
    BY <1>1, <1>4, <2>2 DEF ConnectionLost
  <2>3. ASSUME RetryFires PROVE HeldInv'
    BY <1>5, <2>3 DEF RetryFires, SessionInv, StaysOffline, CanListen
  <2>4. ASSUME NEW f \in fetches, TokenFetched(f) PROVE HeldInv'
    BY <1>2, <1>5, <2>4 DEF TokenFetched, MayOpen, CanListen
  <2>5. ASSUME NEW f \in fetches, TokenFetchFailed(f) PROVE HeldInv'
    BY <1>2, <1>5, <2>5 DEF TokenFetchFailed, SessionInv, FetchesAreApart,
       HasRealtime, CanListen
  <2>6. ASSUME NEW reason, ResumeForReason(reason) PROVE HeldInv'
    BY <1>2, <2>6 DEF ResumeForReason
  <2>7. ASSUME OnConnect \/ Wake PROVE HeldInv'
    BY <1>2, <2>7 DEF OnConnect, Wake
  <2>. QED
    BY <1>8, <1>9, <2>1, <2>2, <2>3, <2>4, <2>5, <2>6, <2>7 DEF LinkStep
<1>10. CASE MessageStep
  <2>1. ASSUME TokenRejected, UNCHANGED denied PROVE HeldInv'
    BY <1>4, <2>1 DEF TokenRejected
  <2>2. ASSUME AuthResponse PROVE HeldInv'
    <3>1. /\ Receive({"auth"}) /\ UNCHANGED denied
          /\ down # <<>> /\ Head(down).kind = "auth"
      BY <2>2 DEF AuthResponse, Receive
    <3>2. CanListen /\ (Head(down).restore <=> state = "authenticating")
      BY <3>1, AuthFirst
    <3>3. CASE Head(down).status = "ok"
      <4>1. /\ state' = "connected" /\ down' = Tail(down)
            /\ UNCHANGED <<listens, holding>>
            /\ \/ Head(down).restore /\ RestoreState
               \/ ~Head(down).restore /\ up' = up
        BY <2>2, <3>3 DEF AuthResponse
      <4>2. down \in Seq(Response)
        BY DEF Types, TypeOK
      <4>3. CASE Head(down).restore /\ RestoreState
        <5>1. StillIn(down', down)
          BY <3>1, <4>1, <4>2, StillInCases
        <5>2. \A q \in Query \ denied : listens[q] = 0 => Agreed(q)
          BY <3>2 DEF HeldInv
        <5>. QED
          BY <3>1, <4>1, <4>3, <5>1, <5>2, HeldRestored
      <4>4. CASE ~Head(down).restore /\ up' = up
        <5>1. (CanWrite' <=> CanWrite) /\ (CanListen' <=> CanListen)
          BY <3>2, <4>1, <4>4 DEF CanListen, CanWrite
        <5>2. ~Refusal(Head(down))
          BY <3>1 DEF Refusal
        <5>. QED
          BY <3>1, <4>1, <4>4, <5>1, <5>2, HeldQuiet
      <4>. QED
        BY <4>1, <4>3, <4>4
    <3>4. CASE Head(down).status # "ok"
      BY <2>1, <2>2, <3>1, <3>4 DEF AuthResponse
    <3>. QED
      BY <3>3, <3>4
  <2>3. ASSUME AuthRevoked PROVE HeldInv'
    BY <2>1, <2>3 DEF AuthRevoked
  <2>4. ASSUME PutResponse \/ OnDisconnectResponse PROVE HeldInv'
    <3>1. /\ down # <<>> /\ ~Refusal(Head(down)) /\ down' = Tail(down)
          /\ UNCHANGED <<state, up, listens, holding, denied>>
      BY <2>4 DEF PutResponse, OnDisconnectResponse, Receive, PutKinds, Refusal
    <3>2. (CanWrite' <=> CanWrite) /\ (CanListen' <=> CanListen)
      BY <3>1 DEF CanWrite, CanListen
    <3>. QED
      BY <3>1, <3>2, HeldQuiet
  <2>5. ASSUME ListenResponse \/ ListenRevoked PROVE HeldInv'
    <3> DEFINE q == Head(down).q
    <3>1. /\ down # <<>> /\ down' = Tail(down)
          /\ Head(down).kind \in {"listen", "listenRevoked"}
          /\ UNCHANGED <<state, up, holding, denied>>
      BY <2>5 DEF ListenResponse, ListenRevoked, Receive
    <3>2. q \in Query
      <4>1. Head(down) \in Response
        BY <3>1, QueueTypes DEF Types
      <4>. QED
        BY <3>1, <4>1 DEF Response
    <3>3. CASE ListenRevoked
      <4>1. /\ listens' = [listens EXCEPT ![q] = 0]
            /\ Head(down).kind = "listenRevoked"
        BY <3>3 DEF ListenRevoked, Receive
      <4>2. /\ \A x \in Query : x # q => listens'[x] = listens[x]
            /\ listens'[q] = 0 /\ Refusal(Head(down))
        BY <1>1, <3>2, <4>1 DEF Refusal
      <4>. QED
        BY <3>1, <3>2, <4>2, HeldAnswer
    <3>4. CASE ListenResponse
      <4>1. /\ listens' = IF Refused(Head(down))
                          THEN [listens EXCEPT ![q] = 0] ELSE listens
            /\ Head(down).kind = "listen"
        BY <3>4 DEF ListenResponse, Receive
      <4>2. CASE Refused(Head(down))
        <5>1. /\ \A x \in Query : x # q => listens'[x] = listens[x]
              /\ listens'[q] = 0 /\ Refusal(Head(down))
          BY <1>1, <3>2, <4>1, <4>2 DEF Refusal, Refused
        <5>. QED
          BY <3>1, <3>2, <5>1, HeldAnswer
      <4>3. CASE ~Refused(Head(down))
        <5>1. /\ \A x \in Query : x # q => listens'[x] = listens[x]
              /\ listens'[q] = listens[q]
              /\ listens[q] = Head(down).n => Head(down).status = "ok"
          BY <3>2, <4>1, <4>3 DEF Refused
        <5>. QED
          BY <3>1, <3>2, <4>1, <5>1, HeldAnswer
      <4>. QED
        BY <4>2, <4>3
    <3>. QED
      BY <2>5, <3>3, <3>4
  <2>. QED
    BY <1>10, <2>2, <2>3, <2>4, <2>5 DEF MessageStep, Deliver
<1>11. CASE ServerStep
  <2>1. /\ {"ok", "error", "permission_denied", "expired_token"} \subseteq Status
        /\ \A x : x \notin Query => holding \ {x} = holding
    BY <1>1 DEF Status
  <2>2. /\ up # <<>> => Head(up) \in Request
        /\ up # <<>> /\ Head(up).kind \in {"listen", "unlisten"}
               => Head(up).q \in Query
        /\ up # <<>> /\ Head(up).kind \notin {"listen", "unlisten"}
               => Head(up).q \notin Query
    <3>1. up # <<>> => Head(up) \in Request
      BY QueueTypes DEF Types
    <3>. QED
      BY <1>1, <3>1 DEF Request
  <2>3. ASSUME NEW status \in Status, up # <<>>, up' = Tail(up),
               Head(up).kind \in {"auth", "put", "hashPut", "od"},
               UNCHANGED <<state, listens, holding, denied>>,
               down' = Append(down, Answer(Head(up), status))
        PROVE  HeldInv'
    <3>1. Answer(Head(up), status) \in Response
      BY <2>2, <2>3, AnswerType
    <3>2. ~Refusal(Answer(Head(up), status))
      BY <2>3 DEF Refusal, Answer
    <3>3. (CanWrite' <=> CanWrite) /\ (CanListen' <=> CanListen)
      BY <2>3 DEF CanWrite, CanListen
    <3>4. Head(up).q \notin Query
      BY <2>2, <2>3
    <3>. QED
      BY <2>3, <3>1, <3>2, <3>3, <3>4, HeldQuiet
  <2>4. ASSUME ServerAuth PROVE HeldInv'
    BY <2>1, <2>3, <2>4 DEF ServerAuth
  <2>5. ASSUME NEW status \in {"ok", "error"}, ServerPut(status)
        PROVE  HeldInv'
    BY <2>1, <2>3, <2>5 DEF ServerPut, PutKinds
  <2>6. ASSUME ServerListen PROVE HeldInv'
    <3> DEFINE q == Head(up).q
    <3>1. /\ up # <<>> /\ up' = Tail(up) /\ Head(up).kind = "listen"
          /\ UNCHANGED <<state, listens, denied>>
      BY <2>6 DEF ServerListen
    <3>2. q \in Query
      BY <2>2, <3>1
    <3>3. CASE q \in denied
      <4> DEFINE m == Answer(Head(up), "permission_denied")
      <4>1. m \in Response
        BY <2>1, <2>2, <3>1, AnswerType
      <4>2. m.q = q /\ Refusal(m) /\ m.kind = "listen" /\ m.n = Head(up).n
        BY <3>1 DEF Answer, Refusal
      <4>3. down' = Append(down, m) /\ holding' = holding \ {q}
        BY <2>6, <3>3 DEF ServerListen
      <4>4. /\ q \notin holding'
            /\ \A x \in Query : x # q => (x \in holding' <=> x \in holding)
        BY <4>3
      <4>5. \E r \in Response : /\ r.q = q /\ Refusal(r) /\ r.kind = "listen"
                                /\ r.n = Head(up).n
                                /\ down' = Append(down, r)
        BY <4>1, <4>2, <4>3
      <4>. QED
        BY <1>1, <3>1, <3>2, <3>3, <4>4, <4>5, HeldServed
    <3>4. CASE q \notin denied
      <4> DEFINE m == Answer(Head(up), "ok")
      <4>1. m \in Response
        BY <2>1, <2>2, <3>1, AnswerType
      <4>2. ~Refusal(m)
        BY <3>1 DEF Answer, Refusal
      <4>3. down' = Append(down, m) /\ holding' = holding \cup {q}
        BY <2>6, <3>4 DEF ServerListen
      <4>4. /\ q \in holding'
            /\ \A x \in Query : x # q => (x \in holding' <=> x \in holding)
        BY <4>3
      <4>5. \E r \in Response : ~Refusal(r) /\ down' = Append(down, r)
        BY <4>1, <4>2, <4>3
      <4>. QED
        BY <1>1, <3>1, <3>2, <3>4, <4>4, <4>5, HeldServed
    <3>. QED
      BY <3>3, <3>4
  <2>7. ASSUME ServerOther PROVE HeldInv'
    <3>1. /\ up # <<>> /\ up' = Tail(up)
          /\ UNCHANGED <<state, listens, denied>>
          /\ holding' = holding \ {Head(up).q}
          /\ Head(up).kind \in {"unlisten", "unauth", "od"}
          /\ Head(up).kind = "od" => down' = Append(down, Answer(Head(up), "ok"))
          /\ Head(up).kind # "od" => down' = down
      BY <2>7 DEF ServerOther
    <3>2. CASE Head(up).kind = "unlisten"
      <4>1. Head(up).q \in Query
        BY <2>2, <3>1, <3>2
      <4>2. /\ Head(up).q \notin holding' /\ down' = down
            /\ \A x \in Query : x # Head(up).q
                                    => (x \in holding' <=> x \in holding)
        BY <3>1, <3>2
      <4>. QED
        BY <1>1, <3>1, <3>2, <4>1, <4>2, HeldServed
    <3>3. CASE Head(up).kind = "od"
      <4>1. holding' = holding
        BY <2>1, <2>2, <3>1, <3>3
      <4>. QED
        BY <2>1, <2>3, <3>1, <3>3, <4>1
    <3>4. CASE Head(up).kind = "unauth"
      <4>1. Head(up).q \notin Query /\ holding' = holding /\ down' = down
        BY <2>1, <2>2, <3>1, <3>4
      <4>2. (CanWrite' <=> CanWrite) /\ (CanListen' <=> CanListen)
        BY <3>1 DEF CanWrite, CanListen
      <4>. QED
        BY <3>1, <4>1, <4>2, HeldQuiet
    <3>. QED
      BY <3>1, <3>2, <3>3, <3>4
  <2>8. ASSUME ServerRevokesAuth PROVE HeldInv'
    <3> DEFINE m == Answer(Req("authRevoked", 0, None), "expired_token")
    <3>1. m \in Response /\ ~Refusal(m)
      BY NoneAssumption DEF Answer, Req, Response, Status, Refusal
    <3>2. /\ UNCHANGED <<state, listens, up, holding, denied>>
          /\ down' = Append(down, m) \/ down' = down
      BY <2>8 DEF ServerRevokesAuth
    <3>3. (CanWrite' <=> CanWrite) /\ (CanListen' <=> CanListen)
      BY <3>2 DEF CanWrite, CanListen
    <3> HIDE DEF m
    <3>. QED
      BY <3>1, <3>2, <3>3, HeldQuiet
  <2>9. ASSUME NEW q \in Query, ServerRevokesListen(q) PROVE HeldInv'
    <3>1. q \in Query \ denied
      BY <2>9 DEF ServerRevokesListen
    <3>. QED
      BY <2>9, <3>1, HeldRevoked
  <2>. QED
    BY <1>11, <2>4, <2>5, <2>6, <2>7, <2>8, <2>9 DEF ServerStep, Server
<1>. QED
  BY <1>1, <1>6, <1>9, <1>10, <1>11

-----------------------------------------------------------------------------
(* The theorems.                                                           *)

\* The inductive invariant: who holds what, between any two steps.
IInv ==
    /\ Types
    /\ SessionInv
    /\ UnackedIsInFlight
    /\ CompletionInv
    /\ AuthInv
    /\ OrderInv
    /\ HeldInv

\* The initial values have their types.
LEMMA TypesInit ==
  ASSUME Init
  PROVE  Types
<1>1. left \in Nat /\ count \in [Event -> Nat] /\ budget \in Budgets
  BY BoundAssumption DEF Init
<1>2. TypeOK
  <2>1. \A S : <<>> \in Seq(S)
    OBVIOUS
  <2>2. /\ putsToAck \in Seq(Answered) /\ odQueue \in Seq(Nat)
        /\ up \in Seq(Request) /\ down \in Seq(Response)
        /\ done \in Seq(Answered) /\ received \in Seq(Request)
    BY <2>1 DEF Init
  <2>3. listens \in [Query -> Nat] /\ puts \in SUBSET Put
    BY DEF Init
  <2>4. state \in State /\ interrupts \in SUBSET Reason
    BY DEF Init, State, Reason
  <2>5. /\ retry \in BOOLEAN \cup {None} /\ authToken \in Nat \cup {None}
        /\ force \in BOOLEAN /\ connected \in BOOLEAN /\ stale \in BOOLEAN
        /\ attempt \in Nat /\ unacked \in Nat /\ posted \in Nat
        /\ minToken \in Nat /\ cached \in Nat
        /\ fetches \in SUBSET [n : Nat, refresh : BOOLEAN]
        /\ holding \in SUBSET Query /\ denied \in SUBSET Query
        /\ writes \in SUBSET Nat /\ orphans \in SUBSET Nat
    BY DEF Init
  <2>. QED
    BY <1>1, <2>2, <2>3, <2>4, <2>5 DEF TypeOK
<1>3. Active = {} /\ puts = {}
  BY DEF Init, Active
<1>4. IsFiniteSet(Active) /\ IsFiniteSet(puts)
  BY <1>3, FS_EmptySet
<1>. QED
  BY <1>2, <1>4 DEF Types

\* The inductive invariant holds at the start,
LEMMA IInvInit ==
  ASSUME Init
  PROVE  IInv
BY TypesInit, SessionInit, UnackedInit, CompletionInit, AuthInit, OrderInit,
   HeldInit DEF IInv

\* A step that changes nothing
LEMMA IInvStutter ==
  ASSUME IInv, UNCHANGED vars
  PROVE  IInv'
<1> USE DEF vars, link, client, server, repo, used, auth
<1>1. Types'
  BY DEF IInv, Types, TypeOK, Active
<1>2. SessionInv'
  BY DEF IInv, SessionInv, StaysOffline, FetchesAreApart, QuietOffline,
     InfoSeesConnection, CanListen
<1>3. UnackedIsInFlight'
  BY DEF IInv, UnackedIsInFlight
<1>4. CompletionInv'
  BY DEF IInv, CompletionInv
<1>5. AuthInv'
  BY AuthKeep DEF IInv
<1>6. OrderInv'
  <2>1. CanWrite' <=> CanWrite
    BY DEF CanWrite
  <2>. QED
    BY <1>1, <2>1, OrderStays DEF IInv
<1>7. HeldInv'
  <2>1. (CanWrite' <=> CanWrite) /\ (CanListen' <=> CanListen)
    BY DEF CanWrite, CanListen
  <2>. QED
    BY <2>1, HeldQuiet DEF IInv
<1>. QED
  BY <1>1, <1>2, <1>3, <1>4, <1>5, <1>6, <1>7 DEF IInv

\* and every step keeps it,
LEMMA IInvStep ==
  ASSUME IInv, Next
  PROVE  IInv'
<1>1. AppStep \/ LinkStep \/ MessageStep \/ ServerStep
  BY NextCases
<1>2. Types /\ SessionInv /\ UnackedIsInFlight /\ Countable
  BY UnackedCountable DEF IInv, Types
<1>3. Types'
  BY <1>1, <1>2, TypesAppStep, TypesLinkStep, TypesMessageStep, TypesServerStep
<1>4. SessionInv'
  BY <1>1, <1>2, SessionAppStep, SessionLinkStep, SessionMessageStep,
     SessionServerStep
<1>5. UnackedIsInFlight'
  BY <1>1, <1>2, UnackedAppStep, UnackedLinkStep, UnackedMessageStep,
     UnackedServerStep
<1>6. CompletionInv'
  BY CompletionStep DEF IInv
<1>7. AuthInv'
  BY AuthStep DEF IInv
<1>8. OrderInv'
  BY <1>3, OrderStep DEF IInv
<1>9. HeldInv'
  BY <1>3, HeldStep DEF IInv
<1>. QED
  BY <1>3, <1>4, <1>5, <1>6, <1>7, <1>8, <1>9 DEF IInv

\* so that it holds always.
LEMMA IInvHolds == Spec => []IInv
<1>1. Init => IInv
  BY IInvInit
<1>2. IInv /\ [Next]_vars => IInv'
  BY IInvStep, IInvStutter
<1>. QED
  BY <1>1, <1>2, PTL DEF Spec

\* Every variable keeps its type: unackedListensCount, which is unsigned in the
\* code, is never counted below zero.
THEOREM TypesAreKept == Spec => []TypeOK
<1>1. IInv => TypeOK
  BY DEF IInv, Types
<1>. QED
  BY <1>1, IInvHolds, PTL

\* An interrupted client stays off the network, and a retry only waits while it
\* is disconnected, whatever timer, token callback or socket was under way.
THEOREM OfflineIsKept == Spec => []StaysOffline
<1>1. IInv => StaysOffline
  BY DEF IInv, SessionInv
<1>. QED
  BY <1>1, IInvHolds, PTL

\* /.info/connected is true on every open connection whose posted blocks have
\* run, also when one of them belonged to an earlier connection.
THEOREM InfoIsRight == Spec => []InfoSeesConnection
<1>1. IInv => InfoSeesConnection
  BY DEF IInv, SessionInv
<1>. QED
  BY <1>1, IInvHolds, PTL

\* The unsigned count of unanswered listens is the number of listens in flight,
\* so the answers it holds back are let go exactly with the last of them.
THEOREM CountIsRight == Spec => []UnackedIsInFlight
<1>1. IInv => UnackedIsInFlight
  BY DEF IInv
<1>. QED
  BY <1>1, IInvHolds, PTL

\* No write is completed twice, whatever answers, cancellations and purges
\* follow each other.
THEOREM CompletionsAreSingle == Spec => []CompletedOnce
<1>1. IInv => CompletedOnce
  BY DEF IInv, CompletionInv, Distinct, CompletedOnce
<1>. QED
  BY <1>1, IInvHolds, PTL

\* The server never gets a transaction's put twice, although plain writes are
\* sent again on every new connection.
THEOREM TransactionsAreSingle == Spec => []TransactionSentOnce
<1>1. IInv => TransactionSentOnce
  BY DEF IInv, OrderInv, TransactionsAreNew
<1>. QED
  BY <1>1, IInvHolds, PTL

\* No write reaches the server for the first time after a later one.
THEOREM WritesAreInOrder == Spec => []ReceivedInOrder
<1>1. IInv => ReceivedInOrder
  BY DEF IInv, OrderInv, NotOvertaken
<1>. QED
  BY <1>1, IInvHolds, PTL

\* What the invariant says when nothing about listens is on its way
LEMMA HeldMeans ==
  ASSUME Types, HeldInv
  PROVE  ListensHeld
<1> SUFFICES ASSUME state = "connected",
                    \A kind \in {"listen", "unlisten", "listenRevoked"} :
                        OfKind(up, kind) \cup OfKind(down, kind) = {}
             PROVE  holding = {q \in Query : listens[q] # 0}
  BY DEF ListensHeld
<1>1. /\ \A i \in DOMAIN up : up[i].kind \notin {"listen", "unlisten"}
      /\ \A i \in DOMAIN down : down[i].kind \notin {"listen", "listenRevoked"}
  BY DEF OfKind
<1>2. \A q \in Query : About(up, q) = {}
  <2> SUFFICES ASSUME NEW i \in DOMAIN up
               PROVE  up[i].q \notin Query
    BY DEF About
  <2>1. up[i] \in Request
    BY DEF Types, TypeOK
  <2>. QED
    BY <1>1, <2>1, NoneAssumption DEF Request
<1>3. \A q \in Query : ~WillBeRefused(q)
  BY <1>1 DEF WillBeRefused, Refusal, Req
<1>4. CanWrite
  BY DEF CanWrite
<1>5. ASSUME NEW q \in Query
      PROVE  q \in holding <=> listens[q] # 0
  <2>1. CASE q \in denied
    BY <1>3, <1>4, <2>1 DEF HeldInv
  <2>2. CASE q \notin denied
    BY <1>2, <1>4, <2>2 DEF HeldInv, Agreed
  <2>. QED
    BY <2>1, <2>2
<1>6. holding \subseteq Query
  BY DEF Types, TypeOK
<1>. QED
  BY <1>5, <1>6

\* Once nothing about a listen is in flight, the server holds exactly the
\* listens the client believes it has.
THEOREM ListensAreHeld == Spec => []ListensHeld
<1>1. IInv => ListensHeld
  BY HeldMeans DEF IInv
<1>. QED
  BY <1>1, IInvHolds, PTL
==============================================================================
