------------------------ MODULE PersistentConnection ------------------------
(***************************************************************************)
(* FPersistentConnection with the FConnection under it and the             *)
(* FIRRetryHelper beside it: the client's one connection to the Firebase   *)
(* server, which outlives the sockets it runs on.  It fetches a token,     *)
(* connects, authenticates, then sends every listen, every write and every *)
(* onDisconnect operation it still owes the server.                        *)
(*                                                                         *)
(* All its code runs on the database's serial dispatch queue: an action is *)
(* one block of that queue.  What reaches it from outside (timer, token    *)
(* callback, socket, reachability, the app's calls) may come in any order. *)
(* The server and the token provider are external and modelled from the    *)
(* messages the client sends them and what it does with the answers.       *)
(***************************************************************************)
EXTENDS Naturals, Sequences, FiniteSets

CONSTANTS
    Query,      \* query specs the app can listen to
    None,       \* nil
    HasUser,    \* whether the token provider has a signed-in user
    Budgets     \* BOUND: [most, total], how often each event outside the
                \* client's control may happen, and how many may in all

Event == {"listen", "put", "onDisconnect", "interrupt", "drop", "shutdown",
          "wake", "purge", "fetchError", "tokenChange", "revokeAuth",
          "revokeListen", "refuse"}

ASSUME BoundAssumption == Budgets \subseteq [most : [Event -> Nat], total : Nat]
ASSUME UserAssumption == HasUser \in BOOLEAN
ASSUME NoneAssumption == None \notin Query /\ None \notin Nat

VARIABLES
    state,      \* connectionState
    interrupts, \* interruptReasons
    retry,      \* scheduledRetry: the forceRefresh its block captured, or None
    attempt,    \* currentFetchTokenAttempt
    fetches,    \* token fetches whose callback has not run
    authToken,  \* authToken: a version number, or None
    force,      \* forceAuthTokenRefresh
    listens,    \* listens: which FOutstandingQuery a query has, 0 for none
    unacked,    \* unackedListensCount
    puts,       \* outstandingPuts
    putsToAck,  \* putsToAck: answers held back until the listens are answered
    odQueue,    \* onDisconnectQueue
    posted,     \* blocks on the queue that will call the delegate's onConnect
    \* The socket and the two ends of it
    up, down,   \* messages to the server, messages to the client
    holding,    \* listens the server has for this connection
    denied,     \* queries its rules deny
    minToken,   \* the oldest token version the server still accepts
    cached,     \* the version the token provider has cached
    \* The delegate, FRepo
    connected,  \* /.info/connected
    writes,     \* pending writes in FRepo's write tree, by put index
    \* Bounds and history
    count,      \* how often each event has happened
    left,       \* how many events may still happen
    budget,     \* the budget of this run
    done,       \* history: completions in the order they were called
    received,   \* history: puts the server received, repeats included
    orphans,    \* history: puts answered when FRepo had no such write
    stale       \* history: the server revoked the token, no refresh since

client  == <<listens, puts, putsToAck, odQueue>>
auth    == <<authToken, force>>
link    == <<state, interrupts, retry, attempt, fetches, auth, unacked,
             posted>>
server  == <<holding, denied, minToken, cached, received>>
repo    == <<connected, writes, done, orphans>>
used    == <<count, left, budget>>
vars    == <<link, client, up, down, server, repo, used, stale>>

-----------------------------------------------------------------------------
Reason == {"waiting_for_open", "server_kill", "repo_interrupt"}
State  == {"disconnected", "gettingToken", "connecting", "authenticating",
           "connected"}

\* There is an FConnection, opening or open.
HasRealtime(s) == s \in {"connecting", "authenticating", "connected"}
\* [self connected] and [self canSendWrites]
CanListen == state \in {"authenticating", "connected"}
CanWrite  == state = "connected"

Request ==
    {r \in [kind : {"auth", "unauth", "listen", "unlisten", "put", "hashPut",
                    "od"},
            n : Nat,                    \* token, listen, put or operation
            q : Query \cup {None},
            restore : BOOLEAN] :        \* restoreStateAfterComplete
        r.q # None <=> r.kind \in {"listen", "unlisten"}}
Status == {"ok", "error", "permission_denied", "expired_token", "disconnect",
           "write_canceled"}
Response ==
    {r \in [kind : {"auth", "authRevoked", "listen", "listenRevoked", "put",
                    "hashPut", "od"},
            n : Nat, q : Query \cup {None}, restore : BOOLEAN,
            status : Status] :
        r.q # None <=> r.kind \in {"listen", "listenRevoked"}}
Put      == [id : Nat, hash : BOOLEAN, sent : BOOLEAN]
Answered == [id : Nat, status : Status]
Req(kind, n, q)  == [kind |-> kind, n |-> n, q |-> q, restore |-> FALSE]
AuthReq(token, restore) ==
    [Req("auth", token, None) EXCEPT !.restore = restore]
PutReq(put) == Req(IF put.hash THEN "hashPut" ELSE "put", put.id, None)
PutKinds == {"put", "hashPut"}

Happens(e) ==
    /\ count[e] < budget.most[e] /\ budget' = budget
    /\ count' = [count EXCEPT ![e] = @ + 1]
    /\ left > 0 /\ left' = left - 1

PutIds(S) == {p.id : p \in S}
AnsweredIds(s) == {s[i].id : i \in DOMAIN s}
OfKind(s, kind) == {i \in DOMAIN s : s[i].kind = kind}

\* The ways to go through a dictionary: each of its values once.
Orders(S) ==
    {s \in [1..Cardinality(S) -> S] : \A x \in S : \E i \in DOMAIN s : s[i] = x}
\* sortedArrayUsingSelector of the dictionary's keys
Sorted(s) == \A i, j \in DOMAIN s : i < j => s[i].id < s[j].id

-----------------------------------------------------------------------------
Init ==
    /\ state = "disconnected"
    /\ interrupts = {"waiting_for_open"}
    /\ retry = None
    /\ attempt = 0
    /\ fetches = {}
    /\ authToken = None
    /\ force = FALSE
    /\ listens = [q \in Query |-> 0]
    /\ unacked = 0
    /\ puts = {}
    /\ putsToAck = <<>>
    /\ odQueue = <<>>
    /\ posted = 0
    /\ up = <<>> /\ down = <<>>
    /\ holding = {}
    /\ denied = {}
    /\ minToken = 1 /\ cached = 1
    /\ connected = FALSE
    /\ writes = {}
    /\ budget \in Budgets
    /\ count = [e \in Event |-> 0] /\ left = budget.total
    /\ done = <<>>
    /\ received = <<>>
    /\ orphans = {}
    /\ stale = FALSE

-----------------------------------------------------------------------------
(* Pieces of the handlers.                                                 *)

\* The callbacks of some puts run, in order: FRepo drops the write of each,
\* unless it is told "write_canceled", for which it has dropped it already.
Complete(batch, known) ==
    LET acked == {batch[i].id : i \in {j \in DOMAIN batch :
                     batch[j].status # "write_canceled"}} IN
    /\ done' = done \o batch
    /\ writes' = known \ acked
    /\ orphans' = orphans \cup (acked \ known)

Report(order, status) ==
    [i \in DOMAIN order |-> [id |-> order[i].id, status |-> status]]

Hold == UNCHANGED <<done, writes, orphans>>

\* Mutant: the answers held back are kept after they were reported.
AckPuts_Keep == Complete(putsToAck, writes) /\ UNCHANGED putsToAck
\* ackPuts
AckPuts == Complete(putsToAck, writes) /\ putsToAck' = <<>>

\* Mutant: a listen is not counted until it is answered.
CountListens_Not(n) == UNCHANGED unacked
\* the end of sendListen, n times
CountListens(n) == unacked' = unacked + n

\* Mutant: the count of unanswered listens outlives the connection.
ForgetRequests_KeepCount ==
    up' = <<>> /\ down' = <<>> /\ holding' = {} /\ UNCHANGED unacked
\* The socket is gone: its messages, the request callbacks, the server's
\* listens for it.
ForgetRequests ==
    up' = <<>> /\ down' = <<>> /\ holding' = {} /\ unacked' = 0

\* Mutant: a connection closed for its token waits for the next wake-up.
TryScheduleReconnect_NotForced(reasons, refresh) ==
    IF reasons = {} /\ ~refresh
    THEN retry' = refresh /\ force' = FALSE
    ELSE force' = refresh /\ UNCHANGED retry
\* tryScheduleReconnect: the flag moves into the block, which replaces the
\* block already scheduled.
TryScheduleReconnect(reasons, refresh) ==
    IF reasons = {}
    THEN retry' = refresh /\ force' = FALSE
    ELSE force' = refresh /\ UNCHANGED retry

\* Mutant: a sent transaction is kept, to be sent again.
CancelSentTransactions_Keep ==
    /\ UNCHANGED puts
    /\ Complete(<<>>, writes)
\* cancelSentTransactions: a transaction the server may have seen is given up,
\* in the order in which the dictionary is enumerated
CancelSentTransactions ==
    LET gone == {p \in puts : p.hash /\ p.sent} IN
    /\ puts' = puts \ gone
    /\ \E order \in Orders(gone) :
           Complete(Report(order, "disconnect"), writes)

\* FConnection's closeWithReason and the delegate's onDisconnect, which it
\* calls before it returns
OnDisconnect(reasons, refresh) ==
    /\ state' = "disconnected"
    /\ CancelSentTransactions
    /\ ForgetRequests
    /\ TryScheduleReconnect(reasons, refresh)
    /\ connected' = FALSE
    /\ UNCHANGED <<attempt, fetches, listens, putsToAck, odQueue, posted>>

\* interruptForReason
Interrupt(reason) ==
    /\ interrupts' = interrupts \cup {reason}
    /\ \/ /\ HasRealtime(state)
          /\ OnDisconnect(interrupts', force)
       \/ /\ ~HasRealtime(state)
          /\ retry' = None
          /\ state' = "disconnected"
          /\ Hold
          /\ UNCHANGED <<attempt, fetches, force, unacked, posted, client, up,
                         down, holding, connected>>
    /\ UNCHANGED <<authToken, denied, minToken, cached, received, stale>>

\* Mutant: puts that were sent before are not sent again.
PutRequests_Unsent(s) ==
    LET new == SelectSeq(s, LAMBDA p : ~p.sent) IN
    [i \in DOMAIN new |-> PutReq(new[i])]
\* Mutant: outstanding puts are sent newest first.
PutRequests_Reversed(s) ==
    [i \in DOMAIN s |-> PutReq(s[Len(s) + 1 - i])]
PutRequests(s) == [i \in DOMAIN s |-> PutReq(s[i])]

\* restoreState: every listen, in no particular order, then every put by
\* index, then the queued onDisconnect operations
RestoreState ==
    LET active == {q \in Query : listens[q] # 0} IN
    /\ \E order \in Orders(active), keys \in Orders(puts) :
         /\ Sorted(keys)
         /\ up' = up
               \o [i \in DOMAIN order |->
                      Req("listen", listens[order[i]], order[i])]
               \o PutRequests(keys)
               \o [i \in DOMAIN odQueue |-> Req("od", odQueue[i], None)]
    /\ CountListens(Cardinality(active))
    /\ puts' = {[p EXCEPT !.sent = TRUE] : p \in puts}
    /\ odQueue' = <<>>

-----------------------------------------------------------------------------
(* Calls from FRepo.                                                       *)

\* listen: sent at once even while the authentication is still running
Listen(q) ==
    /\ listens[q] = 0
    /\ Happens("listen")
    /\ listens' = [listens EXCEPT ![q] = count'["listen"]]
    /\ \/ /\ CanListen
          /\ up' = Append(up, Req("listen", listens'[q], q))
          /\ CountListens(1)
       \/ ~CanListen /\ UNCHANGED <<up, unacked>>
    /\ UNCHANGED <<state, interrupts, retry, attempt, fetches, auth, posted,
                   puts, putsToAck, odQueue, down, server, repo, stale>>

Unlisten(q) ==
    /\ listens[q] # 0
    /\ listens' = [listens EXCEPT ![q] = 0]
    /\ \/ CanListen /\ up' = Append(up, Req("unlisten", 0, q))
       \/ ~CanListen /\ UNCHANGED up
    /\ UNCHANGED <<link, puts, putsToAck, odQueue, down, server, repo, used,
                   stale>>

\* putData or mergeData, with a hash if a transaction makes it
PutData(hash) ==
    /\ Happens("put")
    /\ LET put == [id |-> count'["put"], hash |-> hash, sent |-> CanWrite] IN
       /\ puts' = puts \cup {put}
       /\ writes' = writes \cup {put.id}
       /\ \/ CanWrite /\ up' = Append(up, PutReq(put))
          \/ ~CanWrite /\ UNCHANGED up
    /\ UNCHANGED <<link, listens, putsToAck, odQueue, down, server, connected,
                   done, orphans, stale>>

\* onDisconnectPutData, onDisconnectMergeData, onDisconnectCancelPath
OnDisconnectOperation ==
    /\ Happens("onDisconnect")
    /\ LET id == count'["onDisconnect"] IN
       \/ /\ CanWrite
          /\ up' = Append(up, Req("od", id, None))
          /\ UNCHANGED odQueue
       \/ ~CanWrite /\ odQueue' = Append(odQueue, id) /\ UNCHANGED up
    /\ UNCHANGED <<link, listens, puts, putsToAck, down, server, repo, stale>>

\* FRepo drops its writes first; the answers held back come next, then every
\* outstanding put is cancelled.
PurgeOutstandingWrites ==
    /\ Happens("purge")
    /\ \E keys \in Orders(puts) :
         /\ Sorted(keys)
         /\ Complete(putsToAck \o Report(keys, "write_canceled"), {})
    /\ putsToAck' = <<>> /\ puts' = {} /\ odQueue' = <<>>
    /\ UNCHANGED <<link, listens, up, down, server, connected, stale>>

\* FRepo's interrupt (goOffline)
InterruptForReason ==
    /\ Happens("interrupt")
    /\ Interrupt("repo_interrupt")

\* open, and FRepo's resume (goOnline)
ResumeForReason(reason) ==
    /\ reason \in interrupts
    /\ interrupts' = interrupts \ {reason}
    /\ IF state = "disconnected" THEN TryScheduleReconnect(interrupts', force)
       ELSE UNCHANGED <<retry, force>>
    /\ UNCHANGED <<state, attempt, fetches, authToken, unacked, posted, client,
                   up, down, server, repo, used, stale>>

\* refreshAuthToken: the user of the token provider signs out, or in (again)
RefreshAuthToken(token) ==
    /\ HasUser
    /\ Happens("tokenChange")
    /\ authToken' = token
    /\ up' = IF ~CanListen THEN up
             ELSE IF token = None THEN Append(up, Req("unauth", 0, None))
             ELSE Append(up, AuthReq(token, FALSE))
    /\ UNCHANGED <<state, interrupts, retry, attempt, fetches, force, unacked,
                   posted, client, down, server, repo, stale>>

-----------------------------------------------------------------------------
(* Connecting.                                                             *)

\* The timer of FIRRetryHelper fires.
RetryFires ==
    /\ retry # None
    /\ state' = "gettingToken"
    /\ attempt' = attempt + 1
    /\ fetches' = fetches \cup {[n |-> attempt', refresh |-> retry]}
    /\ retry' = None
    /\ stale' = (stale /\ ~retry)
    /\ UNCHANGED <<interrupts, auth, unacked, posted, client, up, down, server,
                   repo, used>>

\* Mutant: nobody checks that the connection was interrupted meanwhile.
MayOpen_Anyway(f) == f.n = attempt
\* the fetch is the latest, and no interrupt came while it ran
MayOpen(f) == f.n = attempt /\ state = "gettingToken"

\* The token callback runs without an error.
TokenFetched(f) ==
    /\ f \in fetches
    /\ fetches' = fetches \ {f}
    /\ cached' = IF f.refresh THEN minToken ELSE cached
    /\ \/ /\ MayOpen(f)
          /\ authToken' = IF HasUser THEN cached' ELSE None
          /\ state' = "connecting"
       \/ ~MayOpen(f) /\ UNCHANGED <<authToken, state>>
    /\ UNCHANGED <<interrupts, retry, attempt, force, unacked, posted, client,
                   up, down, holding, denied, minToken, received, repo, used,
                   stale>>

\* The token callback runs with an error.
TokenFetchFailed(f) ==
    /\ f \in fetches
    /\ Happens("fetchError")
    /\ fetches' = fetches \ {f}
    /\ \/ /\ f.n = attempt
          /\ state' = "disconnected"
          /\ TryScheduleReconnect(interrupts, force)
       \/ f.n # attempt /\ UNCHANGED <<state, retry, force>>
    /\ UNCHANGED <<interrupts, attempt, authToken, unacked, posted, client, up,
                   down, server, repo, stale>>

\* FConnection's handshake: onReady, restoreAuth, and a block that will tell
\* FRepo
OnReady ==
    /\ state = "connecting"
    /\ posted' = posted + 1
    /\ \/ /\ authToken = None
          /\ state' = "connected"
          /\ RestoreState
       \/ /\ authToken # None
          /\ state' = "authenticating"
          /\ up' = Append(up, AuthReq(authToken, TRUE))
          /\ UNCHANGED <<unacked, puts, odQueue>>
    /\ UNCHANGED <<interrupts, retry, attempt, fetches, auth, listens,
                   putsToAck, down, server, repo, used, stale>>

\* Mutant: the block looks whether the authentication is over.
OnConnect_IfAuthenticated ==
    /\ posted > 0
    /\ posted' = posted - 1
    /\ connected' = (connected \/ state = "connected")
    /\ UNCHANGED <<state, interrupts, retry, attempt, fetches, auth, unacked,
                   client, up, down, server, writes, done, orphans, used,
                   stale>>

\* The posted block calls FRepo's onConnect.
OnConnect ==
    /\ posted > 0
    /\ posted' = posted - 1
    /\ connected' = TRUE
    /\ UNCHANGED <<state, interrupts, retry, attempt, fetches, auth, unacked,
                   client, up, down, server, writes, done, orphans, used,
                   stale>>

\* The socket fails, or the server resets the connection.
ConnectionLost ==
    /\ HasRealtime(state)
    /\ Happens("drop")
    /\ OnDisconnect(interrupts, force)
    /\ UNCHANGED <<interrupts, authToken, denied, minToken, cached, received,
                   stale>>

\* The server's shutdown message: onKill.
OnKill ==
    /\ HasRealtime(state)
    /\ Happens("shutdown")
    /\ Interrupt("server_kill")

\* enteringForeground, or the reachability callback with a reachable network
Wake ==
    /\ state = "disconnected" /\ interrupts = {}
    /\ Happens("wake")
    /\ TryScheduleReconnect(interrupts, force)
    /\ UNCHANGED <<state, interrupts, attempt, fetches, authToken, unacked,
                   posted, client, up, down, server, repo, stale>>

-----------------------------------------------------------------------------
(* Messages from the server.                                               *)

Receive(kinds) ==
    /\ down # <<>>
    /\ Head(down).kind \in kinds

\* The token is no longer good: forget it, refresh it, and reconnect.
TokenRejected ==
    /\ authToken' = None
    /\ stale' = TRUE
    /\ OnDisconnect(interrupts, TRUE)

AuthResponse ==
    /\ Receive({"auth"})
    /\ LET m == Head(down) IN
       \/ /\ m.status = "ok"
          /\ state' = "connected"
          /\ down' = Tail(down)
          /\ \/ m.restore /\ RestoreState
             \/ ~m.restore /\ UNCHANGED <<up, unacked, puts, odQueue>>
          /\ UNCHANGED <<retry, attempt, fetches, auth, posted, listens,
                         putsToAck, holding, repo, stale>>
       \/ m.status # "ok" /\ TokenRejected
    /\ UNCHANGED <<interrupts, denied, minToken, cached, received, used>>

\* onAuthRevoked
AuthRevoked ==
    /\ Receive({"authRevoked"})
    /\ TokenRejected
    /\ UNCHANGED <<interrupts, denied, minToken, cached, received, used>>

\* Mutant: only the status "error" counts as a refusal.
Refused_Error(m) == listens[m.q] = m.n /\ m.status = "error"
\* currentListenSpec == listenSpec, and the status is not "ok"
Refused(m) == listens[m.q] = m.n /\ m.status # "ok"

\* onResponse of sendListen: the answer counts only for the listen it was
\* sent for, not for one added later for the same query.
ListenResponse ==
    /\ Receive({"listen"})
    /\ LET m == Head(down) IN
       /\ down' = Tail(down)
       /\ listens' = IF Refused(m) THEN [listens EXCEPT ![m.q] = 0]
                     ELSE listens
       /\ unacked' = unacked - 1
       /\ \/ unacked' = 0 /\ AckPuts
          \/ unacked' # 0 /\ Hold /\ UNCHANGED putsToAck
    /\ UNCHANGED <<state, interrupts, retry, attempt, fetches, auth, posted,
                   puts, odQueue, up, server, connected, used, stale>>

\* the response block of sendPut
PutResponse ==
    /\ Receive(PutKinds)
    /\ LET m == Head(down)
           answer == <<[id |-> m.n, status |-> m.status]>> IN
       /\ down' = Tail(down)
       /\ puts' = {p \in puts : p.id # m.n}
       /\ \/ /\ m.n \in PutIds(puts) /\ unacked = 0
             /\ Complete(answer, writes)
             /\ UNCHANGED putsToAck
          \/ /\ m.n \in PutIds(puts) /\ unacked # 0
             /\ putsToAck' = putsToAck \o answer
             /\ Hold
          \/ /\ m.n \notin PutIds(puts)
             /\ Hold
             /\ UNCHANGED putsToAck
    /\ UNCHANGED <<link, listens, odQueue, up, server, connected, used,
                   stale>>

\* the response block of sendOnDisconnectAction
OnDisconnectResponse ==
    /\ Receive({"od"})
    /\ down' = Tail(down)
    /\ UNCHANGED <<link, client, up, server, repo, used, stale>>

\* onListenRevoked
ListenRevoked ==
    /\ Receive({"listenRevoked"})
    /\ down' = Tail(down)
    /\ listens' = [listens EXCEPT ![Head(down).q] = 0]
    /\ UNCHANGED <<link, puts, putsToAck, odQueue, up, server, repo, used,
                   stale>>

-----------------------------------------------------------------------------
(* The server.                                                             *)

Answer(r, status) ==
    [kind |-> r.kind, n |-> r.n, q |-> r.q, restore |-> r.restore,
     status |-> status]

ServerAuth ==
    /\ up # <<>> /\ Head(up).kind = "auth"
    /\ up' = Tail(up)
    /\ down' = Append(down, Answer(Head(up), IF Head(up).n >= minToken
                                             THEN "ok" ELSE "expired_token"))
    /\ UNCHANGED <<link, client, server, repo, used, stale>>

ServerListen ==
    /\ up # <<>> /\ Head(up).kind = "listen"
    /\ up' = Tail(up)
    /\ LET q == Head(up).q IN
       \/ /\ q \in denied
          /\ down' = Append(down, Answer(Head(up), "permission_denied"))
          /\ holding' = holding \ {q}
       \/ /\ q \notin denied
          /\ down' = Append(down, Answer(Head(up), "ok"))
          /\ holding' = holding \cup {q}
    /\ UNCHANGED <<link, client, denied, minToken, cached, received, repo,
                   used,
                   stale>>

\* It may refuse a write, by its rules or a transaction's hash.
ServerPut(status) ==
    /\ up # <<>> /\ Head(up).kind \in PutKinds
    /\ \/ status = "ok" /\ UNCHANGED used
       \/ status = "error" /\ Happens("refuse")
    /\ up' = Tail(up)
    /\ down' = Append(down, Answer(Head(up), status))
    /\ received' = Append(received, Head(up))
    /\ UNCHANGED <<link, client, holding, denied, minToken, cached, repo,
                   stale>>

\* unlisten and unauth get no answer the client waits for
ServerOther ==
    /\ up # <<>> /\ Head(up).kind \in {"unlisten", "unauth", "od"}
    /\ up' = Tail(up)
    /\ \/ Head(up).kind = "od" /\ down' = Append(down, Answer(Head(up), "ok"))
       \/ Head(up).kind # "od" /\ UNCHANGED down
    /\ holding' = holding \ {Head(up).q}
    /\ UNCHANGED <<link, client, denied, minToken, cached, received, repo,
                   used,
                   stale>>

\* The user's tokens are revoked; a connection they were used on is
\* told.
ServerRevokesAuth ==
    /\ HasUser
    /\ Happens("revokeAuth")
    /\ minToken' = minToken + 1
    /\ \/ /\ CanListen
          /\ down' = Append(down, Answer(Req("authRevoked", 0, None),
                                         "expired_token"))
       \/ UNCHANGED down
    /\ UNCHANGED <<link, client, up, holding, denied, cached, received, repo,
                   stale>>

\* The rules become stricter: a listen is revoked if there is one.
ServerRevokesListen(q) ==
    /\ q \notin denied
    /\ Happens("revokeListen")
    /\ denied' = denied \cup {q}
    /\ holding' = holding \ {q}
    /\ \/ /\ q \in holding
          /\ down' = Append(down, Answer(Req("listenRevoked", 0, q),
                                         "permission_denied"))
       \/ q \notin holding /\ UNCHANGED down
    /\ UNCHANGED <<link, client, up, minToken, cached, received, repo, stale>>

Server ==
    \/ ServerAuth \/ ServerListen \/ ServerOther
    \/ \E status \in {"ok", "error"} : ServerPut(status)

Deliver == AuthResponse \/ AuthRevoked \/ ListenResponse \/ PutResponse
           \/ OnDisconnectResponse \/ ListenRevoked

Connect == RetryFires \/ (\E f \in fetches : TokenFetched(f)) \/ OnReady

Next ==
    \/ \E q \in Query : Listen(q) \/ Unlisten(q) \/ ServerRevokesListen(q)
    \/ \E hash \in BOOLEAN : PutData(hash)
    \/ OnDisconnectOperation
    \/ PurgeOutstandingWrites
    \/ InterruptForReason
    \/ \E reason \in {"waiting_for_open", "repo_interrupt"} :
           ResumeForReason(reason)
    \/ \E token \in {None, cached} : RefreshAuthToken(token)
    \/ Connect
    \/ \E f \in fetches : TokenFetchFailed(f)
    \/ OnConnect \/ ConnectionLost \/ OnKill \/ Wake
    \/ Deliver \/ Server \/ ServerRevokesAuth

\* Timer, token callback, handshake, answers and posted blocks come while the
\* client waits for them: dispatch_after and dispatch_async always run, and the
\* bounds on lost connections and failed fetches leave it a stable network in
\* the end.  Nothing obliges the app to call anything, goOnline included.
Fairness ==
    /\ WF_vars(RetryFires)
    /\ WF_vars(\E f \in fetches : TokenFetched(f))
    /\ WF_vars(OnReady)
    /\ WF_vars(OnConnect)
    /\ WF_vars(Deliver)
    /\ WF_vars(Server)

Spec == Init /\ [][Next]_vars /\ Fairness

-----------------------------------------------------------------------------
TypeOK ==
    /\ state \in State
    /\ interrupts \in SUBSET Reason
    /\ retry \in BOOLEAN \cup {None}
    /\ attempt \in Nat
    /\ fetches \in SUBSET [n : Nat, refresh : BOOLEAN]
    /\ authToken \in Nat \cup {None}
    /\ force \in BOOLEAN
    /\ listens \in [Query -> Nat]
    /\ unacked \in Nat
    /\ puts \in SUBSET Put
    /\ putsToAck \in Seq(Answered)
    /\ odQueue \in Seq(Nat)
    /\ posted \in Nat
    /\ up \in Seq(Request) /\ down \in Seq(Response)
    /\ holding \in SUBSET Query /\ denied \in SUBSET Query
    /\ minToken \in Nat /\ cached \in Nat
    /\ connected \in BOOLEAN
    /\ writes \in SUBSET Nat
    /\ count \in [Event -> Nat] /\ left \in Nat /\ budget \in Budgets
    /\ done \in Seq(Answered) /\ received \in Seq(Request)
    /\ orphans \in SUBSET Nat /\ stale \in BOOLEAN

\* An interrupted client stays off the network, whatever timer or token
\* callback was under way when it was interrupted, and a timer only runs while
\* the retry block's assertion "Not in disconnected state" will hold
\* (interruptForReason, tryScheduleReconnect).
StaysOffline ==
    /\ interrupts # {} => state = "disconnected" /\ retry = None
    /\ retry # None => state = "disconnected"

\* unackedListensCount is the number of listens in flight: it is unsigned, so
\* the code's own assertion that it is not negative can never fail
\* (sendListen, onDisconnect).
UnackedIsInFlight ==
    unacked = Cardinality(OfKind(up, "listen"))
            + Cardinality(OfKind(down, "listen"))

\* Once the talk about listens has died down, the server holds exactly the
\* listens the client believes it has, although listens are sent before and
\* again after authentication, refused, revoked, and removed and added again
\* while older answers are in flight (sendListen's identity test,
\* restoreState).
ListensHeld ==
    /\ state = "connected"
    /\ \A kind \in {"listen", "unlisten", "listenRevoked"} :
           OfKind(up, kind) \cup OfKind(down, kind) = {}
    => holding = {q \in Query : listens[q] # 0}

\* No write is completed twice, however answers held back, cancellations on
\* disconnect and purges follow each other (sendPut, cancelSentTransactions,
\* purgeOutstandingWrites, ackPuts).
CompletedOnce == \A i, j \in DOMAIN done : done[i].id = done[j].id => i = j

\* The server gets a transaction's put at most once, although plain writes are
\* sent again after every lost connection: what the transaction was computed
\* from may have changed (cancelSentTransactions).
TransactionSentOnce ==
    \A i, j \in DOMAIN received :
        received[i] = received[j] /\ received[i].kind = "hashPut" => i = j

\* The server gets writes for the first time in the order the app made them,
\* also when they are sent again (putCounter, restoreState).
ReceivedInOrder ==
    \A i, j \in DOMAIN received :
        i < j /\ received[i].n > received[j].n =>
            \E h \in 1..i : received[h].n = received[j].n

\* /.info/connected never stays false on a running connection, although the
\* block that sets it may run after the connection it was posted for is gone
\* (onReady's dispatch_async, FRepo's onConnect and onDisconnect).
InfoSeesConnection == CanListen /\ posted = 0 => connected

\* A client that is not interrupted gets connected (tryScheduleReconnect and
\* everything that leads back to it).
Reconnects == []<>(state = "connected" \/ interrupts # {})

PutIdsUsed == UNION {1..b.most["put"] : b \in Budgets}

\* Every write given to the connection is answered or given up in the end,
\* unless the app keeps the client offline (restoreState, sendPut).
PutsAreSettled ==
    \A n \in PutIdsUsed :
        n \in PutIds(puts) ~> n \notin PutIds(puts) \/ interrupts # {}

-----------------------------------------------------------------------------
(* What the repository says and the code does not do.                      *)

\* "removeWriteId: called with nonexistent writeId" must not happen: every
\* write that is acknowledged is still in the write tree (FWriteTree.m:129).
AckFindsItsWrite == orphans = {}

\* After the server revoked the token, "we will refresh the token later on
\* reconnect" (onAuthRevoked).
RevokedTokenIsRefreshed == state = "gettingToken" => ~stale

\* A completion block is "called after the write has been committed": an
\* answer held back is reported in the end (FIRDatabaseReference.h).
AnswersAreReported ==
    \A n \in PutIdsUsed :
        n \in AnsweredIds(putsToAck)
            ~> n \notin AnsweredIds(putsToAck) \/ interrupts # {}
=============================================================================
