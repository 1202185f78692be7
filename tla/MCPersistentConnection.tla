------------------------ MODULE MCPersistentConnection ------------------------
EXTENDS PersistentConnection, TLC

CONSTANTS q1

Never == [e \in Event |-> 0]
Once(events) == [e \in events |-> 1]
Budget(total, most) == [total |-> total, most |-> most @@ Never]

\* Listens, removed, made again, refused and revoked, with a write waiting for
\* them, around one lost connection.
ListensBudget ==
    Budget(5, ("listen" :> 2) @@ Once({"put", "drop", "refuse", "revokeListen"}))

\* Writes, some of them transactions, sent again, cancelled and purged, with a
\* listen that holds their answers back.
WritesBudget ==
    Budget(5, ("put" :> 2) @@ Once({"listen", "drop", "purge"}))

\* Everything that interrupts, revokes, wakes or fails a connection attempt,
\* with a write and an onDisconnect operation pending.
SessionBudget ==
    Budget(4, Once({"put", "onDisconnect", "interrupt", "drop", "shutdown",
                    "wake", "fetchError", "tokenChange", "revokeAuth"}))

\* Run "connection": one of the three.
AnyBudget == {ListensBudget, WritesBudget, SessionBudget}

\* Run "purge": an answered write is held back by a listen when the app purges.
PurgeBudget == {Budget(3, Once({"listen", "put", "purge"}))}

\* Run "heldAnswer": an answered write is held back by a listen when the
\* connection is lost.
HeldAnswerBudget == {Budget(3, Once({"listen", "put", "drop"}))}
=============================================================================
