---------------------------- MODULE MCFriendList ----------------------------
EXTENDS FriendList

CONSTANTS f1, f2

\* An invitation from a member, from one whose sign-up was lost, or a friend
\* and an invitation.
MCStart ==
    {[links |-> [f \in Member |-> IF f = f1 THEN "pending_confirm"
                                  ELSE Absent],
      ghosts |-> g] : g \in {{}, {f1}}}
    \cup
    {[links |-> [f \in Member |-> IF f = f1 THEN "pending_confirm"
                                  ELSE "valid"],
      ghosts |-> {}]}
=============================================================================
