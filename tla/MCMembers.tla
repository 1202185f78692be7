------------------------------ MODULE MCMembers ------------------------------
EXTENDS Members, TLC

CONSTANTS d1, d2, k1, k2, e1, e2

\* Run "accounts": one member exists; each device is logged in as that member
\* or freshly installed; one user signs up, one logs in, possibly on a device
\* that already has an account.
OneAccount == k1 :> e1
AnySession == [Device -> {k1, None}]
AccountsBudget == ("signUp" :> 1) @@ ("logIn" :> 1) @@ ("search" :> 1)
               @@ ("add" :> 1) @@ ("yes" :> 1) @@ ("no" :> 0)

\* Run "friendship": two members on two devices; two searches and two
\* invitations give crossing invitations and invitations of a friend.
TwoAccounts == (k1 :> e1) @@ (k2 :> e2)
BothLoggedIn == {(d1 :> k1) @@ (d2 :> k2)}
FriendshipBudget == ("signUp" :> 0) @@ ("logIn" :> 0) @@ ("search" :> 2)
                 @@ ("add" :> 2) @@ ("yes" :> 1) @@ ("no" :> 1)
=============================================================================
