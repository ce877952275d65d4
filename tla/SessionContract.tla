-------------------------- MODULE SessionContract --------------------------
(***************************************************************************)
(* What an owner may expect of signing in and out on a device: the tab bar *)
(* belongs to the signed-in owner and shows that owner's profile; only the *)
(* sign-in screen lets a user in; a restart changes nothing but the        *)
(* screen, which follows from the user.                                    *)
(***************************************************************************)
CONSTANTS Owner, NoOne

VARIABLES user,     \* who is signed in
          at,       \* "signin" or "home"
          profile   \* whose profile is shown at home

vars == <<user, at, profile>>

Init ==
  /\ user = NoOne
  /\ at = "signin"
  /\ profile = NoOne

\* The server accepts the credentials; the owner is not let in yet.
Authenticate ==
  /\ at = "signin"
  /\ user' \in Owner
  /\ UNCHANGED <<at, profile>>

Enter ==
  /\ at = "signin"
  /\ user # NoOne
  /\ at' = "home"
  /\ profile' = user
  /\ UNCHANGED user

Refresh ==
  /\ at = "home"
  /\ user # NoOne
  /\ profile' = user
  /\ UNCHANGED <<user, at>>

SignOut ==
  /\ at = "home"
  /\ user' = NoOne
  /\ UNCHANGED <<at, profile>>

Leave ==
  /\ at = "home"
  /\ user = NoOne
  /\ at' = "signin"
  /\ UNCHANGED <<user, profile>>

Restart ==
  /\ at' = IF user = NoOne THEN "signin" ELSE "home"
  /\ UNCHANGED <<user, profile>>

Next == Authenticate \/ Enter \/ Refresh \/ SignOut \/ Leave \/ Restart

Spec == Init /\ [][Next]_vars
=============================================================================
