---------------------------- MODULE SessionAlone ----------------------------
(***************************************************************************)
(* Session used one call at a time: nothing is tapped while the answer to  *)
(* something else is outstanding.  The app may be killed and started at    *)
(* any moment, calls fail, and the location may come too late.             *)
(***************************************************************************)
EXTENDS Session

Quiet == \A c \in Calls : stage[c] \in Over \cup {"idle"}

StartAlone(c) == Quiet /\ Start(c)

NextAlone ==
  \/ \E c \in Calls : StartAlone(c) \/ Answer(c) \/ MainQueue(c) \/ Launch(c)
  \/ DidUpdateLocations

SpecAlone == Init /\ [][NextAlone]_vars

Contract == INSTANCE SessionContract WITH
  user <- auth, at <- screen, profile <- userProfile

\* Without overlap the sign-in screens, logout and the launch keep the contract:
\* each step is one of its steps (SignInVC, SignUPVC, ProfileVC.swift:132-145,
\* SceneDelegate.swift:14-21).
KeepsContract == Contract!Spec

FetchFailedFor(u) ==
  \E c \in SignIns \cup Launches : who[c] = u /\ stage[c] \in {"failed", "lost"}

\* At rest, the profile shown at home is the signed-in owner's, unless that owner
\* has no salon or a fetch of it failed: the previous owner's profile, which logout
\* leaves behind, is shown only then (AppDataManager.swift:61-70, ProfileVC.swift:38).
HomeShowsOwner ==
  Quiet /\ screen = "home" /\ auth # NoOne =>
    userProfile = auth \/ ~HasSalon(auth) \/ FetchFailedFor(auth)

\* At rest, someone is signed in behind the sign-in screen only if that owner has no
\* salon or it could not be fetched (SignInVC.swift:96-99, SignUPVC.swift:77-78).
StrandedOnlyWithoutSalon ==
  Quiet /\ screen = "signin" /\ auth # NoOne =>
    ~HasSalon(auth) \/ FetchFailedFor(auth)
=============================================================================
