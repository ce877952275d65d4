------------------------------ MODULE Session ------------------------------
(***************************************************************************)
(* Who is signed in, whose profile the device keeps and which screen is    *)
(* shown: SignInVC, SignUPVC, ProfileVC.logout, SceneDelegate and the part *)
(* of AppDataManager that uses Auth.auth().currentUser and UserDefaults,   *)
(* on one device that several owners may use in turn.                      *)
(*                                                                         *)
(* A call (a tap that starts something asynchronous) captures a user when  *)
(* it starts; its closures run later on the main queue, whoever is signed  *)
(* in by then.  The Firebase user is in the keychain and UserDefaults on   *)
(* disk: both outlive the process.  The closures do not.                   *)
(***************************************************************************)
EXTENDS Integers, Sequences, SequencesExt

CONSTANTS Owner,     \* salon owners with an e-mail address and a password
          SignIns,   \* taps on "sign in"
          SignUps,   \* taps on "sign up"
          Pictures,  \* confirmed changes of the profile picture
          Rates,     \* first appearances of the bookings screen
          Logouts,   \* confirmed logouts
          Launches,  \* bound: starts of the app after the first
          NoOne      \* nil

Calls == SignIns \cup SignUps \cup Pictures \cup Rates \cup Logouts \cup Launches

ASSUME NoOneAssumption == NoOne \notin Owner

ASSUME CallsAssumption ==
  /\ SignIns \cap (SignUps \cup Pictures \cup Rates \cup Logouts \cup Launches) = {}
  /\ SignUps \cap (Pictures \cup Rates \cup Logouts \cup Launches) = {}
  /\ Pictures \cap (Rates \cup Logouts \cup Launches) = {}
  /\ Rates \cap (Logouts \cup Launches) = {}
  /\ Logouts \cap Launches = {}

VARIABLES
  auth,         \* Auth.auth().currentUser
  userID,       \* UserDefaults: userID
  userProfile,  \* UserDefaults: the owner of the saved profile
  screen,       \* the window's root: the sign-in screens or the tab bar
  located,      \* LocationManager.currentLocation # nil
  mainQ,        \* calls with a closure waiting on the main queue
  stage,        \* stage[c]: how far call c has come
  who,          \* who[c]: the user c has captured
  accounts,     \* owners with an account
  created,      \* created[u]: how often createUserProfile wrote salons/u from nothing
  rated,        \* rated[u]: the salon whose reviews the rating of u was computed from
  epoch,        \* how often the signed-in user changed (not in the program)
  seal          \* seal[c]: the epoch in which c captured who[c] (not in the program)

deviceVars  == <<auth, userID, userProfile>>
processVars == <<screen, located, mainQ>>
callVars    == <<stage, who, seal>>
cloudVars   == <<accounts, created, rated>>
vars == <<deviceVars, processVars, callVars, cloudVars, epoch>>

Stages == {"idle", "authenticating", "authenticated", "entering", "fetching", "fetched",
           "uploading", "uploaded", "reloading", "querying", "leaving",
           "done", "failed", "lost"}

Over == {"done", "failed", "lost"}

HasSalon(u) == u \in Owner /\ created[u] > 0

TypeOK ==
  /\ auth \in Owner \cup {NoOne}
  /\ userID \in Owner \cup {NoOne}
  /\ userProfile \in Owner \cup {NoOne}
  /\ screen \in {"signin", "home"}
  /\ located \in BOOLEAN
  /\ mainQ \in Seq(Calls)
  /\ stage \in [Calls -> Stages]
  /\ who \in [Calls -> Owner \cup {NoOne}]
  /\ accounts \subseteq Owner
  /\ created \in [Owner -> Nat]
  /\ rated \in [Owner -> Owner]
  /\ epoch \in Nat
  /\ seal \in [Calls -> Nat]

\* The first launch after installation; some owners have salons from elsewhere.
Init ==
  /\ auth = NoOne
  /\ userID = NoOne
  /\ userProfile = NoOne
  /\ screen = "signin"
  /\ located = FALSE
  /\ mainQ = <<>>
  /\ stage = [c \in Calls |-> "idle"]
  /\ who = [c \in Calls |-> NoOne]
  /\ accounts \in SUBSET Owner
  /\ created = [u \in Owner |-> IF u \in accounts THEN 1 ELSE 0]
  /\ rated = [u \in Owner |-> u]
  /\ epoch = 0
  /\ seal = [c \in Calls |-> 0]

-----------------------------------------------------------------------------
(* Steps all calls are made of *)

\* A tap on screen at starts call c for u.
Tap(c, at, u, to) ==
  /\ stage[c] = "idle"
  /\ screen = at
  /\ stage' = [stage EXCEPT ![c] = to]
  /\ who' = [who EXCEPT ![c] = u]
  /\ seal' = [seal EXCEPT ![c] = epoch]

\* The answer to c is passed on with DispatchQueue.main.async.
Async(c, from, to) ==
  /\ stage[c] = from
  /\ stage' = [stage EXCEPT ![c] = to]
  /\ mainQ' = Append(mainQ, c)

\* The main queue runs the closure of c.
Closure(c, at, to) ==
  /\ mainQ # <<>>
  /\ c = Head(mainQ)
  /\ stage[c] = at
  /\ stage' = [stage EXCEPT ![c] = to]
  /\ mainQ' = Tail(mainQ)

\* Firebase sets the current user before it calls back.
BecomeUser(c, u) ==
  /\ auth' = u
  /\ epoch' = epoch + 1
  /\ seal' = [seal EXCEPT ![c] = epoch + 1]

\* Mutant: a fetch that fails never calls back.
FailsUnlessFetching(c) ==
  /\ stage[c] \in {"authenticating", "uploading", "querying"}
  /\ stage' = [stage EXCEPT ![c] = "failed"]
  /\ UNCHANGED <<deviceVars, processVars, who, seal, cloudVars, epoch>>

\* A call that is refused tells the owner, or nobody, and ends.
Fails(c) ==
  /\ stage[c] \in {"authenticating", "fetching", "uploading", "querying"}
  /\ stage' = [stage EXCEPT ![c] = "failed"]
  /\ UNCHANGED <<deviceVars, processVars, who, seal, cloudVars, epoch>>

-----------------------------------------------------------------------------
(* Sign-in: authenticate, fetch the profile, save it, go home. *)

HandleSignIN(c, u) ==
  /\ c \in SignIns
  /\ Tap(c, "signin", u, "authenticating")
  /\ UNCHANGED <<deviceVars, processVars, cloudVars, epoch>>

SignedIn(c) ==
  /\ c \in SignIns
  /\ stage[c] = "authenticating"
  /\ who[c] \in accounts
  /\ BecomeUser(c, who[c])
  /\ stage' = [stage EXCEPT ![c] = "authenticated"]
  /\ UNCHANGED <<userID, userProfile, processVars, who, cloudVars>>

\* The profile of the user who signed in is fetched, whoever is signed in now.
FetchUserProfile(c) ==
  /\ c \in SignIns
  /\ stage[c] = "authenticated"
  /\ stage' = [stage EXCEPT ![c] = "fetching"]
  /\ UNCHANGED <<deviceVars, processVars, who, seal, cloudVars, epoch>>

Fetched(c) ==
  /\ HasSalon(who[c])
  /\ Async(c, "fetching", "fetched")
  /\ UNCHANGED <<deviceVars, screen, located, who, seal, cloudVars, epoch>>

\* Mutant: going home before the profile is saved.
EnterHomeUnsaved(c) ==
  /\ c \in SignIns
  /\ Closure(c, "fetched", "done")
  /\ userID' = who[c]
  /\ screen' = "home"
  /\ UNCHANGED <<auth, userProfile, located, who, seal, cloudVars, epoch>>

EnterHome(c) ==
  /\ c \in SignIns
  /\ Closure(c, "fetched", "done")
  /\ userProfile' = who[c]
  /\ userID' = who[c]
  /\ screen' = "home"
  /\ UNCHANGED <<auth, located, who, seal, cloudVars, epoch>>

-----------------------------------------------------------------------------
(* Sign-up: create the account, then the salon, save the profile, go home. *)

HandleSignUP(c, u) ==
  /\ c \in SignUps
  /\ Tap(c, "signin", u, "authenticating")
  /\ UNCHANGED <<deviceVars, processVars, cloudVars, epoch>>

\* Mutant: creating an account that exists signs it in.
SignedUpAgain(c) ==
  /\ c \in SignUps
  /\ stage[c] = "authenticating"
  /\ accounts' = accounts \cup {who[c]}
  /\ BecomeUser(c, who[c])
  /\ stage' = [stage EXCEPT ![c] = "authenticated"]
  /\ UNCHANGED <<userID, userProfile, processVars, who, created, rated>>

SignedUp(c) ==
  /\ c \in SignUps
  /\ stage[c] = "authenticating"
  /\ who[c] \notin accounts
  /\ accounts' = accounts \cup {who[c]}
  /\ BecomeUser(c, who[c])
  /\ stage' = [stage EXCEPT ![c] = "authenticated"]
  /\ UNCHANGED <<userID, userProfile, processVars, who, created, rated>>

\* The account is created, its answer is lost.
SignUpUnanswered(c) ==
  /\ c \in SignUps
  /\ stage[c] = "authenticating"
  /\ accounts' = accounts \cup {who[c]}
  /\ stage' = [stage EXCEPT ![c] = "failed"]
  /\ UNCHANGED <<deviceVars, processVars, who, seal, created, rated, epoch>>

AccountCreated(c) ==
  /\ c \in SignUps
  /\ Async(c, "authenticated", "entering")
  /\ UNCHANGED <<deviceVars, screen, located, who, seal, cloudVars, epoch>>

\* Mutant: the profile of the new salon is not saved.
CreateSalonUnsaved(c) ==
  /\ c \in SignUps
  /\ located
  /\ Closure(c, "entering", "done")
  /\ created' = [created EXCEPT ![who[c]] = @ + 1]
  /\ userID' = who[c]
  /\ screen' = "home"
  /\ UNCHANGED <<auth, userProfile, located, who, seal, accounts, rated, epoch>>

\* Mutant: the new owner is left on the sign-up screen.
CreateSalonStaying(c) ==
  /\ c \in SignUps
  /\ located
  /\ Closure(c, "entering", "done")
  /\ created' = [created EXCEPT ![who[c]] = @ + 1]
  /\ userID' = who[c]
  /\ userProfile' = who[c]
  /\ UNCHANGED <<auth, screen, located, who, seal, accounts, rated, epoch>>

CreateSalon(c) ==
  /\ c \in SignUps
  /\ located
  /\ Closure(c, "entering", "done")
  /\ created' = [created EXCEPT ![who[c]] = @ + 1]
  /\ userID' = who[c]
  /\ userProfile' = who[c]
  /\ screen' = "home"
  /\ UNCHANGED <<auth, located, who, seal, accounts, rated, epoch>>

\* Without a location the closure returns: an account, a user, no salon.
NoLocation(c) ==
  /\ c \in SignUps
  /\ ~located
  /\ Closure(c, "entering", "failed")
  /\ UNCHANGED <<deviceVars, screen, located, who, seal, cloudVars, epoch>>

-----------------------------------------------------------------------------
(* At home *)

\* changeProfileImage captures the user, whose picture and document it changes.
ChangeProfileImage(c) ==
  /\ c \in Pictures
  /\ auth # NoOne
  /\ Tap(c, "home", auth, "uploading")
  /\ UNCHANGED <<deviceVars, processVars, cloudVars, epoch>>

Uploaded(c) ==
  /\ c \in Pictures
  /\ HasSalon(who[c])
  /\ Async(c, "uploading", "uploaded")
  /\ UNCHANGED <<deviceVars, screen, located, who, seal, cloudVars, epoch>>

\* The profile is saved for the captured user and the screen's completion queued.
SaveUploaded(c) ==
  /\ c \in Pictures
  /\ mainQ # <<>>
  /\ c = Head(mainQ)
  /\ stage[c] = "uploaded"
  /\ stage' = [stage EXCEPT ![c] = "reloading"]
  /\ mainQ' = Append(Tail(mainQ), c)
  /\ userProfile' = who[c]
  /\ userID' = who[c]
  /\ UNCHANGED <<auth, screen, located, who, seal, cloudVars, epoch>>

\* ProfileVC.fetchAndSaveProfile captures the user anew, or returns.
Reload(c) ==
  /\ c \in Pictures
  /\ Closure(c, "reloading", IF auth = NoOne THEN "done" ELSE "fetching")
  /\ who' = [who EXCEPT ![c] = auth]
  /\ seal' = [seal EXCEPT ![c] = epoch]
  /\ UNCHANGED <<deviceVars, screen, located, cloudVars, epoch>>

\* Mutant: the profile of getLoggedUserId() is saved, not the captured user's.
SaveProfileOfLogged(c) ==
  /\ c \in Pictures \cup Launches
  /\ Closure(c, "fetched", "done")
  /\ userProfile' = userID
  /\ userID' = who[c]
  /\ UNCHANGED <<auth, screen, located, who, seal, cloudVars, epoch>>

SaveProfile(c) ==
  /\ c \in Pictures \cup Launches
  /\ Closure(c, "fetched", "done")
  /\ userProfile' = who[c]
  /\ userID' = who[c]
  /\ UNCHANGED <<auth, screen, located, who, seal, cloudVars, epoch>>

\* Mutant: the guard on the current user is missing.
RefreshReviewDataOfAnyone(c) ==
  /\ c \in Rates
  /\ Tap(c, "home", auth, "querying")
  /\ UNCHANGED <<deviceVars, processVars, cloudVars, epoch>>

\* The bookings screen asks for the reviews of the user's salon ...
RefreshReviewData(c) ==
  /\ c \in Rates
  /\ auth # NoOne
  /\ Tap(c, "home", auth, "querying")
  /\ UNCHANGED <<deviceVars, processVars, cloudVars, epoch>>

\* Mutant: the rating goes to the salon whose profile is saved.
UpdateReviewDataOfSaved(c) ==
  /\ c \in Rates
  /\ stage[c] = "querying"
  /\ stage' = [stage EXCEPT ![c] = "done"]
  /\ rated' = IF userProfile = NoOne THEN rated ELSE [rated EXCEPT ![userProfile] = who[c]]
  /\ UNCHANGED <<deviceVars, processVars, who, seal, accounts, created, epoch>>

\* ... and the rating goes to the salon of whoever is signed in when they arrive.
UpdateReviewData(c) ==
  /\ c \in Rates
  /\ stage[c] = "querying"
  /\ stage' = [stage EXCEPT ![c] = "done"]
  /\ rated' = IF HasSalon(auth) THEN [rated EXCEPT ![auth] = who[c]]
              ELSE rated
  /\ UNCHANGED <<deviceVars, processVars, who, seal, accounts, created, epoch>>

-----------------------------------------------------------------------------
(* Logout and launch *)

\* signOut, and userID is removed; userProfile is not.
LogoutUser(c) ==
  /\ c \in Logouts
  /\ screen = "home"
  /\ Async(c, "idle", "leaving")
  /\ auth' = NoOne
  /\ epoch' = epoch + 1
  /\ userID' = NoOne
  /\ UNCHANGED <<userProfile, screen, located, who, seal, cloudVars>>

SignOutFails(c) ==
  /\ c \in Logouts
  /\ Tap(c, "home", NoOne, "failed")
  /\ UNCHANGED <<deviceVars, processVars, cloudVars, epoch>>

GoToSignin(c) ==
  /\ c \in Logouts
  /\ Closure(c, "leaving", "done")
  /\ screen' = "signin"
  /\ UNCHANGED <<deviceVars, located, who, seal, cloudVars, epoch>>

\* The process was killed at some point and starts again at a screen: its closures
\* are gone, and the profile of the user, if any, is fetched.
LaunchAt(c, at) ==
  /\ c \in Launches
  /\ stage[c] = "idle"
  /\ screen' = at
  /\ stage' = [b \in Calls |-> IF b = c THEN IF auth = NoOne THEN "done" ELSE "fetching"
                               ELSE IF stage[b] \in Over \cup {"idle"} THEN stage[b]
                               ELSE "lost"]
  /\ who' = [who EXCEPT ![c] = auth]
  /\ seal' = [seal EXCEPT ![c] = epoch]
  /\ mainQ' = <<>>
  /\ located' = FALSE
  /\ UNCHANGED <<deviceVars, cloudVars, epoch>>

\* Mutant: the app starts at home whoever is signed in.
LaunchHome(c) == LaunchAt(c, "home")

Launch(c) == LaunchAt(c, IF auth = NoOne THEN "signin" ELSE "home")

\* The location manager finds the device.
DidUpdateLocations ==
  /\ ~located
  /\ located' = TRUE
  /\ UNCHANGED <<deviceVars, screen, mainQ, callVars, cloudVars, epoch>>

-----------------------------------------------------------------------------
Start(c) ==
  \/ \E u \in Owner : HandleSignIN(c, u) \/ HandleSignUP(c, u)
  \/ ChangeProfileImage(c)
  \/ RefreshReviewData(c)
  \/ LogoutUser(c)
  \/ SignOutFails(c)

Answer(c) ==
  \/ SignedIn(c)
  \/ FetchUserProfile(c)
  \/ Fetched(c)
  \/ SignedUp(c)
  \/ SignUpUnanswered(c)
  \/ AccountCreated(c)
  \/ Uploaded(c)
  \/ UpdateReviewData(c)
  \/ Fails(c)

MainQueue(c) ==
  \/ EnterHome(c)
  \/ CreateSalon(c)
  \/ NoLocation(c)
  \/ SaveUploaded(c)
  \/ Reload(c)
  \/ SaveProfile(c)
  \/ GoToSignin(c)

Next ==
  \/ \E c \in Calls : Start(c) \/ Answer(c) \/ MainQueue(c) \/ Launch(c)
  \/ DidUpdateLocations

Spec == Init /\ [][Next]_vars

(* Firebase answers or refuses every call, and the main queue keeps running. *)
Fairness ==
  /\ \A c \in Calls : WF_vars(Answer(c))
  /\ WF_vars(\E c \in Calls : MainQueue(c))

FairSpec == Spec /\ Fairness

-----------------------------------------------------------------------------
(* Properties *)

\* The signed-in user changed after c captured one.
Outlived(c) == seal[c] < epoch

\* createUserProfile replaces the whole document, so it must never meet one: a
\* salon is created at most once, however often sign-up is tapped, refused or
\* left unanswered (SignUPVC.swift:63-99, AppDataManager.swift:72-79).
SalonCreatedOnce == \A u \in Owner : created[u] <= 1

\* The tab bar opens for a signed-in owner with that owner's profile saved, unless
\* the owner changed while the call was answered (SignInVC.swift:80-95, SignUPVC.swift:75-100).
EntersOwnHome ==
  [][ screen = "signin" /\ screen' = "home" =>
        \/ auth' # NoOne /\ userProfile' = auth'
        \/ mainQ # <<>> /\ Outlived(Head(mainQ))
        \/ \E c \in Launches : stage[c] = "idle" /\ stage'[c] # "idle" /\ auth # NoOne ]_vars

\* A profile that is not the signed-in owner's is saved only by a closure that
\* outlived its session (AppDataManager.swift:19-34, ProfileVC.swift:186-215).
ForeignProfileOnlyIfOutlived ==
  [][ userProfile' # userProfile /\ userProfile' # auth' =>
        mainQ # <<>> /\ Outlived(Head(mainQ)) ]_vars

\* A rating computed from another salon's reviews is written only if the owner
\* changed between the query and its answer (AppDataManager.swift:185-242).
ForeignRatingOnlyIfOutlived ==
  [][ \A u \in Owner : rated'[u] \notin {u, rated[u]} =>
        \E c \in Rates : stage'[c] # stage[c] /\ Outlived(c) ]_vars

\* Every call ends: with a screen, a message or silently, or with the app.
CallsEnd == \A c \in Calls : (stage[c] # "idle") ~> (stage[c] \in Over)
=============================================================================
