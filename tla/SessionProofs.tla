--------------------------- MODULE SessionProofs ---------------------------
(***************************************************************************)
(* Proofs about Session, for every set of owners, every number of taps of  *)
(* every kind and every number of launches: the type invariant, that a     *)
(* salon is created at most once, and that a foreign profile or rating is  *)
(* written only by a call that outlived the session it was started in.     *)
(* With one call at a time: that Session implements SessionContract, whose *)
(* profile the home screen shows, and who is left behind the sign-in       *)
(* screen.                                                                 *)
(***************************************************************************)
EXTENDS SessionAlone, TLAPS

\* The stages in which a call has captured a user.
Holding == {"authenticating", "authenticated", "entering", "fetching", "fetched",
            "uploading", "uploaded", "reloading", "querying"}

Captured == \A c \in Calls : stage[c] \in Holding => who[c] \in Owner

TInv == TypeOK /\ Captured

-----------------------------------------------------------------------------
(* The type invariant *)

LEMMA AsyncType ==
  ASSUME TypeOK, NEW c \in Calls, NEW from, NEW to \in Stages, Async(c, from, to)
  PROVE  mainQ' \in Seq(Calls) /\ stage' \in [Calls -> Stages]
  BY DEF TypeOK, Async

LEMMA ClosureType ==
  ASSUME TypeOK, NEW c \in Calls, NEW at, NEW to \in Stages, Closure(c, at, to)
  PROVE  mainQ' \in Seq(Calls) /\ stage' \in [Calls -> Stages]
  BY DEF TypeOK, Closure

LEMMA InitType == Init => TInv
<1> SUFFICES ASSUME Init PROVE TInv
  OBVIOUS
<1>1. created \in [Owner -> Nat] /\ accounts \subseteq Owner
  BY DEF Init
<1>2. stage \in [Calls -> Stages] /\ Captured
  BY DEF Init, Stages, Captured, Holding
<1>3. rated \in [Owner -> Owner] /\ seal \in [Calls -> Nat]
  BY DEF Init
<1>4. who \in [Calls -> Owner \cup {NoOne}] /\ mainQ \in Seq(Calls)
  BY DEF Init
<1>5. /\ auth \in Owner \cup {NoOne} /\ userID \in Owner \cup {NoOne}
      /\ userProfile \in Owner \cup {NoOne} /\ screen \in {"signin", "home"}
      /\ located \in BOOLEAN /\ epoch \in Nat
  BY DEF Init
<1> QED
  BY <1>1, <1>2, <1>3, <1>4, <1>5 DEF TypeOK, TInv

\* The taps
LEMMA StartType ==
  ASSUME TInv, NEW c \in Calls, Start(c)
  PROVE  TInv'
<1> USE DEF TInv, TypeOK, Captured, Holding, Stages,
            deviceVars, processVars, callVars, cloudVars
<1>1. ASSUME NEW u \in Owner, HandleSignIN(c, u) PROVE TInv'
  BY <1>1 DEF HandleSignIN, Tap
<1>2. ASSUME NEW u \in Owner, HandleSignUP(c, u) PROVE TInv'
  BY <1>2 DEF HandleSignUP, Tap
<1>3. CASE ChangeProfileImage(c)
  BY <1>3 DEF ChangeProfileImage, Tap
<1>4. CASE RefreshReviewData(c)
  BY <1>4 DEF RefreshReviewData, Tap
<1>5. CASE LogoutUser(c)
  BY <1>5 DEF LogoutUser, Async
<1>6. CASE SignOutFails(c)
  BY <1>6 DEF SignOutFails, Tap
<1> QED
  BY <1>1, <1>2, <1>3, <1>4, <1>5, <1>6 DEF Start

\* The answers
LEMMA AnswerType ==
  ASSUME TInv, NEW c \in Calls, Answer(c)
  PROVE  TInv'
<1> USE DEF TInv, TypeOK, Captured, Holding, Stages,
            deviceVars, processVars, callVars, cloudVars
<1>1. CASE SignedIn(c)
  BY <1>1 DEF SignedIn, BecomeUser
<1>2. CASE FetchUserProfile(c)
  BY <1>2 DEF FetchUserProfile
<1>3. CASE Fetched(c)
  BY <1>3 DEF Fetched, Async
<1>4. CASE SignedUp(c)
  BY <1>4 DEF SignedUp, BecomeUser
<1>5. CASE SignUpUnanswered(c)
  BY <1>5 DEF SignUpUnanswered
<1>6. CASE AccountCreated(c)
  BY <1>6 DEF AccountCreated, Async
<1>7. CASE Uploaded(c)
  BY <1>7 DEF Uploaded, Async
<1>8. CASE UpdateReviewData(c)
  BY <1>8 DEF UpdateReviewData, HasSalon
<1>9. CASE Fails(c)
  BY <1>9 DEF Fails
<1> QED
  BY <1>1, <1>2, <1>3, <1>4, <1>5, <1>6, <1>7, <1>8, <1>9 DEF Answer

\* The closures on the main queue
LEMMA MainQueueType ==
  ASSUME TInv, NEW c \in Calls, MainQueue(c)
  PROVE  TInv'
<1> USE DEF TInv, TypeOK, Captured, Holding, Stages,
            deviceVars, processVars, callVars, cloudVars
<1>1. CASE EnterHome(c)
  BY <1>1 DEF EnterHome, Closure
<1>2. CASE CreateSalon(c)
  BY <1>2 DEF CreateSalon, Closure
<1>3. CASE NoLocation(c)
  BY <1>3 DEF NoLocation, Closure
<1>4. CASE SaveUploaded(c)
  BY <1>4 DEF SaveUploaded
<1>5. CASE Reload(c)
  BY <1>5 DEF Reload, Closure
<1>6. CASE SaveProfile(c)
  BY <1>6 DEF SaveProfile, Closure
<1>7. CASE GoToSignin(c)
  BY <1>7 DEF GoToSignin, Closure
<1> QED
  BY <1>1, <1>2, <1>3, <1>4, <1>5, <1>6, <1>7 DEF MainQueue

LEMMA LaunchType ==
  ASSUME TInv, NEW c \in Calls, Launch(c)
  PROVE  TInv'
<1> USE DEF TInv, TypeOK, deviceVars, processVars, callVars, cloudVars
<1>0. screen' \in {"signin", "home"} /\ mainQ' = <<>> /\ located' = FALSE
  BY DEF Launch, LaunchAt
<1>1. who' \in [Calls -> Owner \cup {NoOne}] /\ seal' \in [Calls -> Nat]
  BY DEF Launch, LaunchAt
<1>2. stage' \in [Calls -> Stages]
  BY DEF Launch, LaunchAt, Stages
<1>3. Captured'
  <2> SUFFICES ASSUME NEW b \in Calls, stage'[b] \in Holding PROVE who'[b] \in Owner
    BY DEF Captured
  <2>1. CASE b = c
    BY <2>1 DEF Launch, LaunchAt, Holding
  <2>2. CASE b # c
    BY <2>2 DEF Launch, LaunchAt, Holding, Over, Captured
  <2> QED
    BY <2>1, <2>2
<1>4. UNCHANGED <<auth, userID, userProfile, accounts, created, rated, epoch>>
  BY DEF Launch, LaunchAt
<1>5. mainQ' \in Seq(Calls)
  BY <1>0
<1> QED
  BY <1>0, <1>1, <1>2, <1>3, <1>4, <1>5

LEMMA NextType == TInv /\ [Next]_vars => TInv'
<1> SUFFICES ASSUME TInv, [Next]_vars PROVE TInv'
  OBVIOUS
<1>1. ASSUME NEW c \in Calls, Start(c) \/ Answer(c) \/ MainQueue(c) \/ Launch(c)
      PROVE  TInv'
  BY <1>1, StartType, AnswerType, MainQueueType, LaunchType
<1>2. CASE DidUpdateLocations
  BY <1>2 DEF DidUpdateLocations, TInv, TypeOK, Captured,
              deviceVars, processVars, callVars, cloudVars
<1>3. CASE UNCHANGED vars
  BY <1>3 DEF TInv, TypeOK, Captured, vars, deviceVars, processVars, callVars, cloudVars
<1> QED
  BY <1>1, <1>2, <1>3 DEF Next

LEMMA SpecTInv == Spec => []TInv
  BY InitType, NextType, PTL DEF Spec

\* Every variable keeps its type (the state of AppDataManager, the sign-in screens
\* and the main queue).
THEOREM TypeCorrect == Spec => []TypeOK
<1>1. TInv => TypeOK
  BY DEF TInv
<1> QED
  BY <1>1, SpecTInv, PTL

-----------------------------------------------------------------------------
(* A salon is created at most once.  The invariant: an account with a salon    *)
(* exists, and a sign-up that got its account and has not ended is the only    *)
(* one for its owner, who has no salon yet.                                    *)

SigningUp(c) == c \in SignUps /\ stage[c] \in {"authenticated", "entering"}

OnlySignUp ==
  /\ \A u \in Owner : created[u] > 0 => u \in accounts
  /\ \A c \in Calls : SigningUp(c) => who[c] \in accounts /\ created[who[c]] = 0
  /\ \A b, c \in Calls : SigningUp(b) /\ SigningUp(c) /\ b # c => who[b] # who[c]

CInv == TInv /\ OnlySignUp /\ SalonCreatedOnce

\* What a step keeps that touches neither the accounts nor the salons and brings no
\* sign-up into these stages but one that goes from the first to the second.
SameSalons ==
  /\ UNCHANGED <<accounts, created>>
  /\ \A c \in Calls : SigningUp(c)' => SigningUp(c) /\ who'[c] = who[c]

LEMMA SameSalonsKeeps == CInv /\ SameSalons => OnlySignUp' /\ SalonCreatedOnce'
  BY DEF CInv, SameSalons, OnlySignUp, SalonCreatedOnce

LEMMA StartOnce ==
  ASSUME CInv, NEW c \in Calls, Start(c)
  PROVE  SameSalons
<1> USE DEF CInv, TInv, TypeOK, cloudVars, SameSalons, SigningUp
<1>1. ASSUME NEW u \in Owner, HandleSignIN(c, u) \/ HandleSignUP(c, u) PROVE SameSalons
  BY <1>1 DEF HandleSignIN, HandleSignUP, Tap
<1>2. CASE ChangeProfileImage(c)
  BY <1>2 DEF ChangeProfileImage, Tap
<1>3. CASE RefreshReviewData(c)
  BY <1>3 DEF RefreshReviewData, Tap
<1>4. CASE SignOutFails(c)
  BY <1>4 DEF SignOutFails, Tap
<1>5. CASE LogoutUser(c)
  BY <1>5 DEF LogoutUser, Async
<1> QED
  BY <1>1, <1>2, <1>3, <1>4, <1>5 DEF Start

LEMMA AnswerOnce ==
  ASSUME CInv, NEW c \in Calls, Answer(c)
  PROVE  OnlySignUp' /\ SalonCreatedOnce'
<1> USE DEF CInv, TInv, TypeOK, cloudVars, SigningUp
<1>1. CASE SignedIn(c)
  <2>1. c \notin SignUps
    BY <1>1, CallsAssumption DEF SignedIn
  <2>2. SameSalons
    BY <1>1, <2>1 DEF SignedIn, BecomeUser, SameSalons
  <2> QED
    BY <2>2, SameSalonsKeeps
<1>2. CASE SignedUp(c)
  <2>1. who[c] \in Owner /\ who[c] \notin accounts /\ accounts' = accounts \cup {who[c]}
    BY <1>2 DEF SignedUp, Captured, Holding
  <2>2. created[who[c]] = 0 /\ created' = created /\ who' = who
    BY <2>1, <1>2 DEF SignedUp, OnlySignUp
  <2>3. \A b \in Calls : SigningUp(b)' => b = c \/ SigningUp(b)
    BY <1>2 DEF SignedUp
  <2>4. \A b \in Calls : SigningUp(b) => who[b] \in accounts
    BY DEF OnlySignUp
  <2> HIDE DEF SigningUp
  <2> QED
    BY <2>1, <2>2, <2>3, <2>4 DEF OnlySignUp, SalonCreatedOnce
<1>3. CASE SignUpUnanswered(c)
  <2>1. \A b \in Calls : SigningUp(b)' => SigningUp(b)
    BY <1>3 DEF SignUpUnanswered
  <2> HIDE DEF SigningUp
  <2> QED
    BY <1>3, <2>1 DEF SignUpUnanswered, OnlySignUp, SalonCreatedOnce
<1>4. CASE FetchUserProfile(c)
  BY <1>4, SameSalonsKeeps DEF FetchUserProfile, SameSalons
<1>5. CASE Fetched(c)
  BY <1>5, SameSalonsKeeps DEF Fetched, Async, SameSalons
<1>6. CASE AccountCreated(c)
  BY <1>6, SameSalonsKeeps DEF AccountCreated, Async, SameSalons
<1>7. CASE Uploaded(c)
  BY <1>7, SameSalonsKeeps DEF Uploaded, Async, SameSalons
<1>8. CASE UpdateReviewData(c)
  BY <1>8, SameSalonsKeeps DEF UpdateReviewData, SameSalons
<1>9. CASE Fails(c)
  BY <1>9, SameSalonsKeeps DEF Fails, SameSalons
<1> QED
  BY <1>1, <1>2, <1>3, <1>4, <1>5, <1>6, <1>7, <1>8, <1>9 DEF Answer

LEMMA MainQueueOnce ==
  ASSUME CInv, NEW c \in Calls, MainQueue(c)
  PROVE  OnlySignUp' /\ SalonCreatedOnce'
<1> USE DEF CInv, TInv, TypeOK, cloudVars, SigningUp
<1>1. CASE CreateSalon(c)
  <2>1. SigningUp(c) /\ ~SigningUp(c)' /\ who[c] \in Owner
    BY <1>1 DEF CreateSalon, Closure, Captured, Holding
  <2>2. \A b \in Calls : SigningUp(b)' => SigningUp(b) /\ b # c
    BY <1>1 DEF CreateSalon, Closure
  <2>3. /\ created' = [created EXCEPT ![who[c]] = created[who[c]] + 1]
        /\ UNCHANGED <<who, accounts>>
    BY <1>1 DEF CreateSalon
  <2>4. created[who[c]] = 0 /\ who[c] \in accounts
    BY <2>1 DEF OnlySignUp
  <2> HIDE DEF SigningUp
  <2>5. created'[who[c]] = 1 /\ \A u \in Owner \ {who[c]} : created'[u] = created[u]
    BY <2>1, <2>3, <2>4
  <2>6. \A b \in Calls : SigningUp(b)' => created'[who'[b]] = 0 /\ who'[b] \in accounts'
    <3> SUFFICES ASSUME NEW b \in Calls, SigningUp(b)'
                 PROVE  created'[who'[b]] = 0 /\ who'[b] \in accounts'
      OBVIOUS
    <3>1. SigningUp(b) /\ b # c
      BY <2>2
    <3>2. who[b] # who[c] /\ who[b] \in accounts /\ created[who[b]] = 0
      BY <3>1, <2>1 DEF OnlySignUp
    <3> QED
      BY <3>2, <2>3, <2>5
  <2> QED
    BY <2>2, <2>3, <2>4, <2>5, <2>6 DEF OnlySignUp, SalonCreatedOnce
<1>2. CASE EnterHome(c)
  BY <1>2, SameSalonsKeeps DEF EnterHome, Closure, SameSalons
<1>3. CASE NoLocation(c)
  BY <1>3, SameSalonsKeeps DEF NoLocation, Closure, SameSalons
<1>4. CASE SaveUploaded(c)
  BY <1>4, SameSalonsKeeps DEF SaveUploaded, SameSalons
<1>5. CASE Reload(c)
  BY <1>5, SameSalonsKeeps DEF Reload, Closure, SameSalons
<1>6. CASE SaveProfile(c)
  BY <1>6, SameSalonsKeeps DEF SaveProfile, Closure, SameSalons
<1>7. CASE GoToSignin(c)
  BY <1>7, SameSalonsKeeps DEF GoToSignin, Closure, SameSalons
<1> QED
  BY <1>1, <1>2, <1>3, <1>4, <1>5, <1>6, <1>7 DEF MainQueue

LEMMA LaunchOnce ==
  ASSUME CInv, NEW c \in Calls, Launch(c)
  PROVE  SameSalons
<1>1. UNCHANGED <<accounts, created>>
  BY DEF Launch, LaunchAt, cloudVars
<1>2. ASSUME NEW b \in Calls, SigningUp(b)' PROVE SigningUp(b) /\ who'[b] = who[b]
  BY <1>2, CallsAssumption DEF Launch, LaunchAt, SigningUp, Over, CInv, TInv, TypeOK
<1> QED
  BY <1>1, <1>2 DEF SameSalons

LEMMA InitOnce == Init => OnlySignUp /\ SalonCreatedOnce
<1> SUFFICES ASSUME Init PROVE OnlySignUp /\ SalonCreatedOnce
  OBVIOUS
<1>1. \A u \in Owner : created[u] = IF u \in accounts THEN 1 ELSE 0
  BY DEF Init
<1>2. \A c \in Calls : ~SigningUp(c)
  BY DEF Init, SigningUp
<1> QED
  BY <1>1, <1>2 DEF OnlySignUp, SalonCreatedOnce

LEMMA NextOnce == CInv /\ [Next]_vars => CInv'
<1> SUFFICES ASSUME CInv, [Next]_vars PROVE OnlySignUp' /\ SalonCreatedOnce'
  BY NextType DEF CInv
<1>1. ASSUME NEW c \in Calls, Start(c) \/ Answer(c) \/ MainQueue(c) \/ Launch(c)
      PROVE  OnlySignUp' /\ SalonCreatedOnce'
  BY <1>1, StartOnce, AnswerOnce, MainQueueOnce, LaunchOnce, SameSalonsKeeps
<1>2. CASE DidUpdateLocations \/ UNCHANGED vars
  BY <1>2, SameSalonsKeeps DEF DidUpdateLocations, vars, SameSalons, SigningUp, callVars, cloudVars
<1> QED
  BY <1>1, <1>2 DEF Next

\* createUserProfile, which replaces the document whole, never meets one: no salon
\* is created twice (SignUPVC.swift:63-99, AppDataManager.swift:72-79).
THEOREM CreatedOnce == Spec => []SalonCreatedOnce
<1>1. Init => CInv
  BY InitType, InitOnce DEF CInv
<1>2. CInv => SalonCreatedOnce
  BY DEF CInv
<1> QED
  BY <1>1, <1>2, NextOnce, PTL DEF Spec

-----------------------------------------------------------------------------
(* A call that has not outlived the session it captured its user in acts for   *)
(* the user who is signed in.  While a sign-in or sign-up is being answered it *)
(* has a user in hand who is not the signed-in one yet.                        *)

Acting == Holding \ {"authenticating"}

Sealed ==
  \A c \in Calls :
    /\ seal[c] <= epoch
    /\ stage[c] \in Acting /\ seal[c] = epoch => who[c] = auth

SInv == TInv /\ Sealed

\* What a step keeps that leaves the session and the captured users alone and lets
\* no call act that did not.
SameSession ==
  /\ UNCHANGED <<auth, epoch, who, seal>>
  /\ \A c \in Calls : stage'[c] \in Acting => stage[c] \in Acting

LEMMA SameSessionKeeps == SInv /\ SameSession => Sealed'
  BY DEF SInv, SameSession, Sealed

LEMMA StartSealed ==
  ASSUME SInv, NEW c \in Calls, Start(c)
  PROVE  Sealed'
<1> USE DEF SInv, TInv, TypeOK, Sealed, Acting, Holding, deviceVars
<1>1. ASSUME NEW u \in Owner, HandleSignIN(c, u) PROVE Sealed'
  BY <1>1 DEF HandleSignIN, Tap
<1>6. ASSUME NEW u \in Owner, HandleSignUP(c, u) PROVE Sealed'
  BY <1>6 DEF HandleSignUP, Tap
<1>2. CASE ChangeProfileImage(c)
  BY <1>2 DEF ChangeProfileImage, Tap
<1>3. CASE RefreshReviewData(c)
  BY <1>3 DEF RefreshReviewData, Tap
<1>4. CASE SignOutFails(c)
  BY <1>4 DEF SignOutFails, Tap
<1>5. CASE LogoutUser(c)
  BY <1>5 DEF LogoutUser, Async
<1> QED
  BY <1>1, <1>2, <1>3, <1>4, <1>5, <1>6 DEF Start

LEMMA AnswerSealed ==
  ASSUME SInv, NEW c \in Calls, Answer(c)
  PROVE  Sealed'
<1> USE DEF SInv, TInv, TypeOK, Acting, Holding, deviceVars
<1>1. CASE SignedIn(c)
  BY <1>1 DEF SignedIn, BecomeUser, Sealed
<1>2. CASE SignedUp(c)
  BY <1>2 DEF SignedUp, BecomeUser, Sealed
<1>3. CASE SignUpUnanswered(c)
  BY <1>3, SameSessionKeeps DEF SignUpUnanswered, SameSession
<1>4. CASE FetchUserProfile(c)
  BY <1>4, SameSessionKeeps DEF FetchUserProfile, SameSession
<1>5. CASE Fetched(c)
  BY <1>5, SameSessionKeeps DEF Fetched, Async, SameSession
<1>6. CASE AccountCreated(c)
  BY <1>6, SameSessionKeeps DEF AccountCreated, Async, SameSession
<1>7. CASE Uploaded(c)
  BY <1>7, SameSessionKeeps DEF Uploaded, Async, SameSession
<1>8. CASE UpdateReviewData(c)
  BY <1>8, SameSessionKeeps DEF UpdateReviewData, SameSession
<1>9. CASE Fails(c)
  BY <1>9, SameSessionKeeps DEF Fails, SameSession
<1> QED
  BY <1>1, <1>2, <1>3, <1>4, <1>5, <1>6, <1>7, <1>8, <1>9 DEF Answer

LEMMA MainQueueSealed ==
  ASSUME SInv, NEW c \in Calls, MainQueue(c)
  PROVE  Sealed'
<1> USE DEF SInv, TInv, TypeOK, Acting, Holding, deviceVars
<1>1. CASE EnterHome(c)
  BY <1>1, SameSessionKeeps DEF EnterHome, Closure, SameSession
<1>2. CASE CreateSalon(c)
  BY <1>2, SameSessionKeeps DEF CreateSalon, Closure, SameSession
<1>3. CASE NoLocation(c)
  BY <1>3, SameSessionKeeps DEF NoLocation, Closure, SameSession
<1>4. CASE SaveUploaded(c)
  BY <1>4, SameSessionKeeps DEF SaveUploaded, SameSession
<1>5. CASE Reload(c)
  BY <1>5 DEF Reload, Closure, Sealed
<1>6. CASE SaveProfile(c)
  BY <1>6, SameSessionKeeps DEF SaveProfile, Closure, SameSession
<1>7. CASE GoToSignin(c)
  BY <1>7, SameSessionKeeps DEF GoToSignin, Closure, SameSession
<1> QED
  BY <1>1, <1>2, <1>3, <1>4, <1>5, <1>6, <1>7 DEF MainQueue

LEMMA LaunchSealed ==
  ASSUME SInv, NEW c \in Calls, Launch(c)
  PROVE  Sealed'
<1> SUFFICES ASSUME NEW b \in Calls
             PROVE  /\ seal'[b] <= epoch'
                    /\ stage'[b] \in Acting /\ seal'[b] = epoch' => who'[b] = auth'
  BY DEF Sealed
<1>1. CASE b = c
  BY <1>1 DEF Launch, LaunchAt, SInv, TInv, TypeOK, deviceVars
<1>2. CASE b # c
  <2>1. stage'[b] \in Over \cup {"idle"}
    BY <1>2 DEF Launch, LaunchAt, Over
  <2>2. stage'[b] \notin Acting
    BY <2>1 DEF Acting, Holding, Over
  <2> QED
    BY <1>2, <2>2 DEF Launch, LaunchAt, SInv, TInv, TypeOK, Sealed
<1> QED
  BY <1>1, <1>2

LEMMA SpecSInv == Spec => []SInv
<1>1. Init => SInv
  BY InitType DEF Init, SInv, Sealed, Acting, Holding
<1>2. SInv /\ [Next]_vars => SInv'
  <2> SUFFICES ASSUME SInv, [Next]_vars PROVE Sealed'
    BY NextType DEF SInv
  <2>1. ASSUME NEW c \in Calls, Start(c) \/ Answer(c) \/ MainQueue(c) \/ Launch(c)
        PROVE  Sealed'
    BY <2>1, StartSealed, AnswerSealed, MainQueueSealed, LaunchSealed
  <2>2. CASE DidUpdateLocations \/ UNCHANGED vars
    BY <2>2, SameSessionKeeps DEF DidUpdateLocations, vars, SameSession, deviceVars, callVars
  <2> QED
    BY <2>1, <2>2 DEF Next
<1> QED
  BY <1>1, <1>2, PTL DEF Spec

\* A profile that is not the signed-in owner's is saved only by a closure that
\* outlived its session (AppDataManager.swift:19-34, 143-150, ProfileVC.swift:200-215).
THEOREM ForeignProfile == Spec => ForeignProfileOnlyIfOutlived
<1> DEFINE Wrong == userProfile' # userProfile /\ userProfile' # auth'
           Excused == mainQ # <<>> /\ Outlived(Head(mainQ))
<1>1. SInv /\ [Next]_vars => [Wrong => Excused]_vars
  <2> SUFFICES ASSUME SInv, [Next]_vars, Wrong PROVE Excused
    OBVIOUS
  <2> USE DEF deviceVars
  <2>1. ASSUME NEW c \in Calls, c = Head(mainQ), mainQ # <<>>, stage[c] \in Acting,
               userProfile' = who[c], auth' = auth
        PROVE  Excused
    BY <2>1 DEF SInv, TInv, TypeOK, Sealed, Outlived
  <2>2. ASSUME NEW c \in Calls, MainQueue(c) PROVE Excused
    <3> USE DEF Acting, Holding
    <3>1. CASE EnterHome(c)
      BY <3>1, <2>1 DEF EnterHome, Closure
    <3>2. CASE CreateSalon(c)
      BY <3>2, <2>1 DEF CreateSalon, Closure
    <3>3. CASE SaveUploaded(c)
      BY <3>3, <2>1 DEF SaveUploaded
    <3>4. CASE SaveProfile(c)
      BY <3>4, <2>1 DEF SaveProfile, Closure
    <3>5. CASE NoLocation(c) \/ Reload(c) \/ GoToSignin(c)
      BY <3>5 DEF NoLocation, Reload, GoToSignin
    <3> QED
      BY <2>2, <3>1, <3>2, <3>3, <3>4, <3>5 DEF MainQueue
  <2>3. ASSUME NEW c \in Calls, Start(c) PROVE FALSE
    BY <2>3 DEF Start, HandleSignIN, HandleSignUP, ChangeProfileImage,
                RefreshReviewData, LogoutUser, SignOutFails
  <2>4. ASSUME NEW c \in Calls, Answer(c) PROVE FALSE
    BY <2>4 DEF Answer, SignedIn, FetchUserProfile, Fetched, SignedUp, SignUpUnanswered,
                AccountCreated, Uploaded, UpdateReviewData, Fails
  <2>5. ASSUME NEW c \in Calls, Launch(c) PROVE FALSE
    BY <2>5 DEF Launch, LaunchAt
  <2>6. CASE DidUpdateLocations \/ UNCHANGED vars
    BY <2>6 DEF DidUpdateLocations, vars
  <2> QED
    BY <2>2, <2>3, <2>4, <2>5, <2>6 DEF Next
<1> QED
  BY <1>1, SpecSInv, PTL DEF Spec, ForeignProfileOnlyIfOutlived

\* A rating computed from another salon's reviews is written only if the owner
\* changed between the query and its answer (AppDataManager.swift:185-242).
THEOREM ForeignRating == Spec => ForeignRatingOnlyIfOutlived
<1> DEFINE Good == \A u \in Owner : rated'[u] \notin {u, rated[u]} =>
                     \E c \in Rates : stage'[c] # stage[c] /\ Outlived(c)
<1>1. SInv /\ [Next]_vars => [Good]_vars
  <2> SUFFICES ASSUME SInv, [Next]_vars,
                      NEW u \in Owner, rated'[u] \notin {u, rated[u]}
               PROVE  \E c \in Rates : stage'[c] # stage[c] /\ Outlived(c)
    OBVIOUS
  <2>1. rated' # rated
    OBVIOUS
  <2>2. ASSUME NEW c \in Calls, UpdateReviewData(c)
        PROVE  c \in Rates /\ stage'[c] # stage[c] /\ Outlived(c)
    <3>1. c \in Rates /\ stage[c] = "querying" /\ stage'[c] = "done"
      BY <2>2 DEF UpdateReviewData, SInv, TInv, TypeOK
    <3>2. rated' = [rated EXCEPT ![auth] = who[c]] /\ auth \in Owner
      BY <2>1, <2>2 DEF UpdateReviewData, HasSalon
    <3>3. u = auth /\ who[c] # auth
      BY <3>2 DEF SInv, TInv, TypeOK
    <3> QED
      BY <3>1, <3>3 DEF SInv, TInv, TypeOK, Sealed, Outlived, Acting, Holding
  <2>3. ASSUME NEW c \in Calls, MainQueue(c) PROVE FALSE
    BY <2>1, <2>3 DEF MainQueue, EnterHome, CreateSalon, NoLocation, SaveUploaded, Reload,
                      SaveProfile, GoToSignin, cloudVars
  <2>4. ASSUME NEW c \in Calls, Start(c) PROVE FALSE
    BY <2>1, <2>4 DEF Start, HandleSignIN, HandleSignUP, ChangeProfileImage,
                      RefreshReviewData, LogoutUser, SignOutFails, cloudVars
  <2>5. ASSUME NEW c \in Calls, Answer(c), ~UpdateReviewData(c) PROVE FALSE
    BY <2>1, <2>5 DEF Answer, SignedIn, FetchUserProfile, Fetched, SignedUp,
                      SignUpUnanswered, AccountCreated, Uploaded, Fails, cloudVars
  <2>6. ASSUME NEW c \in Calls, Launch(c) PROVE FALSE
    BY <2>1, <2>6 DEF Launch, LaunchAt, cloudVars
  <2>7. CASE DidUpdateLocations \/ UNCHANGED vars
    BY <2>1, <2>7 DEF DidUpdateLocations, vars, cloudVars
  <2> QED
    BY <2>2, <2>3, <2>4, <2>5, <2>6, <2>7 DEF Next
<1> QED
  BY <1>1, SpecSInv, PTL DEF Spec, ForeignRatingOnlyIfOutlived

\* The tab bar opens for a signed-in owner with that owner's profile saved, unless the
\* owner changed while the call was answered (SignInVC.swift:80-95, SignUPVC.swift:75-100).
THEOREM OwnHome == Spec => EntersOwnHome
<1> DEFINE Opens == screen = "signin" /\ screen' = "home"
           Good == \/ auth' # NoOne /\ userProfile' = auth'
                   \/ mainQ # <<>> /\ Outlived(Head(mainQ))
                   \/ \E c \in Launches : stage[c] = "idle" /\ stage'[c] # "idle" /\ auth # NoOne
<1>1. SInv /\ [Next]_vars => [Opens => Good]_vars
  <2> SUFFICES ASSUME SInv, [Next]_vars, Opens PROVE Good
    OBVIOUS
  <2>1. ASSUME NEW c \in Calls, c = Head(mainQ), mainQ # <<>>, stage[c] \in Acting,
               userProfile' = who[c], auth' = auth
        PROVE  Good
    <3>1. who[c] \in Owner
      BY <2>1 DEF SInv, TInv, Captured, Acting
    <3>2. CASE seal[c] = epoch
      BY <2>1, <3>1, <3>2, NoOneAssumption DEF SInv, Sealed
    <3>3. CASE seal[c] # epoch
      BY <2>1, <3>3 DEF SInv, TInv, TypeOK, Sealed, Outlived
    <3> QED
      BY <3>2, <3>3
  <2>2. ASSUME NEW c \in Calls, MainQueue(c) PROVE Good
    <3> USE DEF Acting, Holding
    <3>1. CASE EnterHome(c)
      BY <3>1, <2>1 DEF EnterHome, Closure
    <3>2. CASE CreateSalon(c)
      BY <3>2, <2>1 DEF CreateSalon, Closure
    <3>3. CASE SaveUploaded(c) \/ SaveProfile(c) \/ NoLocation(c) \/ Reload(c) \/ GoToSignin(c)
      BY <3>3 DEF SaveUploaded, SaveProfile, NoLocation, Reload, GoToSignin
    <3> QED
      BY <2>2, <3>1, <3>2, <3>3 DEF MainQueue
  <2>3. ASSUME NEW c \in Calls, Start(c) PROVE FALSE
    BY <2>3 DEF Start, HandleSignIN, HandleSignUP, ChangeProfileImage,
                RefreshReviewData, LogoutUser, SignOutFails, processVars
  <2>4. ASSUME NEW c \in Calls, Answer(c) PROVE FALSE
    BY <2>4 DEF Answer, SignedIn, FetchUserProfile, Fetched, SignedUp, SignUpUnanswered,
                AccountCreated, Uploaded, UpdateReviewData, Fails, processVars
  <2>5. ASSUME NEW c \in Calls, Launch(c) PROVE Good
    <3>1. c \in Launches /\ stage[c] = "idle" /\ auth # NoOne
      BY <2>5 DEF Launch, LaunchAt
    <3>2. stage'[c] = "fetching"
      BY <2>5, <3>1 DEF Launch, LaunchAt
    <3> QED
      BY <3>1, <3>2
  <2>6. CASE DidUpdateLocations \/ UNCHANGED vars
    BY <2>6 DEF DidUpdateLocations, vars, processVars
  <2> QED
    BY <2>2, <2>3, <2>4, <2>5, <2>6 DEF Next
<1> QED
  BY <1>1, SpecSInv, PTL DEF Spec, EntersOwnHome

-----------------------------------------------------------------------------
(* One call at a time: SessionAlone implements SessionContract, for every set *)
(* of owners and any number of taps and launches.                             *)

Running(c) == stage[c] \notin Over \cup {"idle"}

\* One call at a time; a call that acts does so for the signed-in user; the screen is
\* the one the call was tapped on, and a logout under way has signed out.
Alone ==
  /\ \A b, c \in Calls : Running(b) /\ Running(c) => b = c
  /\ \A c \in Calls : stage[c] \in Acting => who[c] = auth
  /\ \A c \in Calls : Running(c) =>
       /\ c \in SignIns \cup SignUps => screen = "signin"
       /\ c \in Pictures \cup Launches => screen = "home"
       /\ c \in Logouts => screen = "home" /\ auth = NoOne

AInv == TInv /\ Alone

\* While c runs, no other call does, so what a step does to c is all there is to check.
OnlyRunning(c) == \A b \in Calls \ {c} : ~Running(b)'

LEMMA AloneFor ==
  ASSUME NEW c \in Calls, OnlyRunning(c),
         (stage[c] \in Acting => who[c] = auth)',
         (Running(c) => /\ c \in SignIns \cup SignUps => screen = "signin"
                        /\ c \in Pictures \cup Launches => screen = "home"
                        /\ c \in Logouts => screen = "home" /\ auth = NoOne)'
  PROVE  Alone'
<1>1. \A b \in Calls \ {c} : stage'[b] \notin Acting
  BY DEF OnlyRunning, Running, Acting, Holding, Over
<1> QED
  BY <1>1 DEF Alone, OnlyRunning

LEMMA StartsAlone ==
  ASSUME AInv, NEW c \in Calls, StartAlone(c)
  PROVE  Alone'
<1> USE DEF AInv, TInv, TypeOK, deviceVars, processVars
<1>0. OnlyRunning(c)
  <2>1. \A b \in Calls \ {c} : stage'[b] = stage[b]
    BY DEF StartAlone, Start, HandleSignIN, HandleSignUP, ChangeProfileImage,
           RefreshReviewData, LogoutUser, SignOutFails, Tap, Async
  <2> QED
    BY <2>1 DEF OnlyRunning, StartAlone, Quiet, Running
<1> USE CallsAssumption DEF StartAlone, Acting, Holding
<1>1. ASSUME NEW u \in Owner, HandleSignIN(c, u) PROVE Alone'
  BY <1>0, <1>1, AloneFor DEF HandleSignIN, Tap
<1>2. ASSUME NEW u \in Owner, HandleSignUP(c, u) PROVE Alone'
  BY <1>0, <1>2, AloneFor DEF HandleSignUP, Tap
<1>3. CASE ChangeProfileImage(c)
  BY <1>0, <1>3, AloneFor DEF ChangeProfileImage, Tap
<1>4. CASE RefreshReviewData(c)
  BY <1>0, <1>4, AloneFor DEF RefreshReviewData, Tap
<1>5. CASE LogoutUser(c)
  BY <1>0, <1>5, AloneFor DEF LogoutUser, Async
<1>6. CASE SignOutFails(c)
  BY <1>0, <1>6, AloneFor DEF SignOutFails, Tap, Running, Over
<1> QED
  BY <1>1, <1>2, <1>3, <1>4, <1>5, <1>6 DEF Start

\* An answer or a closure belongs to the call that runs.
LEMMA RunsOn ==
  ASSUME AInv, NEW c \in Calls, Answer(c) \/ MainQueue(c)
  PROVE  Running(c) /\ OnlyRunning(c)
<1> USE DEF AInv, TInv, TypeOK
<1>1. Running(c)
  BY DEF Answer, SignedIn, FetchUserProfile, Fetched, SignedUp, SignUpUnanswered,
         AccountCreated, Uploaded, UpdateReviewData, Fails, MainQueue, EnterHome,
         CreateSalon, NoLocation, SaveUploaded, Reload, SaveProfile, GoToSignin,
         Async, Closure, Running, Over
<1>2. \A b \in Calls \ {c} : stage'[b] = stage[b]
  BY DEF Answer, SignedIn, FetchUserProfile, Fetched, SignedUp, SignUpUnanswered,
         AccountCreated, Uploaded, UpdateReviewData, Fails, MainQueue, EnterHome,
         CreateSalon, NoLocation, SaveUploaded, Reload, SaveProfile, GoToSignin,
         Async, Closure
<1>3. \A b \in Calls \ {c} : ~Running(b)
  BY <1>1 DEF Alone
<1> QED
  BY <1>1, <1>2, <1>3 DEF OnlyRunning, Running

LEMMA AnswersAlone ==
  ASSUME AInv, NEW c \in Calls, Answer(c)
  PROVE  Alone'
<1>0. Running(c) /\ OnlyRunning(c)
  BY RunsOn
<1> USE CallsAssumption DEF AInv, TInv, TypeOK, Alone, Acting, Holding, deviceVars, processVars
<1>1. CASE SignedIn(c)
  BY <1>0, <1>1, AloneFor DEF SignedIn, BecomeUser
<1>2. CASE SignedUp(c)
  BY <1>0, <1>2, AloneFor DEF SignedUp, BecomeUser
<1>3. CASE SignUpUnanswered(c)
  BY <1>0, <1>3, AloneFor DEF SignUpUnanswered, Running, Over
<1>4. CASE FetchUserProfile(c)
  BY <1>0, <1>4, AloneFor DEF FetchUserProfile
<1>5. CASE Fetched(c)
  BY <1>0, <1>5, AloneFor DEF Fetched, Async
<1>6. CASE AccountCreated(c)
  BY <1>0, <1>6, AloneFor DEF AccountCreated, Async
<1>7. CASE Uploaded(c)
  BY <1>0, <1>7, AloneFor DEF Uploaded, Async
<1>8. CASE UpdateReviewData(c)
  BY <1>0, <1>8, AloneFor DEF UpdateReviewData, Running, Over
<1>9. CASE Fails(c)
  BY <1>0, <1>9, AloneFor DEF Fails, Running, Over
<1> QED
  BY <1>1, <1>2, <1>3, <1>4, <1>5, <1>6, <1>7, <1>8, <1>9 DEF Answer

LEMMA ClosuresAlone ==
  ASSUME AInv, NEW c \in Calls, MainQueue(c)
  PROVE  Alone'
<1>0. Running(c) /\ OnlyRunning(c)
  BY RunsOn
<1> USE CallsAssumption DEF AInv, TInv, TypeOK, Alone, Acting, Holding, deviceVars, processVars
<1>1. CASE EnterHome(c)
  BY <1>0, <1>1, AloneFor DEF EnterHome, Closure, Running, Over
<1>2. CASE CreateSalon(c)
  BY <1>0, <1>2, AloneFor DEF CreateSalon, Closure, Running, Over
<1>3. CASE NoLocation(c)
  BY <1>0, <1>3, AloneFor DEF NoLocation, Closure, Running, Over
<1>4. CASE SaveUploaded(c)
  BY <1>0, <1>4, AloneFor DEF SaveUploaded
<1>5. CASE Reload(c)
  BY <1>0, <1>5, AloneFor DEF Reload, Closure
<1>6. CASE SaveProfile(c)
  BY <1>0, <1>6, AloneFor DEF SaveProfile, Closure, Running, Over
<1>7. CASE GoToSignin(c)
  BY <1>0, <1>7, AloneFor DEF GoToSignin, Closure, Running, Over
<1> QED
  BY <1>1, <1>2, <1>3, <1>4, <1>5, <1>6, <1>7 DEF MainQueue

LEMMA LaunchAlone ==
  ASSUME AInv, NEW c \in Calls, Launch(c)
  PROVE  Alone'
<1> USE DEF AInv, TInv, TypeOK, deviceVars
<1>1. OnlyRunning(c)
  BY DEF Launch, LaunchAt, OnlyRunning, Running, Over
<1>2. stage'[c] \in {"done", "fetching"} /\ who'[c] = auth' /\ c \in Launches
  BY DEF Launch, LaunchAt
<1>3. stage'[c] = "fetching" => screen' = "home"
  BY DEF Launch, LaunchAt
<1> QED
  BY <1>1, <1>2, <1>3, AloneFor, CallsAssumption DEF Running, Over

LEMMA SpecAInv == SpecAlone => []AInv
<1>1. Init => AInv
  BY InitType DEF Init, AInv, Alone, Running, Over, Acting, Holding
<1>2. AInv /\ [NextAlone]_vars => AInv'
  <2> SUFFICES ASSUME AInv, [NextAlone]_vars PROVE AInv'
    OBVIOUS
  <2>1. [Next]_vars
    BY DEF NextAlone, StartAlone, Next
  <2>2. TInv'
    BY <2>1, NextType DEF AInv
  <2>3. ASSUME NEW c \in Calls, StartAlone(c) \/ Answer(c) \/ MainQueue(c) \/ Launch(c)
        PROVE  Alone'
    BY <2>3, StartsAlone, AnswersAlone, ClosuresAlone, LaunchAlone
  <2>4. CASE DidUpdateLocations \/ UNCHANGED vars
    BY <2>2, <2>4 DEF DidUpdateLocations, vars, deviceVars, processVars, callVars,
                      AInv, Alone, Running
  <2> QED
    BY <2>2, <2>3, <2>4 DEF NextAlone, AInv
<1> QED
  BY <1>1, <1>2, PTL DEF SpecAlone

-----------------------------------------------------------------------------
(* Every step is a step of the contract, or none. *)

ContractStep == [Contract!Next]_(Contract!vars)

LEMMA AnswerKeeps ==
  ASSUME AInv, NEW c \in Calls, Answer(c)
  PROVE  ContractStep
<1> USE DEF deviceVars, processVars, ContractStep, Contract!vars
<1>0. Running(c)
  BY RunsOn
<1>1. ASSUME SignedIn(c) \/ SignedUp(c) PROVE Contract!Authenticate
  <2>1. who[c] \in Owner /\ screen = "signin"
    BY <1>0, <1>1 DEF SignedIn, SignedUp, AInv, Alone, TInv, Captured, Holding
  <2> QED
    BY <1>1, <2>1 DEF SignedIn, SignedUp, BecomeUser, Contract!Authenticate
<1>2. ASSUME ~SignedIn(c), ~SignedUp(c) PROVE UNCHANGED <<auth, screen, userProfile>>
  BY <1>2 DEF Answer, FetchUserProfile, Fetched, SignUpUnanswered, AccountCreated,
              Uploaded, UpdateReviewData, Fails
<1> QED
  BY <1>1, <1>2 DEF Contract!Next

LEMMA ClosureKeeps ==
  ASSUME AInv, NEW c \in Calls, MainQueue(c)
  PROVE  ContractStep
<1> USE DEF deviceVars, processVars, ContractStep, Contract!vars, Contract!Next
<1>0. Running(c)
  BY RunsOn
<1>1. stage[c] \in Acting => who[c] = auth /\ auth \in Owner /\ auth # NoOne
  BY NoOneAssumption DEF AInv, Alone, TInv, Captured, Acting
<1>2. CASE EnterHome(c) \/ CreateSalon(c)
  <2>1. screen = "signin"
    BY <1>0, <1>2 DEF EnterHome, CreateSalon, AInv, Alone
  <2>2. Contract!Enter
    BY <1>1, <1>2, <2>1 DEF EnterHome, CreateSalon, Closure, Acting, Holding, Contract!Enter
  <2> QED
    BY <2>2
<1>3. CASE SaveUploaded(c) \/ SaveProfile(c)
  <2>1. screen = "home"
    BY <1>0, <1>3 DEF SaveUploaded, SaveProfile, AInv, Alone
  <2>2. Contract!Refresh
    BY <1>1, <1>3, <2>1 DEF SaveUploaded, SaveProfile, Closure, Acting, Holding, Contract!Refresh
  <2> QED
    BY <2>2
<1>4. CASE GoToSignin(c)
  <2>1. screen = "home" /\ auth = NoOne
    BY <1>0, <1>4 DEF GoToSignin, AInv, Alone
  <2>2. Contract!Leave
    BY <1>4, <2>1 DEF GoToSignin, Contract!Leave
  <2> QED
    BY <2>2
<1>5. CASE NoLocation(c) \/ Reload(c)
  BY <1>5 DEF NoLocation, Reload
<1> QED
  BY <1>2, <1>3, <1>4, <1>5 DEF MainQueue

LEMMA StepKeeps == AInv /\ [NextAlone]_vars => ContractStep
<1> SUFFICES ASSUME AInv, [NextAlone]_vars PROVE ContractStep
  OBVIOUS
<1> USE DEF deviceVars, processVars
<1>1. ASSUME NEW c \in Calls, Answer(c) \/ MainQueue(c) PROVE ContractStep
  BY <1>1, AnswerKeeps, ClosureKeeps
<1>2. ASSUME NEW c \in Calls, StartAlone(c), LogoutUser(c) PROVE ContractStep
  BY <1>2 DEF LogoutUser, ContractStep, Contract!Next, Contract!SignOut
<1>3. ASSUME NEW c \in Calls, StartAlone(c), ~LogoutUser(c) PROVE ContractStep
  BY <1>3 DEF StartAlone, Start, HandleSignIN, HandleSignUP, ChangeProfileImage,
              RefreshReviewData, SignOutFails, ContractStep, Contract!vars
<1>4. ASSUME NEW c \in Calls, Launch(c) PROVE ContractStep
  BY <1>4 DEF Launch, LaunchAt, ContractStep, Contract!Next, Contract!Restart
<1>5. CASE DidUpdateLocations \/ UNCHANGED vars
  BY <1>5 DEF DidUpdateLocations, vars, ContractStep, Contract!vars
<1> QED
  BY <1>1, <1>2, <1>3, <1>4, <1>5 DEF NextAlone

\* Used one call at a time, the sign-in screens, logout and the launch keep the contract
\* (SignInVC, SignUPVC, ProfileVC.swift:132-145, SceneDelegate.swift:14-21).
THEOREM AloneKeepsContract == SpecAlone => KeepsContract
<1>1. Init => Contract!Init
  BY DEF Init, Contract!Init
<1> QED
  BY <1>1, SpecAInv, StepKeeps, PTL
     DEF SpecAlone, KeepsContract, Contract!Spec, ContractStep
-----------------------------------------------------------------------------
(* Whose profile is shown at home, and who is left behind the sign-in screen, *)
(* when nothing is under way.  The invariants say it of every state, with the *)
(* call that is going to settle it as one more excuse.                        *)

HomeSettles ==
  screen = "home" /\ auth # NoOne =>
    \/ userProfile = auth
    \/ ~HasSalon(auth)
    \/ FetchFailedFor(auth)
    \/ \E c \in Launches : Running(c) /\ who[c] = auth

SignInSettles ==
  screen = "signin" /\ auth # NoOne =>
    \/ ~HasSalon(auth)
    \/ FetchFailedFor(auth)
    \/ \E c \in SignIns : Running(c) /\ who[c] = auth

\* Calls that have ended stay as they ended.
OverStays == \A c \in Calls : stage[c] \in Over => stage'[c] = stage[c] /\ who'[c] = who[c]

LEMMA EndsAreFinal ==
  ASSUME AInv, NEW c \in Calls, StartAlone(c) \/ Answer(c) \/ MainQueue(c) \/ Launch(c)
  PROVE  OverStays
<1> USE DEF AInv, TInv, TypeOK
<1>1. CASE StartAlone(c)
  BY <1>1 DEF StartAlone, Start, HandleSignIN, HandleSignUP, ChangeProfileImage,
              RefreshReviewData, LogoutUser, SignOutFails, Tap, Async, OverStays, Over
<1>2. CASE Answer(c) \/ MainQueue(c)
  <2>1. stage[c] \notin Over
    BY <1>2, RunsOn DEF Running
  <2>2. \A b \in Calls \ {c} : stage'[b] = stage[b] /\ who'[b] = who[b]
    BY <1>2 DEF Answer, SignedIn, FetchUserProfile, Fetched, SignedUp, SignUpUnanswered,
                AccountCreated, Uploaded, UpdateReviewData, Fails, MainQueue, EnterHome,
                CreateSalon, NoLocation, SaveUploaded, Reload, SaveProfile, GoToSignin,
                Async, Closure
  <2> QED
    BY <2>1, <2>2 DEF OverStays
<1>3. CASE Launch(c)
  BY <1>3 DEF Launch, LaunchAt, OverStays, Over
<1> QED
  BY <1>1, <1>2, <1>3

LEMMA FailureStays ==
  ASSUME OverStays, NEW u, FetchFailedFor(u)
  PROVE  FetchFailedFor(u)'
<1>1. PICK c \in SignIns \cup Launches : who[c] = u /\ stage[c] \in {"failed", "lost"}
  BY DEF FetchFailedFor
<1>2. c \in Calls
  BY DEF Calls
<1> QED
  BY <1>1, <1>2 DEF OverStays, Over, FetchFailedFor

\* A tap finds nothing under way, and changes nothing but that, or signs out.
LEMMA StartSettles ==
  ASSUME AInv, HomeSettles, SignInSettles, NEW c \in Calls, StartAlone(c)
  PROVE  HomeSettles' /\ SignInSettles'
<1> USE DEF deviceVars, processVars, cloudVars
<1>1. CASE LogoutUser(c)
  BY <1>1 DEF LogoutUser, HomeSettles, SignInSettles
<1>2. CASE ~LogoutUser(c)
  <2>1. UNCHANGED <<auth, screen, userProfile, created>>
    BY <1>2 DEF StartAlone, Start, HandleSignIN, HandleSignUP, ChangeProfileImage,
                RefreshReviewData, SignOutFails
  <2>2. \A b \in Calls : ~Running(b)
    BY DEF StartAlone, Quiet, Running
  <2>3. FetchFailedFor(auth) => FetchFailedFor(auth)'
    BY <2>1, EndsAreFinal, FailureStays
  <2>4. Launches \subseteq Calls /\ SignIns \subseteq Calls
    BY DEF Calls
  <2> QED
    BY <2>1, <2>2, <2>3, <2>4 DEF HomeSettles, SignInSettles, HasSalon
<1> QED
  BY <1>1, <1>2

\* The call that ends was the one, or there was none.
LEMMA AnswerSettles ==
  ASSUME AInv, CInv, HomeSettles, SignInSettles, NEW c \in Calls, Answer(c)
  PROVE  HomeSettles' /\ SignInSettles'
<1> USE DEF deviceVars, processVars, cloudVars
<1>0. /\ Running(c) /\ OnlyRunning(c)
      /\ \A b \in Calls : Running(b) => b = c
      /\ Launches \subseteq Calls /\ SignIns \subseteq Calls
      /\ stage \in [Calls -> Stages]
  BY RunsOn DEF AInv, Alone, Calls, TInv, TypeOK
<1>1. OverStays
  BY EndsAreFinal
<1>2. CASE SignedIn(c)
  <2>1. screen = "signin" /\ screen' = screen /\ c \in SignIns /\ who'[c] = who[c] /\ auth' = who[c]
    BY <1>0, <1>2 DEF SignedIn, BecomeUser, AInv, Alone
  <2>2. Running(c)'
    BY <1>0, <1>2 DEF SignedIn, Running, Over
  <2> QED
    BY <2>1, <2>2 DEF HomeSettles, SignInSettles
<1>3. CASE SignedUp(c)
  <2>1. screen = "signin" /\ screen' = screen /\ auth' = who[c] /\ created' = created
    BY <1>0, <1>3 DEF SignedUp, BecomeUser, AInv, Alone
  <2>2. who[c] \notin accounts
    BY <1>3 DEF SignedUp
  <2>3. ~HasSalon(auth)'
    BY <2>1, <2>2 DEF CInv, OnlySignUp, HasSalon
  <2> QED
    BY <2>1, <2>3 DEF HomeSettles, SignInSettles
<1>4. ASSUME UNCHANGED <<auth, screen, userProfile, created, who>>,
             Running(c)' \/ stage'[c] = "failed" \/ c \notin SignIns \cup Launches
      PROVE  HomeSettles' /\ SignInSettles'
  <2>1. FetchFailedFor(auth) => FetchFailedFor(auth)'
    BY <1>1, <1>4, FailureStays
  <2>2. stage'[c] = "failed" /\ c \in SignIns \cup Launches /\ who[c] = auth => FetchFailedFor(auth)'
    BY <1>4 DEF FetchFailedFor
  <2>3. HomeSettles'
    BY <2>1, <2>2, <1>0, <1>4 DEF HomeSettles, HasSalon
  <2>4. SignInSettles'
    BY <2>1, <2>2, <1>0, <1>4 DEF SignInSettles, HasSalon
  <2> QED
    BY <2>3, <2>4
<1>5. CASE FetchUserProfile(c)
  BY <1>0, <1>4, <1>5 DEF FetchUserProfile, Running, Over
<1>6. CASE Fetched(c)
  BY <1>0, <1>4, <1>6 DEF Fetched, Async, Running, Over
<1>7. CASE SignUpUnanswered(c)
  BY <1>0, <1>4, <1>7 DEF SignUpUnanswered
<1>8. CASE AccountCreated(c)
  BY <1>0, <1>4, <1>8 DEF AccountCreated, Async, Running, Over
<1>9. CASE Uploaded(c)
  BY <1>0, <1>4, <1>9 DEF Uploaded, Async, Running, Over
<1>10. CASE UpdateReviewData(c)
  BY <1>0, <1>4, <1>10, CallsAssumption DEF UpdateReviewData
<1>11. CASE Fails(c)
  BY <1>0, <1>4, <1>11 DEF Fails
<1> QED
  BY <1>2, <1>3, <1>5, <1>6, <1>7, <1>8, <1>9, <1>10, <1>11 DEF Answer

LEMMA ClosureSettles ==
  ASSUME AInv, HomeSettles, SignInSettles, NEW c \in Calls, MainQueue(c)
  PROVE  HomeSettles' /\ SignInSettles'
<1> USE DEF deviceVars, processVars, cloudVars
<1>0. /\ Running(c)
      /\ \A b \in Calls : Running(b) => b = c
      /\ stage[c] \in Acting => who[c] = auth
      /\ Launches \subseteq Calls /\ SignIns \subseteq Calls
  BY RunsOn DEF AInv, Alone, Calls
<1>1. OverStays
  BY EndsAreFinal
<1>2. ASSUME screen' = "home", auth' = auth, userProfile' = who[c], stage[c] \in Acting
      PROVE  HomeSettles' /\ SignInSettles'
  BY <1>0, <1>2 DEF HomeSettles, SignInSettles
<1>3. CASE EnterHome(c)
  BY <1>2, <1>3 DEF EnterHome, Closure, Acting, Holding
<1>4. CASE CreateSalon(c)
  BY <1>2, <1>4 DEF CreateSalon, Closure, Acting, Holding
<1>5. CASE SaveUploaded(c)
  <2>1. screen = "home"
    BY <1>0, <1>5 DEF SaveUploaded, AInv, Alone
  <2> QED
    BY <1>2, <1>5, <2>1 DEF SaveUploaded, Acting, Holding
<1>6. CASE SaveProfile(c)
  <2>1. screen = "home"
    BY <1>0, <1>6 DEF SaveProfile, AInv, Alone
  <2> QED
    BY <1>2, <1>6, <2>1 DEF SaveProfile, Closure, Acting, Holding
<1>7. CASE GoToSignin(c)
  <2>1. auth = NoOne /\ auth' = auth
    BY <1>0, <1>7 DEF GoToSignin, AInv, Alone
  <2> QED
    BY <2>1 DEF HomeSettles, SignInSettles
<1>8. ASSUME UNCHANGED <<auth, screen, userProfile, created>>, c \notin SignIns \cup Launches
      PROVE  HomeSettles' /\ SignInSettles'
  <2>1. FetchFailedFor(auth) => FetchFailedFor(auth)'
    BY <1>1, <1>8, FailureStays
  <2> QED
    BY <2>1, <1>0, <1>8 DEF HomeSettles, SignInSettles, HasSalon
<1>9. CASE NoLocation(c)
  BY <1>8, <1>9, CallsAssumption DEF NoLocation
<1>10. CASE Reload(c)
  BY <1>8, <1>10, CallsAssumption DEF Reload
<1> QED
  BY <1>3, <1>4, <1>5, <1>6, <1>7, <1>9, <1>10 DEF MainQueue

\* A launch with a user starts at home and fetches that user's profile.
LEMMA LaunchSettles ==
  ASSUME AInv, NEW c \in Calls, Launch(c)
  PROVE  HomeSettles' /\ SignInSettles'
<1>1. auth' = auth /\ c \in Launches /\ who'[c] = auth /\ screen' = (IF auth = NoOne THEN "signin" ELSE "home")
  BY DEF Launch, LaunchAt, deviceVars, AInv, TInv, TypeOK
<1>2. auth # NoOne => stage'[c] = "fetching"
  BY DEF Launch, LaunchAt
<1>3. auth # NoOne => Running(c)'
  BY <1>2 DEF Running, Over
<1> QED
  BY <1>1, <1>3 DEF HomeSettles, SignInSettles

LEMMA SpecSettles == SpecAlone => [](HomeSettles /\ SignInSettles)
<1>1. Init => CInv /\ HomeSettles /\ SignInSettles
  BY InitType, InitOnce DEF CInv, Init, HomeSettles, SignInSettles
<1>2. AInv /\ CInv /\ HomeSettles /\ SignInSettles /\ [NextAlone]_vars
      => CInv' /\ HomeSettles' /\ SignInSettles'
  <2> SUFFICES ASSUME AInv, CInv, HomeSettles, SignInSettles, [NextAlone]_vars
               PROVE  CInv' /\ HomeSettles' /\ SignInSettles'
    OBVIOUS
  <2>1. [Next]_vars
    BY DEF NextAlone, StartAlone, Next
  <2>2. CInv'
    BY <2>1, NextOnce
  <2>3. ASSUME NEW c \in Calls, StartAlone(c) \/ Answer(c) \/ MainQueue(c) \/ Launch(c)
        PROVE  HomeSettles' /\ SignInSettles'
    BY <2>3, StartSettles, AnswerSettles, ClosureSettles, LaunchSettles
  <2>4. CASE DidUpdateLocations \/ UNCHANGED vars
    <3>1. UNCHANGED <<auth, screen, userProfile, created, stage, who>>
      BY <2>4 DEF DidUpdateLocations, vars, deviceVars, processVars, callVars, cloudVars
    <3>2. HomeSettles'
      BY <3>1 DEF HomeSettles, HasSalon, FetchFailedFor, Running
    <3>3. SignInSettles'
      BY <3>1 DEF SignInSettles, HasSalon, FetchFailedFor, Running
    <3> QED
      BY <2>2, <3>2, <3>3
  <2>5. (\E c \in Calls : StartAlone(c) \/ Answer(c) \/ MainQueue(c) \/ Launch(c))
        \/ DidUpdateLocations \/ UNCHANGED vars
    BY DEF NextAlone
  <2> QED
    BY <2>2, <2>3, <2>4, <2>5
<1> QED
  BY <1>1, <1>2, SpecAInv, PTL DEF SpecAlone

\* At rest, home shows the signed-in owner's profile, unless that owner has no salon or a
\* fetch of it failed (AppDataManager.swift:61-70, ProfileVC.swift:38).
THEOREM HomeIsOwners == SpecAlone => []HomeShowsOwner
<1>1. HomeSettles => HomeShowsOwner
  BY DEF HomeSettles, HomeShowsOwner, Quiet, Running, Calls
<1> QED
  BY <1>1, SpecSettles, PTL

\* At rest, an owner is signed in behind the sign-in screen only without a salon, or if
\* it could not be fetched (SignInVC.swift:96-99, SignUPVC.swift:77-78).
THEOREM NoneStranded == SpecAlone => []StrandedOnlyWithoutSalon
<1>1. SignInSettles => StrandedOnlyWithoutSalon
  BY DEF SignInSettles, StrandedOnlyWithoutSalon, Quiet, Running, Calls
<1> QED
  BY <1>1, SpecSettles, PTL
=============================================================================
