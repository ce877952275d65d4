------------------------------ MODULE SalonDoc ------------------------------
(***************************************************************************)
(* The salon document salons/<uid> and everything in the app that changes  *)
(* it: sign-up creates it, AddServicesVC appends a service,                *)
(* AppDataManager.uploadProfileImage sets the picture and                  *)
(* AppDataManager.updateReviewData sets the rating.  Every one of them but *)
(* sign-up reads the whole document, changes a field of the copy and       *)
(* writes the whole copy back with merge:true, in callbacks that other     *)
(* operations, on this device and on the owner's other devices, interleave *)
(* with.                                                                   *)
(*                                                                         *)
(* Between the app and the server sits the Firestore client: a cached      *)
(* copy, a first-in-first-out queue of local writes that survives a        *)
(* restart, and a main queue on which callbacks run one at a time.  How    *)
(* the client empties the queue is FirestoreWrites' subject; here a write  *)
(* the server has applied is sent and applied again if the connection is   *)
(* lost before the answer has come, as WriteQueue allows.                  *)
(***************************************************************************)
EXTENDS Integers, Sequences, SequencesExt

CONSTANTS Device,      \* installations of the app signed in as this owner
          Adds,        \* runs of AddServicesVC.handleAddService, also the service each adds
          Images,      \* runs of AppDataManager.uploadProfileImage
          Rates,       \* runs of BookingVC.refreshReviewData
          Menus,       \* runs of MenuVC.getAllSalons on its own
          Loads,       \* runs of AppDataManager.fetchAndSaveProfile on its own
          SignUp,      \* the run of SignUPVC that created the account
          dev,         \* the device of each run
          MaxComments, \* bound: customers' comments
          MaxCrashes,  \* bound: times the app is killed
          MaxDrops     \* bound: times a device loses its network

Writers == Adds \cup Images \cup Rates
Ops == Writers \cup Menus \cup Loads \cup {SignUp}

ASSUME RunsAssumption ==
  /\ dev \in [Ops -> Device]
  /\ SignUp \notin Writers \cup Menus \cup Loads
  /\ Adds \cap (Images \cup Rates \cup Menus \cup Loads) = {}
  /\ Images \cap (Rates \cup Menus \cup Loads) = {}
  /\ Rates \cap (Menus \cup Loads) = {}
  /\ Menus \cap Loads = {}

ASSUME BoundsAssumption ==
  MaxComments \in Nat /\ MaxCrashes \in Nat /\ MaxDrops \in Nat

VARIABLES
  server,    \* the document as the server holds it
  writes,    \* how many writes the server has applied
  landed,    \* landed[o]: the place of o's write in the server's order, 0 if none
  last,      \* last[o]: the place of its last repetition, landed[o] if there is none
  cache,     \* cache[d]: the copy the Firestore client of d last got from the server
  version,   \* version[d]: the place in the server's order that copy stands for
  pending,   \* pending[d]: local writes of d that have not been answered
  taken,     \* taken[d]: how many of them the server has applied on this connection
  mainQ,     \* mainQ[d]: runs whose callback waits on the main queue of d
  phase,     \* phase[o]: how far run o has come
  input,     \* input[o]: the picture or the number of comments o will write
  saw,       \* saw[o]: the document o's last fetch returned
  wrote,     \* wrote[o]: the document o passed to setData
  deaf,      \* runs whose completion handler does not exist (any more)
  denied,    \* runs whose write was answered with an error (not in the program)
  online,    \* online[d]: d reaches the server
  object,    \* how often the picture was uploaded; the stored object is the last
  comments,  \* comments customers have left
  profile,   \* profile[d]: the copy in UserDefaults
  menu,      \* menu[d]: the services MenuVC shows
  toast,     \* toast[o]: what o told the owner last
  crashes,   \* times the app was killed
  drops      \* times a device lost its network

docVars    == <<server, writes, landed, last>>
clientVars == <<cache, version, pending, taken, deaf, denied>>
runVars    == <<phase, input, saw, wrote>>
worldVars  == <<online, object, comments, crashes, drops>>
uiVars     == <<profile, menu, toast>>
vars == <<docVars, clientVars, mainQ, runVars, worldVars, uiVars>>

-----------------------------------------------------------------------------
(***************************************************************************)
(* Copies of the document.  Of SalonModel only the fields the app ever     *)
(* changes are kept.  image is the number of the upload the URL belongs to *)
(* (0: nil), services the set of runs whose service is in the array ({}:   *)
(* nil, because the array is never emptied), score the number of comments  *)
(* rating and reviews were computed from.  seen is not in the program: it  *)
(* is the set of writes the copy was computed with knowledge of.           *)
(***************************************************************************)
Copy == [exists: BOOLEAN, image: Nat, services: SUBSET Adds,
         score: Nat, seen: SUBSET Ops]

NoDoc == [exists |-> FALSE, image |-> 0, services |-> {}, score |-> 0, seen |-> {}]

\* Mutant: sign-up marks a salon without reviews with -1.
FreshSalonUnrated == [NoDoc EXCEPT !.exists = TRUE, !.score = -1]

\* What SignUPVC creates: no picture yet, services nil, no reviews.
FreshSalon == [NoDoc EXCEPT !.exists = TRUE]

\* Mutant: the encoder writes nil fields as null.
MergeWithNulls(doc, o) == [wrote[o] EXCEPT !.exists = TRUE, !.seen = @ \cup {o}]

\* Mutant: a picture the document already has is kept.
MergeKeepingImage(doc, o) ==
  LET new == wrote[o]
  IN [exists   |-> TRUE,
      image    |-> IF doc.image = 0 THEN new.image ELSE doc.image,
      services |-> IF new.services = {} THEN doc.services ELSE new.services,
      score    |-> new.score,
      seen     |-> new.seen \cup {o}]

\* setData(merge: true): the encoder leaves nil fields out, so they keep the
\* value they have; all the others are replaced, the services array whole.
Merge(doc, o) ==
  LET new == wrote[o]
  IN [exists   |-> TRUE,
      image    |-> IF new.image = 0 THEN doc.image ELSE new.image,
      services |-> IF new.services = {} THEN doc.services ELSE new.services,
      score    |-> new.score,
      seen     |-> new.seen \cup {o}]

\* createUserProfile calls setData without merge, the updates with it.
Apply(doc, o) == IF o = SignUp THEN Merge(NoDoc, o) ELSE Merge(doc, o)

\* A copy from the server under the pending writes of d: what the client answers.
\* The overlay is one patch, extended by every write and computed anew from the
\* writes that are left whenever one is answered.
Overlay(d, copy) ==
  LET q    == pending[d]
      base == IF Contains(q, SignUp) THEN NoDoc ELSE copy
      i    == SelectLastInSeq(q, LAMBDA o : wrote[o].image # 0)
      s    == SelectLastInSeq(q, LAMBDA o : wrote[o].services # {})
  IN IF pending[d] = <<>> THEN copy
     ELSE [exists   |-> TRUE,
           image    |-> IF i = 0 THEN base.image ELSE wrote[q[i]].image,
           services |-> IF s = 0 THEN base.services ELSE wrote[q[s]].services,
           score    |-> wrote[Last(q)].score,
           seen     |-> wrote[Last(q)].seen \cup {Last(q)}]

View(d) == Overlay(d, cache[d])

\* Mutant: the services array is replaced by the new service, not appended to.
RevisedReplacing(o) ==
  [saw[o] EXCEPT !.image    = IF o \in Images THEN input[o] ELSE @,
                 !.services = IF o \in Adds THEN {o} ELSE @,
                 !.score    = IF o \in Rates THEN input[o] ELSE @]

\* Mutant: adding a service writes the rating of a new salon.
RevisedUnrated(o) ==
  [saw[o] EXCEPT !.image    = IF o \in Images THEN input[o] ELSE @,
                 !.services = IF o \in Adds THEN @ \cup {o} ELSE @,
                 !.score    = IF o \in Rates THEN input[o] ELSE 0]

\* The copy as run o writes it back: one field changed, the rest as fetched.
Revised(o) ==
  [saw[o] EXCEPT !.image    = IF o \in Images THEN input[o] ELSE @,
                 !.services = IF o \in Adds THEN @ \cup {o} ELSE @,
                 !.score    = IF o \in Rates THEN input[o] ELSE @]

-----------------------------------------------------------------------------
Phases == {"idle", "uploading", "linking", "scoring", "fetching", "fetched",
           "unfetched", "pending", "acked", "rejected",
           "refetching", "refetched", "unrefetched", "done", "failed", "lost"}

Over == {"done", "failed", "lost"}
Toasts == {"none", "added", "add failed", "image updated", "image failed"}

TypeOK ==
  /\ server \in Copy
  /\ writes \in Nat
  /\ landed \in [Ops -> Nat]
  /\ last \in [Ops -> Nat]
  /\ cache \in [Device -> Copy]
  /\ version \in [Device -> Nat]
  /\ pending \in [Device -> Seq(Ops)]
  /\ taken \in [Device -> Nat]
  /\ mainQ \in [Device -> Seq(Ops)]
  /\ phase \in [Ops -> Phases]
  /\ input \in [Ops -> Nat]
  /\ saw \in [Ops -> Copy]
  /\ wrote \in [Ops -> Copy]
  /\ deaf \subseteq Ops
  /\ denied \subseteq Ops
  /\ online \in [Device -> BOOLEAN]
  /\ object \in Nat
  /\ comments \in Nat
  /\ profile \in [Device -> Copy]
  /\ menu \in [Device -> SUBSET Adds]
  /\ toast \in [Ops -> Toasts]
  /\ crashes \in Nat
  /\ drops \in Nat

\* Sign-up has just queued the document and saved the profile on its device.
Init ==
  /\ server = NoDoc
  /\ writes = 0
  /\ landed = [o \in Ops |-> 0]
  /\ last = [o \in Ops |-> 0]
  /\ cache = [d \in Device |-> NoDoc]
  /\ version = [d \in Device |-> 0]
  /\ pending = [d \in Device |-> IF d = dev[SignUp] THEN <<SignUp>> ELSE <<>>]
  /\ taken = [d \in Device |-> 0]
  /\ mainQ = [d \in Device |-> <<>>]
  /\ phase = [o \in Ops |-> IF o = SignUp THEN "pending" ELSE "idle"]
  /\ input = [o \in Ops |-> 0]
  /\ saw = [o \in Ops |-> NoDoc]
  /\ wrote = [o \in Ops |-> IF o = SignUp THEN FreshSalon ELSE NoDoc]
  /\ deaf = {SignUp}
  /\ denied = {}
  /\ online = [d \in Device |-> TRUE]
  /\ object = 0
  /\ comments = 0
  /\ profile = [d \in Device |-> IF d = dev[SignUp] THEN FreshSalon ELSE NoDoc]
  /\ menu = [d \in Device |-> {}]
  /\ toast = [o \in Ops |-> "none"]
  /\ crashes = 0
  /\ drops = 0

-----------------------------------------------------------------------------
(* Starting a run: none of the handlers asks whether another one is under way. *)

Start(o, p) ==
  /\ phase[o] = "idle"
  /\ phase' = [phase EXCEPT ![o] = p]
  /\ UNCHANGED <<docVars, clientVars, mainQ, input, saw, wrote, worldVars, uiVars>>

HandleAddService(o) == o \in Adds /\ Start(o, "fetching")

ChangeProfileImage(o) == o \in Images /\ Start(o, "uploading")

RefreshReviewData(o) == o \in Rates /\ Start(o, "scoring")

GetAllSalons(o) == o \in Menus /\ Start(o, "refetching")

FetchAndSaveProfile(o) == o \in Loads /\ Start(o, "refetching")

-----------------------------------------------------------------------------
(* Storage and the reviews query: what an image run and a rating run need *)
(* before they fetch the document.                                        *)

\* putData to AdminProfile/<uid>.jpg: one object per salon, replaced each time.
PutData(o) ==
  /\ phase[o] = "uploading"
  /\ online[dev[o]]
  /\ object' = object + 1
  /\ phase' = [phase EXCEPT ![o] = "linking"]
  /\ UNCHANGED <<docVars, clientVars, mainQ, input, saw, wrote,
                 online, comments, crashes, drops, uiVars>>

\* downloadURL names whatever object is stored when it is answered.
DownloadURL(o) ==
  /\ phase[o] = "linking"
  /\ online[dev[o]]
  /\ input' = [input EXCEPT ![o] = object]
  /\ phase' = [phase EXCEPT ![o] = "fetching"]
  /\ UNCHANGED <<docVars, clientVars, mainQ, saw, wrote, worldVars, uiVars>>

\* Either storage call fails, or the picture has no PNG data: the completion
\* handler shows the failure, nothing is written.
UploadFails(o) ==
  /\ phase[o] \in {"uploading", "linking"}
  /\ phase' = [phase EXCEPT ![o] = "failed"]
  /\ toast' = [toast EXCEPT ![o] = "image failed"]
  /\ UNCHANGED <<docVars, clientVars, mainQ, input, saw, wrote, worldVars,
                 profile, menu>>

\* getReviews answers with n comments, all of them when the server answers and
\* an earlier state when the cache does; with no reviews nothing is written.
GetReviews(o, n) ==
  /\ phase[o] = "scoring"
  /\ n \in 0..comments
  /\ online[dev[o]] => n = comments
  /\ input' = [input EXCEPT ![o] = n]
  /\ phase' = [phase EXCEPT ![o] = IF n > 0 THEN "fetching" ELSE "done"]
  /\ UNCHANGED <<docVars, clientVars, mainQ, saw, wrote, worldVars, uiVars>>

GetReviewsFails(o) ==
  /\ phase[o] = "scoring"
  /\ phase' = [phase EXCEPT ![o] = "failed"]
  /\ UNCHANGED <<docVars, clientVars, mainQ, input, saw, wrote, worldVars, uiVars>>

-----------------------------------------------------------------------------
(* getDocument.  Its answer waits on the main queue until the callback runs. *)

Fetching == {"fetching", "refetching"}
Answer(p) == IF p = "fetching" THEN "fetched" ELSE "refetched"
NoAnswer(p) == IF p = "fetching" THEN "unfetched" ELSE "unrefetched"

\* Mutant: an answer overtakes the callbacks that already wait.
FetchOvertaking(o) ==
  LET d == dev[o] IN
  /\ phase[o] \in Fetching
  /\ online[d]
  /\ cache' = [cache EXCEPT ![d] = server]
  /\ version' = [version EXCEPT ![d] = writes]
  /\ Overlay(d, server).exists
  /\ saw' = [saw EXCEPT ![o] = Overlay(d, server)]
  /\ phase' = [phase EXCEPT ![o] = Answer(@)]
  /\ mainQ' = [mainQ EXCEPT ![d] = <<o>> \o @]
  /\ UNCHANGED <<docVars, pending, taken, deaf, denied, input, wrote, worldVars, uiVars>>

\* Online the client first brings its cached copy up to date.
FetchFromServer(o) ==
  LET d == dev[o] IN
  /\ phase[o] \in Fetching
  /\ online[d]
  /\ cache' = [cache EXCEPT ![d] = server]
  /\ version' = [version EXCEPT ![d] = writes]
  /\ Overlay(d, server).exists
  /\ saw' = [saw EXCEPT ![o] = Overlay(d, server)]
  /\ phase' = [phase EXCEPT ![o] = Answer(@)]
  /\ mainQ' = [mainQ EXCEPT ![d] = Append(@, o)]
  /\ UNCHANGED <<docVars, pending, taken, deaf, denied, input, wrote, worldVars, uiVars>>

FetchFromCache(o) ==
  LET d == dev[o] IN
  /\ phase[o] \in Fetching
  /\ ~online[d]
  /\ View(d).exists
  /\ saw' = [saw EXCEPT ![o] = View(d)]
  /\ phase' = [phase EXCEPT ![o] = Answer(@)]
  /\ mainQ' = [mainQ EXCEPT ![d] = Append(@, o)]
  /\ UNCHANGED <<docVars, clientVars, input, wrote, worldVars, uiVars>>

\* The server refuses, or there is no document to be had.
FetchFails(o) ==
  LET d == dev[o] IN
  /\ phase[o] \in Fetching
  /\ online[d] \/ ~View(d).exists
  /\ phase' = [phase EXCEPT ![o] = NoAnswer(@)]
  /\ mainQ' = [mainQ EXCEPT ![d] = Append(@, o)]
  /\ UNCHANGED <<docVars, clientVars, input, saw, wrote, worldVars, uiVars>>

-----------------------------------------------------------------------------
(* Callbacks: the main queue of d runs the callback of its first run o. *)

Callback(d, o, from, to) ==
  /\ mainQ[d] # <<>>
  /\ o = Head(mainQ[d])
  /\ phase[o] = from
  /\ mainQ' = [mainQ EXCEPT ![d] = Tail(@)]
  /\ phase' = [phase EXCEPT ![o] = to]

\* The fetched copy is changed and handed to setData in the same callback; the
\* client applies it to its own view at once.
UpdateUserProfile(d, o) ==
  /\ Callback(d, o, "fetched", "pending")
  /\ wrote' = [wrote EXCEPT ![o] = Revised(o)]
  /\ pending' = [pending EXCEPT ![d] = Append(@, o)]
  /\ UNCHANGED <<docVars, cache, version, taken, deaf, denied, input, saw, worldVars, uiVars>>

FetchFailed(d, o) ==
  /\ Callback(d, o, "unfetched", "failed")
  /\ toast' = [toast EXCEPT ![o] = CASE o \in Adds   -> "add failed"
                                     [] o \in Images -> "image failed"
                                     [] OTHER        -> @]
  /\ UNCHANGED <<docVars, clientVars, input, saw, wrote, worldVars, profile, menu>>

\* AddServicesVC ignores the error its completion handler is given: rejected or
\* acknowledged, it shows the same message, pops, and the menu is fetched again.
ServiceWritten(d, o) ==
  /\ o \in Adds
  /\ \E answer \in {"acked", "rejected"} : Callback(d, o, answer, "refetching")
  /\ toast' = [toast EXCEPT ![o] = "added"]
  /\ UNCHANGED <<docVars, clientVars, input, saw, wrote, worldVars, profile, menu>>

\* The picture is in the document: the copy written is saved in UserDefaults
\* and ProfileVC fetches the profile again.
ImageWritten(d, o) ==
  /\ o \in Images
  /\ Callback(d, o, "acked", "refetching")
  /\ profile' = [profile EXCEPT ![d] = wrote[o]]
  /\ UNCHANGED <<docVars, clientVars, input, saw, wrote, worldVars, menu, toast>>

ImageRejected(d, o) ==
  /\ o \in Images
  /\ Callback(d, o, "rejected", "failed")
  /\ toast' = [toast EXCEPT ![o] = "image failed"]
  /\ UNCHANGED <<docVars, clientVars, input, saw, wrote, worldVars, profile, menu>>

\* updateReviewData does nothing with either answer.
RatingWritten(d, o) ==
  /\ o \in Rates
  /\ \E answer \in {"acked", "rejected"} :
       Callback(d, o, answer, IF answer = "acked" THEN "done" ELSE "failed")
  /\ UNCHANGED <<docVars, clientVars, input, saw, wrote, worldVars, uiVars>>

\* MenuVC replaces its list, unless the salon has no services yet.
ShowServices(d, o) ==
  /\ o \in Adds \cup Menus
  /\ Callback(d, o, "refetched", "done")
  /\ menu' = [menu EXCEPT ![d] = IF saw[o].services = {} THEN @ ELSE saw[o].services]
  /\ UNCHANGED <<docVars, clientVars, input, saw, wrote, worldVars, profile, toast>>

SaveUserProfile(d, o) ==
  /\ o \in Images \cup Loads
  /\ Callback(d, o, "refetched", "done")
  /\ profile' = [profile EXCEPT ![d] = saw[o]]
  /\ toast' = [toast EXCEPT ![o] = IF o \in Images THEN "image updated" ELSE @]
  /\ UNCHANGED <<docVars, clientVars, input, saw, wrote, worldVars, menu>>

\* default: break
RefetchFailed(d, o) ==
  /\ Callback(d, o, "unrefetched", "done")
  /\ UNCHANGED <<docVars, clientVars, input, saw, wrote, worldVars, uiVars>>

-----------------------------------------------------------------------------
(* The write stream.  The client sends the pending writes one after the other  *)
(* without waiting; the server applies them in that order and answers each.    *)

\* The server applies the next of the writes of d it was sent.
CommitWrite(d) ==
  /\ online[d]
  /\ taken[d] < Len(pending[d])
  /\ LET o == pending[d][taken[d] + 1] IN
     /\ phase[o] = "pending"
     /\ server' = [Apply(server, o) EXCEPT !.seen = server.seen \cup {o}]
     /\ landed' = [landed EXCEPT ![o] = IF @ = 0 THEN writes + 1 ELSE @]
     /\ last' = [last EXCEPT ![o] = writes + 1]
  /\ writes' = writes + 1
  /\ taken' = [taken EXCEPT ![d] = @ + 1]
  /\ UNCHANGED <<cache, version, pending, deaf, denied, mainQ, runVars, worldVars, uiVars>>

\* Mutant: the completion handler is not called when the write is rejected.
AnsweredOnSuccess(d, o, outcome, over) ==
  /\ pending' = [pending EXCEPT ![d] = Tail(@)]
  /\ phase' = [phase EXCEPT ![o] = IF o \in deaf THEN over ELSE outcome]
  /\ mainQ' = [mainQ EXCEPT ![d] = IF o \in deaf \/ outcome = "rejected" THEN @
                                   ELSE Append(@, o)]

\* The write leaves the queue with the given outcome; after a restart no
\* completion handler is left to tell.
Answered(d, o, outcome, over) ==
  /\ pending' = [pending EXCEPT ![d] = Tail(@)]
  /\ phase' = [phase EXCEPT ![o] = IF o \in deaf THEN over ELSE outcome]
  /\ mainQ' = [mainQ EXCEPT ![d] = IF o \in deaf THEN @ ELSE Append(@, o)]

\* The write is applied to the cached copy, unless that is as new already.
AcknowledgeBatch(d) ==
  /\ online[d]
  /\ pending[d] # <<>>
  /\ taken[d] > 0
  /\ LET o     == Head(pending[d])
         newer == version[d] < last[o]
     IN /\ phase[o] = "pending"
        /\ cache' = [cache EXCEPT ![d] = IF newer THEN Apply(@, o) ELSE @]
        /\ version' = [version EXCEPT ![d] = IF newer THEN last[o] ELSE @]
        /\ Answered(d, o, "acked", "done")
  /\ taken' = [taken EXCEPT ![d] = @ - 1]
  /\ UNCHANGED <<docVars, deaf, denied, input, saw, wrote, worldVars, uiVars>>

\* Mutant: an error is blamed on the first pending write, applied or not.
RejectAnyBatch(d) ==
  /\ online[d]
  /\ pending[d] # <<>>
  /\ Answered(d, Head(pending[d]), "rejected", "failed")
  /\ UNCHANGED <<docVars, cache, version, taken, deaf, denied, input, saw, wrote, worldVars, uiVars>>

\* An error is about the first write without an answer, once those before it on this
\* connection have theirs; or it overtakes the answers of writes that were applied,
\* when a write behind the refused one was being sent, and hits the first of them.
RejectBatch(d) ==
  /\ online[d]
  /\ pending[d] # <<>>
  /\ taken[d] = 0 \/ taken[d] + 1 < Len(pending[d])
  /\ LET o == Head(pending[d]) IN
     /\ phase[o] = "pending"
     /\ Answered(d, o, "rejected", "failed")
  /\ denied' = denied \cup {Head(pending[d])}
  /\ taken' = [taken EXCEPT ![d] = 0]
  /\ UNCHANGED <<docVars, cache, version, deaf, input, saw, wrote, worldVars, uiVars>>

-----------------------------------------------------------------------------
(* The world: the network, the operating system, the customers. *)

\* The connection breaks: whatever has no answer yet will be sent again.
NetworkDown(d) ==
  /\ online[d]
  /\ drops < MaxDrops
  /\ online' = [online EXCEPT ![d] = FALSE]
  /\ taken' = [taken EXCEPT ![d] = 0]
  /\ drops' = drops + 1
  /\ UNCHANGED <<docVars, cache, version, pending, deaf, denied, mainQ, runVars, object, comments, crashes, uiVars>>

NetworkUp(d) ==
  /\ ~online[d]
  /\ online' = [online EXCEPT ![d] = TRUE]
  /\ UNCHANGED <<docVars, clientVars, mainQ, runVars, object, comments, crashes, drops, uiVars>>

\* The app is killed and started again: callbacks and the screen are gone; the
\* cache, the pending writes and UserDefaults are on disk.
Crash(d) ==
  LET mine    == {o \in Ops : dev[o] = d}
      inQueue == {o \in mine : phase[o] = "pending"}
      gone    == {o \in mine \ inQueue : phase[o] \notin Over \cup {"idle"}}
  IN /\ crashes < MaxCrashes
     /\ crashes' = crashes + 1
     /\ deaf' = deaf \cup inQueue
     /\ phase' = [o \in Ops |-> IF o \in gone THEN "lost" ELSE phase[o]]
     /\ mainQ' = [mainQ EXCEPT ![d] = <<>>]
     /\ taken' = [taken EXCEPT ![d] = 0]
     /\ menu' = [menu EXCEPT ![d] = {}]
     /\ UNCHANGED <<docVars, cache, version, pending, denied, input, saw, wrote, online,
                    object, comments, drops, profile, toast>>

CustomerComments ==
  /\ comments < MaxComments
  /\ comments' = comments + 1
  /\ UNCHANGED <<docVars, clientVars, mainQ, runVars, online, object, crashes, drops, uiVars>>

-----------------------------------------------------------------------------
Begin(o) ==
  \/ HandleAddService(o)
  \/ ChangeProfileImage(o)
  \/ RefreshReviewData(o)
  \/ GetAllSalons(o)
  \/ FetchAndSaveProfile(o)

RemoteAnswer(o) ==
  \/ PutData(o)
  \/ DownloadURL(o)
  \/ UploadFails(o)
  \/ \E n \in 0..MaxComments : GetReviews(o, n)
  \/ GetReviewsFails(o)
  \/ FetchFromServer(o)
  \/ FetchFromCache(o)
  \/ FetchFails(o)

MainQueue(d, o) ==
  \/ UpdateUserProfile(d, o)
  \/ FetchFailed(d, o)
  \/ ServiceWritten(d, o)
  \/ ImageWritten(d, o)
  \/ ImageRejected(d, o)
  \/ RatingWritten(d, o)
  \/ ShowServices(d, o)
  \/ SaveUserProfile(d, o)
  \/ RefetchFailed(d, o)

WriteStream(d) == CommitWrite(d) \/ AcknowledgeBatch(d) \/ RejectBatch(d)

World ==
  \/ \E d \in Device : NetworkDown(d) \/ NetworkUp(d) \/ Crash(d)
  \/ CustomerComments

Next ==
  \/ \E o \in Ops : Begin(o) \/ RemoteAnswer(o)
  \/ \E d \in Device, o \in Ops : MainQueue(d, o)
  \/ \E d \in Device : WriteStream(d)
  \/ World

Spec == Init /\ [][Next]_vars

(***************************************************************************)
(* Every call is answered in the end, the main queue keeps running, the    *)
(* client keeps sending while it has a network, and a lost network comes   *)
(* back.  Nothing obliges the owner to act, a call to fail, or the app to  *)
(* be killed.                                                              *)
(***************************************************************************)
Fairness ==
  /\ \A o \in Ops : WF_vars(RemoteAnswer(o))
  /\ \A d \in Device : /\ WF_vars(\E o \in Ops : MainQueue(d, o))
                       /\ WF_vars(WriteStream(d))
                       /\ WF_vars(NetworkUp(d))

FairSpec == Spec /\ Fairness

-----------------------------------------------------------------------------
(* Properties *)

\* o's write reached the server and a write computed without knowing it was applied
\* later, for the first time or once more.
Overwritten(o) ==
  \E w \in Ops \ {o} : /\ landed[o] > 0
                       /\ last[w] > landed[o]
                       /\ o \notin wrote[w].seen

\* A service the server accepted is missing from the document only if a write
\* accepted later was based on a copy that did not reflect it: appends in
\* handleAddService, the merge of nil fields and the write queue lose nothing of
\* their own (AddServicesVC.swift:41-60).
LostOnlyToStaleWrite ==
  \A a \in Adds : landed[a] > 0 => a \in server.services \/ Overwritten(a)

\* The stored picture is the one the document points to, once its uploader's
\* write is accepted, unless a later write was stale or an upload run that knew of
\* it wrote the URL it had asked for before, even if that write was rejected (AppDataManager.swift:133-143).
ImageStaleOnlyIfRaced ==
  \A o \in Images :
    landed[o] > 0 => \/ server.image >= input[o]
                     \/ Overwritten(o)
                     \/ \E w \in Images : o \in wrote[w].seen /\ input[w] < input[o]

\* Rating and reviews never fall back behind an accepted computation, unless a
\* later write was stale or a run that knew of it had counted the comments earlier (AppDataManager.swift:223-242).
ScoreStaleOnlyIfRaced ==
  \A o \in Rates :
    landed[o] > 0 => \/ server.score >= input[o]
                     \/ Overwritten(o)
                     \/ \E w \in Rates : o \in wrote[w].seen /\ input[w] < input[o]

\* A write that did not know of o's covers it on d.
Buried(o, d) ==
  \E w \in Ops \ {o} : /\ wrote[w].exists
                       /\ o \notin wrote[w].seen
                       /\ last[w] > landed[o] \/ (landed[w] = 0 /\ dev[w] = d)

\* What the owner is shown after an accepted change contains that change, unless
\* a write that did not know of it landed later or is waiting on the same device,
\* an upload run that knew of it wrote an older URL, or the client was told that the
\* server had refused the change (AddServicesVC.swift:53-59 with MenuVC.swift:19-22,
\* ProfileVC.swift:188-192).
OwnChangeShows ==
  \A o \in Adds \cup Images :
    phase[o] = "refetched" /\ landed[o] > 0 =>
      \/ o \in saw[o].services
      \/ o \in Images /\ saw[o].image >= input[o]
      \/ Buried(o, dev[o])
      \/ \E w \in Images : o \in wrote[w].seen /\ input[w] < input[o]
      \/ o \in denied

\* The menu screen never drops a stored service for an older state of the document:
\* answers are shown in the order they were read and a later read is no older, so a
\* service disappears only behind a stale write, or with the app, or on the device
\* that added it if its client was told that the server had refused it
\* (MenuVC.swift:30-44).
MenuNeverGoesBack ==
  [][ \A d \in Device :
        \A a \in menu[d] \ menu'[d] :
          landed[a] > 0 /\ crashes' = crashes =>
            Buried(a, d) \/ (a \in denied /\ dev[a] = d) ]_vars

\* Only the overwriting setData of sign-up can unset a field, and only when it is
\* applied a second time because its answer was lost: the first time it lands on a
\* missing document, a merge carries no nil, and the document never vanishes
\* (AppDataManager.swift:72-79, 101-116).
UnsetOnlyByRepeatedSignUp ==
  [][ /\ server.exists => server'.exists
      /\ \/ landed[SignUp] > 0 /\ last'[SignUp] > last[SignUp]
         \/ /\ server.image # 0 => server'.image # 0
            /\ server.services # {} => server'.services # {} ]_vars

\* Whatever the owner starts comes to an end: its callback runs, or the app was
\* killed under it (every completion handler in AppDataManager and AddServicesVC).
Settles == \A o \in Ops : (phase[o] # "idle") ~> (phase[o] \in Over)

\* "Service added secessfullu." is shown only for a service the server took
\* (AddServicesVC.swift:55).
AddedMeansStored == \A o \in Adds : toast[o] = "added" => landed[o] > 0
=============================================================================
