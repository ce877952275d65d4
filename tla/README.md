# Verification of the QuickCuts admin app

QuickCutsAdminApp is the iOS app a salon owner uses to run a salon's entry in the QuickCuts
service. It has no server code of its own: it talks to Firebase Authentication, Cloud Firestore
and Firebase Storage through Google's client libraries (vendored under `Pods/`). This directory
holds TLA+ models of the parts of the app that keep state, TLC configurations that check them on
small instances, and proofs about them that TLAPS checks for all instances.

Paths below are relative to `src/QuickCutsAdminApp/QuickCutsAdminApp/`.

## 1. The system

| Component | State it keeps | Operations | Interacts with |
|---|---|---|---|
| **Salon document** (`Managers/AppDataManager.swift`, `Controller/AddServicesVC.swift`, `MenuVC.swift`, `ProfileVC.swift`) | the Firestore document `salons/<uid>` (name, contact, services, image URL, rating, reviews, open days); a copy of it under the key `userProfile` in UserDefaults; the picture object `AdminProfile/<uid>.jpg` in Storage | `createUserProfile`, `fetchUserProfile`, `updateUserProfile`, `uploadProfileImage`, `updateReviewData`, `handleAddService`, `getAllSalons`, `fetchAndSaveProfile` | Firestore client (cache, local write queue), Storage, the reviews collection, the owner's other devices |
| **Session** (`SignInVC`, `SignUPVC`, `ProfileVC.logout`, `SceneDelegate`, `AppDataManager`) | the signed-in user of FirebaseAuth (kept in the keychain), `userID` and `userProfile` in UserDefaults, the root view controller | sign-up, sign-in, forgotten password, logout, launch | salon document, validation, location |
| **Bookings** (`BookingVC`, `BookingManager`) | the collection `bookings`; the screen's three lists and its segment | create, list, update, delete; sort into upcoming/past, switch segment, cell configuration | Firestore |
| **Reviews** (`ReviewManager`, `AppDataManager.getSalonReview`, `processRating`) | the collection `reviews`; none of its own for the rating | create, list, update, delete; a pure function from reviews to rating and number of comments | Firestore, the bookings screen that starts it, the salon document it is written to |
| **Salon admin** (`Managers/SaloneDataManager.swift`, class `FirebaseManager`) | the collection `salons` | `addSalon`, `updateSalon`, `deleteSalon`, `getSalon` and the parsers of services and open days | only `getSalon` is called, by the rating (`AppDataManager.swift:226`) and after sign-in (`SignInVC.swift:107`) |
| **Location** (`LocationManager`) | the last `CLLocation`, the authorisation prompt | `checkLocationPermission`, delegate callbacks | sign-up takes the coordinates from it |
| **Validation** (`ValidationManager`) | none | e-mail, password, name and location checks | sign-in, sign-up, forgotten password |
| **Toasts** (`Helpers/ToastMessage`) | `activeToasts`, each toast's close timer, a queue with an `isShowing` flag | show, close, tap, pan, enqueue, dequeue | every screen that tells the owner something |
| **Animation chain** (`Helpers/AnimationHandler/DKChainableAnimationKit.swift`) | per-link arrays of constraints, animations, completions and durations | delay, thenAfter, animate, link completion | no caller in the app |
| **Static screens** (`AlbumVC`, `CentreVC`, `AppointmentsViewController`, ...; the nested `QuickCutsAdminApp/` prototype) | none that outlives a screen | layout, navigation | nothing |
| **Firestore client: write path** (`Pods/FirebaseFirestoreInternal/Firestore/core/src`: `core/sync_engine.cc`, `local/local_store.cc`, `local/leveldb_mutation_queue.cc`, `remote/remote_store.cc`, `remote/stream.cc`, `remote/write_stream.cc`) | per user a queue of mutation batches on disk; in memory the completion handlers, the write pipeline, the write stream's state and timers | `WriteMutations`, `FillWritePipeline`, handshake, mutation result, stream close, idle timer, backoff, connectivity and credential changes, start | every `setData` of the app; FirebaseAuth (who is signed in); the backend |
| **Other vendored pods** | the Firestore client's cache and overlays; transport, cryptography, protocol code | `getDocument`, the transport of every call | environment of the salon document |

### How they interact

Every screen calls a manager singleton with a completion closure; the manager calls Firebase; Firebase
calls back on the main queue. There is no locking and no notion of an operation "under way": a screen can
start an operation while another one's callback is outstanding, and nothing ties the closure to the
user who was signed in when it was made. All updates of a salon are *fetch, change one field of the copy, write the
whole copy back with `merge: true`*. The Firestore client adds its own behaviour: a write is visible to
reads of the same device at once, waits on disk until the network is there, survives a restart of the app (the
closure does not), and can be rejected later.

### What is hard

* **Lost updates**: read-modify-write of one document across callbacks and devices.
* **Stale data**: the rating is computed from a query answered before the document is fetched; the
  picture's URL is asked for after an object that can be replaced meanwhile.
* **Failure paths**: closures that ignore their error; handlers that return silently.
* **Crashes and lost networks**: queued writes replayed later with no one to tell.
* **Identity**: callbacks that read the *current* user when they run, not the one they were started for.
* **Ordering on the screen**: answers read before and after a write shown in turn.
* **Delivery**: the client's answers carry no id, a write whose answer is lost is sent and applied again, an error
  can overtake answers, ids of batches are re-used, and all of it goes on across kills and changes of the user.

PROJECT.json lists each hazard at its line, with the properties that cover it.

## 2. Modules

| Module | What it is | Extends |
|---|---|---|
| `SalonDoc` | the salon document, every handler that changes it, the Firestore client and the server | |
| `SalonRegister` | the abstract specification: the salon document as one register, read and updated in single steps | |
| `SalonAlone` | `SalonDoc` with one run at a time, as an implementation of `SalonRegister` | `SalonDoc` |
| `WriteQueue` | the abstract specification: what the app may rely on when it hands writes to the Firestore client | |
| `SalonQueue` | `SalonDoc`'s write queues as an implementation of `WriteQueue` | `SalonDoc` |
| `FirestoreWrites` | how the client brings local writes to the server: batches on disk, pipeline, write stream | |
| `FirestoreQueue` | `FirestoreWrites` as an implementation of `WriteQueue` | `FirestoreWrites` |
| `FirestoreWritesProofs` | its six invariants; the refinement | `FirestoreQueue` |
| `SalonDocProofs` | types; what the services, the picture and the score can lose, and what sign-up can unset; the refinement of `WriteQueue` | `SalonQueue` |
| `SalonScreenProofs` | what the owner is shown: an accepted change appears, the menu never goes back | `SalonDocProofs` |
| `SalonAloneProofs` | without overlap nothing is lost; the refinement of `SalonRegister` | `SalonAlone`, `SalonDocProofs` |
| `Session` | who is signed in, whose profile is kept, which screen is shown | |
| `SessionContract` | the abstract specification: what an owner may expect of signing in and out | |
| `SessionAlone` | `Session` with one call at a time, refining `SessionContract` | `Session` |
| `SessionProofs` | types, four safety theorems; the refinement and two safety theorems for one call at a time | `SessionAlone` |
| `Bookings`, `BookingsProofs` | the collection `bookings` and the screen that lists it | |
| `Reviews`, `ReviewsProofs` | the collection `reviews` and the rating computed from it | |
| `Toasts`, `ToastsProofs` | toasts on the screen, their timers and gestures, and the queue of toasts | |
| `MC*` | the instances TLC runs: sets, symmetry, scenario bounds | the module named |

A property stands in the module of the component it is about, an operator whose comment begins with *Mutant* is a
plausible bug of the definition that follows it: PROJECT.json lists, for every property, one such
operator that breaks it. Nothing but that list refers to these operators.

### SalonDoc and the code

Constants name the *runs*: one tap or one appearance of a screen is one run `o`, on the device
`dev[o]`. `phase[o]` is how far its chain of closures has come.

| State | Code |
|---|---|
| `server`, `writes`, `landed`, `last` | the document in Firestore; how many writes the server has applied, and for each run the place of its write in that order, of the first and of the last time it was applied |
| `cache`, `version` | the cached copy of a device's Firestore client and the place in the server's order it stands for (`doc.version()`) |
| `pending`, `taken`, `online` | the client's queue of local writes, how many of them the server has applied on this connection, the network (external) |
| `deaf` | writes whose completion handler died with the process |
| `mainQ` | callbacks waiting on `DispatchQueue.main` |
| `input`, `saw`, `wrote` | the values a run's closures hold: URL or score, the fetched model, the model written |
| `denied` | not in the program: runs whose write was answered with an error |
| `object`, `comments` | the picture in Storage, the customers' comments |
| `profile`, `menu`, `toast` | UserDefaults `userProfile`, what MenuVC lists, the last message of a run |

A document (`Copy`) keeps the fields the app ever changes. Fields `AppDataManager` only copies (name,
address, phone) cannot be told apart by any property and are left out. The URL of a
picture is the number of the upload it belongs to, the score the number of comments it was computed from, so that
"older" is `<`. `seen` is not in the program: it is the set of writes a copy was computed with knowledge of, and
makes "stale" a formula.

| Actions | Code |
|---|---|
| `HandleAddService`, `ChangeProfileImage`, `RefreshReviewData`, `GetAllSalons`, `FetchAndSaveProfile` | the tap or appearance that starts a run |
| `PutData`, `DownloadURL`, `UploadFails` | `AppDataManager.uploadProfileImage` |
| `GetReviews`, `GetReviewsFails` | `AppDataManager.getSalonReview` |
| `FetchFromServer`, `FetchFromCache`, `FetchFails` | `getDocument` in `fetchUserProfile`, `getSalon`: from the server with a network, from the cache without |
| `UpdateUserProfile`, `FetchFailed` | the closure of the fetch: change one field, `setData(merge: true)` |
| `ServiceWritten`, `ImageWritten`, `ImageRejected`, `RatingWritten` | the completion of `setData` |
| `ShowServices`, `SaveUserProfile`, `RefetchFailed` | the refetch after a write, or on its own |
| `CommitWrite`, `AcknowledgeBatch`, `RejectBatch` | the client's write stream (external) |
| `NetworkDown`, `NetworkUp`, `Crash`, `CustomerComments` | the world |

A write is applied *at least* once: `WriteStream::WriteHandshake` (`write_stream.cc:71-83`) ignores the stream token
it has stored, so whatever has no answer when a connection breaks or the app is killed is sent again and applied again
(`NetworkDown` and `Crash` reset `taken`; `last` moves behind later writes). For merges that is a late overwrite like
any other; sign-up's `setData` without merge can unset fields the second time. A rejection normally meets the
first write without an answer; it can also overtake the answers of applied ones, which are then
reported as rejected (`RejectBatch`, second case). A fetch with a network first brings
the cache up to the server's state; the overlay of local writes is laid over both answers. An acknowledgement
changes the cached copy only if that is older than the write (`ApplyBatchResult`).

The queue inside `SalonDoc` is not an assumption of its own: `SalonQueue` shows that it is the
queue `WriteQueue` describes, and `FirestoreQueue` that the client keeps that description. `SalonQueue` looks at the queue of
one device, `Observed`, which may be any; TLC takes the phone, the proof takes all.

### SalonRegister and the code

`SalonRegister` is what the handlers are written for: one document that each run reads and updates in one step. `Read` returns the
document as it is; `Create`, `AddService`, `SetPicture`, `SetRating` change their own field of the document as it is, once, while
their run is open, and a picture or a rating never gives way to an older one; `Told` says truthfully whether the update was made,
after which it cannot be made any more; `Ends` covers giving up and a kill. `SalonAlone` maps to it

| `SalonRegister` | is, of `SalonDoc` |
|---|---|
| `doc`, `read` | the fields of `server` and of the copies `saw` (`Fields`, without `seen`) |
| `took` | the runs whose write has landed |
| `stage` | the phase, as seen from outside (`Stage`): *open* from the tap to the answer of `setData`, *accepted* or *refused* from that answer on, *looking* during the refetch, *over* |

An update takes effect at the step in which the server first applies the run's write; that the same write may be applied again
is a stutter. With a run killed while its write is queued the stage stays open: the write may still land, only nobody is told.

### WriteQueue, FirestoreWrites and the code

`WriteQueue` is one queue of writes: the app puts writes in, the server takes them in order (`taken` on this
connection, `applied` ever), the client hears of their fate in order, and a broken connection starts again at the first
write without an answer.

`FirestoreWrites` is the client of one installation, for all users that ever sign in on it. All of its code runs on one worker
queue, so every handler is one action.

| State | Code |
|---|---|
| `queue[u]`, `nextId` | the rows of `LevelDbMutationQueue` of each user; `next_batch_id_` |
| `callbacks[u]`, `answers` | `SyncEngine::mutation_callbacks_`; what the app was told |
| `pipeline` | `RemoteStore::write_pipeline_`, at most `MaxPending` (10 in the code) |
| `state`, `handshake`, `idle` | `Stream::state_`, `WriteStream::handshake_complete_`, `idleness_timer_` |
| `up`, `down` | requests the server has not read, answers the client has not read |
| `applied`, `refused` | what the server did (external) |
| `overtaken`, `owner`, `made`, `killed` | history: not in the program |

| Actions | Code |
|---|---|
| `WriteMutations` | `SyncEngine::WriteMutations`: batch on disk, callback kept, `FillWritePipeline` |
| `OnStreamStart`, `OnWriteStreamHandshakeComplete`, `OnWriteStreamMutationResult`, `HandleWriteError` | `Stream`, `RemoteStore` and `SyncEngine` handlers of the same name, with the `NotifyUser`, the removal from disk and the `FillWritePipeline` they end in |
| `BackoffElapsed`, `IdleTimeout` | the stream's timers |
| `StreamBreaks` | `Stream::Close` with a transient error, an error before the handshake, or no token |
| `ConnectivityChanged`, `HandleCredentialChange` | `RestartNetwork`, after `HandleUserChange` for a new user |
| `ProcessRestart` | a kill, and `LocalStore::Start`; the kill may come between a callback and the transaction that removes the batch |
| `ServerApplies`, `ServerRefuses` | the backend (external) |

What is assumed of the backend: it works through a stream's requests in order, closes the stream with an error at the first
one it refuses, is done with an old stream before the client's next one opens, and never closes a stream with status
OK. When a stream is given up the server may still apply a prefix of what it was sent (`StreamEnds`).
Three abstractions: `Healthy` counts as `Open` (it differs in how long a backoff is); the stream token is left out (it is stored and
never sent with a handshake); a change of user and the new token arrive in one step. A batch holds one write, as every batch of this app does.

`FirestoreQueue` maps the queue of one user, `Observed`, to `WriteQueue`. `Observed` is a constant that may be any user; TLC takes one
of the two, which nothing distinguishes, the proof takes all.

### Session and the code

`auth` is `Auth.auth().currentUser`, `userID` and `userProfile` the two keys in UserDefaults, `screen` the root
view controller, `located` whether `LocationManager.currentLocation` is set. A *call* is a tap; `who[c]` is the
user its closures captured, `epoch` counts changes of the signed-in user and `seal[c]` is the epoch of the
capture (neither is in the program). Sign-in is `HandleSignIN`, `SignedIn`, `FetchUserProfile`, `Fetched`, `EnterHome`; sign-up
`HandleSignUP`, `SignedUp` or `SignUpUnanswered`, `AccountCreated`, `CreateSalon` or `NoLocation`; a picture
`ChangeProfileImage`, `Uploaded`, `SaveUploaded`, `Reload`, `Fetched`, `SaveProfile`; the rating
`RefreshReviewData`, `UpdateReviewData`; logout `LogoutUser` or `SignOutFails`, `GoToSignin`. `Launch` kills the
process and starts it again as `SceneDelegate` does. What is written to the salon is `SalonDoc`'s
subject; here only *whose* salon it is.

`SessionContract` has six actions. `SessionAlone` implements it under `user <- auth, at <- screen, profile <- userProfile`.

### Bookings and the code

`docs` maps document names to bookings: `createBooking` picks a generated name (`addDocument`), `updateBooking` and
`deleteBooking` use the booking's id. `bookings`, `upcoming`, `expired` and `segment` are BookingVC's;
`rows` and `reload` are what the collection view remembers (external): it asks for the number of
items once after `reloadData` and for cells afterwards. Each list element carries the name of its document, so that two
documents with equal fields stay two rows. The app calls only the list; the other operations are used as a
caller would, with new ids and with bookings the screen was given.

### Reviews and the code

A comment is the sum of its five ratings, or `Partial` if one is missing. `CommentsTotle`,
`AllUserTotleStars` and `Average` are `processRating`'s sums and quotient; `Trap` is the division by zero at
`AppDataManager.swift:219`, which ends the process (`Dies`). `UpdateReviewData` writes the result; its interleavings are in `SalonDoc`.

### Toasts and the code

`attached` and `delayed` are views on the screen and entering animations that wait for their delay; `motions[t]` the
animations of a toast under way (all take `animationTime`, so they complete in the order they start), `timed` and
`orphans` the timer `closeTimer` names and those it named before. `active`, `queue` and `isShowing` are the program's; `served`
are the toasts with a `QueuedToastDelegate`. `Show`, `CallClose`, `Enqueue`, `EnqueueAll`, `Dequeue`, `ShowQueue` are the library's calls;
`DidShow`, `DidClose`, `SprungBack` the completions; `TimerFires` the timer; `Tap`, `LongPress`, `LongPressMoves`, `LongPressEnds`, `PanBegan`, `PanEnded`,
`PanCancelled` the gesture handlers. Taking a view off the screen cancels its animations and
gestures, whose completions and `cancelled` calls still come. The app shows toasts with the default
configuration (timer and swipe) and never calls `close()`; the other ways to dismiss, the queue and `close()`, animated or not
and at any time, are modelled for callers that show or enqueue each toast once and have one queue. A toast shown a second
time and two queues are not modelled.
`touches` (which counts gestures and calls of `close()` for the bound), `closings` and `disturbed` are not in the program.

## 3. What TLC checks

| Run | Instance | Shows |
|---|---|---|
| `SalonOverlap` | three services, two of them on one device; the menu fetched twice next to a service of the other device, and next to one of its own; a picture next to a load of the profile; a service and a picture, two pictures, two ratings with two comments, a service and a rating, on two devices; a network loss, a refusal, or a crash where services are added | a service is lost *only* to a write computed without it (`LostOnlyToStaleWrite`); the picture's URL and the score fall behind only by a race (`ImageStaleOnlyIfRaced`, `ScoreStaleOnlyIfRaced`); what the owner is shown after a change contains it, with four excuses (`OwnChangeShows`); the menu never falls back to an older state (`MenuNeverGoesBack`); a field is unset only by sign-up's write applied again (`UnsetOnlyByRepeatedSignUp`) |
| `SalonSettles` | a service and a picture, one on each device; a crash, a network loss; fair | every run ends (`Settles`); the queues keep `WriteQueue` |
| `SalonAlone` | four scenarios of up to four runs on two devices, one at a time: two services, a picture and a load; a service and two pictures; a service and two ratings; a service, a picture and a rating; a crash, rejections | without overlap nothing accepted is lost (`KeepsEverything`): the excuses in the properties above are all due to overlap; the document is an atomic register (`ActsAtomically`) |
| `SalonToast` | one service | *violation*: the success message after a rejected write |
| `SessionCalls` | two owners; two sign-ins, a sign-up, a picture, a rating, a logout, a restart | sign-up never overwrites a salon; a foreign profile, home or rating comes only of a call that outlived its session |
| `SessionEnds` | the same with one sign-in and no rating; fair | every call ends (`CallsEnd`) |
| `SessionAlone` | two sign-ins, a sign-up, a picture, a logout, a restart, one at a time | the refinement of `SessionContract`; when the previous owner's profile is shown, and when a user is stranded behind the sign-in screen |
| `BookingLists` | two ids, two generated names, two appearances, one tick | a cell is never asked for that the chosen list lacks; the lists agree |
| `BookingUpdate` | the same | *violation*: an update adds a second document |
| `ReviewScores` | two salons, one generated name (three documents), up to two comments of 4, 10, 25 or partial stars, two loads | the average against a reference that counts stars one by one; the app traps only without comments; an update keeps comments |
| `Toasts` | three toasts: one with timer and swipe, one with timer and long press, one to tap that tolerates no other; two gestures or calls of `close()`; fair | a toast is closed once unless it is touched, hidden or closed by a caller while something of it is under way, or closed by a caller while its timer runs or it is not up; when the queue overlaps and when it stalls; timed toasts leave the screen for good |
| `FirestoreWrites` | two users, four writes, a pipeline of three, two faults (broken stream, change of connectivity, user or token, kill); fair | an answer is given to the batch it is about (`Correlated`); no callback outlives its batch (`CallbacksWait`); the app is told what happened, but for one overtaken answer (`AnswersTrue`); order is kept (`InOrder`); what is answered stays answered, but for a kill (`AnsweredIsFinal`); the queue drains (`Drains`); `WriteQueue` is implemented (`KeepsWriteQueue`) |

### Bounds, and why they are enough

* Two devices: all sharing goes through the server, and a third device is to each of the others what the second is.
* Three writers of services, two of pictures, of scores, or of two kinds: a lost update takes two, one that is excused by
  another takes three. The properties on what the document holds and on what the owner is shown are moreover proved for any number.
* `Scenarios` says which runs may be started together in one instance, `InScenario` (in `MCSalonDoc`) also that
  comments come only where a score is computed, that a connection breaks or the app is killed, not both, and that they and
  refused calls come only where at most two writers have started, a kill only where services are added (under the other runs it
  is `SalonSettles`' and `SalonAlone`'s). It cuts the product of scenarios that do not touch each other's fields.
  `InScenario` of `MCSalonAlone` takes every kind of write after every other, and each kind twice; the proof takes any number.
  `InScenario` of `MCSession` separates ratings from sign-ups and pictures in the same way.
* `MaxComments`, `MaxCrashes`, `MaxDrops`, `MaxFaults`, `Launches`, `MaxTime`: how often the world acts. One crash is enough
  to have a write without a handler. Two clock values and a missing date give every order of expiry and look.
* `MaxWrites` = 4 over `MaxPending` = 3: the pipeline is full with one batch left on disk, and there is a batch before, at and
  behind every place an error can hit. Two faults: the second meets whatever the first left behind, an id given twice
  (user changed or killed with an empty queue) included. The invariants and the refinement are proved for any number.
* Three toasts and two gestures or calls of `close()`: a stalled queue takes one toast, an overlap three (one closed twice, two
  shown), a double closing one gesture that meets an animation, or one call that meets a timer. `StallsOnlyOnSingle` is proved for any number.
* Comments of 4, 10 and 25 stars: below one star, exactly on a star, full; 4 and 10 together round down.
* Owners, sign-ins, ids, names, appearances are symmetric where the cfg says so. No liveness run uses symmetry.

Deadlock is not checked: once every tap of an instance has been made and answered, and every crash and
network loss spent, the app rests. That nothing rests *before* that is what `Settles`, `CallsEnd`, `Leaves` and `Drains` say.

### Fairness

`SalonDoc`: weak fairness of each run's remote answer (Firebase answers or refuses each call), of each main
queue, of each write stream (the client keeps sending while it has a network), and of the return of the network.
Together with `MaxDrops` this says that a network that is lost comes back and in the end stays: without it no write
handler ever runs, and the screens do wait for ever, which is why the hazard is listed. `Session`: weak fairness
of each call's answer and of the main queue. `Toasts`: weak
fairness of each toast's animations and timers (UIKit and the run loop) and of the lifting of each finger.
`FirestoreWrites`: weak fairness of the stream's handlers and
timers taken together (the worker queue runs, a token comes, a backoff and an idle timer end) and of the server (it goes on
reading). Connections break at most `MaxFaults` times, the rest of the code has no bound on retries.
No tap, failure, kill, customer or gesture is ever obliged to happen.

## 4. What is proved

TLAPS checks these theorems for *every* value of the constants: any number of devices, runs, owners,
taps, ids, comments. The assumptions are those named in the modules: kinds of runs are disjoint, `dev` maps runs to
devices, bounds are natural numbers, `nil` values are not data. TLC evaluates them on every run.

| Theorem | Argument |
|---|---|
| `SalonDocProofs!TypeCorrect` | one lemma per group of actions; `OverlayFacts` says what the client's overlay returns (which needs that a non-empty set of positions in a queue has a greatest one, `MaxIndex`) |
| `SalonDocProofs!CopiesFaithful` : `Spec => []IInv` | the three properties on what the document holds say nothing of copies under way, so none is inductive. `IInv` says that *every copy anywhere* (on the server, in a cache, in a closure) is `Faithful`: of each change it knows of (`seen`) it `Shows` the service, a picture or a score no older, or the change is `Excused`: overwritten, or `Raced` by a run that knew of it and writes an older value. `Landing` relates `landed` and `last` to `phase` and to `server.seen`; `Carried` says a written copy shows its own change, `Writing` that a value is chosen before the copy is made. The step that matters is `CommitWrite`: a write computed without knowing an accepted change overwrites it, one that knew of it shows it or inherits its excuse. Excuses are never taken back |
| `SalonDocProofs!OnlyStaleWritesLose`, `OnlyRacesAgeImage`, `OnlyRacesAgeScore` : `Spec => []...` of `LostOnlyToStaleWrite`, `ImageStaleOnlyIfRaced`, `ScoreStaleOnlyIfRaced` | the server's copy knows of everything that landed, and is faithful |
| `SalonDocProofs!FieldsStaySet` : `Spec => UnsetOnlyByRepeatedSignUp` | `BornFirst`: until sign-up's write has landed there is no document, nobody has a copy that did not come from it, and it is first in its device's queue; so its overwriting write meets a document only the second time, and every other write is a merge, which unsets nothing |
| `SalonScreenProofs!ChangesAreShown`, `MenuKeepsItsServices` : `Spec => []OwnChangeShows`, `Spec => MenuNeverGoesBack` | `Screen`, in three layers over `IInv` and `Queued`. `Line`: the writes of a device land in the order of its queue (`LandsInTurn`), the cached copy knows of every write up to its version (`CaughtUp`), and a client that was told its write was accepted has a cache as new as that write (`Told`). `Aware`: a device knows another's service only once it has landed and its cache is that new (`Private`, `Arrived`), and then the service landed before the writes the device still has queued (`Behind`). `InTurn`: of the answers waiting on a main queue each shows what is on the screen and in the answers before it, or that is `Gone`. Neither property is inductive: both compare an answer with reads that came before it, from the server or from a cache with queued writes laid over it. `NextTurn` says what a step does to a main queue, `ReadShows` and `OwnReadShows` that a read, wherever it is answered, shows all the device knew before, and the step of the menu is `InTurn` for the first answer. That what is gone stays gone (`GoneKept`) carries the excuses along |
| `SalonAloneProofs!PatienceKeepsAll` : `SpecAlone => [](drops = 0 => KeepsEverything)` | `PInv` adds to `IInv` and `Queued`: `Serial`, one run under way at a time, sign-up's before all others; and while no network was lost `Rising`, no run has a newer picture or count in hand than the one under way, and `Fresh`, the document, the copy the run under way fetched and the one it wrote show everything that landed. The run has `MaxDrops = 0`; a device without network would work on its cached copy, which other devices have left behind |
| `SalonAloneProofs!PatienceMakesAtomic` : `SpecAlone /\ [](drops = 0) => ActsAtomically` | `Atomic`, inductive over `PInv` and `BornFirst`: what the run under way has in hand *is* the document (`Current`: fetched, it is the server's; written, it is the server's with this run's change, `Updated`, before the write lands, and the server's after), no picture or rating in the document is newer than one about to be written (`Newest`). So the merge of a whole copy changes one field (`CommitMakes`), and applied again changes nothing. That the handler is told the truth needs that with one run at a time a queue holds a single write (`OnlyWrite`), so that no refusal overtakes an answer, and that an applied write whose handler lives is one the device is about to be answered for (`Heard`; a broken connection would undo that, hence `drops = 0`). Then one lemma per group of actions, which names the register's step |
| `SalonDocProofs!KeepsItsQueue` : `Spec => KeepsWriteQueue` | that a write is put in only if the queue does not hold it, and that what is sent again after a broken connection was applied before, needs `Queued`: a device queues only its own runs that are in the phase *pending*, each once, and what `taken` counts has landed. A run reaches `setData` from the main queue, so `Queued` also says that only a device's own runs wait there. Then one lemma per action |
| `FirestoreWritesProofs`: `TypeCorrect`, `AnswersMeetTheirBatch`, `NoStrayCallback`, `AppToldTheTruth`, `AppliedInOrder`, `AnswersAreFinal` (`Spec => []...` of `TypeOK`, `Correlated`, `CallbacksWait`, `AnswersTrue`, `InOrder`, `AnsweredIsFinal`) | one inductive invariant `IInv`. None of the six is inductive alone: that an answer is true needs that it is given to the right batch (`Correlated`) and that ids on disk are ordered and below `nextId` (`Ordered`, `Bounded`: a re-used id meets no callback); order needs that what is on the wire is the pipeline behind the answers (`Wire`, `Correlated`); finality needs `Settled`: an answered write and all before it have left the disk, unless a kill came between. `FilledCorrelated` says once what `FillWritePipeline` does to all of this, `PrefixApplied` what a stream that is given up does to the order; then one lemma per action |
| `FirestoreWritesProofs!ImplementsWriteQueue` : `Spec => KeepsWriteQueue` | from `IInv`, one lemma per action: removing the first batch is a `Tail` of the writes, the answers on their way are the writes `taken`, and every fault is a `Reconnect` |
| `SessionProofs!TypeCorrect` | `TInv`: with `Captured`, a call under way has an owner in hand |
| `SessionProofs!CreatedOnce` : `[]SalonCreatedOnce` | `OnlySignUp`: of all sign-ups past authentication, at most one is for any owner, and that owner has no salon |
| `SessionProofs!ForeignProfile`, `ForeignRating`, `OwnHome` | action properties from `Sealed`: a call whose seal is the current epoch acts for the signed-in user |
| `SessionProofs!AloneKeepsContract` : `SpecAlone => Contract!Spec` | `Alone`: at most one call runs, for the signed-in user and on the screen it was tapped on; then each step is a contract step or a stutter |
| `SessionProofs!HomeIsOwners`, `NoneStranded` : `SpecAlone => []...` of `HomeShowsOwner`, `StrandedOnlyWithoutSalon` | `HomeSettles` and `SignInSettles` say what holds while a call is under way: the property, or a call that runs for the signed-in user and is going to make it true; that what has ended stays as it ended (`EndsAreFinal`) keeps the excuse of a failed fetch |
| `BookingsProofs!TypeCorrect`, `Rows`, `Agree` | `TInv` adds that the lists are finite, so that their numbers of items are numbers; the other two are inductive with it |
| `ReviewsProofs!AverageIsFloor`, `AverageInRange` | the inner division of line 219 is exact, so the nested one rounds once; with at most 25 stars a comment the average is 0 to 5 |
| `ReviewsProofs!TypeCorrect`, `TrapsWithoutComments`, `RatesOwn` : `Spec => []TypeOK`, `Spec => TrapsOnlyWithoutComments`, `Spec => RatesOwnComments` | `processRating` adds up functions with `SumFunction`, a recursion over the set. `TotalsExist` shows that this recursion defines something on a finite set (by the least number of elements for which it would not), `SumIsCount` that the sum of the sizes of disjoint sets is the size of their union (by a smallest subset for which it would not). So `commentsTotle` is the size of the set of comments and `allUserTotleStars` of the set of stars they earn, which is a part of comments times 25; types, bounds and *no comment* exactly when the sum is 0 follow, and the rating is the number of stars reached (`StarsReached`). The inductive part is that the collection is finite (`DocsOK`) |
| `ReviewsProofs!CommentsKept` : `Spec => KeepsComments` | from the type of `docs` |
| `ToastsProofs!TypeCorrect`, `StallsOnSingle` | types, and that timers, drags and presses are only of toasts configured for them, with what `RemoveFirst` returns (a non-empty set of positions has a least one, `MinIndex`); then: every closing of a queue's toast puts the next one up, and of the callers only `Enqueue` leaves a toast waiting with none up |
| `ToastsProofs!ClosedOnce`, `NextAfterClose` : `Spec => []ClosedOnceUnlessDisturbed`, `Spec => NextOnlyAfterClose` | `OInv`: an undisturbed toast is `Calm`, of entering delay, animation, finger, closing without an animation and timer at most one is under way, and only while it is up; it is once among the active toasts; a toast that still waits is in one place, neither up nor on its way nor one that makes the queue go on, and unclosed unless a caller disturbed it (`Waiting`). Any calls, each toast shown or enqueued once; a caller's `close()` leaves a toast undisturbed only when it is up, at rest and without a timer (`CallCloseSettles`). Needs that `RemoveFirst` takes out exactly one place (`RemovedAt`). One lemma per handler; a toast that hides others is the case where `Calm` of several toasts changes at once |

### Only model-checked

* Liveness (`Settles`, `CallsEnd`, `Leaves`, `Drains`): the prover does not handle fairness and `ENABLED`.
* That the two properties of the runs that end in a violation fail: a counterexample is a run, not a theorem.

Every other property of a passing run is stated by a theorem above.

## 5. What the models show about the code

Two runs end in a violation of what the code says of itself:

* **Success after a rejected write** (`SalonToast`). `AddServicesVC.swift:53` ignores the error its
  completion handler is given and shows "Service added secessfullu." either way.
* **An update adds a document** (`BookingUpdate`). `BookingManager.swift:137` writes the document named
  after the booking's id; `createBooking` added it under a generated name. `deleteBooking` (line 178) for the same reason
  removes nothing, and so do `updateReview` and `deleteReview` (`ReviewManager.swift:124`, `:171`), which name the
  document after the *salon*: all reviews of a salon share the one that updates write.

The exceptions spelled out in the properties that hold are behaviours too:

* A write is based on a copy fetched earlier and carries every field: two devices, or two screens, overwrite each other.
* A field of a *rejected* write can reach the server, in a later write that was computed from the overlay while
  the first was pending. A rejected picture can stay in the saved profile the same way.
* The write stream's handshake never carries the token the client stores, so a write can be applied twice. Sign-up's
  overwriting `setData` repeated after a lost answer wipes services and a picture saved meanwhile.
* A refusal can overtake the answers of applied writes: the app is told that a write failed which is in the document.
  The overlay of that write is gone and the cache was never brought up to it: until the device reads from
  the server again, the owner's own change has disappeared from what is shown (the last excuse of `OwnChangeShows` and of
  `MenuNeverGoesBack`).
* `updateReviewData` reads the current user when the reviews arrive, not when they were asked for.
* `LogoutUser` leaves `userProfile`; the next owner sees it until a profile of their own is fetched.
* A sign-up without a location yields an account, a signed-in user and no salon, with no message; a later
  launch opens the tab bar for that user.
* A salon whose reviews have no comment divides by zero. The bookings screen is the first of the tab bar, so the app dies
  again at each launch until someone comments.
* A toast touched while it enters can be closed twice: the completion of the entering animation sets a timer under
  the finger, and a replaced timer is never invalidated. A long press always closes twice, and once more for
  every movement of the finger. A toast of the queue closed twice
  puts two of the queue's toasts on the screen.
* `Toast.close()` does not invalidate `closeTimer`: a toast closed by the app while its timer runs is closed a second time
  when the timer fires, and its delegates are told twice, though nobody touched it.
* `ToastQueue.isShowing` is never reset: a list enqueued while the last toast is up is shown over it; a single
  toast enqueued once the queue has run empty waits for ever, and the lists enqueued after it wait behind it.
* The segment "cancelled" of the bookings screen lists every booking.

## 6. Not modelled

* Salon admin (`FirebaseManager`): `addSalon`, `updateSalon` and `deleteSalon` have no caller, the class has no state; `getSalon`
  is the fetch of the rating in `SalonDoc` and of the sign-in in `Session`.
* Validation: pure predicates on the text of a form, evaluated in the tap; a form they refuse starts no call, so what they let
  through is any tap of `Session`.
* The animation chain: nothing in the app calls it.
* `userProfileImageURL`, `fetchAllSalons`, `getLoggedUserId`, `getBookings` without a salon: never called, and change nothing.
* The forgotten-password screen sends one call to Firebase and shows a message: no state of the app.
* Location beyond "is one known": continuous updates are never started.
* Static screens, the nested prototype: layout and navigation.
* The Firestore client beyond writes and `getDocument`: the app sets no listener and runs no transaction, so watch streams, targets,
  limbo resolution, garbage collection and aggregates decide nothing it does. Between FirebaseAuth and the worker queue
  a change of user and a new token travel on different threads; that race is listed as a hazard and not modelled.
* The rest of `Pods/`: gRPC, BoringSSL, Abseil, LevelDB, nanopb and generated protocol code, more than a million lines of C and C++ with no
  knowledge of this app. The app itself is a few thousand lines of Swift. A share of lines is therefore no measure of
  what is covered here: every handler of the app that changes state is modelled, and of the pods the part
  that decides what becomes of the app's writes.

## 7. Plan

Done, in this order: `SalonDoc` (the riskiest part), its proofs, `Session` and its contract, `Bookings`, `Reviews`,
`Toasts`; then `WriteQueue`, `FirestoreWrites` with its proofs, `FirestoreQueue` with its proof, and `SalonDoc` brought in line with
them (`SalonQueue`, with its proof); then the proofs on what is shown, the overlap-free salon and session, the toasts and the sums of the
reviews; then `SalonRegister`, which `SalonAlone` implements even with rejected writes and kills. To come:

* **Credentials**: the provider's token counter and FirebaseAuth's queues, composed with `FirestoreWrites`.
