-------------------------- MODULE SalonAloneProofs --------------------------
(***************************************************************************)
(* Proof about SalonAlone, for every set of devices, every number of runs  *)
(* of every kind and every bound: as long as runs do not overlap and no    *)
(* device has lost its network, nothing the server accepted is lost, and   *)
(* the document is the atomic register of SalonRegister.                   *)
(***************************************************************************)
EXTENDS SalonAlone, SalonDocProofs

Active(o) == phase[o] \notin Over \cup {"idle"}

\* One run at a time; sign-up's own ends before any other begins.
Serial ==
  /\ \A o, p \in Ops : Active(o) /\ Active(p) => o = p
  /\ Active(SignUp) => \A o \in Writers : landed[o] = 0

\* A run that knows its picture or its number of comments knows the newest there is.
Rising ==
  /\ \A w \in Images : input[w] <= object
  /\ \A w \in Rates : input[w] <= comments
  /\ \A o, w \in Ops : /\ {o, w} \subseteq Images \/ {o, w} \subseteq Rates
                       /\ phase[o] \in {"fetching", "fetched", "pending"}
                       => input[w] <= input[o]

\* The copy shows everything the server has accepted.
Kept(copy) == \A o \in Ops : landed[o] > 0 => Shows(copy, o)

\* So do the document, the copy the run under way works on and the one it has written.
Fresh ==
  /\ Kept(server)
  /\ \A o \in Ops : phase[o] = "fetched" => Kept(saw[o])
  /\ \A o \in Ops \ {SignUp} : phase[o] = "pending" => Kept(wrote[o])

Connected == \A d \in Device : online[d]

\* Only an upload run deals with the storage, only a rating run with the reviews.
Preparing ==
  \A o \in Ops : /\ phase[o] \in {"uploading", "linking"} => o \in Images
                 /\ phase[o] = "scoring" => o \in Rates

Base == IInv /\ Queued /\ Preparing

\* The inductive invariant.
PInv == Base /\ Serial /\ (drops = 0 => Connected /\ Rising /\ Fresh)

-----------------------------------------------------------------------------
LEMMA InitPInv == Init => PInv
<1> SUFFICES ASSUME Init PROVE Preparing /\ Serial /\ Connected /\ Rising /\ Fresh
  BY InitIInv, InitQueued DEF PInv, Base
<1>1. Ops = Writers \cup Menus \cup Loads \cup {SignUp} /\ Images \cup Rates \subseteq Ops
      /\ Writers \subseteq Ops
  BY DEF Ops, Writers
<1>2. Serial
  BY <1>1 DEF Init, Serial, Active, Over
<1>3. Connected
  BY DEF Init, Connected
<1>4. Rising
  BY <1>1 DEF Init, Rising
<1>5. Fresh
  BY DEF Init, Fresh, Kept
<1>6. Preparing
  BY DEF Init, Preparing
<1> QED
  BY <1>2, <1>3, <1>4, <1>5, <1>6

\* A copy keeps what it shows as long as nothing lands.
LEMMA KeptStays ==
  ASSUME IInv, NEW copy, Kept(copy), UNCHANGED landed,
         \A o \in Written : input'[o] = input[o]
  PROVE  Kept(copy)'
<1> SUFFICES ASSUME NEW o \in Ops, landed[o] > 0 PROVE Shows(copy, o)'
  BY DEF Kept
<1>1. o \in Written
  BY DEF IInv, Landing
<1> QED
  BY <1>1 DEF Kept, Shows

\* No run becomes active.
LEMMA SerialStays ==
  ASSUME Serial, UNCHANGED landed, \A o \in Ops : Active(o)' => Active(o), SignUp \in Ops
  PROVE  Serial'
BY DEF Serial

\* A step that hands no run a copy, writes none and learns no picture or count.
LEMMA Calm ==
  ASSUME PInv, Base', Serial', drops' = drops, online' = online,
         UNCHANGED <<server, landed, input, saw, wrote>>,
         object' >= object, comments' >= comments,
         \A o \in Ops : phase'[o] \in {"fetched", "pending"} => phase'[o] = phase[o],
         \A o \in Images \cup Rates : phase'[o] = "fetching" => phase'[o] = phase[o]
  PROVE  PInv'
<1> SUFFICES ASSUME drops = 0 PROVE Connected' /\ Rising' /\ Fresh'
  BY DEF PInv, Base
<1>0. Connected /\ Rising /\ Fresh /\ TypeOK /\ TypeOK'
  BY DEF PInv, Base, IInv
<1>1. Connected'
  BY <1>0 DEF Connected
<1>2. Rising'
  <2>1. \A w \in Images \cup Rates : w \in Ops /\ input[w] \in Nat
    BY <1>0 DEF TypeOK, Ops, Writers
  <2>2. object \in Nat /\ object' \in Nat /\ comments \in Nat /\ comments' \in Nat
    BY <1>0 DEF TypeOK
  <2>3. \A w \in Images : input'[w] <= object'
    BY <1>0, <2>1, <2>2 DEF Rising
  <2>4. \A w \in Rates : input'[w] <= comments'
    BY <1>0, <2>1, <2>2 DEF Rising
  <2> QED
    BY <1>0, <2>3, <2>4 DEF Rising
<1>3. \A o \in Written : input'[o] = input[o]
  OBVIOUS
<1>4. Kept(server)'
  BY <1>0, <1>3, KeptStays DEF PInv, Base, Fresh, Kept
<1>5. ASSUME NEW o \in Ops, phase'[o] = "fetched" PROVE Kept(saw[o])'
  BY <1>0, <1>3, <1>5, KeptStays DEF PInv, Base, Fresh, Kept
<1>6. ASSUME NEW o \in Ops \ {SignUp}, phase'[o] = "pending" PROVE Kept(wrote[o])'
  BY <1>0, <1>3, <1>6, KeptStays DEF PInv, Base, Fresh, Kept
<1> QED
  BY <1>1, <1>2, <1>4, <1>5, <1>6 DEF Fresh

-----------------------------------------------------------------------------
(* The steps *)

LEMMA BeginPInv ==
  ASSUME PInv, Base', NEW o \in Ops, BeginAlone(o)
  PROVE  PInv'
<1> USE DEF docVars, clientVars, worldVars
<1>1. PICK p \in {"fetching", "uploading", "scoring", "refetching"} :
        Start(o, p) /\ (p = "fetching" => o \in Adds) /\ o \in Writers \cup Menus \cup Loads
  BY DEF BeginAlone, Begin, HandleAddService, ChangeProfileImage, RefreshReviewData,
         GetAllSalons, FetchAndSaveProfile, Writers
<1>2. phase' = [phase EXCEPT ![o] = p] /\ TypeOK
  BY <1>1 DEF Start, PInv, Base, IInv
<1>3. \A r \in Ops : ~Active(r)
  BY DEF BeginAlone, Quiet, Active
<1>4. \A r \in Ops : Active(r)' => r = o
  BY <1>2, <1>3 DEF Active, TypeOK
<1>5. Serial'
  BY <1>1, <1>4, RunsAssumption DEF Serial, Ops
<1>6. \A r \in Images \cup Rates : phase'[r] = "fetching" => phase'[r] = phase[r]
  BY <1>1, <1>2, RunsAssumption DEF TypeOK
<1>7. \A r \in Ops : phase'[r] \in {"fetched", "pending"} => phase'[r] = phase[r]
  BY <1>1, <1>2 DEF TypeOK
<1>8. object' >= object /\ comments' >= comments
  BY <1>1, <1>2 DEF Start, TypeOK
<1> QED
  BY <1>1, <1>5, <1>6, <1>7, <1>8, Calm DEF Start

\* A step of the run under way, which moves that run alone.
LEMMA MovesSerially ==
  ASSUME PInv, NEW o \in Ops, Active(o), NEW p, phase' = [phase EXCEPT ![o] = p],
         UNCHANGED landed
  PROVE  Serial'
<1>1. \A r \in Ops : Active(r)' => Active(r)
  BY DEF PInv, Base, IInv, TypeOK, Active
<1>2. SignUp \in Ops
  BY DEF Ops
<1> QED
  BY <1>1, <1>2, SerialStays DEF PInv, Base

\* A step in which the run under way ends, or goes on to something else than a copy.
LEMMA MovesCalmly ==
  ASSUME PInv, Base', NEW o \in Ops, Active(o),
         NEW p, p \notin {"fetching", "fetched", "pending"},
         phase' = [phase EXCEPT ![o] = p], object' = object \/ object' = object + 1,
         UNCHANGED <<server, landed, input, saw, wrote, comments, drops, online>>
  PROVE  PInv'
<1>1. TypeOK
  BY DEF PInv, Base, IInv
<1>2. Serial'
  BY MovesSerially
<1>3. object' >= object /\ comments' >= comments
  BY <1>1 DEF TypeOK
<1>4. \A r \in Ops : phase'[r] \in {"fetching", "fetched", "pending"} => phase'[r] = phase[r]
  BY <1>1 DEF TypeOK
<1>5. Images \cup Rates \subseteq Ops
  BY DEF Ops, Writers
<1> QED
  BY <1>2, <1>3, <1>4, <1>5, Calm

\* Whoever learns its picture or its count last learns the newest one.
LEMMA InputPInv ==
  ASSUME PInv, Base', NEW o \in Ops, phase[o] \in {"linking", "scoring"},
         NEW n \in Nat, input' = [input EXCEPT ![o] = n],
         NEW p \in {"fetching", "done"}, phase' = [phase EXCEPT ![o] = p],
         drops = 0 => \/ o \in Images /\ n = object
                      \/ o \in Rates /\ n = comments,
         UNCHANGED <<server, landed, saw, wrote, object, comments, drops, online>>
  PROVE  PInv'
<1>1. Active(o) /\ TypeOK
  BY DEF Active, Over, PInv, Base, IInv
<1>2. Serial'
  BY <1>1, MovesSerially
<1> SUFFICES ASSUME drops = 0 PROVE Connected' /\ Rising' /\ Fresh'
  BY <1>2 DEF PInv, Base
<1>3. Connected /\ Rising /\ Fresh
  BY DEF PInv, Base
<1>4. Connected'
  BY <1>3 DEF Connected
<1>5. o \notin Written
  BY DEF Written, WrittenPhases
<1>6. \A r \in Written : input'[r] = input[r]
  BY <1>1, <1>5 DEF TypeOK, Written
<1>7. \A r \in Ops \ {o} : ~Active(r)
  BY <1>1 DEF PInv, Base, Serial
<1>8. \A r \in Ops \ {o} : phase'[r] \notin {"fetching", "fetched", "pending"}
  BY <1>1, <1>7 DEF TypeOK, Active, Over
<1>9. Images \cap Rates = {} /\ Images \cup Rates \subseteq Ops
  BY RunsAssumption DEF Ops, Writers
<1>10. Rising'
  <2>1. \A w \in Images : input'[w] <= object'
    BY <1>1, <1>3, <1>9 DEF TypeOK, Rising
  <2>2. \A w \in Rates : input'[w] <= comments'
    BY <1>1, <1>3, <1>9 DEF TypeOK, Rising
  <2>3. input'[o] = n
    BY <1>1 DEF TypeOK
  <2>4. ASSUME NEW w \in Ops, {o, w} \subseteq Images \/ {o, w} \subseteq Rates
        PROVE  input'[w] <= input'[o]
    BY <2>1, <2>2, <2>3, <2>4, <1>9
  <2> QED
    BY <2>1, <2>2, <2>4, <1>8 DEF Rising
<1>11. Kept(server)'
  BY <1>3, <1>6, KeptStays DEF PInv, Base, Fresh, Kept
<1>12. \A r \in Ops : phase'[r] # "fetched" /\ phase'[r] # "pending"
  BY <1>1, <1>8 DEF TypeOK
<1> QED
  BY <1>4, <1>10, <1>11, <1>12 DEF Fresh

\* Nothing waits in the queue of a device whose run is fetching.
LEMMA NothingQueued ==
  ASSUME PInv, NEW o \in Ops, phase[o] \in Fetching
  PROVE  pending[dev[o]] = <<>>
<1> SUFFICES ASSUME pending[dev[o]] # <<>> PROVE FALSE
  OBVIOUS
<1>1. dev[o] \in Device /\ TypeOK
  BY RunsAssumption DEF PInv, Base, IInv
<1>2. Head(pending[dev[o]]) \in Ops /\ phase[Head(pending[dev[o]])] = "pending"
  BY <1>1, HeadOfPending DEF PInv, Base, Queued, QueuedOn
<1>3. Active(o) /\ Active(Head(pending[dev[o]]))
  BY <1>2 DEF Active, Over, Fetching
<1> QED
  BY <1>2, <1>3 DEF PInv, Base, Serial, Fetching

LEMMA FetchPInv ==
  ASSUME PInv, Base', NEW o \in Ops, FetchFromServer(o)
  PROVE  PInv'
<1> USE DEF docVars, worldVars
<1>1. TypeOK /\ dev[o] \in Device /\ phase[o] \in Fetching /\ Active(o)
  <2>1. phase[o] \in Fetching
    BY DEF FetchFromServer
  <2>2. TypeOK
    BY DEF PInv, Base, IInv
  <2>3. dev[o] \in Device
    BY RunsAssumption
  <2> QED
    BY <2>1, <2>2, <2>3 DEF Active, Fetching, Over
<1>2. /\ saw' = [saw EXCEPT ![o] = server]
      /\ phase' = [phase EXCEPT ![o] = Answer(@)]
      /\ UNCHANGED <<server, landed, input, wrote, object, comments, drops, online>>
  BY <1>1, NothingQueued DEF FetchFromServer, Overlay
<1>3. Serial'
  BY <1>1, <1>2, MovesSerially
<1> SUFFICES ASSUME drops = 0 PROVE Connected' /\ Rising' /\ Fresh'
  BY <1>2, <1>3 DEF PInv, Base
<1>4. Connected /\ Rising /\ Fresh
  BY DEF PInv, Base
<1>5. Connected'
  BY <1>2, <1>4 DEF Connected
<1>6. \A r \in Ops : phase'[r] \in {"fetching", "fetched", "pending"} =>
                       \/ phase'[r] = phase[r]
                       \/ r = o /\ phase[o] = "fetching" /\ phase'[r] = "fetched"
  BY <1>1, <1>2 DEF TypeOK, Fetching, Answer
<1>7. Rising'
  BY <1>2, <1>4, <1>6 DEF Rising
<1>8. Kept(server)'
  BY <1>2, <1>4, KeptStays DEF PInv, Base, Fresh, Kept
<1>9. ASSUME NEW r \in Ops, phase'[r] = "fetched" PROVE Kept(saw[r])'
  <2>1. CASE r = o
    <3>1. saw'[r] = server
      BY <1>1, <1>2, <2>1 DEF TypeOK
    <3> QED
      BY <3>1, <1>2, <1>8 DEF Kept
  <2>2. CASE r # o
    <3>1. saw'[r] = saw[r] /\ phase[r] = "fetched"
      BY <1>1, <1>2, <1>9, <2>2 DEF TypeOK
    <3> QED
      BY <3>1, <1>2, <1>4, KeptStays DEF PInv, Base, Fresh, Kept
  <2> QED
    BY <2>1, <2>2
<1>10. ASSUME NEW r \in Ops \ {SignUp}, phase'[r] = "pending" PROVE Kept(wrote[r])'
  <2>1. phase[r] = "pending"
    BY <1>6, <1>10
  <2> QED
    BY <2>1, <1>2, <1>4, KeptStays DEF PInv, Base, Fresh, Kept
<1> QED
  BY <1>5, <1>7, <1>8, <1>9, <1>10 DEF Fresh

LEMMA RemoteAnswerPInv ==
  ASSUME PInv, Base', NEW o \in Ops, RemoteAnswer(o)
  PROVE  PInv'
<1> USE DEF docVars, clientVars, worldVars
<1>0. TypeOK
  BY DEF PInv, Base, IInv
<1>1. CASE PutData(o)
  <2>1. Active(o)
    BY <1>1 DEF PutData, Active, Over
  <2> QED
    BY <1>1, <2>1, MovesCalmly DEF PutData
<1>2. CASE DownloadURL(o)
  <2>1. o \in Images
    BY <1>2 DEF DownloadURL, PInv, Base, Preparing
  <2> QED
    BY <1>0, <1>2, <2>1, InputPInv DEF DownloadURL, TypeOK
<1>3. CASE UploadFails(o) \/ GetReviewsFails(o)
  <2>1. Active(o)
    BY <1>3 DEF UploadFails, GetReviewsFails, Active, Over
  <2> QED
    BY <1>3, <2>1, MovesCalmly DEF UploadFails, GetReviewsFails
<1>4. ASSUME NEW n \in 0..MaxComments, GetReviews(o, n) PROVE PInv'
  <2>1. o \in Rates /\ n \in Nat
    BY <1>4, BoundsAssumption DEF GetReviews, PInv, Base, Preparing
  <2>2. drops = 0 => n = comments
    BY <1>4, RunsAssumption DEF GetReviews, PInv, Base, Connected
  <2> QED
    BY <1>4, <2>1, <2>2, InputPInv DEF GetReviews
<1>5. CASE FetchFromServer(o)
  BY <1>5, FetchPInv
<1>6. CASE FetchFromCache(o)
  <2>1. drops # 0 /\ drops' = drops
    BY <1>6, RunsAssumption DEF FetchFromCache, PInv, Base, Connected
  <2>2. Active(o)
    BY <1>6 DEF FetchFromCache, Active, Over, Fetching
  <2>3. Serial'
    BY <1>6, <2>2, MovesSerially DEF FetchFromCache
  <2> QED
    BY <2>1, <2>3 DEF PInv, Base
<1>7. CASE FetchFails(o)
  <2>1. Active(o) /\ NoAnswer(phase[o]) \notin {"fetching", "fetched", "pending"}
    BY <1>7 DEF FetchFails, Active, Over, Fetching, NoAnswer
  <2>2. phase' = [phase EXCEPT ![o] = NoAnswer(phase[o])]
    BY <1>7 DEF FetchFails
  <2> QED
    BY <1>7, <2>1, <2>2, MovesCalmly DEF FetchFails
<1> QED
  BY <1>1, <1>2, <1>3, <1>4, <1>5, <1>6, <1>7 DEF RemoteAnswer

\* setData is handed a copy that shows all there is, and the run's own change is newer.
LEMMA UpdatePInv ==
  ASSUME PInv, Base', NEW d \in Device, NEW o \in Ops, UpdateUserProfile(d, o)
  PROVE  PInv'
<1> USE DEF docVars, worldVars
<1>1. /\ phase[o] = "fetched"
      /\ phase' = [phase EXCEPT ![o] = "pending"]
      /\ wrote' = [wrote EXCEPT ![o] = Revised(o)]
      /\ UNCHANGED <<server, landed, input, saw, object, comments, drops, online>>
  BY DEF UpdateUserProfile, Callback
<1>2. TypeOK /\ Active(o)
  BY <1>1 DEF PInv, Base, IInv, Active, Over
<1>3. Serial'
  BY <1>1, <1>2, MovesSerially
<1> SUFFICES ASSUME drops = 0 PROVE Connected' /\ Rising' /\ Fresh'
  BY <1>1, <1>3 DEF PInv, Base
<1>4. Connected /\ Rising /\ Fresh
  BY DEF PInv
<1>5. Connected'
  BY <1>1, <1>4 DEF Connected
<1>6. \A r \in Ops : phase'[r] \in {"fetching", "fetched", "pending"} =>
                       phase[r] \in {"fetching", "fetched", "pending"}
  BY <1>1, <1>2 DEF TypeOK
<1>7. Rising'
  BY <1>1, <1>4, <1>6 DEF Rising
<1>8. Kept(server)'
  BY <1>1, <1>4, KeptStays DEF PInv, Base, Fresh, Kept
<1>9. ASSUME NEW r \in Ops, phase'[r] = "fetched" PROVE Kept(saw[r])'
  <2>1. phase[r] = "fetched"
    BY <1>1, <1>2, <1>9 DEF TypeOK
  <2> QED
    BY <2>1, <1>1, <1>4, KeptStays DEF PInv, Base, Fresh, Kept
<1>10. Kept(Revised(o))
  <2> SUFFICES ASSUME NEW w \in Ops, landed[w] > 0 PROVE Shows(Revised(o), w)
    BY DEF Kept
  <2>1. Shows(saw[o], w)
    BY <1>1, <1>4 DEF Fresh, Kept
  <2>2. o \in Images /\ w \in Images => input[w] <= input[o]
    BY <1>1, <1>4 DEF Rising
  <2>3. o \in Rates /\ w \in Rates => input[w] <= input[o]
    BY <1>1, <1>4 DEF Rising
  <2>4. input[w] \in Nat /\ input[o] \in Nat
    BY <1>2 DEF TypeOK
  <2> QED
    BY <2>1, <2>2, <2>3, <2>4, <1>2, RevisedType DEF Shows
<1>11. ASSUME NEW r \in Ops \ {SignUp}, phase'[r] = "pending" PROVE Kept(wrote[r])'
  <2>1. CASE r = o
    <3>1. wrote'[r] = Revised(o)
      BY <1>1, <1>2, <2>1 DEF TypeOK
    <3> QED
      BY <3>1, <1>1, <1>10, KeptStays DEF PInv, Base, Kept
  <2>2. CASE r # o
    <3>1. wrote'[r] = wrote[r] /\ phase[r] = "pending"
      BY <1>1, <1>2, <1>11, <2>2 DEF TypeOK
    <3> QED
      BY <3>1, <1>1, <1>4, KeptStays DEF PInv, Base, Fresh, Kept
  <2> QED
    BY <2>1, <2>2
<1> QED
  BY <1>5, <1>7, <1>8, <1>9, <1>11 DEF Fresh

LEMMA MainQueuePInv ==
  ASSUME PInv, Base', NEW d \in Device, NEW o \in Ops, MainQueue(d, o)
  PROVE  PInv'
<1> USE DEF docVars, clientVars, worldVars
<1>1. CASE UpdateUserProfile(d, o)
  BY <1>1, UpdatePInv
<1>2. ASSUME NEW from \in {"unfetched", "acked", "rejected", "refetched", "unrefetched"},
             NEW to \in {"failed", "refetching", "done"}, Callback(d, o, from, to),
             UNCHANGED <<server, landed, input, saw, wrote, object, comments, drops, online>>
      PROVE  PInv'
  <2>1. Active(o) /\ phase' = [phase EXCEPT ![o] = to]
    BY <1>2 DEF Callback, Active, Over
  <2> QED
    BY <1>2, <2>1, MovesCalmly
<1>3. CASE ServiceWritten(d, o)
  BY <1>2, <1>3 DEF ServiceWritten
<1>4. CASE RatingWritten(d, o)
  <2>1. PICK answer \in {"acked", "rejected"} :
          Callback(d, o, answer, IF answer = "acked" THEN "done" ELSE "failed")
    BY <1>4 DEF RatingWritten
  <2> QED
    BY <1>2, <1>4, <2>1 DEF RatingWritten
<1>5. CASE FetchFailed(d, o) \/ ImageWritten(d, o) \/ ImageRejected(d, o)
  BY <1>2, <1>5 DEF FetchFailed, ImageWritten, ImageRejected
<1>6. CASE ShowServices(d, o) \/ SaveUserProfile(d, o) \/ RefetchFailed(d, o)
  BY <1>2, <1>6 DEF ShowServices, SaveUserProfile, RefetchFailed
<1> QED
  BY <1>1, <1>3, <1>4, <1>5, <1>6 DEF MainQueue

-----------------------------------------------------------------------------
\* The server takes a write that shows all it has taken, so it still does.
LEMMA CommitPInv ==
  ASSUME PInv, Base', NEW d \in Device, CommitWrite(d)
  PROVE  PInv'
<1> USE DEF runVars, worldVars
<1>0. TypeOK
  BY DEF PInv, Base, IInv
<1>1. PICK o \in Ops :
      /\ phase[o] = "pending" /\ Active(o) /\ Shows(wrote[o], o)
      /\ server' = [Apply(server, o) EXCEPT !.seen = server.seen \cup {o}]
      /\ landed' = [landed EXCEPT ![o] = IF @ = 0 THEN writes + 1 ELSE @]
      /\ UNCHANGED <<phase, input, saw, wrote, object, comments, drops, online>>
  <2> DEFINE o == pending[d][taken[d] + 1]
  <2>1. o \in Ops /\ taken[d] + 1 \in 1..Len(pending[d])
    BY <1>0, NextToTake
  <2>2. Shows(wrote[o], o)
    BY <2>1 DEF PInv, Base, IInv, Carried
  <2>3. /\ phase[o] = "pending"
        /\ server' = [Apply(server, o) EXCEPT !.seen = server.seen \cup {o}]
        /\ landed' = [landed EXCEPT ![o] = IF @ = 0 THEN writes + 1 ELSE @]
        /\ UNCHANGED <<phase, input, saw, wrote, object, comments, drops, online>>
    BY DEF CommitWrite
  <2> HIDE DEF o
  <2>4. Active(o)
    BY <2>3 DEF Active, Over
  <2> QED
    BY <2>1, <2>2, <2>3, <2>4
<1>2. \A r \in Ops : landed'[r] > 0 => landed[r] > 0 \/ r = o
  BY <1>0, <1>1 DEF TypeOK
<1>3. \A r \in Ops \ {o} : ~Active(r)
  BY <1>1 DEF PInv, Serial
<1>4. SignUp \notin Writers /\ SignUp \in Ops /\ Writers \subseteq Ops
  BY RunsAssumption DEF Ops, Writers
<1>5. Active(SignUp) => o = SignUp /\ \A w \in Writers : landed[w] = 0
  BY <1>3, <1>4 DEF PInv, Serial
<1>6. Serial'
  <2>1. Active(SignUp)' => \A w \in Writers : landed'[w] = 0
    BY <1>0, <1>1, <1>4, <1>5 DEF Active, TypeOK
  <2> QED
    BY <1>1, <2>1 DEF PInv, Serial, Active
<1> SUFFICES ASSUME drops = 0 PROVE Connected' /\ Rising' /\ Fresh'
  BY <1>1, <1>6 DEF PInv
<1>7. Connected /\ Rising /\ Fresh
  BY DEF PInv
<1>8. Connected' /\ Rising'
  BY <1>1, <1>7 DEF Connected, Rising
<1>9. CASE o = SignUp
  <2>1. \A w \in Ops : landed'[w] > 0 => w \notin Writers
    <3>1. \A w \in Writers : w # o /\ landed[w] = 0
      BY <1>1, <1>4, <1>5, <1>9
    <3>2. \A w \in Ops : landed[w] = 0 => ~(landed[w] > 0)
      OBVIOUS
    <3> QED
      BY <1>2, <3>1, <3>2
  <2>2. \A copy : Kept(copy)'
    BY <2>1 DEF Kept, Shows, Writers
  <2> QED
    BY <2>2, <1>8 DEF Fresh
<1>10. CASE o # SignUp
  <2>1. Kept(wrote[o])'
    BY <1>1, <1>2, <1>7, <1>10 DEF Fresh, Kept, Shows
  <2>2. /\ server'.services = IF wrote[o].services = {} THEN server.services ELSE wrote[o].services
        /\ server'.image = IF wrote[o].image = 0 THEN server.image ELSE wrote[o].image
        /\ server'.score = wrote[o].score
    <3>1. Apply(server, o) \in Copy
      BY <1>0, <1>1, ApplyType DEF TypeOK
    <3>2. /\ server'.services = Apply(server, o).services
          /\ server'.image = Apply(server, o).image
          /\ server'.score = Apply(server, o).score
      BY <1>1, <3>1 DEF Copy
    <3> QED
      BY <3>2, <1>10 DEF Apply, Merge
  <2>3. server.image \in Nat /\ wrote[o].image \in Nat /\ \A w \in Ops : input'[w] \in Nat
    BY <1>0, <1>1 DEF TypeOK, Copy
  <2>4. Kept(server)'
    <3> SUFFICES ASSUME NEW w \in Ops, landed'[w] > 0 PROVE Shows(server, w)'
      BY DEF Kept
    <3>1. Shows(wrote[o], w)'
      BY <2>1 DEF Kept
    <3> QED
      BY <3>1, <2>2, <2>3, <1>1 DEF Shows
  <2>5. \A r \in Ops : phase'[r] \in {"fetched", "pending"} => r = o /\ phase'[r] = "pending"
    BY <1>1, <1>3 DEF Active, Over
  <2> QED
    BY <1>8, <2>1, <2>4, <2>5 DEF Fresh
<1> QED
  BY <1>9, <1>10

LEMMA WriteStreamPInv ==
  ASSUME PInv, Base', NEW d \in Device, WriteStream(d)
  PROVE  PInv'
<1> USE DEF docVars, worldVars
<1>1. ASSUME pending[d] # <<>>, phase[Head(pending[d])] = "pending",
             NEW outcome \in {"acked", "rejected"}, NEW over \in {"done", "failed"},
             Answered(d, Head(pending[d]), outcome, over),
             UNCHANGED <<server, landed, input, saw, wrote, object, comments, drops, online>>
      PROVE  PInv'
  <2>1. Head(pending[d]) \in Ops /\ Active(Head(pending[d]))
    BY <1>1, HeadOfPending DEF Active, Over, PInv, Base, IInv
  <2>2. PICK p \in {"acked", "rejected", "done", "failed"} :
          phase' = [phase EXCEPT ![Head(pending[d])] = p]
    BY <1>1 DEF Answered
  <2> QED
    BY <1>1, <2>1, <2>2, MovesCalmly
<1>2. CASE AcknowledgeBatch(d)
  BY <1>1, <1>2 DEF AcknowledgeBatch
<1>3. CASE RejectBatch(d)
  BY <1>1, <1>3 DEF RejectBatch
<1> QED
  BY <1>2, <1>3, CommitPInv DEF WriteStream

LEMMA WorldPInv ==
  ASSUME PInv, Base', World
  PROVE  PInv'
<1> USE DEF docVars, clientVars, runVars
<1>0. TypeOK /\ SignUp \in Ops
  BY DEF PInv, Base, IInv, Ops
<1>1. ASSUME NEW d \in Device, NetworkDown(d) \/ NetworkUp(d) PROVE PInv'
  <2>1. Serial'
    BY <1>0, <1>1, SerialStays DEF PInv, NetworkDown, NetworkUp, Active
  <2>2. drops' # 0
    BY <1>0, <1>1 DEF TypeOK, NetworkDown, NetworkUp, PInv, Connected
  <2> QED
    BY <2>1, <2>2 DEF PInv
<1>2. ASSUME NEW d \in Device, Crash(d) PROVE PInv'
  <2>1. \A o \in Ops : phase'[o] = phase[o] \/ (Active(o) /\ phase'[o] = "lost")
    BY <1>2 DEF Crash, Active
  <2>2. Serial'
    BY <1>0, <1>2, <2>1, SerialStays DEF PInv, Crash, Active, Over
  <2>3. object' >= object /\ comments' >= comments
    BY <1>0, <1>2 DEF Crash, TypeOK
  <2>4. \A o \in Images \cup Rates : o \in Ops
    BY DEF Ops, Writers
  <2> QED
    BY <1>2, <2>1, <2>2, <2>3, <2>4, Calm DEF Crash
<1>3. CASE CustomerComments
  <2>1. Serial'
    BY <1>0, <1>3, SerialStays DEF PInv, CustomerComments, Active
  <2>2. object' >= object /\ comments' >= comments
    BY <1>0, <1>3 DEF CustomerComments, TypeOK
  <2> QED
    BY <1>3, <2>1, <2>2, Calm DEF CustomerComments
<1> QED
  BY <1>1, <1>2, <1>3 DEF World

\* A run is preparing only as the kind of run that prepares.
LEMMA NextPreparing ==
  ASSUME TypeOK, Preparing, [Next]_vars
  PROVE  Preparing'
<1> USE DEF docVars, clientVars, runVars, worldVars
<1> DEFINE Prepares == {"uploading", "linking", "scoring"}
<1>0. ASSUME \A o \in Ops : phase'[o] \in Prepares => phase'[o] = phase[o] PROVE Preparing'
  BY <1>0 DEF Preparing
<1>1. ASSUME NEW o \in Ops, Begin(o) PROVE Preparing'
  BY <1>1 DEF Begin, HandleAddService, ChangeProfileImage, RefreshReviewData,
              GetAllSalons, FetchAndSaveProfile, Start, TypeOK, Preparing
<1>2. ASSUME NEW o \in Ops, PutData(o) PROVE Preparing'
  BY <1>2 DEF PutData, TypeOK, Preparing
<1>3. ASSUME NEW o \in Ops, RemoteAnswer(o), ~PutData(o) PROVE Preparing'
  <2>1. PICK p : p \notin Prepares /\ phase' = [phase EXCEPT ![o] = p]
    BY <1>3 DEF RemoteAnswer, DownloadURL, UploadFails, GetReviews, GetReviewsFails,
                FetchFromServer, FetchFromCache, FetchFails, Answer, NoAnswer
  <2> QED
    BY <1>0, <2>1 DEF TypeOK
<1>4. ASSUME NEW d \in Device, NEW o \in Ops, MainQueue(d, o) PROVE Preparing'
  <2>1. PICK p : p \notin Prepares /\ phase' = [phase EXCEPT ![o] = p]
    BY <1>4 DEF MainQueue, UpdateUserProfile, FetchFailed, ServiceWritten, ImageWritten,
                ImageRejected, RatingWritten, ShowServices, SaveUserProfile, RefetchFailed,
                Callback
  <2> QED
    BY <1>0, <2>1 DEF TypeOK
<1>5. ASSUME NEW d \in Device, WriteStream(d) PROVE Preparing'
  <2>1. CASE CommitWrite(d)
    BY <1>0, <2>1 DEF CommitWrite
  <2>2. CASE ~CommitWrite(d)
    <3>1. PICK p \in {"acked", "rejected", "done", "failed"} :
            phase' = [phase EXCEPT ![Head(pending[d])] = p]
      BY <1>5, <2>2 DEF WriteStream, AcknowledgeBatch, RejectBatch, Answered
    <3> QED
      BY <1>0, <3>1 DEF TypeOK
  <2> QED
    BY <2>1, <2>2
<1>6. CASE World
  BY <1>0, <1>6 DEF World, NetworkDown, NetworkUp, Crash, CustomerComments
<1>7. CASE UNCHANGED vars
  BY <1>7, <1>0 DEF vars
<1> QED
  BY <1>1, <1>2, <1>3, <1>4, <1>5, <1>6, <1>7 DEF Next

LEMMA NextPInv == PInv /\ [NextAlone]_vars => PInv'
<1> SUFFICES ASSUME PInv, [NextAlone]_vars PROVE PInv'
  OBVIOUS
<1>1. [Next]_vars
  BY DEF NextAlone, BeginAlone, Next
<1>2. Base'
  BY <1>1, NextIInv, NextQueued, NextPreparing DEF PInv, Base, IInv
<1>3. CASE UNCHANGED vars
  <2>1. UNCHANGED <<server, landed, phase, input, saw, wrote, object, comments, drops, online>>
    BY <1>3 DEF vars, docVars, runVars, worldVars
  <2>2. Serial'
    BY <2>1, SerialStays DEF PInv, Active, Ops
  <2>3. object' >= object /\ comments' >= comments
    BY <2>1 DEF PInv, Base, IInv, TypeOK
  <2> QED
    BY <1>2, <2>1, <2>2, <2>3, Calm
<1>4. CASE NextAlone
  BY <1>2, <1>4, BeginPInv, RemoteAnswerPInv, MainQueuePInv, WriteStreamPInv, WorldPInv
     DEF NextAlone
<1> QED
  BY <1>3, <1>4

\* As long as runs do not overlap and no device has lost its network, the handlers'
\* read-modify-write keeps every service, the newest picture and the newest rating the
\* server accepted, through failures, rejections and restarts of the app
\* (AppDataManager.swift:133-143 and 226-233, AddServicesVC.swift:41-60).
THEOREM PatienceKeepsAll == SpecAlone => [](drops = 0 => KeepsEverything)
<1>1. PInv => (drops = 0 => KeepsEverything)
  BY DEF PInv, Fresh, Kept, Shows, KeepsEverything, Ops, Writers
<1> QED
  BY <1>1, InitPInv, NextPInv, PTL DEF SpecAlone

-----------------------------------------------------------------------------
(***************************************************************************)
(* The document as an atomic register.  What the run under way has in hand *)
(* is the document, with its own change once that is made.                 *)
(***************************************************************************)

\* The document with the change of run o, as the one step of its update leaves it.
Updated(o, copy) ==
  [exists   |-> TRUE,
   image    |-> IF o \in Images THEN input[o] ELSE copy.image,
   services |-> IF o \in Adds THEN copy.services \cup {o} ELSE copy.services,
   score    |-> IF o \in Rates THEN input[o] ELSE copy.score]

\* A run that has fetched has the document as it is; one that has written has the
\* document with its own change, which the server will make, or has made.
Current(o) ==
  /\ phase[o] = "fetched" => saw[o].exists /\ Fields(saw[o]) = Fields(server)
  /\ phase[o] = "pending" /\ landed[o] = 0 =>
       /\ Fields(wrote[o]) = Updated(o, server)
       /\ o # SignUp => server.exists
  /\ phase[o] = "pending" /\ landed[o] > 0 =>
       /\ Fields(wrote[o]) = Fields(server)
       /\ server.exists

\* Nothing is older than the document's picture and rating.
Newest(o) ==
  phase[o] \in {"fetching", "fetched", "pending"} =>
    /\ o \in Images => server.image <= input[o]
    /\ o \in Rates => server.score <= input[o]

\* Runs that are to write have something to write.
Writes(o) ==
  /\ phase[o] \in {"fetching", "fetched"} => o \in Writers
  /\ phase[o] = "pending" => o \in Writers \cup {SignUp}

\* A write that is applied and still has its completion handler is about to be answered.
Heard(o) ==
  phase[o] = "pending" /\ landed[o] > 0 /\ o \notin deaf => taken[dev[o]] > 0

Atomic ==
  /\ server.image <= object
  /\ server.score <= comments
  /\ \A o \in Ops : Current(o) /\ Newest(o) /\ Writes(o) /\ Heard(o)

\* What is known of a state of SpecAlone in which no device has lost its network.
AloneInv == PInv /\ Born /\ drops = 0 /\ Atomic

LEMMA AloneFacts ==
  ASSUME AloneInv
  PROVE  /\ TypeOK /\ Landing /\ Queued /\ Serial /\ Preparing /\ Connected /\ Rising
         /\ BornFirst /\ Atomic
  BY DEF AloneInv, PInv, Base, Born, IInv

LEMMA FieldsEqual ==
  ASSUME NEW a, NEW b
  PROVE  Fields(a) = Fields(b) <=> /\ a.exists = b.exists
                                   /\ a.image = b.image
                                   /\ a.services = b.services
                                   /\ a.score = b.score
  BY DEF Fields

LEMMA FieldsUpdated ==
  ASSUME NEW a, NEW b, NEW o
  PROVE  Fields(a) = Updated(o, b) <=>
           /\ a.exists = TRUE
           /\ a.image = IF o \in Images THEN input[o] ELSE b.image
           /\ a.services = IF o \in Adds THEN b.services \cup {o} ELSE b.services
           /\ a.score = IF o \in Rates THEN input[o] ELSE b.score
  BY DEF Fields, Updated

LEMMA InitAtomic == Init => Atomic
<1> SUFFICES ASSUME Init PROVE Atomic
  OBVIOUS
<1>1. SignUp \notin Writers /\ SignUp \in Ops
  BY RunsAssumption DEF Ops, Writers
<1>2. server.image <= object /\ server.score <= comments
  BY DEF Init, NoDoc
<1>3. ASSUME NEW o \in Ops PROVE Current(o) /\ Newest(o) /\ Writes(o) /\ Heard(o)
  <2>1. CASE o = SignUp
    <3>1. /\ phase[o] = "pending" /\ landed[o] = 0 /\ wrote[o] = FreshSalon /\ server = NoDoc
          /\ ~(landed[o] > 0)
      BY <1>1, <2>1 DEF Init
    <3>2. o \notin Images /\ o \notin Adds /\ o \notin Rates
      BY <1>1, <2>1 DEF Writers
    <3>3. Fields(wrote[o]) = Updated(o, server)
      BY <3>1, <3>2 DEF Fields, Updated, FreshSalon, NoDoc
    <3> QED
      BY <2>1, <3>1, <3>2, <3>3 DEF Current, Newest, Writes, Heard
  <2>2. CASE o # SignUp
    <3>1. phase[o] = "idle"
      BY <2>2 DEF Init
    <3> QED
      BY <3>1 DEF Current, Newest, Writes, Heard
  <2> QED
    BY <2>1, <2>2
<1> QED
  BY <1>2, <1>3 DEF Atomic

\* A step that gives no run a copy, a picture or a count.
LEMMA AtomicKept ==
  ASSUME AloneInv, TypeOK', UNCHANGED <<server, landed>>,
         object' >= object, comments' >= comments,
         \A r \in Ops : phase'[r] \in {"fetching", "fetched", "pending"} =>
           \/ /\ phase'[r] = phase[r] /\ input'[r] = input[r]
              /\ phase[r] = "fetched" => saw'[r] = saw[r]
              /\ phase[r] = "pending" => wrote'[r] = wrote[r]
           \/ phase'[r] = "fetching" /\ r \in Adds,
         \A r \in Ops : phase'[r] = "pending" /\ r \notin deaf' =>
                          r \notin deaf /\ (taken[dev[r]] > 0 => taken'[dev[r]] > 0)
  PROVE  Atomic'
<1>1. TypeOK /\ Atomic
  BY AloneFacts
<1>2. server.image <= object' /\ server.score <= comments'
  <2>1. /\ server.image \in Nat /\ server.score \in Nat
        /\ object \in Nat /\ object' \in Nat /\ comments \in Nat /\ comments' \in Nat
    BY <1>1 DEF TypeOK, Copy
  <2>2. server.image <= object /\ server.score <= comments
    BY <1>1 DEF Atomic
  <2> QED
    BY <2>1, <2>2
<1>3. ASSUME NEW r \in Ops PROVE Current(r)' /\ Newest(r)' /\ Writes(r)' /\ Heard(r)'
  <2>1. Current(r) /\ Newest(r) /\ Writes(r) /\ Heard(r)
    BY <1>1 DEF Atomic
  <2>2. CASE phase'[r] \notin {"fetching", "fetched", "pending"}
    BY <2>2 DEF Current, Newest, Writes, Heard
  <2>3. CASE phase'[r] = "fetching" /\ r \in Adds
    <3>1. r \notin Images /\ r \notin Rates /\ r \in Writers
      BY <2>3, RunsAssumption DEF Writers
    <3> QED
      BY <2>3, <3>1 DEF Current, Newest, Writes, Heard
  <2>4. CASE /\ phase'[r] \in {"fetching", "fetched", "pending"}
             /\ phase'[r] = phase[r] /\ input'[r] = input[r]
             /\ phase[r] = "fetched" => saw'[r] = saw[r]
             /\ phase[r] = "pending" => wrote'[r] = wrote[r]
    <3>1. Current(r)'
      <4>1. Fields(server)' = Fields(server) /\ Updated(r, server)' = Updated(r, server)
        BY <2>4 DEF Fields, Updated
      <4>2. /\ phase[r] = "fetched" => Fields(saw[r])' = Fields(saw[r])
            /\ phase[r] = "pending" => Fields(wrote[r])' = Fields(wrote[r])
        BY <2>4 DEF Fields
      <4> QED
        BY <2>1, <2>4, <4>1, <4>2 DEF Current
    <3>2. Newest(r)' /\ Writes(r)'
      BY <2>1, <2>4 DEF Newest, Writes
    <3>3. Heard(r)'
      BY <2>1, <2>4 DEF Heard
    <3> QED
      BY <3>1, <3>2, <3>3
  <2> QED
    BY <2>2, <2>3, <2>4
<1> QED
  BY <1>2, <1>3 DEF Atomic

\* A step that moves one run, while no other is under way.
LEMMA AtomicMove ==
  ASSUME AloneInv, TypeOK', NEW o \in Ops, \A r \in Ops \ {o} : ~Active(r),
         NEW p, phase' = [phase EXCEPT ![o] = p],
         p \notin {"fetching", "fetched", "pending"} \/ (p = "fetching" /\ o \in Adds),
         UNCHANGED <<server, landed>>,
         object' >= object, comments' >= comments
  PROVE  Atomic'
<1>1. TypeOK
  BY AloneFacts
<1>2. ASSUME NEW r \in Ops, phase'[r] \in {"fetching", "fetched", "pending"}
      PROVE  r = o /\ phase'[r] = "fetching" /\ r \in Adds
  <2>1. r = o => phase'[r] = p
    BY <1>1 DEF TypeOK
  <2>2. r # o => phase'[r] = phase[r] /\ ~Active(r)
    BY <1>1 DEF TypeOK
  <2> QED
    BY <1>2, <2>1, <2>2 DEF Active, Over
<1>3. \A r \in Ops : phase'[r] # "pending"
  BY <1>2
<1> QED
  BY <1>2, <1>3, AtomicKept

LEMMA OthersRest ==
  ASSUME AloneInv, NEW o \in Ops, Active(o)
  PROVE  \A r \in Ops \ {o} : ~Active(r)
BY AloneFacts DEF Serial

LEMMA BeginAtomic ==
  ASSUME AloneInv, TypeOK', NEW o \in Ops, BeginAlone(o)
  PROVE  Atomic'
<1> USE DEF docVars, clientVars, worldVars
<1>1. PICK p \in {"fetching", "uploading", "scoring", "refetching"} :
        Start(o, p) /\ (p = "fetching" => o \in Adds)
  BY DEF BeginAlone, Begin, HandleAddService, ChangeProfileImage, RefreshReviewData,
         GetAllSalons, FetchAndSaveProfile
<1>2. \A r \in Ops : ~Active(r)
  BY DEF BeginAlone, Quiet, Active
<1>3. object' >= object /\ comments' >= comments
  BY <1>1, AloneFacts DEF Start, TypeOK
<1> QED
  BY <1>1, <1>2, <1>3, AtomicMove DEF Start

\* The picture just stored, or the comments just counted, are the newest.
LEMMA LearnsAtomic ==
  ASSUME AloneInv, TypeOK', NEW o \in Ops, Active(o),
         NEW n \in Nat, input' = [input EXCEPT ![o] = n],
         NEW p \in {"fetching", "done"}, phase' = [phase EXCEPT ![o] = p],
         \/ o \in Images /\ n = object
         \/ o \in Rates /\ n = comments,
         UNCHANGED <<server, landed, object, comments>>
  PROVE  Atomic'
<1>1. TypeOK /\ Atomic
  BY AloneFacts
<1>2. \A r \in Ops \ {o} : phase'[r] \notin {"fetching", "fetched", "pending"}
  BY <1>1, OthersRest DEF TypeOK, Active, Over
<1>3. phase'[o] = p /\ input'[o] = n
  BY <1>1 DEF TypeOK
<1>4. server.image <= object /\ server.score <= comments
  BY <1>1 DEF Atomic
<1>5. (o \in Images => o \notin Rates) /\ o \in Writers
  BY RunsAssumption DEF Writers
<1>6. Current(o)' /\ Newest(o)' /\ Writes(o)' /\ Heard(o)'
  BY <1>3, <1>4, <1>5 DEF Current, Newest, Writes, Heard
<1>7. \A r \in Ops \ {o} : Current(r)' /\ Newest(r)' /\ Writes(r)' /\ Heard(r)'
  BY <1>2 DEF Current, Newest, Writes, Heard
<1> QED
  BY <1>4, <1>6, <1>7 DEF Atomic

\* Nothing waits in the queue of the run's device: it is given the document.
LEMMA FetchGives ==
  ASSUME AloneInv, NEW o \in Ops, FetchFromServer(o)
  PROVE  /\ Active(o) /\ server.exists
         /\ saw' = [saw EXCEPT ![o] = server]
         /\ phase' = [phase EXCEPT ![o] = Answer(@)]
         /\ UNCHANGED <<server, landed, input, object, comments>>
<1> USE DEF docVars, worldVars
<1>1. phase[o] \in Fetching /\ PInv
  BY DEF FetchFromServer, AloneInv
<1>2. Overlay(dev[o], server) = server
  BY <1>1, NothingQueued DEF Overlay
<1> QED
  BY <1>1, <1>2 DEF FetchFromServer, Active, Fetching, Over

LEMMA FetchAtomic ==
  ASSUME AloneInv, TypeOK', NEW o \in Ops, FetchFromServer(o)
  PROVE  Atomic'
<1>1. TypeOK /\ Atomic
  BY AloneFacts
<1>2. /\ Active(o) /\ server.exists
      /\ saw' = [saw EXCEPT ![o] = server]
      /\ phase' = [phase EXCEPT ![o] = Answer(@)]
      /\ UNCHANGED <<server, landed, input, object, comments>>
  BY FetchGives
<1>3. \A r \in Ops \ {o} : phase'[r] \notin {"fetching", "fetched", "pending"}
  BY <1>1, <1>2, OthersRest DEF TypeOK, Active, Over
<1>4. saw'[o] = server /\ phase'[o] = Answer(phase[o])
  BY <1>1, <1>2 DEF TypeOK
<1>5. phase[o] \in Fetching
  BY DEF FetchFromServer
<1>6. Current(o) /\ Newest(o) /\ Writes(o)
  BY <1>1 DEF Atomic
<1>7. Current(o)' /\ Newest(o)' /\ Writes(o)' /\ Heard(o)'
  <2>1. CASE phase[o] = "fetching"
    <3>1. phase'[o] = "fetched"
      BY <1>4, <2>1 DEF Answer
    <3>2. Current(o)'
      BY <1>2, <1>4, <3>1 DEF Current, Fields
    <3> QED
      BY <1>2, <1>6, <2>1, <3>1, <3>2 DEF Newest, Writes, Heard
  <2>2. CASE phase[o] = "refetching"
    <3>1. phase'[o] = "refetched"
      BY <1>4, <2>2 DEF Answer
    <3> QED
      BY <3>1 DEF Current, Newest, Writes, Heard
  <2> QED
    BY <1>5, <2>1, <2>2 DEF Fetching
<1>8. \A r \in Ops \ {o} : Current(r)' /\ Newest(r)' /\ Writes(r)' /\ Heard(r)'
  BY <1>3 DEF Current, Newest, Writes, Heard
<1> QED
  BY <1>1, <1>2, <1>7, <1>8 DEF Atomic

LEMMA RemoteAnswerAtomic ==
  ASSUME AloneInv, TypeOK', NEW o \in Ops, RemoteAnswer(o)
  PROVE  Atomic'
<1> USE DEF docVars, clientVars, worldVars
<1>0. TypeOK /\ Preparing /\ Connected /\ dev[o] \in Device
  BY AloneFacts, RunsAssumption
<1>1. ASSUME NEW p, p \notin {"fetching", "fetched", "pending"}, Active(o),
             phase' = [phase EXCEPT ![o] = p], object' = object \/ object' = object + 1,
             UNCHANGED <<server, landed, comments>>
      PROVE  Atomic'
  <2>1. object' >= object /\ comments' >= comments
    BY <1>0, <1>1 DEF TypeOK
  <2> QED
    BY <1>1, <2>1, OthersRest, AtomicMove
<1>2. CASE PutData(o) \/ UploadFails(o) \/ GetReviewsFails(o)
  <2>1. Active(o)
    BY <1>2 DEF PutData, UploadFails, GetReviewsFails, Active, Over
  <2> QED
    BY <1>1, <1>2, <2>1 DEF PutData, UploadFails, GetReviewsFails
<1>3. CASE DownloadURL(o)
  <2>1. o \in Images /\ Active(o) /\ object \in Nat
    BY <1>0, <1>3 DEF DownloadURL, Preparing, Active, Over, TypeOK
  <2>2. PICK n \in Nat : n = object
    BY <2>1
  <2>3. /\ input' = [input EXCEPT ![o] = n]
        /\ phase' = [phase EXCEPT ![o] = "fetching"]
        /\ UNCHANGED <<server, landed, object, comments>>
    BY <1>3, <2>2 DEF DownloadURL
  <2> QED
    BY <2>1, <2>2, <2>3, LearnsAtomic
<1>4. ASSUME NEW n \in 0..MaxComments, GetReviews(o, n) PROVE Atomic'
  <2>1. o \in Rates /\ Active(o) /\ n \in Nat /\ n = comments
    BY <1>0, <1>4, BoundsAssumption DEF GetReviews, Preparing, Connected, Active, Over
  <2> QED
    BY <1>4, <2>1, LearnsAtomic DEF GetReviews
<1>5. CASE FetchFromServer(o)
  BY <1>5, FetchAtomic
<1>6. CASE FetchFromCache(o)
  BY <1>0, <1>6 DEF FetchFromCache, Connected
<1>7. CASE FetchFails(o)
  <2>1. Active(o) /\ NoAnswer(phase[o]) \notin {"fetching", "fetched", "pending"}
    BY <1>7 DEF FetchFails, Active, Over, Fetching, NoAnswer
  <2>2. phase' = [phase EXCEPT ![o] = NoAnswer(phase[o])]
    BY <1>7 DEF FetchFails
  <2> QED
    BY <1>1, <1>7, <2>1, <2>2 DEF FetchFails
<1> QED
  BY <1>2, <1>3, <1>4, <1>5, <1>6, <1>7 DEF RemoteAnswer

\* setData is handed the document with the run's own change.
LEMMA UpdateAtomic ==
  ASSUME AloneInv, TypeOK', NEW d \in Device, NEW o \in Ops, UpdateUserProfile(d, o)
  PROVE  Atomic'
<1> USE DEF docVars, worldVars
<1>1. TypeOK /\ Landing /\ Atomic
  BY AloneFacts
<1>2. /\ phase[o] = "fetched"
      /\ phase' = [phase EXCEPT ![o] = "pending"]
      /\ wrote' = [wrote EXCEPT ![o] = Revised(o)]
      /\ UNCHANGED <<server, landed, input, object, comments>>
  BY DEF UpdateUserProfile, Callback
<1>3. Active(o)
  BY <1>2 DEF Active, Over
<1>4. \A r \in Ops \ {o} : phase'[r] \notin {"fetching", "fetched", "pending"}
  BY <1>1, <1>2, <1>3, OthersRest DEF TypeOK, Active, Over
<1>5. phase'[o] = "pending" /\ wrote'[o] = Revised(o)
  BY <1>1, <1>2 DEF TypeOK
<1>6. Current(o) /\ Newest(o) /\ Writes(o)
  BY <1>1 DEF Atomic
<1>7. landed[o] = 0
  <2>1. ~(landed[o] > 0) /\ landed[o] \in Nat
    BY <1>1, <1>2 DEF Landing, Written, WrittenPhases, TypeOK
  <2> QED
    BY <2>1
<1>8. o # SignUp
  BY <1>2, <1>6, RunsAssumption DEF Writes
<1>9. Current(o)'
  <2>1. saw[o].exists /\ Fields(saw[o]) = Fields(server)
    BY <1>2, <1>6 DEF Current
  <2>2. /\ saw[o].exists = TRUE /\ server.exists
        /\ saw[o].image = server.image
        /\ saw[o].services = server.services
        /\ saw[o].score = server.score
    <3>1. saw[o].exists \in BOOLEAN
      BY <1>1 DEF TypeOK, Copy
    <3> QED
      BY <2>1, <3>1, FieldsEqual
  <2>3. Revised(o).exists = saw[o].exists
    BY <1>1 DEF Revised, TypeOK, Copy
  <2>4. Fields(Revised(o)) = Updated(o, server)
    BY <1>1, <2>2, <2>3, RevisedType DEF Fields, Updated
  <2>5. Fields(wrote[o])' = Updated(o, server)'
    BY <1>2, <1>5, <2>4 DEF Fields, Updated
  <2> QED
    BY <1>2, <1>5, <1>7, <2>2, <2>5 DEF Current
<1>10. Newest(o)' /\ Writes(o)' /\ Heard(o)'
  BY <1>2, <1>5, <1>6, <1>7 DEF Newest, Writes, Heard
<1>11. \A r \in Ops \ {o} : Current(r)' /\ Newest(r)' /\ Writes(r)' /\ Heard(r)'
  BY <1>4 DEF Current, Newest, Writes, Heard
<1> QED
  BY <1>1, <1>2, <1>9, <1>10, <1>11 DEF Atomic

LEMMA MainQueueAtomic ==
  ASSUME AloneInv, TypeOK', NEW d \in Device, NEW o \in Ops, MainQueue(d, o)
  PROVE  Atomic'
<1> USE DEF docVars, clientVars, worldVars
<1>0. TypeOK
  BY AloneFacts
<1>1. CASE UpdateUserProfile(d, o)
  BY <1>1, UpdateAtomic
<1>2. ASSUME NEW from \in {"unfetched", "acked", "rejected", "refetched", "unrefetched"},
             NEW to \in {"failed", "refetching", "done"}, Callback(d, o, from, to),
             UNCHANGED <<server, landed, object, comments>>
      PROVE  Atomic'
  <2>1. Active(o) /\ phase' = [phase EXCEPT ![o] = to]
    BY <1>2 DEF Callback, Active, Over
  <2>2. object' >= object /\ comments' >= comments
    BY <1>0, <1>2 DEF TypeOK
  <2> QED
    BY <1>2, <2>1, <2>2, OthersRest, AtomicMove
<1>3. CASE ServiceWritten(d, o)
  BY <1>2, <1>3 DEF ServiceWritten
<1>4. CASE RatingWritten(d, o)
  <2>1. PICK answer \in {"acked", "rejected"} :
          Callback(d, o, answer, IF answer = "acked" THEN "done" ELSE "failed")
    BY <1>4 DEF RatingWritten
  <2> QED
    BY <1>2, <1>4, <2>1 DEF RatingWritten
<1>5. CASE FetchFailed(d, o) \/ ImageWritten(d, o) \/ ImageRejected(d, o)
  BY <1>2, <1>5 DEF FetchFailed, ImageWritten, ImageRejected
<1>6. CASE ShowServices(d, o) \/ SaveUserProfile(d, o) \/ RefetchFailed(d, o)
  BY <1>2, <1>6 DEF ShowServices, SaveUserProfile, RefetchFailed
<1> QED
  BY <1>1, <1>3, <1>4, <1>5, <1>6 DEF MainQueue

\* The server's applying a write makes the document what was written, and so does its
\* applying the write once more.
LEMMA CommitMakes ==
  ASSUME AloneInv, NEW d \in Device, CommitWrite(d)
  PROVE  \E o \in Ops :
           /\ phase[o] = "pending" /\ Active(o) /\ o \in Writers \cup {SignUp}
           /\ dev[o] = d
           /\ Fields(server') = Fields(wrote[o])
           /\ Fields(wrote[o]) = IF landed[o] = 0 THEN Updated(o, server) ELSE Fields(server)
           /\ wrote[o].exists
           /\ landed' = [landed EXCEPT ![o] = IF @ = 0 THEN writes + 1 ELSE @]
           /\ taken' = [taken EXCEPT ![d] = @ + 1]
           /\ UNCHANGED <<phase, input, saw, wrote, deaf, object, comments>>
<1> USE DEF runVars, worldVars
<1> DEFINE o == pending[d][taken[d] + 1]
<1>0. TypeOK /\ Atomic /\ Queued /\ BornFirst
  BY AloneFacts
<1>1. o \in Ops /\ taken[d] + 1 \in 1..Len(pending[d])
  BY <1>0, NextToTake
<1>2. /\ phase[o] = "pending"
      /\ server' = [Apply(server, o) EXCEPT !.seen = server.seen \cup {o}]
      /\ landed' = [landed EXCEPT ![o] = IF @ = 0 THEN writes + 1 ELSE @]
      /\ taken' = [taken EXCEPT ![d] = @ + 1]
      /\ UNCHANGED <<phase, input, saw, wrote, deaf, object, comments>>
  BY DEF CommitWrite
<1>3. dev[o] = d
  BY <1>0, <1>1 DEF Queued, QueuedOn
<1> HIDE DEF o
<1>4. Active(o)
  BY <1>2 DEF Active, Over
<1>5. Current(o) /\ Newest(o) /\ Writes(o)
  BY <1>0, <1>1 DEF Atomic
<1>6. /\ wrote[o] \in Copy /\ server \in Copy /\ Apply(server, o) \in Copy
      /\ landed[o] \in Nat /\ input[o] \in Nat
  BY <1>0, <1>1, ApplyType DEF TypeOK
<1>7. /\ server'.exists = Apply(server, o).exists
      /\ server'.image = Apply(server, o).image
      /\ server'.services = Apply(server, o).services
      /\ server'.score = Apply(server, o).score
  BY <1>2, <1>6 DEF Copy
<1>8. /\ Fields(wrote[o]) = IF landed[o] = 0 THEN Updated(o, server) ELSE Fields(server)
      /\ wrote[o].exists = TRUE
  <2>1. CASE landed[o] = 0
    BY <1>2, <1>5, <2>1, FieldsUpdated DEF Current
  <2>2. CASE landed[o] # 0
    <3>0. landed[o] > 0
      BY <1>6, <2>2
    <3>1. Fields(wrote[o]) = Fields(server) /\ server.exists
      BY <1>2, <1>5, <3>0 DEF Current
    <3>2. server.exists = TRUE
      BY <1>6, <3>1 DEF Copy
    <3>3. wrote[o].exists = server.exists
      BY <3>1 DEF Fields
    <3> QED
      BY <2>2, <3>1, <3>2, <3>3
  <2> QED
    BY <2>1, <2>2
<1>9. /\ wrote[o].image = server.image \/ (o \in Images /\ wrote[o].image = input[o])
      /\ wrote[o].services = server.services \/ wrote[o].services = server.services \cup {o}
  <2>1. CASE landed[o] = 0
    <3>1. Fields(wrote[o]) = Updated(o, server)
      BY <1>8, <2>1
    <3>2. /\ wrote[o].image = Updated(o, server).image
          /\ wrote[o].services = Updated(o, server).services
      BY <3>1 DEF Fields
    <3> QED
      BY <3>2 DEF Updated
  <2>2. CASE landed[o] # 0
    BY <1>8, <2>2 DEF Fields
  <2> QED
    BY <2>1, <2>2
<1>10. /\ Apply(server, o).exists = TRUE
       /\ Apply(server, o).image = wrote[o].image
       /\ Apply(server, o).services = wrote[o].services
       /\ Apply(server, o).score = wrote[o].score
  <2>1. CASE o = SignUp
    BY <2>1 DEF Apply, Merge, NoDoc
  <2>2. CASE o # SignUp
    <3>1. wrote[o].image = 0 => server.image = 0
      <4>1. server.image \in Nat /\ (o \in Images => server.image <= input[o])
        BY <1>2, <1>5, <1>6 DEF Newest, Copy
      <4>2. CASE wrote[o].image = server.image
        BY <4>2
      <4>3. CASE o \in Images /\ wrote[o].image = input[o]
        <5>1. \A m, n \in Nat : m <= n /\ n = 0 => m = 0
          OBVIOUS
        <5>2. server.image \in Nat /\ input[o] \in Nat /\ server.image <= input[o]
          BY <1>6, <4>1, <4>3
        <5>3. input[o] = 0 => server.image = 0
          BY <5>1, <5>2, Zenon
        <5> QED
          BY <4>3, <5>3
      <4> QED
        BY <1>9, <4>2, <4>3
    <3>2. wrote[o].services = {} => server.services = {}
      BY <1>9
    <3>3. Apply(server, o) = Merge(server, o)
      BY <2>2 DEF Apply
    <3> QED
      BY <3>1, <3>2, <3>3 DEF Merge
  <2> QED
    BY <2>1, <2>2
<1>11. Fields(server') = Fields(wrote[o])
  <2>1. /\ server'.exists = wrote[o].exists
        /\ server'.image = wrote[o].image
        /\ server'.services = wrote[o].services
        /\ server'.score = wrote[o].score
    BY <1>7, <1>8, <1>10, Zenon
  <2> QED
    BY <2>1, Zenon DEF Fields
<1>12. o \in Writers \cup {SignUp}
  BY <1>2, <1>5 DEF Writes
<1> QED
  BY <1>1, <1>2, <1>3, <1>4, <1>8, <1>11, <1>12

LEMMA CommitAtomic ==
  ASSUME AloneInv, TypeOK', NEW d \in Device, CommitWrite(d)
  PROVE  Atomic'
<1>0. TypeOK /\ Atomic /\ Rising
  BY AloneFacts
<1>1. PICK o \in Ops :
        /\ phase[o] = "pending" /\ Active(o) /\ o \in Writers \cup {SignUp}
        /\ dev[o] = d
        /\ Fields(server') = Fields(wrote[o])
        /\ Fields(wrote[o]) = IF landed[o] = 0 THEN Updated(o, server) ELSE Fields(server)
        /\ wrote[o].exists
        /\ landed' = [landed EXCEPT ![o] = IF @ = 0 THEN writes + 1 ELSE @]
        /\ taken' = [taken EXCEPT ![d] = @ + 1]
        /\ UNCHANGED <<phase, input, saw, wrote, deaf, object, comments>>
  BY CommitMakes
<1>2. \A r \in Ops \ {o} : phase'[r] \notin {"fetching", "fetched", "pending"}
  BY <1>0, <1>1, OthersRest DEF TypeOK, Active, Over
<1>3. landed'[o] > 0 /\ taken'[dev[o]] > 0
  <2>1. /\ landed'[o] = IF landed[o] = 0 THEN writes + 1 ELSE landed[o]
        /\ landed[o] \in Nat /\ writes \in Nat
    BY <1>0, <1>1 DEF TypeOK
  <2>2. taken'[d] = taken[d] + 1 /\ taken[d] \in Nat
    BY <1>0, <1>1 DEF TypeOK
  <2> QED
    BY <1>1, <2>1, <2>2
<1>4. /\ server'.image = IF landed[o] = 0 /\ o \in Images THEN input[o] ELSE server.image
      /\ server'.score = IF landed[o] = 0 /\ o \in Rates THEN input[o] ELSE server.score
  <2>1. CASE landed[o] = 0
    BY <1>1, <2>1 DEF Fields, Updated
  <2>2. CASE landed[o] # 0
    BY <1>1, <2>2, FieldsEqual
  <2> QED
    BY <2>1, <2>2
<1>5. server'.image <= object' /\ server'.score <= comments'
  BY <1>0, <1>1, <1>4 DEF Atomic, Rising
<1>6. Current(o)'
  <2>1. server'.exists
    BY <1>1, FieldsEqual
  <2>2. Fields(wrote[o])' = Fields(server)'
    BY <1>1 DEF Fields
  <2>3. ~(landed'[o] = 0) /\ phase'[o] # "fetched"
    BY <1>1, <1>3
  <2> QED
    BY <2>1, <2>2, <2>3 DEF Current
<1>7. Newest(o)'
  <2>1. Newest(o) /\ input[o] \in Nat
    BY <1>0, <1>1 DEF Atomic, TypeOK
  <2> QED
    BY <1>1, <1>4, <2>1 DEF Newest
<1>8. Writes(o)' /\ Heard(o)'
  BY <1>1, <1>3 DEF Writes, Heard
<1>9. \A r \in Ops \ {o} : Current(r)' /\ Newest(r)' /\ Writes(r)' /\ Heard(r)'
  BY <1>2 DEF Current, Newest, Writes, Heard
<1> QED
  BY <1>5, <1>6, <1>7, <1>8, <1>9 DEF Atomic

LEMMA WriteStreamAtomic ==
  ASSUME AloneInv, TypeOK', NEW d \in Device, WriteStream(d)
  PROVE  Atomic'
<1> USE DEF docVars, worldVars
<1>0. TypeOK
  BY AloneFacts
<1>1. ASSUME pending[d] # <<>>, phase[Head(pending[d])] = "pending",
             NEW outcome \in {"acked", "rejected"}, NEW over \in {"done", "failed"},
             Answered(d, Head(pending[d]), outcome, over),
             UNCHANGED <<server, landed, object, comments>>
      PROVE  Atomic'
  <2>1. PICK o \in Ops : o = Head(pending[d]) /\ Active(o)
    BY <1>0, <1>1, HeadOfPending DEF Active, Over
  <2>2. PICK p \in {"acked", "rejected", "done", "failed"} :
          phase' = [phase EXCEPT ![o] = p]
    BY <1>1, <2>1 DEF Answered
  <2>3. object' >= object /\ comments' >= comments
    BY <1>0, <1>1 DEF TypeOK
  <2>4. p \notin {"fetching", "fetched", "pending"}
    OBVIOUS
  <2> QED
    BY <1>1, <2>1, <2>2, <2>3, <2>4, OthersRest, AtomicMove
<1>2. CASE AcknowledgeBatch(d)
  BY <1>1, <1>2 DEF AcknowledgeBatch
<1>3. CASE RejectBatch(d)
  BY <1>1, <1>3 DEF RejectBatch
<1> QED
  BY <1>2, <1>3, CommitAtomic DEF WriteStream

LEMMA WorldAtomic ==
  ASSUME AloneInv, TypeOK', World, drops' = 0
  PROVE  Atomic'
<1> USE DEF docVars, clientVars, runVars
<1>0. TypeOK /\ Connected
  BY AloneFacts
<1>1. ASSUME NEW d \in Device, NetworkDown(d) \/ NetworkUp(d) PROVE Atomic'
  BY <1>0, <1>1 DEF TypeOK, NetworkDown, NetworkUp, Connected
<1>2. ASSUME NEW d \in Device, Crash(d) PROVE Atomic'
  <2>1. \A r \in Ops : phase'[r] = phase[r] \/ phase'[r] = "lost"
    BY <1>2 DEF Crash
  <2>2. object' >= object /\ comments' >= comments
    BY <1>0, <1>2 DEF Crash, TypeOK
  <2>3. ASSUME NEW r \in Ops, phase'[r] = "pending", r \notin deaf'
        PROVE  r \notin deaf /\ (taken[dev[r]] > 0 => taken'[dev[r]] > 0)
    <3>1. phase[r] = "pending"
      BY <2>1, <2>3
    <3>2. r \notin deaf /\ dev[r] # d /\ taken'[dev[r]] = taken[dev[r]]
      BY <1>0, <1>2, <2>3, <3>1, RunsAssumption DEF Crash, TypeOK
    <3> QED
      BY <3>2
  <2> QED
    BY <1>2, <2>1, <2>2, <2>3, AtomicKept DEF Crash
<1>3. CASE CustomerComments
  <2>1. object' >= object /\ comments' >= comments
    BY <1>0, <1>3 DEF CustomerComments, TypeOK
  <2> QED
    BY <1>3, <2>1, AtomicKept DEF CustomerComments
<1> QED
  BY <1>1, <1>2, <1>3 DEF World

LEMMA NextAtomic ==
  ASSUME AloneInv, TypeOK', [NextAlone]_vars, drops' = 0
  PROVE  Atomic'
<1>1. CASE UNCHANGED vars
  <2>1. object' >= object /\ comments' >= comments
    BY <1>1, AloneFacts DEF vars, worldVars, TypeOK
  <2>2. UNCHANGED <<server, landed, phase, input, saw, wrote, taken, deaf>>
    BY <1>1 DEF vars, docVars, clientVars, runVars
  <2> QED
    BY <2>1, <2>2, AtomicKept
<1>2. CASE NextAlone
  BY <1>2, BeginAtomic, RemoteAnswerAtomic, MainQueueAtomic, WriteStreamAtomic, WorldAtomic
     DEF NextAlone
<1> QED
  BY <1>1, <1>2

-----------------------------------------------------------------------------
(* Every step is one of the register's, or none. *)

RegisterStep == [Register!Next]_(Register!vars)

LEMMA StageIs ==
  /\ Stage("idle") = "idle"
  /\ \A p \in {"uploading", "linking", "scoring", "fetching", "fetched", "unfetched",
               "pending"} : Stage(p) = "open"
  /\ Stage("acked") = "accepted" /\ Stage("rejected") = "refused"
  /\ \A p \in {"refetching", "refetched", "unrefetched"} : Stage(p) = "looking"
  /\ \A p \in Over : Stage(p) = "over"
BY DEF Stage, Over

\* The stages are those before, but for one run's.
LEMMA StageMoves ==
  ASSUME TypeOK, NEW o \in Ops, NEW p, phase' = [phase EXCEPT ![o] = p]
  PROVE  [r \in Ops |-> Stage(phase[r])]' =
           [[r \in Ops |-> Stage(phase[r])] EXCEPT ![o] = Stage(p)]
<1>1. \A r \in Ops : phase'[r] = IF r = o THEN p ELSE phase[r]
  BY DEF TypeOK
<1>2. \A r \in Ops : Stage(phase'[r]) = IF r = o THEN Stage(p) ELSE Stage(phase[r])
  BY <1>1
<1> QED
  BY <1>2

\* A step that moves a run, where only its stage can be seen to change.
LEMMA RegisterMoves ==
  ASSUME TypeOK, NEW o \in Ops, NEW p, phase' = [phase EXCEPT ![o] = p],
         UNCHANGED <<server, landed, saw>>, NEW from, Stage(phase[o]) \in from
  PROVE  Register!Moves(o, from, Stage(p))
<1>1. [r \in Ops |-> Stage(phase[r])]' =
        [[r \in Ops |-> Stage(phase[r])] EXCEPT ![o] = Stage(p)]
  BY StageMoves
<1>2. [r \in Ops |-> Stage(phase[r])][o] \in from
  OBVIOUS
<1>3. UNCHANGED <<Fields(server), {r \in Ops : landed[r] > 0},
                  [r \in Ops |-> Fields(saw[r])]>>
  BY DEF Fields
<1> QED
  BY <1>1, <1>2, <1>3 DEF Register!Moves

LEMMA RegisterRests ==
  ASSUME UNCHANGED <<server, landed, phase, saw>>
  PROVE  RegisterStep
BY DEF RegisterStep, Register!vars, Fields

\* A run that moves within its stage.
LEMMA RegisterRestsIn ==
  ASSUME TypeOK, NEW o \in Ops, NEW p, phase' = [phase EXCEPT ![o] = p],
         UNCHANGED <<server, landed, saw>>, Stage(p) = Stage(phase[o])
  PROVE  RegisterStep
<1>1. [r \in Ops |-> Stage(phase[r])]' =
        [[r \in Ops |-> Stage(phase[r])] EXCEPT ![o] = Stage(p)]
  BY StageMoves
<1>2. [r \in Ops |-> Stage(phase[r])]' = [r \in Ops |-> Stage(phase[r])]
  BY <1>1
<1>3. UNCHANGED <<Fields(server), {r \in Ops : landed[r] > 0},
                  [r \in Ops |-> Fields(saw[r])]>>
  BY DEF Fields
<1> QED
  BY <1>2, <1>3 DEF RegisterStep, Register!vars

LEMMA RegisterEnds ==
  ASSUME TypeOK, NEW o \in Ops, NEW p \in Over, phase' = [phase EXCEPT ![o] = p],
         Active(o), UNCHANGED <<server, landed, saw>>
  PROVE  RegisterStep
<1>1. Stage(phase[o]) \in {"open", "accepted", "refused", "looking"}
  <2>1. phase[o] \in Phases \ (Over \cup {"idle"})
    BY DEF TypeOK, Active
  <2>2. phase[o] \in {"uploading", "linking", "scoring", "fetching", "fetched",
                      "unfetched", "pending", "acked", "rejected", "refetching",
                      "refetched", "unrefetched"}
    BY <2>1 DEF Phases, Over
  <2> QED
    BY <2>2, StageIs
<1>2. Register!Ends(o)
  BY <1>1, StageIs, RegisterMoves DEF Register!Ends
<1> QED
  BY <1>2 DEF RegisterStep, Register!Next

LEMMA BeginRegister ==
  ASSUME AloneInv, NEW o \in Ops, BeginAlone(o)
  PROVE  RegisterStep
<1> USE DEF docVars, clientVars, runVars, worldVars, uiVars
<1>1. PICK p \in {"fetching", "uploading", "scoring", "refetching"} : Start(o, p)
  BY DEF BeginAlone, Begin, HandleAddService, ChangeProfileImage, RefreshReviewData,
         GetAllSalons, FetchAndSaveProfile
<1>2. Stage(phase[o]) = "idle" /\ Stage(p) \in {"open", "looking"}
  BY <1>1, StageIs DEF Start
<1>3. Register!Moves(o, {"idle"}, Stage(p))
  BY <1>1, <1>2, RegisterMoves, AloneFacts DEF Start
<1>4. Register!Call(o)
  BY <1>2, <1>3 DEF Register!Call
<1> QED
  BY <1>4 DEF RegisterStep, Register!Next

\* A fetch reads the document in the one step in which it is answered.
LEMMA FetchRegister ==
  ASSUME AloneInv, NEW o \in Ops, FetchFromServer(o)
  PROVE  RegisterStep
<1>1. TypeOK
  BY AloneFacts
<1>2. /\ server.exists
      /\ saw' = [saw EXCEPT ![o] = server]
      /\ phase' = [phase EXCEPT ![o] = Answer(phase[o])]
      /\ UNCHANGED <<server, landed>>
  BY FetchGives
<1>3. phase[o] \in {"fetching", "refetching"}
  BY DEF FetchFromServer, Fetching
<1>4. Stage(Answer(phase[o])) = Stage(phase[o]) /\ Stage(phase[o]) \in {"open", "looking"}
  BY <1>3, StageIs DEF Answer
<1>5. [r \in Ops |-> Stage(phase[r])]' = [r \in Ops |-> Stage(phase[r])]
  <2>1. [r \in Ops |-> Stage(phase[r])]' =
          [[r \in Ops |-> Stage(phase[r])] EXCEPT ![o] = Stage(Answer(phase[o]))]
    <3>1. PICK p : p = Answer(phase[o])
      OBVIOUS
    <3>2. phase' = [phase EXCEPT ![o] = p]
      BY <1>2, <3>1
    <3>3. [r \in Ops |-> Stage(phase[r])]' =
            [[r \in Ops |-> Stage(phase[r])] EXCEPT ![o] = Stage(p)]
      BY <1>1, <3>2, StageMoves
    <3> QED
      BY <3>1, <3>3
  <2> QED
    BY <2>1, <1>4
<1>6. [r \in Ops |-> Fields(saw[r])]' =
        [[r \in Ops |-> Fields(saw[r])] EXCEPT ![o] = Fields(server)]
  <2>1. \A r \in Ops : saw'[r] = IF r = o THEN server ELSE saw[r]
    BY <1>1, <1>2 DEF TypeOK
  <2>2. \A r \in Ops : Fields(saw'[r]) = IF r = o THEN Fields(server) ELSE Fields(saw[r])
    BY <2>1
  <2> QED
    BY <2>2
<1>7. Fields(server)' = Fields(server)
      /\ {r \in Ops : landed[r] > 0}' = {r \in Ops : landed[r] > 0}
  BY <1>2 DEF Fields
<1>8. Fields(server).exists
  BY <1>2 DEF Fields
<1>9. [r \in Ops |-> Stage(phase[r])][o] \in {"open", "looking"}
  BY <1>4
<1>10. Register!Read(o)
  BY <1>5, <1>6, <1>7, <1>8, <1>9 DEF Register!Read
<1> QED
  BY <1>10 DEF RegisterStep, Register!Next

LEMMA RemoteAnswerRegister ==
  ASSUME AloneInv, NEW o \in Ops, RemoteAnswer(o)
  PROVE  RegisterStep
<1> USE DEF docVars, clientVars, runVars, worldVars
<1>0. TypeOK /\ Connected /\ dev[o] \in Device
  BY AloneFacts, RunsAssumption
<1>1. CASE PutData(o)
  <2>1. /\ phase[o] = "uploading" /\ phase' = [phase EXCEPT ![o] = "linking"]
        /\ UNCHANGED <<server, landed, saw>>
    BY <1>1 DEF PutData
  <2> QED
    BY <1>0, <2>1, StageIs, RegisterRestsIn
<1>2. CASE DownloadURL(o)
  <2>1. /\ phase[o] = "linking" /\ phase' = [phase EXCEPT ![o] = "fetching"]
        /\ UNCHANGED <<server, landed, saw>>
    BY <1>2 DEF DownloadURL
  <2> QED
    BY <1>0, <2>1, StageIs, RegisterRestsIn
<1>3. CASE UploadFails(o) \/ GetReviewsFails(o)
  <2>1. /\ Active(o) /\ phase' = [phase EXCEPT ![o] = "failed"]
        /\ UNCHANGED <<server, landed, saw>>
    BY <1>3 DEF UploadFails, GetReviewsFails, Active, Over
  <2> QED
    BY <1>0, <2>1, RegisterEnds DEF Over
<1>4. ASSUME NEW n \in 0..MaxComments, GetReviews(o, n) PROVE RegisterStep
  <2>1. phase[o] = "scoring" /\ UNCHANGED <<server, landed, saw>>
    BY <1>4 DEF GetReviews
  <2>2. CASE n > 0
    <3>1. phase' = [phase EXCEPT ![o] = "fetching"]
      BY <1>4, <2>2 DEF GetReviews
    <3> QED
      BY <1>0, <2>1, <3>1, StageIs, RegisterRestsIn
  <2>3. CASE ~(n > 0)
    <3>1. phase' = [phase EXCEPT ![o] = "done"] /\ Active(o)
      BY <1>4, <2>1, <2>3 DEF GetReviews, Active, Over
    <3> QED
      BY <1>0, <2>1, <3>1, RegisterEnds DEF Over
  <2> QED
    BY <2>2, <2>3
<1>5. CASE FetchFromServer(o)
  BY <1>5, FetchRegister
<1>6. CASE FetchFromCache(o)
  BY <1>0, <1>6 DEF FetchFromCache, Connected
<1>7. CASE FetchFails(o)
  <2>1. PICK p : /\ p = NoAnswer(phase[o])
                 /\ phase' = [phase EXCEPT ![o] = p]
                 /\ UNCHANGED <<server, landed, saw>>
    BY <1>7 DEF FetchFails
  <2>2. phase[o] \in {"fetching", "refetching"}
    BY <1>7 DEF FetchFails, Fetching
  <2>3. Stage(p) = Stage(phase[o])
    BY <2>1, <2>2, StageIs DEF NoAnswer
  <2> QED
    BY <1>0, <2>1, <2>3, RegisterRestsIn
<1> QED
  BY <1>1, <1>2, <1>3, <1>4, <1>5, <1>6, <1>7 DEF RemoteAnswer

LEMMA MainQueueRegister ==
  ASSUME AloneInv, NEW d \in Device, NEW o \in Ops, MainQueue(d, o)
  PROVE  RegisterStep
<1> USE DEF docVars, clientVars, worldVars
<1>0. TypeOK
  BY AloneFacts
<1>1. CASE UpdateUserProfile(d, o)
  <2>1. /\ phase[o] = "fetched" /\ phase' = [phase EXCEPT ![o] = "pending"]
        /\ UNCHANGED <<server, landed, saw>>
    BY <1>1 DEF UpdateUserProfile, Callback
  <2> QED
    BY <1>0, <2>1, StageIs, RegisterRestsIn
<1>2. ASSUME NEW from \in {"unfetched", "acked", "rejected", "refetched", "unrefetched"},
             NEW to \in {"failed", "done"}, Callback(d, o, from, to),
             UNCHANGED <<server, landed, saw>>
      PROVE  RegisterStep
  <2>1. /\ Active(o) /\ phase' = [phase EXCEPT ![o] = to]
        /\ to \in Over
    BY <1>2 DEF Callback, Active, Over
  <2> QED
    BY <1>0, <1>2, <2>1, RegisterEnds
<1>3. ASSUME NEW answer \in {"acked", "rejected"}, Callback(d, o, answer, "refetching"),
             UNCHANGED <<server, landed, saw>>
      PROVE  RegisterStep
  <2>1. phase[o] = answer /\ phase' = [phase EXCEPT ![o] = "refetching"]
    BY <1>3 DEF Callback
  <2>2. Stage(phase[o]) \in {"accepted", "refused"} /\ Stage("refetching") = "looking"
    BY <2>1, StageIs
  <2>3. Register!Moves(o, {"accepted", "refused"}, Stage("refetching"))
    BY <1>0, <1>3, <2>1, <2>2, RegisterMoves
  <2>4. Register!LooksAgain(o)
    BY <2>2, <2>3 DEF Register!LooksAgain
  <2> QED
    BY <2>4 DEF RegisterStep, Register!Next
<1>4. CASE ServiceWritten(d, o) \/ ImageWritten(d, o)
  BY <1>3, <1>4 DEF ServiceWritten, ImageWritten
<1>5. CASE RatingWritten(d, o)
  <2>1. PICK answer \in {"acked", "rejected"} :
          Callback(d, o, answer, IF answer = "acked" THEN "done" ELSE "failed")
    BY <1>5 DEF RatingWritten
  <2> QED
    BY <1>2, <1>5, <2>1 DEF RatingWritten
<1>6. CASE FetchFailed(d, o) \/ ImageRejected(d, o)
  BY <1>2, <1>6 DEF FetchFailed, ImageRejected
<1>7. CASE ShowServices(d, o) \/ SaveUserProfile(d, o) \/ RefetchFailed(d, o)
  BY <1>2, <1>7 DEF ShowServices, SaveUserProfile, RefetchFailed
<1> QED
  BY <1>1, <1>4, <1>5, <1>6, <1>7 DEF MainQueue

Document == [exists : BOOLEAN, image : Nat, services : SUBSET Adds, score : Nat]

LEMMA FieldsType ==
  ASSUME NEW copy \in Copy
  PROVE  Fields(copy) \in Document
BY DEF Copy, Fields, Document

\* Documents that agree on all fields but one.
LEMMA DocumentChanges ==
  ASSUME NEW f \in Document, NEW g \in Document
  PROVE  /\ g.exists = TRUE /\ g.image = f.image /\ g.services = f.services /\ g.score = f.score
              => g = [f EXCEPT !.exists = TRUE]
         /\ g.exists = f.exists /\ g.services = f.services /\ g.score = f.score
              => g = [f EXCEPT !.image = g.image]
         /\ g.exists = f.exists /\ g.image = f.image /\ g.score = f.score
              => g = [f EXCEPT !.services = g.services]
         /\ g.exists = f.exists /\ g.image = f.image /\ g.services = f.services
              => g = [f EXCEPT !.score = g.score]
BY DEF Document

\* The update of the run takes effect when its write is first applied; when it is applied
\* again nothing changes.
LEMMA CommitRegister ==
  ASSUME AloneInv, NEW d \in Device, CommitWrite(d)
  PROVE  RegisterStep
<1>0. TypeOK /\ Atomic /\ BornFirst
  BY AloneFacts
<1>1. PICK o \in Ops :
        /\ phase[o] = "pending" /\ Active(o) /\ o \in Writers \cup {SignUp}
        /\ dev[o] = d
        /\ Fields(server') = Fields(wrote[o])
        /\ Fields(wrote[o]) = IF landed[o] = 0 THEN Updated(o, server) ELSE Fields(server)
        /\ wrote[o].exists
        /\ landed' = [landed EXCEPT ![o] = IF @ = 0 THEN writes + 1 ELSE @]
        /\ taken' = [taken EXCEPT ![d] = @ + 1]
        /\ UNCHANGED <<phase, input, saw, wrote, deaf, object, comments>>
  BY CommitMakes
<1>2. landed[o] \in Nat /\ writes \in Nat /\ \A r \in Ops : landed[r] \in Nat
  BY <1>0, <1>1 DEF TypeOK
<1>3. \A r \in Ops : landed'[r] = IF r = o /\ landed[o] = 0 THEN writes + 1 ELSE landed[r]
  BY <1>0, <1>1 DEF TypeOK
<1>4. /\ [r \in Ops |-> Stage(phase[r])]' = [r \in Ops |-> Stage(phase[r])]
      /\ [r \in Ops |-> Fields(saw[r])]' = [r \in Ops |-> Fields(saw[r])]
  BY <1>1
<1>5. CASE landed[o] # 0
  <2>1. Fields(server)' = Fields(server)
    BY <1>1, <1>5 DEF Fields
  <2>2. {r \in Ops : landed[r] > 0}' = {r \in Ops : landed[r] > 0}
    BY <1>3, <1>5
  <2> QED
    BY <1>4, <2>1, <2>2 DEF RegisterStep, Register!vars
<1>6. CASE landed[o] = 0
  <2>0. /\ Fields(server) \in Document /\ Fields(server)' \in Document
        /\ Fields(server).exists = server.exists
        /\ Fields(server).image = server.image
        /\ Fields(server).services = server.services
        /\ Fields(server).score = server.score
    <3>1. server \in Copy /\ wrote[o] \in Copy
      BY <1>0, <1>1 DEF TypeOK
    <3>2. Fields(server) \in Document /\ Fields(wrote[o]) \in Document
      BY <3>1, FieldsType
    <3>3. Fields(server)' = Fields(wrote[o])
      BY <1>1 DEF Fields
    <3> QED
      BY <3>2, <3>3 DEF Fields
  <2>1. Fields(server)' = Updated(o, server)
    BY <1>1, <1>6 DEF Fields
  <2>2. /\ Fields(server)'.exists = TRUE
        /\ Fields(server)'.image = IF o \in Images THEN input[o] ELSE server.image
        /\ Fields(server)'.services =
             IF o \in Adds THEN server.services \cup {o} ELSE server.services
        /\ Fields(server)'.score = IF o \in Rates THEN input[o] ELSE server.score
    BY <2>1 DEF Updated
  <2>3. {r \in Ops : landed[r] > 0}' = {r \in Ops : landed[r] > 0} \cup {o}
    BY <1>2, <1>3, <1>6
  <2>4. o \notin {r \in Ops : landed[r] > 0}
    BY <1>6
  <2>5. [r \in Ops |-> Stage(phase[r])][o] = "open"
    BY <1>1, StageIs
  <2>6. Register!TakesEffect(o)
    BY <1>4, <2>3, <2>4, <2>5 DEF Register!TakesEffect
  <2>7. Current(o) /\ Newest(o)
    BY <1>0, <1>1 DEF Atomic
  <2>8. o # SignUp => Fields(server).exists /\ server.exists = TRUE
    <3>1. server.exists \in BOOLEAN
      BY <1>0 DEF TypeOK, Copy
    <3>2. o # SignUp => server.exists
      BY <1>1, <1>6, <2>7 DEF Current
    <3> QED
      BY <3>1, <3>2 DEF Fields
  <2>9. CASE o = SignUp
    <3>1. server = NoDoc
      BY <1>1, <1>6, <2>9, <1>0 DEF BornFirst
    <3>2. o \notin Adds /\ o \notin Images /\ o \notin Rates
      BY <2>9, RunsAssumption DEF Writers
    <3>3. ~Fields(server).exists
      BY <3>1 DEF Fields, NoDoc
    <3>4. Fields(server)' = [Fields(server) EXCEPT !.exists = TRUE]
      <4>1. /\ Fields(server)'.exists = TRUE
            /\ Fields(server)'.image = Fields(server).image
            /\ Fields(server)'.services = Fields(server).services
            /\ Fields(server)'.score = Fields(server).score
        BY <2>0, <2>2, <3>2
      <4> QED
        BY <2>0, <4>1, DocumentChanges
    <3>5. Register!Create
      BY <2>6, <2>9, <3>3, <3>4 DEF Register!Create
    <3> QED
      BY <3>5 DEF RegisterStep, Register!Next
  <2>10. CASE o \in Adds
    <3>1. o # SignUp /\ o \notin Images /\ o \notin Rates
      BY <2>10, RunsAssumption DEF Writers
    <3>2. Fields(server)' = [Fields(server) EXCEPT !.services = Fields(server).services \cup {o}]
      <4>1. /\ Fields(server)'.exists = Fields(server).exists
            /\ Fields(server)'.image = Fields(server).image
            /\ Fields(server)'.services = Fields(server).services \cup {o}
            /\ Fields(server)'.score = Fields(server).score
        BY <2>0, <2>2, <2>8, <2>10, <3>1
      <4>2. Fields(server)' = [Fields(server) EXCEPT !.services = Fields(server)'.services]
        BY <2>0, <4>1, DocumentChanges
      <4> QED
        BY <4>1, <4>2
    <3>3. Register!AddService(o)
      BY <2>6, <2>8, <2>10, <3>1, <3>2 DEF Register!AddService
    <3> QED
      BY <3>3 DEF RegisterStep, Register!Next
  <2>11. CASE o \in Images
    <3>1. o # SignUp /\ o \notin Adds /\ o \notin Rates
      BY <2>11, RunsAssumption DEF Writers
    <3>2. Fields(server)'.image = input[o]
      BY <2>1, <2>11 DEF Updated
    <3>3. Fields(server)'.image >= Fields(server).image
      <4>1. server.image <= input[o] /\ server.image \in Nat /\ input[o] \in Nat
        BY <1>0, <1>1, <2>7, <2>11 DEF Newest, TypeOK, Copy
      <4>2. Fields(server).image = server.image
        BY DEF Fields
      <4> QED
        BY <3>2, <4>1, <4>2
    <3>4. Fields(server)' = [Fields(server) EXCEPT !.image = Fields(server)'.image]
      <4>1. /\ Fields(server)'.exists = Fields(server).exists
            /\ Fields(server)'.services = Fields(server).services
            /\ Fields(server)'.score = Fields(server).score
        BY <2>0, <2>2, <2>8, <3>1
      <4> QED
        BY <2>0, <4>1, DocumentChanges
    <3>5. Register!SetPicture(o)
      BY <2>6, <2>8, <2>11, <3>1, <3>3, <3>4 DEF Register!SetPicture
    <3> QED
      BY <3>5 DEF RegisterStep, Register!Next
  <2>12. CASE o \in Rates
    <3>1. o # SignUp /\ o \notin Adds /\ o \notin Images
      BY <2>12, RunsAssumption DEF Writers
    <3>2. Fields(server)'.score = input[o]
      BY <2>1, <2>12 DEF Updated
    <3>3. Fields(server)'.score >= Fields(server).score
      <4>1. server.score <= input[o] /\ server.score \in Nat /\ input[o] \in Nat
        BY <1>0, <1>1, <2>7, <2>12 DEF Newest, TypeOK, Copy
      <4>2. Fields(server).score = server.score
        BY DEF Fields
      <4> QED
        BY <3>2, <4>1, <4>2
    <3>4. Fields(server)' = [Fields(server) EXCEPT !.score = Fields(server)'.score]
      <4>1. /\ Fields(server)'.exists = Fields(server).exists
            /\ Fields(server)'.services = Fields(server).services
            /\ Fields(server)'.image = Fields(server).image
        BY <2>0, <2>2, <2>8, <3>1
      <4> QED
        BY <2>0, <4>1, DocumentChanges
    <3>5. Register!SetRating(o)
      BY <2>6, <2>8, <2>12, <3>1, <3>3, <3>4 DEF Register!SetRating
    <3> QED
      BY <3>5 DEF RegisterStep, Register!Next
  <2> QED
    BY <1>1, <2>9, <2>10, <2>11, <2>12 DEF Writers
<1> QED
  BY <1>5, <1>6

\* The write that leaves the queue of d is the only one there.
LEMMA OnlyWrite ==
  ASSUME AloneInv, NEW d \in Device, pending[d] # <<>>
  PROVE  /\ Head(pending[d]) \in Ops
         /\ phase[Head(pending[d])] = "pending" /\ Active(Head(pending[d]))
         /\ dev[Head(pending[d])] = d
         /\ Len(pending[d]) = 1
         /\ taken[d] > 0 => landed[Head(pending[d])] > 0
<1>0. TypeOK /\ Queued /\ Serial
  BY AloneFacts
<1>1. /\ Head(pending[d]) \in Ops
      /\ Head(pending[d]) = pending[d][1]
      /\ Len(pending[d]) \in Nat \ {0}
      /\ pending[d] \in Seq(Ops)
  BY <1>0, HeadOfPending DEF TypeOK
<1>2. 1 \in 1..Len(pending[d])
  BY <1>1
<1>3. /\ phase[pending[d][1]] = "pending" /\ dev[pending[d][1]] = d
      /\ 1 <= taken[d] => landed[pending[d][1]] > 0
  <2>1. QueuedOn(d)
    BY <1>0 DEF Queued
  <2> QED
    BY <2>1, <1>2 DEF QueuedOn
<1>4. Len(pending[d]) = 1
  <2> SUFFICES ASSUME Len(pending[d]) # 1 PROVE FALSE
    OBVIOUS
  <2>1. 2 \in 1..Len(pending[d])
    <3>1. \A n \in Nat \ {0} : n # 1 => 2 \in 1..n
      OBVIOUS
    <3> QED
      BY <1>1, <3>1
  <2>2. phase[pending[d][2]] = "pending" /\ pending[d][1] # pending[d][2]
    BY <1>0, <1>2, <2>1 DEF Queued, QueuedOn
  <2>3. pending[d][1] \in Ops /\ pending[d][2] \in Ops
    BY <1>1, <1>2, <2>1, ElementOfSeq
  <2> QED
    BY <1>0, <1>3, <2>2, <2>3 DEF Serial, Active, Over
<1>5. taken[d] \in Nat
  BY <1>0 DEF TypeOK
<1> QED
  BY <1>1, <1>3, <1>4, <1>5 DEF Active, Over

\* The completion handler is told what became of the write.
LEMMA AnswerRegister ==
  ASSUME AloneInv, NEW o \in Ops, phase[o] = "pending", UNCHANGED <<server, landed, saw>>,
         NEW p \in {"acked", "rejected"}, phase' = [phase EXCEPT ![o] = p],
         p = "acked" <=> landed[o] > 0
  PROVE  RegisterStep
<1>0. TypeOK
  BY AloneFacts
<1>1. Stage(phase[o]) \in {"open"}
  BY StageIs
<1>2. Stage(p) = IF o \in {r \in Ops : landed[r] > 0} THEN "accepted" ELSE "refused"
  BY StageIs
<1>3. Register!Moves(o, {"open"}, Stage(p))
  BY <1>0, <1>1, RegisterMoves
<1>4. Register!Told(o)
  BY <1>2, <1>3 DEF Register!Told
<1> QED
  BY <1>4 DEF RegisterStep, Register!Next

LEMMA WriteStreamRegister ==
  ASSUME AloneInv, NEW d \in Device, WriteStream(d)
  PROVE  RegisterStep
<1> USE DEF docVars
<1>0. TypeOK /\ Atomic
  BY AloneFacts
<1>1. ASSUME pending[d] # <<>>, NEW outcome \in {"acked", "rejected"},
             NEW over \in {"done", "failed"}, NEW o \in Ops, o = Head(pending[d]),
             Answered(d, o, outcome, over),
             o \notin deaf => (outcome = "acked" <=> landed[o] > 0),
             UNCHANGED <<server, landed, saw>>
      PROVE  RegisterStep
  <2>1. phase[o] = "pending" /\ Active(o)
    BY <1>1, OnlyWrite
  <2>2. CASE o \in deaf
    <3>1. phase' = [phase EXCEPT ![o] = over] /\ over \in Over
      BY <1>1, <2>2 DEF Answered, Over
    <3> QED
      BY <1>0, <1>1, <2>1, <3>1, RegisterEnds
  <2>3. CASE o \notin deaf
    <3>1. phase' = [phase EXCEPT ![o] = outcome]
      BY <1>1, <2>3 DEF Answered
    <3> QED
      BY <1>1, <2>1, <2>3, <3>1, AnswerRegister
  <2> QED
    BY <2>2, <2>3
<1>2. CASE AcknowledgeBatch(d)
  <2>1. /\ pending[d] # <<>> /\ taken[d] > 0 /\ UNCHANGED <<server, landed, saw>>
        /\ Answered(d, Head(pending[d]), "acked", "done")
    BY <1>2 DEF AcknowledgeBatch
  <2>2. PICK o \in Ops : o = Head(pending[d]) /\ landed[o] > 0
    BY <2>1, OnlyWrite
  <2> QED
    BY <1>1, <2>1, <2>2
<1>3. CASE RejectBatch(d)
  <2>1. /\ pending[d] # <<>> /\ UNCHANGED <<server, landed, saw>>
        /\ taken[d] = 0 \/ taken[d] + 1 < Len(pending[d])
        /\ Answered(d, Head(pending[d]), "rejected", "failed")
    BY <1>3 DEF RejectBatch
  <2>2. PICK o \in Ops : o = Head(pending[d]) /\ phase[o] = "pending" /\ dev[o] = d
    BY <2>1, OnlyWrite
  <2>3. taken[d] = 0
    <3>1. Len(pending[d]) = 1 /\ taken[d] \in Nat
      BY <1>0, <2>1, OnlyWrite DEF TypeOK
    <3> QED
      BY <2>1, <3>1
  <2>4. o \notin deaf => ~(landed[o] > 0)
    BY <1>0, <2>2, <2>3 DEF Atomic, Heard
  <2> QED
    BY <1>1, <2>1, <2>2, <2>4
<1> QED
  BY <1>2, <1>3, CommitRegister DEF WriteStream

LEMMA WorldRegister ==
  ASSUME AloneInv, World, drops' = 0
  PROVE  RegisterStep
<1> USE DEF docVars, clientVars, runVars
<1>0. TypeOK /\ Connected
  BY AloneFacts
<1>1. ASSUME NEW d \in Device, NetworkDown(d) \/ NetworkUp(d) PROVE RegisterStep
  BY <1>0, <1>1 DEF TypeOK, NetworkDown, NetworkUp, Connected
<1>2. ASSUME NEW d \in Device, Crash(d) PROVE RegisterStep
  <2>1. /\ UNCHANGED <<server, landed, saw>>
        /\ \A r \in Ops : phase'[r] = phase[r] \/ (Active(r) /\ phase'[r] = "lost")
        /\ phase' = [r \in Ops |-> phase'[r]]
    BY <1>2 DEF Crash, Active
  <2>2. CASE \A r \in Ops : phase'[r] = phase[r]
    <3>1. phase' = phase
      BY <1>0, <2>1, <2>2 DEF TypeOK
    <3> QED
      BY <2>1, <3>1, RegisterRests
  <2>3. ASSUME NEW o \in Ops, Active(o), phase'[o] = "lost" PROVE RegisterStep
    <3>1. \A r \in Ops \ {o} : phase'[r] = phase[r]
      BY <2>1, <2>3, OthersRest
    <3>2. phase' = [phase EXCEPT ![o] = "lost"]
      BY <1>0, <2>1, <2>3, <3>1 DEF TypeOK
    <3> QED
      BY <1>0, <2>1, <2>3, <3>2, RegisterEnds DEF Over
  <2> QED
    BY <2>1, <2>2, <2>3
<1>3. CASE CustomerComments
  BY <1>3, RegisterRests DEF CustomerComments
<1> QED
  BY <1>1, <1>2, <1>3 DEF World

LEMMA NextRegister ==
  ASSUME AloneInv, [NextAlone]_vars, drops' = 0
  PROVE  RegisterStep
<1>1. CASE UNCHANGED vars
  BY <1>1, RegisterRests DEF vars, docVars, runVars
<1>2. CASE NextAlone
  BY <1>2, BeginRegister, RemoteAnswerRegister, MainQueueRegister, WriteStreamRegister,
     WorldRegister DEF NextAlone
<1> QED
  BY <1>1, <1>2

LEMMA InitRegister == Init => Register!Init
<1> SUFFICES ASSUME Init PROVE Register!Init
  OBVIOUS
<1>1. Fields(server) = Register!Missing
  BY DEF Init, Fields, NoDoc, Register!Missing
<1>2. {o \in Ops : landed[o] > 0} = {}
  BY DEF Init
<1>3. [o \in Ops |-> Stage(phase[o])] = [o \in Ops |-> IF o = SignUp THEN "open" ELSE "idle"]
  <2>1. \A o \in Ops : Stage(phase[o]) = IF o = SignUp THEN "open" ELSE "idle"
    BY StageIs DEF Init
  <2> QED
    BY <2>1
<1>4. [o \in Ops |-> Fields(saw[o])] = [o \in Ops |-> Register!Missing]
  <2>1. \A o \in Ops : Fields(saw[o]) = Register!Missing
    BY DEF Init, Fields, NoDoc, Register!Missing
  <2> QED
    BY <2>1
<1> QED
  BY <1>1, <1>2, <1>3, <1>4 DEF Register!Init

\* As long as runs do not overlap and no device loses its network, the handlers' fetch, change
\* of one field and write of the whole copy are one atomic update of one document: every fetch
\* returns the document as it is, a change touches its own field only and is made once, however
\* often its write is sent, a picture or rating never gives way to an older one, and the
\* completion handler learns whether the change was made (AppDataManager.swift:101-116,
\* 133-143, 223-242, AddServicesVC.swift:41-60).
THEOREM PatienceMakesAtomic == SpecAlone /\ [](drops = 0) => ActsAtomically
<1>1. Init => PInv /\ Born /\ Atomic
  BY InitPInv, InitBorn, InitAtomic
<1>2. PInv /\ Born /\ Atomic /\ [NextAlone]_vars /\ drops = 0 /\ (drops = 0)' =>
        PInv' /\ Born' /\ Atomic'
  <2> SUFFICES ASSUME PInv, Born, Atomic, [NextAlone]_vars, drops = 0, (drops = 0)'
               PROVE  PInv' /\ Born' /\ Atomic'
    OBVIOUS
  <2>1. [Next]_vars
    BY DEF NextAlone, BeginAlone, Next
  <2>2. PInv' /\ Born'
    BY <2>1, NextPInv, NextBorn
  <2>3. TypeOK'
    BY <2>2 DEF Born, IInv
  <2>4. AloneInv /\ drops' = 0
    BY DEF AloneInv
  <2> QED
    BY <2>2, <2>3, <2>4, NextAtomic
<1>3. PInv /\ Born /\ Atomic /\ [NextAlone]_vars /\ drops = 0 /\ (drops = 0)' =>
        [Register!Next]_(Register!vars)
  BY NextRegister DEF AloneInv, RegisterStep
<1> QED
  BY <1>1, <1>2, <1>3, InitRegister, PTL DEF SpecAlone, ActsAtomically, Register!Spec
=============================================================================
