------------------------- MODULE SalonScreenProofs -------------------------
(***************************************************************************)
(* Proofs about what SalonDoc shows the owner, for every set of devices,   *)
(* every number of runs of every kind and every bound: an accepted change  *)
(* is in the answer its screen shows, and the menu never goes back.        *)
(*                                                                         *)
(* Three layers of invariants, each inductive with those before it: in     *)
(* which order a device's writes land and what its cache has caught up     *)
(* with (Line), what each device can know (Aware), and that the answers    *)
(* waiting on a main queue get no older (InTurn).                          *)
(***************************************************************************)
EXTENDS SalonDocProofs

-----------------------------------------------------------------------------
(* What the client's overlay shows. *)

\* The services are those of the last queued write that has any, or the copy's; with
\* sign-up's overwriting write in the queue nothing of the copy shows.
LEMMA OverlayServices ==
  ASSUME TypeOK, NEW d \in Device, NEW copy \in Copy, pending[d] # <<>>
  PROVE  \/ \E s \in 1..Len(pending[d]) :
              /\ wrote[pending[d][s]].services # {}
              /\ \A k \in 1..Len(pending[d]) : wrote[pending[d][k]].services # {} => k <= s
              /\ Overlay(d, copy).services = wrote[pending[d][s]].services
         \/ /\ \A k \in 1..Len(pending[d]) : wrote[pending[d][k]].services = {}
            /\ Overlay(d, copy).services
                 = IF Contains(pending[d], SignUp) THEN {} ELSE copy.services
<1> DEFINE q == pending[d]
           base == IF Contains(q, SignUp) THEN NoDoc ELSE copy
           S == {k \in 1..Len(q) : wrote[q[k]].services # {}}
<1>1. Len(q) \in Nat
  BY LenProperties DEF TypeOK
<1>2. Overlay(d, copy).services
        = IF (IF S # {} THEN Max(S) ELSE 0) = 0 THEN base.services
          ELSE wrote[q[IF S # {} THEN Max(S) ELSE 0]].services
  BY DEF Overlay, SelectLastInSeq
<1>3. CASE S = {}
  BY <1>2, <1>3 DEF NoDoc
<1>4. CASE S # {}
  <2>1. S \in SUBSET (1..Len(q))
    OBVIOUS
  <2>2. Max(S) \in S /\ \A j \in S : j <= Max(S)
    <3> HIDE DEF S, q
    <3> QED
      BY <1>1, <1>4, <2>1, MaxIndex
  <2>3. Max(S) # 0
    BY <2>2, <1>1
  <2>4. Overlay(d, copy).services = wrote[q[Max(S)]].services
    BY <1>2, <1>4, <2>3
  <2> QED
    BY <2>2, <2>4
<1> QED
  BY <1>3, <1>4

LEMMA OverlayImage ==
  ASSUME TypeOK, NEW d \in Device, NEW copy \in Copy, pending[d] # <<>>
  PROVE  \/ \E s \in 1..Len(pending[d]) :
              /\ wrote[pending[d][s]].image # 0
              /\ Overlay(d, copy).image = wrote[pending[d][s]].image
         \/ Overlay(d, copy).image = IF Contains(pending[d], SignUp) THEN 0 ELSE copy.image
<1> DEFINE q == pending[d]
           base == IF Contains(q, SignUp) THEN NoDoc ELSE copy
           I == {k \in 1..Len(q) : wrote[q[k]].image # 0}
<1>1. Len(q) \in Nat
  BY LenProperties DEF TypeOK
<1>2. Overlay(d, copy).image
        = IF (IF I # {} THEN Max(I) ELSE 0) = 0 THEN base.image
          ELSE wrote[q[IF I # {} THEN Max(I) ELSE 0]].image
  BY DEF Overlay, SelectLastInSeq
<1>3. CASE I = {}
  BY <1>2, <1>3 DEF NoDoc
<1>4. CASE I # {}
  <2>1. I \in SUBSET (1..Len(q))
    OBVIOUS
  <2>2. Max(I) \in I
    <3> HIDE DEF I, q
    <3> QED
      BY <1>1, <1>4, <2>1, MaxIndex
  <2>3. Max(I) # 0
    BY <2>2, <1>1
  <2>4. Overlay(d, copy).image = wrote[q[Max(I)]].image
    BY <1>2, <1>4, <2>3
  <2> QED
    BY <2>2, <2>4
<1> QED
  BY <1>3, <1>4

-----------------------------------------------------------------------------
(* The order in which a device's writes land, and what its cache has caught up with. *)

\* Whatever is written back is a document.
Existing ==
  /\ \A o \in Ops : landed[o] > 0 \/ phase[o] = "pending" => wrote[o].exists
  /\ \A o \in Ops : phase[o] = "fetched" => saw[o].exists

\* Every application of a write has a place of its own, the first of a write comes first.
Placed ==
  /\ \A o \in Ops, w \in Ops : o # w /\ landed[o] > 0 => landed[o] # last[w]
  /\ \A o \in Ops : landed[o] <= last[o]

\* A run that waits for the answer to its write has it in its device's queue.
InLine ==
  \A o \in Ops : phase[o] = "pending" =>
    \E k \in 1..Len(pending[dev[o]]) : pending[dev[o]][k] = o

\* While sign-up's write waits it heads its device's queue, and all that the device has
\* written waits behind it.
Leads ==
  phase[SignUp] = "pending" =>
    /\ Len(pending[dev[SignUp]]) > 0
    /\ pending[dev[SignUp]][1] = SignUp
    /\ \A o \in Ops : dev[o] = dev[SignUp] /\ wrote[o].exists => phase[o] = "pending"

\* The writes in a queue land in its order, behind those the queue held before.
LandsInTurn(d) ==
  /\ \A j, k \in 1..Len(pending[d]) :
       j < k /\ landed[pending[d][k]] > 0 =>
         landed[pending[d][j]] > 0 /\ landed[pending[d][j]] < landed[pending[d][k]]
  /\ \A o \in Ops : \A k \in 1..Len(pending[d]) :
       /\ dev[o] = d /\ landed[o] > 0 /\ phase[o] # "pending"
       /\ landed[pending[d][k]] > 0
       => landed[o] < landed[pending[d][k]]

\* The cached copy knows of every write up to its version that was not overwritten.
CaughtUp(d) ==
  /\ version[d] <= writes
  /\ \A o \in Ops : landed[o] > 0 /\ landed[o] <= version[d] =>
                      o \in cache[d].seen \/ Overwritten(o)

\* Once it has heard that a write was accepted, the client's cache is as new as the write.
Told ==
  \A o \in Ops : landed[o] > 0 /\ phase[o] # "pending" /\ o \notin denied =>
                   landed[o] <= version[dev[o]]

Line ==
  /\ IInv /\ Queued
  /\ Existing /\ Placed /\ InLine /\ Leads /\ Told
  /\ \A d \in Device : LandsInTurn(d) /\ CaughtUp(d)

-----------------------------------------------------------------------------
(* What the steps do to the queues: they leave them alone, append a write, apply one or *)
(* take the first one out.                                                              *)

\* A step that writes nothing; a cached copy may have become the server's.
Quiet ==
  /\ UNCHANGED <<server, writes, landed, last, pending, denied, wrote>>
  /\ \A r \in Ops : phase'[r] = "pending" <=> phase[r] = "pending"
  /\ \A r \in Written : r \in Written' /\ input'[r] = input[r]
  /\ \A d \in Device : \/ cache'[d] = cache[d] /\ version'[d] = version[d]
                       \/ cache'[d] = server /\ version'[d] = writes
  /\ \A r \in Ops : phase'[r] = "fetched" => saw'[r].exists

\* The first write leaves the queue of d.
Removes(d) ==
  /\ pending[d] # <<>>
  /\ \A k \in 1..Len(pending'[d]) : /\ pending'[d][k] = pending[d][k + 1]
                                    /\ k + 1 \in 1..Len(pending[d])
  /\ Len(pending'[d]) + 1 = Len(pending[d])
  /\ Len(pending'[d]) \in Nat
  /\ \A e \in Device \ {d} : pending'[e] = pending[e]
  /\ Head(pending[d]) = pending[d][1] /\ 1 \in 1..Len(pending[d])
  /\ pending[d][1] \in Ops
  /\ phase'[pending[d][1]] \in {"acked", "done", "rejected", "failed"}
  /\ \A r \in Ops \ {pending[d][1]} : phase'[r] = phase[r]
  /\ UNCHANGED <<server, writes, landed, last, saw, wrote, input>>

\* A write of run o joins the queue of d.
Appends(d, o) ==
  /\ dev[o] = d /\ phase[o] = "fetched" /\ phase'[o] = "pending"
  /\ o \notin Written
  /\ Len(pending[d]) \in Nat
  /\ Len(pending'[d]) = Len(pending[d]) + 1
  /\ pending'[d][Len(pending[d]) + 1] = o
  /\ \A k \in 1..Len(pending[d]) : pending'[d][k] = pending[d][k]
  /\ \A e \in Device \ {d} : pending'[e] = pending[e]
  /\ \A e \in Device : \A k \in 1..Len(pending[e]) : pending[e][k] \in Ops \ {o}
  /\ \A r \in Ops \ {o} : phase'[r] = phase[r] /\ wrote'[r] = wrote[r]
  /\ wrote'[o] = Revised(o)
  /\ UNCHANGED <<server, writes, landed, last, cache, version, denied, saw, input, menu>>

\* The server applies the write of run o, the k-th in the queue of d.
Applies(d, o, k) ==
  /\ k \in 1..Len(pending[d]) /\ o = pending[d][k] /\ o \in Ops
  /\ k = taken[d] + 1 /\ taken[d] \in Nat
  /\ phase[o] = "pending" /\ dev[o] = d
  /\ landed'[o] = IF landed[o] = 0 THEN writes + 1 ELSE landed[o]
  /\ last'[o] = writes + 1
  /\ writes' = writes + 1
  /\ \A r \in Ops \ {o} : landed'[r] = landed[r] /\ last'[r] = last[r]
  /\ server'.services = Apply(server, o).services
  /\ UNCHANGED <<cache, version, pending, denied, phase, wrote, saw, input, menu>>

LEMMA UpdateAppends ==
  ASSUME IInv, Queued, NEW d \in Device, NEW o \in Ops, UpdateUserProfile(d, o)
  PROVE  Appends(d, o)
<1> USE DEF docVars, uiVars
<1>0. TypeOK
  BY DEF IInv
<1>1. /\ mainQ[d] # <<>> /\ o = Head(mainQ[d]) /\ phase[o] = "fetched"
      /\ phase' = [phase EXCEPT ![o] = "pending"]
      /\ wrote' = [wrote EXCEPT ![o] = Revised(o)]
      /\ pending' = [pending EXCEPT ![d] = Append(@, o)]
      /\ UNCHANGED <<server, writes, landed, last, cache, version, denied, saw, input, menu>>
  BY DEF UpdateUserProfile, Callback
<1>2. dev[o] = d
  <2>1. o = mainQ[d][1] /\ 1 \in 1..Len(mainQ[d])
    BY <1>0, <1>1, HeadTailProperties, EmptySeq, LenProperties DEF TypeOK
  <2> QED
    BY <2>1 DEF Queued, Calling
<1>3. phase'[o] = "pending" /\ o \notin Written
  BY <1>0, <1>1 DEF TypeOK, Written, WrittenPhases
<1>4. /\ Len(pending[d]) \in Nat
      /\ Len(pending'[d]) = Len(pending[d]) + 1
      /\ pending'[d][Len(pending[d]) + 1] = o
      /\ \A k \in 1..Len(pending[d]) : pending'[d][k] = pending[d][k]
      /\ \A e \in Device \ {d} : pending'[e] = pending[e]
  <2>1. pending[d] \in Seq(Ops) /\ pending'[d] = Append(pending[d], o)
    BY <1>0, <1>1 DEF TypeOK
  <2> QED
    BY <1>0, <1>1, <2>1, AppendProperties, LenProperties DEF TypeOK
<1>5. ASSUME NEW e \in Device, NEW k \in 1..Len(pending[e])
      PROVE  pending[e][k] \in Ops \ {o}
  <2>1. pending[e] \in Seq(Ops)
    BY <1>0 DEF TypeOK
  <2>2. pending[e][k] \in Ops
    BY <2>1, ElementOfSeq
  <2>3. phase[pending[e][k]] = "pending"
    BY DEF Queued, QueuedOn
  <2> QED
    BY <2>2, <2>3, <1>1
<1>6. \A r \in Ops \ {o} : phase'[r] = phase[r] /\ wrote'[r] = wrote[r]
  BY <1>0, <1>1 DEF TypeOK
<1>7. wrote'[o] = Revised(o)
  BY <1>0, <1>1 DEF TypeOK
<1> QED
  BY <1>1, <1>2, <1>3, <1>4, <1>5, <1>6, <1>7 DEF Appends

LEMMA CommitOf ==
  ASSUME IInv, Queued, NEW d \in Device, CommitWrite(d)
  PROVE  Applies(d, pending[d][taken[d] + 1], taken[d] + 1)
<1> USE DEF runVars, uiVars
<1> DEFINE k == taken[d] + 1
           o == pending[d][k]
<1>0. TypeOK
  BY DEF IInv
<1>1. k \in 1..Len(pending[d]) /\ o \in Ops /\ taken[d] \in Nat
  BY <1>0, NextToTake DEF TypeOK
<1>2. /\ phase[o] = "pending"
      /\ server' = [Apply(server, o) EXCEPT !.seen = server.seen \cup {o}]
      /\ landed' = [landed EXCEPT ![o] = IF @ = 0 THEN writes + 1 ELSE @]
      /\ last' = [last EXCEPT ![o] = writes + 1]
      /\ writes' = writes + 1
      /\ UNCHANGED <<cache, version, pending, denied, phase, wrote, saw, input, menu>>
  BY DEF CommitWrite
<1>3. dev[o] = d
  BY <1>1 DEF Queued, QueuedOn
<1>4. landed \in [Ops -> Nat] /\ last \in [Ops -> Nat]
  BY <1>0 DEF TypeOK
<1> HIDE DEF o, k
<1>5. server'.services = Apply(server, o).services
  <2>1. Apply(server, o) \in Copy
    BY <1>0, <1>1, ApplyType DEF TypeOK
  <2> QED
    BY <1>2, <2>1 DEF Copy
<1>6. /\ landed'[o] = IF landed[o] = 0 THEN writes + 1 ELSE landed[o]
      /\ last'[o] = writes + 1
      /\ \A r \in Ops \ {o} : landed'[r] = landed[r] /\ last'[r] = last[r]
  BY <1>1, <1>2, <1>4
<1> QED
  BY <1>1, <1>2, <1>3, <1>5, <1>6 DEF Applies, o, k

LEMMA AnswerRemoves ==
  ASSUME IInv, Queued, NEW d \in Device, AcknowledgeBatch(d) \/ RejectBatch(d)
  PROVE  /\ Removes(d)
         /\ UNCHANGED menu
         /\ denied' = IF RejectBatch(d) THEN denied \cup {pending[d][1]} ELSE denied
<1> USE DEF docVars, uiVars
<1>0. TypeOK
  BY DEF IInv
<1> DEFINE o == Head(pending[d])
<1>1. /\ pending[d] # <<>>
      /\ pending' = [pending EXCEPT ![d] = Tail(@)]
      /\ \E p \in {"acked", "done", "rejected", "failed"} : phase' = [phase EXCEPT ![o] = p]
      /\ UNCHANGED <<server, writes, landed, last, saw, wrote, input, menu>>
  BY DEF AcknowledgeBatch, RejectBatch, Answered
<1>2. /\ o \in Ops
      /\ Len(pending[d]) \in Nat \ {0}
      /\ o = pending[d][1]
      /\ Len(Tail(pending[d])) = Len(pending[d]) - 1
      /\ \A k \in 1..Len(Tail(pending[d])) : Tail(pending[d])[k] = pending[d][k + 1]
  BY <1>0, <1>1, HeadOfPending
<1>3. /\ pending'[d] = Tail(pending[d])
      /\ \A e \in Device \ {d} : pending'[e] = pending[e]
  BY <1>0, <1>1 DEF TypeOK
<1>4. /\ phase'[o] \in {"acked", "done", "rejected", "failed"}
      /\ \A r \in Ops \ {o} : phase'[r] = phase[r]
  BY <1>0, <1>1, <1>2 DEF TypeOK
<1> HIDE DEF o
<1>5. 1 \in 1..Len(pending[d]) /\ Len(Tail(pending[d])) \in Nat
      /\ Len(Tail(pending[d])) + 1 = Len(pending[d])
      /\ \A k \in 1..Len(Tail(pending[d])) : k + 1 \in 1..Len(pending[d])
  BY <1>2
<1>6. Removes(d)
  BY <1>1, <1>2, <1>3, <1>4, <1>5 DEF Removes, o
<1>7. denied' = IF RejectBatch(d) THEN denied \cup {pending[d][1]} ELSE denied
  BY <1>2 DEF AcknowledgeBatch, RejectBatch, o
<1> QED
  BY <1>1, <1>6, <1>7

\* One run moves on without having or getting a write in a queue.
LEMMA QuietMove ==
  ASSUME Line, NEW o \in Ops, NEW p,
         phase' = [phase EXCEPT ![o] = p],
         phase[o] # "pending", p # "pending",
         phase[o] \in WrittenPhases => p \in WrittenPhases,
         UNCHANGED <<server, writes, landed, last, pending, denied, wrote>>,
         \/ input' = input
         \/ \E n : phase[o] \notin WrittenPhases /\ input' = [input EXCEPT ![o] = n],
         \A d \in Device : \/ cache'[d] = cache[d] /\ version'[d] = version[d]
                           \/ cache'[d] = server /\ version'[d] = writes,
         \/ saw' = saw /\ p # "fetched"
         \/ \E copy : copy.exists /\ saw' = [saw EXCEPT ![o] = copy]
  PROVE  Quiet
<1>0. TypeOK
  BY DEF Line, IInv
<1>1. \A r \in Ops : phase'[r] = IF r = o THEN p ELSE phase[r]
  BY <1>0 DEF TypeOK
<1>2. \A r \in Written : r \in Written' /\ input'[r] = input[r]
  BY <1>0, <1>1 DEF Written, TypeOK
<1>3. ASSUME NEW r \in Ops, phase'[r] = "fetched" PROVE saw'[r].exists
  <2>1. CASE r = o
    BY <2>1, <1>0, <1>1, <1>3 DEF TypeOK
  <2>2. CASE r # o
    <3>1. saw[r].exists /\ saw'[r] = saw[r]
      BY <2>2, <1>0, <1>1, <1>3 DEF TypeOK, Line, Existing
    <3> QED
      BY <3>1
  <2> QED
    BY <2>1, <2>2
<1> QED
  BY <1>1, <1>2, <1>3 DEF Quiet

LEMMA BeginQuietly ==
  ASSUME Line, NEW o \in Ops, Begin(o)
  PROVE  Quiet
<1>1. ASSUME NEW p \in {"fetching", "uploading", "scoring", "refetching"}, Start(o, p)
      PROVE  Quiet
  BY <1>1, QuietMove DEF Start, docVars, clientVars, WrittenPhases
<1> QED
  BY <1>1 DEF Begin, HandleAddService, ChangeProfileImage, RefreshReviewData,
              GetAllSalons, FetchAndSaveProfile

LEMMA RemoteAnswerQuietly ==
  ASSUME Line, NEW o \in Ops, RemoteAnswer(o)
  PROVE  Quiet
<1> USE DEF docVars, clientVars, WrittenPhases
<1>0. TypeOK /\ dev[o] \in Device
  BY RunsAssumption DEF Line, IInv
<1>1. CASE PutData(o)
  BY <1>1, QuietMove DEF PutData
<1>2. CASE DownloadURL(o)
  BY <1>2, QuietMove DEF DownloadURL
<1>3. CASE UploadFails(o)
  BY <1>3, QuietMove DEF UploadFails
<1>4. ASSUME NEW n \in 0..MaxComments, GetReviews(o, n) PROVE Quiet
  BY <1>4, QuietMove DEF GetReviews
<1>5. CASE GetReviewsFails(o)
  BY <1>5, QuietMove DEF GetReviewsFails
<1>6. CASE FetchFromServer(o)
  <2>1. \A d \in Device : \/ cache'[d] = cache[d] /\ version'[d] = version[d]
                          \/ cache'[d] = server /\ version'[d] = writes
    BY <1>0, <1>6 DEF FetchFromServer, TypeOK
  <2>2. phase' = [phase EXCEPT ![o] = Answer(phase[o])] /\ phase[o] \in Fetching
    BY <1>6 DEF FetchFromServer
  <2>3. /\ phase[o] # "pending" /\ Answer(phase[o]) # "pending"
        /\ phase[o] \in WrittenPhases => Answer(phase[o]) \in WrittenPhases
    BY <2>2 DEF Fetching, Answer
  <2> QED
    BY <1>6, <2>1, <2>2, <2>3, QuietMove DEF FetchFromServer
<1>7. CASE FetchFromCache(o)
  <2>1. phase' = [phase EXCEPT ![o] = Answer(phase[o])] /\ phase[o] \in Fetching
    BY <1>7 DEF FetchFromCache
  <2>2. /\ phase[o] # "pending" /\ Answer(phase[o]) # "pending"
        /\ phase[o] \in WrittenPhases => Answer(phase[o]) \in WrittenPhases
    BY <2>1 DEF Fetching, Answer
  <2> QED
    BY <1>7, <2>1, <2>2, QuietMove DEF FetchFromCache
<1>8. CASE FetchFails(o)
  <2>1. phase' = [phase EXCEPT ![o] = NoAnswer(phase[o])] /\ phase[o] \in Fetching
    BY <1>8 DEF FetchFails
  <2>2. /\ phase[o] # "pending" /\ NoAnswer(phase[o]) \notin {"pending", "fetched"}
        /\ phase[o] \in WrittenPhases => NoAnswer(phase[o]) \in WrittenPhases
    BY <2>1 DEF Fetching, NoAnswer
  <2> QED
    BY <1>8, <2>1, <2>2, QuietMove DEF FetchFails
<1> QED
  BY <1>1, <1>2, <1>3, <1>4, <1>5, <1>6, <1>7, <1>8 DEF RemoteAnswer

LEMMA MainQueueQuietly ==
  ASSUME Line, NEW d \in Device, NEW o \in Ops, MainQueue(d, o), ~UpdateUserProfile(d, o)
  PROVE  Quiet
<1> USE DEF docVars, clientVars, WrittenPhases, Callback
<1>1. CASE FetchFailed(d, o)
  BY <1>1, QuietMove DEF FetchFailed
<1>2. CASE ServiceWritten(d, o)
  BY <1>2, QuietMove DEF ServiceWritten
<1>3. CASE ImageWritten(d, o)
  BY <1>3, QuietMove DEF ImageWritten
<1>4. CASE ImageRejected(d, o)
  BY <1>4, QuietMove DEF ImageRejected
<1>5. CASE RatingWritten(d, o)
  BY <1>5, QuietMove DEF RatingWritten
<1>6. CASE ShowServices(d, o)
  BY <1>6, QuietMove DEF ShowServices
<1>7. CASE SaveUserProfile(d, o)
  BY <1>7, QuietMove DEF SaveUserProfile
<1>8. CASE RefetchFailed(d, o)
  BY <1>8, QuietMove DEF RefetchFailed
<1> QED
  BY <1>1, <1>2, <1>3, <1>4, <1>5, <1>6, <1>7, <1>8 DEF MainQueue

\* Every step is of one of four kinds.
LEMMA Kinds ==
  ASSUME Line, [Next]_vars
  PROVE  \/ Quiet
         \/ \E d \in Device, o \in Ops : Appends(d, o)
         \/ \E d \in Device, o \in Ops : \E k \in Nat : Applies(d, o, k)
         \/ \E d \in Device : AcknowledgeBatch(d) \/ RejectBatch(d)
<1> USE DEF docVars, clientVars, runVars
<1>0. IInv /\ Queued
  BY DEF Line
<1>1. CASE World \/ UNCHANGED vars
  <2>1. UNCHANGED <<server, writes, landed, last, cache, version, pending, denied,
                    saw, wrote, input>>
    BY <1>1 DEF World, NetworkDown, NetworkUp, Crash, CustomerComments, vars
  <2>2. \A r \in Ops : phase'[r] = phase[r] \/ (phase'[r] = "lost" /\ phase[r] # "pending")
    BY <1>1 DEF World, NetworkDown, NetworkUp, Crash, CustomerComments, vars
  <2>3. \A r \in Written : r \in Written'
    BY <2>2 DEF Written, WrittenPhases
  <2> QED
    BY <2>1, <2>2, <2>3 DEF Quiet, Line, Existing
<1>2. ASSUME NEW o \in Ops, Begin(o) \/ RemoteAnswer(o) PROVE Quiet
  BY <1>2, BeginQuietly, RemoteAnswerQuietly
<1>3. ASSUME NEW d \in Device, NEW o \in Ops, MainQueue(d, o)
      PROVE  Quiet \/ Appends(d, o)
  BY <1>0, <1>3, MainQueueQuietly, UpdateAppends
<1>4. ASSUME NEW d \in Device, CommitWrite(d)
      PROVE  \E o \in Ops : \E k \in Nat : Applies(d, o, k)
  <2>1. Applies(d, pending[d][taken[d] + 1], taken[d] + 1)
    BY <1>0, <1>4, CommitOf
  <2>2. pending[d][taken[d] + 1] \in Ops /\ taken[d] + 1 \in Nat
    BY <2>1 DEF Applies
  <2> QED
    BY <2>1, <2>2
<1> QED
  BY <1>1, <1>2, <1>3, <1>4 DEF Next, WriteStream

\* Numbers are numbers, and a queue holds its device's runs that wait for an answer.
LEMMA LineFacts ==
  ASSUME Line
  PROVE  /\ landed \in [Ops -> Nat] /\ last \in [Ops -> Nat]
         /\ version \in [Device -> Nat] /\ writes \in Nat
         /\ phase \in [Ops -> Phases]
         /\ SignUp \in Ops /\ dev[SignUp] \in Device /\ phase[SignUp] \in WrittenPhases
         /\ \A o \in Ops : dev[o] \in Device
         /\ \A o \in Ops : landed[o] <= writes /\ last[o] <= writes
         /\ \A d \in Device :
              /\ Len(pending[d]) \in Nat
              /\ \A k \in 1..Len(pending[d]) :
                   /\ pending[d][k] \in Ops /\ dev[pending[d][k]] = d
                   /\ phase[pending[d][k]] = "pending"
              /\ \A j, k \in 1..Len(pending[d]) : j # k => pending[d][j] # pending[d][k]
<1>1. TypeOK /\ Queued /\ Landing /\ Writing
  BY DEF Line, IInv
<1>2. \A d \in Device : pending[d] \in Seq(Ops)
  BY <1>1 DEF TypeOK
<1>3. \A d \in Device : Len(pending[d]) \in Nat /\ \A k \in 1..Len(pending[d]) : pending[d][k] \in Ops
  BY <1>2, ElementOfSeq, LenProperties
<1>4. landed \in [Ops -> Nat] /\ writes \in Nat
  BY <1>1 DEF TypeOK
<1>5. \A o \in Ops : landed[o] <= writes /\ last[o] <= writes
  BY <1>1, <1>4 DEF Landing
<1> QED
  BY <1>1, <1>3, <1>5, RunsAssumption DEF TypeOK, Queued, QueuedOn, Writing, Written

-----------------------------------------------------------------------------
(* What every step does to the order. *)

Progress ==
  /\ Onward
  /\ denied \subseteq denied'
  /\ \A w \in Ops : landed[w] = 0 /\ landed'[w] > 0 =>
       /\ phase[w] = "pending" /\ last'[w] > writes /\ landed'[w] > writes
       /\ \A o \in Ops \ {w} : landed'[o] = landed[o]
  /\ \A a \in Written : phase'[a] = "pending" => phase[a] = "pending"
  /\ \A d \in Device : \A j, k \in 1..Len(pending[d]) :
       j < k /\ phase'[pending[d][j]] = "pending" =>
         \E i, l \in 1..Len(pending'[d]) :
           /\ i < l
           /\ pending'[d][i] = pending[d][j]
           /\ pending'[d][l] = pending[d][k]

LEMMA QuietProgress ==
  ASSUME Line, Quiet
  PROVE  Progress
<1>1. Onward
  BY LineFacts DEF Onward, Quiet, Written
<1>2. \A w \in Ops : ~ (landed[w] = 0 /\ landed'[w] > 0)
  BY LineFacts DEF Quiet
<1> QED
  BY <1>1, <1>2 DEF Progress, Quiet, Written

LEMMA AppendsProgress ==
  ASSUME Line, NEW d \in Device, NEW o \in Ops, Appends(d, o)
  PROVE  Progress
<1>1. Onward
  <2>1. ASSUME NEW r \in Written PROVE r \in Written' /\ input'[r] = input[r] /\ wrote'[r] = wrote[r]
    BY DEF Appends, Written
  <2> QED
    BY <2>1, LineFacts DEF Onward, Appends
<1>2. \A w \in Ops : ~ (landed[w] = 0 /\ landed'[w] > 0)
  BY LineFacts DEF Appends
<1>3. ASSUME NEW e \in Device, NEW j \in 1..Len(pending[e]), NEW k \in 1..Len(pending[e]), j < k
      PROVE  \E i, l \in 1..Len(pending'[e]) :
               i < l /\ pending'[e][i] = pending[e][j] /\ pending'[e][l] = pending[e][k]
  <2>1. j \in 1..Len(pending'[e]) /\ k \in 1..Len(pending'[e])
    BY DEF Appends
  <2>2. pending'[e][j] = pending[e][j] /\ pending'[e][k] = pending[e][k]
    BY DEF Appends
  <2> QED
    BY <1>3, <2>1, <2>2
<1>4. \A a \in Written : phase'[a] = "pending" => phase[a] = "pending"
  BY DEF Appends, Written
<1> QED
  BY <1>1, <1>2, <1>3, <1>4 DEF Progress, Appends

LEMMA AppliesProgress ==
  ASSUME Line, NEW d \in Device, NEW o \in Ops, NEW n \in Nat, Applies(d, o, n)
  PROVE  Progress
<1>0. /\ landed \in [Ops -> Nat] /\ last \in [Ops -> Nat] /\ writes \in Nat
      /\ last[o] <= writes
  BY LineFacts
<1>1. Onward
  <2>0. /\ landed'[o] = (IF landed[o] = 0 THEN writes + 1 ELSE landed[o])
        /\ last'[o] = writes + 1
        /\ \A r \in Ops \ {o} : landed'[r] = landed[r] /\ last'[r] = last[r]
    BY DEF Applies
  <2>1. \A r \in Ops : landed[r] > 0 => landed'[r] = landed[r]
    BY <2>0
  <2>2. ASSUME NEW r \in Ops PROVE last'[r] >= last[r]
    <3>1. CASE r = o
      BY <1>0, <2>0, <3>1
    <3>2. CASE r # o
      BY <1>0, <2>0, <3>2
    <3> QED
      BY <3>1, <3>2
  <2> QED
    BY <2>1, <2>2 DEF Onward, Applies, Written
<1>2. ASSUME NEW w \in Ops, landed[w] = 0, landed'[w] > 0
      PROVE  /\ phase[w] = "pending" /\ last'[w] > writes /\ landed'[w] > writes
             /\ \A r \in Ops \ {w} : landed'[r] = landed[r]
  <2>1. w = o
    BY <1>2 DEF Applies
  <2> QED
    BY <1>2, <2>1, LineFacts DEF Applies
<1> QED
  BY <1>1, <1>2 DEF Progress, Applies

LEMMA RemovesProgress ==
  ASSUME Line, NEW d \in Device, Removes(d), denied \subseteq denied'
  PROVE  Progress
<1>1. Onward
  <2>1. \A r \in Ops : phase[r] \in WrittenPhases => phase'[r] \in WrittenPhases
    BY DEF Removes, WrittenPhases
  <2> QED
    BY <2>1, LineFacts DEF Onward, Removes, Written
<1>2. \A w \in Ops : ~ (landed[w] = 0 /\ landed'[w] > 0)
  BY LineFacts DEF Removes
<1>3. ASSUME NEW e \in Device, NEW j \in 1..Len(pending[e]), NEW k \in 1..Len(pending[e]), j < k,
             phase'[pending[e][j]] = "pending"
      PROVE  \E i, l \in 1..Len(pending'[e]) :
               i < l /\ pending'[e][i] = pending[e][j] /\ pending'[e][l] = pending[e][k]
  <2>1. CASE e # d
    <3>1. pending'[e] = pending[e]
      BY <2>1 DEF Removes
    <3> QED
      BY <1>3, <3>1
  <2>2. CASE e = d
    <3>1. j # 1
      BY <1>3, <2>2 DEF Removes
    <3>2. j - 1 \in 1..Len(pending'[d]) /\ k - 1 \in 1..Len(pending'[d]) /\ j - 1 < k - 1
      BY <1>3, <2>2, <3>1, LineFacts DEF Removes
    <3>3. pending'[d][j - 1] = pending[d][(j - 1) + 1] /\ pending'[d][k - 1] = pending[d][(k - 1) + 1]
      BY <3>2 DEF Removes
    <3>4. (j - 1) + 1 = j /\ (k - 1) + 1 = k
      OBVIOUS
    <3> QED
      BY <2>2, <3>2, <3>3, <3>4
  <2> QED
    BY <2>1, <2>2
<1>4. \A a \in Written : phase'[a] = "pending" => phase[a] = "pending"
  BY DEF Removes, Written
<1> QED
  BY <1>1, <1>2, <1>3, <1>4 DEF Progress

LEMMA Progresses ==
  ASSUME Line, [Next]_vars
  PROVE  Progress
<1>1. ASSUME NEW d \in Device, AcknowledgeBatch(d) \/ RejectBatch(d) PROVE Progress
  <2>1. Removes(d) /\ denied \subseteq denied'
    BY <1>1, AnswerRemoves DEF Line
  <2> QED
    BY <2>1, RemovesProgress
<1> QED
  BY <1>1, Kinds, QuietProgress, AppendsProgress, AppliesProgress

\* A write that was overwritten stays so.
LEMMA OverwrittenKept ==
  ASSUME Line, Progress, TypeOK', NEW o \in Ops, Overwritten(o)
  PROVE  Overwritten(o)'
<1>1. /\ landed \in [Ops -> Nat] /\ last \in [Ops -> Nat]
      /\ landed' \in [Ops -> Nat] /\ last' \in [Ops -> Nat]
  BY DEF Line, IInv, TypeOK
<1>2. PICK w \in Ops \ {o} : landed[o] > 0 /\ last[w] > landed[o] /\ o \notin wrote[w].seen
  BY DEF Overwritten
<1>3. w \in Written
  BY <1>1, <1>2 DEF Line, IInv, Landing
<1>4. landed'[o] = landed[o] /\ last'[w] >= last[w] /\ wrote'[w] = wrote[w]
  BY <1>2, <1>3 DEF Progress, Onward
<1>5. last'[w] > landed'[o] /\ landed'[o] > 0
  BY <1>1, <1>2, <1>4
<1> QED
  BY <1>2, <1>4, <1>5 DEF Overwritten

LEMMA InitLine == Init => Line
<1> SUFFICES ASSUME Init PROVE Line
  OBVIOUS
<1>1. SignUp \in Ops /\ dev[SignUp] \in Device
  BY RunsAssumption DEF Ops
<1>2. IInv /\ Queued
  BY InitIInv, InitQueued
<1>3. /\ \A o \in Ops : landed[o] = 0 /\ last[o] = 0
      /\ \A d \in Device : version[d] = 0
      /\ \A o \in Ops : phase[o] = IF o = SignUp THEN "pending" ELSE "idle"
      /\ \A o \in Ops : wrote[o] = IF o = SignUp THEN FreshSalon ELSE NoDoc
      /\ writes = 0
  BY DEF Init
<1>4. FreshSalon.exists /\ ~NoDoc.exists
  BY DEF FreshSalon, NoDoc
<1>5. pending[dev[SignUp]] = <<SignUp>>
  BY <1>1 DEF Init
<1>6. Len(<<SignUp>>) = 1 /\ <<SignUp>>[1] = SignUp
  OBVIOUS
<1>7. Existing /\ Placed
  BY <1>3, <1>4 DEF Existing, Placed
<1>8. InLine
  BY <1>3, <1>5, <1>6 DEF InLine
<1>9. Leads
  BY <1>1, <1>3, <1>4, <1>5, <1>6 DEF Leads
<1>10. Told
  BY <1>3 DEF Told
<1>11. ASSUME NEW d \in Device PROVE CaughtUp(d)
  BY <1>3 DEF CaughtUp
<1>12. ASSUME NEW d \in Device PROVE LandsInTurn(d)
  <2>1. \A k \in 1..Len(pending[d]) : landed[pending[d][k]] = 0
    BY <1>1, <1>2, <1>3, ElementOfSeq DEF IInv, TypeOK
  <2> QED
    BY <2>1 DEF LandsInTurn
<1> QED
  BY <1>2, <1>7, <1>8, <1>9, <1>10, <1>11, <1>12 DEF Line

LEMMA QuietLine ==
  ASSUME Line, Quiet, IInv', Queued'
  PROVE  Line'
<1>1. Existing' /\ Placed' /\ InLine' /\ Leads'
  <2>1. Existing'
    BY DEF Line, Quiet, Existing
  <2>2. Placed'
    BY DEF Line, Quiet, Placed
  <2>3. InLine'
    BY DEF Line, Quiet, InLine
  <2>4. Leads'
    BY LineFacts DEF Line, Quiet, Leads
  <2> QED
    BY <2>1, <2>2, <2>3, <2>4
<1>2. ASSUME NEW d \in Device PROVE LandsInTurn(d)'
  <2>1. LandsInTurn(d)
    BY DEF Line
  <2> QED
    BY <2>1 DEF LandsInTurn, Quiet
<1>3. ASSUME NEW d \in Device PROVE CaughtUp(d)' /\ version'[d] >= version[d]
  <2>1. CaughtUp(d)
    BY DEF Line
  <2>2. \A o \in Ops : Overwritten(o)' <=> Overwritten(o)
    BY DEF Overwritten, Quiet
  <2>3. CASE cache'[d] = cache[d] /\ version'[d] = version[d]
    BY <2>1, <2>2, <2>3, LineFacts DEF CaughtUp, Quiet
  <2>4. CASE cache'[d] = server /\ version'[d] = writes
    <3>1. \A o \in Ops : landed'[o] > 0 => o \in cache'[d].seen
      BY <2>4 DEF Line, IInv, Landing, Quiet
    <3>2. version'[d] <= writes'
      BY <2>4, LineFacts DEF Quiet
    <3>3. version'[d] >= version[d]
      BY <2>1, <2>4, LineFacts DEF CaughtUp
    <3> QED
      BY <3>1, <3>2, <3>3 DEF CaughtUp
  <2> QED
    BY <2>3, <2>4 DEF Quiet
<1>4. Told'
  <2> SUFFICES ASSUME NEW o \in Ops, landed[o] > 0, phase[o] # "pending", o \notin denied
               PROVE  landed[o] <= version'[dev[o]]
    BY DEF Told, Quiet
  <2>1. landed[o] <= version[dev[o]]
    BY DEF Line, Told
  <2>2. version'[dev[o]] >= version[dev[o]] /\ version'[dev[o]] \in Nat
    BY <1>3, LineFacts DEF IInv, TypeOK
  <2> QED
    BY <2>1, <2>2, LineFacts
<1> QED
  BY <1>1, <1>2, <1>3, <1>4 DEF Line

\* A write that joins a queue does so behind all the others.
LEMMA Appended ==
  ASSUME Line, NEW d \in Device, NEW o \in Ops, Appends(d, o), NEW e \in Device
  PROVE  /\ \A k \in 1..Len(pending[e]) : /\ k \in 1..Len(pending'[e])
                                         /\ pending'[e][k] = pending[e][k]
                                         /\ pending[e][k] # o
         /\ \A k \in 1..Len(pending'[e]) :
              \/ k \in 1..Len(pending[e])
              \/ /\ e = d /\ pending'[e][k] = o
                 /\ \A j \in 1..Len(pending[e]) : j < k
<1>1. CASE e # d
  BY <1>1 DEF Appends
<1>2. CASE e = d
  <2> DEFINE n == Len(pending[d])
  <2>1. n \in Nat /\ Len(pending'[d]) = n + 1 /\ pending'[d][n + 1] = o
    BY DEF Appends
  <2>2. \A k \in 1..n : pending'[d][k] = pending[d][k] /\ pending[d][k] # o
    BY DEF Appends
  <2> HIDE DEF n
  <2>3. \A k \in 1..(n + 1) : k \in 1..n \/ (k = n + 1 /\ \A j \in 1..n : j < k)
    BY <2>1
  <2> QED
    BY <1>2, <2>1, <2>2, <2>3 DEF n
<1> QED
  BY <1>1, <1>2

LEMMA AppendsLine ==
  ASSUME Line, NEW d \in Device, NEW o \in Ops, Appends(d, o), IInv', Queued'
  PROVE  Line'
<1>0. landed[o] = 0 /\ o # SignUp
  BY LineFacts DEF Line, IInv, Landing, Appends, Written
<1>1. Existing'
  <2>1. saw[o].exists /\ saw[o] \in Copy
    BY DEF Line, Existing, Appends, IInv, TypeOK
  <2>2. wrote'[o].exists
    BY <2>1 DEF Appends, Revised, Copy
  <2> QED
    BY <2>2 DEF Line, Existing, Appends
<1>2. Placed'
  BY DEF Line, Placed, Appends
<1>3. InLine'
  <2> SUFFICES ASSUME NEW r \in Ops, phase'[r] = "pending"
               PROVE  \E k \in 1..Len(pending'[dev[r]]) : pending'[dev[r]][k] = r
    BY DEF InLine
  <2>1. CASE r = o
    BY <2>1 DEF Appends
  <2>2. CASE r # o
    <3>1. PICK k \in 1..Len(pending[dev[r]]) : pending[dev[r]][k] = r
      BY <2>2 DEF Line, InLine, Appends
    <3>2. k \in 1..Len(pending'[dev[r]]) /\ pending'[dev[r]][k] = pending[dev[r]][k]
      <4>1. dev[r] \in Device
        BY LineFacts
      <4> QED
        BY <4>1, Appended
    <3> QED
      BY <3>1, <3>2
  <2> QED
    BY <2>1, <2>2
<1>4. Leads'
  <2> SUFFICES ASSUME phase'[SignUp] = "pending"
               PROVE  /\ Len(pending'[dev[SignUp]]) > 0
                      /\ pending'[dev[SignUp]][1] = SignUp
                      /\ \A r \in Ops : dev[r] = dev[SignUp] /\ wrote'[r].exists => phase'[r] = "pending"
    BY DEF Leads
  <2>1. phase[SignUp] = "pending"
    BY <1>0, LineFacts DEF Appends
  <2>2. /\ 1 \in 1..Len(pending[dev[SignUp]])
        /\ pending[dev[SignUp]][1] = SignUp
        /\ \A r \in Ops : dev[r] = dev[SignUp] /\ wrote[r].exists => phase[r] = "pending"
    BY <2>1, LineFacts DEF Line, Leads
  <2>3. 1 \in 1..Len(pending'[dev[SignUp]]) /\ pending'[dev[SignUp]][1] = SignUp
    BY <2>2, Appended, LineFacts
  <2>4. Len(pending'[dev[SignUp]]) > 0
    BY <2>3
  <2> QED
    BY <2>2, <2>3, <2>4 DEF Appends
<1>5. Told'
  BY <1>0 DEF Line, Told, Appends
<1>6. ASSUME NEW e \in Device PROVE LandsInTurn(e)'
  <2>1. \A k \in 1..Len(pending'[e]) : landed[pending'[e][k]] > 0 =>
          k \in 1..Len(pending[e]) /\ pending'[e][k] = pending[e][k]
    BY <1>0, Appended
  <2>2. LandsInTurn(e)
    BY DEF Line
  <2>3. ASSUME NEW j \in 1..Len(pending'[e]), NEW k \in 1..Len(pending'[e]),
               j < k, landed[pending'[e][k]] > 0
        PROVE  landed[pending'[e][j]] > 0 /\ landed[pending'[e][j]] < landed[pending'[e][k]]
    <3>1. k \in 1..Len(pending[e]) /\ j \in 1..Len(pending[e])
      BY <2>1, <2>3, LineFacts
    <3>2. pending'[e][k] = pending[e][k] /\ pending'[e][j] = pending[e][j]
      BY <3>1 DEF Appends
    <3> QED
      BY <2>2, <2>3, <3>1, <3>2 DEF LandsInTurn
  <2>4. ASSUME NEW r \in Ops, NEW k \in 1..Len(pending'[e]), dev[r] = e, landed[r] > 0,
               phase'[r] # "pending", landed[pending'[e][k]] > 0
        PROVE  landed[r] < landed[pending'[e][k]]
    <3>1. phase[r] # "pending"
      BY <2>4, <1>0 DEF Appends
    <3> QED
      BY <2>1, <2>2, <2>4, <3>1 DEF LandsInTurn
  <2> QED
    BY <2>3, <2>4 DEF LandsInTurn, Appends
<1>7. ASSUME NEW e \in Device PROVE CaughtUp(e)'
  <2>1. CaughtUp(e)
    BY DEF Line
  <2>2. \A r \in Ops : Overwritten(r) => Overwritten(r)'
    BY OverwrittenKept, AppendsProgress DEF IInv
  <2> QED
    BY <2>1, <2>2 DEF CaughtUp, Appends
<1> QED
  BY <1>1, <1>2, <1>3, <1>4, <1>5, <1>6, <1>7 DEF Line

LEMMA AppliesLine ==
  ASSUME Line, NEW d \in Device, NEW o \in Ops, NEW n \in Nat, Applies(d, o, n), IInv', Queued'
  PROVE  Line'
<1>1. Existing'
  BY DEF Line, Existing, Applies
<1>2. Placed'
  <2>1. ASSUME NEW r \in Ops, NEW w \in Ops, r # w, landed'[r] > 0 PROVE landed'[r] # last'[w]
    <3>1. landed[r] <= writes /\ last[w] <= writes /\ writes \in Nat /\ landed[r] \in Nat /\ last[w] \in Nat
      BY LineFacts
    <3>2. landed[r] > 0 => landed[r] # last[w]
      BY <2>1 DEF Line, Placed
    <3>3. CASE w = o
      <4>1. landed'[r] = landed[r] /\ last'[w] = writes + 1
        BY <2>1, <3>3 DEF Applies
      <4> QED
        BY <3>1, <4>1
    <3>4. CASE r = o
      <4>1. landed'[r] \in {landed[r], writes + 1} /\ last'[w] = last[w]
            /\ (landed'[r] = landed[r] => landed[r] > 0)
        BY <2>1, <3>4 DEF Applies
      <4> QED
        BY <3>1, <3>2, <4>1
    <3>5. CASE w # o /\ r # o
      BY <2>1, <3>2, <3>5 DEF Applies
    <3> QED
      BY <3>3, <3>4, <3>5
  <2>2. ASSUME NEW r \in Ops PROVE landed'[r] <= last'[r]
    <3>1. landed[r] <= last[r] /\ landed[r] <= writes /\ landed[r] \in Nat /\ writes \in Nat
      BY LineFacts DEF Line, Placed
    <3>2. CASE r = o
      <4>1. landed'[r] \in {landed[r], writes + 1} /\ last'[r] = writes + 1
        BY <3>2 DEF Applies
      <4> QED
        BY <3>1, <4>1
    <3>3. CASE r # o
      BY <3>1, <3>3 DEF Applies
    <3> QED
      BY <3>2, <3>3
  <2> QED
    BY <2>1, <2>2 DEF Placed
<1>3. InLine' /\ Leads'
  BY DEF Line, InLine, Leads, Applies
<1>4. Told'
  BY DEF Line, Told, Applies
<1>5. ASSUME NEW e \in Device PROVE LandsInTurn(e)'
  <2>1. LandsInTurn(e)
    BY DEF Line
  <2>2. \A r \in Ops : landed[r] \in Nat /\ landed[r] <= writes /\ writes \in Nat
    BY LineFacts
  <2>3. \A r \in Ops : landed[r] > 0 => landed'[r] = landed[r]
    BY DEF Applies
  <2>4. ASSUME NEW r \in Ops, landed'[r] > 0, landed[r] = 0 PROVE r = o /\ landed'[r] = writes + 1
    BY <2>4 DEF Applies
  <2>5. ASSUME NEW j \in 1..Len(pending[e]), NEW k \in 1..Len(pending[e]),
               j < k, landed'[pending[e][k]] > 0
        PROVE  landed'[pending[e][j]] > 0 /\ landed'[pending[e][j]] < landed'[pending[e][k]]
    <3>1. pending[e][j] \in Ops /\ pending[e][k] \in Ops /\ pending[e][j] # pending[e][k]
      BY <2>5, LineFacts
    <3>2. CASE landed[pending[e][k]] > 0
      BY <2>1, <2>3, <2>5, <3>1, <3>2 DEF LandsInTurn
    <3>3. CASE landed[pending[e][k]] = 0
      <4>1. pending[e][k] = o /\ landed'[o] = writes + 1
        BY <2>4, <2>5, <3>1, <3>3
      <4>2. e = d /\ k = n
        <5>1. dev[pending[e][k]] = e /\ dev[o] = d
          BY LineFacts DEF Applies
        <5>2. n \in 1..Len(pending[d]) /\ pending[d][n] = o
          BY DEF Applies
        <5> QED
          BY <4>1, <5>1, <5>2, LineFacts
      <4>3. j <= taken[d] /\ landed[pending[d][j]] > 0
        BY <2>5, <4>2 DEF Applies, Line, Queued, QueuedOn
      <4> QED
        BY <2>2, <2>3, <3>1, <4>1, <4>2, <4>3
    <3> QED
      BY <2>2, <3>1, <3>2, <3>3
  <2>6. ASSUME NEW r \in Ops, NEW k \in 1..Len(pending[e]), dev[r] = e, landed'[r] > 0,
               phase[r] # "pending", landed'[pending[e][k]] > 0
        PROVE  landed'[r] < landed'[pending[e][k]]
    <3>1. landed'[r] = landed[r] /\ pending[e][k] \in Ops
      BY <2>6, LineFacts DEF Applies
    <3>2. CASE landed[pending[e][k]] > 0
      BY <2>1, <2>3, <2>6, <3>1, <3>2 DEF LandsInTurn
    <3>3. CASE landed[pending[e][k]] = 0
      BY <2>2, <2>4, <2>6, <3>1, <3>3
    <3> QED
      BY <2>2, <3>1, <3>2, <3>3
  <2> QED
    BY <2>5, <2>6 DEF LandsInTurn, Applies
<1>6. ASSUME NEW e \in Device PROVE CaughtUp(e)'
  <2>1. CaughtUp(e)
    BY DEF Line
  <2>2. \A r \in Ops : Overwritten(r) => Overwritten(r)'
    BY OverwrittenKept, AppliesProgress DEF IInv
  <2>3. version'[e] = version[e] /\ cache'[e] = cache[e] /\ version[e] <= writes' /\ version[e] < writes + 1
    BY <2>1, LineFacts DEF CaughtUp, Applies
  <2>4. ASSUME NEW r \in Ops, landed'[r] > 0, landed'[r] <= version[e]
        PROVE  landed[r] > 0 /\ landed[r] <= version[e]
    <3>1. landed'[r] = landed[r] \/ landed'[r] = writes + 1
      BY DEF Applies
    <3>2. landed'[r] # writes + 1
      BY <2>3, <2>4, LineFacts
    <3> QED
      BY <2>4, <3>1, <3>2
  <2> QED
    BY <2>1, <2>2, <2>3, <2>4 DEF CaughtUp
<1> QED
  BY <1>1, <1>2, <1>3, <1>4, <1>5, <1>6 DEF Line

\* An acknowledged write is in the cached copy when it leaves the queue.
LEMMA AcknowledgeCatchesUp ==
  ASSUME Line, NEW d \in Device, AcknowledgeBatch(d)
  PROVE  LET o == pending[d][1] IN
         /\ \A e \in Device \ {d} : cache'[e] = cache[e] /\ version'[e] = version[e]
         /\ \/ /\ cache'[d] = cache[d] /\ version'[d] = version[d]
               /\ last[o] <= version[d]
            \/ /\ cache'[d] = Apply(cache[d], o)
               /\ version'[d] = last[o] /\ version[d] < last[o]
<1> DEFINE o == pending[d][1]
<1>1. Removes(d)
  BY AnswerRemoves DEF Line
<1>2. Head(pending[d]) = o /\ o \in Ops
  BY <1>1 DEF Removes
<1>3. /\ cache' = [cache EXCEPT ![d] = IF version[d] < last[o] THEN Apply(cache[d], o) ELSE cache[d]]
      /\ version' = [version EXCEPT ![d] = IF version[d] < last[o] THEN last[o] ELSE version[d]]
  BY <1>2 DEF AcknowledgeBatch
<1>4. version[d] \in Nat /\ last[o] \in Nat
  BY <1>2, LineFacts
<1> HIDE DEF o
<1>5. /\ \A e \in Device \ {d} : cache'[e] = cache[e] /\ version'[e] = version[e]
      /\ cache'[d] = IF version[d] < last[o] THEN Apply(cache[d], o) ELSE cache[d]
      /\ version'[d] = IF version[d] < last[o] THEN last[o] ELSE version[d]
  BY <1>3 DEF Line, IInv, TypeOK
<1>6. version[d] < last[o] \/ last[o] <= version[d]
  BY <1>4
<1> QED
  BY <1>5, <1>6 DEF o

LEMMA AnsweredLine ==
  ASSUME Line, NEW d \in Device, AcknowledgeBatch(d) \/ RejectBatch(d), IInv', Queued'
  PROVE  Line'
<1> DEFINE h == pending[d][1]
<1>0. Removes(d) /\ denied \subseteq denied' /\ (RejectBatch(d) => h \in denied')
  BY AnswerRemoves DEF Line
<1>1. h \in Ops /\ dev[h] = d /\ phase[h] = "pending" /\ phase'[h] # "pending"
  BY <1>0, LineFacts DEF Removes
<1>2. /\ \A k \in 1..Len(pending'[d]) : pending'[d][k] = pending[d][k + 1] /\ k + 1 \in 1..Len(pending[d])
      /\ Len(pending'[d]) + 1 = Len(pending[d]) /\ Len(pending'[d]) \in Nat
      /\ \A e \in Device \ {d} : pending'[e] = pending[e]
      /\ \A r \in Ops : r # h => phase'[r] = phase[r]
      /\ UNCHANGED <<server, writes, landed, last, saw, wrote, input>>
  BY <1>0 DEF Removes
<1>3. phase'[h] # "fetched"
  BY <1>0 DEF Removes
<1>4. \A k \in 1..Len(pending'[d]) : pending[d][k + 1] # h /\ k # k + 1 /\ 1 < k + 1
  BY <1>0, <1>2, LineFacts DEF Removes
<1> HIDE DEF h
<1>5. Existing'
  BY <1>1, <1>2, <1>3 DEF Line, Existing
<1>6. Placed'
  BY <1>2 DEF Line, Placed
<1>7. InLine'
  <2> SUFFICES ASSUME NEW r \in Ops, phase'[r] = "pending"
               PROVE  \E k \in 1..Len(pending'[dev[r]]) : pending'[dev[r]][k] = r
    BY DEF InLine
  <2>1. r # h /\ phase[r] = "pending"
    BY <1>1, <1>2
  <2>2. PICK k \in 1..Len(pending[dev[r]]) : pending[dev[r]][k] = r
    BY <2>1 DEF Line, InLine
  <2>3. CASE dev[r] = d
    <3>1. k # 1
      BY <2>1, <2>2, <2>3 DEF h
    <3>2. k - 1 \in 1..Len(pending'[d]) /\ (k - 1) + 1 = k
      BY <1>2, <2>2, <2>3, <3>1
    <3>3. pending'[d][k - 1] = pending[d][k]
      BY <1>2, <3>2
    <3> QED
      BY <2>2, <2>3, <3>2, <3>3
  <2>4. CASE dev[r] # d
    <3>1. dev[r] \in Device
      BY LineFacts
    <3>2. pending'[dev[r]] = pending[dev[r]]
      BY <1>2, <2>4, <3>1
    <3> QED
      BY <2>2, <3>2
  <2> QED
    BY <2>3, <2>4
<1>8. Leads'
  <2> SUFFICES ASSUME phase'[SignUp] = "pending"
               PROVE  /\ Len(pending'[dev[SignUp]]) > 0
                      /\ pending'[dev[SignUp]][1] = SignUp
                      /\ \A r \in Ops : dev[r] = dev[SignUp] /\ wrote[r].exists => phase'[r] = "pending"
    BY <1>2 DEF Leads
  <2>1. SignUp # h /\ phase[SignUp] = "pending"
    BY <1>1, <1>2, LineFacts
  <2>2. dev[SignUp] # d
    BY <2>1 DEF Line, Leads, h
  <2>3. pending'[dev[SignUp]] = pending[dev[SignUp]]
    BY <1>2, <2>2, LineFacts
  <2> QED
    BY <1>1, <1>2, <2>1, <2>2, <2>3 DEF Line, Leads
<1>9. ASSUME NEW e \in Device PROVE LandsInTurn(e)'
  <2>1. LandsInTurn(e)
    BY DEF Line
  <2>2. CASE e # d
    <3>1. \A r \in Ops : dev[r] = e => phase'[r] = phase[r]
      BY <1>1, <1>2, <2>2
    <3>2. pending'[e] = pending[e]
      BY <1>2, <2>2
    <3> QED
      BY <1>2, <2>1, <3>1, <3>2 DEF LandsInTurn
  <2>3. CASE e = d
    <3>1. \A j, k \in 1..Len(pending'[d]) : j < k => j + 1 < k + 1
      OBVIOUS
    <3>2. \A j, k \in 1..Len(pending'[d]) :
            j < k /\ landed[pending'[d][k]] > 0 =>
              landed[pending'[d][j]] > 0 /\ landed[pending'[d][j]] < landed[pending'[d][k]]
      <4>1. \A j, k \in 1..Len(pending[d]) :
              j < k /\ landed[pending[d][k]] > 0 =>
                landed[pending[d][j]] > 0 /\ landed[pending[d][j]] < landed[pending[d][k]]
        BY <2>1, <2>3 DEF LandsInTurn
      <4>2. \A k \in 1..Len(pending'[d]) : /\ pending'[d][k] = pending[d][k + 1]
                                            /\ k + 1 \in 1..Len(pending[d])
        BY <1>2
      <4> QED
        <5> SUFFICES ASSUME NEW j \in 1..Len(pending'[d]), NEW k \in 1..Len(pending'[d]),
                            j < k, landed[pending'[d][k]] > 0
                     PROVE  landed[pending'[d][j]] > 0 /\ landed[pending'[d][j]] < landed[pending'[d][k]]
          OBVIOUS
        <5>1. /\ pending'[d][j] = pending[d][j + 1] /\ j + 1 \in 1..Len(pending[d])
              /\ pending'[d][k] = pending[d][k + 1] /\ k + 1 \in 1..Len(pending[d])
              /\ j + 1 < k + 1
          BY <3>1, <4>2
        <5> QED
          BY <4>1, <5>1
    <3>3. ASSUME NEW r \in Ops, NEW k \in 1..Len(pending'[d]), dev[r] = d, landed[r] > 0,
                 phase'[r] # "pending", landed[pending'[d][k]] > 0
          PROVE  landed[r] < landed[pending'[d][k]]
      <4>1. CASE r = h
        <5>1. 1 \in 1..Len(pending[d]) /\ 1 < k + 1 /\ k + 1 \in 1..Len(pending[d])
              /\ landed[pending[d][k + 1]] > 0
          BY <1>2, <3>3
        <5> QED
          BY <1>2, <2>1, <2>3, <4>1, <5>1 DEF LandsInTurn, h
      <4>2. CASE r # h
        <5>1. /\ pending'[d][k] = pending[d][k + 1] /\ k + 1 \in 1..Len(pending[d])
              /\ phase[r] # "pending"
          BY <1>2, <3>3, <4>2
        <5> QED
          BY <2>1, <2>3, <3>3, <5>1 DEF LandsInTurn
      <4> QED
        BY <4>1, <4>2
    <3> QED
      BY <1>2, <2>3, <3>2, <3>3 DEF LandsInTurn
  <2> QED
    BY <2>2, <2>3
<1>10. ASSUME NEW e \in Device
       PROVE  /\ CaughtUp(e)' /\ version'[e] >= version[e]
              /\ AcknowledgeBatch(d) /\ e = d => version'[e] >= last[h]
  <2>1. CaughtUp(e) /\ version[e] \in Nat
    BY LineFacts DEF Line
  <2>2. \A r \in Ops : Overwritten(r) => Overwritten(r)'
    BY <1>2 DEF Overwritten
  <2>3. ASSUME cache'[e] = cache[e], version'[e] = version[e]
        PROVE  CaughtUp(e)' /\ version'[e] >= version[e]
    BY <1>2, <2>1, <2>2, <2>3 DEF CaughtUp
  <2>4. CASE AcknowledgeBatch(d) /\ e = d /\ cache'[d] = Apply(cache[d], h)
             /\ version'[d] = last[h] /\ version[d] < last[h]
    <3>1. cache'[d].seen = wrote[h].seen \cup {h}
      BY <2>4 DEF Apply, Merge
    <3>2. ASSUME NEW r \in Ops, landed[r] > 0, landed[r] <= last[h], r # h, r \notin wrote[h].seen
          PROVE  Overwritten(r)
      <4>1. landed[r] # last[h]
        BY <1>1, <3>2 DEF Line, Placed
      <4>2. landed[r] < last[h]
        BY <1>1, <3>2, <4>1, LineFacts
      <4> QED
        BY <1>1, <3>2, <4>2 DEF Overwritten
    <3>3. last[h] <= writes /\ last[h] \in Nat
      BY <1>1, LineFacts
    <3>4. CaughtUp(e)'
      BY <1>2, <2>2, <2>4, <3>1, <3>2, <3>3 DEF CaughtUp
    <3>5. version'[e] >= version[e] /\ version'[e] >= last[h]
      BY <2>1, <2>4, <3>3
    <3> QED
      BY <3>4, <3>5
  <2>5. CASE AcknowledgeBatch(d)
    <3>1. CASE e # d
      BY <2>3, <2>5, <3>1, AcknowledgeCatchesUp
    <3>2. CASE e = d /\ cache'[d] = cache[d] /\ version'[d] = version[d] /\ last[h] <= version[d]
      BY <1>1, <2>1, <2>3, <3>2, LineFacts
    <3> QED
      BY <2>4, <2>5, <3>1, <3>2, AcknowledgeCatchesUp DEF h
  <2>6. CASE RejectBatch(d) /\ ~AcknowledgeBatch(d)
    BY <2>1, <2>3, <2>6 DEF RejectBatch
  <2> QED
    BY <2>5, <2>6
<1>11. Told'
  <2> SUFFICES ASSUME NEW r \in Ops, landed[r] > 0, phase'[r] # "pending", r \notin denied'
               PROVE  landed[r] <= version'[dev[r]]
    BY <1>2 DEF Told
  <2>1. version'[dev[r]] >= version[dev[r]] /\ version'[dev[r]] \in Nat /\ version[dev[r]] \in Nat
        /\ landed[r] \in Nat /\ last[r] \in Nat
    <3>1. dev[r] \in Device /\ version \in [Device -> Nat] /\ landed[r] \in Nat /\ last[r] \in Nat
      BY LineFacts
    <3>2. version' \in [Device -> Nat]
      BY DEF IInv, TypeOK
    <3> QED
      BY <1>10, <3>1, <3>2
  <2>2. CASE r = h
    <3>1. AcknowledgeBatch(d)
      BY <1>0, <2>2
    <3>2. version'[dev[r]] >= last[r] /\ landed[r] <= last[r]
      BY <1>1, <1>10, <2>2, <3>1 DEF Line, Placed
    <3> QED
      BY <2>1, <3>2
  <2>3. CASE r # h
    <3>1. landed[r] <= version[dev[r]]
      BY <1>0, <1>2, <2>3 DEF Line, Told
    <3> QED
      BY <2>1, <3>1
  <2> QED
    BY <2>2, <2>3
<1> QED
  BY <1>5, <1>6, <1>7, <1>8, <1>9, <1>10, <1>11 DEF Line

LEMMA NextLine == Line /\ [Next]_vars => Line'
<1> SUFFICES ASSUME Line, [Next]_vars PROVE Line'
  OBVIOUS
<1>1. IInv' /\ Queued'
  BY NextIInv, NextQueued DEF Line, IInv
<1> QED
  BY <1>1, Kinds, QuietLine, AppendsLine, AppliesLine, AnsweredLine

-----------------------------------------------------------------------------
(* What a device can know of. *)

\* The menu of d, an answer to one of its runs or a document one of them wrote has
\* service a.
Known(d, a) ==
  \/ a \in menu[d]
  \/ \E o \in Ops : dev[o] = d /\ a \in saw[o].services \cup wrote[o].services

\* a's run has written and, while it waits for the answer, the server has it.
Public(a) == a \in Written /\ (phase[a] = "pending" => landed[a] > 0)

\* While sign-up's write waits, its device knows only services that wait behind it.
FirstOnly ==
  phase[SignUp] = "pending" =>
    \A a \in Adds : Known(dev[SignUp], a) => phase[a] = "pending" /\ dev[a] = dev[SignUp]

\* The server passes on what it was given; a device besides knows its own.
Private ==
  \A a \in Adds :
    /\ a \in server.services => Public(a)
    /\ \A d \in Device : a \in cache[d].services \/ Known(d, a) =>
                           Public(a) \/ (dev[a] = d /\ a \in Written)

\* No write in a queue carries a service that waits behind it.
Unaware ==
  \A d \in Device : \A j, k \in 1..Len(pending[d]) :
    j < k => pending[d][k] \notin wrote[pending[d][j]].services

\* What a device knows of another one's services its cache has caught up with.
Arrived ==
  \A d \in Device, a \in Adds :
    dev[a] # d /\ (a \in cache[d].services \/ Known(d, a)) => landed[a] <= version[d]

\* Such a service landed before the writes with services that wait in the queue.
Behind ==
  \A d \in Device, a \in Adds : \A k \in 1..Len(pending[d]) :
    /\ Known(d, a) /\ dev[a] # d
    /\ wrote[pending[d][k]].services # {} /\ landed[pending[d][k]] > 0
    => landed[a] < landed[pending[d][k]]

Aware == Line /\ FirstOnly /\ Private /\ Unaware /\ Arrived /\ Behind

\* What a step puts on the screens, into the answers and into the documents written.
Moves ==
  /\ \A d \in Device : \/ menu'[d] = menu[d]
                       \/ menu'[d] = {}
                       \/ \E o \in Ops : dev[o] = d /\ menu'[d] = saw[o].services
  /\ \A o \in Ops : \/ saw'[o] = saw[o]
                    \/ saw'[o] = Overlay(dev[o], cache'[dev[o]])
  /\ \A o \in Ops : wrote'[o] = wrote[o] \/ Appends(dev[o], o)

LEMMA NextMoves ==
  ASSUME Line, [Next]_vars
  PROVE  Moves
<1> USE DEF docVars, clientVars, runVars, uiVars
<1>0. TypeOK /\ \A o \in Ops : dev[o] \in Device
  BY RunsAssumption DEF Line, IInv
<1>1. ASSUME NEW o \in Ops, Begin(o) PROVE Moves
  BY <1>1 DEF Moves, Begin, Start, HandleAddService, ChangeProfileImage, RefreshReviewData,
              GetAllSalons, FetchAndSaveProfile
<1>2. ASSUME NEW o \in Ops, RemoteAnswer(o) PROVE Moves
  <2>1. CASE FetchFromServer(o)
    <3>1. /\ saw' = [saw EXCEPT ![o] = Overlay(dev[o], server)]
          /\ cache' = [cache EXCEPT ![dev[o]] = server]
          /\ UNCHANGED <<wrote, menu>>
      BY <2>1 DEF FetchFromServer
    <3>2. cache'[dev[o]] = server /\ saw'[o] = Overlay(dev[o], server)
      BY <1>0, <3>1 DEF TypeOK
    <3> QED
      BY <1>0, <3>1, <3>2 DEF Moves, TypeOK
  <2>2. CASE FetchFromCache(o)
    <3>1. /\ saw' = [saw EXCEPT ![o] = Overlay(dev[o], cache[dev[o]])]
          /\ UNCHANGED <<cache, wrote, menu>>
      BY <2>2 DEF FetchFromCache, View
    <3> QED
      BY <1>0, <3>1 DEF Moves, TypeOK
  <2>3. CASE UNCHANGED <<saw, wrote, menu>>
    BY <2>3 DEF Moves
  <2> QED
    BY <1>2, <2>1, <2>2, <2>3 DEF RemoteAnswer, PutData, DownloadURL, UploadFails, GetReviews,
                                  GetReviewsFails, FetchFails
<1>3. ASSUME NEW d \in Device, NEW o \in Ops, MainQueue(d, o) PROVE Moves
  <2>1. CASE UpdateUserProfile(d, o)
    <3>1. Appends(d, o)
      BY <2>1, UpdateAppends DEF Line
    <3>2. /\ UNCHANGED <<saw, menu>> /\ dev[o] = d
          /\ \A r \in Ops \ {o} : wrote'[r] = wrote[r]
      BY <3>1 DEF Appends
    <3> QED
      BY <3>1, <3>2 DEF Moves
  <2>2. CASE ShowServices(d, o)
    <3>1. dev[o] = d
      <4>1. o = mainQ[d][1] /\ 1 \in 1..Len(mainQ[d])
        BY <1>0, <2>2, HeadTailProperties, EmptySeq, LenProperties DEF TypeOK, ShowServices, Callback
      <4> QED
        BY <4>1 DEF Line, Queued, Calling
    <3>2. /\ menu' = [menu EXCEPT ![d] = IF saw[o].services = {} THEN menu[d] ELSE saw[o].services]
          /\ UNCHANGED <<saw, wrote>>
      BY <2>2 DEF ShowServices
    <3> QED
      BY <1>0, <3>1, <3>2 DEF Moves, TypeOK
  <2>3. CASE UNCHANGED <<saw, wrote, menu>>
    BY <2>3 DEF Moves
  <2> QED
    BY <1>3, <2>1, <2>2, <2>3 DEF MainQueue, FetchFailed, ServiceWritten, ImageWritten,
                                  ImageRejected, RatingWritten, SaveUserProfile, RefetchFailed
<1>4. ASSUME NEW d \in Device, WriteStream(d) PROVE Moves
  BY <1>4 DEF Moves, WriteStream, CommitWrite, AcknowledgeBatch, RejectBatch
<1>5. ASSUME World \/ UNCHANGED vars PROVE Moves
  <2>1. ASSUME NEW d \in Device, Crash(d) PROVE Moves
    BY <1>0, <2>1 DEF Moves, Crash, TypeOK
  <2>2. CASE UNCHANGED <<saw, wrote, menu>>
    BY <2>2 DEF Moves
  <2> QED
    BY <1>5, <2>1, <2>2 DEF World, NetworkDown, NetworkUp, CustomerComments, vars
<1> QED
  BY <1>1, <1>2, <1>3, <1>4, <1>5 DEF Next

\* The answer a device may be given now has service a, from the copy and from no write.
Fetched(d, a) ==
  /\ a \in cache'[d].services
  /\ \A k \in 1..Len(pending[d]) : /\ wrote[pending[d][k]].services = {}
                                   /\ pending[d][k] # SignUp

\* A device comes to know of a service by an answer, or by writing it.
LEMMA Learning ==
  ASSUME Line, TypeOK', [Next]_vars, NEW d \in Device, NEW a \in Adds, Known(d, a)'
  PROVE  Known(d, a) \/ Fetched(d, a) \/ Appends(d, a)
<1>0. TypeOK /\ Moves
  BY NextMoves DEF Line, IInv
<1>1. CASE a \in menu'[d]
  BY <1>0, <1>1 DEF Moves, Known
<1>2. ASSUME NEW o \in Ops, dev[o] = d, a \in saw'[o].services
      PROVE  Known(d, a) \/ Fetched(d, a)
  <2>1. CASE saw'[o] = saw[o]
    BY <1>2, <2>1 DEF Known
  <2>2. CASE saw'[o] = Overlay(d, cache'[d])
    <3>1. cache'[d] \in Copy
      BY DEF TypeOK
    <3>2. CASE pending[d] = <<>>
      <4>1. saw'[o] = cache'[d] /\ Len(pending[d]) = 0
        BY <2>2, <3>2 DEF Overlay
      <4> QED
        BY <1>2, <4>1 DEF Fetched
    <3>3. ASSUME NEW s \in 1..Len(pending[d]), saw'[o].services = wrote[pending[d][s]].services
          PROVE  Known(d, a)
      <4>1. pending[d][s] \in Ops /\ dev[pending[d][s]] = d
        BY LineFacts
      <4> QED
        BY <1>2, <3>3, <4>1 DEF Known
    <3>4. CASE /\ \A k \in 1..Len(pending[d]) : wrote[pending[d][k]].services = {}
               /\ saw'[o].services = IF Contains(pending[d], SignUp) THEN {} ELSE cache'[d].services
      <4>1. ~Contains(pending[d], SignUp) /\ a \in cache'[d].services
        BY <1>2, <3>4
      <4> QED
        BY <3>4, <4>1 DEF Fetched, Contains
    <3>5. CASE pending[d] # <<>>
      <4> DEFINE copy == cache'[d]
      <4>1. copy \in Copy
        BY <3>1
      <4> HIDE DEF copy
      <4>2. \/ \E s \in 1..Len(pending[d]) : Overlay(d, copy).services = wrote[pending[d][s]].services
            \/ /\ \A k \in 1..Len(pending[d]) : wrote[pending[d][k]].services = {}
               /\ Overlay(d, copy).services = IF Contains(pending[d], SignUp) THEN {} ELSE copy.services
        BY <1>0, <3>5, <4>1, OverlayServices
      <4>3. saw'[o] = Overlay(d, copy) /\ copy = cache'[d]
        BY <2>2 DEF copy
      <4> QED
        BY <3>3, <3>4, <4>2, <4>3
    <3> QED
      BY <3>2, <3>5
  <2> QED
    BY <1>0, <1>2, <2>1, <2>2 DEF Moves
<1>3. ASSUME NEW o \in Ops, dev[o] = d, a \in wrote'[o].services
      PROVE  Known(d, a) \/ Appends(d, a)
  <2>1. CASE wrote'[o] = wrote[o]
    BY <1>3, <2>1 DEF Known
  <2>2. CASE Appends(d, o)
    <3>1. wrote'[o].services \subseteq saw[o].services \cup {o}
      BY <1>0, <2>2, RevisedType DEF Appends
    <3> QED
      BY <1>3, <2>2, <3>1 DEF Known
  <2> QED
    BY <1>0, <1>3, <2>1, <2>2 DEF Moves
<1> QED
  BY <1>1, <1>2, <1>3 DEF Known

LEMMA PublicKept ==
  ASSUME Line, Progress, NEW a \in Adds, Public(a)
  PROVE  Public(a)'
BY DEF Public, Progress, Onward, Ops, Writers

\* A service a device knows from another one lands no more.
LEMMA KnownLanded ==
  ASSUME Aware, Progress, TypeOK', NEW d \in Device, NEW a \in Adds, dev[a] # d,
         a \in cache[d].services \/ Known(d, a)
  PROVE  landed'[a] = landed[a]
<1>1. Public(a) /\ a \in Ops
  BY DEF Aware, Private, Ops, Writers
<1>2. landed[a] \in Nat /\ landed'[a] \in Nat
  BY <1>1 DEF Aware, Line, IInv, TypeOK
<1> QED
  BY <1>1, <1>2 DEF Public, Progress, Onward

LEMMA PublicLanded ==
  ASSUME Line, Progress, TypeOK', NEW a \in Adds, Public(a)
  PROVE  landed'[a] = landed[a]
<1>1. landed[a] \in Nat /\ landed'[a] \in Nat /\ a \in Ops
  BY DEF Line, IInv, TypeOK, Ops, Writers
<1> QED
  BY <1>1 DEF Public, Progress, Onward

\* A cached copy gets older in no step; its services come from the server or from a write.
LEMMA Refreshed ==
  ASSUME Line, [Next]_vars, NEW d \in Device
  PROVE  /\ version'[d] >= version[d]
         /\ \A a \in cache'[d].services :
              \/ a \in cache[d].services \/ Known(d, a)
              \/ a \in server.services /\ version'[d] = writes
<1>0. version[d] \in Nat /\ version[d] <= writes /\ writes \in Nat
  BY LineFacts DEF Line, CaughtUp
<1>1. CASE cache'[d] = cache[d] /\ version'[d] = version[d]
  BY <1>0, <1>1
<1>2. CASE Quiet
  BY <1>0, <1>1, <1>2 DEF Quiet
<1>3. ASSUME NEW e \in Device, AcknowledgeBatch(e), ~ (cache'[d] = cache[d] /\ version'[d] = version[d])
      PROVE  /\ version'[d] >= version[d]
             /\ \A a \in cache'[d].services : a \in cache[d].services \/ Known(d, a)
  <2> DEFINE h == pending[d][1]
  <2>1. d = e /\ cache'[d] = Apply(cache[d], h) /\ version'[d] = last[h] /\ version[d] < last[h]
    BY <1>3, AcknowledgeCatchesUp
  <2>2. Removes(d)
    BY <1>3, <2>1, AnswerRemoves DEF Line
  <2>3. h \in Ops /\ dev[h] = d
    BY <2>2, LineFacts DEF Removes
  <2> HIDE DEF h
  <2>4. Apply(cache[d], h).services \subseteq cache[d].services \cup wrote[h].services
    BY DEF Apply, Merge, NoDoc
  <2>5. last[h] \in Nat
    BY <2>3, LineFacts
  <2> QED
    BY <1>0, <2>1, <2>3, <2>4, <2>5 DEF Known
<1>4. ASSUME NEW e \in Device, RejectBatch(e) PROVE cache'[d] = cache[d] /\ version'[d] = version[d]
  BY <1>4 DEF RejectBatch
<1>5. (\E e \in Device, o \in Ops : Appends(e, o)) \/ (\E e \in Device, o \in Ops : \E n \in Nat : Applies(e, o, n))
      => cache'[d] = cache[d] /\ version'[d] = version[d]
  BY DEF Appends, Applies
<1> QED
  BY <1>1, <1>2, <1>3, <1>4, <1>5, Kinds

\* Nothing that waits behind sign-up's write is answered before it.
LEMMA NoneAnsweredFirst ==
  ASSUME Line, [Next]_vars, phase'[SignUp] = "pending",
         NEW o \in Ops, dev[o] = dev[SignUp], phase[o] = "pending"
  PROVE  phase'[o] = "pending"
<1>1. phase[SignUp] = "pending"
  BY Progresses DEF Progress, Line, IInv, Writing
<1>2. pending[dev[SignUp]][1] = SignUp
  BY <1>1 DEF Line, Leads
<1>3. ASSUME NEW d \in Device, AcknowledgeBatch(d) \/ RejectBatch(d)
      PROVE  phase'[o] = "pending"
  <2>1. Removes(d)
    BY <1>3, AnswerRemoves DEF Line
  <2>2. dev[pending[d][1]] = d /\ phase'[pending[d][1]] # "pending"
    BY <2>1, LineFacts DEF Removes
  <2>3. CASE d = dev[SignUp]
    BY <1>2, <2>2, <2>3
  <2>4. CASE d # dev[SignUp]
    BY <2>1, <2>2, <2>4 DEF Removes
  <2> QED
    BY <2>3, <2>4
<1>4. (\E e \in Device, r \in Ops : Appends(e, r)) \/ (\E e \in Device, r \in Ops : \E n \in Nat : Applies(e, r, n))
      => phase'[o] = "pending"
  BY DEF Appends, Applies
<1> QED
  BY <1>3, <1>4, Kinds DEF Quiet

LEMMA FirstOnlyNext ==
  ASSUME Aware, TypeOK', [Next]_vars
  PROVE  FirstOnly'
<1> SUFFICES ASSUME phase'[SignUp] = "pending", NEW a \in Adds, Known(dev[SignUp], a)'
             PROVE  phase'[a] = "pending" /\ dev[a] = dev[SignUp]
  BY DEF FirstOnly
<1>0. Line /\ a \in Ops
  BY DEF Aware, Ops, Writers
<1>1. phase[SignUp] = "pending" /\ dev[SignUp] \in Device
  BY <1>0, Progresses, LineFacts DEF Progress, Line, IInv, Writing
<1>2. CASE Known(dev[SignUp], a)
  BY <1>0, <1>1, <1>2, NoneAnsweredFirst DEF Aware, FirstOnly
<1>3. CASE Fetched(dev[SignUp], a)
  <2>1. 1 \in 1..Len(pending[dev[SignUp]]) /\ pending[dev[SignUp]][1] = SignUp
    BY <1>0, <1>1, LineFacts DEF Line, Leads
  <2> QED
    BY <1>3, <2>1 DEF Fetched
<1>4. CASE Appends(dev[SignUp], a)
  BY <1>4 DEF Appends
<1> QED
  BY <1>0, <1>1, <1>2, <1>3, <1>4, Learning

\* What the server's document gets from a write, the server has been given.
LEMMA ServerPublic ==
  ASSUME Aware, TypeOK', [Next]_vars, NEW a \in Adds, a \in server'.services
  PROVE  Public(a)'
<1>0. Line /\ Progress /\ a \in Ops
  BY Progresses DEF Aware, Ops, Writers
<1>1. CASE a \in server.services
  BY <1>0, <1>1, PublicKept DEF Aware, Private
<1>2. ASSUME NEW d \in Device, NEW o \in Ops, NEW n \in Nat, Applies(d, o, n), a \notin server.services
      PROVE  Public(a)'
  <2>1. a \in wrote[o].services
    BY <1>2 DEF Applies, Apply, Merge, NoDoc
  <2>2. Public(a) \/ (dev[a] = d /\ a \in Written)
    BY <1>2, <2>1 DEF Aware, Private, Known, Applies
  <2>3. CASE Public(a)
    BY <1>0, <2>3, PublicKept
  <2>4. CASE dev[a] = d /\ a \in Written /\ ~Public(a)
    <3>1. phase[a] = "pending" /\ a \in Written'
      BY <1>0, <2>4 DEF Public, Progress, Onward
    <3>2. PICK j \in 1..Len(pending[d]) : pending[d][j] = a
      BY <1>0, <2>4, <3>1 DEF Line, InLine
    <3>3. ~ (n < j)
      BY <1>2, <2>1, <3>2 DEF Aware, Unaware, Applies
    <3>4. CASE j < n
      <4>1. j <= taken[d]
        BY <1>2, <3>4 DEF Applies
      <4>2. landed[a] > 0
        BY <1>0, <3>2, <4>1 DEF Line, Queued, QueuedOn
      <4> QED
        BY <2>4, <4>2 DEF Public
    <3>5. CASE j = n
      <4>1. landed'[a] > 0
        BY <1>0, <1>2, <3>2, <3>5, LineFacts DEF Applies
      <4> QED
        BY <3>1, <4>1 DEF Public
    <3>6. n \in Nat /\ j \in Nat
      OBVIOUS
    <3> QED
      BY <3>3, <3>4, <3>5, <3>6
  <2> QED
    BY <2>2, <2>3, <2>4
<1>3. a \notin server.services => \E d \in Device, o \in Ops : \E n \in Nat : Applies(d, o, n)
  <2> SUFFICES ASSUME server' # server PROVE \E d \in Device, o \in Ops : \E n \in Nat : Applies(d, o, n)
    OBVIOUS
  <2>1. PICK d \in Device : CommitWrite(d)
    BY ServerChange
  <2>2. Applies(d, pending[d][taken[d] + 1], taken[d] + 1)
    BY <1>0, <2>1, CommitOf DEF Line
  <2>3. pending[d][taken[d] + 1] \in Ops /\ taken[d] + 1 \in Nat
    BY <2>2 DEF Applies
  <2> QED
    BY <2>2, <2>3
<1> QED
  BY <1>1, <1>2, <1>3

LEMMA PrivateNext ==
  ASSUME Aware, TypeOK', [Next]_vars
  PROVE  Private'
<1>0. Line /\ Progress
  BY Progresses DEF Aware
<1>1. ASSUME NEW d \in Device, NEW a \in Adds,
             a \in cache[d].services \/ Known(d, a) \/ a \in server.services
      PROVE  Public(a)' \/ (dev[a] = d /\ a \in Written')
  <2>1. Public(a) \/ (dev[a] = d /\ a \in Written)
    BY <1>1 DEF Aware, Private
  <2> QED
    BY <1>0, <2>1, PublicKept DEF Progress, Onward
<1>2. ASSUME NEW d \in Device, NEW a \in Adds, a \in cache'[d].services
      PROVE  Public(a)' \/ (dev[a] = d /\ a \in Written')
  BY <1>0, <1>1, <1>2, Refreshed
<1>3. ASSUME NEW d \in Device, NEW a \in Adds, Known(d, a)'
      PROVE  Public(a)' \/ (dev[a] = d /\ a \in Written')
  <2>1. CASE Appends(d, a)
    BY <2>1 DEF Appends, Written, WrittenPhases, Ops, Writers
  <2>2. CASE Fetched(d, a)
    BY <1>2, <2>2 DEF Fetched
  <2> QED
    BY <1>0, <1>1, <1>3, <2>1, <2>2, Learning
<1>4. \A a \in Adds : a \in server'.services => Public(a)'
  BY ServerPublic
<1> QED
  BY <1>2, <1>3, <1>4 DEF Private

LEMMA ArrivedNext ==
  ASSUME Aware, TypeOK', [Next]_vars
  PROVE  Arrived'
<1>0. Line /\ Progress
  BY Progresses DEF Aware
<1> SUFFICES ASSUME NEW d \in Device, NEW a \in Adds, dev[a] # d,
                    a \in cache'[d].services \/ Known(d, a)'
             PROVE  landed'[a] <= version'[d]
  BY DEF Arrived
<1>1. version'[d] >= version[d] /\ version[d] \in Nat /\ version'[d] \in Nat /\ landed[a] \in Nat
  BY <1>0, Refreshed, LineFacts DEF TypeOK, Ops, Writers
<1>2. \/ a \in cache[d].services \/ Known(d, a)
      \/ a \in server.services /\ version'[d] = writes
  <2>1. ~Appends(d, a)
    BY DEF Appends
  <2> QED
    BY <1>0, <2>1, Learning, Refreshed DEF Fetched
<1>3. CASE a \in cache[d].services \/ Known(d, a)
  <2>1. landed'[a] = landed[a] /\ landed[a] <= version[d]
    BY <1>0, <1>3, KnownLanded DEF Aware, Arrived
  <2> QED
    BY <1>1, <2>1
<1>4. CASE a \in server.services /\ version'[d] = writes
  <2>1. landed'[a] = landed[a]
    BY <1>0, <1>4, PublicLanded DEF Aware, Private
  <2>2. landed[a] <= writes
    BY <1>0, LineFacts DEF Ops, Writers
  <2> QED
    BY <1>4, <2>1, <2>2
<1> QED
  BY <1>2, <1>3, <1>4

LEMMA UnawareNext ==
  ASSUME Aware, TypeOK', [Next]_vars
  PROVE  Unaware'
<1>0. Line /\ TypeOK
  BY DEF Aware, Line, IInv
<1>1. CASE UNCHANGED <<pending, wrote>>
  BY <1>1 DEF Aware, Unaware
<1>2. ASSUME NEW d \in Device, NEW o \in Ops, Appends(d, o) PROVE Unaware'
  <2> SUFFICES ASSUME NEW e \in Device, NEW j \in 1..Len(pending'[e]), NEW k \in 1..Len(pending'[e]),
                      j < k
               PROVE  pending'[e][k] \notin wrote'[pending'[e][j]].services
    BY DEF Unaware
  <2>1. j \in 1..Len(pending[e]) /\ pending'[e][j] = pending[e][j] /\ wrote'[pending[e][j]] = wrote[pending[e][j]]
    <3>1. j \in 1..Len(pending[e])
      <4> SUFFICES ASSUME j \notin 1..Len(pending[e]) PROVE FALSE
        OBVIOUS
      <4>1. e = d /\ j = Len(pending[d]) + 1
        <5>1. Len(pending[d]) \in Nat /\ Len(pending'[d]) = Len(pending[d]) + 1
          BY <1>2 DEF Appends
        <5>2. e # d => pending'[e] = pending[e]
          BY <1>2 DEF Appends
        <5> QED
          BY <5>1, <5>2
      <4> QED
        BY <1>2, <4>1 DEF Appends
    <3> QED
      BY <1>0, <1>2, <3>1, Appended DEF Appends
  <2>2. CASE k \in 1..Len(pending[e])
    BY <1>0, <1>2, <2>1, <2>2, Appended DEF Aware, Unaware
  <2>3. CASE e = d /\ pending'[e][k] = o
    <3>1. pending[d][j] \in Ops /\ dev[pending[d][j]] = d
      BY <1>0, <2>1, <2>3, LineFacts
    <3> SUFFICES ASSUME o \in wrote[pending[d][j]].services PROVE FALSE
      BY <2>1, <2>3
    <3>2. o \in Adds
      BY <1>0, <3>1 DEF TypeOK, Copy
    <3>3. Known(d, o)
      BY <3>1 DEF Known
    <3>4. o \in Written
      BY <3>2, <3>3 DEF Aware, Private, Public
    <3> QED
      BY <1>2, <3>4 DEF Appends
  <2> QED
    BY <1>0, <1>2, <2>2, <2>3, Appended
<1>3. ASSUME NEW d \in Device, Removes(d) PROVE Unaware'
  <2>1. \A j, k \in 1..Len(pending'[d]) : j < k => j + 1 < k + 1
    OBVIOUS
  <2> SUFFICES ASSUME NEW e \in Device, NEW j \in 1..Len(pending'[e]), NEW k \in 1..Len(pending'[e]),
                      j < k
               PROVE  pending'[e][k] \notin wrote'[pending'[e][j]].services
    BY DEF Unaware
  <2>2. CASE e = d
    <3>1. /\ j + 1 \in 1..Len(pending[d]) /\ pending'[d][j] = pending[d][j + 1]
          /\ k + 1 \in 1..Len(pending[d]) /\ pending'[d][k] = pending[d][k + 1]
          /\ j + 1 < k + 1 /\ wrote' = wrote
      BY <1>3, <2>1, <2>2 DEF Removes
    <3>2. pending[d][k + 1] \notin wrote[pending[d][j + 1]].services
      BY <3>1 DEF Aware, Unaware
    <3> QED
      BY <2>2, <3>1, <3>2
  <2>3. CASE e # d
    BY <1>3, <2>3 DEF Aware, Unaware, Removes
  <2> QED
    BY <2>2, <2>3
<1>4. ASSUME NEW d \in Device, AcknowledgeBatch(d) \/ RejectBatch(d) PROVE Unaware'
  BY <1>0, <1>3, <1>4, AnswerRemoves DEF Line
<1> QED
  BY <1>0, <1>1, <1>2, <1>4, Kinds DEF Quiet, Applies

LEMMA BehindNext ==
  ASSUME Aware, TypeOK', [Next]_vars
  PROVE  Behind'
<1>0. Line /\ Progress
  BY Progresses DEF Aware
<1>1. ASSUME NEW d \in Device, NEW a \in Adds, Known(d, a)', dev[a] # d
      PROVE  Known(d, a) \/ Fetched(d, a)
  BY <1>0, <1>1, Learning DEF Appends
<1>2. ASSUME NEW d \in Device, NEW a \in Adds, Known(d, a), dev[a] # d
      PROVE  landed'[a] = landed[a] /\ landed[a] \in Nat /\ landed[a] <= writes
  BY <1>0, <1>2, KnownLanded, LineFacts DEF Ops, Writers
<1>3. CASE Quiet
  <2> SUFFICES ASSUME NEW d \in Device, NEW a \in Adds, NEW k \in 1..Len(pending[d]),
                      Known(d, a)', dev[a] # d, wrote[pending[d][k]].services # {},
                      landed[pending[d][k]] > 0
               PROVE  landed[a] < landed[pending[d][k]]
    BY <1>3 DEF Behind, Quiet
  <2>1. Known(d, a)
    BY <1>1 DEF Fetched
  <2> QED
    BY <2>1 DEF Aware, Behind
<1>4. ASSUME NEW d \in Device, NEW a \in Adds, ~Quiet, Known(d, a)', dev[a] # d PROVE Known(d, a)
  <2>1. CASE menu' = menu /\ saw' = saw
    <3>1. ASSUME NEW o \in Ops, dev[o] = d, wrote'[o] # wrote[o] PROVE wrote'[o].services \subseteq saw[o].services \cup {o}
      <4>1. Appends(d, o)
        BY <1>0, <3>1, NextMoves DEF Moves
      <4> QED
        BY <1>0, <4>1, RevisedType DEF Appends, Line, IInv
    <3> QED
      BY <1>4, <2>1, <3>1 DEF Known
  <2>2. ASSUME NEW e \in Device, AcknowledgeBatch(e) \/ RejectBatch(e) PROVE menu' = menu /\ saw' = saw
    BY <1>0, <2>2, AnswerRemoves DEF Removes, Line
  <2> QED
    BY <1>0, <1>4, <2>1, <2>2, Kinds DEF Appends, Applies
<1>5. ASSUME NEW e \in Device, NEW o \in Ops, Appends(e, o), ~Quiet PROVE Behind'
  <2> SUFFICES ASSUME NEW d \in Device, NEW a \in Adds, NEW k \in 1..Len(pending'[d]),
                      Known(d, a)', dev[a] # d, wrote'[pending'[d][k]].services # {},
                      landed[pending'[d][k]] > 0
               PROVE  landed[a] < landed[pending'[d][k]]
    BY <1>5 DEF Behind, Appends
  <2>1. landed[o] = 0
    BY <1>0, <1>5, LineFacts DEF Line, IInv, Landing, Appends
  <2>2. k \in 1..Len(pending[d]) /\ pending'[d][k] = pending[d][k] /\ pending[d][k] # o
    BY <1>0, <1>5, <2>1, Appended
  <2>3. wrote'[pending[d][k]] = wrote[pending[d][k]]
    BY <1>0, <1>5, <2>2, LineFacts DEF Appends
  <2> QED
    BY <1>4, <1>5, <2>2, <2>3 DEF Aware, Behind
<1>6. ASSUME NEW e \in Device, NEW o \in Ops, NEW n \in Nat, Applies(e, o, n), ~Quiet PROVE Behind'
  <2> SUFFICES ASSUME NEW d \in Device, NEW a \in Adds, NEW k \in 1..Len(pending[d]),
                      Known(d, a), dev[a] # d, wrote[pending[d][k]].services # {},
                      landed'[pending[d][k]] > 0
               PROVE  landed'[a] < landed'[pending[d][k]]
    BY <1>4, <1>6 DEF Behind, Applies
  <2>1. landed'[a] = landed[a] /\ landed[a] \in Nat /\ landed[a] <= writes
    BY <1>2
  <2>2. pending[d][k] \in Ops /\ landed[pending[d][k]] \in Nat /\ writes \in Nat
    BY <1>0, LineFacts
  <2>3. CASE landed[pending[d][k]] > 0
    <3>1. landed'[pending[d][k]] = landed[pending[d][k]]
      BY <1>0, <2>2, <2>3 DEF Progress, Onward
    <3> QED
      BY <2>1, <2>3, <3>1 DEF Aware, Behind
  <2>4. CASE landed[pending[d][k]] = 0
    <3>1. landed'[pending[d][k]] = writes + 1
      BY <1>6, <2>2, <2>4 DEF Applies
    <3> QED
      BY <2>1, <2>2, <3>1
  <2> QED
    BY <2>2, <2>3, <2>4
<1>7. ASSUME NEW e \in Device, Removes(e), ~Quiet PROVE Behind'
  <2> SUFFICES ASSUME NEW d \in Device, NEW a \in Adds, NEW k \in 1..Len(pending'[d]),
                      Known(d, a), dev[a] # d, wrote[pending'[d][k]].services # {},
                      landed[pending'[d][k]] > 0
               PROVE  landed[a] < landed[pending'[d][k]]
    BY <1>4, <1>7 DEF Behind, Removes
  <2>1. PICK j \in 1..Len(pending[d]) : pending'[d][k] = pending[d][j]
    <3>1. CASE d = e
      <4>1. pending'[e][k] = pending[e][k + 1] /\ k + 1 \in 1..Len(pending[e])
        BY <1>7, <3>1 DEF Removes
      <4> QED
        BY <3>1, <4>1
    <3>2. CASE d # e
      <4>1. pending'[d] = pending[d]
        BY <1>7, <3>2 DEF Removes
      <4> QED
        BY <4>1
    <3> QED
      BY <3>1, <3>2
  <2> QED
    BY <2>1 DEF Aware, Behind
<1>8. ASSUME NEW e \in Device, AcknowledgeBatch(e) \/ RejectBatch(e), ~Quiet PROVE Behind'
  BY <1>0, <1>7, <1>8, AnswerRemoves DEF Line
<1> QED
  BY <1>0, <1>3, <1>5, <1>6, <1>8, Kinds

LEMMA InitAware == Init => Aware
<1> SUFFICES ASSUME Init PROVE Aware
  OBVIOUS
<1>1. Line
  BY InitLine
<1>2. NoDoc.services = {} /\ FreshSalon.services = {}
  BY DEF NoDoc, FreshSalon
<1>3. \A o \in Ops : saw[o].services = {} /\ wrote[o].services = {}
  BY <1>2 DEF Init
<1>4. server.services = {} /\ \A d \in Device : cache[d].services = {} /\ menu[d] = {}
  BY <1>2 DEF Init
<1>5. \A d \in Device, a \in Adds : ~Known(d, a)
  BY <1>3, <1>4 DEF Known
<1>6. dev[SignUp] \in Device
  BY <1>1, LineFacts
<1>7. \A d \in Device : \A k \in 1..Len(pending[d]) : wrote[pending[d][k]].services = {}
  BY <1>1, <1>3, LineFacts
<1>8. FirstOnly /\ Private /\ Arrived /\ Behind
  BY <1>4, <1>5, <1>6 DEF FirstOnly, Private, Arrived, Behind
<1>9. Unaware
  BY <1>7 DEF Unaware
<1> QED
  BY <1>1, <1>8, <1>9 DEF Aware

LEMMA NextAware == Aware /\ [Next]_vars => Aware'
<1> SUFFICES ASSUME Aware, [Next]_vars PROVE Aware'
  OBVIOUS
<1>1. Line' /\ TypeOK'
  BY NextLine DEF Aware, Line, IInv
<1> QED
  BY <1>1, FirstOnlyNext, PrivateNext, UnawareNext, ArrivedNext, BehindNext DEF Aware

-----------------------------------------------------------------------------
(* What the owner sees. *)

\* A run waits on the main queue at most once, and only with a callback to run.
Waiting == {"fetched", "unfetched", "acked", "rejected", "refetched", "unrefetched"}

WaitsOnce ==
  \A d \in Device :
    /\ \A k \in 1..Len(mainQ[d]) : phase[mainQ[d][k]] \in Waiting
    /\ \A j, k \in 1..Len(mainQ[d]) : j # k => mainQ[d][j] # mainQ[d][k]

\* A write that did not know of o's waits behind it in the queue of d.
Hidden(o, d) ==
  \E j, k \in 1..Len(pending[d]) :
    j < k /\ pending[d][j] = o /\ o \notin wrote[pending[d][k]].seen

\* Service a may be missing from what d shows: if it has landed, for the reasons of
\* MenuNeverGoesBack; if it waits to land, because of a write that waits behind it.
Gone(a, d) ==
  /\ landed[a] > 0 => Buried(a, d) \/ (a \in denied /\ dev[a] = d)
  /\ phase[a] = "pending" /\ landed[a] = 0 => Hidden(a, d)

\* On the screen of d or in the answer of a run that waits before the k-th.
Earlier(d, k, a) ==
  \/ a \in menu[d]
  \/ \E j \in 1..Len(mainQ[d]) : /\ j < k
                                 /\ phase[mainQ[d][j]] = "refetched"
                                 /\ a \in saw[mainQ[d][j]].services

\* An answer that waits has all that is on the screen or in the answers before it, but
\* what is gone.
InTurn(d) ==
  \A k \in 1..Len(mainQ[d]) : phase[mainQ[d][k]] = "refetched" =>
    \A a \in Adds : Earlier(d, k, a) => a \in saw[mainQ[d][k]].services \/ Gone(a, d)

\* A write the server took carries what its run was to write.
Sent == \A o \in Ops : landed[o] > 0 => Shows(wrote[o], o)

Screen ==
  /\ Aware /\ WaitsOnce /\ Sent /\ OwnChangeShows
  /\ \A d \in Device : InTurn(d)

LEMMA BuriedKept ==
  ASSUME Line, Progress, TypeOK', NEW o \in Ops, NEW d \in Device,
         landed[o] > 0, Buried(o, d)
  PROVE  Buried(o, d)'
<1>0. /\ landed \in [Ops -> Nat] /\ last \in [Ops -> Nat] /\ writes \in Nat
      /\ landed' \in [Ops -> Nat] /\ last' \in [Ops -> Nat]
  BY DEF Line, IInv, TypeOK
<1>1. PICK w \in Ops \ {o} : /\ wrote[w].exists
                             /\ o \notin wrote[w].seen
                             /\ last[w] > landed[o] \/ (landed[w] = 0 /\ dev[w] = d)
  BY DEF Buried
<1>2. w \in Written
  BY <1>1 DEF Line, IInv, Writing, NoDoc
<1>3. wrote'[w] = wrote[w] /\ last'[w] >= last[w] /\ landed'[o] = landed[o] /\ landed[o] <= writes
  BY <1>2, LineFacts DEF Progress, Onward
<1>4. CASE last[w] > landed[o]
  <2>1. last'[w] > landed'[o]
    BY <1>0, <1>1, <1>3, <1>4
  <2> QED
    BY <1>1, <1>3, <2>1 DEF Buried
<1>5. CASE landed[w] = 0 /\ dev[w] = d /\ landed'[w] = 0
  BY <1>1, <1>3, <1>5 DEF Buried
<1>6. CASE landed[w] = 0 /\ dev[w] = d /\ landed'[w] # 0
  <2>1. last'[w] > writes
    BY <1>0, <1>6 DEF Progress
  <2>2. last'[w] > landed'[o]
    BY <1>0, <1>1, <1>3, <2>1
  <2> QED
    BY <1>1, <1>3, <2>2 DEF Buried
<1> QED
  BY <1>1, <1>4, <1>5, <1>6

\* What is gone stays gone.
LEMMA GoneKept ==
  ASSUME Aware, Progress, TypeOK', NEW d \in Device, NEW a \in Adds, Known(d, a), Gone(a, d)
  PROVE  Gone(a, d)'
<1>0. Line /\ a \in Ops /\ a \in Written
  BY DEF Aware, Private, Public, Ops, Writers
<1>1. landed[a] \in Nat /\ landed'[a] \in Nat
  BY <1>0 DEF Line, IInv, TypeOK
<1>2. CASE landed[a] > 0
  <2>1. landed'[a] = landed[a]
    BY <1>0, <1>2 DEF Progress, Onward
  <2>2. CASE Buried(a, d)
    <3>1. Buried(a, d)'
      BY <1>0, <1>2, <2>2, BuriedKept
    <3> QED
      BY <1>1, <1>2, <2>1, <3>1 DEF Gone
  <2>3. CASE a \in denied /\ dev[a] = d
    <3>1. a \in denied'
      BY <2>3 DEF Progress
    <3> QED
      BY <1>1, <1>2, <2>1, <2>3, <3>1 DEF Gone
  <2>4. Buried(a, d) \/ (a \in denied /\ dev[a] = d)
    BY <1>2 DEF Gone
  <2> QED
    BY <2>2, <2>3, <2>4
<1>3. ASSUME landed[a] = 0, landed'[a] > 0 PROVE Buried(a, d)'
  <2>1. /\ phase[a] = "pending" /\ landed'[a] > writes
        /\ \A o \in Ops \ {a} : landed'[o] = landed[o]
    BY <1>0, <1>3 DEF Progress
  <2>2. PICK j, k \in 1..Len(pending[d]) :
          j < k /\ pending[d][j] = a /\ a \notin wrote[pending[d][k]].seen
    BY <1>3, <2>1 DEF Gone, Hidden
  <2> DEFINE w == pending[d][k]
  <2>3. w \in Ops /\ w # a /\ dev[w] = d /\ phase[w] = "pending"
    BY <1>0, <2>2, LineFacts
  <2>4. landed[w] = 0
    <3>1. ~ (landed[w] > 0)
      BY <1>0, <1>3, <2>2 DEF Line, LandsInTurn
    <3> QED
      BY <1>0, <2>3, <3>1, LineFacts
  <2> HIDE DEF w
  <2>5. wrote[w].exists /\ wrote'[w] = wrote[w]
    BY <1>0, <2>3 DEF Line, Existing, Progress, Onward, Written, WrittenPhases
  <2>6. a \notin wrote[w].seen
    BY <2>2 DEF w
  <2> QED
    BY <2>1, <2>3, <2>4, <2>5, <2>6 DEF Buried
<1>4. ASSUME landed'[a] = 0, phase'[a] = "pending" PROVE Hidden(a, d)'
  <2>1. phase[a] = "pending" /\ landed[a] = 0
    BY <1>0, <1>1, <1>4 DEF Progress, Onward
  <2>2. PICK j, k \in 1..Len(pending[d]) :
          j < k /\ pending[d][j] = a /\ a \notin wrote[pending[d][k]].seen
    BY <2>1 DEF Gone, Hidden
  <2>3. PICK i, l \in 1..Len(pending'[d]) :
          i < l /\ pending'[d][i] = pending[d][j] /\ pending'[d][l] = pending[d][k]
    BY <1>4, <2>2 DEF Progress
  <2>4. pending[d][k] \in Written
    BY <1>0, LineFacts DEF Written, WrittenPhases
  <2>5. wrote'[pending[d][k]] = wrote[pending[d][k]]
    BY <2>4 DEF Progress, Onward
  <2> QED
    BY <2>2, <2>3, <2>5 DEF Hidden
<1> QED
  BY <1>1, <1>2, <1>3, <1>4 DEF Gone

\* A copy as new as place v in the server's order, which is what d has or newer.
Recent(copy, d, v) ==
  /\ copy \in Copy /\ Faithful(copy)
  /\ v \in Nat /\ v >= version[d]
  /\ \A o \in Ops : landed[o] > 0 /\ landed[o] <= v => o \in copy.seen \/ Overwritten(o)

LEMMA Sources ==
  ASSUME Line, NEW d \in Device
  PROVE  Recent(server, d, writes) /\ Recent(cache[d], d, version[d])
<1>1. Recent(server, d, writes)
  BY LineFacts DEF Line, IInv, TypeOK, Landing, CaughtUp, Recent
<1>2. Recent(cache[d], d, version[d])
  <2>1. CaughtUp(d) /\ cache[d] \in Copy /\ Faithful(cache[d]) /\ version[d] \in Nat
    BY LineFacts DEF Line, IInv, TypeOK
  <2> QED
    BY <2>1 DEF CaughtUp, Recent
<1> QED
  BY <1>1, <1>2

LEMMA OverwrittenBuried ==
  ASSUME Line, NEW o \in Ops, NEW d \in Device, Overwritten(o)
  PROVE  Buried(o, d)
<1>1. PICK w \in Ops \ {o} : landed[o] > 0 /\ last[w] > landed[o] /\ o \notin wrote[w].seen
  BY DEF Overwritten
<1>2. landed[w] > 0
  BY <1>1, LineFacts DEF Line, IInv, Landing
<1>3. wrote[w].exists
  BY <1>1, <1>2 DEF Line, Existing
<1> QED
  BY <1>1, <1>3 DEF Buried

\* A faithful copy that knows of a write shows it, or the write is buried, or lost a race.
LEMMA SeenShows ==
  ASSUME Line, NEW o \in Ops, NEW d \in Device, NEW copy, Faithful(copy), o \in copy.seen
  PROVE  Shows(copy, o) \/ (landed[o] > 0 /\ Buried(o, d)) \/ Raced(o)
<1>1. Overwritten(o) => landed[o] > 0
  BY DEF Overwritten
<1> QED
  BY <1>1, OverwrittenBuried DEF Faithful, Excused

\* A recent copy shows what the device knows to have landed and has no write waiting for.
LEMMA CopyShows ==
  ASSUME Aware, NEW d \in Device, NEW a \in Adds, Known(d, a), landed[a] > 0,
         dev[a] = d => phase[a] # "pending",
         NEW copy, NEW v, Recent(copy, d, v), a \notin copy.services
  PROVE  Buried(a, d) \/ (a \in denied /\ dev[a] = d)
<1> SUFFICES ASSUME ~ (a \in denied /\ dev[a] = d) PROVE Buried(a, d)
  OBVIOUS
<1>0. Line /\ a \in Ops
  BY DEF Aware, Ops, Writers
<1>1. landed[a] <= version[d]
  BY <1>0 DEF Aware, Line, Told, Arrived
<1>2. landed[a] <= v
  BY <1>0, <1>1, LineFacts DEF Recent
<1>3. a \in copy.seen \/ Overwritten(a)
  BY <1>0, <1>2 DEF Recent
<1>4. ~Raced(a) /\ ~Shows(copy, a)
  BY RunsAssumption DEF Raced, Shows
<1> QED
  BY <1>0, <1>3, <1>4, OverwrittenBuried, SeenShows DEF Recent

\* What a device knows is in the answer it is given, or gone.
LEMMA ReadShows ==
  ASSUME Aware, NEW d \in Device, NEW a \in Adds, Known(d, a),
         NEW copy, NEW v, Recent(copy, d, v),
         a \notin Overlay(d, copy).services
  PROVE  Gone(a, d)
<1> DEFINE q == pending[d]
<1>0. Line /\ a \in Ops /\ TypeOK /\ copy \in Copy
  BY DEF Aware, Line, IInv, Recent, Ops, Writers
<1>1. landed[a] \in Nat
  BY <1>0, LineFacts
<1>2. phase[a] = "pending" /\ landed[a] = 0 => dev[a] = d
  BY DEF Aware, Private, Public
<1>3. \A k \in 1..Len(q) : q[k] = a => wrote[a].services # {}
  BY <1>0 DEF Line, IInv, Carried, Shows
<1>4. phase[a] = "pending" /\ dev[a] = d => \E k \in 1..Len(q) : q[k] = a
  BY <1>0 DEF Line, InLine
<1>5. ASSUME a \notin copy.services, \A k \in 1..Len(q) : q[k] # a PROVE Gone(a, d)
  BY <1>2, <1>4, <1>5, CopyShows DEF Gone
<1>6. CASE q = <<>>
  <2>1. Overlay(d, copy) = copy /\ Len(q) = 0
    BY <1>6 DEF Overlay
  <2> QED
    BY <1>5, <2>1
<1>7. CASE /\ \A k \in 1..Len(q) : wrote[q[k]].services = {}
           /\ Overlay(d, copy).services = IF Contains(q, SignUp) THEN {} ELSE copy.services
  <2>1. \A k \in 1..Len(q) : q[k] # a
    BY <1>3, <1>7
  <2>2. ~Contains(q, SignUp)
    <3> SUFFICES ASSUME NEW k \in 1..Len(q), q[k] = SignUp PROVE FALSE
      BY DEF Contains
    <3>1. phase[SignUp] = "pending" /\ dev[SignUp] = d
      BY <1>0, LineFacts
    <3>2. phase[a] = "pending" /\ dev[a] = d
      BY <3>1 DEF Aware, FirstOnly
    <3> QED
      BY <1>4, <2>1, <3>2
  <2> QED
    BY <1>5, <1>7, <2>1, <2>2
<1>8. ASSUME NEW s \in 1..Len(q), wrote[q[s]].services # {}, a \notin wrote[q[s]].services,
             \A k \in 1..Len(q) : wrote[q[k]].services # {} => k <= s
      PROVE  Gone(a, d)
  <2> DEFINE w == q[s]
  <2>1. w \in Ops /\ dev[w] = d /\ phase[w] = "pending"
    BY <1>0, LineFacts
  <2>2. w # a /\ Faithful(wrote[w]) /\ wrote[w].exists
    BY <1>0, <1>8, <2>1 DEF Line, IInv, Carried, Shows, Existing
  <2>3. a \in wrote[w].seen => landed[a] > 0 /\ Buried(a, d)
    <3>1. ~Raced(a) /\ ~Shows(wrote[w], a)
      BY <1>8, RunsAssumption DEF Raced, Shows
    <3> QED
      BY <1>0, <2>2, <3>1, SeenShows
  <2>4. ASSUME NEW j \in 1..Len(q), q[j] = a PROVE j < s
    <3>1. j <= s /\ j # s
      BY <1>3, <1>8, <2>2, <2>4
    <3> QED
      BY <3>1
  <2>5. ASSUME a \notin wrote[w].seen, landed[a] > 0 PROVE Buried(a, d)
    <3>1. CASE landed[w] = 0
      BY <2>1, <2>2, <2>5, <3>1 DEF Buried
    <3>2. CASE landed[w] > 0
      <4>1. landed[a] < landed[w]
        <5>1. CASE dev[a] # d
          BY <1>8, <3>2, <5>1 DEF Aware, Behind
        <5>2. CASE dev[a] = d /\ phase[a] # "pending"
          BY <1>0, <2>5, <3>2, <5>2 DEF Line, LandsInTurn
        <5>3. CASE dev[a] = d /\ phase[a] = "pending"
          <6>1. PICK j \in 1..Len(q) : q[j] = a
            BY <1>4, <5>3
          <6>2. j < s
            BY <2>4, <6>1
          <6> QED
            BY <1>0, <3>2, <6>1, <6>2 DEF Line, LandsInTurn
        <5> QED
          BY <5>1, <5>2, <5>3
      <4>2. landed[w] <= last[w] /\ landed[w] \in Nat /\ last[w] \in Nat
        BY <1>0, <2>1, LineFacts DEF Line, Placed
      <4>3. last[w] > landed[a]
        BY <1>1, <4>1, <4>2
      <4> QED
        BY <2>1, <2>2, <2>5, <4>3 DEF Buried
    <3> QED
      BY <1>0, <2>1, <3>1, <3>2, LineFacts
  <2>6. ASSUME landed[a] = 0, phase[a] = "pending" PROVE Hidden(a, d)
    <3>1. PICK j \in 1..Len(q) : q[j] = a
      BY <1>2, <1>4, <2>6
    <3>2. j < s
      BY <2>4, <3>1
    <3>3. a \notin wrote[w].seen
      BY <2>3, <2>6
    <3> QED
      BY <3>1, <3>2, <3>3 DEF Hidden
  <2> QED
    BY <1>1, <2>3, <2>5, <2>6 DEF Gone
<1>9. CASE q # <<>>
  BY <1>0, <1>7, <1>8, <1>9, OverlayServices
<1> QED
  BY <1>6, <1>9

\* What is shown to the run that changed something has the change, or an excuse.
OwnShown(o, copy) ==
  \/ o \in copy.services
  \/ o \in Images /\ copy.image >= input[o]
  \/ Buried(o, dev[o])
  \/ \E w \in Images : o \in wrote[w].seen /\ input[w] < input[o]
  \/ o \in denied

LEMMA OwnImageShows ==
  ASSUME Aware, NEW o \in Images, landed[o] > 0, phase[o] # "pending",
         NEW copy, NEW v, Recent(copy, dev[o], v)
  PROVE  OwnShown(o, Overlay(dev[o], copy))
<1> DEFINE d == dev[o]
           q == pending[d]
<1>0. Line /\ TypeOK /\ copy \in Copy /\ o \in Ops /\ d \in Device
  BY RunsAssumption DEF Aware, Line, IInv, Recent, Ops, Writers
<1>1. ASSUME NEW other, other.image = copy.image PROVE OwnShown(o, other)
  <2> SUFFICES ASSUME o \notin denied PROVE OwnShown(o, other)
    BY DEF OwnShown
  <2>1. landed[o] <= version[d]
    BY <1>0 DEF Line, Told
  <2>2. landed[o] <= v
    BY <1>0, <2>1, LineFacts DEF Recent
  <2>3. o \in copy.seen \/ Overwritten(o)
    BY <1>0, <2>2 DEF Recent
  <2>4. CASE Overwritten(o)
    BY <1>0, <2>4, OverwrittenBuried DEF OwnShown
  <2>5. CASE o \in copy.seen
    <3>1. \/ o \in Images /\ copy.image >= input[o]
          \/ Buried(o, dev[o]) \/ Raced(o)
      BY <1>0, <2>5, SeenShows DEF Recent, Shows
    <3>2. Raced(o) => \E w \in Images : o \in wrote[w].seen /\ input[w] < input[o]
      BY RunsAssumption DEF Raced
    <3> QED
      BY <1>1, <3>1, <3>2 DEF OwnShown
  <2> QED
    BY <2>3, <2>4, <2>5
<1>2. CASE q = <<>>
  BY <1>1, <1>2 DEF Overlay
<1>3. CASE Overlay(d, copy).image = IF Contains(q, SignUp) THEN 0 ELSE copy.image
  <2>1. ~Contains(q, SignUp)
    <3> SUFFICES ASSUME NEW k \in 1..Len(q), q[k] = SignUp PROVE FALSE
      BY DEF Contains
    <3>1. phase[SignUp] = "pending" /\ dev[SignUp] = d
      BY <1>0, LineFacts
    <3>2. wrote[o].exists
      BY <1>0 DEF Line, Existing
    <3> QED
      BY <1>0, <3>1, <3>2 DEF Line, Leads
  <2> QED
    BY <1>1, <1>3, <2>1
<1>4. ASSUME NEW s \in 1..Len(q), Overlay(d, copy).image = wrote[q[s]].image
      PROVE  OwnShown(o, Overlay(d, copy))
  <2> DEFINE w == q[s]
  <2>1. w \in Ops /\ dev[w] = d /\ phase[w] = "pending" /\ w # o
    BY <1>0, LineFacts
  <2>2. Faithful(wrote[w]) /\ wrote[w].exists
    BY <1>0, <2>1 DEF Line, IInv, Existing
  <2>3. CASE o \in wrote[w].seen
    <3>1. \/ wrote[w].image >= input[o]
          \/ Buried(o, dev[o]) \/ Raced(o)
      BY <1>0, <2>2, <2>3, SeenShows DEF Shows
    <3>2. Raced(o) => \E x \in Images : o \in wrote[x].seen /\ input[x] < input[o]
      BY RunsAssumption DEF Raced
    <3> QED
      BY <1>4, <3>1, <3>2 DEF OwnShown
  <2>4. CASE o \notin wrote[w].seen /\ landed[w] = 0
    BY <2>1, <2>2, <2>4 DEF Buried, OwnShown
  <2>5. CASE o \notin wrote[w].seen /\ landed[w] > 0
    <3>1. landed[o] < landed[w]
      BY <1>0, <2>5 DEF Line, LandsInTurn
    <3>2. landed[w] <= last[w] /\ landed[w] \in Nat /\ last[w] \in Nat /\ landed[o] \in Nat
      BY <1>0, <2>1, LineFacts DEF Line, Placed
    <3>3. last[w] > landed[o]
      BY <3>1, <3>2
    <3> QED
      BY <2>1, <2>2, <2>5, <3>3 DEF Buried, OwnShown
  <2>6. landed[w] \in Nat
    BY <1>0, <2>1, LineFacts
  <2> QED
    BY <2>3, <2>4, <2>5, <2>6
<1>5. CASE q # <<>>
  BY <1>0, <1>3, <1>4, <1>5, OverlayImage
<1> QED
  BY <1>2, <1>5

LEMMA OwnReadShows ==
  ASSUME Aware, Sent, NEW o \in Adds \cup Images, landed[o] > 0, phase[o] # "pending",
         NEW copy, NEW v, Recent(copy, dev[o], v)
  PROVE  OwnShown(o, Overlay(dev[o], copy))
<1>0. o \in Ops /\ dev[o] \in Device
  BY RunsAssumption DEF Ops, Writers
<1>1. CASE o \in Images
  BY <1>1, OwnImageShows
<1>2. CASE o \in Adds
  <2>1. Known(dev[o], o)
    BY <1>0, <1>2 DEF Sent, Shows, Known
  <2>2. o \in Overlay(dev[o], copy).services \/ Gone(o, dev[o])
    BY <1>0, <1>2, <2>1, ReadShows
  <2> QED
    BY <2>2 DEF Gone, OwnShown
<1> QED
  BY <1>1, <1>2

-----------------------------------------------------------------------------
(* What the steps do to the main queue of a device. *)

\* A run keeps its answer while it waits with it.
Stays(r) ==
  phase[r] \in Waiting \/ phase'[r] \in Waiting => phase'[r] = phase[r] /\ saw'[r] = saw[r]

Apart(d) ==
  /\ mainQ'[d] = mainQ[d] /\ menu'[d] = menu[d]
  /\ \A r \in Ops : dev[r] = d => Stays(r)

Emptied(d) ==
  /\ mainQ'[d] = <<>> /\ crashes' # crashes
  /\ \A r \in Ops : dev[r] = d => phase'[r] \notin Waiting

CalledBack(d, o) ==
  /\ mainQ[d] # <<>> /\ o = Head(mainQ[d]) /\ mainQ'[d] = Tail(mainQ[d])
  /\ phase'[o] \notin Waiting
  /\ \A r \in Ops \ {o} : Stays(r)
  /\ \/ menu'[d] = menu[d]
     \/ phase[o] = "refetched" /\ saw[o].services # {} /\ menu'[d] = saw[o].services

Called(d, o) ==
  /\ dev[o] = d /\ mainQ'[d] = Append(mainQ[d], o) /\ menu'[d] = menu[d]
  /\ phase[o] \notin Waiting /\ phase'[o] \in Waiting
  /\ \A r \in Ops \ {o} : Stays(r)
  /\ phase'[o] = "refetched" =>
       /\ phase[o] = "refetching"
       /\ \E copy \in {server, cache[d]} : saw'[o] = Overlay(d, copy)

Turn(d) == Apart(d) \/ Emptied(d) \/ \E o \in Ops : CalledBack(d, o) \/ Called(d, o)

LEMMA MovesOn ==
  ASSUME TypeOK, NEW d \in Device, NEW o \in Ops, NEW p,
         phase' = [phase EXCEPT ![o] = p], phase[o] \notin Waiting, p \notin Waiting,
         UNCHANGED <<mainQ, menu, saw>>
  PROVE  Turn(d)
<1>1. \A r \in Ops : Stays(r)
  BY DEF TypeOK, Stays
<1> QED
  BY <1>1 DEF Turn, Apart

LEMMA CallsBack ==
  ASSUME TypeOK, Queued, NEW d \in Device, NEW e \in Device, NEW o \in Ops, NEW from,
         NEW to, to \notin Waiting, Callback(e, o, from, to), saw' = saw,
         \/ menu' = menu
         \/ /\ from = "refetched"
            /\ menu' = [menu EXCEPT ![e] = IF saw[o].services = {} THEN @ ELSE saw[o].services]
  PROVE  Turn(d)
<1>1. /\ mainQ[e] # <<>> /\ o = Head(mainQ[e]) /\ phase[o] = from
      /\ mainQ' = [mainQ EXCEPT ![e] = Tail(@)]
      /\ phase' = [phase EXCEPT ![o] = to]
  BY DEF Callback
<1>2. dev[o] = e
  <2>1. o = mainQ[e][1] /\ 1 \in 1..Len(mainQ[e])
    BY <1>1, HeadTailProperties, EmptySeq, LenProperties DEF TypeOK
  <2> QED
    BY <2>1 DEF Queued, Calling
<1>3. phase'[o] = to /\ \A r \in Ops \ {o} : Stays(r)
  BY <1>1 DEF TypeOK, Stays
<1>4. CASE d = e
  <2>1. mainQ'[d] = Tail(mainQ[d])
    BY <1>1, <1>4 DEF TypeOK
  <2>2. \/ menu'[d] = menu[d]
        \/ phase[o] = "refetched" /\ saw[o].services # {} /\ menu'[d] = saw[o].services
    BY <1>1, <1>4 DEF TypeOK
  <2>3. CalledBack(d, o)
    BY <1>1, <1>3, <1>4, <2>1, <2>2 DEF CalledBack
  <2> QED
    BY <2>3 DEF Turn
<1>5. CASE d # e
  <2>1. mainQ'[d] = mainQ[d] /\ menu'[d] = menu[d]
    BY <1>1, <1>5 DEF TypeOK
  <2> QED
    BY <1>2, <1>3, <1>5, <2>1 DEF Turn, Apart
<1> QED
  BY <1>4, <1>5

LEMMA Calls ==
  ASSUME TypeOK, NEW d \in Device, NEW o \in Ops, NEW p \in Waiting, phase[o] \notin Waiting,
         mainQ' = [mainQ EXCEPT ![dev[o]] = Append(@, o)],
         phase' = [phase EXCEPT ![o] = p], menu' = menu,
         \/ saw' = saw /\ p # "refetched"
         \/ /\ p = "refetched" => phase[o] = "refetching"
            /\ \E copy \in {server, cache[dev[o]]} : saw' = [saw EXCEPT ![o] = Overlay(dev[o], copy)]
  PROVE  Turn(d)
<1>1. phase'[o] = p /\ \A r \in Ops \ {o} : Stays(r)
  BY DEF TypeOK, Stays
<1>2. CASE d = dev[o]
  <2>1. mainQ'[d] = Append(mainQ[d], o)
    BY <1>2 DEF TypeOK
  <2>2. p = "refetched" => /\ phase[o] = "refetching"
                           /\ \E copy \in {server, cache[d]} : saw'[o] = Overlay(d, copy)
    BY <1>2 DEF TypeOK
  <2>3. Called(d, o)
    BY <1>1, <1>2, <2>1, <2>2 DEF Called
  <2> QED
    BY <2>3 DEF Turn
<1>3. CASE d # dev[o]
  <2>1. mainQ'[d] = mainQ[d]
    BY <1>3 DEF TypeOK
  <2> QED
    BY <1>1, <1>3, <2>1 DEF Turn, Apart
<1> QED
  BY <1>2, <1>3

LEMMA NextTurn ==
  ASSUME Line, [Next]_vars, NEW d \in Device
  PROVE  Turn(d)
<1> USE DEF docVars, clientVars, runVars, uiVars, worldVars
<1>0. TypeOK /\ Queued /\ \A o \in Ops : dev[o] \in Device
  BY RunsAssumption DEF Line, IInv
<1>1. ASSUME NEW o \in Ops, Begin(o) PROVE Turn(d)
  <2>1. PICK p \in {"fetching", "uploading", "scoring", "refetching"} : Start(o, p)
    BY <1>1 DEF Begin, HandleAddService, ChangeProfileImage, RefreshReviewData,
                GetAllSalons, FetchAndSaveProfile
  <2> QED
    BY <1>0, <2>1, MovesOn DEF Start, Waiting
<1>2. ASSUME NEW o \in Ops, RemoteAnswer(o) PROVE Turn(d)
  <2>0. /\ phase[o] \in Fetching => /\ phase[o] \notin Waiting
                                    /\ Answer(phase[o]) \in Waiting /\ NoAnswer(phase[o]) \in Waiting
                                    /\ Answer(phase[o]) = "refetched" => phase[o] = "refetching"
                                    /\ NoAnswer(phase[o]) # "refetched"
    BY DEF Fetching, Waiting, Answer, NoAnswer
  <2>1. CASE PutData(o)
    BY <1>0, <2>1, MovesOn DEF PutData, Waiting
  <2>2. CASE DownloadURL(o)
    BY <1>0, <2>2, MovesOn DEF DownloadURL, Waiting
  <2>3. CASE UploadFails(o)
    BY <1>0, <2>3, MovesOn DEF UploadFails, Waiting
  <2>4. ASSUME NEW n \in 0..MaxComments, GetReviews(o, n) PROVE Turn(d)
    <3>1. PICK p \in {"fetching", "done"} : phase' = [phase EXCEPT ![o] = p]
      BY <2>4 DEF GetReviews
    <3> QED
      BY <1>0, <2>4, <3>1, MovesOn DEF GetReviews, Waiting
  <2>5. CASE GetReviewsFails(o)
    BY <1>0, <2>5, MovesOn DEF GetReviewsFails, Waiting
  <2>6. CASE FetchFromServer(o)
    BY <1>0, <2>0, <2>6, Calls DEF FetchFromServer
  <2>7. CASE FetchFromCache(o)
    BY <1>0, <2>0, <2>7, Calls DEF FetchFromCache, View
  <2>8. CASE FetchFails(o)
    BY <1>0, <2>0, <2>8, Calls DEF FetchFails
  <2> QED
    BY <1>2, <2>1, <2>2, <2>3, <2>4, <2>5, <2>6, <2>7, <2>8 DEF RemoteAnswer
<1>3. ASSUME NEW e \in Device, NEW o \in Ops, MainQueue(e, o) PROVE Turn(d)
  <2>0. "pending" \notin Waiting /\ "failed" \notin Waiting /\ "refetching" \notin Waiting
        /\ "done" \notin Waiting
    BY DEF Waiting
  <2>1. CASE UpdateUserProfile(e, o)
    BY <1>0, <2>0, <2>1, CallsBack DEF UpdateUserProfile
  <2>2. CASE FetchFailed(e, o)
    BY <1>0, <2>0, <2>2, CallsBack DEF FetchFailed
  <2>3. CASE ServiceWritten(e, o)
    BY <1>0, <2>0, <2>3, CallsBack DEF ServiceWritten
  <2>4. CASE ImageWritten(e, o)
    BY <1>0, <2>0, <2>4, CallsBack DEF ImageWritten
  <2>5. CASE ImageRejected(e, o)
    BY <1>0, <2>0, <2>5, CallsBack DEF ImageRejected
  <2>6. CASE RatingWritten(e, o)
    <3>1. PICK answer \in {"acked", "rejected"} :
            Callback(e, o, answer, IF answer = "acked" THEN "done" ELSE "failed")
      BY <2>6 DEF RatingWritten
    <3>2. (IF answer = "acked" THEN "done" ELSE "failed") \notin Waiting
      BY <2>0
    <3> QED
      BY <1>0, <2>6, <3>1, <3>2, CallsBack DEF RatingWritten
  <2>7. CASE ShowServices(e, o)
    BY <1>0, <2>0, <2>7, CallsBack DEF ShowServices
  <2>8. CASE SaveUserProfile(e, o)
    BY <1>0, <2>0, <2>8, CallsBack DEF SaveUserProfile
  <2>9. CASE RefetchFailed(e, o)
    BY <1>0, <2>0, <2>9, CallsBack DEF RefetchFailed
  <2> QED
    BY <1>3, <2>1, <2>2, <2>3, <2>4, <2>5, <2>6, <2>7, <2>8, <2>9 DEF MainQueue
<1>4. ASSUME NEW e \in Device, WriteStream(e) PROVE Turn(d)
  <2>1. CASE CommitWrite(e)
    BY <2>1 DEF CommitWrite, Turn, Apart, Stays
  <2>2. CASE AcknowledgeBatch(e) \/ RejectBatch(e)
    <3> DEFINE o == Head(pending[e])
    <3>1. o \in Ops /\ dev[o] = e /\ phase[o] \notin Waiting
      <4>1. Removes(e)
        BY <1>0, <2>2, AnswerRemoves DEF Line
      <4> QED
        BY <4>1, LineFacts DEF Removes, Waiting
    <3>2. PICK outcome \in {"acked", "rejected"}, over \in {"done", "failed"} :
            Answered(e, o, outcome, over)
      BY <2>2 DEF AcknowledgeBatch, RejectBatch
    <3>3. UNCHANGED <<menu, saw>>
      BY <2>2 DEF AcknowledgeBatch, RejectBatch
    <3> HIDE DEF o
    <3>4. CASE o \in deaf
      BY <1>0, <3>1, <3>2, <3>3, <3>4, MovesOn DEF Answered, Waiting, TypeOK
    <3>5. CASE o \notin deaf
      BY <1>0, <3>1, <3>2, <3>3, <3>5, Calls DEF Answered, Waiting
    <3> QED
      BY <3>4, <3>5
  <2> QED
    BY <1>4, <2>1, <2>2 DEF WriteStream
<1>5. ASSUME World \/ UNCHANGED vars PROVE Turn(d)
  <2>1. ASSUME NEW e \in Device, Crash(e) PROVE Turn(d)
    <3>1. saw' = saw /\ crashes' = crashes + 1 /\ crashes \in Nat
      BY <1>0, <2>1 DEF Crash, TypeOK
    <3>2. CASE d = e
      <4>1. mainQ'[d] = <<>>
        BY <1>0, <2>1, <3>2 DEF Crash, TypeOK
      <4>2. \A r \in Ops : dev[r] = d => phase'[r] \notin Waiting
        BY <1>0, <2>1, <3>2 DEF Crash, Waiting, Over
      <4> QED
        BY <3>1, <4>1, <4>2 DEF Turn, Emptied
    <3>3. CASE d # e
      <4>1. mainQ'[d] = mainQ[d] /\ menu'[d] = menu[d]
        BY <1>0, <2>1, <3>3 DEF Crash, TypeOK
      <4>2. \A r \in Ops : dev[r] = d => phase'[r] = phase[r]
        BY <1>0, <2>1, <3>3 DEF Crash
      <4> QED
        BY <3>1, <4>1, <4>2 DEF Turn, Apart, Stays
    <3> QED
      BY <3>2, <3>3
  <2>2. CASE UNCHANGED <<mainQ, menu, phase, saw>>
    BY <2>2 DEF Turn, Apart, Stays
  <2> QED
    BY <1>5, <2>1, <2>2 DEF World, NetworkDown, NetworkUp, CustomerComments, vars
<1> QED
  BY <1>1, <1>2, <1>3, <1>4, <1>5 DEF Next

\* The main queue of a device is a sequence of its own runs.
LEMMA MainQueueFacts ==
  ASSUME Line, NEW d \in Device
  PROVE  /\ mainQ[d] \in Seq(Ops) /\ Len(mainQ[d]) \in Nat
         /\ \A k \in 1..Len(mainQ[d]) : mainQ[d][k] \in Ops /\ dev[mainQ[d][k]] = d
<1>1. mainQ[d] \in Seq(Ops)
  BY DEF Line, IInv, TypeOK
<1> QED
  BY <1>1, ElementOfSeq, LenProperties DEF Line, Queued, Calling

\* What changes of the queue in a step that is not a restart: nothing, or the first is
\* gone, or there is one more.
LEMMA QueueMoved ==
  ASSUME Line, WaitsOnce, NEW d \in Device
  PROVE  /\ \A o \in Ops : CalledBack(d, o) =>
              /\ 1 \in 1..Len(mainQ[d]) /\ mainQ[d][1] = o
              /\ \A k \in 1..Len(mainQ'[d]) : /\ k + 1 \in 1..Len(mainQ[d])
                                              /\ mainQ'[d][k] = mainQ[d][k + 1]
                                              /\ mainQ[d][k + 1] # o
         /\ \A o \in Ops : Called(d, o) =>
              /\ \A k \in 1..Len(mainQ[d]) : mainQ[d][k] # o
              /\ \A k \in 1..Len(mainQ'[d]) :
                   \/ k \in 1..Len(mainQ[d]) /\ mainQ'[d][k] = mainQ[d][k]
                   \/ k = Len(mainQ[d]) + 1 /\ mainQ'[d][k] = o
<1>0. mainQ[d] \in Seq(Ops) /\ Len(mainQ[d]) \in Nat
  BY MainQueueFacts
<1>1. ASSUME NEW o \in Ops, CalledBack(d, o)
      PROVE  /\ 1 \in 1..Len(mainQ[d]) /\ mainQ[d][1] = o
             /\ \A k \in 1..Len(mainQ'[d]) : /\ k + 1 \in 1..Len(mainQ[d])
                                             /\ mainQ'[d][k] = mainQ[d][k + 1]
                                             /\ mainQ[d][k + 1] # o
  <2>1. mainQ[d] # <<>> /\ o = Head(mainQ[d]) /\ mainQ'[d] = Tail(mainQ[d])
    BY <1>1 DEF CalledBack
  <2>2. /\ Len(mainQ[d]) > 0 /\ o = mainQ[d][1]
        /\ Len(mainQ'[d]) = Len(mainQ[d]) - 1
        /\ \A k \in 1..Len(mainQ'[d]) : mainQ'[d][k] = mainQ[d][k + 1]
    BY <1>0, <2>1, HeadTailProperties, EmptySeq
  <2>3. \A k \in 1..Len(mainQ'[d]) : k + 1 \in 1..Len(mainQ[d]) /\ k + 1 # 1
    BY <1>0, <2>2
  <2>4. 1 \in 1..Len(mainQ[d])
    BY <1>0, <2>2
  <2> QED
    BY <2>2, <2>3, <2>4 DEF WaitsOnce
<1>2. ASSUME NEW o \in Ops, Called(d, o)
      PROVE  /\ \A k \in 1..Len(mainQ[d]) : mainQ[d][k] # o
             /\ \A k \in 1..Len(mainQ'[d]) :
                  \/ k \in 1..Len(mainQ[d]) /\ mainQ'[d][k] = mainQ[d][k]
                  \/ k = Len(mainQ[d]) + 1 /\ mainQ'[d][k] = o
  <2>1. mainQ'[d] = Append(mainQ[d], o) /\ phase[o] \notin Waiting
    BY <1>2 DEF Called
  <2>2. /\ Len(mainQ'[d]) = Len(mainQ[d]) + 1
        /\ mainQ'[d][Len(mainQ[d]) + 1] = o
        /\ \A k \in 1..Len(mainQ[d]) : mainQ'[d][k] = mainQ[d][k]
    BY <1>0, <2>1, AppendProperties
  <2>3. \A k \in 1..Len(mainQ'[d]) : k \in 1..Len(mainQ[d]) \/ k = Len(mainQ[d]) + 1
    BY <1>0, <2>2
  <2> QED
    BY <2>1, <2>2, <2>3 DEF WaitsOnce
<1> QED
  BY <1>1, <1>2

LEMMA WaitsOnceNext ==
  ASSUME Line, WaitsOnce, [Next]_vars
  PROVE  WaitsOnce'
<1> SUFFICES ASSUME NEW d \in Device
             PROVE  /\ \A k \in 1..Len(mainQ'[d]) : phase'[mainQ'[d][k]] \in Waiting
                    /\ \A j, k \in 1..Len(mainQ'[d]) : j # k => mainQ'[d][j] # mainQ'[d][k]
  BY DEF WaitsOnce
<1>1. \A k \in 1..Len(mainQ[d]) : /\ mainQ[d][k] \in Ops /\ dev[mainQ[d][k]] = d
                                  /\ phase[mainQ[d][k]] \in Waiting
  BY MainQueueFacts DEF WaitsOnce
<1>2. \A j, k \in 1..Len(mainQ[d]) : j # k => mainQ[d][j] # mainQ[d][k]
  BY DEF WaitsOnce
<1>3. CASE Apart(d)
  BY <1>1, <1>2, <1>3 DEF Apart, Stays
<1>4. CASE Emptied(d)
  BY <1>4 DEF Emptied
<1>5. ASSUME NEW o \in Ops, CalledBack(d, o)
      PROVE  /\ \A k \in 1..Len(mainQ'[d]) : phase'[mainQ'[d][k]] \in Waiting
             /\ \A j, k \in 1..Len(mainQ'[d]) : j # k => mainQ'[d][j] # mainQ'[d][k]
  <2>1. \A k \in 1..Len(mainQ'[d]) : /\ k + 1 \in 1..Len(mainQ[d])
                                     /\ mainQ'[d][k] = mainQ[d][k + 1]
                                     /\ mainQ[d][k + 1] # o
    BY <1>5, QueueMoved
  <2>2. \A j, k \in 1..Len(mainQ'[d]) : j # k => j + 1 # k + 1
    OBVIOUS
  <2>3. \A k \in 1..Len(mainQ'[d]) : phase'[mainQ'[d][k]] \in Waiting
    BY <1>1, <1>5, <2>1 DEF CalledBack, Stays
  <2>4. \A j, k \in 1..Len(mainQ'[d]) : j # k => mainQ'[d][j] # mainQ'[d][k]
    BY <1>2, <2>1, <2>2
  <2> QED
    BY <2>3, <2>4
<1>6. ASSUME NEW o \in Ops, Called(d, o)
      PROVE  /\ \A k \in 1..Len(mainQ'[d]) : phase'[mainQ'[d][k]] \in Waiting
             /\ \A j, k \in 1..Len(mainQ'[d]) : j # k => mainQ'[d][j] # mainQ'[d][k]
  <2>1. /\ \A k \in 1..Len(mainQ[d]) : mainQ[d][k] # o
        /\ \A k \in 1..Len(mainQ'[d]) :
             \/ k \in 1..Len(mainQ[d]) /\ mainQ'[d][k] = mainQ[d][k]
             \/ k = Len(mainQ[d]) + 1 /\ mainQ'[d][k] = o
    BY <1>6, QueueMoved
  <2>2. \A k \in 1..Len(mainQ'[d]) : phase'[mainQ'[d][k]] \in Waiting
    BY <1>1, <1>6, <2>1 DEF Called, Stays
  <2>3. \A j, k \in 1..Len(mainQ'[d]) : j # k => mainQ'[d][j] # mainQ'[d][k]
    BY <1>2, <2>1
  <2> QED
    BY <2>2, <2>3
<1> QED
  BY <1>3, <1>4, <1>5, <1>6, NextTurn DEF Turn

LEMMA SentNext ==
  ASSUME Line, Sent, TypeOK', [Next]_vars
  PROVE  Sent'
<1> SUFFICES ASSUME NEW o \in Ops, landed'[o] > 0 PROVE Shows(wrote[o], o)'
  BY DEF Sent
<1>0. Progress /\ landed[o] \in Nat
  BY Progresses, LineFacts
<1>1. Shows(wrote[o], o) /\ o \in Written
  <2>1. CASE landed[o] > 0
    BY <2>1 DEF Sent, Line, IInv, Landing
  <2>2. CASE landed[o] = 0
    <3>1. phase[o] = "pending"
      BY <1>0, <2>2 DEF Progress
    <3>2. PICK k \in 1..Len(pending[dev[o]]) : pending[dev[o]][k] = o
      BY <3>1 DEF Line, InLine
    <3> QED
      BY <3>2, LineFacts DEF Line, IInv, Carried
  <2> QED
    BY <1>0, <2>1, <2>2
<1>2. wrote'[o] = wrote[o] /\ input'[o] = input[o]
  BY <1>0, <1>1 DEF Progress, Onward
<1> QED
  BY <1>1, <1>2 DEF Shows

\* An excuse that holds once holds for ever, so what was shown in order stays in order.
LEMMA OwnShownKept ==
  ASSUME Line, Progress, TypeOK', NEW o \in Adds \cup Images, landed[o] > 0,
         NEW copy, OwnShown(o, copy)
  PROVE  OwnShown(o, copy)'
<1>0. o \in Ops /\ dev[o] \in Device /\ o \in Written
  BY RunsAssumption DEF Ops, Writers, Line, IInv, Landing
<1>1. input'[o] = input[o]
  BY <1>0 DEF Progress, Onward
<1>2. ASSUME NEW w \in Images, o \in wrote[w].seen, input[w] < input[o]
      PROVE  o \in wrote'[w].seen /\ input'[w] < input'[o]
  <2>1. w \in Written
    BY <1>2 DEF Line, IInv, Writing, NoDoc, Ops, Writers
  <2> QED
    BY <1>1, <1>2, <2>1 DEF Progress, Onward
<1>3. CASE Buried(o, dev[o])
  BY <1>0, <1>3, BuriedKept DEF OwnShown
<1>4. CASE o \in denied
  BY <1>4 DEF Progress, OwnShown
<1> QED
  BY <1>1, <1>2, <1>3, <1>4 DEF OwnShown

LEMMA OwnChangeNext ==
  ASSUME Screen, TypeOK', [Next]_vars
  PROVE  OwnChangeShows'
<1>0. Line /\ Progress /\ Aware /\ Sent
  BY Progresses DEF Screen, Aware
<1> SUFFICES ASSUME NEW o \in Adds \cup Images, phase'[o] = "refetched", landed'[o] > 0
             PROVE  OwnShown(o, saw[o])'
  BY DEF OwnChangeShows, OwnShown
<1>1. o \in Ops /\ dev[o] \in Device
  BY RunsAssumption DEF Ops, Writers
<1>2. \/ phase[o] = "refetched" /\ saw'[o] = saw[o]
      \/ /\ phase[o] = "refetching"
         /\ \E copy \in {server, cache[dev[o]]} : saw'[o] = Overlay(dev[o], copy)
  <2>1. Turn(dev[o])
    BY <1>0, <1>1, NextTurn
  <2> QED
    BY <1>1, <2>1 DEF Turn, Apart, Emptied, CalledBack, Called, Stays, Waiting
<1>3. landed[o] > 0
  <2>1. landed[o] \in Nat /\ phase[o] # "pending"
    BY <1>0, <1>1, <1>2, LineFacts
  <2> QED
    BY <1>0, <1>1, <2>1 DEF Progress
<1>4. CASE phase[o] = "refetched" /\ saw'[o] = saw[o]
  <2>1. OwnShown(o, saw[o])
    BY <1>3, <1>4 DEF Screen, OwnChangeShows, OwnShown
  <2>2. PICK c : c = saw[o]
    OBVIOUS
  <2>3. OwnShown(o, c)'
    BY <1>0, <1>3, <2>1, <2>2, OwnShownKept
  <2> QED
    BY <1>4, <2>2, <2>3 DEF OwnShown
<1>5. ASSUME NEW copy \in {server, cache[dev[o]]}, phase[o] = "refetching",
             saw'[o] = Overlay(dev[o], copy)
      PROVE  OwnShown(o, saw[o])'
  <2>1. \E v : Recent(copy, dev[o], v)
    BY <1>0, <1>1, Sources
  <2>2. OwnShown(o, Overlay(dev[o], copy))
    BY <1>0, <1>3, <1>5, <2>1, OwnReadShows
  <2>3. PICK c : c = Overlay(dev[o], copy)
    OBVIOUS
  <2>4. OwnShown(o, c)'
    BY <1>0, <1>3, <2>2, <2>3, OwnShownKept
  <2> QED
    BY <1>5, <2>3, <2>4 DEF OwnShown
<1> QED
  BY <1>2, <1>4, <1>5

\* What was on the screen or in an answer is known to the device.
LEMMA EarlierKnown ==
  ASSUME Line, NEW d \in Device, NEW k, NEW a, Earlier(d, k, a)
  PROVE  Known(d, a)
BY MainQueueFacts DEF Earlier, Known

LEMMA InTurnNext ==
  ASSUME Screen, TypeOK', [Next]_vars, NEW d \in Device
  PROVE  InTurn(d)'
<1>0. Line /\ Progress /\ Aware /\ WaitsOnce
  BY Progresses DEF Screen, Aware
<1>1. \A k \in 1..Len(mainQ[d]) : /\ mainQ[d][k] \in Ops /\ dev[mainQ[d][k]] = d
                                  /\ phase[mainQ[d][k]] \in Waiting
  BY <1>0, MainQueueFacts DEF WaitsOnce
<1>2. ASSUME NEW k \in 1..Len(mainQ[d]), phase[mainQ[d][k]] = "refetched",
             NEW a \in Adds, Earlier(d, k, a)
      PROVE  a \in saw[mainQ[d][k]].services \/ Gone(a, d)'
  <2>1. a \in saw[mainQ[d][k]].services \/ Gone(a, d)
    BY <1>2 DEF Screen, InTurn
  <2>2. Known(d, a)
    BY <1>0, <1>2, EarlierKnown
  <2> QED
    BY <1>0, <2>1, <2>2, GoneKept
<1> SUFFICES ASSUME NEW k \in 1..Len(mainQ'[d]), phase'[mainQ'[d][k]] = "refetched",
                    NEW a \in Adds, Earlier(d, k, a)'
             PROVE  a \in saw'[mainQ'[d][k]].services \/ Gone(a, d)'
  BY DEF InTurn
<1>3. CASE Apart(d)
  <2>1. \A j \in 1..Len(mainQ[d]) : /\ mainQ'[d][j] = mainQ[d][j]
                                    /\ phase'[mainQ[d][j]] = phase[mainQ[d][j]]
                                    /\ saw'[mainQ[d][j]] = saw[mainQ[d][j]]
    BY <1>1, <1>3 DEF Apart, Stays
  <2>2. k \in 1..Len(mainQ[d]) /\ mainQ'[d] = mainQ[d] /\ menu'[d] = menu[d]
    BY <1>3 DEF Apart
  <2>3. Earlier(d, k, a)
    BY <2>1, <2>2 DEF Earlier
  <2> QED
    BY <1>2, <2>1, <2>2, <2>3
<1>4. CASE Emptied(d)
  BY <1>4 DEF Emptied
<1>5. ASSUME NEW o \in Ops, CalledBack(d, o)
      PROVE  a \in saw'[mainQ'[d][k]].services \/ Gone(a, d)'
  <2>1. /\ 1 \in 1..Len(mainQ[d]) /\ mainQ[d][1] = o
        /\ \A j \in 1..Len(mainQ'[d]) : /\ j + 1 \in 1..Len(mainQ[d])
                                        /\ mainQ'[d][j] = mainQ[d][j + 1]
                                        /\ mainQ[d][j + 1] # o
    BY <1>0, <1>5, QueueMoved
  <2>2. \A j \in 1..Len(mainQ'[d]) : /\ phase'[mainQ'[d][j]] = phase[mainQ[d][j + 1]]
                                     /\ saw'[mainQ'[d][j]] = saw[mainQ[d][j + 1]]
    BY <1>1, <1>5, <2>1 DEF CalledBack, Stays
  <2>3. 1 < k + 1 /\ \A j \in 1..Len(mainQ'[d]) : j < k => j + 1 < k + 1
    OBVIOUS
  <2>4. Earlier(d, k + 1, a)
    <3>1. CASE a \in menu'[d]
      BY <1>5, <2>1, <2>3, <3>1 DEF CalledBack, Earlier
    <3>2. ASSUME NEW j \in 1..Len(mainQ'[d]), j < k, phase'[mainQ'[d][j]] = "refetched",
                 a \in saw'[mainQ'[d][j]].services
          PROVE  Earlier(d, k + 1, a)
      <4>1. /\ j + 1 \in 1..Len(mainQ[d]) /\ j + 1 < k + 1
            /\ phase[mainQ[d][j + 1]] = "refetched"
            /\ a \in saw[mainQ[d][j + 1]].services
        BY <2>1, <2>2, <2>3, <3>2
      <4> QED
        BY <4>1 DEF Earlier
    <3> QED
      BY <3>1, <3>2 DEF Earlier
  <2>5. phase[mainQ[d][k + 1]] = "refetched" /\ k + 1 \in 1..Len(mainQ[d])
    BY <2>1, <2>2
  <2> QED
    BY <1>2, <2>2, <2>4, <2>5
<1>6. ASSUME NEW o \in Ops, Called(d, o)
      PROVE  a \in saw'[mainQ'[d][k]].services \/ Gone(a, d)'
  <2>1. /\ \A j \in 1..Len(mainQ[d]) : mainQ[d][j] # o
        /\ \A j \in 1..Len(mainQ'[d]) :
             \/ j \in 1..Len(mainQ[d]) /\ mainQ'[d][j] = mainQ[d][j]
             \/ j = Len(mainQ[d]) + 1 /\ mainQ'[d][j] = o
    BY <1>0, <1>6, QueueMoved
  <2>2. \A j \in 1..Len(mainQ[d]) : /\ phase'[mainQ[d][j]] = phase[mainQ[d][j]]
                                    /\ saw'[mainQ[d][j]] = saw[mainQ[d][j]]
    BY <1>1, <1>6, <2>1 DEF Called, Stays
  <2>3. Len(mainQ[d]) \in Nat /\ k <= Len(mainQ[d]) + 1
    BY <1>0, <2>1, MainQueueFacts
  <2>4. \A j \in 1..Len(mainQ'[d]) : j < k => j \in 1..Len(mainQ[d]) /\ mainQ'[d][j] = mainQ[d][j]
    BY <2>1, <2>3
  <2>5. Earlier(d, k, a)
    BY <1>6, <2>2, <2>4 DEF Earlier, Called
  <2>6. CASE k \in 1..Len(mainQ[d]) /\ mainQ'[d][k] = mainQ[d][k]
    BY <1>2, <2>2, <2>5, <2>6
  <2>7. CASE mainQ'[d][k] = o
    <3>1. PICK copy \in {server, cache[d]} : saw'[o] = Overlay(d, copy)
      BY <1>6, <2>7 DEF Called
    <3>2. \E v : Recent(copy, d, v)
      BY <1>0, Sources
    <3>3. Known(d, a)
      BY <1>0, <2>5, EarlierKnown
    <3>4. a \in Overlay(d, copy).services \/ Gone(a, d)
      BY <1>0, <3>2, <3>3, ReadShows
    <3>5. Gone(a, d) => Gone(a, d)'
      BY <1>0, <3>3, GoneKept
    <3> QED
      BY <2>7, <3>1, <3>4, <3>5
  <2> QED
    BY <2>1, <2>6, <2>7
<1> QED
  BY <1>0, <1>3, <1>4, <1>5, <1>6, NextTurn DEF Turn

LEMMA InitScreen == Init => Screen
<1> SUFFICES ASSUME Init PROVE Screen
  OBVIOUS
<1>1. \A d \in Device : mainQ[d] = <<>> /\ Len(mainQ[d]) = 0
  BY DEF Init
<1>2. \A o \in Ops : landed[o] = 0
  BY DEF Init
<1>3. WaitsOnce /\ Sent /\ \A d \in Device : InTurn(d)
  BY <1>1, <1>2 DEF WaitsOnce, Sent, InTurn
<1>4. OwnChangeShows
  BY <1>2 DEF OwnChangeShows, Ops, Writers
<1> QED
  BY <1>3, <1>4, InitAware DEF Screen

LEMMA NextScreen == Screen /\ [Next]_vars => Screen'
<1> SUFFICES ASSUME Screen, [Next]_vars PROVE Screen'
  OBVIOUS
<1>1. Aware' /\ TypeOK'
  BY NextAware DEF Screen, Aware, Line, IInv
<1>2. WaitsOnce' /\ Sent'
  BY <1>1, WaitsOnceNext, SentNext DEF Screen, Aware
<1> QED
  BY <1>1, <1>2, OwnChangeNext, InTurnNext DEF Screen

\* The screen that a run shows after its own change, accepted by the server, has the
\* change, or a write that did not know of it has landed since or waits on the device, or
\* an upload that knew of it wrote an older URL, or the client was told that the server
\* had refused it (AddServicesVC.swift:53-59 with MenuVC.swift:19-22,
\* ProfileVC.swift:188-192).
THEOREM ChangesAreShown == Spec => []OwnChangeShows
<1>1. Screen => OwnChangeShows
  BY DEF Screen
<1> QED
  BY <1>1, InitScreen, NextScreen, PTL DEF Spec

\* Between two restarts the menu of a device loses a stored service only behind a write
\* that did not know of it, or, on the device that added it, after the client was told
\* that the server had refused it: answers are shown in the order they were read, and
\* what is read later is no older (MenuVC.swift:30-44).
THEOREM MenuKeepsItsServices == Spec => MenuNeverGoesBack
<1> DEFINE Step == \A d \in Device : \A a \in menu[d] \ menu'[d] :
                     landed[a] > 0 /\ crashes' = crashes =>
                       Buried(a, d) \/ (a \in denied /\ dev[a] = d)
<1>1. Screen /\ [Next]_vars => [Step]_vars
  <2> SUFFICES ASSUME Screen, [Next]_vars, NEW d \in Device, NEW a \in menu[d] \ menu'[d],
                      landed[a] > 0, crashes' = crashes
               PROVE  Buried(a, d) \/ (a \in denied /\ dev[a] = d)
    OBVIOUS
  <2>1. Line /\ WaitsOnce /\ a \in Adds
    BY DEF Screen, Aware, Line, IInv, TypeOK
  <2>2. PICK o \in Ops : /\ CalledBack(d, o) /\ phase[o] = "refetched"
                         /\ menu'[d] = saw[o].services
    BY <2>1, NextTurn DEF Turn, Apart, Emptied, CalledBack, Called
  <2>3. 1 \in 1..Len(mainQ[d]) /\ mainQ[d][1] = o
    BY <2>1, <2>2, QueueMoved
  <2>4. Earlier(d, 1, a)
    BY DEF Earlier
  <2>5. a \in saw[o].services \/ Gone(a, d)
    BY <2>1, <2>2, <2>3, <2>4 DEF Screen, InTurn
  <2> QED
    BY <2>2, <2>5 DEF Gone
<1> QED
  BY <1>1, InitScreen, NextScreen, PTL DEF Spec, MenuNeverGoesBack
=============================================================================
