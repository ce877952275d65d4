--------------------------- MODULE SalonDocProofs ---------------------------
(***************************************************************************)
(* Proofs about SalonDoc, for every set of devices, every number of runs   *)
(* of every kind and every bound: the type invariant, that a service the   *)
(* server accepted is lost only to a stale write and the picture and the   *)
(* score fall behind only by a race, that only a repeated sign-up unsets a *)
(* field, and that the write queue of every device is the one WriteQueue   *)
(* describes.                                                              *)
(***************************************************************************)
EXTENDS SalonQueue, SequenceTheorems, FiniteSetTheorems, WellFoundedInduction, TLAPS

\* A non-empty set of indices has a greatest member: what SelectLastInSeq needs.
LEMMA MaxIndex ==
  ASSUME NEW n \in Nat, NEW I \in SUBSET (1..n), I # {}
  PROVE  /\ Max(I) \in I
         /\ \A j \in I : j <= Max(I)
<1> DEFINE Rest == {j..n : j \in I}
<1>1. Rest \subseteq SUBSET (1..n) /\ Rest # {}
  <2>1. \A j \in I : j..n \subseteq 1..n
    OBVIOUS
  <2> QED
    BY <2>1
<1>2. PICK m \in Rest : \A r \in Rest : ~ (<<r, m>> \in StrictSubsetOrdering(1..n))
  <2>1. FiniteSubsetsOf(1..n) = SUBSET (1..n)
    <3>1. IsFiniteSet(1..n)
      BY FS_Interval
    <3> QED
      BY <3>1, FS_FiniteSubsetsOfFinite
  <2>2. IsWellFoundedOn(StrictSubsetOrdering(1..n), SUBSET (1..n))
    BY <2>1, FS_StrictSubsetOrderingWellFounded
  <2> HIDE DEF Rest
  <2> QED
    BY <1>1, <2>2, WFMin
<1>3. \A r \in Rest : r \subseteq m => r = m
  BY <1>1, <1>2 DEF StrictSubsetOrdering
<1>4. PICK k \in I : m = k..n
  OBVIOUS
<1>5. \A j \in I : k >= j
  <2> SUFFICES ASSUME NEW j \in I, k < j PROVE FALSE
    OBVIOUS
  <2>1. j..n \in Rest /\ j..n \subseteq m
    BY <1>4
  <2>2. k \in m /\ k \notin j..n
    BY <1>4
  <2> QED
    BY <2>1, <2>2, <1>3
<1>6. Max(I) \in I /\ \A y \in I : Max(I) >= y
  BY <1>5 DEF Max
<1> QED
  <2>1. Max(I) \in 1..n
    BY <1>6
  <2>2. ASSUME NEW j \in I PROVE j <= Max(I)
    BY <1>6, <2>1
  <2> QED
    BY <1>6, <2>2

\* The greatest index, or 0 if there is none: it is the last place if that is one.
LEMMA LastIndex ==
  ASSUME NEW n \in Nat, NEW I \in SUBSET (1..n)
  PROVE  LET i == IF I # {} THEN Max(I) ELSE 0
         IN i \in 0..n /\ (n \in I => i = n)
<1>1. CASE I # {}
  <2>1. Max(I) \in I /\ \A j \in I : j <= Max(I)
    BY <1>1, MaxIndex
  <2>2. Max(I) \in 1..n
    BY <2>1
  <2> QED
    BY <2>1, <2>2, <1>1
<1>2. CASE I = {}
  BY <1>2
<1> QED
  BY <1>1, <1>2

-----------------------------------------------------------------------------
(* Types of the copies the client computes. *)

LEMMA NoDocType == NoDoc \in Copy /\ FreshSalon \in Copy
  BY DEF NoDoc, FreshSalon, Copy

LEMMA ApplyType ==
  ASSUME TypeOK, NEW doc \in Copy, NEW o \in Ops
  PROVE  Apply(doc, o) \in Copy
<1>1. wrote[o] \in Copy
  BY DEF TypeOK
<1>2. ASSUME NEW c \in Copy PROVE Merge(c, o) \in Copy
  BY <1>1 DEF Merge, Copy
<1> QED
  BY <1>2, NoDocType DEF Apply

LEMMA RevisedType ==
  ASSUME TypeOK, NEW o \in Ops
  PROVE  /\ Revised(o) \in Copy
         /\ Revised(o).seen = saw[o].seen
         /\ Revised(o).services = IF o \in Adds THEN saw[o].services \cup {o}
                                               ELSE saw[o].services
         /\ Revised(o).image = IF o \in Images THEN input[o] ELSE saw[o].image
         /\ Revised(o).score = IF o \in Rates THEN input[o] ELSE saw[o].score
<1>1. saw[o] \in Copy /\ input[o] \in Nat
  BY DEF TypeOK
<1> QED
  BY <1>1 DEF Revised, Copy

\* What the client answers is a copy: the cached one without pending writes; with
\* some, seen and score are the last one's, and so are services and image if it has any.
LEMMA OverlayFacts ==
  ASSUME TypeOK, NEW d \in Device, NEW copy \in Copy
  PROVE  /\ Overlay(d, copy) \in Copy
         /\ pending[d] = <<>> => Overlay(d, copy) = copy
         /\ pending[d] # <<>> =>
              LET p == pending[d][Len(pending[d])]
              IN /\ Overlay(d, copy).seen = wrote[p].seen \cup {p}
                 /\ wrote[p].services # {} => Overlay(d, copy).services = wrote[p].services
                 /\ wrote[p].image # 0 => Overlay(d, copy).image = wrote[p].image
                 /\ Overlay(d, copy).score = wrote[p].score
<1> DEFINE q == pending[d]
           base == IF Contains(q, SignUp) THEN NoDoc ELSE copy
           I == {k \in 1..Len(q) : wrote[q[k]].image # 0}
           S == {k \in 1..Len(q) : wrote[q[k]].services # {}}
           i == IF I # {} THEN Max(I) ELSE 0
           s == IF S # {} THEN Max(S) ELSE 0
           p == q[Len(q)]
<1>1. q \in Seq(Ops) /\ Len(q) \in Nat /\ \A k \in 1..Len(q) : q[k] \in Ops
  <2>1. q \in Seq(Ops)
    BY DEF TypeOK
  <2> HIDE DEF q
  <2> QED
    BY <2>1, ElementOfSeq, LenProperties
<1>2. \A o \in Ops : wrote[o] \in Copy
  BY DEF TypeOK
<1>3. base \in Copy
  BY NoDocType
<1>4. i \in 0..Len(q) /\ (Len(q) \in I => i = Len(q))
  <2>1. I \in SUBSET (1..Len(q))
    OBVIOUS
  <2> HIDE DEF I, q
  <2> QED
    BY <2>1, <1>1, LastIndex
<1>5. s \in 0..Len(q) /\ (Len(q) \in S => s = Len(q))
  <2>1. S \in SUBSET (1..Len(q))
    OBVIOUS
  <2> HIDE DEF S, q
  <2> QED
    BY <2>1, <1>1, LastIndex
<1>6. CASE pending[d] = <<>>
  BY <1>6 DEF Overlay
<1>7. CASE pending[d] # <<>>
  <2> DEFINE view == [exists   |-> TRUE,
                      image    |-> IF i = 0 THEN base.image ELSE wrote[q[i]].image,
                      services |-> IF s = 0 THEN base.services ELSE wrote[q[s]].services,
                      score    |-> wrote[p].score,
                      seen     |-> wrote[p].seen \cup {p}]
  <2>1. Overlay(d, copy) = view
    BY <1>7 DEF Overlay, SelectLastInSeq, Last
  <2>2. Len(q) \in 1..Len(q) /\ p \in Ops /\ p = pending[d][Len(pending[d])]
    BY <1>1, <1>7, EmptySeq
  <2>3. (IF i = 0 THEN base.image ELSE wrote[q[i]].image) \in Nat
    <3> HIDE DEF i, base, q
    <3>1. i # 0 => wrote[q[i]] \in Copy
      BY <1>1, <1>2, <1>4
    <3> QED
      BY <3>1, <1>3 DEF Copy
  <2>4. (IF s = 0 THEN base.services ELSE wrote[q[s]].services) \in SUBSET Adds
    <3> HIDE DEF s, base, q
    <3>1. s # 0 => wrote[q[s]] \in Copy
      BY <1>1, <1>2, <1>5
    <3> QED
      BY <3>1, <1>3 DEF Copy
  <2>5. wrote[p].score \in Nat /\ wrote[p].seen \cup {p} \in SUBSET Ops
    BY <1>2, <2>2 DEF Copy
  <2> HIDE DEF i, s, base, p
  <2>6. view \in Copy
    BY <2>3, <2>4, <2>5 DEF Copy
  <2>7. view.services = IF s = 0 THEN base.services ELSE wrote[q[s]].services
    OBVIOUS
  <2>8. view.seen = wrote[p].seen \cup {p}
    OBVIOUS
  <2>9. wrote[p].services # {} => s # 0 /\ q[s] = p
    <3> HIDE DEF q
    <3>1. wrote[p].services # {} => Len(q) \in S
      BY <2>2 DEF p
    <3> HIDE DEF S
    <3> QED
      BY <3>1, <2>2, <1>1, <1>5 DEF p
  <2>10. wrote[p].image # 0 => i # 0 /\ q[i] = p
    <3> HIDE DEF q
    <3>1. wrote[p].image # 0 => Len(q) \in I
      BY <2>2 DEF p
    <3> HIDE DEF I
    <3> QED
      BY <3>1, <2>2, <1>1, <1>4 DEF p
  <2>11. view.image = IF i = 0 THEN base.image ELSE wrote[q[i]].image
    OBVIOUS
  <2>12. view.score = wrote[p].score
    OBVIOUS
  <2> HIDE DEF view
  <2> QED
    BY <1>7, <2>1, <2>2, <2>6, <2>7, <2>8, <2>9, <2>10, <2>11, <2>12
<1> QED
  BY <1>6, <1>7
-----------------------------------------------------------------------------
(* The type invariant. *)

LEMMA InitType == Init => TypeOK
<1> SUFFICES ASSUME Init PROVE TypeOK
  OBVIOUS
<1>1. SignUp \in Ops /\ NoDoc \in Copy /\ FreshSalon \in Copy
  BY NoDocType DEF Ops
<1>2. <<>> \in Seq(Ops) /\ <<SignUp>> \in Seq(Ops)
  BY <1>1
<1> QED
  BY <1>1, <1>2 DEF Init, TypeOK, Phases, Toasts

\* A step of the main queue: the queue shrinks, the run moves to another phase.
LEMMA CallbackType ==
  ASSUME TypeOK, NEW d \in Device, NEW o \in Ops, NEW from, NEW to \in Phases,
         Callback(d, o, from, to)
  PROVE  mainQ' \in [Device -> Seq(Ops)] /\ phase' \in [Ops -> Phases]
<1>1. mainQ[d] \in Seq(Ops) /\ mainQ[d] # <<>>
  BY DEF TypeOK, Callback
<1>2. Tail(mainQ[d]) \in Seq(Ops)
  BY <1>1, HeadTailProperties
<1> QED
  BY <1>2 DEF TypeOK, Callback

LEMMA BeginType ==
  ASSUME TypeOK, NEW o \in Ops, Begin(o)
  PROVE  TypeOK'
<1>1. ASSUME NEW p \in Phases, Start(o, p) PROVE TypeOK'
  BY <1>1 DEF TypeOK, Start, docVars, clientVars, worldVars, uiVars
<1>2. {"fetching", "uploading", "scoring", "refetching"} \subseteq Phases
  BY DEF Phases
<1> QED
  BY <1>1, <1>2 DEF Begin, HandleAddService, ChangeProfileImage, RefreshReviewData,
                    GetAllSalons, FetchAndSaveProfile

LEMMA RemoteAnswerType ==
  ASSUME TypeOK, NEW o \in Ops, RemoteAnswer(o)
  PROVE  TypeOK'
<1> USE DEF docVars, clientVars, worldVars, uiVars
<1>0. dev[o] \in Device
  BY RunsAssumption
<1>1. Append(mainQ[dev[o]], o) \in Seq(Ops)
  BY <1>0 DEF TypeOK
<1>2. \A p \in Fetching : Answer(p) \in Phases /\ NoAnswer(p) \in Phases
  BY DEF Fetching, Answer, NoAnswer, Phases
<1>3. CASE PutData(o)
  BY <1>3 DEF TypeOK, PutData, Phases
<1>4. CASE DownloadURL(o)
  BY <1>4 DEF TypeOK, DownloadURL, Phases
<1>5. CASE UploadFails(o)
  BY <1>5 DEF TypeOK, UploadFails, Phases, Toasts
<1>6. ASSUME NEW n \in 0..MaxComments, GetReviews(o, n) PROVE TypeOK'
  <2>1. n \in Nat
    BY BoundsAssumption
  <2> QED
    BY <1>6, <2>1 DEF TypeOK, GetReviews, Phases
<1>7. CASE GetReviewsFails(o)
  BY <1>7 DEF TypeOK, GetReviewsFails, Phases
<1>8. CASE FetchFromServer(o)
  <2>1. Overlay(dev[o], server) \in Copy
    BY <1>0, OverlayFacts DEF TypeOK
  <2>2. cache' \in [Device -> Copy] /\ saw' \in [Ops -> Copy]
    BY <1>8, <2>1 DEF TypeOK, FetchFromServer
  <2>3. phase' \in [Ops -> Phases] /\ mainQ' \in [Device -> Seq(Ops)]
    BY <1>8, <1>1, <1>2 DEF TypeOK, FetchFromServer
  <2> QED
    BY <1>8, <2>2, <2>3 DEF TypeOK, FetchFromServer
<1>9. CASE FetchFromCache(o)
  <2>1. View(dev[o]) \in Copy
    BY <1>0, OverlayFacts DEF TypeOK, View
  <2>2. saw' \in [Ops -> Copy]
    BY <1>9, <2>1 DEF TypeOK, FetchFromCache
  <2>3. phase' \in [Ops -> Phases] /\ mainQ' \in [Device -> Seq(Ops)]
    BY <1>9, <1>1, <1>2 DEF TypeOK, FetchFromCache
  <2> QED
    BY <1>9, <2>2, <2>3 DEF TypeOK, FetchFromCache
<1>10. CASE FetchFails(o)
  <2>1. phase' \in [Ops -> Phases] /\ mainQ' \in [Device -> Seq(Ops)]
    BY <1>10, <1>1, <1>2 DEF TypeOK, FetchFails
  <2> QED
    BY <1>10, <2>1 DEF TypeOK, FetchFails
<1> QED
  BY <1>3, <1>4, <1>5, <1>6, <1>7, <1>8, <1>9, <1>10 DEF RemoteAnswer

LEMMA MainQueueType ==
  ASSUME TypeOK, NEW d \in Device, NEW o \in Ops, MainQueue(d, o)
  PROVE  TypeOK'
<1> USE DEF docVars, clientVars, worldVars, uiVars
<1>0. {"pending", "failed", "refetching", "done"} \subseteq Phases
  BY DEF Phases
<1>1. CASE UpdateUserProfile(d, o)
  <2>1. mainQ' \in [Device -> Seq(Ops)] /\ phase' \in [Ops -> Phases]
    BY <1>0, <1>1, CallbackType DEF UpdateUserProfile
  <2>2. wrote' \in [Ops -> Copy]
    BY <1>1, RevisedType DEF TypeOK, UpdateUserProfile
  <2>3. pending' \in [Device -> Seq(Ops)]
    BY <1>1 DEF TypeOK, UpdateUserProfile
  <2> QED
    BY <1>1, <2>1, <2>2, <2>3 DEF TypeOK, UpdateUserProfile
<1>2. CASE FetchFailed(d, o)
  <2>1. mainQ' \in [Device -> Seq(Ops)] /\ phase' \in [Ops -> Phases]
    BY <1>0, <1>2, CallbackType DEF FetchFailed
  <2>2. toast' \in [Ops -> Toasts]
    BY <1>2 DEF TypeOK, FetchFailed, Toasts
  <2> QED
    BY <1>2, <2>1, <2>2 DEF TypeOK, FetchFailed
<1>3. CASE ServiceWritten(d, o)
  <2>1. mainQ' \in [Device -> Seq(Ops)] /\ phase' \in [Ops -> Phases]
    BY <1>0, <1>3, CallbackType DEF ServiceWritten
  <2>2. toast' \in [Ops -> Toasts]
    BY <1>3 DEF TypeOK, ServiceWritten, Toasts
  <2> QED
    BY <1>3, <2>1, <2>2 DEF TypeOK, ServiceWritten
<1>4. CASE ImageWritten(d, o)
  <2>1. mainQ' \in [Device -> Seq(Ops)] /\ phase' \in [Ops -> Phases]
    BY <1>0, <1>4, CallbackType DEF ImageWritten
  <2> QED
    BY <1>4, <2>1 DEF TypeOK, ImageWritten
<1>5. CASE ImageRejected(d, o)
  <2>1. mainQ' \in [Device -> Seq(Ops)] /\ phase' \in [Ops -> Phases]
    BY <1>0, <1>5, CallbackType DEF ImageRejected
  <2>2. toast' \in [Ops -> Toasts]
    BY <1>5 DEF TypeOK, ImageRejected, Toasts
  <2> QED
    BY <1>5, <2>1, <2>2 DEF TypeOK, ImageRejected
<1>6. CASE RatingWritten(d, o)
  <2>1. mainQ' \in [Device -> Seq(Ops)] /\ phase' \in [Ops -> Phases]
    <3>1. PICK answer \in {"acked", "rejected"} :
            Callback(d, o, answer, IF answer = "acked" THEN "done" ELSE "failed")
      BY <1>6 DEF RatingWritten
    <3>2. (IF answer = "acked" THEN "done" ELSE "failed") \in Phases
      BY <1>0
    <3> QED
      BY <3>1, <3>2, CallbackType
  <2> QED
    BY <1>6, <2>1 DEF TypeOK, RatingWritten
<1>7. CASE ShowServices(d, o)
  <2>1. mainQ' \in [Device -> Seq(Ops)] /\ phase' \in [Ops -> Phases]
    BY <1>0, <1>7, CallbackType DEF ShowServices
  <2>2. menu' \in [Device -> SUBSET Adds]
    BY <1>7 DEF TypeOK, ShowServices, Copy
  <2> QED
    BY <1>7, <2>1, <2>2 DEF TypeOK, ShowServices
<1>8. CASE SaveUserProfile(d, o)
  <2>1. mainQ' \in [Device -> Seq(Ops)] /\ phase' \in [Ops -> Phases]
    BY <1>0, <1>8, CallbackType DEF SaveUserProfile
  <2>2. profile' \in [Device -> Copy] /\ toast' \in [Ops -> Toasts]
    BY <1>8 DEF TypeOK, SaveUserProfile, Toasts
  <2> QED
    BY <1>8, <2>1, <2>2 DEF TypeOK, SaveUserProfile
<1>9. CASE RefetchFailed(d, o)
  <2>1. mainQ' \in [Device -> Seq(Ops)] /\ phase' \in [Ops -> Phases]
    BY <1>0, <1>9, CallbackType DEF RefetchFailed
  <2> QED
    BY <1>9, <2>1 DEF TypeOK, RefetchFailed
<1> QED
  BY <1>1, <1>2, <1>3, <1>4, <1>5, <1>6, <1>7, <1>8, <1>9 DEF MainQueue

\* The write at the head of a queue is a run, and the rest is a queue again.
LEMMA HeadOfPending ==
  ASSUME TypeOK, NEW d \in Device, pending[d] # <<>>
  PROVE  /\ Head(pending[d]) \in Ops
         /\ Tail(pending[d]) \in Seq(Ops)
         /\ Len(pending[d]) \in Nat \ {0}
         /\ Head(pending[d]) = pending[d][1]
         /\ Len(Tail(pending[d])) = Len(pending[d]) - 1
         /\ \A k \in 1..Len(Tail(pending[d])) : Tail(pending[d])[k] = pending[d][k+1]
<1>1. pending[d] \in Seq(Ops)
  BY DEF TypeOK
<1> QED
  BY <1>1, HeadTailProperties, EmptySeq

LEMMA AnsweredType ==
  ASSUME TypeOK, NEW d \in Device, NEW o \in Ops, pending[d] # <<>>,
         NEW outcome \in Phases, NEW over \in Phases, Answered(d, o, outcome, over)
  PROVE  /\ pending' \in [Device -> Seq(Ops)]
         /\ phase' \in [Ops -> Phases]
         /\ mainQ' \in [Device -> Seq(Ops)]
<1>1. Tail(pending[d]) \in Seq(Ops)
  BY HeadOfPending
<1>2. (IF o \in deaf THEN mainQ[d] ELSE Append(mainQ[d], o)) \in Seq(Ops)
  BY DEF TypeOK
<1> QED
  BY <1>1, <1>2 DEF TypeOK, Answered

\* The write the server applies next is a run, and one of the pending ones.
LEMMA NextToTake ==
  ASSUME TypeOK, NEW d \in Device, CommitWrite(d)
  PROVE  /\ taken[d] + 1 \in 1..Len(pending[d])
         /\ pending[d][taken[d] + 1] \in Ops
<1>1. pending[d] \in Seq(Ops) /\ taken[d] \in Nat /\ taken[d] < Len(pending[d])
  BY DEF TypeOK, CommitWrite
<1>2. Len(pending[d]) \in Nat
  BY <1>1
<1>3. taken[d] + 1 \in 1..Len(pending[d])
  BY <1>1, <1>2
<1> QED
  BY <1>1, <1>3, ElementOfSeq

LEMMA WriteStreamType ==
  ASSUME TypeOK, NEW d \in Device, WriteStream(d)
  PROVE  TypeOK'
<1> USE DEF docVars, clientVars, runVars, worldVars, uiVars
<1> DEFINE o == Head(pending[d])
<1>0. pending[d] # <<>> /\ o \in Ops
  <2>1. pending[d] # <<>>
    <3>1. CASE CommitWrite(d)
      BY <3>1, NextToTake, EmptySeq
    <3> QED
      BY <3>1 DEF WriteStream, AcknowledgeBatch, RejectBatch
  <2> QED
    BY <2>1, HeadOfPending
<1>1. {"acked", "done", "rejected", "failed"} \subseteq Phases
  BY DEF Phases
<1> HIDE DEF o
<1>2. CASE CommitWrite(d)
  <2> DEFINE c == pending[d][taken[d] + 1]
  <2>0. c \in Ops
    BY <1>2, NextToTake
  <2> HIDE DEF c
  <2>1. Apply(server, c) \in Copy /\ server \in Copy
    BY <2>0, ApplyType DEF TypeOK
  <2>2. [Apply(server, c) EXCEPT !.seen = server.seen \cup {c}] \in Copy
    BY <2>0, <2>1 DEF Copy
  <2>3. server' \in Copy
    BY <1>2, <2>2 DEF CommitWrite, c
  <2>4. landed' \in [Ops -> Nat] /\ last' \in [Ops -> Nat] /\ writes' \in Nat
    <3>1. /\ landed' = [landed EXCEPT ![c] = IF @ = 0 THEN writes + 1 ELSE @]
          /\ last' = [last EXCEPT ![c] = writes + 1]
          /\ writes' = writes + 1
      BY <1>2 DEF CommitWrite, c
    <3>2. landed \in [Ops -> Nat] /\ last \in [Ops -> Nat] /\ writes + 1 \in Nat
      BY DEF TypeOK
    <3> QED
      BY <3>1, <3>2
  <2>5. taken' \in [Device -> Nat]
    <3>1. taken \in [Device -> Nat] /\ taken[d] + 1 \in Nat
      BY DEF TypeOK
    <3>2. taken' = [taken EXCEPT ![d] = @ + 1]
      BY <1>2 DEF CommitWrite
    <3> QED
      BY <3>1, <3>2
  <2> QED
    BY <1>2, <2>3, <2>4, <2>5 DEF TypeOK, CommitWrite
<1>3. CASE AcknowledgeBatch(d)
  <2>1. Answered(d, o, "acked", "done")
    BY <1>3 DEF AcknowledgeBatch, o
  <2>2. /\ pending' \in [Device -> Seq(Ops)]
        /\ phase' \in [Ops -> Phases]
        /\ mainQ' \in [Device -> Seq(Ops)]
    BY <1>0, <1>1, <2>1, AnsweredType
  <2>3. Apply(cache[d], o) \in Copy /\ last[o] \in Nat
    BY <1>0, ApplyType DEF TypeOK
  <2>4. cache' \in [Device -> Copy] /\ version' \in [Device -> Nat]
    BY <1>3, <2>3 DEF TypeOK, AcknowledgeBatch, o
  <2>5. taken' \in [Device -> Nat]
    BY <1>3 DEF TypeOK, AcknowledgeBatch
  <2> QED
    BY <1>3, <2>2, <2>4, <2>5 DEF TypeOK, AcknowledgeBatch
<1>4. CASE RejectBatch(d)
  <2>1. Answered(d, o, "rejected", "failed")
    BY <1>4 DEF RejectBatch, o
  <2>2. /\ pending' \in [Device -> Seq(Ops)]
        /\ phase' \in [Ops -> Phases]
        /\ mainQ' \in [Device -> Seq(Ops)]
    BY <1>0, <1>1, <2>1, AnsweredType
  <2>3. taken' \in [Device -> Nat] /\ denied' \subseteq Ops
    BY <1>0, <1>1, <1>4, HeadOfPending DEF TypeOK, RejectBatch
  <2> QED
    BY <1>4, <2>2, <2>3 DEF TypeOK, RejectBatch
<1> QED
  BY <1>2, <1>3, <1>4 DEF WriteStream

LEMMA WorldType ==
  ASSUME TypeOK, World
  PROVE  TypeOK'
<1> USE DEF docVars, clientVars, runVars, uiVars
<1>1. ASSUME NEW d \in Device, NetworkDown(d) PROVE TypeOK'
  <2>1. taken' \in [Device -> Nat]
    BY <1>1 DEF TypeOK, NetworkDown
  <2> QED
    BY <1>1, <2>1 DEF TypeOK, NetworkDown
<1>2. ASSUME NEW d \in Device, NetworkUp(d) PROVE TypeOK'
  BY <1>2 DEF TypeOK, NetworkUp
<1>3. ASSUME NEW d \in Device, Crash(d) PROVE TypeOK'
  <2>1. phase' \in [Ops -> Phases]
    BY <1>3 DEF TypeOK, Crash, Phases
  <2>2. mainQ' \in [Device -> Seq(Ops)]
    BY <1>3 DEF TypeOK, Crash
  <2>3. deaf' \subseteq Ops /\ taken' \in [Device -> Nat] /\ menu' \in [Device -> SUBSET Adds] /\ crashes' \in Nat
    BY <1>3 DEF TypeOK, Crash
  <2> QED
    BY <1>3, <2>1, <2>2, <2>3 DEF TypeOK, Crash
<1>4. CASE CustomerComments
  BY <1>4 DEF TypeOK, CustomerComments
<1> QED
  BY <1>1, <1>2, <1>3, <1>4 DEF World

\* Every reachable state has the declared shape: in particular whatever the
\* client answers from its cache and its queue is a salon document.
THEOREM TypeCorrect == Spec => []TypeOK
<1>1. Init => TypeOK
  BY InitType
<1>2. TypeOK /\ [Next]_vars => TypeOK'
  <2> SUFFICES ASSUME TypeOK, [Next]_vars PROVE TypeOK'
    OBVIOUS
  <2>1. CASE UNCHANGED vars
    BY <2>1 DEF TypeOK, vars, docVars, clientVars, runVars, worldVars, uiVars
  <2>2. CASE Next
    BY <2>2, BeginType, RemoteAnswerType, MainQueueType, WriteStreamType, WorldType DEF Next
  <2> QED
    BY <2>1, <2>2
<1> QED
  BY <1>1, <1>2, PTL DEF Spec

-----------------------------------------------------------------------------
(* Nothing is lost but to a stale write or to a race of two runs. *)

\* A run past the point where it handed its document to setData, or that ended before:
\* neither what it wrote nor what it will ever write changes any more.
WrittenPhases == {"pending", "acked", "rejected", "failed", "refetching", "refetched",
                  "unrefetched", "done", "lost"}
Written == {o \in Ops : phase[o] \in WrittenPhases}

\* A write that has landed is counted, and known to the server's copy.
Landing ==
  \A o \in Ops :
    /\ landed[o] > 0 => o \in Written /\ landed[o] <= writes
    /\ o \in server.seen <=> landed[o] > 0
    /\ last[o] > 0 <=> landed[o] > 0
    /\ last[o] <= writes

\* A run of o's kind that knew of o's write set the field to an older value.
Raced(o) ==
  \E w \in Ops : /\ {o, w} \subseteq Images \/ {o, w} \subseteq Rates
                 /\ o \in wrote[w].seen
                 /\ input[w] < input[o]

Excused(o) == Overwritten(o) \/ Raced(o)

\* The copy has what o writes, or something newer.
Shows(copy, o) ==
  /\ o \in Adds => o \in copy.services
  /\ o \in Images => copy.image >= input[o]
  /\ o \in Rates => copy.score >= input[o]

\* A copy shows the writes it knows of, but those lost to a stale write or a race.
Faithful(copy) == \A o \in copy.seen : o \in Written /\ (Shows(copy, o) \/ Excused(o))

\* A queued write carries what its run was to write.
Carried ==
  \A d \in Device : \A k \in 1..Len(pending[d]) :
    pending[d][k] \in Written /\ Shows(wrote[pending[d][k]], pending[d][k])

\* Only a run that has written has a document to show for it; sign-up has.
Writing == SignUp \in Written /\ \A w \in Ops : wrote[w] # NoDoc => w \in Written

\* The inductive invariant: every copy anywhere in the system is faithful.
IInv ==
  /\ TypeOK
  /\ Landing
  /\ Carried
  /\ Writing
  /\ Faithful(server)
  /\ \A d \in Device : Faithful(cache[d])
  /\ \A o \in Ops : Faithful(saw[o]) /\ Faithful(wrote[o])

LEMMA InitIInv == Init => IInv
<1> SUFFICES ASSUME Init PROVE IInv
  OBVIOUS
<1>1. TypeOK
  BY InitType
<1>2. SignUp \notin Adds \cup Images \cup Rates /\ SignUp \in Ops
  BY RunsAssumption DEF Writers, Ops
<1>3. Landing
  BY DEF Init, Landing, NoDoc
<1>4. Carried
  <2>1. \A d \in Device : \A k \in 1..Len(pending[d]) : pending[d][k] = SignUp
    BY DEF Init
  <2>2. SignUp \in Written
    BY <1>2 DEF Init, Written, WrittenPhases
  <2> QED
    BY <2>1, <2>2, <1>2 DEF Carried, Shows
<1>5. NoDoc.seen = {} /\ FreshSalon.seen = {}
  BY DEF NoDoc, FreshSalon
<1>6. Faithful(NoDoc) /\ Faithful(FreshSalon)
  BY <1>5 DEF Faithful
<1>7. Writing
  BY <1>2 DEF Init, Writing, Written, WrittenPhases
<1> QED
  BY <1>1, <1>3, <1>4, <1>6, <1>7 DEF Init, IInv

\* What every step does to runs that have written and to the server's order of writes.
Onward ==
  /\ \A o \in Written : /\ o \in Written'
                        /\ input'[o] = input[o]
                        /\ wrote'[o] = wrote[o]
  /\ \A o \in Ops : /\ landed[o] > 0 => landed'[o] = landed[o]
                    /\ last'[o] >= last[o]

\* An excuse, once given, holds for ever.
LEMMA ExcusesKept ==
  ASSUME IInv, Onward, TypeOK', NEW o \in Written, Excused(o)
  PROVE  Excused(o)'
<1>1. /\ landed \in [Ops -> Nat] /\ last \in [Ops -> Nat]
      /\ landed' \in [Ops -> Nat] /\ last' \in [Ops -> Nat]
      /\ o \in Ops
  BY DEF IInv, TypeOK, Written
<1>2. CASE Overwritten(o)
  <2>1. PICK w \in Ops \ {o} : landed[o] > 0 /\ last[w] > landed[o] /\ o \notin wrote[w].seen
    BY <1>2 DEF Overwritten
  <2>2. last[w] > 0
    BY <1>1, <2>1
  <2>3. w \in Written
    BY <2>2 DEF IInv, Landing
  <2>4. landed'[o] = landed[o] /\ last'[w] >= last[w] /\ wrote'[w] = wrote[w]
    BY <1>1, <2>1, <2>3 DEF Onward
  <2>5. last'[w] > landed'[o] /\ landed'[o] > 0
    BY <1>1, <2>1, <2>4
  <2> QED
    BY <2>1, <2>4, <2>5 DEF Excused, Overwritten
<1>3. CASE Raced(o)
  <2>1. PICK w \in Ops : /\ {o, w} \subseteq Images \/ {o, w} \subseteq Rates
                         /\ o \in wrote[w].seen
                         /\ input[w] < input[o]
    BY <1>3 DEF Raced
  <2>2. w \in Written
    BY <2>1 DEF IInv, Writing, NoDoc
  <2>3. input'[w] = input[w] /\ wrote'[w] = wrote[w] /\ input'[o] = input[o]
    BY <2>2 DEF Onward
  <2>4. Raced(o)'
    BY <2>1, <2>3 DEF Raced
  <2> QED
    BY <2>4 DEF Excused
<1> QED
  BY <1>2, <1>3 DEF Excused

\* So a copy that is faithful stays it.
LEMMA FaithfulKept ==
  ASSUME IInv, Onward, TypeOK', NEW copy, Faithful(copy)
  PROVE  Faithful(copy)'
<1> SUFFICES ASSUME NEW o \in copy.seen
             PROVE  o \in Written' /\ (Shows(copy, o)' \/ Excused(o)')
  BY DEF Faithful
<1>1. o \in Written /\ (Shows(copy, o) \/ Excused(o))
  BY DEF Faithful
<1>2. o \in Written' /\ input'[o] = input[o]
  BY <1>1 DEF Onward
<1>3. Shows(copy, o) => Shows(copy, o)'
  BY <1>2 DEF Shows
<1>4. Excused(o) => Excused(o)'
  BY <1>1, ExcusesKept
<1> QED
  BY <1>1, <1>2, <1>3, <1>4

LEMMA CarriedKept ==
  ASSUME IInv, Onward,
         \A d \in Device : \A k \in 1..Len(pending'[d]) :
           \E j \in 1..Len(pending[d]) : pending'[d][k] = pending[d][j]
  PROVE  Carried'
<1> SUFFICES ASSUME NEW d \in Device, NEW k \in 1..Len(pending'[d])
             PROVE  /\ pending'[d][k] \in Written'
                    /\ Shows(wrote[pending[d][k]], pending[d][k])'
  BY DEF Carried
<1>1. PICK j \in 1..Len(pending[d]) : pending'[d][k] = pending[d][j]
  OBVIOUS
<1>2. pending[d][j] \in Written /\ Shows(wrote[pending[d][j]], pending[d][j])
  BY DEF IInv, Carried
<1>3. /\ pending[d][j] \in Written'
      /\ input'[pending[d][j]] = input[pending[d][j]]
      /\ wrote'[pending[d][j]] = wrote[pending[d][j]]
  BY <1>2 DEF Onward
<1> QED
  BY <1>1, <1>2, <1>3 DEF Shows

\* Whoever holds what a write carries shows what the write shows.
LEMMA ShownInherited ==
  ASSUME NEW p \in Ops, NEW x \in Ops, NEW copy \in Copy, TypeOK, Shows(wrote[p], x),
         wrote[p].services # {} => copy.services = wrote[p].services,
         wrote[p].image # 0 => copy.image = wrote[p].image,
         copy.score = wrote[p].score
  PROVE  Shows(copy, x)
<1>1. wrote[p] \in Copy /\ input[x] \in Nat
  BY DEF TypeOK
<1>2. copy.image \in Nat /\ wrote[p].image \in Nat
  BY <1>1 DEF Copy
<1> QED
  BY <1>1, <1>2 DEF Shows

\* A copy that knows what a faithful write knew, and the write, is faithful.
LEMMA LayerFaithful ==
  ASSUME IInv, NEW p \in Written, NEW copy \in Copy, Shows(wrote[p], p),
         copy.seen = wrote[p].seen \cup {p},
         wrote[p].services # {} => copy.services = wrote[p].services,
         wrote[p].image # 0 => copy.image = wrote[p].image,
         copy.score = wrote[p].score
  PROVE  Faithful(copy)
<1>1. TypeOK /\ p \in Ops /\ Faithful(wrote[p])
  BY DEF IInv, Written
<1> SUFFICES ASSUME NEW x \in copy.seen
             PROVE  x \in Written /\ (Shows(copy, x) \/ Excused(x))
  BY DEF Faithful
<1>2. x \in Written /\ (Shows(wrote[p], x) \/ Excused(x))
  BY <1>1 DEF Faithful
<1>3. x \in Ops
  BY <1>2 DEF Written
<1>4. Shows(wrote[p], x) => Shows(copy, x)
  BY <1>1, <1>3, ShownInherited
<1> QED
  BY <1>2, <1>4

\* What the client answers is faithful.
LEMMA OverlayFaithful ==
  ASSUME IInv, NEW d \in Device, NEW copy \in Copy, Faithful(copy)
  PROVE  Faithful(Overlay(d, copy))
<1> DEFINE p == pending[d][Len(pending[d])]
<1>1. TypeOK
  BY DEF IInv
<1>2. CASE pending[d] = <<>>
  BY <1>1, <1>2, OverlayFacts
<1>3. CASE pending[d] # <<>>
  <2>1. Len(pending[d]) \in 1..Len(pending[d])
    BY <1>1, <1>3, EmptySeq DEF TypeOK
  <2>2. p \in Written /\ Shows(wrote[p], p)
    BY <2>1 DEF IInv, Carried
  <2>3. /\ Overlay(d, copy) \in Copy
        /\ Overlay(d, copy).seen = wrote[p].seen \cup {p}
        /\ wrote[p].services # {} => Overlay(d, copy).services = wrote[p].services
        /\ wrote[p].image # 0 => Overlay(d, copy).image = wrote[p].image
        /\ Overlay(d, copy).score = wrote[p].score
    BY <1>1, <1>3, OverlayFacts
  <2> HIDE DEF p
  <2> QED
    BY <2>2, <2>3, LayerFaithful
<1> QED
  BY <1>2, <1>3

\* So is a copy a queued write is applied to, whatever it was.
LEMMA ApplyFaithful ==
  ASSUME IInv, NEW d \in Device, NEW k \in 1..Len(pending[d]), NEW copy \in Copy
  PROVE  LET o == pending[d][k]
         IN /\ Faithful(Apply(copy, o))
            /\ Apply(copy, o) \in Copy
            /\ Apply(copy, o).seen = wrote[o].seen \cup {o}
<1> DEFINE o == pending[d][k]
<1>1. o \in Written /\ Shows(wrote[o], o)
  BY DEF IInv, Carried
<1>2. TypeOK /\ o \in Ops
  BY <1>1 DEF IInv, Written
<1> HIDE DEF o
<1>3. Apply(copy, o) \in Copy
  BY <1>2, ApplyType
<1>4. /\ Apply(copy, o).seen = wrote[o].seen \cup {o}
      /\ wrote[o].services # {} => Apply(copy, o).services = wrote[o].services
      /\ wrote[o].image # 0 => Apply(copy, o).image = wrote[o].image
      /\ Apply(copy, o).score = wrote[o].score
  BY DEF Apply, Merge
<1>5. Faithful(Apply(copy, o))
  BY <1>1, <1>3, <1>4, LayerFaithful
<1> QED
  BY <1>3, <1>4, <1>5 DEF o

\* A step that leaves the queues, the copies and the server's order alone, and the runs
\* that have written, keeps the invariant.
LEMMA Elsewhere ==
  ASSUME IInv, TypeOK',
         UNCHANGED <<server, writes, landed, last, cache, pending, saw, wrote>>,
         \A o \in Written : o \in Written' /\ input'[o] = input[o]
  PROVE  IInv'
<1>1. Onward
  BY DEF Onward, IInv, TypeOK
<1>2. Landing'
  <2> SUFFICES ASSUME NEW o \in Ops, landed[o] > 0 PROVE o \in Written'
    BY DEF IInv, Landing
  <2> QED
    BY <1>1 DEF IInv, Landing, Onward
<1>3. Carried'
  BY <1>1, CarriedKept
<1>4. Writing'
  BY <1>1 DEF IInv, Writing, Onward
<1>5. Faithful(server)'
  BY <1>1, FaithfulKept DEF IInv, Faithful
<1>6. \A d \in Device : Faithful(cache[d])'
  BY <1>1, FaithfulKept DEF IInv, Faithful
<1>7. \A o \in Ops : Faithful(saw[o])' /\ Faithful(wrote[o])'
  BY <1>1, FaithfulKept DEF IInv, Faithful
<1> QED
  BY <1>2, <1>3, <1>4, <1>5, <1>6, <1>7 DEF IInv

LEMMA BeginIInv ==
  ASSUME IInv, TypeOK', NEW o \in Ops, Begin(o)
  PROVE  IInv'
<1>1. ASSUME NEW p, Start(o, p) PROVE IInv'
  <2>1. UNCHANGED <<server, writes, landed, last, cache, pending, saw, wrote, input>>
    BY <1>1 DEF Start, docVars, clientVars
  <2>2. \A r \in Written : r \in Written'
    BY <1>1 DEF Start, Written, WrittenPhases, IInv, TypeOK
  <2> QED
    BY <2>1, <2>2, Elsewhere
<1> QED
  BY <1>1 DEF Begin, HandleAddService, ChangeProfileImage, RefreshReviewData,
              GetAllSalons, FetchAndSaveProfile

\* An answer to getDocument stores a faithful copy; the run had not written, or was
\* reading again after its write.
LEMMA FetchIInv ==
  ASSUME IInv, TypeOK', NEW o \in Ops, phase[o] \in Fetching,
         NEW copy \in Copy, Faithful(copy),
         saw' = [saw EXCEPT ![o] = copy],
         phase' = [phase EXCEPT ![o] = Answer(@)],
         cache' = cache \/ cache' = [cache EXCEPT ![dev[o]] = server],
         UNCHANGED <<server, writes, landed, last, pending, wrote, input>>
  PROVE  IInv'
<1>0. TypeOK
  BY DEF IInv
<1>1. \A r \in Written : r \in Written'
  BY <1>0 DEF TypeOK, Written, Fetching, Answer, WrittenPhases
<1>2. Onward
  BY <1>0, <1>1 DEF Onward, TypeOK
<1>3. Landing'
  <2> SUFFICES ASSUME NEW r \in Ops, landed[r] > 0 PROVE r \in Written'
    BY DEF IInv, Landing
  <2> QED
    BY <1>1 DEF IInv, Landing
<1>4. Carried'
  BY <1>2, CarriedKept
<1>5. Writing'
  BY <1>1 DEF IInv, Writing
<1>6. Faithful(server)'
  BY <1>2, FaithfulKept DEF IInv, Faithful
<1>7. \A d \in Device : Faithful(cache[d])'
  <2> TAKE d \in Device
  <2>1. cache'[d] = server \/ cache'[d] = cache[d]
    BY <1>0 DEF TypeOK
  <2>2. Faithful(cache[d])' \/ cache'[d] = server
    BY <2>1, <1>2, FaithfulKept DEF IInv, Faithful
  <2>3. cache'[d] = server /\ server' = server => Faithful(cache[d])'
    BY <1>6 DEF Faithful
  <2> QED
    BY <2>2, <2>3
<1>8. \A r \in Ops : Faithful(saw[r])'
  <2> TAKE r \in Ops
  <2>1. saw'[r] = copy \/ saw'[r] = saw[r]
    BY <1>0 DEF TypeOK
  <2>2. Faithful(copy)'
    BY <1>2, FaithfulKept
  <2>3. saw'[r] = copy => Faithful(saw[r])'
    BY <2>2 DEF Faithful
  <2>4. saw'[r] = saw[r] => Faithful(saw[r])'
    BY <1>2, FaithfulKept DEF IInv, Faithful
  <2> QED
    BY <2>1, <2>3, <2>4
<1>9. \A r \in Ops : Faithful(wrote[r])'
  BY <1>2, FaithfulKept DEF IInv, Faithful
<1> QED
  BY <1>3, <1>4, <1>5, <1>6, <1>7, <1>8, <1>9 DEF IInv

LEMMA RemoteAnswerIInv ==
  ASSUME IInv, TypeOK', NEW o \in Ops, RemoteAnswer(o)
  PROVE  IInv'
<1> USE DEF docVars, clientVars
<1>0. TypeOK /\ dev[o] \in Device
  BY RunsAssumption DEF IInv
<1>1. CASE FetchFromServer(o)
  <2>1. server \in Copy /\ Faithful(server)
    BY <1>0 DEF IInv, TypeOK
  <2>2. Overlay(dev[o], server) \in Copy /\ Faithful(Overlay(dev[o], server))
    BY <1>0, <2>1, OverlayFacts, OverlayFaithful
  <2> QED
    BY <1>1, <2>2, FetchIInv DEF FetchFromServer
<1>2. CASE FetchFromCache(o)
  <2>1. cache[dev[o]] \in Copy /\ Faithful(cache[dev[o]])
    BY <1>0 DEF IInv, TypeOK
  <2>2. View(dev[o]) \in Copy /\ Faithful(View(dev[o]))
    BY <1>0, <2>1, OverlayFacts, OverlayFaithful DEF View
  <2> QED
    BY <1>2, <2>2, FetchIInv DEF FetchFromCache
<1>3. ASSUME UNCHANGED <<server, writes, landed, last, cache, pending, saw, wrote>>,
             NEW p, phase' = [phase EXCEPT ![o] = p],
             NEW n, input' = input \/ (phase[o] \notin WrittenPhases /\ input' = [input EXCEPT ![o] = n]),
             phase[o] \in WrittenPhases => p \in WrittenPhases
      PROVE  IInv'
  <2>1. \A r \in Written : r \in Written'
    BY <1>0, <1>3 DEF TypeOK, Written
  <2>2. \A r \in Written : input'[r] = input[r]
    BY <1>0, <1>3 DEF TypeOK, Written
  <2> QED
    BY <1>3, <2>1, <2>2, Elsewhere
<1>4. CASE PutData(o)
  BY <1>3, <1>4 DEF PutData, WrittenPhases
<1>5. CASE DownloadURL(o)
  BY <1>3, <1>5 DEF DownloadURL, WrittenPhases
<1>6. CASE UploadFails(o)
  BY <1>3, <1>6 DEF UploadFails, WrittenPhases
<1>7. ASSUME NEW n \in 0..MaxComments, GetReviews(o, n) PROVE IInv'
  BY <1>3, <1>7 DEF GetReviews, WrittenPhases
<1>8. CASE GetReviewsFails(o)
  BY <1>3, <1>8 DEF GetReviewsFails, WrittenPhases
<1>9. CASE FetchFails(o)
  <2>1. phase' = [phase EXCEPT ![o] = NoAnswer(phase[o])]
    BY <1>9 DEF FetchFails
  <2>2. phase[o] \in WrittenPhases => NoAnswer(phase[o]) \in WrittenPhases
    BY <1>9 DEF FetchFails, Fetching, NoAnswer, WrittenPhases
  <2> QED
    BY <1>3, <1>9, <2>1, <2>2 DEF FetchFails
<1> QED
  BY <1>1, <1>2, <1>4, <1>5, <1>6, <1>7, <1>8, <1>9 DEF RemoteAnswer

\* The write itself: a run that has not written before writes what it saw with one field
\* changed, which shows what it saw unless the run set the field to an older value.
LEMMA UpdateIInv ==
  ASSUME IInv, TypeOK', NEW d \in Device, NEW o \in Ops, UpdateUserProfile(d, o)
  PROVE  IInv'
<1> USE DEF docVars
<1>0. /\ TypeOK
      /\ saw[o] \in Copy /\ input[o] \in Nat
      /\ Adds \cap Images = {} /\ Adds \cap Rates = {} /\ Images \cap Rates = {}
  BY RunsAssumption DEF IInv, TypeOK
<1>1. /\ phase[o] = "fetched"
      /\ phase' = [phase EXCEPT ![o] = "pending"]
      /\ wrote' = [wrote EXCEPT ![o] = Revised(o)]
      /\ UNCHANGED <<server, writes, landed, last, cache, saw, input>>
  BY DEF UpdateUserProfile, Callback
<1>2. o \notin Written /\ o \in Written'
  BY <1>0, <1>1 DEF Written, WrittenPhases, TypeOK
<1>3. \A r \in Written : r \in Written' /\ wrote'[r] = wrote[r]
  BY <1>0, <1>1, <1>2 DEF Written, WrittenPhases, TypeOK
<1>4. Onward
  BY <1>0, <1>1, <1>3 DEF Onward, TypeOK
<1>5. Landing'
  <2> SUFFICES ASSUME NEW r \in Ops, landed[r] > 0 PROVE r \in Written'
    BY <1>1 DEF IInv, Landing
  <2> QED
    BY <1>3 DEF IInv, Landing
<1>6. /\ wrote'[o] = Revised(o)
      /\ Revised(o).seen = saw[o].seen
      /\ Revised(o).services = IF o \in Adds THEN saw[o].services \cup {o} ELSE saw[o].services
      /\ Revised(o).image = IF o \in Images THEN input[o] ELSE saw[o].image
      /\ Revised(o).score = IF o \in Rates THEN input[o] ELSE saw[o].score
  BY <1>0, <1>1, RevisedType DEF TypeOK
<1>7. Shows(wrote[o], o)'
  BY <1>0, <1>1, <1>6 DEF Shows
<1>8. Carried'
  <2> SUFFICES ASSUME NEW e \in Device, NEW k \in 1..Len(pending'[e])
               PROVE  /\ pending'[e][k] \in Written'
                      /\ Shows(wrote[pending[e][k]], pending[e][k])'
    BY DEF Carried
  <2>1. pending'[e][k] = o \/ (k \in 1..Len(pending[e]) /\ pending'[e][k] = pending[e][k])
    <3>1. pending[e] \in Seq(Ops)
      BY <1>0 DEF TypeOK
    <3>2. pending'[e] = Append(pending[e], o) \/ pending'[e] = pending[e]
      BY <1>0 DEF TypeOK, UpdateUserProfile
    <3> QED
      BY <3>1, <3>2, AppendProperties
  <2>2. CASE pending'[e][k] = o
    BY <2>2, <1>2, <1>7 DEF Shows
  <2>3. CASE k \in 1..Len(pending[e]) /\ pending'[e][k] = pending[e][k]
    <3>1. pending[e][k] \in Written /\ Shows(wrote[pending[e][k]], pending[e][k])
      BY <2>3 DEF IInv, Carried
    <3> QED
      BY <2>3, <3>1, <1>1, <1>3 DEF Shows
  <2> QED
    BY <2>1, <2>2, <2>3
<1>9. Writing'
  <2> SUFFICES ASSUME NEW r \in Ops, wrote'[r] # NoDoc PROVE r \in Written'
    BY <1>3 DEF IInv, Writing
  <2>1. r # o => wrote'[r] = wrote[r]
    BY <1>0, <1>1 DEF TypeOK
  <2> QED
    BY <2>1, <1>2, <1>3 DEF IInv, Writing
<1>10. Faithful(saw[o]) /\ \A r \in Ops : Faithful(saw[r])'
  BY <1>1, <1>4, FaithfulKept DEF IInv, Faithful
<1>11. Faithful(wrote[o])'
  <2> SUFFICES ASSUME NEW x \in saw[o].seen
               PROVE  x \in Written' /\ (Shows(wrote[o], x)' \/ Excused(x)')
    BY <1>6 DEF Faithful
  <2>1. x \in Written' /\ (Shows(saw[o], x)' \/ Excused(x)')
    BY <1>1, <1>10 DEF Faithful
  <2>2. x \in Ops /\ input[x] \in Nat /\ x \in wrote'[o].seen
    BY <1>0, <1>6, <2>1 DEF Written, TypeOK
  <2>3. CASE ~ Raced(x)' /\ Shows(saw[o], x)'
    <3>1. x \in Images /\ o \in Images => input[o] >= input[x]
      BY <2>2, <2>3, <1>0, <1>1 DEF Raced
    <3>2. x \in Rates /\ o \in Rates => input[o] >= input[x]
      BY <2>2, <2>3, <1>0, <1>1 DEF Raced
    <3> QED
      BY <2>1, <2>3, <3>1, <3>2, <1>1, <1>6 DEF Shows
  <2> QED
    BY <2>1, <2>3 DEF Excused
<1>12. \A r \in Ops : Faithful(wrote[r])'
  <2> TAKE r \in Ops
  <2>1. r # o => wrote'[r] = wrote[r]
    BY <1>0, <1>1 DEF TypeOK
  <2> QED
    BY <2>1, <1>4, <1>11, FaithfulKept DEF IInv, Faithful
<1>13. Faithful(server)' /\ \A e \in Device : Faithful(cache[e])'
  BY <1>1, <1>4, FaithfulKept DEF IInv, Faithful
<1> QED
  BY <1>5, <1>8, <1>9, <1>10, <1>12, <1>13 DEF IInv

LEMMA MainQueueIInv ==
  ASSUME IInv, TypeOK', NEW d \in Device, NEW o \in Ops, MainQueue(d, o)
  PROVE  IInv'
<1> USE DEF docVars, clientVars
<1>0. TypeOK
  BY DEF IInv
<1>1. ASSUME UNCHANGED <<server, writes, landed, last, cache, pending, saw, wrote, input>>,
             NEW from, NEW to, Callback(d, o, from, to),
             from \in WrittenPhases => to \in WrittenPhases
      PROVE  IInv'
  <2>1. \A r \in Written : r \in Written'
    BY <1>0, <1>1 DEF TypeOK, Callback, Written
  <2> QED
    BY <1>1, <2>1, Elsewhere
<1>2. CASE UpdateUserProfile(d, o)
  BY <1>2, UpdateIInv
<1>3. CASE FetchFailed(d, o)
  BY <1>1, <1>3 DEF FetchFailed, WrittenPhases
<1>4. CASE ServiceWritten(d, o)
  BY <1>1, <1>4 DEF ServiceWritten, WrittenPhases
<1>5. CASE ImageWritten(d, o)
  BY <1>1, <1>5 DEF ImageWritten, WrittenPhases
<1>6. CASE ImageRejected(d, o)
  BY <1>1, <1>6 DEF ImageRejected, WrittenPhases
<1>7. CASE RatingWritten(d, o)
  BY <1>1, <1>7 DEF RatingWritten, WrittenPhases
<1>8. CASE ShowServices(d, o)
  BY <1>1, <1>8 DEF ShowServices, WrittenPhases
<1>9. CASE SaveUserProfile(d, o)
  BY <1>1, <1>9 DEF SaveUserProfile, WrittenPhases
<1>10. CASE RefetchFailed(d, o)
  BY <1>1, <1>10 DEF RefetchFailed, WrittenPhases
<1> QED
  BY <1>2, <1>3, <1>4, <1>5, <1>6, <1>7, <1>8, <1>9, <1>10 DEF MainQueue

\* The server applies a write: whatever it holds that the write knew of is in the
\* write, and whatever the write did not know of is overwritten from now on.
LEMMA CommitIInv ==
  ASSUME IInv, TypeOK', NEW d \in Device, CommitWrite(d)
  PROVE  IInv'
<1> USE DEF clientVars, runVars
<1> DEFINE k == taken[d] + 1
           o == pending[d][k]
<1>0. TypeOK
  BY DEF IInv
<1>1. o \in Ops /\ k \in 1..Len(pending[d])
  BY <1>0, NextToTake
<1>2. /\ writes \in Nat
      /\ landed \in [Ops -> Nat]
      /\ last \in [Ops -> Nat]
  BY <1>0 DEF TypeOK
<1>3. /\ landed' = [landed EXCEPT ![o] = IF @ = 0 THEN writes + 1 ELSE @]
      /\ last' = [last EXCEPT ![o] = writes + 1]
      /\ writes' = writes + 1
      /\ server' = [Apply(server, o) EXCEPT !.seen = server.seen \cup {o}]
  BY DEF CommitWrite
<1>4. UNCHANGED <<cache, pending, phase, saw, wrote, input>>
  BY DEF CommitWrite
<1>5. server \in Copy
  BY <1>0 DEF TypeOK
<1>6. Faithful(Apply(server, o)) /\ Apply(server, o) \in Copy
      /\ Apply(server, o).seen = wrote[o].seen \cup {o} /\ o \in Written
  BY <1>1, <1>5, ApplyFaithful DEF IInv, Carried
<1> HIDE DEF o, k
<1>7. /\ server'.seen = server.seen \cup {o}
      /\ server'.services = Apply(server, o).services
      /\ server'.image = Apply(server, o).image
      /\ server'.score = Apply(server, o).score
  BY <1>3, <1>6 DEF Copy
<1>8. \A r \in Ops : /\ landed'[r] = IF r = o /\ landed[r] = 0 THEN writes + 1 ELSE landed[r]
                     /\ last'[r] = IF r = o THEN writes + 1 ELSE last[r]
                     /\ last[r] <= writes /\ landed[r] <= writes
  <2>1. \A r \in Ops : last[r] <= writes /\ landed[r] <= writes
    BY <1>2 DEF IInv, Landing
  <2> QED
    BY <2>1, <1>2, <1>3
<1>9. Onward
  <2>1. \A r \in Written : r \in Written' /\ input'[r] = input[r] /\ wrote'[r] = wrote[r]
    BY <1>4 DEF Written
  <2>2. \A r \in Ops : (landed[r] > 0 => landed'[r] = landed[r]) /\ last'[r] >= last[r]
    BY <1>2, <1>8
  <2> QED
    BY <2>1, <2>2 DEF Onward
<1>10. Landing'
  <2> SUFFICES ASSUME NEW r \in Ops
               PROVE  /\ landed'[r] > 0 => r \in Written' /\ landed'[r] <= writes'
                      /\ r \in server'.seen <=> landed'[r] > 0
                      /\ last'[r] > 0 <=> landed'[r] > 0
                      /\ last'[r] <= writes'
    BY DEF Landing
  <2>0. /\ landed[r] > 0 => r \in Written /\ landed[r] <= writes
        /\ r \in server.seen <=> landed[r] > 0
        /\ last[r] > 0 <=> landed[r] > 0
    BY DEF IInv, Landing
  <2>1. CASE r = o
    <3>1. last'[r] = writes + 1 /\ landed'[r] > 0 /\ landed'[r] <= writes + 1
      BY <1>2, <1>8, <2>1
    <3>2. r \in Written' /\ r \in server'.seen
      BY <1>6, <1>7, <1>9, <2>1 DEF Onward
    <3> QED
      BY <3>1, <3>2, <1>2, <1>3
  <2>2. CASE r # o
    <3>1. last'[r] = last[r] /\ landed'[r] = landed[r] /\ last[r] <= writes
      BY <1>8, <2>2
    <3>2. (r \in Written' <=> r \in Written) /\ (r \in server'.seen <=> r \in server.seen)
      BY <1>4, <1>7, <2>2 DEF Written
    <3> QED
      BY <2>0, <3>1, <3>2, <1>2, <1>3
  <2> QED
    BY <2>1, <2>2
<1>11. Carried' /\ Writing'
  <2>1. Carried'
    BY <1>4, <1>9, CarriedKept
  <2>2. Writing'
    BY <1>4 DEF IInv, Writing, Written
  <2> QED
    BY <2>1, <2>2
<1>12. Faithful(server)'
  <2> SUFFICES ASSUME NEW x \in server'.seen
               PROVE  x \in Written' /\ (Shows(server, x)' \/ Excused(x)')
    BY DEF Faithful
  <2>1. CASE x \in Apply(server, o).seen
    <3>1. PICK new \in Copy : new = Apply(server, o)
      BY <1>6
    <3>2. Faithful(new)'
      BY <1>6, <1>9, <3>1, FaithfulKept
    <3>3. x \in Written' /\ (Shows(new, x)' \/ Excused(x)')
      BY <2>1, <3>1, <3>2 DEF Faithful
    <3>4. Shows(new, x)' => Shows(server, x)'
      BY <3>1, <1>7 DEF Shows
    <3> QED
      BY <3>3, <3>4
  <2>2. CASE x \notin Apply(server, o).seen
    <3>1. x \in Ops \ {o} /\ landed[x] > 0 /\ x \notin wrote[o].seen /\ x \in Written
      BY <2>2, <1>5, <1>6, <1>7 DEF IInv, Landing, Copy
    <3>2. landed'[x] > 0 /\ last'[o] > landed'[x]
      BY <3>1, <1>1, <1>2, <1>8
    <3> QED
      BY <3>1, <3>2, <1>1, <1>4, <1>9 DEF Overwritten, Excused, Onward
  <2> QED
    BY <2>1, <2>2
<1>13. (\A e \in Device : Faithful(cache[e])') /\ \A r \in Ops : Faithful(saw[r])' /\ Faithful(wrote[r])'
  BY <1>4, <1>9, FaithfulKept DEF IInv, Faithful
<1> QED
  BY <1>10, <1>11, <1>12, <1>13 DEF IInv

\* The first write leaves the queue of d with an answer; the rest is carried as before.
LEMMA AnsweredIInv ==
  ASSUME IInv, TypeOK', NEW d \in Device, pending[d] # <<>>,
         NEW outcome \in WrittenPhases, NEW over \in WrittenPhases,
         Answered(d, Head(pending[d]), outcome, over),
         \/ cache' = cache
         \/ cache' = [cache EXCEPT ![d] = Apply(@, Head(pending[d]))],
         UNCHANGED <<server, writes, landed, last, saw, wrote, input>>
  PROVE  IInv'
<1> DEFINE o == Head(pending[d])
<1>0. TypeOK
  BY DEF IInv
<1>1. /\ o \in Ops /\ o = pending[d][1] /\ 1 \in 1..Len(pending[d])
      /\ Len(pending[d]) \in Nat /\ Len(Tail(pending[d])) = Len(pending[d]) - 1
      /\ \A j \in 1..Len(Tail(pending[d])) : Tail(pending[d])[j] = pending[d][j + 1]
  BY <1>0, HeadOfPending
<1>2. PICK p \in WrittenPhases : phase' = [phase EXCEPT ![o] = p]
  BY DEF Answered
<1>3. \A r \in Written : r \in Written'
  BY <1>0, <1>2 DEF Written, TypeOK
<1>4. Onward
  <2>1. last \in [Ops -> Nat]
    BY <1>0 DEF TypeOK
  <2> QED
    BY <2>1, <1>3 DEF Onward
<1>5. Landing'
  <2> SUFFICES ASSUME NEW r \in Ops, landed[r] > 0 PROVE r \in Written'
    BY DEF IInv, Landing
  <2> QED
    BY <1>3 DEF IInv, Landing
<1>6. Carried'
  <2>1. ASSUME NEW e \in Device, NEW k \in 1..Len(pending'[e])
        PROVE  \E j \in 1..Len(pending[e]) : pending'[e][k] = pending[e][j]
    <3>1. CASE e = d
      <4>1. pending'[e] = Tail(pending[d])
        BY <3>1, <1>0 DEF TypeOK, Answered
      <4>2. k \in 1..Len(Tail(pending[d])) /\ k + 1 \in 1..Len(pending[d])
        BY <4>1, <2>1, <1>1
      <4> QED
        BY <3>1, <4>1, <4>2, <1>1
    <3>2. CASE e # d
      BY <3>2, <1>0 DEF TypeOK, Answered
    <3> QED
      BY <3>1, <3>2
  <2> QED
    BY <2>1, <1>4, CarriedKept
<1>7. Writing'
  BY <1>3 DEF IInv, Writing
<1>8. Faithful(server)' /\ \A r \in Ops : Faithful(saw[r])' /\ Faithful(wrote[r])'
  BY <1>4, FaithfulKept DEF IInv, Faithful
<1>9. \A e \in Device : Faithful(cache[e])'
  <2> TAKE e \in Device
  <2>1. cache'[e] = cache[e] \/ cache'[e] = Apply(cache[d], o)
    BY <1>0 DEF TypeOK
  <2>2. Faithful(Apply(cache[d], o))
    <3>1. cache[d] \in Copy
      BY <1>0 DEF TypeOK
    <3> QED
      BY <3>1, <1>1, ApplyFaithful
  <2> HIDE DEF o
  <2> QED
    BY <2>1, <2>2, <1>4, FaithfulKept DEF IInv, Faithful
<1> QED
  BY <1>5, <1>6, <1>7, <1>8, <1>9 DEF IInv

LEMMA WriteStreamIInv ==
  ASSUME IInv, TypeOK', NEW d \in Device, WriteStream(d)
  PROVE  IInv'
<1> USE DEF docVars
<1>0. {"acked", "done", "rejected", "failed"} \subseteq WrittenPhases /\ TypeOK
  BY DEF WrittenPhases, IInv
<1>1. CASE CommitWrite(d)
  BY <1>1, CommitIInv
<1>2. CASE AcknowledgeBatch(d)
  <2>1. /\ pending[d] # <<>>
        /\ Answered(d, Head(pending[d]), "acked", "done")
        /\ UNCHANGED <<server, writes, landed, last, saw, wrote, input>>
    BY <1>2 DEF AcknowledgeBatch
  <2>2. cache' = cache \/ cache' = [cache EXCEPT ![d] = Apply(@, Head(pending[d]))]
    BY <1>0, <1>2 DEF AcknowledgeBatch, TypeOK
  <2> QED
    BY <1>0, <2>1, <2>2, AnsweredIInv
<1>3. CASE RejectBatch(d)
  <2>1. /\ pending[d] # <<>>
        /\ Answered(d, Head(pending[d]), "rejected", "failed")
        /\ UNCHANGED <<server, writes, landed, last, saw, wrote, input, cache>>
    BY <1>3 DEF RejectBatch
  <2> QED
    BY <1>0, <2>1, AnsweredIInv
<1> QED
  BY <1>1, <1>2, <1>3 DEF WriteStream

LEMMA WorldIInv ==
  ASSUME IInv, TypeOK', World
  PROVE  IInv'
<1> USE DEF docVars, clientVars, runVars
<1>1. UNCHANGED <<server, writes, landed, last, cache, pending, saw, wrote, input>>
  BY DEF World, NetworkDown, NetworkUp, Crash, CustomerComments
<1>2. \A r \in Written : r \in Written'
  BY DEF World, NetworkDown, NetworkUp, Crash, CustomerComments, Written, WrittenPhases
<1> QED
  BY <1>1, <1>2, Elsewhere

LEMMA NextIInv == IInv /\ [Next]_vars => IInv'
<1> SUFFICES ASSUME IInv, [Next]_vars PROVE IInv'
  OBVIOUS
<1>1. CASE UNCHANGED vars
  <2>1. TypeOK'
    BY <1>1 DEF IInv, TypeOK, vars, docVars, clientVars, runVars, worldVars, uiVars
  <2>2. \A r \in Written : r \in Written' /\ input'[r] = input[r]
    BY <1>1 DEF vars, runVars, Written
  <2> QED
    BY <1>1, <2>1, <2>2, Elsewhere DEF vars, docVars, clientVars, runVars
<1>2. CASE Next
  <2>1. TypeOK
    BY DEF IInv
  <2>2. ASSUME NEW o \in Ops, Begin(o) PROVE IInv'
    BY <2>1, <2>2, BeginType, BeginIInv
  <2>3. ASSUME NEW o \in Ops, RemoteAnswer(o) PROVE IInv'
    BY <2>1, <2>3, RemoteAnswerType, RemoteAnswerIInv
  <2>4. ASSUME NEW d \in Device, NEW o \in Ops, MainQueue(d, o) PROVE IInv'
    BY <2>1, <2>4, MainQueueType, MainQueueIInv
  <2>5. ASSUME NEW d \in Device, WriteStream(d) PROVE IInv'
    BY <2>1, <2>5, WriteStreamType, WriteStreamIInv
  <2>6. CASE World
    BY <2>1, <2>6, WorldType, WorldIInv
  <2> QED
    BY <1>2, <2>2, <2>3, <2>4, <2>5, <2>6 DEF Next
<1> QED
  BY <1>1, <1>2

\* Every copy of the salon, on the server, in a cache or in a closure, shows the changes
\* it knows of, but those overwritten or raced (AppDataManager.swift:133-143, 223-242,
\* AddServicesVC.swift:41-60).
THEOREM CopiesFaithful == Spec => []IInv
  BY InitIInv, NextIInv, PTL DEF Spec

\* A service the server accepted is missing from the document only if a write
\* accepted later was computed from a copy that did not reflect it, for every
\* number of devices and runs, crashes, rejections and lost networks included.
THEOREM OnlyStaleWritesLose == Spec => []LostOnlyToStaleWrite
<1>1. IInv => LostOnlyToStaleWrite
  <2> SUFFICES ASSUME IInv, NEW a \in Adds, landed[a] > 0
               PROVE  a \in server.services \/ Overwritten(a)
    BY DEF LostOnlyToStaleWrite
  <2>1. a \in Ops /\ a \notin Images \cup Rates
    BY RunsAssumption DEF Ops, Writers
  <2>2. Shows(server, a) \/ Excused(a)
    BY <2>1 DEF IInv, Landing, Faithful
  <2> QED
    BY <2>1, <2>2 DEF Shows, Excused, Raced
<1> QED
  BY <1>1, CopiesFaithful, PTL

\* The document names an older picture than an upload the server accepted only if a
\* later write did not know of that upload, or an upload run that did had asked for
\* its URL before (AppDataManager.swift:133-143).
THEOREM OnlyRacesAgeImage == Spec => []ImageStaleOnlyIfRaced
<1>1. IInv => ImageStaleOnlyIfRaced
  <2> SUFFICES ASSUME IInv, NEW o \in Images, landed[o] > 0
               PROVE  \/ server.image >= input[o]
                      \/ Overwritten(o)
                      \/ \E w \in Images : o \in wrote[w].seen /\ input[w] < input[o]
    BY DEF ImageStaleOnlyIfRaced
  <2>1. o \in Ops /\ o \notin Rates
    BY RunsAssumption DEF Ops, Writers
  <2>2. Shows(server, o) \/ Excused(o)
    BY <2>1 DEF IInv, Landing, Faithful
  <2> QED
    BY <2>1, <2>2 DEF Shows, Excused, Raced
<1> QED
  BY <1>1, CopiesFaithful, PTL

\* Rating and reviews fall behind an accepted computation only by a write that did not
\* know of it, or by a run that did and had counted the comments before
\* (AppDataManager.swift:223-242).
THEOREM OnlyRacesAgeScore == Spec => []ScoreStaleOnlyIfRaced
<1>1. IInv => ScoreStaleOnlyIfRaced
  <2> SUFFICES ASSUME IInv, NEW o \in Rates, landed[o] > 0
               PROVE  \/ server.score >= input[o]
                      \/ Overwritten(o)
                      \/ \E w \in Rates : o \in wrote[w].seen /\ input[w] < input[o]
    BY DEF ScoreStaleOnlyIfRaced
  <2>1. o \in Ops /\ o \notin Images
    BY RunsAssumption DEF Ops, Writers
  <2>2. Shows(server, o) \/ Excused(o)
    BY <2>1 DEF IInv, Landing, Faithful
  <2> QED
    BY <2>1, <2>2 DEF Shows, Excused, Raced
<1> QED
  BY <1>1, CopiesFaithful, PTL

-----------------------------------------------------------------------------
(* The write queue of a device implements WriteQueue. *)

\* A device queues only writes of its own runs that wait for an answer, each once; what
\* the server has taken of them has landed.
QueuedOn(d) ==
  /\ taken[d] <= Len(pending[d])
  /\ \A k \in 1..Len(pending[d]) :
       /\ dev[pending[d][k]] = d
       /\ phase[pending[d][k]] = "pending"
       /\ k <= taken[d] => landed[pending[d][k]] > 0
  /\ \A j, k \in 1..Len(pending[d]) : j # k => pending[d][j] # pending[d][k]

\* Only callbacks of its own runs wait on a device's main queue.
Calling(d) == \A k \in 1..Len(mainQ[d]) : dev[mainQ[d][k]] = d

Queued == \A d \in Device : QueuedOn(d) /\ Calling(d)

LEMMA InitQueued == Init => Queued
<1> SUFFICES ASSUME Init, NEW d \in Device PROVE QueuedOn(d) /\ Calling(d)
  BY DEF Queued
<1>0. SignUp \in Ops
  BY DEF Ops
<1>1. taken[d] = 0 /\ mainQ[d] = <<>> /\ phase[SignUp] = "pending"
  BY <1>0 DEF Init
<1>2. CASE pending[d] = <<>>
  BY <1>1, <1>2 DEF QueuedOn, Calling
<1>3. CASE pending[d] = <<SignUp>> /\ d = dev[SignUp]
  <2>1. Len(pending[d]) = 1 /\ pending[d][1] = SignUp
    BY <1>3
  <2>2. \A k \in 1..Len(pending[d]) : k = 1
    BY <2>1
  <2> QED
    BY <1>1, <1>3, <2>1, <2>2 DEF QueuedOn, Calling
<1> QED
  BY <1>2, <1>3 DEF Init

\* A device whose queue does not change, or is only to be sent again, keeps it in order.
LEMMA QueuedKept ==
  ASSUME TypeOK, NEW d \in Device, QueuedOn(d),
         pending'[d] = pending[d], taken'[d] = taken[d] \/ taken'[d] = 0,
         \A r \in Ops : landed[r] > 0 => landed'[r] > 0,
         \A r \in Ops : phase[r] = "pending" /\ dev[r] = d => phase'[r] = "pending"
  PROVE  QueuedOn(d)'
<1>1. Len(pending[d]) \in Nat /\ taken[d] \in Nat /\ \A k \in 1..Len(pending[d]) : pending[d][k] \in Ops
  BY ElementOfSeq, LenProperties DEF TypeOK
<1>2. taken'[d] <= taken[d] /\ taken'[d] \in Nat /\ taken[d] <= Len(pending[d])
  BY <1>1 DEF QueuedOn
<1>3. ASSUME NEW k \in 1..Len(pending[d])
      PROVE  /\ dev[pending[d][k]] = d
             /\ phase'[pending[d][k]] = "pending"
             /\ k <= taken'[d] => landed'[pending[d][k]] > 0
  BY <1>1, <1>2 DEF QueuedOn
<1>4. taken'[d] <= Len(pending[d])
  BY <1>1, <1>2
<1>5. \A j, k \in 1..Len(pending[d]) : j # k => pending[d][j] # pending[d][k]
  BY DEF QueuedOn
<1> QED
  BY <1>3, <1>4, <1>5 DEF QueuedOn

\* The main queue takes callbacks of its own runs only, and gives them up in order.
LEMMA CallingKept ==
  ASSUME TypeOK, NEW d \in Device, Calling(d),
         \/ mainQ'[d] = mainQ[d]
         \/ mainQ'[d] = <<>>
         \/ mainQ[d] # <<>> /\ mainQ'[d] = Tail(mainQ[d])
         \/ \E o \in Ops : dev[o] = d /\ mainQ'[d] = Append(mainQ[d], o)
  PROVE  Calling(d)'
<1>0. mainQ[d] \in Seq(Ops) /\ Len(mainQ[d]) \in Nat
  BY LenProperties DEF TypeOK
<1>1. CASE mainQ'[d] = mainQ[d]
  BY <1>1 DEF Calling
<1>2. CASE mainQ'[d] = <<>>
  BY <1>2 DEF Calling
<1>3. CASE mainQ[d] # <<>> /\ mainQ'[d] = Tail(mainQ[d])
  <2>1. /\ Len(Tail(mainQ[d])) = Len(mainQ[d]) - 1
        /\ \A k \in 1..Len(Tail(mainQ[d])) : Tail(mainQ[d])[k] = mainQ[d][k + 1]
    BY <1>0, <1>3, HeadTailProperties
  <2>2. \A k \in 1..Len(Tail(mainQ[d])) : k + 1 \in 1..Len(mainQ[d])
    BY <1>0, <2>1
  <2> QED
    BY <1>3, <2>1, <2>2 DEF Calling
<1>4. ASSUME NEW o \in Ops, dev[o] = d, mainQ'[d] = Append(mainQ[d], o) PROVE Calling(d)'
  <2>1. /\ Len(mainQ'[d]) = Len(mainQ[d]) + 1
        /\ mainQ'[d][Len(mainQ[d]) + 1] = o
        /\ \A k \in 1..Len(mainQ[d]) : mainQ'[d][k] = mainQ[d][k]
    BY <1>0, <1>4, AppendProperties
  <2>2. \A k \in 1..Len(mainQ'[d]) : k \in 1..Len(mainQ[d]) \/ k = Len(mainQ[d]) + 1
    BY <1>0, <2>1
  <2> QED
    BY <1>4, <2>1, <2>2 DEF Calling
<1> QED
  BY <1>1, <1>2, <1>3, <1>4

LEMMA Unseen ==
  ASSUME pending'[Observed] = pending[Observed], taken'[Observed] = taken[Observed],
         \A o \in Ops : dev[o] = Observed => (landed'[o] > 0 <=> landed[o] > 0)
  PROVE  UNCHANGED Queue!queueVars
BY DEF Queue!queueVars, theQueue, theTaken, theApplied

\* A step that touches no write queue and moves no run that waits for an answer.
LEMMA QuietStep ==
  ASSUME TypeOK, Queued, UNCHANGED <<pending, taken, landed>>,
         \A r \in Ops : phase[r] = "pending" => phase'[r] = "pending",
         \A d \in Device : \/ mainQ'[d] = mainQ[d]
                           \/ mainQ[d] # <<>> /\ mainQ'[d] = Tail(mainQ[d])
                           \/ \E o \in Ops : dev[o] = d /\ mainQ'[d] = Append(mainQ[d], o)
  PROVE  Queued' /\ UNCHANGED Queue!queueVars
<1>1. ASSUME NEW d \in Device PROVE QueuedOn(d)' /\ Calling(d)'
  <2>1. QueuedOn(d) /\ Calling(d)
    BY DEF Queued
  <2>2. QueuedOn(d)'
    BY <2>1, QueuedKept
  <2>3. Calling(d)'
    BY <2>1, CallingKept
  <2> QED
    BY <2>2, <2>3
<1> QED
  BY <1>1, Unseen DEF Queued

LEMMA BeginQuiet ==
  ASSUME TypeOK, Queued, NEW o \in Ops, Begin(o)
  PROVE  Queued' /\ UNCHANGED Queue!queueVars
<1>1. ASSUME NEW p, Start(o, p) PROVE Queued' /\ UNCHANGED Queue!queueVars
  <2>1. UNCHANGED <<pending, taken, landed, mainQ>>
    BY <1>1 DEF Start, docVars, clientVars
  <2>2. \A r \in Ops : phase[r] = "pending" => phase'[r] = "pending"
    BY <1>1 DEF Start, TypeOK
  <2> QED
    BY <2>1, <2>2, QuietStep
<1> QED
  BY <1>1 DEF Begin, HandleAddService, ChangeProfileImage, RefreshReviewData,
              GetAllSalons, FetchAndSaveProfile

LEMMA RemoteAnswerQuiet ==
  ASSUME TypeOK, Queued, NEW o \in Ops, RemoteAnswer(o)
  PROVE  Queued' /\ UNCHANGED Queue!queueVars
<1> USE DEF docVars, clientVars
<1>1. ASSUME NEW p, phase' = [phase EXCEPT ![o] = p], phase[o] # "pending",
             UNCHANGED <<pending, taken, landed>>,
             mainQ' = mainQ \/ mainQ' = [mainQ EXCEPT ![dev[o]] = Append(@, o)]
      PROVE  Queued' /\ UNCHANGED Queue!queueVars
  <2>1. \A r \in Ops : phase[r] = "pending" => phase'[r] = "pending"
    BY <1>1 DEF TypeOK
  <2>2. ASSUME NEW d \in Device
        PROVE  mainQ'[d] = mainQ[d] \/ (dev[o] = d /\ mainQ'[d] = Append(mainQ[d], o))
    BY <1>1 DEF TypeOK
  <2> QED
    BY <1>1, <2>1, <2>2, QuietStep
<1>2. phase[o] \in Fetching => phase[o] # "pending"
  BY DEF Fetching
<1>3. CASE PutData(o)
  BY <1>1, <1>3 DEF PutData
<1>4. CASE DownloadURL(o)
  BY <1>1, <1>4 DEF DownloadURL
<1>5. CASE UploadFails(o)
  BY <1>1, <1>5 DEF UploadFails
<1>6. ASSUME NEW n \in 0..MaxComments, GetReviews(o, n)
      PROVE  Queued' /\ UNCHANGED Queue!queueVars
  BY <1>1, <1>6 DEF GetReviews
<1>7. CASE GetReviewsFails(o)
  BY <1>1, <1>7 DEF GetReviewsFails
<1>8. CASE FetchFromServer(o)
  BY <1>1, <1>2, <1>8 DEF FetchFromServer
<1>9. CASE FetchFromCache(o)
  BY <1>1, <1>2, <1>9 DEF FetchFromCache
<1>10. CASE FetchFails(o)
  BY <1>1, <1>2, <1>10 DEF FetchFails
<1> QED
  BY <1>3, <1>4, <1>5, <1>6, <1>7, <1>8, <1>9, <1>10 DEF RemoteAnswer

\* setData: the run leaves the main queue for the write queue, which does not hold it yet.
LEMMA UpdatePuts ==
  ASSUME TypeOK, Queued, NEW d \in Device, NEW o \in Ops, UpdateUserProfile(d, o)
  PROVE  Queued' /\ [Queue!Next]_(Queue!queueVars)
<1> USE DEF docVars
<1> DEFINE q == pending[d]
<1>1. /\ mainQ[d] # <<>> /\ o = Head(mainQ[d])
      /\ phase[o] = "fetched"
      /\ mainQ' = [mainQ EXCEPT ![d] = Tail(@)]
      /\ phase' = [phase EXCEPT ![o] = "pending"]
      /\ pending' = [pending EXCEPT ![d] = Append(@, o)]
      /\ UNCHANGED <<taken, landed>>
  BY DEF UpdateUserProfile, Callback
<1>2. dev[o] = d
  <2>1. o = mainQ[d][1] /\ 1 \in 1..Len(mainQ[d])
    BY <1>1, HeadTailProperties, EmptySeq, LenProperties DEF TypeOK
  <2> QED
    BY <2>1 DEF Queued, Calling
<1>3. q \in Seq(Ops) /\ Len(q) \in Nat /\ taken[d] \in Nat
  BY LenProperties DEF TypeOK
<1>4. ASSUME NEW k \in 1..Len(q) PROVE q[k] # o
  BY <1>1 DEF Queued, QueuedOn
<1>5. /\ Len(pending'[d]) = Len(q) + 1
      /\ pending'[d][Len(q) + 1] = o
      /\ \A k \in 1..Len(q) : pending'[d][k] = q[k]
      /\ pending'[d] = Append(q, o)
  BY <1>1, <1>3, AppendProperties DEF TypeOK
<1>6. \A r \in Ops : phase[r] = "pending" => phase'[r] = "pending"
  BY <1>1 DEF TypeOK
<1>7. phase'[o] = "pending"
  BY <1>1 DEF TypeOK
<1>8. QueuedOn(d)'
  <2>1. \A k \in 1..Len(pending'[d]) : k \in 1..Len(q) \/ k = Len(q) + 1
    BY <1>3, <1>5
  <2>2. QueuedOn(d)
    BY DEF Queued
  <2>3. taken[d] <= Len(pending'[d]) /\ ~(Len(q) + 1 <= taken[d])
    BY <2>2, <1>3, <1>5 DEF QueuedOn
  <2>4. ASSUME NEW k \in 1..Len(pending'[d])
        PROVE  /\ dev[pending'[d][k]] = d
               /\ phase'[pending'[d][k]] = "pending"
               /\ k <= taken'[d] => landed'[pending'[d][k]] > 0
    <3>1. CASE k \in 1..Len(q)
      <4>1. q[k] \in Ops /\ pending'[d][k] = q[k]
        BY <3>1, <1>3, <1>5, ElementOfSeq
      <4> QED
        BY <3>1, <4>1, <2>2, <1>1, <1>6 DEF QueuedOn
    <3>2. CASE k = Len(q) + 1
      BY <3>2, <2>3, <1>1, <1>2, <1>5, <1>7
    <3> QED
      BY <2>1, <3>1, <3>2
  <2>5. ASSUME NEW j \in 1..Len(pending'[d]), NEW k \in 1..Len(pending'[d]), j # k
        PROVE  pending'[d][j] # pending'[d][k]
    <3>1. CASE j \in 1..Len(q) /\ k \in 1..Len(q)
      BY <3>1, <2>2, <2>5, <1>5 DEF QueuedOn
    <3>2. CASE j = Len(q) + 1 /\ k \in 1..Len(q)
      BY <3>2, <1>4, <1>5
    <3>3. CASE k = Len(q) + 1 /\ j \in 1..Len(q)
      BY <3>3, <1>4, <1>5
    <3> QED
      BY <2>1, <2>5, <3>1, <3>2, <3>3
  <2> QED
    BY <2>3, <2>4, <2>5, <1>1 DEF QueuedOn
<1>9. ASSUME NEW e \in Device PROVE QueuedOn(e)' /\ Calling(e)'
  <2>1. QueuedOn(e) /\ Calling(e)
    BY DEF Queued
  <2>2. e # d => pending'[e] = pending[e]
    BY <1>1 DEF TypeOK
  <2>3. e # d => QueuedOn(e)'
    BY <2>1, <2>2, <1>1, <1>6, QueuedKept
  <2>4. mainQ'[e] = mainQ[e] \/ (mainQ[e] # <<>> /\ mainQ'[e] = Tail(mainQ[e]))
    BY <1>1 DEF TypeOK
  <2> QED
    BY <2>1, <2>3, <2>4, <1>8, CallingKept
<1>10. ASSUME d = Observed PROVE Queue!Next
  <2>1. o \notin ToSet(theQueue)
    BY <1>3, <1>4, <1>10 DEF ToSet, theQueue
  <2>2. theQueue' = Append(theQueue, o)
    BY <1>5, <1>10 DEF theQueue
  <2>3. UNCHANGED <<theTaken, theApplied>>
    BY <1>1 DEF theTaken, theApplied
  <2> QED
    BY <2>1, <2>2, <2>3 DEF Queue!Next, Queue!Put, Queue!ToSet, ToSet
<1>11. ASSUME d # Observed PROVE UNCHANGED Queue!queueVars
  <2>1. pending'[Observed] = pending[Observed]
    BY <1>1, <1>11, ObservedAssumption DEF TypeOK
  <2> QED
    BY <2>1, <1>1, Unseen
<1> QED
  BY <1>9, <1>10, <1>11 DEF Queued

\* Every other callback leaves the write queues alone.
LEMMA MainQueueQuiet ==
  ASSUME TypeOK, Queued, NEW d \in Device, NEW o \in Ops, MainQueue(d, o),
         ~UpdateUserProfile(d, o)
  PROVE  Queued' /\ UNCHANGED Queue!queueVars
<1> USE DEF docVars, clientVars
<1>1. ASSUME NEW from, NEW to, from # "pending", Callback(d, o, from, to),
             UNCHANGED <<pending, taken, landed>>
      PROVE  Queued' /\ UNCHANGED Queue!queueVars
  <2>1. \A r \in Ops : phase[r] = "pending" => phase'[r] = "pending"
    BY <1>1 DEF Callback, TypeOK
  <2>2. ASSUME NEW e \in Device
        PROVE  mainQ'[e] = mainQ[e] \/ (mainQ[e] # <<>> /\ mainQ'[e] = Tail(mainQ[e]))
    BY <1>1 DEF Callback, TypeOK
  <2> QED
    BY <1>1, <2>1, <2>2, QuietStep
<1>2. CASE FetchFailed(d, o)
  BY <1>1, <1>2 DEF FetchFailed
<1>3. CASE ServiceWritten(d, o)
  BY <1>1, <1>3 DEF ServiceWritten
<1>4. CASE ImageWritten(d, o)
  BY <1>1, <1>4 DEF ImageWritten
<1>5. CASE ImageRejected(d, o)
  BY <1>1, <1>5 DEF ImageRejected
<1>6. CASE RatingWritten(d, o)
  BY <1>1, <1>6 DEF RatingWritten
<1>7. CASE ShowServices(d, o)
  BY <1>1, <1>7 DEF ShowServices
<1>8. CASE SaveUserProfile(d, o)
  BY <1>1, <1>8 DEF SaveUserProfile
<1>9. CASE RefetchFailed(d, o)
  BY <1>1, <1>9 DEF RefetchFailed
<1> QED
  BY <1>2, <1>3, <1>4, <1>5, <1>6, <1>7, <1>8, <1>9 DEF MainQueue

\* The server applies the next write of the queue.
LEMMA CommitApplies ==
  ASSUME TypeOK, Queued, NEW d \in Device, CommitWrite(d)
  PROVE  Queued' /\ [Queue!Next]_(Queue!queueVars)
<1> USE DEF runVars
<1> DEFINE q == pending[d]
           n == taken[d]
           o == q[n + 1]
<1>1. /\ n < Len(q)
      /\ landed' = [landed EXCEPT ![o] = IF @ = 0 THEN writes + 1 ELSE @]
      /\ taken' = [taken EXCEPT ![d] = @ + 1]
      /\ UNCHANGED <<pending, mainQ, phase>>
  BY DEF CommitWrite
<1>2. q \in Seq(Ops) /\ Len(q) \in Nat /\ n \in Nat /\ writes \in Nat
  BY LenProperties DEF TypeOK
<1>3. n + 1 \in 1..Len(q)
  BY <1>1, <1>2
<1>4. o \in Ops
  BY <1>2, <1>3, ElementOfSeq
<1>5. dev[o] = d /\ QueuedOn(d)
  BY <1>3 DEF Queued, QueuedOn
<1>6. \A r \in Ops : landed'[r] > 0 <=> landed[r] > 0 \/ r = o
  <2>1. landed \in [Ops -> Nat]
    BY DEF TypeOK
  <2> HIDE DEF q, n, o
  <2>2. landed'[o] = IF landed[o] = 0 THEN writes + 1 ELSE landed[o]
    BY <2>1, <1>1, <1>4
  <2>3. landed'[o] > 0
    BY <2>1, <2>2, <1>2, <1>4
  <2>4. \A r \in Ops \ {o} : landed'[r] = landed[r]
    BY <2>1, <1>1
  <2> QED
    BY <2>3, <2>4
<1>7. taken'[d] = n + 1
  BY <1>1 DEF TypeOK
<1>8. QueuedOn(d)'
  <2>1. \A k \in 1..Len(q) : q[k] \in Ops
    BY <1>2, ElementOfSeq
  <2>2. ASSUME NEW k \in 1..Len(q), k <= n + 1 PROVE landed'[q[k]] > 0
    <3>1. k <= n \/ k = n + 1
      BY <2>2, <1>2
    <3>2. k <= n => landed[q[k]] > 0
      BY <1>5 DEF QueuedOn
    <3> QED
      BY <3>1, <3>2, <2>1, <1>6
  <2>3. taken'[d] <= Len(q)
    BY <1>1, <1>2, <1>7
  <2> QED
    BY <2>2, <2>3, <1>1, <1>5, <1>7 DEF QueuedOn
<1>9. ASSUME NEW e \in Device PROVE QueuedOn(e)' /\ Calling(e)'
  <2>1. QueuedOn(e) /\ Calling(e)
    BY DEF Queued
  <2>2. e # d => taken'[e] = taken[e]
    BY <1>1 DEF TypeOK
  <2>3. e # d => QueuedOn(e)'
    BY <2>1, <2>2, <1>1, <1>6, QueuedKept
  <2> QED
    BY <2>1, <2>3, <1>1, <1>8, CallingKept
<1>10. ASSUME d = Observed PROVE Queue!Next
  <2>1. theTaken < Len(theQueue) /\ theTaken' = theTaken + 1 /\ UNCHANGED theQueue
    BY <1>1, <1>7, <1>10 DEF theTaken, theQueue
  <2>2. theQueue[theTaken + 1] = o
    BY <1>10 DEF theTaken, theQueue
  <2>3. theApplied' = theApplied \cup {o}
    BY <1>4, <1>5, <1>6, <1>10 DEF theApplied
  <2> QED
    BY <2>1, <2>2, <2>3 DEF Queue!Next, Queue!Apply
<1>11. ASSUME d # Observed PROVE UNCHANGED Queue!queueVars
  <2>1. pending'[Observed] = pending[Observed] /\ taken'[Observed] = taken[Observed]
    BY <1>1, <1>11, ObservedAssumption DEF TypeOK
  <2>2. \A r \in Ops : dev[r] = Observed => (landed'[r] > 0 <=> landed[r] > 0)
    BY <1>5, <1>6, <1>11
  <2> QED
    BY <2>1, <2>2, Unseen
<1> QED
  BY <1>9, <1>10, <1>11 DEF Queued

\* The first write leaves the queue with an answer, and its callback joins the main queue.
LEMMA AnsweredQueued ==
  ASSUME TypeOK, Queued, NEW d \in Device, pending[d] # <<>>, NEW outcome, NEW over,
         Answered(d, Head(pending[d]), outcome, over),
         taken'[d] = 0 \/ (taken[d] > 0 /\ taken'[d] = taken[d] - 1),
         \A e \in Device \ {d} : taken'[e] = taken[e],
         UNCHANGED landed
  PROVE  Queued' /\ pending'[d] = Tail(pending[d])
<1> DEFINE q == pending[d]
           o == q[1]
<1>1. /\ q \in Seq(Ops) /\ Len(q) \in Nat /\ taken[d] \in Nat
      /\ 1 \in 1..Len(q) /\ o = Head(q) /\ o \in Ops
  <2>1. q \in Seq(Ops) /\ taken[d] \in Nat
    BY DEF TypeOK
  <2>2. Len(q) \in Nat /\ Len(q) # 0
    BY <2>1, LenProperties, EmptySeq
  <2>3. 1 \in 1..Len(q)
    BY <2>2
  <2>4. o = Head(q)
    BY <2>1, HeadTailProperties
  <2> QED
    BY <2>1, <2>2, <2>3, <2>4, ElementOfSeq
<1>2. QueuedOn(d) /\ dev[o] = d
  BY <1>1 DEF Queued, QueuedOn
<1>3. /\ pending' = [pending EXCEPT ![d] = Tail(@)]
      /\ \E p : phase' = [phase EXCEPT ![o] = p]
      /\ mainQ' = mainQ \/ mainQ' = [mainQ EXCEPT ![d] = Append(@, o)]
  <2>1. mainQ' = [mainQ EXCEPT ![d] = IF o \in deaf THEN @ ELSE Append(@, o)]
    BY <1>1 DEF Answered
  <2>2. mainQ' = mainQ \/ mainQ' = [mainQ EXCEPT ![d] = Append(@, o)]
    BY <2>1 DEF TypeOK
  <2> QED
    BY <1>1, <2>2 DEF Answered
<1>4. \A r \in Ops \ {o} : phase'[r] = phase[r]
  BY <1>3 DEF TypeOK
<1>5. /\ pending'[d] = Tail(q)
      /\ Len(pending'[d]) = Len(q) - 1
      /\ \A k \in 1..Len(pending'[d]) : k + 1 \in 1..Len(q) /\ pending'[d][k] = q[k + 1]
  <2>1. pending'[d] = Tail(q)
    BY <1>3 DEF TypeOK
  <2>2. Len(Tail(q)) = Len(q) - 1 /\ \A k \in 1..Len(Tail(q)) : Tail(q)[k] = q[k + 1]
    BY <1>1, HeadTailProperties
  <2>3. \A k \in 1..Len(Tail(q)) : k + 1 \in 1..Len(q)
    BY <1>1, <2>2
  <2> QED
    BY <2>1, <2>2, <2>3
<1>6. QueuedOn(d)'
  <2>1. taken'[d] <= Len(pending'[d])
    BY <1>1, <1>2, <1>5 DEF QueuedOn
  <2>2. ASSUME NEW k \in 1..Len(pending'[d])
        PROVE  /\ dev[pending'[d][k]] = d
               /\ phase'[pending'[d][k]] = "pending"
               /\ k <= taken'[d] => landed'[pending'[d][k]] > 0
    <3>1. k + 1 \in 1..Len(q) /\ pending'[d][k] = q[k + 1] /\ q[k + 1] \in Ops /\ k + 1 # 1
      BY <1>1, <1>5, ElementOfSeq
    <3>2. q[k + 1] # o
      BY <3>1, <1>1, <1>2 DEF QueuedOn
    <3>3. k <= taken'[d] => k + 1 <= taken[d]
      BY <1>1
    <3> QED
      BY <3>1, <3>2, <3>3, <1>2, <1>4 DEF QueuedOn
  <2>3. ASSUME NEW j \in 1..Len(pending'[d]), NEW k \in 1..Len(pending'[d]), j # k
        PROVE  pending'[d][j] # pending'[d][k]
    <3>1. j + 1 \in 1..Len(q) /\ k + 1 \in 1..Len(q) /\ j + 1 # k + 1
      BY <2>3, <1>5
    <3> QED
      BY <3>1, <1>2, <1>5 DEF QueuedOn
  <2> QED
    BY <2>1, <2>2, <2>3 DEF QueuedOn
<1>7. ASSUME NEW e \in Device PROVE QueuedOn(e)' /\ Calling(e)'
  <2>1. QueuedOn(e) /\ Calling(e)
    BY DEF Queued
  <2>2. ASSUME e # d PROVE QueuedOn(e)'
    <3>1. pending'[e] = pending[e] /\ taken'[e] = taken[e]
      BY <2>2, <1>3 DEF TypeOK
    <3>2. \A r \in Ops : phase[r] = "pending" /\ dev[r] = e => phase'[r] = "pending"
      BY <2>2, <1>2, <1>4
    <3> QED
      BY <2>1, <3>1, <3>2, QueuedKept
  <2>3. mainQ'[e] = mainQ[e] \/ (e = d /\ mainQ'[e] = Append(mainQ[e], o))
    <3>1. mainQ \in [Device -> Seq(Ops)]
      BY DEF TypeOK
    <3> HIDE DEF q, o
    <3> QED
      BY <1>3, <3>1
  <2>4. o \in Ops /\ dev[o] = d
    BY <1>1, <1>2
  <2> HIDE DEF q, o
  <2>5. mainQ'[e] = mainQ[e] \/ \E r \in Ops : dev[r] = e /\ mainQ'[e] = Append(mainQ[e], r)
    BY <2>3, <2>4
  <2>6. Calling(e)'
    BY <2>1, <2>5, CallingKept
  <2> QED
    BY <1>6, <2>2, <2>6
<1> QED
  BY <1>5, <1>7 DEF Queued

LEMMA AcknowledgeAccepts ==
  ASSUME TypeOK, Queued, NEW d \in Device, AcknowledgeBatch(d)
  PROVE  Queued' /\ [Queue!Next]_(Queue!queueVars)
<1> USE DEF docVars
<1>1. /\ pending[d] # <<>> /\ taken[d] > 0 /\ taken[d] \in Nat
      /\ Answered(d, Head(pending[d]), "acked", "done")
      /\ taken' = [taken EXCEPT ![d] = @ - 1]
      /\ UNCHANGED landed
  BY DEF AcknowledgeBatch, TypeOK
<1>2. taken'[d] = taken[d] - 1 /\ \A e \in Device \ {d} : taken'[e] = taken[e]
  BY <1>1 DEF TypeOK
<1>3. Queued' /\ pending'[d] = Tail(pending[d])
  BY <1>1, <1>2, AnsweredQueued
<1>4. ASSUME d = Observed PROVE Queue!Next
  BY <1>1, <1>2, <1>3, <1>4 DEF Queue!Next, Queue!Accept, theQueue, theTaken, theApplied
<1>5. ASSUME d # Observed PROVE UNCHANGED Queue!queueVars
  <2>1. pending'[Observed] = pending[Observed]
    BY <1>1, <1>5, ObservedAssumption DEF Answered, TypeOK
  <2> QED
    BY <2>1, <1>1, <1>2, <1>5, ObservedAssumption, Unseen
<1> QED
  BY <1>3, <1>4, <1>5

LEMMA RejectRefuses ==
  ASSUME TypeOK, Queued, NEW d \in Device, RejectBatch(d)
  PROVE  Queued' /\ [Queue!Next]_(Queue!queueVars)
<1> USE DEF docVars
<1>1. /\ pending[d] # <<>>
      /\ taken[d] = 0 \/ taken[d] + 1 < Len(pending[d])
      /\ Answered(d, Head(pending[d]), "rejected", "failed")
      /\ taken' = [taken EXCEPT ![d] = 0]
      /\ UNCHANGED landed
  BY DEF RejectBatch
<1>2. taken'[d] = 0 /\ \A e \in Device \ {d} : taken'[e] = taken[e]
  BY <1>1 DEF TypeOK
<1>3. Queued' /\ pending'[d] = Tail(pending[d])
  BY <1>1, <1>2, AnsweredQueued
<1>4. ASSUME d = Observed PROVE Queue!Next
  BY <1>1, <1>2, <1>3, <1>4 DEF Queue!Next, Queue!Refuse, theQueue, theTaken, theApplied
<1>5. ASSUME d # Observed PROVE UNCHANGED Queue!queueVars
  <2>1. pending'[Observed] = pending[Observed]
    BY <1>1, <1>5, ObservedAssumption DEF Answered, TypeOK
  <2> QED
    BY <2>1, <1>1, <1>2, <1>5, ObservedAssumption, Unseen
<1> QED
  BY <1>3, <1>4, <1>5

\* The queue of d is to be sent again: a lost network, or the app killed.
LEMMA Resend ==
  ASSUME TypeOK, Queued, NEW d \in Device,
         UNCHANGED <<pending, landed>>, taken' = [taken EXCEPT ![d] = 0],
         \A r \in Ops : phase[r] = "pending" => phase'[r] = "pending",
         \A e \in Device : mainQ'[e] = mainQ[e] \/ mainQ'[e] = <<>>
  PROVE  Queued' /\ [Queue!Next]_(Queue!queueVars)
<1>1. taken'[d] = 0 /\ \A e \in Device \ {d} : taken'[e] = taken[e]
  BY DEF TypeOK
<1>2. ASSUME NEW e \in Device PROVE QueuedOn(e)' /\ Calling(e)'
  <2>1. QueuedOn(e) /\ Calling(e)
    BY DEF Queued
  <2>2. QueuedOn(e)'
    BY <2>1, <1>1, QueuedKept
  <2>3. Calling(e)'
    BY <2>1, CallingKept
  <2> QED
    BY <2>2, <2>3
<1>3. ASSUME d = Observed PROVE Queue!Next
  <2>1. /\ theQueue \in Seq(Ops) /\ Len(theQueue) \in Nat
        /\ theTaken \in Nat /\ theTaken <= Len(theQueue)
    BY <1>3, LenProperties DEF Queued, QueuedOn, theQueue, theTaken, TypeOK
  <2>2. \A k \in 1..theTaken : theQueue[k] \in theApplied
    <3> SUFFICES ASSUME NEW k \in 1..theTaken PROVE theQueue[k] \in theApplied
      OBVIOUS
    <3>1. k \in 1..Len(theQueue) /\ k <= theTaken
      BY <2>1
    <3>2. theQueue[k] \in Ops
      BY <2>1, <3>1, ElementOfSeq
    <3>3. dev[theQueue[k]] = Observed /\ landed[theQueue[k]] > 0
      BY <1>3, <3>1 DEF Queued, QueuedOn, theQueue, theTaken
    <3> QED
      BY <3>2, <3>3 DEF theApplied
  <2>3. theTaken \in theTaken..Len(theQueue)
    BY <2>1
  <2>4. theApplied' = theApplied \cup {theQueue[k] : k \in 1..theTaken}
    BY <2>2 DEF theApplied
  <2>5. UNCHANGED theQueue /\ theTaken' = 0
    BY <1>1, <1>3 DEF theQueue, theTaken
  <2> QED
    BY <2>3, <2>4, <2>5 DEF Queue!Next, Queue!Reconnect
<1>4. ASSUME d # Observed PROVE UNCHANGED Queue!queueVars
  BY <1>1, <1>4, ObservedAssumption, Unseen
<1> QED
  BY <1>2, <1>3, <1>4 DEF Queued

LEMMA WorldQueued ==
  ASSUME TypeOK, Queued, World
  PROVE  Queued' /\ [Queue!Next]_(Queue!queueVars)
<1> USE DEF docVars, clientVars, runVars
<1>1. ASSUME NEW d \in Device, NetworkDown(d)
      PROVE  Queued' /\ [Queue!Next]_(Queue!queueVars)
  <2>1. UNCHANGED <<pending, landed, mainQ, phase>> /\ taken' = [taken EXCEPT ![d] = 0]
    BY <1>1 DEF NetworkDown
  <2> QED
    BY <2>1, Resend
<1>2. ASSUME NEW d \in Device, Crash(d)
      PROVE  Queued' /\ [Queue!Next]_(Queue!queueVars)
  <2>1. UNCHANGED <<pending, landed>> /\ taken' = [taken EXCEPT ![d] = 0]
    BY <1>2 DEF Crash
  <2>2. \A r \in Ops : phase[r] = "pending" => phase'[r] = "pending"
    BY <1>2 DEF Crash
  <2>3. \A e \in Device : mainQ'[e] = mainQ[e] \/ mainQ'[e] = <<>>
    BY <1>2 DEF Crash, TypeOK
  <2> QED
    BY <2>1, <2>2, <2>3, Resend
<1>3. ASSUME UNCHANGED <<pending, taken, landed, mainQ, phase>>
      PROVE  Queued' /\ UNCHANGED Queue!queueVars
  BY <1>3, QuietStep
<1>4. ASSUME NEW d \in Device, NetworkUp(d) PROVE Queued' /\ UNCHANGED Queue!queueVars
  BY <1>3, <1>4 DEF NetworkUp
<1>5. CASE CustomerComments
  BY <1>3, <1>5 DEF CustomerComments
<1> QED
  BY <1>1, <1>2, <1>4, <1>5 DEF World

LEMMA NextQueued ==
  ASSUME TypeOK, Queued, [Next]_vars
  PROVE  Queued' /\ [Queue!Next]_(Queue!queueVars)
<1>1. ASSUME NEW o \in Ops, Begin(o) \/ RemoteAnswer(o)
      PROVE  Queued' /\ [Queue!Next]_(Queue!queueVars)
  BY <1>1, BeginQuiet, RemoteAnswerQuiet
<1>2. ASSUME NEW d \in Device, NEW o \in Ops, MainQueue(d, o)
      PROVE  Queued' /\ [Queue!Next]_(Queue!queueVars)
  BY <1>2, UpdatePuts, MainQueueQuiet
<1>3. ASSUME NEW d \in Device, WriteStream(d)
      PROVE  Queued' /\ [Queue!Next]_(Queue!queueVars)
  BY <1>3, CommitApplies, AcknowledgeAccepts, RejectRefuses DEF WriteStream
<1>4. CASE World
  BY <1>4, WorldQueued
<1>5. CASE UNCHANGED vars
  <2>1. UNCHANGED <<pending, taken, landed, mainQ, phase>>
    BY <1>5 DEF vars, docVars, clientVars, runVars
  <2> QED
    BY <2>1, QuietStep
<1> QED
  BY <1>1, <1>2, <1>3, <1>4, <1>5 DEF Next

\* The write queue every device keeps is the one the contract WriteQueue describes: a
\* queue never loses a write without an answer, never holds one twice, and empties in
\* order, over lost networks and restarts of the app (remote_store.cc:395-552).
THEOREM KeepsItsQueue == Spec => KeepsWriteQueue
<1>1. Init => Queue!Init
  <2> SUFFICES ASSUME Init PROVE Queue!Init
    OBVIOUS
  <2>1. SignUp \in Ops
    BY DEF Ops
  <2>2. theQueue \in Seq(Ops)
    <3>1. theQueue = <<SignUp>> \/ theQueue = <<>>
      BY ObservedAssumption DEF Init, theQueue
    <3>2. <<SignUp>> \in Seq(Ops)
      BY <2>1
    <3>3. <<>> \in Seq(Ops)
      OBVIOUS
    <3> QED
      BY <3>1, <3>2, <3>3
  <2>3. theTaken = 0 /\ theApplied = {}
    BY ObservedAssumption DEF Init, theTaken, theApplied
  <2> QED
    BY <2>2, <2>3 DEF Queue!Init
<1>2. Spec => []TypeOK
  BY TypeCorrect
<1> QED
  BY <1>1, <1>2, InitQueued, NextQueued, PTL DEF Spec, KeepsWriteQueue, Queue!Spec

-----------------------------------------------------------------------------
(* Nothing unsets a field but sign-up's write applied again. *)

\* Until the server has taken sign-up's write there is no document anywhere but on the
\* device that signed up, whose queue it heads, and only runs of that device hold a copy.
BornFirst ==
  phase[SignUp] = "pending" /\ landed[SignUp] = 0 =>
    /\ server = NoDoc
    /\ \A d \in Device : /\ cache[d] = NoDoc
                         /\ d # dev[SignUp] => pending[d] = <<>>
    /\ pending[dev[SignUp]] # <<>>
    /\ Head(pending[dev[SignUp]]) = SignUp
    /\ \A o \in Ops : phase[o] = "fetched" => dev[o] = dev[SignUp]

Born == IInv /\ Queued /\ BornFirst

LEMMA InitBorn == Init => Born
<1> SUFFICES ASSUME Init PROVE BornFirst
  BY InitIInv, InitQueued DEF Born
<1>1. SignUp \in Ops /\ dev[SignUp] \in Device
  BY RunsAssumption DEF Ops
<1>2. pending[dev[SignUp]] = <<SignUp>> /\ Head(<<SignUp>>) = SignUp /\ <<SignUp>> # <<>>
  BY <1>1 DEF Init
<1> QED
  BY <1>2 DEF Init, BornFirst

\* A step that leaves the documents and the queues alone, and gives nobody a copy.
LEMMA BornElsewhere ==
  ASSUME BornFirst, UNCHANGED <<server, landed, cache, pending>>,
         phase'[SignUp] = "pending" => phase[SignUp] = "pending",
         \A o \in Ops : phase'[o] = "fetched" =>
                          phase[o] = "fetched" \/ dev[o] = dev[SignUp]
  PROVE  BornFirst'
BY DEF BornFirst

LEMMA SignUpWritten ==
  ASSUME Born
  PROVE  SignUp \in Ops /\ dev[SignUp] \in Device /\ phase[SignUp] \in WrittenPhases
BY RunsAssumption DEF Born, IInv, Writing, Written

LEMMA BeginBorn ==
  ASSUME Born, NEW o \in Ops, Begin(o)
  PROVE  BornFirst'
<1> USE DEF docVars, clientVars
<1>1. ASSUME NEW p, p \notin {"pending", "fetched"}, Start(o, p) PROVE BornFirst'
  <2>1. \A r \in Ops : phase'[r] \in {"pending", "fetched"} => phase'[r] = phase[r]
    BY <1>1 DEF Start, Born, IInv, TypeOK
  <2> QED
    BY <1>1, <2>1, SignUpWritten, BornElsewhere DEF Start, Born
<1> QED
  BY <1>1 DEF Begin, HandleAddService, ChangeProfileImage, RefreshReviewData,
              GetAllSalons, FetchAndSaveProfile

\* No other device is answered: it has neither a cached document nor a write of its own.
LEMMA FetchBorn ==
  ASSUME Born, NEW o \in Ops, NEW copy \in {server, cache[dev[o]]},
         Overlay(dev[o], copy).exists, phase[o] \in Fetching,
         phase' = [phase EXCEPT ![o] = Answer(@)],
         cache' = cache \/ cache' = [cache EXCEPT ![dev[o]] = server],
         UNCHANGED <<server, landed, pending>>
  PROVE  BornFirst'
<1>0. TypeOK /\ dev[o] \in Device
  BY RunsAssumption DEF Born, IInv
<1>1. /\ phase'[SignUp] = "pending" => phase[SignUp] = "pending"
      /\ \A r \in Ops : phase'[r] = "fetched" => phase[r] = "fetched" \/ r = o
  BY <1>0, SignUpWritten DEF TypeOK, Fetching, Answer
<1> SUFFICES ASSUME phase[SignUp] = "pending", landed[SignUp] = 0
             PROVE  BornFirst'
  BY <1>1 DEF BornFirst
<1>2. /\ server = NoDoc /\ \A d \in Device : cache[d] = NoDoc
      /\ dev[o] # dev[SignUp] => pending[dev[o]] = <<>>
  BY <1>0 DEF Born, BornFirst
<1>3. dev[o] = dev[SignUp]
  <2> SUFFICES ASSUME pending[dev[o]] = <<>> PROVE FALSE
    BY <1>2
  <2>1. Overlay(dev[o], copy) = copy /\ copy = NoDoc
    BY <1>0, <1>2 DEF Overlay
  <2> QED
    BY <2>1 DEF NoDoc
<1>4. cache' = cache
  BY <1>0, <1>2 DEF TypeOK
<1> QED
  BY <1>1, <1>3, <1>4, BornElsewhere DEF Born

LEMMA RemoteAnswerBorn ==
  ASSUME Born, NEW o \in Ops, RemoteAnswer(o)
  PROVE  BornFirst'
<1> USE DEF docVars, clientVars
<1>1. ASSUME NEW p, p \notin {"pending", "fetched"}, phase' = [phase EXCEPT ![o] = p],
             UNCHANGED <<server, landed, cache, pending>>
      PROVE  BornFirst'
  <2>1. \A r \in Ops : phase'[r] \in {"pending", "fetched"} => phase'[r] = phase[r]
    BY <1>1 DEF Born, IInv, TypeOK
  <2> QED
    BY <1>1, <2>1, SignUpWritten, BornElsewhere DEF Born
<1>2. CASE PutData(o)
  BY <1>1, <1>2 DEF PutData
<1>3. CASE DownloadURL(o)
  BY <1>1, <1>3 DEF DownloadURL
<1>4. CASE UploadFails(o)
  BY <1>1, <1>4 DEF UploadFails
<1>5. ASSUME NEW n \in 0..MaxComments, GetReviews(o, n) PROVE BornFirst'
  BY <1>1, <1>5 DEF GetReviews
<1>6. CASE GetReviewsFails(o)
  BY <1>1, <1>6 DEF GetReviewsFails
<1>7. CASE FetchFromServer(o)
  BY <1>7, FetchBorn DEF FetchFromServer
<1>8. CASE FetchFromCache(o)
  BY <1>8, FetchBorn DEF FetchFromCache, View
<1>9. CASE FetchFails(o)
  <2>1. phase' = [phase EXCEPT ![o] = NoAnswer(phase[o])]
    BY <1>9 DEF FetchFails
  <2>2. NoAnswer(phase[o]) \notin {"pending", "fetched"}
    BY DEF NoAnswer
  <2> QED
    BY <1>1, <1>9, <2>1, <2>2 DEF FetchFails
<1> QED
  BY <1>2, <1>3, <1>4, <1>5, <1>6, <1>7, <1>8, <1>9 DEF RemoteAnswer

\* Whoever writes before sign-up has landed does so behind it.
LEMMA UpdateBorn ==
  ASSUME Born, NEW d \in Device, NEW o \in Ops, UpdateUserProfile(d, o)
  PROVE  BornFirst'
<1> USE DEF docVars
<1>1. /\ mainQ[d] # <<>> /\ o = Head(mainQ[d]) /\ phase[o] = "fetched"
      /\ phase' = [phase EXCEPT ![o] = "pending"]
      /\ pending' = [pending EXCEPT ![d] = Append(@, o)]
      /\ UNCHANGED <<server, landed, cache>>
  BY DEF UpdateUserProfile, Callback
<1>2. TypeOK /\ phase \in [Ops -> Phases] /\ pending \in [Device -> Seq(Ops)]
  BY DEF Born, IInv, TypeOK
<1>3. dev[o] = d
  <2>1. o = mainQ[d][1] /\ 1 \in 1..Len(mainQ[d])
    BY <1>1, <1>2, HeadTailProperties, EmptySeq, LenProperties DEF TypeOK
  <2> QED
    BY <2>1 DEF Born, Queued, Calling
<1>4. /\ phase'[SignUp] = "pending" => phase[SignUp] = "pending"
      /\ \A r \in Ops : phase'[r] = "fetched" => phase[r] = "fetched"
  BY <1>1, <1>2, SignUpWritten DEF WrittenPhases
<1> SUFFICES ASSUME phase[SignUp] = "pending", landed[SignUp] = 0
             PROVE  BornFirst'
  BY <1>1, <1>4 DEF BornFirst
<1>5. d = dev[SignUp]
  BY <1>1, <1>3 DEF Born, BornFirst
<1>6. /\ pending[d] # <<>> /\ Head(pending[d]) = SignUp
      /\ \A e \in Device : e # d => pending[e] = <<>>
  BY <1>5 DEF Born, BornFirst
<1>7. pending'[d] # <<>> /\ Head(pending'[d]) = SignUp
  <2>1. pending'[d] = Append(pending[d], o) /\ pending[d] \in Seq(Ops)
    BY <1>1, <1>2
  <2> QED
    BY <2>1, <1>6
<1>8. \A e \in Device : e # d => pending'[e] = <<>>
  BY <1>1, <1>2, <1>6
<1> QED
  BY <1>1, <1>4, <1>5, <1>7, <1>8 DEF Born, BornFirst

LEMMA MainQueueBorn ==
  ASSUME Born, NEW d \in Device, NEW o \in Ops, MainQueue(d, o)
  PROVE  BornFirst'
<1> USE DEF docVars, clientVars
<1>1. ASSUME NEW from, NEW to, to \notin {"pending", "fetched"}, Callback(d, o, from, to),
             UNCHANGED <<server, landed, cache, pending>>
      PROVE  BornFirst'
  <2>1. \A r \in Ops : phase'[r] \in {"pending", "fetched"} => phase'[r] = phase[r]
    BY <1>1 DEF Callback, Born, IInv, TypeOK
  <2> QED
    BY <1>1, <2>1, SignUpWritten, BornElsewhere DEF Born
<1>2. CASE UpdateUserProfile(d, o)
  BY <1>2, UpdateBorn
<1>3. CASE FetchFailed(d, o)
  BY <1>1, <1>3 DEF FetchFailed
<1>4. CASE ServiceWritten(d, o)
  BY <1>1, <1>4 DEF ServiceWritten
<1>5. CASE ImageWritten(d, o)
  BY <1>1, <1>5 DEF ImageWritten
<1>6. CASE ImageRejected(d, o)
  BY <1>1, <1>6 DEF ImageRejected
<1>7. CASE RatingWritten(d, o)
  BY <1>1, <1>7 DEF RatingWritten
<1>8. CASE ShowServices(d, o)
  BY <1>1, <1>8 DEF ShowServices
<1>9. CASE SaveUserProfile(d, o)
  BY <1>1, <1>9 DEF SaveUserProfile
<1>10. CASE RefetchFailed(d, o)
  BY <1>1, <1>10 DEF RefetchFailed
<1> QED
  BY <1>2, <1>3, <1>4, <1>5, <1>6, <1>7, <1>8, <1>9, <1>10 DEF MainQueue

\* Before it has landed, sign-up's write is the next one its device sends.
LEMMA SignUpNext ==
  ASSUME Born, NEW d \in Device, pending[d] # <<>>,
         phase[SignUp] = "pending", landed[SignUp] = 0
  PROVE  d = dev[SignUp] /\ taken[d] = 0 /\ pending[d][1] = SignUp
<1>1. d = dev[SignUp] /\ Head(pending[d]) = SignUp /\ TypeOK
  BY DEF Born, BornFirst, IInv
<1>2. pending[d][1] = SignUp /\ 1 \in 1..Len(pending[d]) /\ taken[d] \in Nat
  BY <1>1, HeadOfPending DEF TypeOK
<1>3. ~ (1 <= taken[d])
  BY <1>2 DEF Born, Queued, QueuedOn
<1> QED
  BY <1>1, <1>2, <1>3

LEMMA WriteStreamBorn ==
  ASSUME Born, NEW d \in Device, WriteStream(d)
  PROVE  BornFirst'
<1> USE DEF docVars, runVars
<1>0. TypeOK /\ SignUp \in Ops
  BY SignUpWritten DEF Born, IInv
<1>1. CASE CommitWrite(d)
  <2>1. phase' = phase /\ taken[d] + 1 \in 1..Len(pending[d])
        /\ landed' = [landed EXCEPT ![pending[d][taken[d] + 1]] = IF @ = 0 THEN writes + 1 ELSE @]
    BY <1>0, <1>1, NextToTake DEF CommitWrite
  <2> SUFFICES ASSUME phase[SignUp] = "pending", landed'[SignUp] = 0
               PROVE  FALSE
    BY <2>1 DEF BornFirst
  <2>2. landed[SignUp] = 0 /\ pending[d][taken[d] + 1] # SignUp
    <3>1. landed \in [Ops -> Nat] /\ writes \in Nat
      BY <1>0 DEF TypeOK
    <3>2. writes + 1 # 0
      BY <3>1
    <3> QED
      BY <1>0, <2>1, <3>1, <3>2
  <2>3. pending[d] # <<>>
    BY <2>1
  <2> QED
    BY <2>2, <2>3, SignUpNext
<1>2. ASSUME pending[d] # <<>>, NEW p, p \notin {"pending", "fetched"},
             phase' = [phase EXCEPT ![Head(pending[d])] = p],
             UNCHANGED landed
      PROVE  BornFirst'
  <2> SUFFICES ASSUME phase'[SignUp] = "pending", landed[SignUp] = 0
               PROVE  FALSE
    BY <1>2 DEF BornFirst
  <2>1. phase[SignUp] = "pending" /\ Head(pending[d]) # SignUp
    BY <1>0, <1>2 DEF TypeOK
  <2> QED
    BY <2>1, <1>0, <1>2, SignUpNext, HeadOfPending
<1>3. CASE AcknowledgeBatch(d)
  <2>1. PICK p \in {"acked", "done"} : phase' = [phase EXCEPT ![Head(pending[d])] = p]
    BY <1>3 DEF AcknowledgeBatch, Answered
  <2> QED
    BY <1>2, <1>3, <2>1 DEF AcknowledgeBatch
<1>4. CASE RejectBatch(d)
  <2>1. PICK p \in {"rejected", "failed"} : phase' = [phase EXCEPT ![Head(pending[d])] = p]
    BY <1>4 DEF RejectBatch, Answered
  <2> QED
    BY <1>2, <1>4, <2>1 DEF RejectBatch
<1> QED
  BY <1>1, <1>3, <1>4 DEF WriteStream

LEMMA WorldBorn ==
  ASSUME Born, World
  PROVE  BornFirst'
<1> USE DEF docVars, clientVars, runVars
<1>1. UNCHANGED <<server, landed, cache, pending>>
  BY DEF World, NetworkDown, NetworkUp, Crash, CustomerComments
<1>2. \A r \in Ops : phase'[r] \in {"pending", "fetched"} => phase'[r] = phase[r]
  BY DEF World, NetworkDown, NetworkUp, Crash, CustomerComments
<1> QED
  BY <1>1, <1>2, SignUpWritten, BornElsewhere DEF Born

LEMMA NextBorn == Born /\ [Next]_vars => Born'
<1> SUFFICES ASSUME Born, [Next]_vars PROVE Born'
  OBVIOUS
<1>1. IInv /\ Queued
  BY DEF Born
<1>2. TypeOK
  BY <1>1 DEF IInv
<1>3. IInv' /\ Queued'
  BY <1>1, <1>2, NextIInv, NextQueued
<1>4. CASE UNCHANGED vars
  BY <1>3, <1>4 DEF Born, BornFirst, vars, docVars, clientVars, runVars
<1>5. CASE Next
  BY <1>3, <1>5, BeginBorn, RemoteAnswerBorn, MainQueueBorn, WriteStreamBorn, WorldBorn
     DEF Next, Born
<1> QED
  BY <1>4, <1>5

\* Only the server's applying a write changes the document.
LEMMA ServerChange ==
  ASSUME [Next]_vars, server' # server
  PROVE  \E d \in Device : CommitWrite(d)
<1> USE DEF docVars, clientVars, runVars
<1>1. ASSUME NEW o \in Ops, Begin(o) \/ RemoteAnswer(o) PROVE server' = server
  BY <1>1 DEF Begin, Start, HandleAddService, ChangeProfileImage, RefreshReviewData,
              GetAllSalons, FetchAndSaveProfile, RemoteAnswer, PutData, DownloadURL,
              UploadFails, GetReviews, GetReviewsFails, FetchFromServer,
              FetchFromCache, FetchFails
<1>2. ASSUME NEW d \in Device, NEW o \in Ops, MainQueue(d, o) PROVE server' = server
  BY <1>2 DEF MainQueue, UpdateUserProfile, FetchFailed, ServiceWritten, ImageWritten,
              ImageRejected, RatingWritten, ShowServices, SaveUserProfile, RefetchFailed
<1>3. ASSUME World PROVE server' = server
  BY <1>3 DEF World, NetworkDown, NetworkUp, Crash, CustomerComments
<1>4. ASSUME NEW d \in Device, WriteStream(d), ~CommitWrite(d) PROVE server' = server
  BY <1>4 DEF WriteStream, AcknowledgeBatch, RejectBatch
<1> QED
  BY <1>1, <1>2, <1>3, <1>4 DEF Next, vars

LEMMA CommitUnsets ==
  ASSUME Born, NEW d \in Device, CommitWrite(d)
  PROVE  /\ server.exists => server'.exists
         /\ \/ landed[SignUp] > 0 /\ last'[SignUp] > last[SignUp]
            \/ /\ server.image # 0 => server'.image # 0
               /\ server.services # {} => server'.services # {}
<1> DEFINE o == pending[d][taken[d] + 1]
<1>0. TypeOK /\ Landing
  BY DEF Born, IInv
<1>1. /\ o \in Ops /\ phase[o] = "pending"
      /\ server' = [Apply(server, o) EXCEPT !.seen = server.seen \cup {o}]
      /\ last' = [last EXCEPT ![o] = writes + 1]
  BY <1>0, NextToTake DEF CommitWrite
<1>2. writes \in Nat /\ landed[SignUp] \in Nat /\ last[SignUp] \in Nat /\ last[SignUp] <= writes
      /\ last \in [Ops -> Nat]
  BY <1>0, SignUpWritten DEF TypeOK, Landing
<1> HIDE DEF o
<1>3. /\ server'.exists = Apply(server, o).exists
      /\ server'.image = Apply(server, o).image
      /\ server'.services = Apply(server, o).services
  <2>1. Apply(server, o) \in Copy
    BY <1>0, <1>1, ApplyType DEF TypeOK
  <2> QED
    BY <1>1, <2>1 DEF Copy
<1>4. server'.exists
  BY <1>3 DEF Apply, Merge
<1>5. CASE o # SignUp
  BY <1>3, <1>4, <1>5 DEF Apply, Merge
<1>6. CASE o = SignUp /\ landed[SignUp] > 0
  BY <1>1, <1>2, <1>4, <1>6
<1>7. CASE o = SignUp /\ landed[SignUp] = 0
  <2>1. server = NoDoc
    BY <1>1, <1>7 DEF Born, BornFirst
  <2> QED
    BY <2>1, <1>4 DEF NoDoc
<1> QED
  BY <1>2, <1>5, <1>6, <1>7

\* The first setData of sign-up meets no document; a merge writes no nil; so a picture or a
\* list of services disappears only when sign-up's write is applied a second time, and the
\* document itself never does (AppDataManager.swift:72-79, 101-116).
THEOREM FieldsStaySet == Spec => UnsetOnlyByRepeatedSignUp
<1> DEFINE Step == /\ server.exists => server'.exists
                   /\ \/ landed[SignUp] > 0 /\ last'[SignUp] > last[SignUp]
                      \/ /\ server.image # 0 => server'.image # 0
                         /\ server.services # {} => server'.services # {}
<1>1. Born /\ [Next]_vars => [Step]_vars
  <2> SUFFICES ASSUME Born, [Next]_vars PROVE Step
    OBVIOUS
  <2>1. CASE server' = server
    BY <2>1
  <2>2. CASE server' # server
    BY <2>2, ServerChange, CommitUnsets
  <2> QED
    BY <2>1, <2>2
<1> QED
  BY <1>1, InitBorn, NextBorn, PTL DEF Spec, UnsetOnlyByRepeatedSignUp
=============================================================================
