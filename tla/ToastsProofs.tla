---------------------------- MODULE ToastsProofs ----------------------------
(***************************************************************************)
(* Proofs about Toasts, for any number of toasts, each shown or enqueued   *)
(* once, of gestures and of calls: the type invariant, when the queue can  *)
(* stall, that a toast left alone is closed once, and when the queue shows *)
(* two toasts.                                                             *)
(***************************************************************************)
EXTENDS Toasts, SequenceTheorems, NaturalsInduction, WellFoundedInduction, TLAPS

-----------------------------------------------------------------------------
(* The type invariant *)

\* A list has a first occurrence of what it contains: what RemoveFirst needs.
LEMMA MinIndex ==
  ASSUME NEW n \in Nat, NEW I \in SUBSET (1..n), I # {}
  PROVE  Min(I) \in I
<1>1. PICK m \in I : \A k \in I : ~ (<<k, m>> \in OpToRel(<, Nat))
  <2>1. IsWellFoundedOn(OpToRel(<, Nat), Nat)
    BY NatLessThanWellFounded
  <2>2. I \subseteq Nat
    OBVIOUS
  <2> QED
    BY <2>1, <2>2, WFMin
<1>2. \A k \in I : m <= k
  <2> SUFFICES ASSUME NEW k \in I, k < m PROVE FALSE
    OBVIOUS
  <2>1. <<k, m>> \in OpToRel(<, Nat)
    BY DEF OpToRel
  <2> QED
    BY <1>1, <2>1
<1> QED
  BY <1>1, <1>2 DEF Min

LEMMA RemoveFirstType ==
  ASSUME NEW S, NEW s \in Seq(S), NEW e
  PROVE  RemoveFirst(s, e) \in Seq(S)
<1>1. CASE \E i \in 1..Len(s) : s[i] = e
  <2> DEFINE I == {i \in 1..Len(s) : s[i] = e}
             k == SelectInSeq(s, LAMBDA v : v = e)
  <2>1. I # {} /\ k = Min(I)
    BY <1>1 DEF SelectInSeq
  <2>2. k \in 1..Len(s)
    <3>1. Len(s) \in Nat /\ I \in SUBSET (1..Len(s))
      OBVIOUS
    <3> HIDE DEF I, k
    <3>2. Min(I) \in I
      BY <3>1, <2>1, MinIndex
    <3> QED
      BY <3>1, <3>2, <2>1
  <2>3. RemoveFirst(s, e) = RemoveAt(s, k)
    BY <1>1 DEF RemoveFirst
  <2> HIDE DEF k
  <2>4. SubSeq(s, 1, k - 1) \in Seq(S) /\ SubSeq(s, k + 1, Len(s)) \in Seq(S)
    BY <2>2
  <2> QED
    BY <2>3, <2>4 DEF RemoveAt
<1>2. CASE ~ \E i \in 1..Len(s) : s[i] = e
  BY <1>2 DEF RemoveFirst
<1> QED
  BY <1>1, <1>2

\* What the handlers share.
Motions == {"enter", "exit", "spring"}

LEMMA AppendMotion ==
  ASSUME TypeOK, NEW t, NEW m \in Motions
  PROVE  [motions EXCEPT ![t] = Append(@, m)] \in [Toast -> Seq(Motions)]
<1>1. motions \in [Toast -> Seq(Motions)]
  BY DEF TypeOK, Motions
<1>2. CASE t \in Toast
  <2>1. Append(motions[t], m) \in Seq(Motions)
    BY <1>1, <1>2, AppendProperties
  <2> QED
    BY <1>1, <2>1
<1>3. CASE t \notin Toast
  BY <1>1, <1>3
<1> QED
  BY <1>2, <1>3

LEMMA TailMotion ==
  ASSUME TypeOK, NEW t \in Toast, motions[t] # <<>>
  PROVE  [motions EXCEPT ![t] = Tail(@)] \in [Toast -> Seq(Motions)]
<1>1. Tail(motions[t]) \in Seq(Motions)
  BY DEF TypeOK, Motions
<1> QED
  BY <1>1 DEF TypeOK, Motions

LEMMA CloseTimerType ==
  ASSUME TypeOK, NEW t \in Toast, ConfigureCloseTimer(t)
  PROVE  timed' \subseteq Timed /\ orphans' \in [Toast -> Nat]
<1>1. timed' \subseteq Timed
  BY DEF TypeOK, ConfigureCloseTimer
<1>2. orphans[t] \in Nat
  BY DEF TypeOK
<1>3. orphans' \in [Toast -> Nat]
  BY <1>2 DEF TypeOK, ConfigureCloseTimer
<1> QED
  BY <1>1, <1>3

LEMMA ShowFirstType ==
  ASSUME TypeOK, NEW q \in Seq(Toast), ShowFirst(q)
  PROVE  /\ isShowing' \in BOOLEAN
         /\ queue' \in Seq(Toast)
         /\ served' \subseteq Toast
         /\ attached' \subseteq Toast
         /\ motions' \in [Toast -> Seq(Motions)]
<1>1. CASE q = <<>>
  BY <1>1 DEF TypeOK, ShowFirst, Motions
<1>2. CASE q # <<>>
  <2>1. Head(q) \in Toast /\ Tail(q) \in Seq(Toast)
    BY <1>2
  <2>2. motions' \in [Toast -> Seq(Motions)]
    BY <1>2, AppendMotion DEF ShowFirst, Motions
  <2> QED
    BY <1>2, <2>1, <2>2 DEF TypeOK, ShowFirst
<1> QED
  BY <1>1, <1>2

LEMMA CallerType ==
  ASSUME TypeOK, Caller
  PROVE  TypeOK'
<1> USE DEF screenVars, timerVars, gestureVars, queueVars
<1>1. CASE ShowQueue
  <2>1. queue \in Seq(Toast) /\ ShowFirst(queue)
    BY <1>1 DEF TypeOK, ShowQueue
  <2>2. /\ isShowing' \in BOOLEAN /\ queue' \in Seq(Toast) /\ served' \subseteq Toast
        /\ attached' \subseteq Toast /\ motions' \in [Toast -> Seq(Motions)]
    BY <2>1, ShowFirstType
  <2> QED
    BY <1>1, <2>2 DEF TypeOK, ShowQueue, Motions
<1>2. ASSUME NEW t \in Toast, Show(t) PROVE TypeOK'
  <2>1. motions' \in [Toast -> Seq(Motions)]
    <3>1. CASE motions' = [motions EXCEPT ![t] = Append(@, "enter")]
      BY <3>1, AppendMotion DEF Motions
    <3>2. CASE UNCHANGED motions
      BY <3>2 DEF TypeOK, Motions
    <3> QED
      BY <1>2, <3>1, <3>2 DEF Show
  <2> QED
    BY <1>2, <2>1 DEF TypeOK, Show, Motions
<1>3. ASSUME NEW t \in Toast, Enqueue(t) PROVE TypeOK'
  <2>1. queue' \in Seq(Toast)
    BY <1>3 DEF TypeOK, Enqueue
  <2> QED
    BY <1>3, <2>1 DEF TypeOK, Enqueue
<1>4. ASSUME NEW t \in Toast, Dequeue(t) PROVE TypeOK'
  <2>1. queue' \in Seq(Toast)
    BY <1>4, RemoveFirstType DEF TypeOK, Dequeue
  <2> QED
    BY <1>4, <2>1 DEF TypeOK, Dequeue
<1>5. ASSUME NEW s \in Toast, NEW u \in Toast, EnqueueAll(s, u) PROVE TypeOK'
  <2>1. <<s, u>> \in Seq(Toast) /\ queue \o <<s, u>> \in Seq(Toast)
    BY DEF TypeOK
  <2>2. /\ isShowing' \in BOOLEAN /\ queue' \in Seq(Toast) /\ served' \subseteq Toast
        /\ attached' \subseteq Toast /\ motions' \in [Toast -> Seq(Motions)]
    <3>1. CASE ShowFirst(<<s, u>>)
      BY <2>1, <3>1, ShowFirstType
    <3>2. CASE queue' = queue \o <<s, u>> /\ UNCHANGED <<isShowing, served, attached, motions>>
      BY <2>1, <3>2 DEF TypeOK, Motions
    <3> QED
      BY <1>5, <3>1, <3>2 DEF EnqueueAll
  <2> QED
    BY <1>5, <2>2 DEF TypeOK, EnqueueAll, Motions
<1>6. ASSUME NEW t \in Toast, CallClose(t) PROVE TypeOK'
  <2>1. touches + 1 \in Nat /\ hiding[t] + 1 \in Nat
    BY DEF TypeOK
  <2>2. motions' \in [Toast -> Seq(Motions)]
    <3>1. CASE Close(t)
      BY <3>1, AppendMotion DEF Close, Motions
    <3>2. CASE UNCHANGED motions
      BY <3>2 DEF TypeOK, Motions
    <3> QED
      BY <1>6, <3>1, <3>2 DEF CallClose
  <2>3. hiding' \in [Toast -> Nat]
    BY <1>6, <2>1 DEF CallClose, TypeOK
  <2>4. touches' \in Nat /\ disturbed' \subseteq Toast
    BY <1>6, <2>1 DEF CallClose, TypeOK
  <2>5. UNCHANGED <<fresh, attached, delayed, timed, orphans, panning, pressing, active, queue,
                    isShowing, served, closings>>
    BY <1>6 DEF CallClose
  <2> QED
    BY <2>2, <2>3, <2>4, <2>5 DEF TypeOK, Motions
<1> QED
  BY <1>1, <1>2, <1>3, <1>4, <1>5, <1>6 DEF Caller

LEMMA GestureType ==
  ASSUME TypeOK, NEW t \in Toast, Finger(t) \/ FingerLeaves(t)
  PROVE  TypeOK'
<1> USE DEF screenVars, timerVars, gestureVars, queueVars
<1>0. touches + 1 \in Nat
  BY DEF TypeOK
<1>1. CASE Tap(t)
  <2>1. motions' \in [Toast -> Seq(Motions)]
    BY <1>1, AppendMotion DEF Tap, Close, Motions
  <2> QED
    BY <1>0, <1>1, <2>1 DEF TypeOK, Tap, Touch, Motions
<1>2. CASE LongPress(t)
  <2>1. motions' \in [Toast -> Seq(Motions)]
    BY <1>2, AppendMotion DEF LongPress, Close, Motions
  <2> QED
    BY <1>0, <1>2, <2>1 DEF TypeOK, LongPress, Motions
<1>3. CASE PanBegan(t)
  BY <1>0, <1>3 DEF TypeOK, PanBegan, Touch
<1>4. CASE LongPressEnds(t)
  <2>1. motions' \in [Toast -> Seq(Motions)]
    BY <1>4, AppendMotion DEF LongPressEnds, Close, Motions
  <2> QED
    BY <1>4, <2>1 DEF TypeOK, LongPressEnds, Motions
<1>5. CASE PanEnded(t)
  <2>1. motions' \in [Toast -> Seq(Motions)]
    BY <1>5, AppendMotion DEF PanEnded, Close, Motions
  <2> QED
    BY <1>5, <2>1 DEF TypeOK, PanEnded, Motions
<1>6. CASE PanCancelled(t)
  <2>1. timed' \subseteq Timed /\ orphans' \in [Toast -> Nat]
    BY <1>6, CloseTimerType DEF PanCancelled
  <2> QED
    BY <1>6, <2>1 DEF TypeOK, PanCancelled
<1>7. CASE LongPressMoves(t)
  <2>1. motions' \in [Toast -> Seq(Motions)]
    BY <1>7, AppendMotion DEF LongPressMoves, Close, Motions
  <2> QED
    BY <1>0, <1>7, <2>1 DEF TypeOK, LongPressMoves, Motions
<1> QED
  BY <1>1, <1>2, <1>3, <1>4, <1>5, <1>6, <1>7 DEF Finger, FingerLeaves

LEMMA DidShowType ==
  ASSUME TypeOK, NEW t \in Toast, DidShow(t)
  PROVE  TypeOK'
<1> USE DEF screenVars, timerVars, gestureVars, queueVars
<1>1. motions' \in [Toast -> Seq(Motions)] /\ delayed' \subseteq Toast
  <2>1. CASE /\ motions[t] # <<>> /\ UNCHANGED delayed
             /\ motions' = [motions EXCEPT ![t] = Tail(@)]
    BY <2>1, TailMotion DEF TypeOK
  <2>2. CASE delayed' = delayed \ {t} /\ UNCHANGED motions
    BY <2>2 DEF TypeOK, Motions
  <2> QED
    BY <2>1, <2>2 DEF DidShow
<1>2. /\ timed' \subseteq Timed
      /\ disturbed' \subseteq Toast
  <2>1. ToSet(active) \subseteq Toast
    BY DEF TypeOK, ToSet
  <2> QED
    BY <2>1 DEF TypeOK, DidShow, CloseOverlapped
<1>3. orphans' \in [Toast -> Nat]
  <2>1. orphans[t] \in Nat
    BY DEF TypeOK
  <2>2. orphans' = [orphans EXCEPT ![t] = IF t \in Timed \cap timed THEN @ + 1 ELSE @]
    BY DEF DidShow, CloseOverlapped
  <2> QED
    BY <2>1, <2>2 DEF TypeOK
<1>4. hiding' \in [Toast -> Nat]
  <2>1. \A u \in Toast : hiding[u] \in Nat /\ hiding[u] + 1 \in Nat
    BY DEF TypeOK
  <2> QED
    BY <2>1 DEF DidShow, CloseOverlapped
<1>5. active' \in Seq(Toast)
  BY DEF TypeOK, DidShow
<1> QED
  BY <1>1, <1>2, <1>3, <1>4, <1>5 DEF TypeOK, DidShow, Motions

LEMMA DidCloseType ==
  ASSUME TypeOK, NEW t \in Toast, DidClose(t)
  PROVE  TypeOK'
<1> USE DEF screenVars, timerVars, gestureVars, queueVars
<1>1. motions' \in [Toast -> Seq(Motions)] /\ hiding' \in [Toast -> Nat]
  <2>1. CASE /\ motions[t] # <<>> /\ UNCHANGED hiding
             /\ motions' = [motions EXCEPT ![t] = Tail(@)]
    BY <2>1, TailMotion DEF TypeOK
  <2>2. CASE hiding[t] > 0 /\ hiding' = [hiding EXCEPT ![t] = @ - 1] /\ UNCHANGED motions
    <3>1. hiding[t] \in Nat
      BY DEF TypeOK
    <3>2. hiding[t] - 1 \in Nat
      BY <2>2, <3>1
    <3> QED
      BY <2>2, <3>2 DEF TypeOK, Motions
  <2> QED
    BY <2>1, <2>2 DEF DidClose
<1>2. active' \in Seq(Toast)
  BY RemoveFirstType DEF TypeOK, DidClose
<1>3. closings' \in [Toast -> Nat]
  <2>1. closings[t] + 1 \in Nat
    BY DEF TypeOK
  <2> QED
    BY <2>1 DEF TypeOK, DidClose
<1>4. /\ isShowing' \in BOOLEAN /\ queue' \in Seq(Toast) /\ served' \subseteq Toast
      /\ attached' \subseteq Toast /\ delayed' \subseteq Toast
  <2>1. queue # <<>> => Head(queue) \in Toast /\ Tail(queue) \in Seq(Toast)
    BY DEF TypeOK
  <2> QED
    BY <2>1 DEF TypeOK, DidClose, DidCloseToast
<1> QED
  BY <1>1, <1>2, <1>3, <1>4 DEF TypeOK, DidClose, Motions

LEMMA AnimationType ==
  ASSUME TypeOK, NEW t \in Toast, Animation(t)
  PROVE  TypeOK'
<1> USE DEF screenVars, timerVars, gestureVars, queueVars
<1>1. CASE Enter(t)
  <2>1. motions' \in [Toast -> Seq(Motions)]
    BY <1>1, AppendMotion DEF Enter, Motions
  <2> QED
    BY <1>1, <2>1 DEF TypeOK, Enter, Motions
<1>2. CASE SprungBack(t)
  <2>1. motions' \in [Toast -> Seq(Motions)]
    BY <1>2, TailMotion DEF SprungBack
  <2>2. timed' \subseteq Timed /\ orphans' \in [Toast -> Nat]
    BY <1>2, CloseTimerType DEF SprungBack
  <2> QED
    BY <1>2, <2>1, <2>2 DEF TypeOK, SprungBack, Motions
<1> QED
  BY <1>1, <1>2, DidShowType, DidCloseType DEF Animation

LEMMA TimerType ==
  ASSUME TypeOK, NEW t \in Toast, TimerFires(t)
  PROVE  TypeOK'
<1> USE DEF screenVars, timerVars, gestureVars, queueVars
<1>1. motions' \in [Toast -> Seq(Motions)]
  BY AppendMotion DEF TimerFires, Close, Motions
<1>2. timed' \subseteq Timed /\ orphans' \in [Toast -> Nat]
  <2>1. CASE timed' = timed \ {t} /\ UNCHANGED orphans
    BY <2>1 DEF TypeOK
  <2>2. CASE orphans[t] > 0 /\ orphans' = [orphans EXCEPT ![t] = @ - 1] /\ UNCHANGED timed
    <3>1. orphans[t] \in Nat
      BY DEF TypeOK
    <3>2. orphans[t] - 1 \in Nat
      BY <2>2, <3>1
    <3> QED
      BY <2>2, <3>2 DEF TypeOK
  <2> QED
    BY <2>1, <2>2 DEF TimerFires
<1> QED
  BY <1>1, <1>2 DEF TypeOK, TimerFires, Motions

LEMMA InitType == Init => TypeOK
<1> SUFFICES ASSUME Init PROVE TypeOK
  OBVIOUS
<1>1. /\ motions \in [Toast -> Seq({"enter", "exit", "spring"})]
      /\ active \in Seq(Toast) /\ queue \in Seq(Toast)
  BY DEF Init
<1>2. hiding \in [Toast -> Nat] /\ orphans \in [Toast -> Nat] /\ closings \in [Toast -> Nat]
  BY DEF Init
<1> QED
  BY <1>1, <1>2 DEF Init, TypeOK

LEMMA NextType == TypeOK /\ [Next]_vars => TypeOK'
<1> SUFFICES ASSUME TypeOK, [Next]_vars PROVE TypeOK'
  OBVIOUS
<1>1. CASE UNCHANGED vars
  BY <1>1 DEF TypeOK, vars, screenVars, timerVars, gestureVars, queueVars
<1>2. CASE Next
  BY <1>2, CallerType, GestureType, AnimationType, TimerType DEF Next
<1> QED
  BY <1>1, <1>2

\* The type invariant, whatever the callers and fingers do (Toast.swift, ToastQueue.swift).
THEOREM TypeCorrect == Spec => []TypeOK
  BY InitType, NextType, PTL DEF Spec

-----------------------------------------------------------------------------
(* When the queue stalls *)

\* A queue that has a toast up stays able to go on, and one that shows its first
\* toast puts it up.
LEMMA NotStalled ==
  ASSUME ~Stalled, isShowing' = isShowing, served' = served, attached' = attached,
         queue # <<>> \/ queue' = queue
  PROVE  ~Stalled'
  BY DEF Stalled

LEMMA FirstIsUp ==
  ASSUME NEW q, ShowFirst(q)
  PROVE  ~Stalled'
<1>1. CASE q = <<>>
  BY <1>1 DEF ShowFirst, Stalled
<1>2. CASE q # <<>>
  <2>1. Head(q) \in served' /\ Head(q) \in attached'
    BY <1>2 DEF ShowFirst
  <2> QED
    BY <2>1 DEF Stalled
<1> QED
  BY <1>1, <1>2

LEMMA CloseGoesOn ==
  ASSUME NEW t \in Toast, DidCloseToast(t), ~Stalled
  PROVE  ~Stalled'
<1>1. CASE t \in served /\ queue = <<>>
  BY <1>1 DEF DidCloseToast, Stalled
<1>2. CASE t \in served /\ queue # <<>>
  <2>1. Head(queue) \in served' /\ Head(queue) \in attached'
    BY <1>2 DEF DidCloseToast
  <2> QED
    BY <2>1 DEF Stalled
<1>3. CASE t \notin served
  <2>1. /\ queue' = queue /\ isShowing' = isShowing /\ served' = served
        /\ attached' = attached \ {t}
    BY <1>3 DEF DidCloseToast, queueVars
  <2> QED
    BY <1>3, <2>1 DEF Stalled
<1> QED
  BY <1>1, <1>2, <1>3

\* A step that stalls the queue.
Stalls == ~Stalled /\ Stalled'

LEMMA CallerStalls ==
  ASSUME Caller, Stalls
  PROVE  queue = <<>> /\ served \cap attached = {} /\ Len(queue') = 1
<1> USE DEF Stalls, screenVars, queueVars
<1>1. CASE ShowQueue
  BY <1>1, FirstIsUp DEF ShowQueue
<1>2. ASSUME NEW t \in Toast, Show(t) PROVE FALSE
  BY <1>2 DEF Show, Stalled
<1>3. ASSUME NEW t \in Toast, Enqueue(t)
      PROVE  queue = <<>> /\ served \cap attached = {} /\ Len(queue') = 1
  <2>1. isShowing' = isShowing /\ served' = served /\ attached' = attached
    BY <1>3 DEF Enqueue
  <2>2. queue = <<>> /\ served \cap attached = {}
    BY <2>1 DEF Stalled
  <2>3. queue' = Append(<<>>, t)
    BY <1>3, <2>2 DEF Enqueue
  <2> QED
    BY <2>2, <2>3
<1>4. ASSUME NEW t \in Toast, Dequeue(t) PROVE FALSE
  <2>1. queue # <<>>
    BY <1>4 DEF Dequeue, Contains
  <2> QED
    BY <1>4, <2>1, NotStalled DEF Dequeue
<1>5. ASSUME NEW s \in Toast, NEW u \in Toast, EnqueueAll(s, u) PROVE FALSE
  <2>1. CASE ShowFirst(<<s, u>>)
    BY <2>1, FirstIsUp
  <2>2. CASE /\ ~(queue = <<>> /\ isShowing)
             /\ UNCHANGED <<isShowing, served, attached, motions>>
    BY <2>2 DEF Stalled
  <2> QED
    BY <1>5, <2>1, <2>2 DEF EnqueueAll
<1>6. ASSUME NEW t \in Toast, CallClose(t) PROVE FALSE
  BY <1>6 DEF CallClose, Stalled
<1> QED
  BY <1>1, <1>2, <1>3, <1>4, <1>5, <1>6 DEF Caller

\* No timer, animation or gesture leaves the queue stalled.
LEMMA OthersGoOn ==
  ASSUME NEW t \in Toast, Finger(t) \/ FingerLeaves(t) \/ Animation(t) \/ TimerFires(t),
         ~Stalled
  PROVE  ~Stalled'
<1> USE DEF screenVars, queueVars
<1>1. CASE Finger(t)
  BY <1>1, NotStalled DEF Finger, Tap, LongPress, LongPressMoves, PanBegan
<1>2. CASE FingerLeaves(t)
  BY <1>2, NotStalled DEF FingerLeaves, LongPressEnds, PanEnded, PanCancelled
<1>3. CASE Enter(t) \/ DidShow(t) \/ SprungBack(t)
  BY <1>3, NotStalled DEF Enter, DidShow, SprungBack
<1>4. CASE DidClose(t)
  BY <1>4, CloseGoesOn DEF DidClose
<1>5. CASE TimerFires(t)
  BY <1>5, NotStalled DEF TimerFires
<1> QED
  BY <1>1, <1>2, <1>3, <1>4, <1>5 DEF Animation

\* A queue that was shown is left with toasts nobody is going to show only by a single
\* toast enqueued when it had run empty (ToastQueue.swift:22-36, 70-76).
THEOREM StallsOnSingle == Spec => StallsOnlyOnSingle
<1>1. [Next]_vars =>
        [~Stalled /\ Stalled' => queue = <<>> /\ served \cap attached = {}
                                 /\ Len(queue') = 1]_vars
  BY CallerStalls, OthersGoOn DEF Next, Stalls
<1> QED
  BY <1>1, PTL DEF Spec, StallsOnlyOnSingle

-----------------------------------------------------------------------------
(* A toast left alone is closed once. *)

Once(q, t) == \A i, j \in 1..Len(q) : q[i] = t /\ q[j] = t => i = j

LEMMA AppendOnce ==
  ASSUME NEW q \in Seq(Toast), NEW u \in Toast, NEW t \in Toast
  PROVE  /\ Append(q, u) \in Seq(Toast)
         /\ Contains(Append(q, u), t) <=> Contains(q, t) \/ t = u
         /\ Once(q, t) /\ (t # u \/ ~Contains(q, t)) => Once(Append(q, u), t)
<1>1. /\ Append(q, u) \in Seq(Toast) /\ Len(Append(q, u)) = Len(q) + 1 /\ Len(q) \in Nat
      /\ \A i \in 1..Len(q) : Append(q, u)[i] = q[i]
      /\ Append(q, u)[Len(q) + 1] = u
  OBVIOUS
<1>2. Contains(Append(q, u), t) <=> Contains(q, t) \/ t = u
  BY <1>1 DEF Contains
<1>3. ASSUME Once(q, t), t # u \/ ~Contains(q, t) PROVE Once(Append(q, u), t)
  BY <1>1, <1>3 DEF Contains, Once
<1> QED
  BY <1>1, <1>2, <1>3

LEMMA TailOnce ==
  ASSUME NEW q \in Seq(Toast), q # <<>>, NEW t \in Toast, Once(q, t)
  PROVE  /\ Head(q) \in Toast /\ Tail(q) \in Seq(Toast) /\ Contains(q, Head(q))
         /\ Contains(Tail(q), t) => Contains(q, t) /\ t # Head(q)
         /\ Once(Tail(q), t)
<1>1. /\ Head(q) \in Toast /\ Tail(q) \in Seq(Toast) /\ Len(q) \in Nat /\ Len(q) >= 1
      /\ Len(Tail(q)) = Len(q) - 1
      /\ \A i \in 1..Len(q) - 1 : Tail(q)[i] = q[i + 1]
      /\ Head(q) = q[1]
  OBVIOUS
<1> QED
  BY <1>1 DEF Contains, Once

\* RemoveFirst takes out one place and moves up those behind it.
LEMMA RemovedAt ==
  ASSUME NEW q \in Seq(Toast), NEW u \in Toast, Contains(q, u)
  PROVE  \E k \in 1..Len(q) :
           /\ q[k] = u
           /\ Len(RemoveFirst(q, u)) = Len(q) - 1
           /\ \A i \in 1..Len(q) - 1 :
                RemoveFirst(q, u)[i] = IF i < k THEN q[i] ELSE q[i + 1]
<1> DEFINE I == {i \in 1..Len(q) : q[i] = u}
           k == SelectInSeq(q, LAMBDA v : v = u)
<1>1. I # {} /\ k = Min(I)
  BY DEF SelectInSeq, Contains
<1>2. k \in 1..Len(q) /\ q[k] = u
  <2>1. Len(q) \in Nat /\ I \in SUBSET (1..Len(q))
    OBVIOUS
  <2>2. Min(I) \in I
    <3> HIDE DEF I
    <3> QED
      BY <2>1, <1>1, MinIndex
  <2> QED
    BY <1>1, <2>2
<1>3. RemoveFirst(q, u) = RemoveAt(q, k)
  BY DEF RemoveFirst, Contains
<1> HIDE DEF k
<1>4. RemoveAt(q, k) = SubSeq(q, 1, k - 1) \o SubSeq(q, k + 1, Len(q))
  BY DEF RemoveAt
<1>5. /\ Len(RemoveAt(q, k)) = Len(q) - 1
      /\ \A i \in 1..Len(q) - 1 : RemoveAt(q, k)[i] = IF i < k THEN q[i] ELSE q[i + 1]
  <2> DEFINE a == SubSeq(q, 1, k - 1)
             b == SubSeq(q, k + 1, Len(q))
  <2>1. /\ a \in Seq(Toast) /\ Len(a) = k - 1
        /\ \A i \in 1..k - 1 : a[i] = q[i]
    BY <1>2
  <2>2. /\ b \in Seq(Toast) /\ Len(b) = Len(q) - k
        /\ \A i \in 1..Len(q) - k : b[i] = q[i + k]
    BY <1>2
  <2> HIDE DEF a, b
  <2>3. /\ Len(a \o b) = Len(a) + Len(b)
        /\ \A i \in 1..Len(a) + Len(b) :
             (a \o b)[i] = IF i <= Len(a) THEN a[i] ELSE b[i - Len(a)]
    BY <2>1, <2>2, ConcatProperties
  <2>4. Len(q) \in Nat
    OBVIOUS
  <2>5. Len(a \o b) = Len(q) - 1
    BY <1>2, <2>1, <2>2, <2>3, <2>4
  <2>6. ASSUME NEW i \in 1..Len(q) - 1, i < k PROVE (a \o b)[i] = q[i]
    BY <1>2, <2>1, <2>3, <2>4, <2>6
  <2>7. ASSUME NEW i \in 1..Len(q) - 1, ~(i < k) PROVE (a \o b)[i] = q[i + 1]
    <3>1. i \in 1..Len(a) + Len(b) /\ ~(i <= Len(a)) /\ i - Len(a) \in 1..Len(q) - k
      BY <1>2, <2>1, <2>2, <2>4, <2>7
    <3>2. (a \o b)[i] = b[i - Len(a)] /\ b[i - Len(a)] = q[(i - Len(a)) + k]
      BY <3>1, <2>2, <2>3
    <3> QED
      BY <1>2, <3>2, <2>1, <2>4
  <2> QED
    BY <1>4, <2>5, <2>6, <2>7 DEF a, b
<1> QED
  BY <1>2, <1>3, <1>5

LEMMA RemoveOnce ==
  ASSUME NEW q \in Seq(Toast), NEW u \in Toast, NEW t \in Toast, Once(q, t)
  PROVE  /\ Contains(RemoveFirst(q, u), t) => Contains(q, t) /\ t # u
         /\ Once(RemoveFirst(q, u), t)
<1>1. CASE Contains(q, u)
  <2>1. PICK k \in 1..Len(q) :
          /\ q[k] = u
          /\ Len(RemoveFirst(q, u)) = Len(q) - 1
          /\ \A i \in 1..Len(q) - 1 :
               RemoveFirst(q, u)[i] = IF i < k THEN q[i] ELSE q[i + 1]
    BY <1>1, RemovedAt
  <2>2. Len(q) \in Nat
    OBVIOUS
  <2> DEFINE r == RemoveFirst(q, u)
  <2>3. ASSUME NEW i \in 1..Len(r), r[i] = t PROVE Contains(q, t) /\ t # u
    BY <2>1, <2>2, <2>3 DEF Contains, Once
  <2>4. ASSUME NEW i \in 1..Len(r), NEW j \in 1..Len(r), r[i] = t, r[j] = t PROVE i = j
    BY <2>1, <2>2, <2>4 DEF Once
  <2> QED
    BY <2>3, <2>4 DEF Contains, Once
<1>2. CASE ~Contains(q, u)
  <2>1. RemoveFirst(q, u) = q
    BY <1>2 DEF RemoveFirst, Contains
  <2> QED
    BY <1>2, <2>1
<1> QED
  BY <1>1, <1>2

-----------------------------------------------------------------------------
\* What of t is under way: the entering delay, a finger, animations, closings
\* without an animation, the timer.
Way(t, d, p, m, h, s) ==
  /\ t \in delayed <=> d
  /\ t \in panning <=> p
  /\ motions[t] = m
  /\ hiding[t] = h
  /\ t \in timed <=> s

AtRest(t) == Way(t, FALSE, FALSE, <<>>, 0, FALSE)

Coming(t) ==
  \/ Way(t, TRUE, FALSE, <<>>, 0, FALSE)
  \/ Way(t, FALSE, FALSE, <<"enter">>, 0, FALSE)

Shown(t) ==
  \/ Way(t, FALSE, TRUE, <<>>, 0, FALSE)
  \/ Way(t, FALSE, FALSE, <<"exit">>, 0, FALSE)
  \/ Way(t, FALSE, FALSE, <<"spring">>, 0, FALSE)
  \/ Way(t, FALSE, FALSE, <<>>, 1, FALSE)
  \/ Way(t, FALSE, FALSE, <<>>, 0, TRUE)

\* At most one thing is under way, while the toast is up; a toast that went is closed
\* once and gone from the active ones, where it was once.
Calm(t) ==
  /\ orphans[t] = 0 /\ t \notin pressing
  /\ AtRest(t) \/ Coming(t) \/ Shown(t)
  /\ ~AtRest(t) => t \in attached
  /\ Coming(t) => ~Contains(active, t)
  /\ Contains(active, t) => t \in attached
  /\ Once(active, t)
  /\ t \in attached => closings[t] = 0
  /\ closings[t] <= 1

\* A toast that is still to be shown is in one place, is not on its way to the screen
\* and has no part in the queue's going on; a caller may have closed it already, and
\* nothing else has happened to it.
Waits(t) == t \in fresh \/ Contains(queue, t)

Waiting ==
  \A t \in Toast :
    /\ Once(queue, t)
    /\ ~(t \in fresh /\ Contains(queue, t))
    /\ Waits(t) => t \notin attached \cup delayed \cup served
    /\ Waits(t) => t \in disturbed \/ closings[t] = 0

\* The inductive invariant.
OInv == TypeOK /\ Waiting /\ \A t \in Toast : t \in disturbed \/ Calm(t)

\* A step that does nothing to t, except to take it from the active toasts.
Same(t) ==
  /\ t \in delayed' <=> t \in delayed
  /\ t \in panning' <=> t \in panning
  /\ t \in pressing' <=> t \in pressing
  /\ t \in timed' <=> t \in timed
  /\ t \in attached' <=> t \in attached
  /\ motions'[t] = motions[t]
  /\ hiding'[t] = hiding[t]
  /\ orphans'[t] = orphans[t]
  /\ closings'[t] = closings[t]
  /\ Contains(active, t)' => Contains(active, t)
  /\ Once(active, t) => Once(active, t)'

LEMMA SameCalm ==
  ASSUME NEW t, Calm(t), Same(t)
  PROVE  Calm(t)'
<1>1. /\ AtRest(t)' <=> AtRest(t)
      /\ Coming(t)' <=> Coming(t)
      /\ Shown(t)' <=> Shown(t)
  BY DEF Same, AtRest, Coming, Shown, Way
<1> QED
  BY <1>1 DEF Calm, Same

LEMMA OneMotion ==
  \A m : /\ Append(<<>>, m) = <<m>> /\ Tail(<<m>>) = <<>>
         /\ Head(<<m>>) = m /\ <<m>> # <<>>
OBVIOUS

LEMMA WaitsAtRest ==
  ASSUME OInv, NEW t \in Toast, Waits(t), t \notin disturbed
  PROVE  /\ AtRest(t) /\ Calm(t) /\ closings[t] = 0
         /\ t \notin attached /\ ~Contains(active, t)
BY DEF OInv, Waiting, Calm

\* A step of one toast that neither shows it nor takes it away.
LEMMA OwnStep ==
  ASSUME OInv, TypeOK', NEW t \in Toast,
         UNCHANGED <<fresh, queue, served, attached, closings>>,
         delayed' \subseteq delayed, disturbed \subseteq disturbed',
         \A u \in Toast \ {t} : Same(u) /\ (u \in disturbed' <=> u \in disturbed),
         t \in disturbed' \/ Calm(t)'
  PROVE  OInv'
<1>1. ASSUME NEW u \in Toast, u # t PROVE u \in disturbed' \/ Calm(u)'
  BY <1>1, SameCalm DEF OInv
<1>2. Waiting'
  BY DEF OInv, Waiting, Waits
<1> QED
  BY <1>1, <1>2 DEF OInv

LEMMA InitOInv == Init => OInv
<1> SUFFICES ASSUME Init PROVE OInv
  OBVIOUS
<1>1. TypeOK
  BY InitType
<1>2. ASSUME NEW t \in Toast PROVE ~Contains(queue, t) /\ Once(queue, t)
  BY DEF Init, Contains, Once
<1>3. ASSUME NEW t \in Toast PROVE Calm(t)
  <2>1. ~Contains(active, t) /\ Once(active, t)
    BY DEF Init, Contains, Once
  <2>2. AtRest(t) /\ ~Coming(t)
    BY OneMotion DEF Init, AtRest, Coming, Way
  <2> QED
    BY <2>1, <2>2 DEF Init, Calm
<1> QED
  BY <1>1, <1>2, <1>3 DEF OInv, Waiting, Waits, Init

-----------------------------------------------------------------------------
LEMMA FingerSettles ==
  ASSUME OInv, TypeOK', NEW t \in Toast, Finger(t)
  PROVE  OInv'
<1> USE DEF screenVars, timerVars, gestureVars, queueVars
<1>0. TypeOK /\ t \in attached
  BY DEF Finger, Tap, LongPress, LongPressMoves, PanBegan, Touch, OInv
<1>1. CASE LongPress(t) \/ LongPressMoves(t)
  <2>1. t \in disturbed'
    BY <1>1 DEF LongPress, LongPressMoves, OInv, Calm
  <2>2. \A u \in Toast \ {t} : Same(u) /\ (u \in disturbed' <=> u \in disturbed)
    BY <1>0, <1>1 DEF LongPress, LongPressMoves, Close, Same, TypeOK
  <2> QED
    BY <1>0, <1>1, <2>1, <2>2, OwnStep DEF LongPress, LongPressMoves
<1>2. CASE Tap(t) \/ PanBegan(t)
  <2>1. \A u \in Toast \ {t} : Same(u) /\ (u \in disturbed' <=> u \in disturbed)
    BY <1>0, <1>2 DEF Tap, PanBegan, Touch, Close, Same, TypeOK
  <2>2. ASSUME t \notin disturbed' PROVE Calm(t)'
    <3>1. t \notin disturbed /\ ~Busy(t) /\ Calm(t)
      BY <1>2, <2>2 DEF Tap, PanBegan, Touch, OInv
    <3>2. /\ t \notin delayed /\ t \notin panning /\ motions[t] = <<>> /\ hiding[t] = 0
          /\ orphans[t] = 0 /\ t \notin pressing /\ Once(active, t) /\ closings[t] = 0
      BY <1>0, <3>1 DEF Busy, Calm, TypeOK
    <3>3. Shown(t)' /\ ~AtRest(t)' /\ ~Coming(t)'
      <4>1. CASE Tap(t)
        <5>1. /\ motions'[t] = <<"exit">> /\ t \notin timed' /\ hiding'[t] = 0
              /\ t \notin delayed' /\ t \notin panning'
          BY <1>0, <3>2, <4>1, OneMotion DEF Tap, Close, TypeOK
        <5> QED
          BY <5>1, OneMotion DEF Shown, AtRest, Coming, Way
      <4>2. CASE PanBegan(t)
        <5>1. /\ motions'[t] = <<>> /\ t \notin timed' /\ hiding'[t] = 0
              /\ t \notin delayed' /\ t \in panning'
          BY <1>0, <3>2, <4>2 DEF PanBegan
        <5> QED
          BY <5>1 DEF Shown, AtRest, Coming, Way
      <4> QED
        BY <1>2, <4>1, <4>2
    <3>4. /\ orphans'[t] = 0 /\ t \notin pressing' /\ t \in attached' /\ closings'[t] = 0
          /\ active' = active
      BY <1>0, <1>2, <3>2 DEF Tap, PanBegan
    <3> QED
      BY <3>2, <3>3, <3>4 DEF Calm
  <2> QED
    BY <1>0, <1>2, <2>1, <2>2, OwnStep DEF Tap, PanBegan, Touch
<1> QED
  BY <1>1, <1>2 DEF Finger

LEMMA FingerLeavesSettles ==
  ASSUME OInv, TypeOK', NEW t \in Toast, FingerLeaves(t)
  PROVE  OInv'
<1> USE DEF screenVars, timerVars, gestureVars, queueVars
<1>0. TypeOK /\ t \in panning \cup pressing
  BY DEF FingerLeaves, LongPressEnds, PanEnded, PanCancelled, OInv
<1>1. \A u \in Toast \ {t} : Same(u) /\ (u \in disturbed' <=> u \in disturbed)
  BY <1>0 DEF FingerLeaves, LongPressEnds, PanEnded, PanCancelled, ConfigureCloseTimer,
              Close, Same, TypeOK
<1>2. ASSUME t \notin disturbed PROVE Calm(t)'
  <2>1. Calm(t)
    BY <1>2 DEF OInv
  <2>2. ~LongPressEnds(t)
    BY <2>1 DEF LongPressEnds, Calm
  <2>3. /\ t \in panning /\ t \notin delayed /\ motions[t] = <<>> /\ hiding[t] = 0
        /\ t \notin timed /\ orphans[t] = 0 /\ t \notin pressing /\ t \in attached
        /\ Once(active, t) /\ closings[t] = 0
    BY <1>0, <2>1 DEF Calm, AtRest, Coming, Shown, Way
  <2>4. /\ t \notin delayed' /\ t \notin panning' /\ hiding'[t] = 0 /\ t \notin pressing'
        /\ orphans'[t] = 0 /\ t \in attached' /\ closings'[t] = 0 /\ active' = active
    BY <1>0, <2>2, <2>3 DEF FingerLeaves, PanEnded, PanCancelled, ConfigureCloseTimer, TypeOK
  <2>5. CASE PanEnded(t)
    <3>1. t \notin timed' /\ motions'[t] \in {<<"exit">>, <<"spring">>}
      BY <1>0, <2>3, <2>5, OneMotion DEF PanEnded, Close, TypeOK
    <3>2. Shown(t)' /\ ~Coming(t)' /\ ~AtRest(t)'
      BY <2>4, <3>1, OneMotion DEF Shown, Coming, AtRest, Way
    <3> QED
      BY <2>3, <2>4, <3>2 DEF Calm
  <2>6. CASE PanCancelled(t)
    <3>1. motions'[t] = <<>>
      BY <2>3, <2>6 DEF PanCancelled
    <3>2. (Shown(t)' \/ AtRest(t)') /\ ~Coming(t)'
      BY <2>4, <3>1, OneMotion DEF Shown, Coming, AtRest, Way
    <3> QED
      BY <2>3, <2>4, <3>2 DEF Calm
  <2> QED
    BY <2>2, <2>5, <2>6 DEF FingerLeaves
<1> QED
  BY <1>0, <1>1, <1>2, OwnStep DEF FingerLeaves, LongPressEnds, PanEnded, PanCancelled

LEMMA TimerSettles ==
  ASSUME OInv, TypeOK', NEW t \in Toast, TimerFires(t)
  PROVE  OInv'
<1> USE DEF screenVars, timerVars, gestureVars, queueVars
<1>0. TypeOK
  BY DEF OInv
<1>1. \A u \in Toast \ {t} : Same(u) /\ (u \in disturbed' <=> u \in disturbed)
  BY <1>0 DEF TimerFires, Close, Same, TypeOK
<1>2. ASSUME t \notin disturbed PROVE Calm(t)'
  <2>1. Calm(t)
    BY <1>2 DEF OInv
  <2>2. t \in timed /\ timed' = timed \ {t} /\ UNCHANGED orphans
    BY <2>1 DEF TimerFires, Calm
  <2>3. /\ t \notin panning /\ t \notin delayed /\ motions[t] = <<>> /\ hiding[t] = 0
        /\ orphans[t] = 0 /\ t \notin pressing /\ t \in attached
        /\ Once(active, t) /\ closings[t] = 0
    BY <2>1, <2>2 DEF Calm, AtRest, Coming, Shown, Way
  <2>4. motions'[t] = <<"exit">>
    BY <1>0, <2>3, OneMotion DEF TimerFires, Close, TypeOK
  <2>5. Shown(t)' /\ ~Coming(t)' /\ ~AtRest(t)'
    BY <2>2, <2>3, <2>4, OneMotion DEF TimerFires, Shown, Coming, AtRest, Way
  <2> QED
    BY <2>2, <2>3, <2>5 DEF TimerFires, Calm
<1> QED
  BY <1>0, <1>1, <1>2, OwnStep DEF TimerFires

LEMMA EnterSettles ==
  ASSUME OInv, TypeOK', NEW t \in Toast, Enter(t) \/ SprungBack(t)
  PROVE  OInv'
<1> USE DEF screenVars, timerVars, gestureVars, queueVars
<1>0. TypeOK
  BY DEF OInv
<1>1. \A u \in Toast \ {t} : Same(u) /\ (u \in disturbed' <=> u \in disturbed)
  BY <1>0 DEF Enter, SprungBack, ConfigureCloseTimer, Same, TypeOK
<1>2. ASSUME t \notin disturbed, Enter(t) PROVE Calm(t)'
  <2>1. Calm(t)
    BY <1>2 DEF OInv
  <2>2. /\ t \notin panning /\ t \notin timed /\ motions[t] = <<>> /\ hiding[t] = 0
        /\ orphans[t] = 0 /\ t \notin pressing /\ t \in attached
        /\ Once(active, t) /\ closings[t] = 0 /\ ~Contains(active, t)
    BY <1>2, <2>1 DEF Enter, Calm, AtRest, Coming, Shown, Way
  <2>3. motions'[t] = <<"enter">> /\ t \notin delayed'
    BY <1>0, <1>2, <2>2, OneMotion DEF Enter, TypeOK
  <2>4. Coming(t)' /\ ~AtRest(t)'
    BY <1>2, <2>2, <2>3, OneMotion DEF Enter, Coming, AtRest, Way
  <2> QED
    BY <1>2, <2>2, <2>4 DEF Enter, Calm
<1>3. ASSUME t \notin disturbed, SprungBack(t) PROVE Calm(t)'
  <2>1. Calm(t)
    BY <1>3 DEF OInv
  <2>2. motions[t] = <<"spring">>
    BY <1>3, <2>1, OneMotion DEF SprungBack, Calm, AtRest, Coming, Shown, Way
  <2>3. /\ t \notin panning /\ t \notin delayed /\ t \notin timed /\ hiding[t] = 0
        /\ orphans[t] = 0 /\ t \notin pressing /\ t \in attached
        /\ Once(active, t) /\ closings[t] = 0
    BY <2>1, <2>2, OneMotion DEF Calm, AtRest, Coming, Shown, Way
  <2>4. motions'[t] = <<>> /\ orphans'[t] = 0
    BY <1>0, <1>3, <2>2, <2>3, OneMotion DEF SprungBack, ConfigureCloseTimer, TypeOK
  <2>5. (Shown(t)' \/ AtRest(t)') /\ ~Coming(t)'
    BY <1>3, <2>3, <2>4, OneMotion DEF SprungBack, Shown, Coming, AtRest, Way
  <2> QED
    BY <1>3, <2>3, <2>4, <2>5 DEF SprungBack, Calm
<1> QED
  BY <1>0, <1>1, <1>2, <1>3, OwnStep DEF Enter, SprungBack

\* A toast that appears hides those that are up, once each; one that was not at rest or
\* waiting for its timer is disturbed by that.
LEMMA DidShowSettles ==
  ASSUME OInv, TypeOK', NEW t \in Toast, DidShow(t)
  PROVE  OInv'
<1> USE DEF screenVars, timerVars, gestureVars, queueVars
<1> DEFINE others == IF t \in Alone THEN ToSet(active) ELSE {}
<1>0. /\ TypeOK /\ active \in Seq(Toast)
      /\ \A u \in others : Contains(active, u)
  <2>1. TypeOK /\ active \in Seq(Toast)
    BY DEF OInv, TypeOK
  <2>2. DOMAIN active = 1..Len(active)
    BY <2>1
  <2>3. \A u \in ToSet(active) : Contains(active, u)
    BY <2>2 DEF ToSet, Contains
  <2> QED
    BY <2>1, <2>3
<1>1. UNCHANGED served /\ delayed' \subseteq delayed
  BY DEF DidShow
<1>2. /\ timed' = (timed \cup ({t} \cap Timed)) \ others
      /\ orphans' = [orphans EXCEPT ![t] = IF t \in Timed \cap timed THEN @ + 1 ELSE @]
      /\ hiding' = [u \in Toast |-> IF u \in others THEN hiding[u] + 1 ELSE hiding[u]]
      /\ disturbed' = disturbed \cup {u \in others : Busy(u)}
      /\ active' = Append(active, t)
      /\ UNCHANGED <<fresh, attached, panning, pressing, touches, queue, closings>>
  BY DEF DidShow, CloseOverlapped
<1>3. \A u \in Toast \ {t} : /\ motions'[u] = motions[u]
                             /\ u \in delayed' <=> u \in delayed
  BY <1>0 DEF DidShow, TypeOK
<1> HIDE DEF others
<1>4. ASSUME NEW u \in Toast, u # t, u \notin disturbed' PROVE Calm(u)'
  <2>1. Calm(u)
    BY <1>2, <1>4 DEF OInv
  <2>2. /\ Contains(active', u) <=> Contains(active, u)
        /\ Once(active, u) => Once(active', u)
    BY <1>0, <1>2, <1>4, AppendOnce
  <2>3. CASE u \notin others
    <3>1. Same(u)
      BY <1>0, <1>2, <1>3, <1>4, <2>2, <2>3 DEF Same, TypeOK
    <3> QED
      BY <2>1, <3>1, SameCalm
  <2>4. CASE u \in others
    <3>1. ~Busy(u) /\ Contains(active, u) /\ u \in attached
      BY <1>0, <1>2, <1>4, <2>1, <2>4 DEF Calm
    <3>2. /\ u \notin delayed /\ u \notin panning /\ motions[u] = <<>> /\ hiding[u] = 0
      <4>1. hiding[u] \in Nat
        BY <1>0 DEF TypeOK
      <4>2. u \notin delayed /\ u \notin panning /\ motions[u] = <<>> /\ ~(hiding[u] > 0)
        BY <3>1 DEF Busy
      <4> QED
        BY <4>1, <4>2
    <3>3. /\ u \notin delayed' /\ u \notin panning' /\ motions'[u] = <<>> /\ hiding'[u] = 1
          /\ u \notin timed' /\ u \in attached'
      BY <1>2, <1>3, <1>4, <2>4, <3>1, <3>2
    <3>4. Shown(u)' /\ ~Coming(u)'
      BY <3>3, OneMotion DEF Shown, Coming, Way
    <3>5. orphans'[u] = orphans[u] /\ closings'[u] = closings[u]
      BY <1>0, <1>2, <1>4 DEF TypeOK
    <3> QED
      BY <1>2, <2>1, <2>2, <3>3, <3>4, <3>5 DEF Calm
  <2> QED
    BY <2>3, <2>4
<1>5. ASSUME t \notin disturbed' PROVE Calm(t)'
  <2>1. Calm(t)
    BY <1>2, <1>5 DEF OInv
  <2>2. motions[t] = <<"enter">> /\ motions' = [motions EXCEPT ![t] = Tail(@)] /\ delayed' = delayed
    <3>1. ~(t \in delayed \ attached)
      BY <2>1 DEF Calm, AtRest, Way
    <3>2. motions[t] # <<>> /\ Head(motions[t]) = "enter"
      BY <3>1 DEF DidShow
    <3> QED
      BY <2>1, <3>1, <3>2, OneMotion DEF DidShow, Calm, AtRest, Coming, Shown, Way
  <2>3. /\ t \notin panning /\ t \notin delayed /\ t \notin timed /\ hiding[t] = 0
        /\ orphans[t] = 0 /\ t \notin pressing /\ t \in attached
        /\ Once(active, t) /\ closings[t] = 0 /\ ~Contains(active, t)
    BY <2>1, <2>2, OneMotion DEF Calm, AtRest, Coming, Shown, Way
  <2>4. t \notin others
    BY <1>0, <2>3
  <2>5. motions'[t] = <<>> /\ orphans'[t] = 0 /\ hiding'[t] = 0 /\ t \notin delayed'
    BY <1>0, <1>2, <2>2, <2>3, <2>4, OneMotion DEF TypeOK
  <2>6. (Shown(t)' \/ AtRest(t)') /\ ~Coming(t)'
    BY <1>2, <2>3, <2>5, OneMotion DEF Shown, Coming, AtRest, Way
  <2>7. Once(active', t)
    BY <1>0, <1>2, <2>3, AppendOnce
  <2> QED
    BY <1>2, <2>3, <2>5, <2>6, <2>7 DEF Calm
<1>6. Waiting'
  BY <1>1, <1>2 DEF OInv, Waiting, Waits
<1> QED
  BY <1>4, <1>5, <1>6 DEF OInv

\* The toast that goes is closed once; the one put up in its place had been waiting.
LEMMA DidCloseSettles ==
  ASSUME OInv, TypeOK', NEW t \in Toast, DidClose(t)
  PROVE  OInv'
<1> USE DEF screenVars, timerVars, gestureVars, queueVars
<1>0. TypeOK /\ active \in Seq(Toast) /\ queue \in Seq(Toast)
  BY DEF OInv, TypeOK
<1>1. t \in served => ~Waits(t)
  BY DEF OInv, Waiting
<1>2. /\ active' = RemoveFirst(active, t)
      /\ closings' = [closings EXCEPT ![t] = @ + 1]
      /\ UNCHANGED <<fresh, timed, orphans, panning, pressing, disturbed>>
  BY DEF DidClose
<1>3. \A u \in Toast \ {t} : motions'[u] = motions[u] /\ hiding'[u] = hiding[u]
                             /\ closings'[u] = closings[u]
  BY <1>0, <1>2 DEF DidClose, TypeOK
<1> DEFINE next == IF t \in served /\ queue # <<>> THEN {Head(queue)} ELSE {}
<1>4. /\ attached' = (attached \ {t}) \cup next
      /\ delayed' = delayed \cup next
      /\ served' = served \cup next
      /\ queue' = IF next = {} THEN queue ELSE Tail(queue)
  BY DEF DidClose, DidCloseToast
<1>5. ASSUME NEW u \in next
      PROVE  /\ u \in Toast /\ Waits(u) /\ u # t /\ queue # <<>> /\ u = Head(queue)
  BY <1>0, <1>1, <1>5, TailOnce DEF Waits, OInv, Waiting
<1>6. next # {} => queue # <<>> /\ next = {Head(queue)}
  OBVIOUS
<1> HIDE DEF next
<1>7. ASSUME NEW u \in Toast, u # t, u \notin next, u \notin disturbed PROVE Calm(u)'
  <2>1. Calm(u)
    BY <1>7 DEF OInv
  <2>2. /\ Contains(active', u) => Contains(active, u)
        /\ Once(active, u) => Once(active', u)
    BY <1>0, <1>2, <2>1, RemoveOnce DEF Calm
  <2>3. Same(u)
    BY <1>2, <1>3, <1>4, <1>7, <2>2 DEF Same
  <2> QED
    BY <2>1, <2>3, SameCalm
<1>8. ASSUME NEW u \in next, u \notin disturbed PROVE Calm(u)'
  <2>1. u \in Toast /\ Waits(u) /\ u # t
    BY <1>8, <1>5
  <2>2. AtRest(u) /\ Calm(u) /\ closings[u] = 0 /\ ~Contains(active, u)
    BY <1>8, <2>1, WaitsAtRest
  <2>3. ~Contains(active', u) /\ Once(active', u)
    BY <1>0, <1>2, <2>1, <2>2, RemoveOnce DEF Calm
  <2>4. Coming(u)' /\ ~AtRest(u)' /\ u \in attached'
    BY <1>2, <1>3, <1>4, <1>8, <2>1, <2>2, OneMotion DEF Coming, AtRest, Way
  <2>5. closings'[u] = 0 /\ orphans'[u] = 0 /\ u \notin pressing'
    BY <1>2, <1>3, <2>1, <2>2 DEF Calm
  <2> QED
    BY <2>3, <2>4, <2>5 DEF Calm
<1>9. ASSUME t \notin disturbed PROVE Calm(t)'
  <2>1. Calm(t)
    BY <1>9 DEF OInv
  <2>2. /\ t \notin panning /\ t \notin delayed /\ t \notin timed
        /\ \/ motions[t] = <<"exit">> /\ hiding[t] = 0
           \/ motions[t] = <<>> /\ hiding[t] = 1
        /\ orphans[t] = 0 /\ t \notin pressing /\ closings[t] = 0 /\ Once(active, t)
    BY <2>1, OneMotion DEF DidClose, Calm, AtRest, Coming, Shown, Way
  <2>3. motions'[t] = <<>> /\ hiding'[t] = 0 /\ closings'[t] = 1
    <3>1. CASE motions[t] = <<"exit">> /\ hiding[t] = 0
      <4>1. motions' = [motions EXCEPT ![t] = Tail(@)] /\ hiding' = hiding
        BY <3>1 DEF DidClose
      <4> QED
        BY <1>0, <1>2, <2>2, <3>1, <4>1, OneMotion DEF TypeOK
    <3>2. CASE motions[t] = <<>> /\ hiding[t] = 1
      <4>1. hiding' = [hiding EXCEPT ![t] = @ - 1] /\ motions' = motions
        BY <3>2 DEF DidClose
      <4> QED
        BY <1>0, <1>2, <2>2, <3>2, <4>1 DEF TypeOK
    <3> QED
      BY <2>2, <3>1, <3>2
  <2>4. t \notin next
    BY <1>5
  <2>5. AtRest(t)' /\ ~Coming(t)' /\ t \notin attached'
    BY <1>2, <1>4, <2>2, <2>3, <2>4, OneMotion DEF AtRest, Coming, Way
  <2>6. ~Contains(active', t) /\ Once(active', t)
    BY <1>0, <1>2, <2>2, RemoveOnce
  <2> QED
    BY <1>2, <2>2, <2>3, <2>5, <2>6 DEF Calm
<1>10. ASSUME NEW u \in Toast
       PROVE  /\ Once(queue', u)
              /\ Waits(u)' => Waits(u) /\ u \notin next
              /\ ~(u \in fresh' /\ Contains(queue', u))
  <2>1. CASE next = {}
    BY <1>2, <1>4, <2>1 DEF OInv, Waiting, Waits
  <2>2. CASE next # {}
    <3>1. queue # <<>> /\ queue' = Tail(queue) /\ next = {Head(queue)}
      BY <1>4, <1>6, <2>2
    <3>2. Once(queue, u) /\ ~(u \in fresh /\ Contains(queue, u))
      BY DEF OInv, Waiting
    <3>3. /\ Contains(queue', u) => Contains(queue, u) /\ u # Head(queue)
          /\ Once(queue', u) /\ Contains(queue, Head(queue))
      BY <1>0, <3>1, <3>2, TailOnce
    <3> QED
      BY <1>2, <3>1, <3>2, <3>3 DEF Waits
  <2> QED
    BY <2>1, <2>2
<1>11. ASSUME NEW u \in Toast, Waits(u)'
       PROVE  /\ u \notin attached' \cup delayed' \cup served'
              /\ u \in disturbed' \/ closings'[u] = 0
  <2>1. Waits(u) /\ u \notin next
    BY <1>10, <1>11
  <2>2. u = t => t \in disturbed
    BY <2>1, WaitsAtRest, OneMotion DEF AtRest, Way, DidClose
  <2> QED
    BY <1>2, <1>3, <1>4, <2>1, <2>2 DEF OInv, Waiting
<1>12. Waiting'
  BY <1>10, <1>11 DEF Waiting
<1> QED
  BY <1>2, <1>7, <1>8, <1>9, <1>12 DEF OInv

\* Nothing new waits.
FewerWait ==
  \A u \in Toast : /\ Once(queue', u) /\ ~(u \in fresh' /\ Contains(queue', u))
                   /\ Waits(u)' => Waits(u)

\* A step of a caller that puts nothing on the screen.
LEMMA StaysDown ==
  ASSUME OInv, TypeOK', FewerWait,
         UNCHANGED <<screenVars, timerVars, gestureVars, active, served, closings>>
  PROVE  OInv'
<1> USE DEF screenVars, timerVars, gestureVars
<1>1. ASSUME NEW u \in Toast PROVE u \in disturbed' \/ Calm(u)'
  <2>1. Same(u)
    BY DEF Same
  <2> QED
    BY <2>1, SameCalm DEF OInv
<1>2. Waiting'
  BY DEF OInv, Waiting, FewerWait
<1> QED
  BY <1>1, <1>2 DEF OInv

\* A step of a caller that shows a toast.
LEMMA GoesUp ==
  ASSUME OInv, TypeOK', FewerWait, NEW v \in Toast, Waits(v), ~Waits(v)',
         served' \subseteq served \cup {v}, attached' = attached \cup {v},
         \/ motions' = [motions EXCEPT ![v] = Append(@, "enter")] /\ UNCHANGED delayed
         \/ delayed' = delayed \cup {v} /\ UNCHANGED motions,
         UNCHANGED <<hiding, timerVars, gestureVars, active, closings>>
  PROVE  OInv'
<1> USE DEF timerVars, gestureVars
<1>0. TypeOK /\ UNCHANGED <<hiding, timed, orphans, panning, pressing, disturbed,
                          active, closings>>
  BY DEF OInv
<1>1. ASSUME NEW u \in Toast, u # v, u \notin disturbed PROVE Calm(u)'
  <2>1. Same(u)
    BY <1>0, <1>1 DEF Same, TypeOK
  <2> QED
    BY <1>1, <2>1, SameCalm DEF OInv
<1>2. ASSUME v \notin disturbed PROVE Calm(v)'
  <2>1. AtRest(v) /\ Calm(v) /\ closings[v] = 0 /\ ~Contains(active, v)
    BY <1>2, WaitsAtRest
  <2>2. \/ motions'[v] = <<"enter">> /\ v \notin delayed'
        \/ motions'[v] = <<>> /\ v \in delayed'
    BY <1>0, <2>1, OneMotion DEF AtRest, Way, TypeOK
  <2>3. Coming(v)' /\ ~AtRest(v)'
    BY <1>0, <2>1, <2>2, OneMotion DEF Coming, AtRest, Way
  <2> QED
    BY <1>0, <2>1, <2>3 DEF Calm
<1>3. delayed' \subseteq delayed \cup {v}
  OBVIOUS
<1>4. Waiting'
  BY <1>0, <1>3 DEF OInv, Waiting, FewerWait
<1> QED
  BY <1>0, <1>1, <1>2, <1>4 DEF OInv

LEMMA ShowSettles ==
  ASSUME OInv, TypeOK', NEW t \in Toast, Show(t)
  PROVE  OInv'
<1>1. fresh' = fresh \ {t} /\ queue' = queue /\ t \in fresh
  BY DEF Show, queueVars
<1>2. FewerWait /\ Waits(t) /\ ~Waits(t)'
  BY <1>1 DEF FewerWait, Waits, OInv, Waiting
<1> QED
  BY <1>2, GoesUp DEF Show, queueVars

LEMMA EnqueueSettles ==
  ASSUME OInv, TypeOK', NEW t \in Toast, Enqueue(t)
  PROVE  OInv'
<1>1. /\ fresh' = fresh \ {t} /\ queue' = Append(queue, t) /\ t \in fresh
      /\ queue \in Seq(Toast)
  BY DEF Enqueue, OInv, TypeOK
<1>2. ASSUME NEW u \in Toast
      PROVE  /\ Contains(queue', u) <=> Contains(queue, u) \/ u = t
             /\ Once(queue, u) /\ (u # t \/ ~Contains(queue, u)) => Once(queue', u)
  BY <1>1, AppendOnce
<1>3. FewerWait
  BY <1>1, <1>2 DEF FewerWait, Waits, OInv, Waiting
<1> QED
  BY <1>3, StaysDown DEF Enqueue

LEMMA DequeueSettles ==
  ASSUME OInv, TypeOK', NEW t \in Toast, Dequeue(t)
  PROVE  OInv'
<1>1. fresh' = fresh /\ queue' = RemoveFirst(queue, t) /\ queue \in Seq(Toast)
  BY DEF Dequeue, OInv, TypeOK
<1>2. ASSUME NEW u \in Toast
      PROVE  Once(queue', u) /\ (Contains(queue', u) => Contains(queue, u))
  BY <1>1, RemoveOnce DEF OInv, Waiting
<1>3. FewerWait
  BY <1>1, <1>2 DEF FewerWait, Waits, OInv, Waiting
<1> QED
  BY <1>3, StaysDown DEF Dequeue

LEMMA ShowQueueSettles ==
  ASSUME OInv, TypeOK', ShowQueue
  PROVE  OInv'
<1> USE DEF screenVars
<1>1. fresh' = fresh /\ queue \in Seq(Toast)
  BY DEF ShowQueue, OInv, TypeOK
<1>2. CASE queue = <<>>
  <2>1. UNCHANGED <<queue, served, attached, motions>>
    BY <1>2 DEF ShowQueue, ShowFirst
  <2>2. FewerWait
    BY <1>1, <2>1 DEF FewerWait, Waits, OInv, Waiting
  <2> QED
    BY <2>1, <2>2, StaysDown DEF ShowQueue
<1>3. CASE queue # <<>>
  <2>0. PICK v \in Toast : v = Head(queue) /\ Contains(queue, v)
    BY <1>1, <1>3, TailOnce DEF OInv, Waiting
  <2>1. /\ queue' = Tail(queue) /\ attached' = attached \cup {v} /\ served' = served \cup {v}
        /\ motions' = [motions EXCEPT ![v] = Append(@, "enter")]
    BY <1>3, <2>0 DEF ShowQueue, ShowFirst
  <2>2. ASSUME NEW u \in Toast
        PROVE  Once(queue', u) /\ (Contains(queue', u) => Contains(queue, u) /\ u # v)
    BY <1>1, <1>3, <2>0, <2>1, TailOnce DEF OInv, Waiting
  <2>3. FewerWait /\ Waits(v) /\ ~Waits(v)'
    BY <1>1, <2>0, <2>2 DEF FewerWait, Waits, OInv, Waiting
  <2> QED
    BY <2>1, <2>3, GoesUp DEF ShowQueue
<1> QED
  BY <1>2, <1>3

LEMMA EnqueueAllSettles ==
  ASSUME OInv, TypeOK', NEW s \in Toast, NEW t \in Toast, EnqueueAll(s, t)
  PROVE  OInv'
<1> USE DEF screenVars
<1> DEFINE two == Append(queue, s)
<1>1. /\ s # t /\ s \in fresh /\ t \in fresh /\ fresh' = fresh \ {s, t}
      /\ queue \in Seq(Toast) /\ ~Contains(queue, s) /\ ~Contains(queue, t)
  BY DEF EnqueueAll, OInv, TypeOK, Waiting
<1>2. CASE queue = <<>> /\ isShowing /\ ShowFirst(<<s, t>>)
  <2>1. Head(<<s, t>>) = s /\ Tail(<<s, t>>) = <<t>> /\ <<s, t>> # <<>>
    OBVIOUS
  <2>2. /\ queue' = <<t>> /\ attached' = attached \cup {s} /\ served' = served \cup {s}
        /\ motions' = [motions EXCEPT ![s] = Append(@, "enter")]
    BY <1>2, <2>1 DEF ShowFirst
  <2>3. \A u \in Toast : Once(queue', u) /\ (Contains(queue', u) => u = t)
    BY <2>2 DEF Once, Contains
  <2>4. FewerWait /\ Waits(s) /\ ~Waits(s)'
    BY <1>1, <2>3 DEF FewerWait, Waits
  <2> QED
    BY <2>2, <2>4, GoesUp DEF EnqueueAll
<1>3. CASE queue' = queue \o <<s, t>> /\ UNCHANGED <<isShowing, served, attached, motions>>
  <2>1. queue' = Append(two, t)
    BY <1>1, <1>3
  <2>2. ASSUME NEW u \in Toast
        PROVE  /\ Contains(queue', u) <=> Contains(queue, u) \/ u \in {s, t}
               /\ Once(queue', u)
    <3>1. /\ two \in Seq(Toast)
          /\ Contains(two, u) <=> Contains(queue, u) \/ u = s
          /\ Once(queue, u) /\ (u # s \/ ~Contains(queue, u)) => Once(two, u)
      BY <1>1, AppendOnce
    <3> HIDE DEF two
    <3>2. /\ Contains(queue', u) <=> Contains(two, u) \/ u = t
          /\ Once(two, u) /\ (u # t \/ ~Contains(two, u)) => Once(queue', u)
      BY <2>1, <3>1, AppendOnce
    <3> QED
      BY <1>1, <3>1, <3>2 DEF OInv, Waiting
  <2>3. FewerWait
    BY <1>1, <2>2 DEF FewerWait, Waits, OInv, Waiting
  <2> QED
    BY <1>3, <2>3, StaysDown DEF EnqueueAll
<1> QED
  BY <1>2, <1>3 DEF EnqueueAll

\* A caller that closes a toast leaves it undisturbed only when it is up, at rest and
\* without a timer.
LEMMA CallCloseSettles ==
  ASSUME OInv, TypeOK', NEW t \in Toast, CallClose(t)
  PROVE  OInv'
<1> USE DEF timerVars, queueVars
<1>0. TypeOK
  BY DEF OInv
<1>1. \A u \in Toast \ {t} : Same(u) /\ (u \in disturbed' <=> u \in disturbed)
  BY <1>0 DEF CallClose, Close, Same, TypeOK
<1>2. ASSUME t \notin disturbed' PROVE Calm(t)'
  <2>1. ~Busy(t) /\ t \notin timed /\ t \in attached /\ Calm(t)
    BY <1>2 DEF CallClose, OInv
  <2>2. /\ t \notin delayed /\ t \notin panning /\ motions[t] = <<>> /\ hiding[t] = 0
        /\ orphans[t] = 0 /\ t \notin pressing /\ Once(active, t) /\ closings[t] = 0
    BY <1>0, <2>1 DEF Busy, Calm, TypeOK
  <2>3. \/ motions'[t] = <<"exit">> /\ hiding'[t] = 0
        \/ motions'[t] = <<>> /\ hiding'[t] = 1
    BY <1>0, <2>2, OneMotion DEF CallClose, Close, TypeOK
  <2>4. Shown(t)' /\ ~AtRest(t)' /\ ~Coming(t)'
    BY <2>1, <2>2, <2>3, OneMotion DEF CallClose, Shown, AtRest, Coming, Way
  <2> QED
    BY <2>1, <2>2, <2>4 DEF CallClose, Calm
<1> QED
  BY <1>1, <1>2, OwnStep DEF CallClose

LEMMA NextOInv == OInv /\ [Next]_vars => OInv'
<1> SUFFICES ASSUME OInv, [Next]_vars PROVE OInv'
  OBVIOUS
<1>1. TypeOK'
  BY NextType DEF OInv
<1>2. CASE UNCHANGED vars
  <2>1. UNCHANGED <<fresh, queue, served, screenVars, timerVars, gestureVars, active, closings>>
    BY <1>2 DEF vars, queueVars
  <2>2. FewerWait
    BY <2>1 DEF FewerWait, Waits, OInv, Waiting
  <2> QED
    BY <1>1, <2>1, <2>2, StaysDown
<1>3. CASE Caller
  BY <1>1, <1>3, ShowQueueSettles, ShowSettles, EnqueueSettles, DequeueSettles,
     EnqueueAllSettles, CallCloseSettles DEF Caller
<1>4. ASSUME NEW t \in Toast, Finger(t) \/ FingerLeaves(t) \/ Animation(t) \/ TimerFires(t)
      PROVE  OInv'
  BY <1>1, <1>4, FingerSettles, FingerLeavesSettles, TimerSettles, EnterSettles, DidShowSettles,
     DidCloseSettles DEF Animation
<1> QED
  BY <1>2, <1>3, <1>4 DEF Next

\* However callers show, queue and close toasts, each shown or enqueued once, a toast is
\* closed, and its delegates told, at most once; unless it was touched, hidden or closed
\* by a caller while something of it was under way, or closed by a caller while its timer
\* ran, which close() does not stop, or it was not up (Toast.swift:160-219, 243-316).
THEOREM ClosedOnce == Spec => []ClosedOnceUnlessDisturbed
<1>1. OInv => ClosedOnceUnlessDisturbed
  BY DEF OInv, TypeOK, Calm, ClosedOnceUnlessDisturbed
<1> QED
  BY <1>1, InitOInv, NextOInv, PTL DEF Spec

-----------------------------------------------------------------------------
(* When the queue shows two toasts *)

\* What NextOnlyAfterClose says of a step.
Beside ==
  LET up == served \cap attached
      new == (served \cap attached)' \ up
  IN new # {} /\ up \subseteq attached' =>
       new \cap delayed' = {} \/ \E t \in served \ attached : closings'[t] > closings[t]

\* A toast a caller puts up is shown without delay.
LEMMA CallerShowsAtOnce ==
  ASSUME OInv, NEW v \in Toast, Waits(v),
         served' \subseteq served \cup {v}, attached' \subseteq attached \cup {v},
         UNCHANGED delayed
  PROVE  Beside
<1>1. v \notin delayed
  BY DEF OInv, Waiting
<1> QED
  BY <1>1 DEF Beside

LEMMA CloseShowsNext ==
  ASSUME OInv, NEW t \in Toast, DidClose(t)
  PROVE  Beside
<1> USE DEF queueVars
<1>0. /\ closings' = [closings EXCEPT ![t] = @ + 1] /\ closings \in [Toast -> Nat]
      /\ queue \in Seq(Toast) /\ motions \in [Toast -> Seq({"enter", "exit", "spring"})]
  BY DEF DidClose, OInv, TypeOK
<1>1. t \in served => ~Waits(t)
  BY DEF OInv, Waiting
<1>2. CASE t \notin served
  BY <1>2 DEF DidClose, DidCloseToast, Beside
<1>3. CASE t \in served /\ t \in attached
  <2>1. queue # <<>> => Head(queue) # t
    BY <1>0, <1>1, <1>3, TailOnce DEF OInv, Waiting, Waits
  <2>2. t \notin attached'
    BY <1>3, <2>1 DEF DidClose, DidCloseToast
  <2> QED
    BY <1>3, <2>2 DEF Beside
<1>4. CASE t \in served /\ t \notin attached
  <2>1. closings'[t] > closings[t]
    BY <1>0
  <2> QED
    BY <1>4, <2>1 DEF Beside
<1> QED
  BY <1>2, <1>3, <1>4

LEMMA NextBeside ==
  ASSUME OInv, Next
  PROVE  Beside
<1> USE DEF screenVars, queueVars
<1>0. queue \in Seq(Toast)
  BY DEF OInv, TypeOK
<1>1. CASE UNCHANGED <<served, attached>>
  BY <1>1 DEF Beside
<1>2. CASE ShowQueue /\ queue # <<>>
  <2>1. Head(queue) \in Toast /\ Contains(queue, Head(queue))
    BY <1>0, <1>2, TailOnce DEF OInv, Waiting
  <2> QED
    BY <1>2, <2>1, CallerShowsAtOnce DEF ShowQueue, ShowFirst, Waits
<1>3. ASSUME NEW t \in Toast, Show(t) PROVE Beside
  <2>1. t \notin served /\ UNCHANGED served /\ attached' = attached \cup {t}
    BY <1>3 DEF Show, OInv, Waiting, Waits
  <2> QED
    BY <2>1 DEF Beside
<1>4. ASSUME NEW s \in Toast, NEW u \in Toast, EnqueueAll(s, u), ShowFirst(<<s, u>>)
      PROVE  Beside
  <2>1. Head(<<s, u>>) = s /\ <<s, u>> # <<>>
    OBVIOUS
  <2>2. served' = served \cup {s} /\ attached' = attached \cup {s}
    BY <1>4, <2>1 DEF ShowFirst
  <2> QED
    BY <1>4, <2>2, CallerShowsAtOnce DEF EnqueueAll, Waits
<1>5. CASE Caller
  BY <1>1, <1>2, <1>3, <1>4, <1>5 DEF Caller, ShowQueue, ShowFirst, Enqueue, Dequeue,
     CallClose, EnqueueAll
<1>6. ASSUME NEW t \in Toast, Finger(t) \/ FingerLeaves(t) \/ TimerFires(t) PROVE Beside
  BY <1>1, <1>6 DEF Finger, Tap, LongPress, LongPressMoves, PanBegan, FingerLeaves,
     LongPressEnds, PanEnded, PanCancelled, TimerFires
<1>7. ASSUME NEW t \in Toast, Animation(t) PROVE Beside
  BY <1>1, <1>7, CloseShowsNext DEF Animation, Enter, DidShow, SprungBack
<1> QED
  BY <1>5, <1>6, <1>7 DEF Next

\* The queue puts a toast beside another one of its own only on the caller's demand, or
\* because a toast was closed once more after it had gone (ToastQueue.swift:48-76).
THEOREM NextAfterClose == Spec => NextOnlyAfterClose
<1>1. OInv /\ [Next]_vars => [Beside]_vars
  BY NextBeside
<1>2. [][Beside]_vars => NextOnlyAfterClose
  <2>1. [Beside]_vars =>
          [LET up == served \cap attached
               new == (served \cap attached)' \ up
           IN new # {} /\ up \subseteq attached' =>
                new \cap delayed' = {}
                \/ \E t \in served \ attached : closings'[t] > closings[t]]_vars
    BY DEF Beside
  <2> QED
    BY <2>1, PTL DEF NextOnlyAfterClose
<1> QED
  BY <1>1, <1>2, InitOInv, NextOInv, PTL DEF Spec
=============================================================================
