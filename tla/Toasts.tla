------------------------------- MODULE Toasts -------------------------------
(***************************************************************************)
(* Toasts and the queue of toasts (Helpers/ToastMessage): what is on the   *)
(* screen, which animations and close timers are under way, and what the   *)
(* list of active toasts and the queue know of it.                         *)
(*                                                                         *)
(* All animations take the same time, so those of a toast complete in the  *)
(* order they start; taking its view off the screen cancels them, which    *)
(* completes them too.  A timer fires at any time after it was set.  The   *)
(* app shows toasts with the default configuration, which has a timer and  *)
(* can be swiped; the queue, close() and the other ways to dismiss are     *)
(* modelled as the library offers them, to callers that show or enqueue a  *)
(* toast once and have one queue.                                          *)
(***************************************************************************)
EXTENDS Integers, FiniteSets, Sequences, SequencesExt

CONSTANTS Toast,      \* toasts, each shown or enqueued once
          Timed,      \* those with the dismissable .time
          Swiped,     \* ... .swipe
          Tapped,     \* ... .tap
          Pressed,    \* ... .longPress
          Alone,      \* those with allowToastOverlap = false
          MaxTouches  \* bound: gestures and calls of close()

ASSUME ToastsAssumption ==
  /\ Timed \cup Swiped \cup Tapped \cup Pressed \cup Alone \subseteq Toast
  /\ MaxTouches \in Nat

VARIABLES
  fresh,      \* toasts not used yet
  attached,   \* toasts whose view is on the screen
  delayed,    \* toasts whose entering animation waits for its delay
  motions,    \* motions[t]: the animations of t under way
  hiding,     \* hiding[t]: closings of t without an animation under way
  timed,      \* toasts whose closeTimer is going to fire
  orphans,    \* orphans[t]: timers of t that closeTimer does not name any more
  panning,    \* toasts under a finger that drags
  pressing,   \* toasts under a finger that presses
  active,     \* Toast.activeToasts
  queue,      \* ToastQueue.queue
  isShowing,  \* ToastQueue.isShowing
  served,     \* toasts with a QueuedToastDelegate
  touches,    \* gestures and calls of close() so far
  closings,   \* closings[t]: how often didCloseToast was called (not in the program)
  disturbed   \* toasts touched, hidden or closed by a caller while something was under way, or
              \* by a caller while their timer runs or their view is not up (not in the program)

screenVars  == <<attached, delayed, motions, hiding>>
timerVars   == <<timed, orphans>>
gestureVars == <<panning, pressing, touches, disturbed>>
queueVars   == <<queue, isShowing, served>>
vars == <<fresh, screenVars, timerVars, gestureVars, active, queueVars, closings>>

TypeOK ==
  /\ fresh \subseteq Toast
  /\ attached \subseteq Toast
  /\ delayed \subseteq Toast
  /\ motions \in [Toast -> Seq({"enter", "exit", "spring"})]
  /\ hiding \in [Toast -> Nat]
  /\ timed \subseteq Timed
  /\ orphans \in [Toast -> Nat]
  /\ panning \subseteq Swiped
  /\ pressing \subseteq Pressed
  /\ active \in Seq(Toast)
  /\ queue \in Seq(Toast)
  /\ isShowing \in BOOLEAN
  /\ served \subseteq Toast
  /\ touches \in Nat
  /\ closings \in [Toast -> Nat]
  /\ disturbed \subseteq Toast

Init ==
  /\ fresh = Toast
  /\ attached = {} /\ delayed = {}
  /\ motions = [t \in Toast |-> <<>>]
  /\ hiding = [t \in Toast |-> 0]
  /\ timed = {}
  /\ orphans = [t \in Toast |-> 0]
  /\ panning = {} /\ pressing = {}
  /\ active = <<>>
  /\ queue = <<>>
  /\ isShowing = FALSE
  /\ served = {}
  /\ touches = 0
  /\ closings = [t \in Toast |-> 0]
  /\ disturbed = {}

-----------------------------------------------------------------------------
(* Steps the handlers share *)

\* close(): every call starts an animation with a completion of its own.
Close(t) == motions' = [motions EXCEPT ![t] = Append(@, "exit")]

\* A timer that is still going to fire is forgotten, not invalidated.
ConfigureCloseTimer(t) ==
  /\ timed' = timed \cup ({t} \cap Timed)
  /\ orphans' = [orphans EXCEPT ![t] = IF t \in Timed \cap timed THEN @ + 1 ELSE @]

\* Something of t is under way.
Busy(t) ==
  \/ t \in delayed \cup panning \cup pressing
  \/ motions[t] # <<>>
  \/ hiding[t] > 0

\* A gesture on t begins.
Touch(t) ==
  /\ t \in attached
  /\ touches < MaxTouches
  /\ touches' = touches + 1
  /\ disturbed' = IF Busy(t) THEN disturbed \cup {t} ELSE disturbed

-----------------------------------------------------------------------------
(* The callers *)

\* A caller may ask for a delay.
Show(t) ==
  /\ t \in fresh
  /\ fresh' = fresh \ {t}
  /\ attached' = attached \cup {t}
  /\ \/ motions' = [motions EXCEPT ![t] = Append(@, "enter")] /\ UNCHANGED delayed
     \/ delayed' = delayed \cup {t} /\ UNCHANGED motions
  /\ UNCHANGED <<hiding, timerVars, gestureVars, active, queueVars, closings>>

\* ToastQueue.show() and enqueue of a list: the first toast of q, if any, without delay.
ShowFirst(q) ==
  /\ isShowing' = TRUE
  /\ queue' = IF q = <<>> THEN q ELSE Tail(q)
  /\ served' = IF q = <<>> THEN served ELSE served \cup {Head(q)}
  /\ attached' = IF q = <<>> THEN attached ELSE attached \cup {Head(q)}
  /\ motions' = IF q = <<>> THEN motions
                ELSE [motions EXCEPT ![Head(q)] = Append(@, "enter")]

ShowQueue ==
  /\ ShowFirst(queue)
  /\ UNCHANGED <<fresh, delayed, hiding, timerVars, gestureVars, active, closings>>

Enqueue(t) ==
  /\ t \in fresh
  /\ fresh' = fresh \ {t}
  /\ queue' = Append(queue, t)
  /\ UNCHANGED <<screenVars, timerVars, gestureVars, active, isShowing, served, closings>>

\* Mutant: a list is only appended.
EnqueueAllSilently(s, u) ==
  /\ s # u /\ {s, u} \subseteq fresh
  /\ fresh' = fresh \ {s, u}
  /\ queue' = queue \o <<s, u>>
  /\ UNCHANGED <<screenVars, timerVars, gestureVars, active, isShowing, served, closings>>

\* A list of toasts, here two, is shown at once if the queue was empty and has ever
\* been shown: isShowing is never reset.
EnqueueAll(s, u) ==
  /\ s # u /\ {s, u} \subseteq fresh
  /\ fresh' = fresh \ {s, u}
  /\ \/ /\ queue = <<>> /\ isShowing
        /\ ShowFirst(<<s, u>>)
     \/ /\ ~(queue = <<>> /\ isShowing)
        /\ queue' = queue \o <<s, u>>
        /\ UNCHANGED <<isShowing, served, attached, motions>>
  /\ UNCHANGED <<delayed, hiding, timerVars, gestureVars, active, closings>>

Dequeue(t) ==
  /\ Contains(queue, t)
  /\ queue' = RemoveFirst(queue, t)
  /\ UNCHANGED <<fresh, screenVars, timerVars, gestureVars, active, isShowing, served, closings>>

\* A call of close(), which may come at any time: unlike the gestures it leaves the
\* timer running.
CallClose(t) ==
  /\ touches < MaxTouches
  /\ touches' = touches + 1
  /\ disturbed' = IF Busy(t) \/ t \in timed \/ t \notin attached
                  THEN disturbed \cup {t} ELSE disturbed
  /\ \/ Close(t) /\ UNCHANGED hiding
     \/ hiding' = [hiding EXCEPT ![t] = @ + 1] /\ UNCHANGED motions
  /\ UNCHANGED <<fresh, attached, delayed, timerVars, panning, pressing, active, queueVars,
                 closings>>

-----------------------------------------------------------------------------
(* Entering *)

\* The delay is over while the view is still there.
Enter(t) ==
  /\ t \in delayed \cap attached
  /\ delayed' = delayed \ {t}
  /\ motions' = [motions EXCEPT ![t] = Append(@, "enter")]
  /\ UNCHANGED <<fresh, attached, hiding, timerVars, gestureVars, active, queueVars, closings>>

\* Mutant: a timer is set whatever the configuration says.
CloseOverlappedTimed(t) ==
  LET others == IF t \in Alone THEN ToSet(active) ELSE {}
  IN /\ timed' = (timed \cup {t}) \ others
     /\ orphans' = [orphans EXCEPT ![t] = IF t \in timed THEN @ + 1 ELSE @]
     /\ hiding' = [u \in Toast |-> IF u \in others THEN hiding[u] + 1 ELSE hiding[u]]
     /\ disturbed' = disturbed \cup {u \in others : Busy(u)}

\* closeOverlappedToasts: the active toasts lose their timer and are closed without
\* an animation, which completes at any time.
CloseOverlapped(t) ==
  LET others == IF t \in Alone THEN ToSet(active) ELSE {}
  IN /\ timed' = (timed \cup ({t} \cap Timed)) \ others
     /\ orphans' = [orphans EXCEPT ![t] = IF t \in Timed \cap timed THEN @ + 1 ELSE @]
     /\ hiding' = [u \in Toast |-> IF u \in others THEN hiding[u] + 1 ELSE hiding[u]]
     /\ disturbed' = disturbed \cup {u \in others : Busy(u)}

\* The completion of the entering animation; its cancelled form comes after the view
\* is gone, and makes the toast active all the same.
DidShow(t) ==
  /\ \/ /\ motions[t] # <<>> /\ Head(motions[t]) = "enter"
        /\ motions' = [motions EXCEPT ![t] = Tail(@)]
        /\ UNCHANGED delayed
     \/ /\ t \in delayed \ attached
        /\ delayed' = delayed \ {t}
        /\ UNCHANGED motions
  /\ CloseOverlapped(t)
  /\ active' = Append(active, t)
  /\ UNCHANGED <<fresh, attached, panning, pressing, touches, queueVars, closings>>

-----------------------------------------------------------------------------
(* Closing *)

\* Mutant: the closed toast is left on the screen.
LeftOnScreen(t) ==
  IF t \in served /\ queue # <<>>
  THEN /\ queue' = Tail(queue)
       /\ served' = served \cup {Head(queue)}
       /\ attached' = attached \cup {Head(queue)}
       /\ delayed' = delayed \cup {Head(queue)}
       /\ UNCHANGED isShowing
  ELSE UNCHANGED <<attached, queueVars, delayed>>

\* The delegate shows the next toast half a second later, however often it is told.
DidCloseToast(t) ==
  IF t \in served
  THEN /\ isShowing' = TRUE
       /\ queue' = IF queue = <<>> THEN queue ELSE Tail(queue)
       /\ served' = IF queue = <<>> THEN served ELSE served \cup {Head(queue)}
       /\ attached' = (attached \ {t}) \cup (IF queue = <<>> THEN {} ELSE {Head(queue)})
       /\ delayed' = IF queue = <<>> THEN delayed ELSE delayed \cup {Head(queue)}
  ELSE attached' = attached \ {t} /\ UNCHANGED <<queueVars, delayed>>

DidClose(t) ==
  /\ \/ /\ motions[t] # <<>> /\ Head(motions[t]) = "exit"
        /\ motions' = [motions EXCEPT ![t] = Tail(@)]
        /\ UNCHANGED hiding
     \/ /\ hiding[t] > 0
        /\ hiding' = [hiding EXCEPT ![t] = @ - 1]
        /\ UNCHANGED motions
  /\ active' = RemoveFirst(active, t)
  /\ DidCloseToast(t)
  /\ closings' = [closings EXCEPT ![t] = @ + 1]
  /\ UNCHANGED <<fresh, timerVars, gestureVars>>

TimerFires(t) ==
  /\ \/ /\ t \in timed
        /\ timed' = timed \ {t}
        /\ UNCHANGED orphans
     \/ /\ orphans[t] > 0
        /\ orphans' = [orphans EXCEPT ![t] = @ - 1]
        /\ UNCHANGED timed
  /\ Close(t)
  /\ UNCHANGED <<fresh, attached, delayed, hiding, gestureVars, active, queueVars, closings>>

-----------------------------------------------------------------------------
(* Gestures; all animations allow them. *)

Tap(t) ==
  /\ t \in Tapped
  /\ Touch(t)
  /\ timed' = timed \ {t}
  /\ Close(t)
  /\ UNCHANGED <<fresh, attached, delayed, hiding, orphans, panning, pressing,
                 active, queueVars, closings>>

\* A long press calls the handler when it begins and again when it ends, which is
\* a disturbance whatever else happens.
LongPress(t) ==
  /\ t \in Pressed \ pressing
  /\ t \in attached
  /\ touches < MaxTouches
  /\ touches' = touches + 1
  /\ disturbed' = disturbed \cup {t}
  /\ pressing' = pressing \cup {t}
  /\ timed' = timed \ {t}
  /\ Close(t)
  /\ UNCHANGED <<fresh, attached, delayed, hiding, orphans, panning, active, queueVars, closings>>

\* Every movement of the finger calls the handler once more.
LongPressMoves(t) ==
  /\ t \in pressing \cap attached
  /\ touches < MaxTouches
  /\ touches' = touches + 1
  /\ timed' = timed \ {t}
  /\ Close(t)
  /\ UNCHANGED <<fresh, attached, delayed, hiding, orphans, panning, pressing, disturbed,
                 active, queueVars, closings>>

LongPressEnds(t) ==
  /\ t \in pressing
  /\ pressing' = pressing \ {t}
  /\ timed' = timed \ {t}
  /\ Close(t)
  /\ UNCHANGED <<fresh, attached, delayed, hiding, orphans, panning, touches, disturbed,
                 active, queueVars, closings>>

\* Mutant: the timer runs on under the finger.
PanBeganTimed(t) ==
  /\ t \in Swiped \ panning
  /\ Touch(t)
  /\ panning' = panning \cup {t}
  /\ UNCHANGED <<fresh, screenVars, timerVars, pressing, active, queueVars, closings>>

PanBegan(t) ==
  /\ t \in Swiped \ panning
  /\ Touch(t)
  /\ panning' = panning \cup {t}
  /\ timed' = timed \ {t}
  /\ UNCHANGED <<fresh, screenVars, orphans, pressing, active, queueVars, closings>>

\* Dragged far enough the toast is closed, else it springs back.
PanEnded(t) ==
  /\ t \in panning \cap attached
  /\ panning' = panning \ {t}
  /\ \/ Close(t)
     \/ motions' = [motions EXCEPT ![t] = Append(@, "spring")]
  /\ UNCHANGED <<fresh, attached, delayed, hiding, timerVars, pressing, touches, disturbed,
                 active, queueVars, closings>>

\* The system cancels a gesture, and always does when the view is gone.
PanCancelled(t) ==
  /\ t \in panning
  /\ panning' = panning \ {t}
  /\ ConfigureCloseTimer(t)
  /\ UNCHANGED <<fresh, screenVars, pressing, touches, disturbed, active, queueVars, closings>>

\* Mutant: a toast that sprang back is not given a new timer.
SprungBackForever(t) ==
  /\ motions[t] # <<>> /\ Head(motions[t]) = "spring"
  /\ motions' = [motions EXCEPT ![t] = Tail(@)]
  /\ UNCHANGED <<fresh, attached, delayed, hiding, timerVars, gestureVars, active, queueVars,
                 closings>>

SprungBack(t) ==
  /\ motions[t] # <<>> /\ Head(motions[t]) = "spring"
  /\ motions' = [motions EXCEPT ![t] = Tail(@)]
  /\ ConfigureCloseTimer(t)
  /\ UNCHANGED <<fresh, attached, delayed, hiding, gestureVars, active, queueVars, closings>>

-----------------------------------------------------------------------------
Caller ==
  \/ ShowQueue
  \/ \E t \in Toast : Show(t) \/ Enqueue(t) \/ Dequeue(t) \/ CallClose(t)
  \/ \E s, u \in Toast : EnqueueAll(s, u)

Finger(t) == Tap(t) \/ LongPress(t) \/ LongPressMoves(t) \/ PanBegan(t)

FingerLeaves(t) == LongPressEnds(t) \/ PanEnded(t) \/ PanCancelled(t)

Animation(t) == Enter(t) \/ DidShow(t) \/ DidClose(t) \/ SprungBack(t)

Next ==
  \/ Caller
  \/ \E t \in Toast : Finger(t) \/ FingerLeaves(t) \/ Animation(t) \/ TimerFires(t)

Spec == Init /\ [][Next]_vars

(* Animations end, timers fire and fingers are lifted. *)
Fairness ==
  \A t \in Toast : /\ WF_vars(Animation(t))
                   /\ WF_vars(TimerFires(t))
                   /\ WF_vars(FingerLeaves(t))

FairSpec == Spec /\ Fairness

-----------------------------------------------------------------------------
(* Properties *)

\* A toast is closed, and its delegates told, at most once: each of timer, swipe and
\* tap ends the others, and closing a toast that rests is the end of it; unless it was
\* touched, hidden or closed by a caller while something of it was under way, or closed
\* by a caller while its timer ran, which close() does not stop, or it was not up
\* (Toast.swift:160-219, 243-316).
ClosedOnceUnlessDisturbed == \A t \in Toast : closings[t] > 1 => t \in disturbed

\* The queue has toasts to show and none on the screen whose closing would show them.
Stalled == isShowing /\ queue # <<>> /\ served \cap attached = {}

\* A queue that was shown once is left with toasts nobody is going to show only by a
\* single toast enqueued when it had run empty (ToastQueue.swift:22-36, 70-76).
StallsOnlyOnSingle ==
  [][~Stalled /\ Stalled' => queue = <<>> /\ served \cap attached = {} /\ Len(queue') = 1]_vars

\* The queue puts a toast beside another one of its own only on the caller's demand,
\* which shows without delay, or because a toast was closed once more after it had
\* gone (ToastQueue.swift:48-76).
NextOnlyAfterClose ==
  [][ LET up == served \cap attached
          new == (served \cap attached)' \ up
      IN new # {} /\ up \subseteq attached' =>
           new \cap delayed' = {} \/ \E t \in served \ attached : closings'[t] > closings[t] ]_vars

\* A toast with a timer leaves the screen and the active toasts for good, dragged,
\* cancelled and sprung back or not (Toast.swift:240-310).
Leaves ==
  \A t \in Timed : (t \in attached) ~> [](t \notin attached /\ ~Contains(active, t))
=============================================================================
