----------------------------- MODULE WriteQueue -----------------------------
(***************************************************************************)
(* What the app may rely on when it hands local writes to the Firestore    *)
(* client: the abstract specification of one queue of writes, kept on      *)
(* disk, that one server empties.  The writes are sent in order, without   *)
(* waiting for answers; the server applies them in order; the client       *)
(* learns their fate in order.  When the connection is lost the server may *)
(* have applied more of them than the client has heard of, and whatever    *)
(* has no answer is sent again: a write can be applied more than once.     *)
(***************************************************************************)
EXTENDS Integers, Sequences, SequencesExt

CONSTANT Write

VARIABLES
  queue,    \* local writes without an answer, in the order they were made
  taken,    \* how many of them the server has applied on this connection
  applied   \* writes the server has applied at least once

queueVars == <<queue, taken, applied>>

Init ==
  /\ queue \in Seq(Write)
  /\ taken = 0
  /\ applied = {}

\* The app makes a write.
Put ==
  /\ \E w \in Write : w \notin ToSet(queue) /\ queue' = Append(queue, w)
  /\ UNCHANGED <<taken, applied>>

\* The server applies the next one.
Apply ==
  /\ taken < Len(queue)
  /\ taken' = taken + 1
  /\ applied' = applied \cup {queue[taken + 1]}
  /\ UNCHANGED queue

\* The client hears that the first one is applied.
Accept ==
  /\ taken > 0
  /\ queue' = Tail(queue)
  /\ taken' = taken - 1
  /\ UNCHANGED applied

\* The client hears that a write is refused, and the connection ends.  It takes the
\* error to be about the first one without an answer.  That is so if the server has
\* applied none; but the error can overtake the answers of applied ones, when a write
\* behind the refused one was being sent.
Refuse ==
  /\ queue # <<>>
  /\ taken = 0 \/ taken + 1 < Len(queue)
  /\ queue' = Tail(queue)
  /\ taken' = 0
  /\ UNCHANGED applied

\* The connection ends.  Of what had been sent the server has applied the first k.
Reconnect ==
  /\ \E k \in taken..Len(queue) :
       applied' = applied \cup {queue[i] : i \in 1..k}
  /\ taken' = 0
  /\ UNCHANGED queue

Next == Put \/ Apply \/ Accept \/ Refuse \/ Reconnect

Spec == Init /\ [][Next]_queueVars
=============================================================================
