--------------------------- MODULE FirestoreQueue ---------------------------
(***************************************************************************)
(* The write path of the Firestore client as an implementation of the      *)
(* contract WriteQueue: the queue of any one user, whoever is signed in.   *)
(***************************************************************************)
EXTENDS FirestoreWrites

CONSTANT Observed   \* any user

ASSUME ObservedAssumption == Observed \in User

WritesOf(q) == [i \in 1..Len(q) |-> q[i].write]

\* A refusal is the last answer of a stream; those before it report applied writes.
Accepted(replies) ==
  IF replies = <<>> \/ Last(replies).ok THEN Len(replies) ELSE Len(replies) - 1

\* The queue of Observed as WriteQueue sees it.
theQueue   == WritesOf(queue[Observed])
theTaken   == IF Observed = user THEN Accepted(down) ELSE 0
theApplied == {w \in applied : owner[w] = Observed}

Queue == INSTANCE WriteQueue
         WITH queue <- theQueue, taken <- theTaken, applied <- theApplied

\* Every user's writes are kept and brought to the server as WriteQueue says: in
\* order, each answered once and removed when it is, again from the first unanswered
\* one after a broken stream, a change of user or a kill (remote_store.cc:395-552).
KeepsWriteQueue == Queue!Spec
=============================================================================
