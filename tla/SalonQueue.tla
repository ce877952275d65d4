----------------------------- MODULE SalonQueue -----------------------------
(***************************************************************************)
(* The queue of local writes SalonDoc gives every device, as an            *)
(* implementation of the contract WriteQueue.                              *)
(***************************************************************************)
EXTENDS SalonDoc

CONSTANT Observed   \* any device

ASSUME ObservedAssumption == Observed \in Device

\* The queue of Observed as WriteQueue sees it.
theQueue   == pending[Observed]
theTaken   == taken[Observed]
theApplied == {o \in Ops : dev[o] = Observed /\ landed[o] > 0}

Queue == INSTANCE WriteQueue
         WITH Write <- Ops, queue <- theQueue, taken <- theTaken, applied <- theApplied

\* The write queue assumed here is the one FirestoreWrites shows the client to keep:
\* in order, one answer each, applied again after a broken connection or a restart
\* (remote_store.cc:395-552).
KeepsWriteQueue == Queue!Spec
=============================================================================
