----------------------------- MODULE SalonAlone -----------------------------
(***************************************************************************)
(* SalonDoc used by a patient owner: a run is started only when no other   *)
(* one is under way on any device, the write queues included, and the      *)
(* network holds (MaxDrops = 0).  Calls still fail, writes are rejected    *)
(* and the app is killed.  This is the use the handlers are written for.   *)
(***************************************************************************)
EXTENDS SalonDoc

Quiet == \A o \in Ops : phase[o] \in Over \cup {"idle"}

BeginAlone(o) == Quiet /\ Begin(o)

NextAlone ==
  \/ \E o \in Ops : BeginAlone(o) \/ RemoteAnswer(o)
  \/ \E d \in Device, o \in Ops : MainQueue(d, o)
  \/ \E d \in Device : WriteStream(d)
  \/ World

SpecAlone == Init /\ [][NextAlone]_vars

\* Without overlap the read-modify-write of the handlers keeps everything the
\* server ever accepted: no excuse of a stale copy or a race is left
\* (AppDataManager.swift:133-143 and 226-233, AddServicesVC.swift:41-60).
KeepsEverything ==
  /\ \A a \in Adds : landed[a] > 0 => a \in server.services
  /\ \A o \in Images : landed[o] > 0 => server.image >= input[o]
  /\ \A o \in Rates : landed[o] > 0 => server.score >= input[o]

-----------------------------------------------------------------------------
(* The document as an atomic register. *)

\* The fields of a copy that are in the program.
Fields(copy) == [exists |-> copy.exists, image |-> copy.image,
                 services |-> copy.services, score |-> copy.score]

\* Where a run stands for somebody who sees only calls, answers and the document.
Stage(p) ==
  CASE p = "idle" -> "idle"
    [] p \in {"uploading", "linking", "scoring", "fetching", "fetched", "unfetched", "pending"} -> "open"
    [] p = "acked" -> "accepted"
    [] p = "rejected" -> "refused"
    [] p \in {"refetching", "refetched", "unrefetched"} -> "looking"
    [] p \in Over -> "over"

Register == INSTANCE SalonRegister WITH
  doc   <- Fields(server),
  took  <- {o \in Ops : landed[o] > 0},
  stage <- [o \in Ops |-> Stage(phase[o])],
  read  <- [o \in Ops |-> Fields(saw[o])]

\* Without overlap fetching, changing a field and writing everything back is one
\* atomic update, however often the write is sent and whenever the app is killed,
\* every fetch returns the document as it is, and the completion handler learns
\* what became of the write (AppDataManager.swift:101-116, 133-143, 223-242,
\* AddServicesVC.swift:41-60).
ActsAtomically == Register!Spec
=============================================================================
