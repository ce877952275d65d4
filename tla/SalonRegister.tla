--------------------------- MODULE SalonRegister ---------------------------
(***************************************************************************)
(* What the handlers of the salon document are written for: one document   *)
(* that every run reads and updates in a single step.  A read returns the  *)
(* document as it is; an update changes its own field of the document as   *)
(* it is and takes effect at most once, while its run is open; a picture   *)
(* or a rating is never replaced by an older one; and the run is told of   *)
(* success if its update took effect, of failure if it did not and never   *)
(* will.  Any number of runs may be open.                                  *)
(***************************************************************************)
EXTENDS Integers

CONSTANTS Ops,                        \* all runs
          Adds, Images, Rates, SignUp \* those that add a service, set the picture,
                                      \* set the rating, create the document

VARIABLES doc,    \* the document
          took,   \* runs whose update has taken effect
          stage,  \* stage[o]: how far run o has come
          read    \* read[o]: what run o has read

vars == <<doc, took, stage, read>>

Missing == [exists |-> FALSE, image |-> 0, services |-> {}, score |-> 0]

\* The owner has just signed up.
Init ==
  /\ doc = Missing
  /\ took = {}
  /\ stage = [o \in Ops |-> IF o = SignUp THEN "open" ELSE "idle"]
  /\ read = [o \in Ops |-> Missing]

Moves(o, from, to) ==
  /\ stage[o] \in from
  /\ stage' = [stage EXCEPT ![o] = to]
  /\ UNCHANGED <<doc, took, read>>

Call(o) == \E to \in {"open", "looking"} : Moves(o, {"idle"}, to)

Read(o) ==
  /\ stage[o] \in {"open", "looking"}
  /\ doc.exists
  /\ read' = [read EXCEPT ![o] = doc]
  /\ UNCHANGED <<doc, took, stage>>

\* The one step in which the update of o takes effect.
TakesEffect(o) ==
  /\ stage[o] = "open"
  /\ o \notin took
  /\ took' = took \cup {o}
  /\ UNCHANGED <<stage, read>>

Create ==
  /\ TakesEffect(SignUp)
  /\ ~doc.exists
  /\ doc' = [doc EXCEPT !.exists = TRUE]

AddService(o) ==
  /\ o \in Adds
  /\ TakesEffect(o)
  /\ doc.exists
  /\ doc' = [doc EXCEPT !.services = @ \cup {o}]

SetPicture(o) ==
  /\ o \in Images
  /\ TakesEffect(o)
  /\ doc.exists
  /\ doc'.image >= doc.image
  /\ doc' = [doc EXCEPT !.image = doc'.image]

SetRating(o) ==
  /\ o \in Rates
  /\ TakesEffect(o)
  /\ doc.exists
  /\ doc'.score >= doc.score
  /\ doc' = [doc EXCEPT !.score = doc'.score]

\* The run hears of its update, which cannot take effect any more.
Told(o) == Moves(o, {"open"}, IF o \in took THEN "accepted" ELSE "refused")

LooksAgain(o) == Moves(o, {"accepted", "refused"}, "looking")

\* Done, given up, or killed with the app.
Ends(o) == Moves(o, {"open", "accepted", "refused", "looking"}, "over")

Next ==
  \/ Create
  \/ \E o \in Ops : \/ Call(o) \/ Read(o)
                    \/ AddService(o) \/ SetPicture(o) \/ SetRating(o)
                    \/ Told(o) \/ LooksAgain(o) \/ Ends(o)

Spec == Init /\ [][Next]_vars
=============================================================================
