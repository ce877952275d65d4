---------------------------- MODULE MCSalonDoc ----------------------------
(* Small instances of SalonDoc: a phone, on which the owner signed up, and a *)
(* tablet the runs in OnPad belong to.  A run of TLC covers several          *)
(* scenarios where all kinds of runs at once would be too many states.       *)
EXTENDS SalonQueue, FiniteSets, TLC

CONSTANTS phone, pad, OnPad,
          Scenarios  \* bound: the sets of runs that may be started together

MCDevice == {phone, pad}
MCdev == [o \in Ops |-> IF o \in OnPad THEN pad ELSE phone]

\* Runs of one kind on the phone are interchangeable, if Scenarios treats them alike.
Symmetry == Permutations(Adds \ OnPad) \cup Permutations(Menus \ OnPad)

Started == {o \in Ops \ {SignUp} : phase[o] # "idle"}

\* Runs whose call was refused; those that had written, while they wait to be told.
Unhappy == {o \in Started : \/ phase[o] \in {"unfetched", "unrefetched", "rejected"}
                            \/ phase[o] = "failed" /\ wrote[o] = NoDoc}

\* Comments only where a rating is computed; a broken connection or a killed app, not
\* both, and a refused call only where at most two runs write; a killed app only where
\* services are added.
InScenario ==
  /\ \E s \in Scenarios : Started \subseteq s
  /\ comments > 0 => \E o \in Rates : phase[o] # "idle"
  /\ drops + crashes <= 1
  /\ drops + crashes > 0 \/ Unhappy # {} => Cardinality(Started \cap Writers) <= 2
  /\ crashes > 0 => Started \subseteq Adds
=============================================================================
