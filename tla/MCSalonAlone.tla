---------------------------- MODULE MCSalonAlone ----------------------------
(* Small instances of SalonAlone, with the devices of MCSalonDoc. *)
EXTENDS SalonAlone

CONSTANTS phone, pad, OnPad,
          Scenarios  \* bound: the sets of runs that may follow one another

MCDevice == {phone, pad}
MCdev == [o \in Ops |-> IF o \in OnPad THEN pad ELSE phone]

\* Comments only where a rating may be computed.
InScenario ==
  \E s \in Scenarios : /\ {o \in Ops \ {SignUp} : phase[o] # "idle"} \subseteq s
                       /\ comments > 0 => s \cap Rates # {}
=============================================================================
