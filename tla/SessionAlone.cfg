SPECIFICATION SpecAlone
CONSTANTS
  NoOne = NoOne
  Owner = {ann, bob}
  SignIns = {in1, in2}
  SignUps = {up1}
  Pictures = {p1}
  Rates = {}
  Logouts = {out1}
  Launches = {go1}
INVARIANTS HomeShowsOwner StrandedOnlyWithoutSalon
PROPERTIES KeepsContract
SYMMETRY Symmetry
CHECK_DEADLOCK FALSE
