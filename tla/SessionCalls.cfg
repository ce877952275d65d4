SPECIFICATION Spec
CONSTANTS
  NoOne = NoOne
  Owner = {ann, bob}
  SignIns = {in1, in2}
  SignUps = {up1}
  Pictures = {p1}
  Rates = {r1}
  Logouts = {out1}
  Launches = {go1}
CONSTRAINT InScenario
INVARIANTS TypeOK SalonCreatedOnce
PROPERTIES EntersOwnHome ForeignProfileOnlyIfOutlived ForeignRatingOnlyIfOutlived
SYMMETRY Symmetry
CHECK_DEADLOCK FALSE
