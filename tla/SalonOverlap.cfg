SPECIFICATION Spec
CONSTANTS
  phone = phone
  pad = pad
  s0 = s0
  Device <- MCDevice
  Adds = {a1, a2, a3}
  Images = {i1,i2}
  Rates = {r1,r2}
  Menus = {q1,q2}
  Loads = {l1}
  SignUp = s0
  OnPad = {a3,i2,r2}
  dev <- MCdev
  Observed = phone
  Scenarios = {{a1,a2,a3},{a3,q1,q2},{a1,q1},{i1,l1},{a1,i2},{i1,i2},{r1,r2},{a1,r2}}
  MaxComments = 2
  MaxCrashes = 1
  MaxDrops = 1
SYMMETRY Symmetry
CONSTRAINT InScenario
INVARIANTS TypeOK LostOnlyToStaleWrite OwnChangeShows ImageStaleOnlyIfRaced ScoreStaleOnlyIfRaced
PROPERTIES MenuNeverGoesBack UnsetOnlyByRepeatedSignUp
CHECK_DEADLOCK FALSE
