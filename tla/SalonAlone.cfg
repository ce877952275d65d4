SPECIFICATION SpecAlone
CONSTANTS
  phone = phone
  pad = pad
  s0 = s0
  Device <- MCDevice
  Adds = {a1, a2}
  Images = {i1, i2}
  Rates = {r1, r2}
  Menus = {}
  Loads = {l1}
  SignUp = s0
  OnPad = {a2, i2, r1}
  dev <- MCdev
  Scenarios = {{a1, a2, i1, l1}, {a1, i1, i2}, {a1, r1, r2}, {a2, i1, r1}}
  MaxComments = 2
  MaxCrashes = 1
  MaxDrops = 0
CONSTRAINT InScenario
INVARIANTS KeepsEverything
PROPERTIES ActsAtomically
CHECK_DEADLOCK FALSE
