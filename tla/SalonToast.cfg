SPECIFICATION Spec
CONSTANTS
  phone = phone
  pad = pad
  s0 = s0
  Device <- MCDevice
  Adds = {a1}
  Images = {}
  Rates = {}
  Menus = {}
  Loads = {}
  SignUp = s0
  OnPad = {}
  dev <- MCdev
  Observed = phone
  Scenarios = {}
  MaxComments = 0
  MaxCrashes = 0
  MaxDrops = 0
INVARIANTS AddedMeansStored
CHECK_DEADLOCK FALSE
