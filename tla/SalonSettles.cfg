SPECIFICATION FairSpec
CONSTANTS
  phone = phone
  pad = pad
  s0 = s0
  Device <- MCDevice
  Adds = {a1}
  Images = {i1}
  Rates = {}
  Menus = {}
  Loads = {}
  SignUp = s0
  OnPad = {a1}
  dev <- MCdev
  Observed = phone
  Scenarios = {}
  MaxComments = 0
  MaxCrashes = 1
  MaxDrops = 1
PROPERTIES Settles KeepsWriteQueue
CHECK_DEADLOCK FALSE
