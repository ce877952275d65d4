SPECIFICATION FairSpec
CONSTANTS
  NoOne = NoOne
  Owner = {ann, bob}
  SignIns = {in1}
  SignUps = {up1}
  Pictures = {p1}
  Rates = {}
  Logouts = {out1}
  Launches = {go1}
PROPERTIES CallsEnd
CHECK_DEADLOCK FALSE
