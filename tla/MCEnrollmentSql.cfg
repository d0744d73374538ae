CONSTANTS
  d1 = d1
  s1 = s1
  s2 = s2
  None = None
  Devices = {d1}
  Serials = {s1, s2}
  SameHardware = {}
SPECIFICATION SqlSpec
INVARIANT OneActive
CHECK_DEADLOCK FALSE
