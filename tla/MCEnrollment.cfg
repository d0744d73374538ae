CONSTANTS
  d1 = d1
  d2 = d2
  s1 = s1
  s2 = s2
  s3 = s3
  None = None
  Devices = {d1, d2}
  Serials = {s1, s2, s3}
  SameHardware <- OneHardware
SPECIFICATION Spec
SYMMETRY Symmetry
INVARIANTS OneActive ActiveIsCertified ConflictsReported CredentialFollows
CHECK_DEADLOCK FALSE
