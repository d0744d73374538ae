CONSTANTS
  d1 = d1
  s1 = s1
  s2 = s2
  None = None
  n1 = n1
  n2 = n2
  n3 = n3
  n4 = n4
  n5 = n5
  n6 = n6
  Devices = {d1}
  Serials = {s1, s2}
  SameHardware = {}
  Handlers = {h1, h2}
  h1 = h1
  h2 = h2
  Nonces = {n1, n2, n3, n4, n5, n6}
  MaxSessions = 2
  MaxMsg = 3
  MaxFaults = 1
  First <- OneEach
SPECIFICATION AuthSpec
INVARIANTS AuthTypeOK NothingCarriedOver CertificateOnEveryRequest NoChallengeLoop
CHECK_DEADLOCK FALSE
