SPECIFICATION FairSpec
CONSTANTS
  s1 = s1 w1 = w1 w2 = w2 w3 = w3 w4 = w4 k1 = k1 k2 = k2 k3 = k3
  None = None
  Worker = {w1, w2}
  Session = {s1}
  Key = {k1}
  SessionOf <- OneSession
PROPERTIES
  InProgressEnds
