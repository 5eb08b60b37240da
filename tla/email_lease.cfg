SPECIFICATION Spec
CONSTANTS
  w1 = w1 w2 = w2 w3 = w3 old = old new = new
  None = None
  Worker = {w1, w2, w3}
  Secret = {old, new}
  SecretOf <- RotatedSecret
  CreateSecret = old
INVARIANTS
  TypeOK
  NoSilentLoss
  EveryLinkWorks
PROPERTIES
  LeaseIsOwn
