SPECIFICATION FairSpec
CONSTANTS
  c1 = c1 c2 = c2 c3 = c3 qa = qa prod = prod
  None = None
  Caller = {c1, c2, c3}
  Config = {qa, prod}
  ConfigOf <- MixedConfigs
  Lifetime = {0, 2, 6}
  MaxBuffer = 2
  Horizon = 3
INVARIANTS
  TypeOK
  TokenOfOwnAccount
  SpareLife
PROPERTIES
  ReplacedWhenDue
  EveryCallEnds
