SPECIFICATION PageSpec
CONSTANTS
  s1 = s1 w1 = w1 w2 = w2 w3 = w3 k1 = k1 k2 = k2 k3 = k3 c1 = c1 c2 = c2
  None = None
  Worker = {w1, w2, w3}
  Session = {s1}
  Key = {k1, k2, k3}
  Create = {c1, c2}
  SessionOf <- OneSession
  CreateOf <- OneBooking
INVARIANTS
  TypeOK
  PageTypeOK
  SuccessMeansConfirmed
  ConfirmedHasCard
  OneCardPerReservation
  CancelledHasNoCard
  OneRequestPerLoad
  InviteIsSafe
  StrandedHasNoCard
PROPERTIES
  RetryIsSafe
  UsesRegistrar
SYMMETRY PageSymmetry
