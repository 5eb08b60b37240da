SPECIFICATION Spec
CONSTANTS
  Call = {c1, c2, c3}
  Key = {k1, k2}
  Booking = {b1, b2}
  None = None
INVARIANTS
  TypeOK
  OneActivePerBooking
  CardNeverForgotten
  SuccessIsTrue
PROPERTIES
  ImplementsLedger
SYMMETRY FullSymmetry
