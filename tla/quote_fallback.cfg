SPECIFICATION Spec
CONSTANTS
  r1 = r1 r2 = r2 std = std qq = qq
  Unfilled = Unfilled
  NoRow = NoRow
  Unreadable = Unreadable
  None = None
  Flaw = {}
  MaxChanges = 1
  k1 = k1
  Key = {k1}
  Request = {r1, r2}
  Code = {std, qq}
  Rate = {8499, 9999}
  Catalog <- TwoTypes
  Stay <- Stays
  TiesUp <- RoundedUp
SYMMETRY RequestSymmetry
INVARIANTS
  FallbackOnlyWhileUnreachable
