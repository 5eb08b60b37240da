SPECIFICATION Spec
CONSTANTS
  r1 = r1 r2 = r2 r3 = r3 s1 = s1 s2 = s2 s3 = s3 s4 = s4
  k1 = k1 k2 = k2 x1 = x1 x2 = x2 a1 = a1 a2 = a2 b1 = b1
  typeA = typeA typeB = typeB
  None = None
  Request = {r1, r3}
  Line = {s1, s2, s3, s4}
  Key = {k1, k2}
  Ref = {x1, x2}
  Room = {a1, b1}
  RoomType = {typeA, typeB}
  Visit = {v1, v2}
  RequestOf <- PairRequestOf
  Position <- PairPosition
  CheckIn <- PairCheckIn
  CheckOut <- PairCheckOut
  KeyOf <- PairKeyOf
  Draws <- PairDraws
  TypeOf <- PairRooms
  TypeWanted <- PairTypeWanted
INVARIANTS
  CancelledOnce
PROPERTIES
  CancelledByOwnLinkOnly
