--------------------------- MODULE MCPublicBooking ---------------------------
(***************************************************************************)
(* Instances of PublicBooking for TLC.                                     *)
(***************************************************************************)
EXTENDS PublicBooking, TLC

CONSTANTS r1, r2, r3, s1, s2, s3, s4, k1, k2, x1, x2, a1, a2, b1, typeA, typeB

-----------------------------------------------------------------------------
(* Retry: r1 and its retry r2 (one key) want one room of type A for nights *)
(* 1 and 2; r3 wants one for nights 2 and 3.  One room, or two, exist.     *)
RetryRequestOf  == s1 :> r1 @@ s2 :> r2 @@ s3 :> r3
RetryPosition   == [s \in {s1, s2, s3} |-> 1]
RetryCheckIn    == r1 :> 1 @@ r2 :> 1 @@ r3 :> 2
RetryCheckOut   == r1 :> 3 @@ r2 :> 3 @@ r3 :> 4
RetryKeyOf      == r1 :> k1 @@ r2 :> k1 @@ r3 :> k2
RetryTypeWanted == [s \in {s1, s2, s3} |-> typeA]
DistinctDraws   == r1 :> {x1} @@ r2 :> {x1} @@ r3 :> {x2}
CollidingDraws  == [r \in {r1, r2, r3} |-> {x1, x2}]

OneRoom  == a1 :> typeA
TwoRooms == a1 :> typeA @@ a2 :> typeA

\* The two rooms are of one type and nothing else tells them apart.
RoomSymmetry == Permutations({a1, a2})

-----------------------------------------------------------------------------
(* Pair: two requests of two rooms each, of types A and B in opposite      *)
(* order, for overlapping nights.                                          *)
PairRequestOf  == s1 :> r1 @@ s2 :> r1 @@ s3 :> r3 @@ s4 :> r3
PairPosition   == s1 :> 1 @@ s2 :> 2 @@ s3 :> 1 @@ s4 :> 2
PairTypeWanted == s1 :> typeA @@ s2 :> typeB @@ s3 :> typeB @@ s4 :> typeA
PairCheckIn    == r1 :> 1 @@ r3 :> 2
PairCheckOut   == r1 :> 3 @@ r3 :> 4
PairKeyOf      == r1 :> k1 @@ r3 :> k2
PairDraws      == r1 :> {x1} @@ r3 :> {x2}
PairRooms      == a1 :> typeA @@ b1 :> typeB
=============================================================================
