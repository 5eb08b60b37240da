------------------------------ MODULE MCStayQuote ------------------------------
(***************************************************************************)
(* Instances of StayQuote for TLC: two room types of the catalog, stays at *)
(* the ends of the rules and amounts whose taxes are half cents.           *)
(***************************************************************************)
EXTENDS StayQuote, TLC

CONSTANTS r1, r2, std, qq, k1

TwoTypes ==
  std :> [capacity |-> 2, rate |-> 8499] @@ qq :> [capacity |-> 4, rate |-> 9999]

\* The half cents that Python rounds up, of the taxes of the amounts below.
RoundedUp == {<<84990, 5>>, <<99990, 5>>}

OneRoom(code, humans, pets) == [code |-> code, humans |-> humans, pets |-> pets]

Asked(rooms, ahead, nights) == [rooms |-> rooms, ahead |-> ahead, nights |-> nights]

\* A long stay without the levy; two rooms, with ties in the GST; and two that are
\* refused, for their guests and for their date.
Stays ==
  { Asked(<<OneRoom(std, 2, 5)>>, 540, 28),
    Asked(<<OneRoom(std, 1, 0), OneRoom(qq, 4, 0)>>, 0, 10),
    Asked(<<OneRoom(qq, 3, 0), OneRoom(std, 3, 0)>>, 0, 27),
    Asked(<<OneRoom(qq, 1, 0)>>, 541, 90) }

RequestSymmetry == Permutations(Request)
=============================================================================
