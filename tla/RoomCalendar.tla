----------------------------- MODULE RoomCalendar -----------------------------
(***************************************************************************)
(* What the reservation store promises, without locks, transactions or     *)
(* requests: a calendar of rooms and nights.  A key books a set of free    *)
(* nights of rooms in one step and once only; afterwards its nights can    *)
(* only be given back.  No night of a room ever passes from one key to     *)
(* another without having been free between.                               *)
(***************************************************************************)
CONSTANTS Room, Night, Key, Nobody

VARIABLES
  holder,   \* holder[c]: the key that has cell c, a night of a room
  taken     \* the keys that have booked

Cell == Room \X Night

Init ==
  /\ holder = [c \in Cell |-> Nobody]
  /\ taken = {}

\* Cells change in one direction only: those that change were from's and are
\* to's now.
Passes(from, to) ==
  LET before == holder
      after  == holder'
  IN  /\ after \in [Cell -> Key \cup {Nobody}]
      /\ \A c \in Cell : after[c] # before[c] => before[c] = from /\ after[c] = to

Reserve(k) ==
  /\ k \notin taken /\ taken' = taken \cup {k}
  /\ Passes(Nobody, k)

Release(k) ==
  /\ UNCHANGED taken
  /\ Passes(k, Nobody)

Next == \E k \in Key : Reserve(k) \/ Release(k)

Spec == Init /\ [][Next]_<<holder, taken>>
=============================================================================
