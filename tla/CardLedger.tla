------------------------------ MODULE CardLedger ------------------------------
(***************************************************************************)
(* What the credential registrar promises, without calls, HTTP or a        *)
(* processor: a booking has one registration open at a time; a stored card *)
(* is final, a refused key is final, and only a refusal lets the booking   *)
(* open another registration.                                              *)
(***************************************************************************)
CONSTANTS Key, Booking, Nothing

VARIABLES
  open,     \* open[b]: the key of the registration of booking b, if any
  verdict   \* verdict[k]: "none", "stored" or "refused"

Init ==
  /\ open = [b \in Booking |-> Nothing]
  /\ verdict = [k \in Key |-> "none"]

Open(b, k) ==
  /\ open[b] = Nothing /\ verdict[k] = "none"
  /\ \A c \in Booking : open[c] # k
  /\ open' = [open EXCEPT ![b] = k]
  /\ UNCHANGED verdict

Store(b) ==
  /\ open[b] # Nothing /\ verdict[open[b]] = "none"
  /\ verdict' = [verdict EXCEPT ![open[b]] = "stored"]
  /\ UNCHANGED open

Refuse(b) ==
  /\ open[b] # Nothing /\ verdict[open[b]] = "none"
  /\ verdict' = [verdict EXCEPT ![open[b]] = "refused"]
  /\ open' = [open EXCEPT ![b] = Nothing]

Next == \E b \in Booking : Store(b) \/ Refuse(b) \/ \E k \in Key : Open(b, k)

Spec == Init /\ [][Next]_<<open, verdict>>
=============================================================================
