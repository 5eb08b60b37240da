--------------------- MODULE CredentialRegistrationProofs ---------------------
(***************************************************************************)
(* Theorems about CredentialRegistration, for any number of calls, keys    *)
(* and bookings.  Steps are grouped by what they change: a call moves on,  *)
(* Moneris answers, a row is inserted, a row is patched.                   *)
(***************************************************************************)
EXTENDS CredentialRegistration, TLAPS

-----------------------------------------------------------------------------
(* The effects.                                                            *)

\* Call c moves on; the others stay where they are.
Moves(c) ==
  /\ step[c] \notin {"idle", "done"} /\ step'[c] # "idle"
  /\ step' \in [Call -> Step] /\ result' \in [Call -> Result]
  /\ \A d \in Call : d # c => step'[d] = step[d] /\ result'[d] = result[d]
  /\ UNCHANGED <<key, booking>>
  /\ result'[c] = "SUCCEEDED" => step'[c] = "done"

\* What c may claim after a step, given the rows and verdicts after it.
Entitled(c) ==
  /\ step'[c] \in AtCard => status'[key[c]] # "absent" /\ owner'[key[c]] = booking[c]
  /\ step'[c] \in AfterAccept => moneris'[key[c]] = "accepted"
  /\ step'[c] = "mark_failed" => moneris'[key[c]] = "declined"
  /\ result'[c] = "SUCCEEDED" => status'[key[c]] = "SUCCEEDED" /\ owner'[key[c]] = booking[c]

\* A row that failed unasked is not asked about again.
StaysAway(c) ==
  (status[key[c]] = "FAILED" /\ moneris[key[c]] = "unsent")
    => step'[c] \in {"get_by_key", "done"}

\* Requests on their way have a type and, if PATCHes, a given verdict.
LateEffect ==
  /\ late' \subseteq Key \X Status /\ posted' \subseteq Key \X Booking
  /\ LateInv'

-----------------------------------------------------------------------------
(* Each effect keeps the invariant.                                        *)

\* A call moves on and no row or verdict changes.
LEMMA MoveKeepsInv ==
  ASSUME RegistrarInv, NEW c \in Call, Moves(c), Entitled(c), StaysAway(c), LateEffect,
         UNCHANGED <<status, owner, moneris>>
  PROVE  RegistrarInv'
<1> USE DEF RegistrarInv
<1>1. TypeOK'
  BY DEF TypeOK, Moves, LateEffect
<1>2. CallInv'
  BY <1>1 DEF CallInv, Moves, Entitled, TypeOK
<1>3. RowInv'
  BY <1>1 DEF RowInv, Moves, StaysAway, TypeOK, CallInv
<1>4. OneActivePerBooking'
  BY DEF OneActivePerBooking
<1>5. SuccessIsTrue'
  BY <1>1 DEF SuccessIsTrue, Moves, Entitled, TypeOK, RowInv, CallInv
<1> QED
  BY <1>1, <1>2, <1>3, <1>4, <1>5 DEF LateEffect

\* Moneris answers key k, for a call that waits (Moves) or for nobody.
Verdict(k, v) ==
  /\ v \in {"sent", "accepted", "declined"}
  /\ moneris[k] \in {"unsent", "sent", v}
  /\ moneris' = [moneris EXCEPT ![k] = v]
  /\ UNCHANGED <<status, owner, late, posted>>

\* A verdict is given once, so that nobody who acted on one is contradicted.
LEMMA VerdictKeepsRows ==
  ASSUME RegistrarInv, NEW k \in Key, NEW v, Verdict(k, v), status[k] # "absent",
         status[k] = "FAILED" => moneris[k] = "declined"
  PROVE  /\ \A l \in Key : moneris[l] \in {"accepted", "declined"} => moneris'[l] = moneris[l]
         /\ moneris' \in [Key -> {"unsent", "sent", "accepted", "declined"}]
         /\ LateInv' /\ OneActivePerBooking'
         /\ \A l \in Key : /\ status'[l] = "absent" => moneris'[l] = "unsent"
                           /\ status'[l] = "SUCCEEDED" => moneris'[l] = "accepted"
                           /\ status'[l] = "FAILED" =>
                                moneris'[l] = "declined" \/ (l # k /\ moneris[l] = "unsent")
<1>1. \A l \in Key : moneris[l] \in {"accepted", "declined"} => moneris'[l] = moneris[l]
  BY DEF Verdict, RegistrarInv, TypeOK
<1>2. moneris' \in [Key -> {"unsent", "sent", "accepted", "declined"}]
  BY DEF Verdict, RegistrarInv, TypeOK
<1>3. LateInv'
  BY <1>1, <1>2 DEF Verdict, RegistrarInv, LateInv
<1>4. OneActivePerBooking'
  BY DEF Verdict, RegistrarInv, OneActivePerBooking
<1>5. \A l \in Key : l # k => moneris'[l] = moneris[l]
  BY DEF Verdict, RegistrarInv, TypeOK
<1>6. ASSUME NEW l \in Key PROVE
        /\ status'[l] = "absent" => moneris'[l] = "unsent"
        /\ status'[l] = "SUCCEEDED" => moneris'[l] = "accepted"
        /\ status'[l] = "FAILED" =>
             moneris'[l] = "declined" \/ (l # k /\ moneris[l] = "unsent")
  BY <1>1, <1>5 DEF Verdict, RegistrarInv, RowInv
<1> QED
  BY <1>1, <1>2, <1>3, <1>4, <1>6

\* A call asks Moneris, which answers or keeps silent.
LEMMA AnswerKeepsInv ==
  ASSUME RegistrarInv, NEW c \in Call, step[c] = "validate", Moves(c), Entitled(c),
         NEW v, Verdict(key[c], v)
  PROVE  RegistrarInv'
<1> USE DEF RegistrarInv
<1>1. key[c] \in Key /\ status[key[c]] # "absent"
  BY DEF CallInv, AtCard
<1>2. status[key[c]] = "FAILED" => moneris[key[c]] = "declined"
  BY <1>1 DEF RowInv
<1>3. TypeOK'
  BY <1>1, <1>2, VerdictKeepsRows DEF TypeOK, Moves, Verdict
<1>4. CallInv'
  BY <1>1, <1>2, <1>3, VerdictKeepsRows DEF CallInv, Moves, Entitled, TypeOK, Verdict
<1>5. RowInv'
  BY <1>1, <1>2, <1>3, VerdictKeepsRows DEF RowInv, Moves, Verdict, TypeOK
<1>6. SuccessIsTrue'
  BY <1>1, <1>2, <1>3, <1>5, VerdictKeepsRows
  DEF SuccessIsTrue, Moves, Entitled, Verdict, TypeOK, CallInv, RowInv
<1> QED
  BY <1>1, <1>2, <1>3, <1>4, <1>5, <1>6, VerdictKeepsRows

\* A row appears: its key was absent and its booking had no active row.
LEMMA InsertKeepsInv ==
  ASSUME RegistrarInv, NEW k \in Key, NEW b \in Booking, Insert(k, b), LateEffect,
         UNCHANGED moneris,
         UNCHANGED callVars \/ \E c \in Call : Moves(c) /\ Entitled(c) /\ key[c] = k
  PROVE  RegistrarInv'
<1> USE DEF RegistrarInv
<1>1. \A l \in Key : l # k => status'[l] = status[l] /\ owner'[l] = owner[l]
  BY DEF Insert, TypeOK
<1>2. status[k] = "absent" /\ status'[k] = "PENDING" /\ owner'[k] = b
  BY DEF Insert, TypeOK
<1>3. TypeOK'
  BY DEF Insert, TypeOK, Moves, LateEffect, Status, Active, Writable, callVars
<1>4. CallInv'
  BY <1>1, <1>2, <1>3 DEF CallInv, Moves, Entitled, TypeOK, callVars, AtCard, AfterAccept
<1>5. RowInv'
  BY <1>1, <1>2, <1>3 DEF RowInv, Moves, TypeOK, callVars
<1>6. OneActivePerBooking'
  BY <1>1, <1>2 DEF OneActivePerBooking, Insert, HasActive
<1>7. SuccessIsTrue'
  BY <1>1, <1>2, <1>3, <1>5
  DEF SuccessIsTrue, Moves, Entitled, TypeOK, CallInv, RowInv, callVars
<1> QED
  BY <1>3, <1>4, <1>5, <1>6, <1>7 DEF LateEffect

\* A PATCH reaches its row with a verdict that was given; it changes nothing
\* unless the row is still open.
PatchEffect(k, new) ==
  /\ Patch(k, new)
  /\ new \in {"SUCCEEDED", "FAILED", "RECONCILIATION_REQUIRED"}
  /\ new = "SUCCEEDED" => moneris[k] = "accepted"
  /\ new = "FAILED" =>
       \/ moneris[k] = "declined"
       \/ moneris[k] = "unsent" /\ \A d \in Call : key[d] = k => step[d] = "done"
  /\ LateEffect
  /\ UNCHANGED <<owner, moneris>>

\* A patched row stays what a finished call was told, and stays alone.
LEMMA PatchKeepsInv ==
  ASSUME RegistrarInv, NEW k \in Key, NEW new, PatchEffect(k, new),
         \/ UNCHANGED callVars
         \/ \E c \in Call : Moves(c) /\ Entitled(c) /\ StaysAway(c) /\ key[c] = k
  PROVE  RegistrarInv'
<1> USE DEF RegistrarInv
<1>1. \A l \in Key : l # k => status'[l] = status[l]
  BY DEF PatchEffect, Patch, TypeOK
<1>2. status'[k] = IF status[k] \in Writable THEN new ELSE status[k]
  BY DEF PatchEffect, Patch, TypeOK
<1>3. \A l \in Key : /\ status'[l] = "absent" <=> status[l] = "absent"
                     /\ status'[l] \in Active => status[l] \in Active
                     /\ status[l] = "SUCCEEDED" => status'[l] = "SUCCEEDED"
  BY <1>1, <1>2 DEF PatchEffect, Active, Writable
<1>4. TypeOK'
  BY <1>1, <1>2 DEF PatchEffect, Patch, TypeOK, Moves, LateEffect, Status, Active, Writable, callVars
<1>5. CallInv'
  BY <1>3, <1>4 DEF CallInv, PatchEffect, Moves, Entitled, TypeOK, callVars, AtCard, AfterAccept
<1>6. RowInv'
  <2>1. ASSUME NEW l \in Key, l # k PROVE RowInv!(l)'
    BY <1>1, <1>4, <2>1 DEF RowInv, PatchEffect, Moves, TypeOK, callVars
  <2>2. RowInv!(k)'
    BY <1>2, <1>4 DEF RowInv, PatchEffect, Moves, StaysAway, TypeOK, callVars
  <2> QED
    BY <2>1, <2>2 DEF RowInv
<1>7. OneActivePerBooking'
  BY <1>3 DEF OneActivePerBooking, PatchEffect
<1>8. SuccessIsTrue'
  BY <1>3, <1>4, <1>6
  DEF SuccessIsTrue, PatchEffect, Moves, Entitled, TypeOK, CallInv, RowInv, callVars
<1> QED
  BY <1>4, <1>5, <1>6, <1>7, <1>8 DEF PatchEffect, LateEffect

-----------------------------------------------------------------------------
(* Every step has one of the effects.                                      *)

\* A call that goes to another step or ends moves.
LEMMA GotoMoves ==
  ASSUME RegistrarInv, NEW c \in Call, step[c] \notin {"idle", "done"},
         \/ \E next \in Step : next # "idle" /\ Goto(c, next)
         \/ \E value \in Result : Return(c, value)
  PROVE  Moves(c)
<1>1. CASE \E next \in Step : next # "idle" /\ Goto(c, next)
  BY <1>1 DEF Goto, Moves, RegistrarInv, TypeOK, CallInv
<1>2. CASE \E value \in Result : Return(c, value)
  BY <1>2 DEF Return, Moves, RegistrarInv, TypeOK, Step
<1> QED
  BY <1>1, <1>2

\* The reads of a call, and its ends without a write.
ReadsOrEnds(c) ==
  \/ GetByKey(c) \/ GetActive(c) \/ ResolveByKey(c) \/ ResolveActive(c) \/ Raced(c)
  \/ Reread(c) \/ Recheck(c) \/ ValidateInvalid(c) \/ ValidateNoToken(c)
  \/ LoseDatabase(c) \/ Die(c)

\* A call that reads a row or ends keeps the invariant.
LEMMA ReadsKeepInv ==
  ASSUME RegistrarInv, NEW c \in Call, ReadsOrEnds(c)
  PROVE  RegistrarInv'
<1> USE DEF RegistrarInv, rowVars
<1>1. UNCHANGED <<rowVars, moneris>>
  BY DEF ReadsOrEnds, GetByKey, GetActive, ResolveByKey, ResolveActive, Raced, Reread,
    Recheck, ValidateInvalid, ValidateNoToken, LoseDatabase, Die
<1>2. LateEffect
  BY <1>1 DEF LateEffect, LateInv, TypeOK
<1>3. key[c] \in Key /\ step[c] \notin {"idle", "done"}
  BY DEF ReadsOrEnds, GetByKey, GetActive, ResolveByKey, ResolveActive, Raced, Reread,
    Recheck, ValidateInvalid, ValidateNoToken, LoseDatabase, Die, Reads, CallInv
<1>4. Moves(c)
  <2>1. \/ \E next \in Step : next # "idle" /\ Goto(c, next)
        \/ \E value \in Result : Return(c, value)
    BY DEF ReadsOrEnds, GetByKey, GetActive, ResolveByKey, ResolveActive, Raced, Reread,
      Recheck, ValidateInvalid, ValidateNoToken, LoseDatabase, Die, Resume, Step, Result,
      Reads
  <2> QED
    BY <1>3, <2>1, GotoMoves
<1>5. Entitled(c)
  BY <1>1, <1>3 DEF Goto, Return, Entitled, ReadsOrEnds, GetByKey, GetActive, ResolveByKey,
    ResolveActive, Raced, Reread, Recheck, ValidateInvalid, ValidateNoToken, LoseDatabase,
    Die, Resume, TypeOK, CallInv, AtCard, AfterAccept, Writable
<1>6. StaysAway(c)
  BY <1>3 DEF Goto, Return, StaysAway, ReadsOrEnds, GetByKey, GetActive, ResolveByKey, ResolveActive,
    Raced, Reread, Recheck, ValidateInvalid, ValidateNoToken, LoseDatabase, Die, Resume,
    TypeOK, RowInv, Writable
<1> QED
  BY <1>1, <1>2, <1>4, <1>5, <1>6, MoveKeepsInv

\* A call whose card Moneris accepted, declined or kept silent about goes on.
LEMMA ValidationsKeepInv ==
  ASSUME RegistrarInv, NEW c \in Call,
         ValidateAccepted(c) \/ ValidateDeclined(c) \/ ValidateAmbiguous(c)
  PROVE  RegistrarInv'
<1> USE DEF RegistrarInv, rowVars, Goto, Return
<1>1. step[c] = "validate" /\ key[c] \in Key
  BY DEF ValidateAccepted, ValidateDeclined, ValidateAmbiguous, CallInv
<1>2. status[key[c]] # "absent" /\ owner[key[c]] = booking[c]
  BY <1>1 DEF CallInv, AtCard
<1>3. Moves(c)
  BY <1>1 DEF Moves, ValidateAccepted, ValidateDeclined, ValidateAmbiguous, TypeOK, Step,
    CallInv
<1>4. \E v : Verdict(key[c], v)
  <2>1. CASE ValidateAccepted(c) \/ ValidateDeclined(c)
    BY <2>1 DEF Verdict, ValidateAccepted, ValidateDeclined, MonerisAnswers
  <2>2. CASE ValidateAmbiguous(c) /\ moneris[key[c]] \in {"unsent", "sent"}
    <3>1. Verdict(key[c], "sent")
      BY <1>1, <2>2 DEF Verdict, ValidateAmbiguous, TypeOK
    <3> QED
      BY <3>1
  <2>3. CASE ValidateAmbiguous(c) /\ moneris[key[c]] \in {"accepted", "declined"}
    <3>1. Verdict(key[c], moneris[key[c]])
      BY <1>1, <2>3 DEF Verdict, ValidateAmbiguous, TypeOK
    <3> QED
      BY <3>1
  <2> QED
    BY <1>1, <2>1, <2>2, <2>3 DEF TypeOK
<1>5. Entitled(c)
  BY <1>1, <1>2, <1>3 DEF Entitled, ValidateAccepted, ValidateDeclined, ValidateAmbiguous,
    MonerisAnswers, TypeOK, AtCard, AfterAccept, CallInv
<1> QED
  BY <1>1, <1>3, <1>4, <1>5, AnswerKeepsInv

\* begin_registration keeps the invariant, and so does an INSERT applied late.
LEMMA InsertsKeepInv ==
  ASSUME RegistrarInv,
         \/ \E c \in Call : Begin(c)
         \/ \E k \in Key, b \in Booking : DeliverInsert(k, b)
  PROVE  RegistrarInv'
<1> USE DEF RegistrarInv, rowVars, Goto, Return
<1>1. ASSUME NEW c \in Call, Begin(c) PROVE RegistrarInv'
  <2>1. key[c] \in Key /\ booking[c] \in Booking
    BY <1>1 DEF Begin, CallInv
  <2>2. Moves(c)
    BY <1>1, <2>1 DEF Begin, Moves, TypeOK, Step, Result, CallInv, Reads
  <2>3. LateEffect
    BY <1>1, <2>1 DEF Begin, LateEffect, LateInv, TypeOK
  <2>4. CASE Insert(key[c], booking[c]) /\ UNCHANGED posted
    <3>1. Entitled(c)
      BY <1>1, <2>1, <2>2, <2>4 DEF Begin, Insert, Entitled, TypeOK, CallInv, AtCard, AfterAccept
    <3> QED
      BY <1>1, <2>1, <2>2, <2>3, <2>4, <3>1, InsertKeepsInv DEF Begin
  <2>5. CASE UNCHANGED <<status, owner>>
    <3>1. Entitled(c)
      BY <1>1, <2>1, <2>2, <2>5 DEF Begin, Insert, Entitled, TypeOK, CallInv, AtCard, AfterAccept
    <3>2. StaysAway(c)
      BY <1>1, <2>1 DEF Begin, StaysAway, RowInv
    <3> QED
      BY <1>1, <2>2, <2>3, <2>5, <3>1, <3>2, MoveKeepsInv DEF Begin
  <2> QED
    BY <1>1, <2>4, <2>5 DEF Begin
<1>2. ASSUME NEW k \in Key, NEW b \in Booking, DeliverInsert(k, b) PROVE RegistrarInv'
  <2>1. LateEffect
    BY <1>2 DEF DeliverInsert, LateEffect, LateInv, TypeOK
  <2>2. CASE Insert(k, b)
    BY <1>2, <2>1, <2>2, InsertKeepsInv DEF DeliverInsert
  <2>3. CASE UNCHANGED <<status, owner>>
    BY <1>2, <2>3 DEF DeliverInsert, TypeOK, CallInv, RowInv, LateInv, OneActivePerBooking,
      SuccessIsTrue, callVars
  <2> QED
    BY <1>2, <2>2, <2>3 DEF DeliverInsert
<1> QED
  BY <1>1, <1>2

\* The guarded PATCHes of a call keep the invariant, applied at once or later.
LEMMA MarksKeepInv ==
  ASSUME RegistrarInv, NEW c \in Call,
         MarkSucceeded(c) \/ MarkUnsure(c) \/ MarkFailed(c) \/ MarkHeld(c)
  PROVE  RegistrarInv'
<1> DEFINE k == key[c]
<1> USE DEF RegistrarInv
<1>1. /\ k \in Key /\ step[c] \notin {"idle", "done"}
      /\ status[k] # "absent" /\ owner[k] = booking[c]
      /\ step[c] \in AfterAccept => moneris[k] = "accepted"
      /\ step[c] = "mark_failed" => moneris[k] = "declined"
  BY DEF MarkSucceeded, MarkUnsure, MarkFailed, MarkHeld, CallInv, AtCard
<1>2. StaysAway(c)
  BY <1>1 DEF StaysAway, RowInv, MarkSucceeded, MarkUnsure, MarkFailed, MarkHeld
<1>3. Moves(c)
  <2>1. \/ \E next \in Step : next # "idle" /\ Goto(c, next)
        \/ \E value \in Result : Return(c, value)
    BY DEF MarkSucceeded, MarkUnsure, MarkFailed, MarkHeld, Step, Result, Reads
  <2> QED
    BY <1>1, <2>1, GotoMoves
<1>4. UNCHANGED <<owner, posted, moneris>>
  BY DEF MarkSucceeded, MarkUnsure, MarkFailed, MarkHeld
<1>5. ASSUME NEW new, new \in {"SUCCEEDED", "FAILED", "RECONCILIATION_REQUIRED"},
             new = "SUCCEEDED" => moneris[k] = "accepted",
             new = "FAILED" => moneris[k] = "declined",
             Patch(k, new), UNCHANGED late, Entitled(c)
      PROVE  RegistrarInv'
  <2>1. LateEffect
    BY <1>4, <1>5 DEF LateEffect, LateInv, TypeOK
  <2>2. PatchEffect(k, new)
    BY <1>4, <1>5, <2>1 DEF PatchEffect
  <2> QED
    BY <1>1, <1>2, <1>3, <1>5, <2>2, PatchKeepsInv
<1>6. ASSUME NEW new, new \in {"SUCCEEDED", "FAILED", "RECONCILIATION_REQUIRED"},
             new = "SUCCEEDED" => moneris[k] = "accepted",
             new = "FAILED" => moneris[k] = "declined",
             Delay(k, new) \/ UNCHANGED <<status, late>>, Entitled(c)
      PROVE  RegistrarInv'
  <2>1. LateEffect
    BY <1>1, <1>4, <1>6 DEF LateEffect, LateInv, TypeOK, Delay, Status, Active, Writable
  <2>2. UNCHANGED status
    BY <1>6 DEF Delay
  <2> QED
    BY <1>2, <1>3, <1>4, <1>6, <2>1, <2>2, MoveKeepsInv
<1>7. CASE MarkSucceeded(c)
  <2>1. Entitled(c)
    BY <1>1, <1>7 DEF MarkSucceeded, Patch, Delay, Entitled, TypeOK, CallInv, Goto, Return,
      AtCard, AfterAccept, Writable
  <2>2. moneris[k] = "accepted"
    BY <1>1, <1>7 DEF MarkSucceeded, AfterAccept
  <2>3. \/ Patch(k, "SUCCEEDED") /\ UNCHANGED late
        \/ Delay(k, "SUCCEEDED") \/ UNCHANGED <<status, late>>
    BY <1>7 DEF MarkSucceeded
  <2> QED
    BY <1>5, <1>6, <2>1, <2>2, <2>3
<1>8. CASE MarkUnsure(c) \/ MarkHeld(c)
  <2>1. Entitled(c)
    BY <1>1, <1>8 DEF MarkUnsure, MarkHeld, Patch, Delay, Entitled, TypeOK, CallInv, Goto,
      Return, AtCard, AfterAccept, Writable
  <2>2. \/ Patch(k, "RECONCILIATION_REQUIRED") /\ UNCHANGED late
        \/ Delay(k, "RECONCILIATION_REQUIRED")
    BY <1>8 DEF MarkUnsure, MarkHeld
  <2> QED
    BY <1>5, <1>6, <2>1, <2>2
<1>9. CASE MarkFailed(c)
  <2>1. Entitled(c)
    BY <1>1, <1>9 DEF MarkFailed, Patch, Delay, Entitled, TypeOK, Goto, Return, AtCard,
      AfterAccept, Writable
  <2>2. moneris[k] = "declined"
    BY <1>1, <1>9 DEF MarkFailed
  <2>3. \/ Patch(k, "FAILED") /\ UNCHANGED late
        \/ Delay(k, "FAILED") \/ UNCHANGED <<status, late>>
    BY <1>9 DEF MarkFailed
  <2> QED
    BY <1>5, <1>6, <2>1, <2>2, <2>3
<1> QED
  BY <1>7, <1>8, <1>9

\* What happens while no call waits: Moneris settles a request, a PATCH arrives
\* late, the operator releases a row.
LEMMA EnvironmentKeepsInv ==
  ASSUME RegistrarInv, Environment
  PROVE  RegistrarInv'
<1> USE DEF RegistrarInv
<1>1. ASSUME NEW k \in Key, Settle(k) PROVE RegistrarInv'
  <2>1. PICK v \in {"accepted", "declined"} : Verdict(k, v)
    BY <1>1 DEF Settle, Verdict, rowVars
  <2>2. status[k] # "absent" /\ status[k] # "FAILED"
    BY <1>1 DEF Settle, RowInv
  <2>3. TypeOK'
    BY <1>1, <2>1, <2>2, VerdictKeepsRows DEF Settle, TypeOK, rowVars, callVars
  <2>4. CallInv'
    BY <1>1, <2>1, <2>2, VerdictKeepsRows DEF Settle, CallInv, rowVars, callVars, AtCard,
      AfterAccept
  <2>5. RowInv'
    BY <1>1, <2>1, <2>2, VerdictKeepsRows DEF Settle, RowInv, rowVars, callVars
  <2>6. SuccessIsTrue'
    BY <1>1, <2>1, <2>2, VerdictKeepsRows
    DEF Settle, SuccessIsTrue, CallInv, rowVars, callVars
  <2> QED
    BY <2>1, <2>2, <2>3, <2>4, <2>5, <2>6, VerdictKeepsRows
<1>2. ASSUME NEW k \in Key, NEW new \in Status, Deliver(k, new) PROVE RegistrarInv'
  <2>1. LateEffect
    BY <1>2 DEF Deliver, LateEffect, LateInv, TypeOK
  <2>2. PatchEffect(k, new)
    BY <1>2, <2>1 DEF Deliver, PatchEffect, LateInv, Status, Active, Writable
  <2> QED
    BY <1>2, <2>2, PatchKeepsInv DEF Deliver
<1>3. ASSUME NEW k \in Key, Release(k) PROVE RegistrarInv'
  <2>1. LateEffect
    BY <1>3 DEF Release, LateEffect, LateInv, TypeOK
  <2>2. PatchEffect(k, "FAILED")
    BY <1>3, <2>1 DEF Release, ConfirmedFailure, PatchEffect, Patch
  <2> QED
    BY <1>3, <2>2, PatchKeepsInv DEF Release
<1>4. ASSUME NEW k \in Key, NEW b \in Booking, DeliverInsert(k, b) PROVE RegistrarInv'
  BY <1>4, InsertsKeepInv
<1> QED
  BY <1>1, <1>2, <1>3, <1>4 DEF Environment

\* Every step of the system keeps the inductive invariant.
LEMMA StepsKeepInv == RegistrarInv /\ [Next]_vars => RegistrarInv'
<1> SUFFICES ASSUME RegistrarInv, [Next]_vars PROVE RegistrarInv'
  OBVIOUS
<1>1. ASSUME NEW c \in Call, Work(c) PROVE RegistrarInv'
  BY <1>1, ReadsKeepInv, ValidationsKeepInv, InsertsKeepInv, MarksKeepInv
  DEF Work, ReadsOrEnds
<1>2. ASSUME NEW c \in Call, NEW k \in Key, NEW b \in Booking, Start(c, k, b)
      PROVE  RegistrarInv'
  BY <1>2 DEF Start, rowVars, RegistrarInv, TypeOK, Step, Reads, CallInv, RowInv, LateInv,
    OneActivePerBooking, SuccessIsTrue, AtCard, AfterAccept
<1>3. CASE UNCHANGED vars
  BY <1>3 DEF vars, rowVars, callVars, RegistrarInv, TypeOK, CallInv, RowInv, LateInv,
    OneActivePerBooking, SuccessIsTrue
<1> QED
  BY <1>1, <1>2, <1>3, EnvironmentKeepsInv DEF Next, Finished

\* The inductive invariant holds in every reachable state.
LEMMA InvHolds == Spec => []RegistrarInv
<1>1. Init => RegistrarInv
  BY DEF Init, RegistrarInv, TypeOK, Status, Active, Writable, Step, Reads, Result, CallInv,
    RowInv, LateInv, OneActivePerBooking, SuccessIsTrue, AtCard, AfterAccept
<1> QED
  BY <1>1, StepsKeepInv, PTL DEF Spec

-----------------------------------------------------------------------------
\* The variables of the registrar always have their types.
THEOREM TypeCorrect == Spec => []TypeOK
<1>1. RegistrarInv => TypeOK
  BY DEF RegistrarInv
<1> QED
  BY <1>1, InvHolds, PTL

\* No booking ever has two active registrations, for any number of calls and
\* delayed requests (_guarded_patch and the unique indexes).
THEOREM OneActive == Spec => []OneActivePerBooking
<1>1. RegistrarInv => OneActivePerBooking
  BY DEF RegistrarInv
<1> QED
  BY <1>1, InvHolds, PTL

\* A stored card's row is always active, however the answer of Moneris was
\* lost or delayed (_handle_validation_error).
THEOREM CardsKept == Spec => []CardNeverForgotten
<1>1. RegistrarInv => CardNeverForgotten
  BY DEF RegistrarInv, RowInv, CardNeverForgotten, TypeOK, Status
<1> QED
  BY <1>1, InvHolds, PTL

\* Success is only reported of a stored card (_complete_pending).
THEOREM SuccessIsReal == Spec => []SuccessIsTrue
<1>1. RegistrarInv => SuccessIsTrue
  BY DEF RegistrarInv
<1> QED
  BY <1>1, InvHolds, PTL

-----------------------------------------------------------------------------
(* The table implements the ledger.                                        *)

\* What a step may do to the rows: nothing, a new one, or a guarded PATCH.
RowStep ==
  \/ UNCHANGED <<status, owner>>
  \/ \E k \in Key, b \in Booking : Insert(k, b)
  \/ \E k \in Key, new \in {"SUCCEEDED", "FAILED", "RECONCILIATION_REQUIRED"} :
       Patch(k, new) /\ UNCHANGED owner

LEMMA StepsAreRowSteps ==
  ASSUME RegistrarInv, [Next]_vars
  PROVE  RowStep
<1>1. ASSUME NEW c \in Call, Work(c) PROVE RowStep
  <2>1. ReadsOrEnds(c) \/ ValidateAccepted(c) \/ ValidateDeclined(c) \/ ValidateAmbiguous(c)
          => UNCHANGED <<status, owner>>
    BY DEF rowVars, ReadsOrEnds, GetByKey, GetActive, ResolveByKey, ResolveActive, Raced,
      Reread, Recheck, ValidateInvalid, ValidateNoToken, LoseDatabase, Die,
      ValidateAccepted, ValidateDeclined, ValidateAmbiguous
  <2>2. step[c] # "idle" => key[c] \in Key /\ booking[c] \in Booking
    BY DEF RegistrarInv, CallInv
  <2>3. Begin(c) => RowStep
    BY <2>2 DEF Begin, RowStep
  <2>4. MarkSucceeded(c) \/ MarkUnsure(c) \/ MarkFailed(c) \/ MarkHeld(c) => RowStep
    BY <2>2 DEF MarkSucceeded, MarkUnsure, MarkFailed, MarkHeld, Delay, RowStep
  <2> QED
    BY <1>1, <2>1, <2>3, <2>4 DEF Work, ReadsOrEnds, RowStep
<1>2. ASSUME NEW c \in Call, NEW k \in Key, NEW b \in Booking, Start(c, k, b) PROVE RowStep
  BY <1>2 DEF Start, rowVars, RowStep
<1>3. ASSUME NEW k \in Key, Settle(k) PROVE RowStep
  BY <1>3 DEF Settle, rowVars, RowStep
<1>4. ASSUME NEW k \in Key, Release(k) PROVE RowStep
  <2>1. Patch(k, "FAILED") /\ UNCHANGED owner
    BY <1>4 DEF Release, Patch
  <2> QED
    BY <2>1 DEF RowStep
<1>5. ASSUME NEW k \in Key, NEW new \in Status, Deliver(k, new) PROVE RowStep
  BY <1>5 DEF Deliver, RowStep, RegistrarInv, LateInv, Status, Active, Writable
<1>6. ASSUME NEW k \in Key, NEW b \in Booking, DeliverInsert(k, b) PROVE RowStep
  BY <1>6 DEF DeliverInsert, RowStep
<1>7. CASE UNCHANGED vars
  BY <1>7 DEF vars, rowVars, RowStep
<1> QED
  BY <1>1, <1>2, <1>3, <1>4, <1>5, <1>6, <1>7 DEF Next, Environment, Finished

\* A row that exists belongs to a booking.
Owned == \A k \in Key : status[k] # "absent" => owner[k] \in Booking

LEMMA OwnedKept ==
  ASSUME RegistrarInv, Owned, RowStep
  PROVE  Owned'
<1> USE DEF RegistrarInv, TypeOK, Owned
<1>1. CASE UNCHANGED <<status, owner>>
  BY <1>1
<1>2. ASSUME NEW k \in Key, NEW b \in Booking, Insert(k, b) PROVE Owned'
  BY <1>2 DEF Insert
<1>3. ASSUME NEW k \in Key, NEW new \in {"SUCCEEDED", "FAILED", "RECONCILIATION_REQUIRED"},
             Patch(k, new), UNCHANGED owner
      PROVE  Owned'
  BY <1>3 DEF Patch, Writable
<1> QED
  BY <1>1, <1>2, <1>3 DEF RowStep

\* What the ledger sees of the rows.
OpenOf(b) ==
  IF HasActive(b)
  THEN CHOOSE k \in Key : owner[k] = b /\ status[k] \in Active
  ELSE None

VerdictOf(k) ==
  CASE status[k] = "SUCCEEDED" -> "stored" [] status[k] = "FAILED" -> "refused"
    [] OTHER -> "none"

\* The one active row of a booking is the one that is chosen.
LEMMA OnlyChoice ==
  ASSUME NEW own, NEW st, NEW b, NEW k \in Key, own[k] = b /\ st[k] \in Active,
         \A l \in Key : own[l] = b /\ st[l] \in Active => l = k
  PROVE  (CHOOSE l \in Key : own[l] = b /\ st[l] \in Active) = k
OBVIOUS

\* open is the active row of the booking, or None.
LEMMA OpenMeaning ==
  ASSUME RegistrarInv, NEW b
  PROVE  /\ \A k \in Key : owner[k] = b /\ status[k] \in Active => OpenOf(b) = k
         /\ ~HasActive(b) => OpenOf(b) = None
         /\ OpenOf(b) # None => /\ OpenOf(b) \in Key /\ owner[OpenOf(b)] = b
                                /\ status[OpenOf(b)] \in Active
<1>1. ASSUME NEW k \in Key, owner[k] = b, status[k] \in Active PROVE OpenOf(b) = k
  <2>1. \A l \in Key : owner[l] = b /\ status[l] \in Active => l = k
    BY <1>1 DEF RegistrarInv, OneActivePerBooking
  <2>2. HasActive(b)
    BY <1>1 DEF HasActive
  <2> QED
    BY <1>1, <2>1, <2>2, OnlyChoice DEF OpenOf
<1>2. ~HasActive(b) => OpenOf(b) = None
  BY DEF OpenOf
<1> QED
  BY <1>1, <1>2 DEF HasActive

\* The same of the state after a step.
LEMMA OpenMeaningAfter ==
  ASSUME RegistrarInv', NEW b
  PROVE  /\ \A k \in Key : owner'[k] = b /\ status'[k] \in Active => OpenOf(b)' = k
         /\ ~HasActive(b)' => OpenOf(b)' = None
<1>1. ASSUME NEW k \in Key, owner'[k] = b, status'[k] \in Active PROVE OpenOf(b)' = k
  <2>1. \A l \in Key : owner'[l] = b /\ status'[l] \in Active => l = k
    BY <1>1 DEF RegistrarInv, OneActivePerBooking
  <2>2. HasActive(b)'
    BY <1>1 DEF HasActive
  <2> QED
    BY <1>1, <2>1, <2>2, OnlyChoice DEF OpenOf
<1> QED
  BY <1>1 DEF OpenOf

\* Each change of the rows is a step of the ledger, or none.
LEMMA RowStepsAreLedgerSteps ==
  ASSUME RegistrarInv, RegistrarInv', Owned, RowStep
  PROVE  [Ledger!Next]_<<[b \in Booking |-> OpenOf(b)], [k \in Key |-> VerdictOf(k)]>>
<1> DEFINE opens == [b \in Booking |-> OpenOf(b)]
           verdicts == [k \in Key |-> VerdictOf(k)]
<1> USE DEF RegistrarInv, TypeOK
<1>1. CASE UNCHANGED <<status, owner>>
  <2>1. \A b \in Booking : OpenOf(b)' = OpenOf(b)
    BY <1>1 DEF OpenOf, HasActive
  <2>2. \A k \in Key : VerdictOf(k)' = VerdictOf(k)
    BY <1>1 DEF VerdictOf
  <2> QED
    BY <2>1, <2>2
<1>2. ASSUME NEW k \in Key, NEW b \in Booking, Insert(k, b)
      PROVE  Ledger!Open(b, k)
  <2>1. status[k] = "absent" /\ ~HasActive(b) /\ status'[k] = "PENDING" /\ owner'[k] = b
    BY <1>2 DEF Insert
  <2>2. \A l \in Key : l # k => status'[l] = status[l] /\ owner'[l] = owner[l]
    BY <1>2 DEF Insert
  <2>3. OpenOf(b) = None /\ OpenOf(b)' = k
    BY <2>1, OpenMeaning, OpenMeaningAfter DEF Active, Writable
  <2>4. \A c \in Booking : OpenOf(c) # k
    BY <2>1, OpenMeaning, NoneAssumption DEF Active, Writable
  <2>5. ASSUME NEW c \in Booking, c # b PROVE OpenOf(c)' = OpenOf(c)
    <3>1. CASE HasActive(c)
      BY <2>1, <2>2, <3>1, OpenMeaning, OpenMeaningAfter DEF HasActive, Active, Writable
    <3>2. CASE ~HasActive(c)
      BY <2>1, <2>2, <2>5, <3>2, OpenMeaning, OpenMeaningAfter DEF HasActive
    <3> QED
      BY <3>1, <3>2
  <2>6. \A l \in Key : VerdictOf(l)' = VerdictOf(l)
    BY <2>1, <2>2 DEF VerdictOf
  <2>7. VerdictOf(k) = "none"
    BY <2>1 DEF VerdictOf
  <2> HIDE DEF RegistrarInv, TypeOK
  <2>8. opens' = [opens EXCEPT ![b] = k]
    BY <2>3, <2>5
  <2>9. verdicts' = verdicts /\ verdicts[k] = "none" /\ opens[b] = None
    BY <2>3, <2>6, <2>7
  <2>10. \A c \in Booking : opens[c] # k
    BY <2>4
  <2> QED
    BY <2>8, <2>9, <2>10 DEF Ledger!Open, OpenOf, VerdictOf
<1>3. ASSUME NEW k \in Key, NEW new \in {"SUCCEEDED", "FAILED", "RECONCILIATION_REQUIRED"},
             Patch(k, new), UNCHANGED owner
      PROVE  \/ UNCHANGED <<opens, verdicts>>
             \/ \E b \in Booking : Ledger!Store(b) \/ Ledger!Refuse(b)
  <2>0. \A l \in Key : l # k => status'[l] = status[l]
    BY <1>3 DEF Patch
  <2>1. CASE status[k] \notin Writable \/ new = "RECONCILIATION_REQUIRED"
    <3>1. \A l \in Key : /\ status'[l] \in Active <=> status[l] \in Active
                         /\ status'[l] = "SUCCEEDED" <=> status[l] = "SUCCEEDED"
                         /\ status'[l] = "FAILED" <=> status[l] = "FAILED"
      BY <1>3, <2>0, <2>1 DEF Patch, Active, Writable
    <3>2. ASSUME NEW b \in Booking PROVE OpenOf(b)' = OpenOf(b)
      BY <1>3, <3>1, OpenMeaning, OpenMeaningAfter DEF HasActive
    <3>3. \A l \in Key : VerdictOf(l)' = VerdictOf(l)
      BY <3>1 DEF VerdictOf
    <3> QED
      BY <3>2, <3>3
  <2>2. CASE status[k] \in Writable /\ new # "RECONCILIATION_REQUIRED"
    <3>0. PICK b \in Booking : b = owner[k]
      BY <2>2 DEF Owned, Writable
    <3>1. owner[k] = b /\ status[k] \in Active /\ status'[k] = new
      BY <1>3, <2>2, <3>0 DEF Patch, Active, Writable
    <3>2. OpenOf(b) = k /\ VerdictOf(k) = "none"
      BY <2>2, <3>1, OpenMeaning DEF VerdictOf, Writable
    <3>3. ASSUME NEW c \in Booking, c # b PROVE OpenOf(c)' = OpenOf(c)
      <4>1. CASE HasActive(c)
        BY <1>3, <2>0, <3>1, <3>3, <4>1, OpenMeaning, OpenMeaningAfter DEF HasActive
      <4>2. CASE ~HasActive(c)
        BY <1>3, <2>0, <3>1, <3>3, <4>2, OpenMeaning, OpenMeaningAfter DEF HasActive
      <4> QED
        BY <4>1, <4>2
    <3>4. OpenOf(b)' = IF new = "SUCCEEDED" THEN k ELSE None
      <4>1. CASE new = "SUCCEEDED"
        BY <1>3, <3>1, <4>1, OpenMeaningAfter DEF Active
      <4>2. CASE new = "FAILED"
        <5>1. ~HasActive(b)'
          BY <1>3, <2>0, <3>1, <4>2 DEF HasActive, OneActivePerBooking, Active, Writable
        <5> QED
          BY <4>2, <5>1, OpenMeaningAfter
      <4> QED
        BY <2>2, <4>1, <4>2
    <3>5. \A l \in Key : l # k => VerdictOf(l)' = VerdictOf(l)
      BY <2>0 DEF VerdictOf
    <3>6. VerdictOf(k)' = IF new = "SUCCEEDED" THEN "stored" ELSE "refused"
      BY <2>2, <3>1 DEF VerdictOf
    <3> HIDE DEF RegistrarInv, TypeOK
    <3>7. opens[b] = k /\ k # None /\ verdicts[k] = "none"
      BY <3>1, <3>2, NoneAssumption
    <3>8. CASE new = "SUCCEEDED"
      <4>1. opens' = opens
        BY <3>2, <3>3, <3>4, <3>8
      <4>2. verdicts' = [verdicts EXCEPT ![opens[b]] = "stored"]
        BY <3>5, <3>6, <3>7, <3>8
      <4>3. Ledger!Store(b)
        BY <3>7, <4>1, <4>2 DEF Ledger!Store, OpenOf, VerdictOf
      <4> QED
        BY <3>1, <4>3
    <3>9. CASE new = "FAILED"
      <4>1. opens' = [opens EXCEPT ![b] = None]
        BY <3>3, <3>4, <3>9
      <4>2. verdicts' = [verdicts EXCEPT ![opens[b]] = "refused"]
        BY <3>5, <3>6, <3>7, <3>9
      <4>3. Ledger!Refuse(b)
        BY <3>7, <4>1, <4>2 DEF Ledger!Refuse, OpenOf, VerdictOf
      <4> QED
        BY <3>1, <4>3
    <3> QED
      BY <2>2, <3>8, <3>9
  <2> QED
    BY <2>1, <2>2
<1> QED
  BY <1>1, <1>2, <1>3 DEF RowStep, Ledger!Next

\* However calls race and delayed PATCHes arrive, the table behaves as a ledger
\* with one open registration per booking and final verdicts (_guarded_patch,
\* begin_registration).
THEOREM TableImplementsLedger == Spec => ImplementsLedger
<1>1. Init => Ledger!Init
  BY DEF Init, Ledger!Init, HasActive, Active, Writable
<1>2. Init => Owned
  BY DEF Init, Owned
<1>3. RegistrarInv /\ Owned /\ [Next]_vars => Owned'
  BY StepsAreRowSteps, OwnedKept
<1>4. RegistrarInv /\ RegistrarInv' /\ Owned /\ [Next]_vars
        => [Ledger!Next]_<<[b \in Booking |-> OpenOf(b)], [k \in Key |-> VerdictOf(k)]>>
  BY StepsAreRowSteps, RowStepsAreLedgerSteps
<1> QED
  BY <1>1, <1>2, <1>3, <1>4, InvHolds, PTL
  DEF Spec, ImplementsLedger, Ledger!Spec, OpenOf, VerdictOf
=============================================================================
