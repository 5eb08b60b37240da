------------------------- MODULE UniqueReferenceProofs -------------------------
(***************************************************************************)
(* What PublicBooking promises as long as no two reservations share a      *)
(* reference: cancellation reaches its own reservation only, and the store *)
(* implements the calendar of rooms and nights.                            *)
(*                                                                         *)
(* UniqueReference is a hypothesis here and not a theorem: two requests    *)
(* that draw one reference before either is stored break it.  It is not    *)
(* needed for what PublicBookingProofs proves.                             *)
(***************************************************************************)
EXTENDS PublicBookingProofs

-----------------------------------------------------------------------------
(* Whose rows a link reaches.                                              *)

\* Who has a cancellation row has rows.
CredentialNeedsRow == \A r \in Request : credential[r] # "none" => Stored(r)

\* The cancellation row is inserted with the rows, and rows never disappear.
LEMMA StepsKeepCredentials ==
  ASSUME TypeOK, CredentialNeedsRow, [Next]_vars
  PROVE  CredentialNeedsRow'
<1> USE RequestAssumption
<1>1. ASSUME \A s \in Line : status[s] # "absent" => status'[s] # "absent",
             \A r \in Request : credential'[r] # "none" => credential[r] # "none"
      PROVE  CredentialNeedsRow'
  BY <1>1 DEF CredentialNeedsRow, Stored, LinesOf
<1>2. ASSUME UNCHANGED <<status, credential>> PROVE CredentialNeedsRow'
  BY <1>1, <1>2
<1>3. ASSUME NEW r \in Request, Proceed(r) \/ Abandon(r) \/ Fail(r) \/ Expire(r)
      PROVE  CredentialNeedsRow'
  <2>1. CASE Expire(r)
    BY <1>1, <2>1 DEF Expire, TypeOK
  <2>2. CASE CommitCreate(r)
    <3>1. \A s \in Line : status'[s] = IF RequestOf[s] = r THEN "confirmed" ELSE status[s]
      BY <2>2 DEF CommitCreate
    <3>2. \A q \in Request : credential'[q] = IF q = r THEN "live" ELSE credential[q]
      BY <2>2 DEF CommitCreate, TypeOK
    <3> QED
      BY <3>1, <3>2, ItineraryAssumption DEF CredentialNeedsRow, Stored, LinesOf
  <2>3. ASSUME NEW s \in Line, InsertRow(r, s) \/ RefuseRow(r, s) PROVE CredentialNeedsRow'
    BY <1>2, <2>3 DEF InsertRow, RefuseRow, Rollback
  <2>4. CASE BeginCreate(r) \/ BreakDeadlock(r) \/ Fail(r)
    BY <1>2, <2>4 DEF BeginCreate, BreakDeadlock, Fail, Rollback
  <2>5. CASE Validate(r) \/ DrawReference(r) \/ AssignRoom(r) \/ CallCreate(r)
    BY <1>2, <2>5 DEF Validate, DrawReference, AssignRoom, CallCreate, storeVars
  <2>6. CASE SendConfirmation(r) \/ Respond(r) \/ Abandon(r)
    BY <1>2, <2>6 DEF SendConfirmation, Respond, Abandon, storeVars
  <2> QED
    BY <1>3, <2>1, <2>2, <2>3, <2>4, <2>5, <2>6 DEF Proceed
<1>4. ASSUME NEW v \in Visit, PreviewCancel(v) \/ ProceedVisit(v) \/ FailCancel(v)
      PROVE  CredentialNeedsRow'
  <2>1. CASE CommitCancel(v)
    BY <1>1, <2>1 DEF CommitCancel, TypeOK
  <2>2. CASE PreviewCancel(v) \/ BeginCancel(v) \/ FailCancel(v)
    BY <1>2, <2>2 DEF PreviewCancel, BeginCancel, FailCancel, storeVars
  <2> QED
    BY <1>4, <2>1, <2>2 DEF ProceedVisit
<1>5. CASE \E s \in Line : Desk(s)
  BY <1>1, <1>5 DEF Desk, DeskMoves, TypeOK
<1>6. CASE UNCHANGED vars
  BY <1>2, <1>6 DEF vars, storeVars
<1> QED
  BY <1>3, <1>4, <1>5, <1>6 DEF Next, Finished

\* A visit that holds a lock follows the link of a stored reservation.
LockedOnStored ==
  \A v \in Visit : stage[v] = "locked" => target[v] \in Request /\ Stored(target[v])

\* It is so in every reachable state.
LEMMA LockedOnStoredHolds == Spec => []LockedOnStored
<1>1. Init => CredentialNeedsRow
  BY DEF Init, CredentialNeedsRow
<1>2. TypeOK /\ CredentialNeedsRow /\ [Next]_vars => CredentialNeedsRow'
  BY StepsKeepCredentials
<1>3. Init => VisitInv /\ CancelledOnce
  BY DEF Init, VisitInv, CancelledOnce
<1>4. CredentialNeedsRow /\ VisitInv => LockedOnStored
  BY DEF CredentialNeedsRow, VisitInv, LockedOnStored
<1> QED
  BY <1>1, <1>2, <1>3, <1>4, StepsKeepVisits, TypeCorrect, PTL DEF Spec

\* The rows of a reference are those of one request.
LEMMA OneReservationPerReference ==
  ASSUME OneReservationPerKey, UniqueReference, NEW r \in Request, Stored(r)
  PROVE  \A s \in RowsOfReference(r) : RequestOf[s] = r
<1> SUFFICES ASSUME NEW s \in RowsOfReference(r) PROVE RequestOf[s] = r
  OBVIOUS
<1>1. s \in Line /\ status[s] # "absent" /\ ref[RequestOf[s]] = ref[r]
  BY DEF RowsOfReference
<1>2. RequestOf[s] \in Request /\ Stored(RequestOf[s])
  BY <1>1, RequestAssumption DEF Stored, LinesOf
<1> QED
  BY <1>1, <1>2 DEF UniqueReference, OneReservationPerKey

\* What a cancellation does to the rows: open rows of its own target become
\* cancelled, and nothing else changes.
LEMMA CancelReachesItsOwn ==
  ASSUME TypeOK, OneReservationPerKey, UniqueReference, LockedOnStored,
         NEW v \in Visit, CommitCancel(v)
  PROVE  /\ stage[v] = "locked" /\ stage'[v] = "done" /\ target[v] \in Request
         /\ \A s \in Line : \/ status'[s] = status[s]
                            \/ /\ RequestOf[s] = target[v] /\ status[s] # "absent"
                               /\ status'[s] = "cancelled"
<1>1. stage[v] = "locked" /\ target[v] \in Request /\ Stored(target[v])
  BY DEF CommitCancel, LockedOnStored
<1>2. stage'[v] = "done"
  BY DEF CommitCancel, Show, TypeOK
<1>3. ASSUME NEW s \in Line, status'[s] # status[s]
      PROVE  RequestOf[s] = target[v] /\ status[s] # "absent" /\ status'[s] = "cancelled"
  <2>1. s \in RowsOfReference(target[v]) /\ status'[s] = "cancelled"
    BY <1>3 DEF CommitCancel
  <2> QED
    BY <1>1, <2>1, OneReservationPerReference DEF RowsOfReference
<1> QED
  BY <1>1, <1>2, <1>3

\* While references are unique, a row is cancelled only by a visit that followed
\* the link of its own reservation (cancel_public_booking).
THEOREM OwnLinkCancels == Spec /\ []UniqueReference => CancelledByOwnLinkOnly
<1> DEFINE Own == \A s \in Line :
                    (status[s] # "cancelled" /\ status'[s] = "cancelled") =>
                      \E v \in Visit : /\ stage[v] = "locked" /\ stage'[v] = "done"
                                       /\ target[v] = RequestOf[s]
<1>1. ASSUME TypeOK, OneReservationPerKey, UniqueReference, LockedOnStored, [Next]_vars
      PROVE  Own
  <2>1. CASE RowsKept
    BY <2>1 DEF RowsKept, DeskMoves
  <2>2. ASSUME NEW v \in Visit, CommitCancel(v) PROVE Own
    BY <1>1, <2>2, CancelReachesItsOwn
  <2> QED
    BY <1>1, <2>1, <2>2, OthersKeepRows
<1>2. TypeOK /\ OneReservationPerKey /\ UniqueReference /\ LockedOnStored /\ [Next]_vars
        => [Own]_vars
  BY <1>1
<1> QED
  BY <1>2, TypeCorrect, KeysBookOnce, LockedOnStoredHolds, PTL
  DEF Spec, CancelledByOwnLinkOnly

-----------------------------------------------------------------------------
(* The calendar of rooms and nights.                                       *)

\* Two rows that hold one night of a room overlap, so they are one row.
LEMMA OneRowPerNight ==
  ASSUME NoDoubleBooking, NEW m, NEW d \in Nat
  PROVE  \A s, t \in RowsHolding(m, d) : s = t
<1> SUFFICES ASSUME NEW s \in RowsHolding(m, d), NEW t \in RowsHolding(m, d), s # t
             PROVE  FALSE
  OBVIOUS
<1>1. /\ s \in Line /\ t \in Line /\ Blocks(s) /\ Blocks(t)
      /\ roomOf[s] = m /\ roomOf[t] = m
      /\ CheckIn[RequestOf[s]] <= d /\ d < CheckOut[RequestOf[s]]
      /\ CheckIn[RequestOf[t]] <= d /\ d < CheckOut[RequestOf[t]]
  BY DEF RowsHolding
<1>2. /\ CheckIn[RequestOf[s]] \in Nat /\ CheckOut[RequestOf[s]] \in Nat
      /\ CheckIn[RequestOf[t]] \in Nat /\ CheckOut[RequestOf[t]] \in Nat
  BY <1>1, RequestAssumption, StayAssumption
<1>3. Overlap(RequestOf[s], RequestOf[t])
  BY <1>1, <1>2 DEF Overlap
<1> QED
  BY <1>1, <1>3 DEF NoDoubleBooking

\* Nights are days.
LEMMA NightsAreDays == Night \subseteq Nat
<1> SUFFICES ASSUME NEW d \in Night PROVE d \in Nat
  OBVIOUS
<1>1. PICK r \in Request : d \in CheckIn[r] .. (CheckOut[r] - 1)
  BY DEF Night
<1>2. CheckIn[r] \in Nat /\ CheckOut[r] \in Nat
  BY StayAssumption
<1> QED
  BY <1>1, <1>2

\* The one member of a set is the one that is chosen.
LEMMA ChoiceOfOne ==
  ASSUME NEW S, NEW x \in S, \A y \in S : y = x
  PROVE  (CHOOSE y \in S : TRUE) = x
OBVIOUS

\* The holder of a night is the key of the row that holds it.
LEMMA HolderMeaning ==
  ASSUME NoDoubleBooking, NEW m, NEW d \in Nat
  PROVE  /\ \A s \in RowsHolding(m, d) : HolderOf(m, d) = KeyOf[RequestOf[s]]
         /\ RowsHolding(m, d) = {} => HolderOf(m, d) = None
<1>1. ASSUME NEW s \in RowsHolding(m, d)
      PROVE  HolderOf(m, d) = KeyOf[RequestOf[s]]
  <2>1. (CHOOSE t \in RowsHolding(m, d) : TRUE) = s
    BY OneRowPerNight, ChoiceOfOne
  <2> QED
    BY <2>1 DEF HolderOf
<1>2. RowsHolding(m, d) = {} => HolderOf(m, d) = None
  BY DEF HolderOf
<1> QED
  BY <1>1, <1>2

\* The same of the state after a step.
LEMMA HolderMeaningAfter ==
  ASSUME NoDoubleBooking', NEW m, NEW d \in Nat
  PROVE  /\ \A s \in RowsHolding(m, d)' : HolderOf(m, d)' = KeyOf[RequestOf[s]]
         /\ RowsHolding(m, d)' = {} => HolderOf(m, d)' = None
<1>1. ASSUME NEW s \in RowsHolding(m, d)', NEW t \in RowsHolding(m, d)' PROVE s = t
  <2>1. /\ s \in Line /\ t \in Line /\ Blocks(s)' /\ Blocks(t)'
        /\ roomOf'[s] = m /\ roomOf'[t] = m
        /\ CheckIn[RequestOf[s]] <= d /\ d < CheckOut[RequestOf[s]]
        /\ CheckIn[RequestOf[t]] <= d /\ d < CheckOut[RequestOf[t]]
    BY <1>1 DEF RowsHolding
  <2>2. /\ CheckIn[RequestOf[s]] \in Nat /\ CheckOut[RequestOf[s]] \in Nat
        /\ CheckIn[RequestOf[t]] \in Nat /\ CheckOut[RequestOf[t]] \in Nat
    BY <2>1, RequestAssumption, StayAssumption
  <2>3. Overlap(RequestOf[s], RequestOf[t])
    BY <2>1, <2>2 DEF Overlap
  <2> QED
    BY <2>1, <2>3 DEF NoDoubleBooking
<1>2. ASSUME NEW s \in RowsHolding(m, d)'
      PROVE  HolderOf(m, d)' = KeyOf[RequestOf[s]]
  <2>1. (CHOOSE t \in RowsHolding(m, d)' : TRUE) = s
    BY <1>1, ChoiceOfOne
  <2> QED
    BY <2>1 DEF HolderOf
<1> QED
  BY <1>2 DEF HolderOf

\* A night is held by the key of a request, or by nobody.
LEMMA HolderTyped ==
  ASSUME NoDoubleBooking', NEW m, NEW d \in Nat
  PROVE  HolderOf(m, d)' \in Key \cup {None}
<1>1. ASSUME NEW s \in RowsHolding(m, d)' PROVE HolderOf(m, d)' \in Key
  <2>1. s \in Line
    BY DEF RowsHolding
  <2> QED
    BY <2>1, HolderMeaningAfter, RequestAssumption
<1> QED
  BY <1>1, HolderMeaningAfter

\* What the calendar sees: who holds a night, and the keys that have booked.
Holders == [c \in Room \X Night |-> HolderOf(c[1], c[2])]
Booked == {k \in Key : \E r \in Request : KeyOf[r] = k /\ Stored(r)}

\* Nights that pass from one holder to another, one by one.
LEMMA PassesCellwise ==
  ASSUME NoDoubleBooking', NEW from, NEW to,
         \A m \in Room, d \in Night :
           HolderOf(m, d)' # HolderOf(m, d) => HolderOf(m, d) = from /\ HolderOf(m, d)' = to
  PROVE  Calendar!Passes(from, to)
<1>1. \A m \in Room, d \in Night : HolderOf(m, d)' \in Key \cup {None}
  BY HolderTyped, NightsAreDays
<1>2. Holders' = [c \in Room \X Night |-> HolderOf(c[1], c[2])']
  BY DEF Holders
<1>3. Holders' \in [Room \X Night -> Key \cup {None}]
  BY <1>1, <1>2
<1>4. ASSUME NEW c \in Room \X Night, Holders'[c] # Holders[c]
      PROVE  Holders[c] = from /\ Holders'[c] = to
  BY <1>2, <1>4 DEF Holders
<1> QED
  BY <1>3, <1>4 DEF Calendar!Passes, Calendar!Cell, Holders

\* The rows that are visible do not change.
RowsStay ==
  /\ \A s \in Line : status'[s] = status[s]
  /\ \A s \in Line : status[s] # "absent" => roomOf'[s] = roomOf[s]

\* The calendar does not see locks, answers, or rooms that are only chosen.
LEMMA StayingRowsStutter ==
  ASSUME NoDoubleBooking, NoDoubleBooking', RowsStay
  PROVE  UNCHANGED <<Holders, Booked>>
<1>1. ASSUME NEW m \in Room, NEW d \in Night PROVE HolderOf(m, d)' = HolderOf(m, d)
  <2>1. RowsHolding(m, d)' = RowsHolding(m, d) /\ d \in Nat
    BY NightsAreDays DEF RowsStay, RowsHolding, Blocks
  <2>2. CASE RowsHolding(m, d) = {}
    BY <2>1, <2>2, HolderMeaning, HolderMeaningAfter
  <2>3. ASSUME NEW s \in RowsHolding(m, d) PROVE HolderOf(m, d)' = HolderOf(m, d)
    BY <2>1, <2>3, HolderMeaning, HolderMeaningAfter
  <2> QED
    BY <2>2, <2>3
<1>2. Holders' = Holders
  <2>1. Holders' = [c \in Room \X Night |-> HolderOf(c[1], c[2])']
    BY DEF Holders
  <2> QED
    BY <1>1, <2>1 DEF Holders
<1>3. \A r \in Request : Stored(r)' <=> Stored(r)
  BY DEF RowsStay, Stored, LinesOf
<1> QED
  BY <1>2, <1>3 DEF Booked

\* A booking takes free nights, for a key that had none.
LEMMA CommitReserves ==
  ASSUME BookingInv, BookingInv', NEW r \in Request, CommitCreate(r)
  PROVE  Calendar!Reserve(KeyOf[r])
<1> USE RequestAssumption
<1>1. /\ \A s \in Line : status'[s] = IF RequestOf[s] = r THEN "confirmed" ELSE status[s]
      /\ UNCHANGED roomOf /\ pc[r] = "insert"
  BY DEF CommitCreate
<1>2. \A q \in Request : KeyOf[q] = KeyOf[r] => ~Stored(q)
  BY <1>1 DEF BookingInv, FreshKeyInv
<1>3. \A q \in Request : Stored(q)' <=> Stored(q) \/ q = r
  BY <1>1, ItineraryAssumption DEF Stored, LinesOf
<1>4. KeyOf[r] \notin Booked /\ Booked' = Booked \cup {KeyOf[r]}
  BY <1>2, <1>3 DEF Booked
<1>5. ASSUME NEW m \in Room, NEW d \in Night, HolderOf(m, d)' # HolderOf(m, d)
      PROVE  HolderOf(m, d) = None /\ HolderOf(m, d)' = KeyOf[r]
  <2>1. d \in Nat
    BY NightsAreDays
  <2>2. RowsHolding(m, d) \subseteq RowsHolding(m, d)'
    <3>1. \A s \in Line : Blocks(s) => RequestOf[s] # r
      BY <1>2 DEF Blocks, Stored, LinesOf
    <3> QED
      BY <1>1, <3>1 DEF RowsHolding, Blocks
  <2>3. RowsHolding(m, d) = {}
    BY <1>5, <2>1, <2>2, HolderMeaning, HolderMeaningAfter DEF BookingInv
  <2>4. PICK s \in RowsHolding(m, d)' : TRUE
    BY <1>5, <2>1, <2>3, HolderMeaning, HolderMeaningAfter DEF BookingInv
  <2>5. RequestOf[s] = r
    BY <1>1, <2>3 DEF RowsHolding, Blocks
  <2> QED
    BY <2>1, <2>3, <2>4, <2>5, HolderMeaning, HolderMeaningAfter DEF BookingInv
<1>6. Calendar!Passes(None, KeyOf[r])
  BY <1>5, PassesCellwise DEF BookingInv
<1> QED
  BY <1>4, <1>6 DEF Calendar!Reserve, Booked

\* Rows of one key that stop blocking give its nights back.
LEMMA FreedRowsRelease ==
  ASSUME BookingInv, BookingInv', NEW k \in Key, UNCHANGED roomOf,
         \A s \in Line : /\ (status'[s] = "absent") <=> (status[s] = "absent")
                         /\ Blocks(s)' => Blocks(s)
                         /\ Blocks(s) /\ ~Blocks(s)' => KeyOf[RequestOf[s]] = k
  PROVE  Calendar!Release(k)
<1>1. \A q \in Request : Stored(q)' <=> Stored(q)
  BY DEF Stored, LinesOf
<1>2. Booked' = Booked
  BY <1>1 DEF Booked
<1>3. ASSUME NEW m \in Room, NEW d \in Night, HolderOf(m, d)' # HolderOf(m, d)
      PROVE  HolderOf(m, d) = k /\ HolderOf(m, d)' = None
  <2>1. d \in Nat
    BY NightsAreDays
  <2>2. RowsHolding(m, d)' \subseteq RowsHolding(m, d)
    BY DEF RowsHolding
  <2>3. RowsHolding(m, d)' = {}
    BY <1>3, <2>1, <2>2, HolderMeaning, HolderMeaningAfter DEF BookingInv
  <2>4. PICK s \in RowsHolding(m, d) : TRUE
    BY <1>3, <2>1, <2>3, HolderMeaning, HolderMeaningAfter DEF BookingInv
  <2>5. Blocks(s) /\ ~Blocks(s)' /\ s \in Line
    BY <2>3 DEF RowsHolding
  <2>6. KeyOf[RequestOf[s]] = k
    BY <2>5
  <2> QED
    BY <2>1, <2>3, <2>6, HolderMeaning, HolderMeaningAfter DEF BookingInv
<1>4. Calendar!Passes(k, None)
  BY <1>3, PassesCellwise DEF BookingInv
<1> QED
  BY <1>2, <1>4 DEF Calendar!Release, Booked

\* Only commits and the desk change the rows that are visible.
LEMMA OthersLeaveRows ==
  ASSUME BookingInv, [Next]_vars
  PROVE  \/ RowsStay
         \/ \E r \in Request : CommitCreate(r)
         \/ \E v \in Visit : CommitCancel(v)
         \/ \E s \in Line : Desk(s)
<1> USE RequestAssumption
<1>1. ASSUME UNCHANGED <<status, roomOf>> PROVE RowsStay
  BY <1>1 DEF RowsStay
<1>2. ASSUME NEW r \in Request, Proceed(r) \/ Abandon(r) \/ Fail(r) \/ Expire(r)
      PROVE  RowsStay \/ CommitCreate(r)
  <2>1. CASE Expire(r) \/ Abandon(r)
    BY <1>1, <2>1 DEF Expire, Abandon, requestVars, storeVars
  <2>2. CASE AssignRoom(r)
    <3>1. UNCHANGED status /\ pc[r] = "assign"
      BY <2>2 DEF AssignRoom, storeVars
    <3>2. ASSUME NEW s \in Line, status[s] # "absent" PROVE roomOf'[s] = roomOf[s]
      <4>1. RequestOf[s] # r
        BY <3>1, <3>2 DEF BookingInv, ProgressInv
      <4> QED
        BY <2>2, <4>1 DEF AssignRoom, NextToAssign, LinesOf, BookingInv, TypeOK
    <3> QED
      BY <3>1, <3>2 DEF RowsStay
  <2>3. ASSUME NEW s \in Line, InsertRow(r, s) \/ RefuseRow(r, s) PROVE RowsStay
    BY <1>1, <2>3 DEF InsertRow, RefuseRow, Rollback, requestVars
  <2>4. CASE BeginCreate(r) \/ BreakDeadlock(r) \/ Fail(r)
    BY <1>1, <2>4 DEF BeginCreate, BreakDeadlock, Fail, Rollback
  <2>5. CASE Validate(r) \/ DrawReference(r) \/ CallCreate(r)
    BY <1>1, <2>5 DEF Validate, DrawReference, CallCreate, storeVars
  <2>6. CASE SendConfirmation(r) \/ Respond(r)
    BY <1>1, <2>6 DEF SendConfirmation, Respond, storeVars
  <2> QED
    BY <1>2, <2>1, <2>2, <2>3, <2>4, <2>5, <2>6 DEF Proceed
<1>3. ASSUME NEW v \in Visit, PreviewCancel(v) \/ BeginCancel(v) \/ FailCancel(v)
      PROVE  RowsStay
  BY <1>1, <1>3 DEF PreviewCancel, BeginCancel, FailCancel, storeVars, requestVars
<1>4. CASE UNCHANGED vars
  BY <1>1, <1>4 DEF vars, storeVars, requestVars
<1> QED
  BY <1>2, <1>3, <1>4 DEF Next, Finished, ProceedVisit

\* Every step is a step of the calendar, or none.
LEMMA StepsAreCalendarSteps ==
  ASSUME BookingInv, BookingInv', UniqueReference, LockedOnStored, [Next]_vars
  PROVE  [Calendar!Next]_<<Holders, Booked>>
<1> USE RequestAssumption
<1>1. CASE RowsStay
  BY <1>1, StayingRowsStutter DEF BookingInv
<1>2. ASSUME NEW r \in Request, CommitCreate(r) PROVE Calendar!Next
  <2>1. Calendar!Reserve(KeyOf[r])
    BY <1>2, CommitReserves
  <2> QED
    BY <2>1 DEF Calendar!Next
<1>3. ASSUME NEW v \in Visit, CommitCancel(v) PROVE Calendar!Next
  <2>1. /\ target[v] \in Request
        /\ \A s \in Line : \/ status'[s] = status[s]
                           \/ /\ RequestOf[s] = target[v] /\ status[s] # "absent"
                              /\ status'[s] = "cancelled"
    BY <1>3, CancelReachesItsOwn DEF BookingInv
  <2>2. UNCHANGED roomOf
    BY <1>3 DEF CommitCancel, requestVars
  <2>3. Calendar!Release(KeyOf[target[v]])
    BY <2>1, <2>2, FreedRowsRelease DEF Blocks
  <2> QED
    BY <2>1, <2>3 DEF Calendar!Next
<1>4. ASSUME NEW s \in Line, Desk(s) PROVE Calendar!Next
  <2>1. UNCHANGED roomOf
    BY <1>4 DEF Desk, requestVars
  <2>2. \A t \in Line :
          \/ status'[t] = status[t]
          \/ /\ t = s /\ status[t] \in {"confirmed", "checked_in"}
             /\ status'[t] \in {"checked_in", "no_show", "checked_out"}
    BY <1>4 DEF Desk, DeskMoves, BookingInv, TypeOK
  <2>3. Calendar!Release(KeyOf[RequestOf[s]])
    BY <2>1, <2>2, FreedRowsRelease DEF Blocks
  <2> QED
    BY <2>3 DEF Calendar!Next
<1> QED
  BY <1>1, <1>2, <1>3, <1>4, OthersLeaveRows

\* While references are unique, the store behaves as a calendar: bookings are
\* all-or-nothing, once per key and on free nights only, and nights are given
\* back by their own key only (create_public_booking, cancel_public_booking).
THEOREM StoreImplementsCalendar == Spec /\ []UniqueReference => ImplementsCalendar
<1>1. Init => Calendar!Init
  <2> SUFFICES ASSUME Init PROVE Calendar!Init
    OBVIOUS
  <2>1. \A m, d : HolderOf(m, d) = None
    BY DEF Init, HolderOf, RowsHolding, Blocks
  <2>2. \A r \in Request : ~Stored(r)
    BY DEF Init, Stored, LinesOf
  <2> QED
    BY <2>1, <2>2 DEF Calendar!Init, Calendar!Cell
<1>2. BookingInv /\ BookingInv' /\ UniqueReference /\ LockedOnStored /\ [Next]_vars
        => [Calendar!Next]_<<Holders, Booked>>
  BY StepsAreCalendarSteps
<1> QED
  BY <1>1, <1>2, InvHolds, LockedOnStoredHolds, PTL
  DEF Spec, ImplementsCalendar, Calendar!Spec, Holders, Booked

-----------------------------------------------------------------------------
(* When references are unique: secrets.token_hex gives requests of         *)
(* different keys different references.                                    *)

DrawsApart ==
  \A r, q \in Request : KeyOf[r] # KeyOf[q] => Draws[r] \cap Draws[q] = {}

\* A request past the draw has a reference of its own draws.
DrawnInv ==
  \A r \in Request :
    \/ ref[r] \in Draws[r]
    \/ pc[r] \notin {"assign", "call", "insert"} /\ ~Stored(r)

\* Only a draw changes a reference, and only a commit stores a request.
LEMMA StepsKeepDrawn ==
  ASSUME BookingInv, DrawnInv, [Next]_vars
  PROVE  DrawnInv'
<1> USE RequestAssumption
<1>1. ASSUME \A q \in Request : ref'[q] = ref[q],
             \A q \in Request : pc'[q] \in {"assign", "call", "insert"}
                                  => pc[q] \in {"assign", "call", "insert"},
             \A q \in Request : Stored(q)' => Stored(q) \/ pc[q] = "insert"
      PROVE  DrawnInv'
  BY <1>1 DEF DrawnInv
<1>2. ASSUME UNCHANGED status PROVE \A q \in Request : Stored(q)' => Stored(q)
  BY <1>2 DEF Stored
<1>3. ASSUME NEW r \in Request, DrawReference(r) PROVE DrawnInv'
  <2>1. pc[r] = "reference" /\ ~Stored(r)
    BY <1>3 DEF DrawReference, BookingInv, ProgressInv, Stored, LinesOf
  <2>2. \A q \in Request : Stored(q)' => Stored(q)
    BY <1>2, <1>3 DEF DrawReference, storeVars
  <2>3. \A q \in Request \ {r} : ref'[q] = ref[q] /\ pc'[q] = pc[q]
    BY <1>3 DEF DrawReference, Goto, End, BookingInv, TypeOK
  <2>4. ref'[r] \in Draws[r] \/ pc'[r] = "done"
    BY <1>3 DEF DrawReference, Goto, End, BookingInv, TypeOK
  <2> QED
    BY <2>1, <2>2, <2>3, <2>4 DEF DrawnInv
<1>4. ASSUME NEW r \in Request, CommitCreate(r) PROVE DrawnInv'
  <2>1. /\ pc[r] = "insert" /\ UNCHANGED ref
        /\ \A s \in Line : status'[s] = IF RequestOf[s] = r THEN "confirmed" ELSE status[s]
    BY <1>4 DEF CommitCreate
  <2>2. \A q \in Request : pc'[q] = pc[q] \/ q = r
    BY <1>4 DEF CommitCreate, Reply, Goto, BookingInv, TypeOK
  <2>3. \A q \in Request : Stored(q)' => Stored(q) \/ pc[q] = "insert"
    BY <2>1 DEF Stored, LinesOf
  <2> QED
    BY <1>1, <2>1, <2>2, <2>3
<1>5. ASSUME NEW r \in Request, Proceed(r) \/ Abandon(r) \/ Fail(r) \/ Expire(r),
             ~DrawReference(r), ~CommitCreate(r)
      PROVE  DrawnInv'
  <2>1. UNCHANGED <<ref, status>>
    BY <1>5 DEF Proceed, Validate, AssignRoom, CallCreate, BeginCreate, BreakDeadlock,
      InsertRow, RefuseRow, SendConfirmation, Respond, Abandon, Fail, Expire, Rollback,
      storeVars, requestVars
  <2>2. ASSUME NEW q \in Request
        PROVE  pc'[q] \in {"assign", "call", "insert"} => pc[q] \in {"assign", "call", "insert"}
    <3>1. CASE Validate(r) \/ AssignRoom(r) \/ CallCreate(r) \/ BeginCreate(r)
      BY <3>1 DEF Validate, AssignRoom, CallCreate, BeginCreate, Reply, Goto, End,
        BookingInv, TypeOK
    <3>2. ASSUME NEW s \in Line, InsertRow(r, s) \/ RefuseRow(r, s)
          PROVE  pc'[q] = pc[q] \/ pc'[q] = "done"
      BY <3>2 DEF InsertRow, RefuseRow, End, requestVars, BookingInv, TypeOK
    <3>3. CASE BreakDeadlock(r) \/ SendConfirmation(r) \/ Respond(r)
      BY <3>3 DEF BreakDeadlock, SendConfirmation, Respond, Goto, End, BookingInv, TypeOK
    <3>4. CASE Abandon(r) \/ Fail(r) \/ Expire(r)
      BY <3>4 DEF Abandon, Fail, Expire, End, requestVars, BookingInv, TypeOK
    <3> QED
      BY <1>5, <3>1, <3>2, <3>3, <3>4 DEF Proceed
  <2> QED
    BY <1>1, <1>2, <2>1, <2>2
<1>6. ASSUME UNCHANGED <<ref, pc>>, \A q \in Request : Stored(q)' => Stored(q)
      PROVE  DrawnInv'
  BY <1>1, <1>6
<1>7. ASSUME NEW v \in Visit, PreviewCancel(v) \/ ProceedVisit(v) \/ FailCancel(v)
      PROVE  DrawnInv'
  <2>1. UNCHANGED <<ref, pc>>
    BY <1>7 DEF PreviewCancel, ProceedVisit, BeginCancel, CommitCancel, FailCancel,
      requestVars
  <2>2. \A q \in Request : Stored(q)' => Stored(q)
    <3>1. CASE UNCHANGED status
      BY <1>2, <3>1
    <3>2. CASE CommitCancel(v)
      BY <3>2 DEF CommitCancel, RowsOfReference, Stored, LinesOf
    <3> QED
      BY <1>7, <3>1, <3>2 DEF PreviewCancel, ProceedVisit, BeginCancel, FailCancel, storeVars
  <2> QED
    BY <1>6, <2>1, <2>2
<1>8. ASSUME NEW s \in Line, Desk(s) PROVE DrawnInv'
  <2>1. \A t \in Line : status'[t] # "absent" => status[t] # "absent"
    BY <1>8 DEF Desk, DeskMoves, BookingInv, TypeOK
  <2> QED
    BY <1>6, <1>8, <2>1 DEF Desk, requestVars, Stored, LinesOf
<1>9. CASE UNCHANGED vars
  BY <1>2, <1>6, <1>9 DEF vars, requestVars, storeVars
<1> QED
  BY <1>3, <1>4, <1>5, <1>7, <1>8, <1>9 DEF Next, Finished

\* References are unique whenever the draws of different keys are: the race of
\* two draws is the only way to a shared reference
\* (main._generate_booking_reference).
THEOREM ApartDrawsAreUnique == ASSUME DrawsApart PROVE Spec => []UniqueReference
<1>1. Init => DrawnInv
  BY DEF Init, DrawnInv, Stored, LinesOf
<1>2. BookingInv /\ DrawnInv /\ [Next]_vars => DrawnInv'
  BY StepsKeepDrawn
<1>3. DrawnInv /\ BookingInv => UniqueReference
  BY DEF DrawsApart, DrawnInv, UniqueReference
<1> QED
  BY <1>1, <1>2, <1>3, InvHolds, PTL DEF Spec

\* With such draws the store is a calendar, without a further hypothesis.
COROLLARY ApartDrawsKeepCalendar ==
  ASSUME DrawsApart PROVE Spec => ImplementsCalendar /\ CancelledByOwnLinkOnly
BY ApartDrawsAreUnique, StoreImplementsCalendar, OwnLinkCancels, PTL
=============================================================================
