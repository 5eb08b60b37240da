------------------------- MODULE PublicBookingProofs -------------------------
(***************************************************************************)
(* Theorems about PublicBooking, for every set of requests, itineraries,   *)
(* rooms, references and visits: the rows, the answers and emails, and     *)
(* cancellation.                                                           *)
(***************************************************************************)
EXTENDS PublicBooking, FiniteSetTheorems, TLAPS

-----------------------------------------------------------------------------
(* Type correctness.                                                       *)

\* Every request step keeps the types.
LEMMA RequestTypes ==
  ASSUME TypeOK, NEW r \in Request, Proceed(r) \/ Abandon(r) \/ Fail(r) \/ Expire(r)
  PROVE  TypeOK'
<1> USE RequestAssumption
<1>1. CASE Validate(r)
  BY <1>1 DEF TypeOK, Validate, Goto, End, Step, PythonStep, storeVars, visitVars
<1>2. CASE DrawReference(r)
  BY <1>2 DEF TypeOK, DrawReference, Goto, End, Step, PythonStep, storeVars, visitVars
<1>3. CASE AssignRoom(r)
  <2>1. UNCHANGED <<original, ref, mail, storeVars, visitVars>>
    BY <1>3 DEF AssignRoom
  <2>2. ASSUME NEW s \in Line, NEW m \in Room,
               roomOf' = [roomOf EXCEPT ![s] = m], UNCHANGED <<pc, outcome>>
        PROVE  TypeOK'
    BY <2>1, <2>2 DEF TypeOK, storeVars, visitVars
  <2>3. ASSUME End(r, "unavailable"), UNCHANGED roomOf
        PROVE  TypeOK'
    BY <2>1, <2>3 DEF TypeOK, End, Step, storeVars, visitVars
  <2> QED
    BY <1>3, <2>2, <2>3 DEF AssignRoom, Available
<1>4. CASE CallCreate(r)
  BY <1>4 DEF TypeOK, CallCreate, Goto, Step, PythonStep, storeVars, visitVars
<1>5. CASE BeginCreate(r)
  BY <1>5 DEF TypeOK, BeginCreate, Reply, Goto, Step, PythonStep, visitVars
<1>6. ASSUME NEW s \in Line, InsertRow(r, s)
      PROVE  TypeOK'
  BY <1>6 DEF TypeOK, InsertRow, requestVars, visitVars
<1>6a. ASSUME NEW s \in Line, RefuseRow(r, s)
       PROVE  TypeOK'
  BY <1>6a DEF TypeOK, RefuseRow, End, Rollback, ReleaseLocks, Step, visitVars
<1>7. CASE CommitCreate(r)
  BY <1>7 DEF TypeOK, CommitCreate, Reply, Goto, ReleaseLocks, Step, PythonStep, Status, visitVars
<1>8. CASE BreakDeadlock(r)
  BY <1>8 DEF TypeOK, BreakDeadlock, End, Rollback, ReleaseLocks, Step, visitVars
<1>9. CASE SendConfirmation(r)
  BY <1>9 DEF TypeOK, SendConfirmation, Goto, Step, PythonStep, storeVars, visitVars
<1>10. CASE Respond(r)
  BY <1>10 DEF TypeOK, Respond, End, Step, storeVars, visitVars
<1>11. CASE Fail(r)
  BY <1>11 DEF TypeOK, Fail, End, Rollback, ReleaseLocks, Step, visitVars
<1>12. CASE Expire(r)
  BY <1>12 DEF TypeOK, Expire, requestVars, visitVars
<1>13. CASE Abandon(r)
  BY <1>13 DEF TypeOK, Abandon, storeVars, visitVars
<1> QED
  BY <1>1, <1>2, <1>3, <1>4, <1>5, <1>6, <1>6a, <1>7, <1>8, <1>9, <1>10, <1>11, <1>12, <1>13
  DEF Proceed

\* Every cancellation step keeps the types.
LEMMA VisitTypes ==
  ASSUME TypeOK, NEW v \in Visit, PreviewCancel(v) \/ ProceedVisit(v) \/ FailCancel(v)
  PROVE  TypeOK'
<1>1. CASE PreviewCancel(v)
  BY <1>1 DEF TypeOK, PreviewCancel, Show, requestVars, storeVars
<1>2. CASE BeginCancel(v)
  BY <1>2 DEF TypeOK, BeginCancel, Show, requestVars, storeVars
<1>3. CASE CommitCancel(v)
  BY <1>3 DEF TypeOK, CommitCancel, Show, Status, requestVars
<1>4. CASE FailCancel(v)
  BY <1>4 DEF TypeOK, FailCancel, Show, requestVars, storeVars
<1> QED
  BY <1>1, <1>2, <1>3, <1>4 DEF ProceedVisit

\* Every step of the system keeps the types.
LEMMA StepTypes == TypeOK /\ [Next]_vars => TypeOK'
<1> SUFFICES ASSUME TypeOK, [Next]_vars PROVE TypeOK'
  OBVIOUS
<1>1. CASE \E s \in Line : Desk(s)
  BY <1>1 DEF TypeOK, Desk, DeskMoves, Status, requestVars, visitVars
<1>2. CASE UNCHANGED vars
  BY <1>2 DEF TypeOK, vars, requestVars, storeVars, visitVars
<1> QED
  BY <1>1, <1>2, RequestTypes, VisitTypes DEF Next, Finished

\* The variables of the booking system always have their types.
THEOREM TypeCorrect == Spec => []TypeOK
<1>1. Init => TypeOK
  BY DEF Init, TypeOK, Step, PythonStep, Status
<1> QED
  BY <1>1, StepTypes, PTL DEF Spec

-----------------------------------------------------------------------------
(* The effects a step can have on the rows, the rooms and the locks.       *)

\* The handler advances outside the transaction: the store is as it was.
LocalEffect(r) ==
  /\ UNCHANGED <<roomOf, inserted, status, keyLock, roomLock>>
  /\ \A q \in Request : q # r => pc'[q] = pc[q]
  /\ pc[r] # "insert" /\ pc'[r] # "insert"
  /\ pc'[r] = "call" => pc[r] = "assign" /\ \A s \in LinesOf(r) : roomOf[s] # None
  /\ pc[r] \in {"committed", "respond", "done"} => pc'[r] \in {"committed", "respond", "done"}

\* Line s of a request that is still assigning is given a room.
AssignEffect(r) ==
  /\ UNCHANGED <<pc, inserted, status, keyLock, roomLock>>
  /\ pc[r] = "assign"
  /\ \A s \in Line : RequestOf[s] # r => roomOf'[s] = roomOf[s]

\* The transaction of r ends without a row.
RollbackEffect(r) ==
  /\ UNCHANGED <<roomOf, status>>
  /\ pc' = [pc EXCEPT ![r] = "done"]
  /\ inserted' = [s \in Line |-> IF RequestOf[s] = r THEN FALSE ELSE inserted[s]]
  /\ ReleaseLocks(r)

\* A step outside the booking transactions that can only free rooms.
FreeEffect ==
  /\ UNCHANGED <<pc, roomOf, inserted, keyLock, roomLock>>
  /\ status' \in [Line -> Status]
  /\ \A s \in Line : Blocks(s)' => Blocks(s)
  /\ \A s \in Line : (status'[s] = "absent") <=> (status[s] = "absent")

\* The handler works outside the transaction.
LEMMA LocalKeepsInv ==
  ASSUME BookingInv, TypeOK', NEW r \in Request, LocalEffect(r)
  PROVE  BookingInv'
<1> USE RequestAssumption
<1>1. ProgressInv'
  BY DEF BookingInv, TypeOK, ProgressInv, Blocks, Stored, LinesOf, Overlap,
    LocalEffect
<1>2. LockInv'
  BY DEF BookingInv, TypeOK, LockInv, ProgressInv, Blocks, Stored, LinesOf, Overlap,
    LocalEffect
<1>3. FreshKeyInv'
  BY DEF BookingInv, TypeOK, FreshKeyInv, LockInv, Blocks, Stored, LinesOf, Overlap,
    LocalEffect
<1>4. FreeRoomInv'
  BY DEF BookingInv, TypeOK, FreeRoomInv, LockInv, ProgressInv, Blocks, Stored, LinesOf, Overlap,
    LocalEffect
<1>5. NoDoubleBooking'
  BY DEF BookingInv, TypeOK, NoDoubleBooking, FreeRoomInv, ProgressInv, LockInv, Blocks, Stored, LinesOf, Overlap,
    LocalEffect
<1>6. OneReservationPerKey'
  <2>1. \A q \in Request : Stored(q)' => Stored(q)
    BY DEF BookingInv, TypeOK, Stored, LinesOf, LocalEffect
  <2> QED
    BY <2>1 DEF BookingInv, OneReservationPerKey
<1> QED
  BY <1>1, <1>2, <1>3, <1>4, <1>5, <1>6 DEF BookingInv

\* A line is given a room: it has no row yet.
LEMMA AssignKeepsInv ==
  ASSUME BookingInv, TypeOK', NEW r \in Request, AssignEffect(r)
  PROVE  BookingInv'
<1> USE RequestAssumption
<1>1. ProgressInv'
  BY DEF BookingInv, TypeOK, ProgressInv, Blocks, Stored, LinesOf, Overlap,
    AssignEffect
<1>2. LockInv'
  BY DEF BookingInv, TypeOK, LockInv, ProgressInv, Blocks, Stored, LinesOf, Overlap,
    AssignEffect
<1>3. FreshKeyInv'
  BY DEF BookingInv, TypeOK, FreshKeyInv, LockInv, Blocks, Stored, LinesOf, Overlap,
    AssignEffect
<1>4. FreeRoomInv'
  <2>1. \A s \in Line : RequestOf[s] = r => ~inserted[s] /\ ~Blocks(s)
    BY DEF BookingInv, LockInv, ProgressInv, Blocks, AssignEffect
  <2>2. \A s \in Line : (Blocks(s)' <=> Blocks(s)) /\ inserted'[s] = inserted[s]
    BY DEF Blocks, AssignEffect
  <2>3. \A s \in Line : RequestOf[s] # r => roomOf'[s] = roomOf[s]
    BY DEF AssignEffect
  <2> QED
    BY <2>1, <2>2, <2>3 DEF BookingInv, FreeRoomInv, Overlap
<1>5. NoDoubleBooking'
  BY DEF BookingInv, TypeOK, NoDoubleBooking, FreeRoomInv, ProgressInv, LockInv, Blocks, Stored, LinesOf, Overlap,
    AssignEffect
<1>6. OneReservationPerKey'
  <2>1. \A q \in Request : Stored(q)' => Stored(q)
    BY DEF BookingInv, TypeOK, Stored, LinesOf, AssignEffect
  <2> QED
    BY <2>1 DEF BookingInv, OneReservationPerKey
<1> QED
  BY <1>1, <1>2, <1>3, <1>4, <1>5, <1>6 DEF BookingInv

\* A transaction ends without a row.
LEMMA RollbackKeepsInv ==
  ASSUME BookingInv, TypeOK', NEW r \in Request, RollbackEffect(r)
  PROVE  BookingInv'
<1> USE RequestAssumption, NoneAssumption
<1>1. ProgressInv'
  BY DEF BookingInv, TypeOK, ProgressInv, Blocks, Stored, LinesOf, Overlap,
    RollbackEffect, ReleaseLocks
<1>2. LockInv'
  <2>1. ASSUME NEW s \in Line, inserted'[s]
        PROVE  pc'[RequestOf[s]] = "insert" /\ roomLock'[roomOf'[s]] = RequestOf[s]
    <3>1. inserted[s] /\ RequestOf[s] # r
      BY <2>1 DEF BookingInv, TypeOK, RollbackEffect, ReleaseLocks
    <3>2. CASE inserted[s]
      <4>1. roomOf[s] \in Room /\ pc[RequestOf[s]] = "insert" /\ roomLock[roomOf[s]] = RequestOf[s]
        BY <3>2 DEF BookingInv, LockInv, ProgressInv
      <4>2. RequestOf[s] # None /\ roomOf' = roomOf /\ pc'[RequestOf[s]] = "insert"
        BY <2>1, <3>1, <4>1 DEF BookingInv, TypeOK, RollbackEffect, ReleaseLocks
      <4> QED
        BY <3>1, <4>1, <4>2 DEF BookingInv, TypeOK, LinesOf, RollbackEffect, ReleaseLocks
    <3> QED
      BY <2>1, <3>1, <3>2 DEF BookingInv, TypeOK, ProgressInv, LinesOf, RollbackEffect, ReleaseLocks
  <2>2. ASSUME NEW q \in Request, pc'[q] = "insert"
        PROVE  keyLock'[KeyOf[q]] = q
    <3>1. q # r /\ pc[q] = "insert"
      BY <2>2 DEF BookingInv, TypeOK, RollbackEffect, ReleaseLocks
    <3>2. keyLock[KeyOf[q]] = q
      BY <3>1 DEF BookingInv, LockInv
    <3> QED
      BY <3>1, <3>2 DEF RollbackEffect, ReleaseLocks
  <2> QED
    BY <2>1, <2>2 DEF LockInv
<1>3. FreshKeyInv'
  BY DEF BookingInv, TypeOK, FreshKeyInv, LockInv, Blocks, Stored, LinesOf, Overlap,
    RollbackEffect, ReleaseLocks
<1>4. FreeRoomInv'
  BY DEF BookingInv, TypeOK, FreeRoomInv, LockInv, ProgressInv, Blocks, Stored, LinesOf, Overlap,
    RollbackEffect, ReleaseLocks
<1>5. NoDoubleBooking'
  BY DEF BookingInv, TypeOK, NoDoubleBooking, FreeRoomInv, ProgressInv, LockInv, Blocks, Stored, LinesOf, Overlap,
    RollbackEffect, ReleaseLocks
<1>6. OneReservationPerKey'
  <2>1. \A q \in Request : Stored(q)' => Stored(q)
    BY DEF BookingInv, TypeOK, Stored, LinesOf, RollbackEffect, ReleaseLocks
  <2> QED
    BY <2>1 DEF BookingInv, OneReservationPerKey
<1> QED
  BY <1>1, <1>2, <1>3, <1>4, <1>5, <1>6 DEF BookingInv

\* Desk and cancellations only free rooms.
LEMMA FreeKeepsInv ==
  ASSUME BookingInv, TypeOK', FreeEffect
  PROVE  BookingInv'
<1> USE RequestAssumption
<1>1. ProgressInv'
  BY DEF BookingInv, TypeOK, ProgressInv, Blocks, Stored, LinesOf, Overlap,
    FreeEffect
<1>2. LockInv'
  BY DEF BookingInv, TypeOK, LockInv, ProgressInv, Blocks, Stored, LinesOf, Overlap,
    FreeEffect
<1>3. FreshKeyInv'
  BY DEF BookingInv, TypeOK, FreshKeyInv, LockInv, Blocks, Stored, LinesOf, Overlap,
    FreeEffect
<1>4. FreeRoomInv'
  BY DEF BookingInv, TypeOK, FreeRoomInv, LockInv, ProgressInv, Blocks, Stored, LinesOf, Overlap,
    FreeEffect
<1>5. NoDoubleBooking'
  BY DEF BookingInv, TypeOK, NoDoubleBooking, FreeRoomInv, ProgressInv, LockInv, Blocks, Stored, LinesOf, Overlap,
    FreeEffect
<1>6. OneReservationPerKey'
  <2>1. \A q \in Request : Stored(q)' => Stored(q)
    BY DEF BookingInv, TypeOK, Stored, LinesOf, FreeEffect
  <2> QED
    BY <2>1 DEF BookingInv, OneReservationPerKey
<1> QED
  BY <1>1, <1>2, <1>3, <1>4, <1>5, <1>6 DEF BookingInv

\* A row is inserted under the lock of its room, which no committed row
\* blocks for these nights.
LEMMA InsertKeepsInv ==
  ASSUME BookingInv, TypeOK', NEW r \in Request, NEW z \in Line, InsertRow(r, z)
  PROVE  BookingInv'
<1> USE RequestAssumption, NoneAssumption
<1>1. ProgressInv'
  BY DEF BookingInv, TypeOK, ProgressInv, Blocks, Stored, LinesOf, Overlap,
    InsertRow, NextToInsert, Busy, BusyWithOwn, requestVars
<1>2. LockInv'
  <2>1. ASSUME NEW s \in Line, inserted'[s]
        PROVE  pc'[RequestOf[s]] = "insert" /\ roomLock'[roomOf'[s]] = RequestOf[s]
    <3>1. inserted[s] \/ s = z
      BY <2>1 DEF BookingInv, TypeOK, InsertRow, NextToInsert, Busy, BusyWithOwn, requestVars
    <3>2. CASE inserted[s]
      <4>1. roomOf[s] \in Room /\ pc[RequestOf[s]] = "insert" /\ roomLock[roomOf[s]] = RequestOf[s]
        BY <3>2 DEF BookingInv, LockInv, ProgressInv
      <4>2. RequestOf[s] # None /\ roomOf' = roomOf /\ pc'[RequestOf[s]] = "insert"
        BY <4>1 DEF InsertRow, requestVars
      <4> QED
        <5>1. roomLock \in [Room -> Request \cup {None}]
          BY DEF BookingInv, TypeOK
        <5>2. roomLock[roomOf[z]] \in {None, r}
          BY DEF InsertRow
        <5>3. roomLock' = [roomLock EXCEPT ![roomOf[z]] = r]
          BY DEF InsertRow
        <5>4. CASE roomOf[s] = roomOf[z]
          BY <4>1, <4>2, <5>1, <5>2, <5>3, <5>4
        <5>5. CASE roomOf[s] # roomOf[z]
          BY <4>1, <4>2, <5>1, <5>3, <5>5
        <5> QED
          BY <5>4, <5>5
    <3> QED
      BY <2>1, <3>1, <3>2 DEF BookingInv, TypeOK, ProgressInv, LinesOf, InsertRow, NextToInsert, Busy, BusyWithOwn, requestVars
  <2>2. ASSUME NEW q \in Request, pc'[q] = "insert"
        PROVE  keyLock'[KeyOf[q]] = q
    <3>1.  pc[q] = "insert"
      BY <2>2 DEF BookingInv, TypeOK, InsertRow, NextToInsert, Busy, BusyWithOwn, requestVars
    <3>2. keyLock[KeyOf[q]] = q
      BY <3>1 DEF BookingInv, LockInv
    <3> QED
      BY <3>1, <3>2 DEF BookingInv, TypeOK, InsertRow, NextToInsert, Busy, BusyWithOwn, requestVars
  <2> QED
    BY <2>1, <2>2 DEF LockInv
<1>3. FreshKeyInv'
  BY DEF BookingInv, TypeOK, FreshKeyInv, LockInv, Blocks, Stored, LinesOf, Overlap,
    InsertRow, NextToInsert, Busy, BusyWithOwn, requestVars
<1>4. FreeRoomInv'
  <2>1. /\ UNCHANGED <<roomOf, status>> /\ RequestOf[z] = r
        /\ \A s \in Line : inserted'[s] => inserted[s] \/ s = z
    BY DEF BookingInv, TypeOK, InsertRow, NextToInsert, LinesOf, requestVars
  <2>2. \A t \in Line : roomOf[t] = roomOf[z] =>
          /\ Blocks(t) => ~Overlap(RequestOf[t], r)
          /\ inserted[t] => RequestOf[t] # r
    BY DEF InsertRow, BusyWithOwn, Busy, LinesOf
  <2>3. \A s, t \in Line :
          (inserted'[s] /\ inserted'[t] /\ t # s /\ roomOf[t] = roomOf[s])
            => RequestOf[t] # RequestOf[s]
    BY <2>1, <2>2 DEF BookingInv, FreeRoomInv
  <2>4. \A s, t \in Line :
          (inserted'[s] /\ t # s /\ roomOf[t] = roomOf[s] /\ Blocks(t))
            => ~Overlap(RequestOf[t], RequestOf[s])
    BY <2>1, <2>2 DEF BookingInv, FreeRoomInv
  <2> QED
    BY <2>1, <2>3, <2>4 DEF FreeRoomInv, Blocks, Overlap
<1>5. NoDoubleBooking'
  BY DEF BookingInv, TypeOK, NoDoubleBooking, FreeRoomInv, ProgressInv, LockInv, Blocks, Stored, LinesOf, Overlap,
    InsertRow, NextToInsert, Busy, BusyWithOwn, requestVars
<1>6. OneReservationPerKey'
  <2>1. \A q \in Request : Stored(q)' => Stored(q)
    BY DEF BookingInv, TypeOK, Stored, LinesOf, InsertRow, NextToInsert, Busy, BusyWithOwn, requestVars
  <2> QED
    BY <2>1 DEF BookingInv, OneReservationPerKey
<1> QED
  BY <1>1, <1>2, <1>3, <1>4, <1>5, <1>6 DEF BookingInv

\* A transaction opens under the lock of its key, or a replay is answered.
LEMMA BeginKeepsInv ==
  ASSUME BookingInv, TypeOK', NEW r \in Request, BeginCreate(r)
  PROVE  BookingInv'
<1> USE RequestAssumption, NoneAssumption
<1>1. ProgressInv'
  BY DEF BookingInv, TypeOK, ProgressInv, Blocks, Stored, LinesOf, Overlap,
    BeginCreate, Reply, Goto
<1>2. LockInv'
  BY DEF BookingInv, TypeOK, LockInv, ProgressInv, Blocks, Stored, LinesOf, Overlap,
    BeginCreate, Reply, Goto
<1>3. FreshKeyInv'
  BY DEF BookingInv, TypeOK, FreshKeyInv, LockInv, Blocks, Stored, LinesOf, Overlap,
    BeginCreate, Reply, Goto
<1>4. FreeRoomInv'
  BY DEF BookingInv, TypeOK, FreeRoomInv, LockInv, ProgressInv, Blocks, Stored, LinesOf, Overlap,
    BeginCreate, Reply, Goto
<1>5. NoDoubleBooking'
  BY DEF BookingInv, TypeOK, NoDoubleBooking, FreeRoomInv, ProgressInv, LockInv, Blocks, Stored, LinesOf, Overlap,
    BeginCreate, Reply, Goto
<1>6. OneReservationPerKey'
  <2>1. \A q \in Request : Stored(q)' => Stored(q)
    BY DEF BookingInv, TypeOK, Stored, LinesOf, BeginCreate, Reply, Goto
  <2> QED
    BY <2>1 DEF BookingInv, OneReservationPerKey
<1> QED
  BY <1>1, <1>2, <1>3, <1>4, <1>5, <1>6 DEF BookingInv

\* The rows of a transaction become visible: no other transaction holds the
\* locks of their rooms.
LEMMA CommitKeepsInv ==
  ASSUME BookingInv, TypeOK', NEW r \in Request, CommitCreate(r)
  PROVE  BookingInv'
<1> USE RequestAssumption, NoneAssumption
<1>1. ProgressInv'
  BY DEF BookingInv, TypeOK, ProgressInv, Blocks, Stored, LinesOf, Overlap,
    CommitCreate, ReleaseLocks, Reply, Goto
<1>2. LockInv'
  <2>1. ASSUME NEW s \in Line, inserted'[s]
        PROVE  pc'[RequestOf[s]] = "insert" /\ roomLock'[roomOf'[s]] = RequestOf[s]
    <3>1. inserted[s] /\ RequestOf[s] # r
      BY <2>1 DEF BookingInv, TypeOK, CommitCreate, ReleaseLocks, Reply, Goto
    <3>2. CASE inserted[s]
      <4>1. roomOf[s] \in Room /\ pc[RequestOf[s]] = "insert" /\ roomLock[roomOf[s]] = RequestOf[s]
        BY <3>2 DEF BookingInv, LockInv, ProgressInv
      <4>2. RequestOf[s] # None /\ roomOf' = roomOf /\ pc'[RequestOf[s]] = "insert"
        BY <2>1, <3>1, <4>1 DEF BookingInv, TypeOK, CommitCreate, ReleaseLocks, Reply, Goto
      <4> QED
        BY <3>1, <4>1, <4>2 DEF BookingInv, TypeOK, LinesOf, CommitCreate, ReleaseLocks, Reply, Goto
    <3> QED
      BY <2>1, <3>1, <3>2 DEF BookingInv, TypeOK, ProgressInv, LinesOf, CommitCreate, ReleaseLocks, Reply, Goto
  <2>2. ASSUME NEW q \in Request, pc'[q] = "insert"
        PROVE  keyLock'[KeyOf[q]] = q
    <3>1. q # r /\ pc[q] = "insert"
      BY <2>2 DEF BookingInv, TypeOK, CommitCreate, ReleaseLocks, Reply, Goto
    <3>2. keyLock[KeyOf[q]] = q
      BY <3>1 DEF BookingInv, LockInv
    <3> QED
      BY <3>1, <3>2 DEF CommitCreate, ReleaseLocks
  <2> QED
    BY <2>1, <2>2 DEF LockInv
<1>3. FreshKeyInv'
  BY DEF BookingInv, TypeOK, FreshKeyInv, LockInv, Blocks, Stored, LinesOf, Overlap,
    CommitCreate, ReleaseLocks, Reply, Goto
<1>4. /\ roomOf' = roomOf
      /\ \A s \in Line : RequestOf[s] = r => inserted[s]
      /\ \A s \in Line : inserted'[s] => inserted[s] /\ RequestOf[s] # r
      /\ \A s \in Line : Blocks(s)' => Blocks(s) \/ RequestOf[s] = r
  BY DEF CommitCreate, LinesOf, Blocks, BookingInv, TypeOK
<1>5. ASSUME NEW s \in Line, NEW t \in Line, s # t, roomOf[s] = roomOf[t], inserted[s]
      PROVE  /\ RequestOf[t] # r
             /\ Blocks(t) => ~Overlap(RequestOf[t], RequestOf[s])
  <2>1. CASE RequestOf[t] = r
    <3>1. inserted[t] /\ roomLock[roomOf[t]] = r
      BY <1>4, <2>1 DEF BookingInv, LockInv
    <3>2. roomLock[roomOf[s]] = RequestOf[s]
      BY <1>5 DEF BookingInv, LockInv
    <3> QED
      BY <1>5, <2>1, <3>1, <3>2 DEF BookingInv, FreeRoomInv
  <2>2. CASE RequestOf[t] # r
    BY <1>5, <2>2 DEF BookingInv, FreeRoomInv
  <2> QED
    BY <2>1, <2>2
<1>6. FreeRoomInv'
  <2>1. \A s, t \in Line :
          (inserted[s] /\ inserted[t] /\ s # t /\ roomOf[s] = roomOf[t])
            => RequestOf[t] # RequestOf[s]
    BY DEF BookingInv, FreeRoomInv
  <2> QED
    BY <1>4, <1>5, <2>1 DEF FreeRoomInv, Overlap
<1>7. NoDoubleBooking'
  <2> SUFFICES ASSUME NEW s \in Line, NEW t \in Line, s # t, Blocks(s)', Blocks(t)',
                      roomOf[s] = roomOf[t]
               PROVE  ~Overlap(RequestOf[s], RequestOf[t])
    BY <1>4 DEF NoDoubleBooking, Overlap
  <2>1. CASE RequestOf[s] = r
    BY <1>4, <1>5, <2>1 DEF Overlap
  <2>2. CASE RequestOf[t] = r
    BY <1>4, <1>5, <2>2 DEF Overlap
  <2>3. CASE RequestOf[s] # r /\ RequestOf[t] # r
    BY <1>4, <2>3 DEF BookingInv, NoDoubleBooking
  <2> QED
    BY <2>1, <2>2, <2>3
<1>8. OneReservationPerKey'
  <2>1. \A q \in Request : Stored(q)' => Stored(q) \/ q = r
    BY DEF CommitCreate, Stored, LinesOf, BookingInv, TypeOK
  <2>2. \A q \in Request : KeyOf[q] = KeyOf[r] => ~Stored(q)
    BY DEF CommitCreate, BookingInv, FreshKeyInv
  <2> QED
    BY <2>1, <2>2 DEF BookingInv, OneReservationPerKey
<1> QED
  BY <1>1, <1>2, <1>3, <1>6, <1>7, <1>8 DEF BookingInv

-----------------------------------------------------------------------------
(* Every step has one of the effects.                                      *)

\* What a step of request r does.
RequestEffect(r) ==
  \/ LocalEffect(r) \/ AssignEffect(r) \/ RollbackEffect(r) \/ FreeEffect
  \/ BeginCreate(r) \/ CommitCreate(r) \/ \E s \in Line : InsertRow(r, s)

\* Every step of a request (handle_booking and create_public_booking).
LEMMA RequestStepsHaveEffect ==
  ASSUME BookingInv, TypeOK', NEW r \in Request, Proceed(r) \/ Abandon(r) \/ Fail(r) \/ Expire(r)
  PROVE  RequestEffect(r)
<1> USE RequestAssumption, NoneAssumption DEF RequestEffect
<1>1. ASSUME Validate(r) \/ DrawReference(r) \/ CallCreate(r) PROVE LocalEffect(r)
  BY <1>1 DEF Validate, DrawReference, CallCreate, Goto, End, storeVars, LocalEffect,
    BookingInv, TypeOK
<1>2. ASSUME SendConfirmation(r) \/ Respond(r) PROVE LocalEffect(r)
  BY <1>2 DEF SendConfirmation, Respond, Goto, End, storeVars, LocalEffect, BookingInv, TypeOK
<1>3. ASSUME AssignRoom(r) PROVE AssignEffect(r) \/ LocalEffect(r)
  <2>1. CASE UNCHANGED <<pc, outcome>>
    BY <1>3, <2>1 DEF AssignRoom, NextToAssign, LinesOf, End, storeVars, AssignEffect,
      BookingInv, TypeOK
  <2>2. CASE End(r, "unavailable") /\ UNCHANGED roomOf
    BY <1>3, <2>2 DEF AssignRoom, End, storeVars, LocalEffect, BookingInv, TypeOK
  <2> QED
    BY <1>3, <2>1, <2>2 DEF AssignRoom
<1>4. ASSUME NEW s \in Line, RefuseRow(r, s) PROVE RollbackEffect(r)
  BY <1>4 DEF RefuseRow, End, Rollback, RollbackEffect
<1>5. ASSUME BreakDeadlock(r) \/ Fail(r) PROVE RollbackEffect(r)
  BY <1>5 DEF BreakDeadlock, Fail, End, Rollback, RollbackEffect
<1>6. ASSUME Expire(r) \/ Abandon(r) PROVE FreeEffect
  BY <1>6 DEF Expire, Abandon, requestVars, storeVars, FreeEffect, Blocks, BookingInv, TypeOK
<1> QED
  BY <1>1, <1>2, <1>3, <1>4, <1>5, <1>6 DEF Proceed

\* Every step of a cancellation visit only frees rooms.
LEMMA VisitStepsFreeRooms ==
  ASSUME BookingInv, TypeOK', NEW v \in Visit,
         PreviewCancel(v) \/ ProceedVisit(v) \/ FailCancel(v)
  PROVE  FreeEffect
<1>1. CASE PreviewCancel(v) \/ BeginCancel(v) \/ FailCancel(v)
  BY <1>1 DEF PreviewCancel, BeginCancel, FailCancel, requestVars, storeVars, FreeEffect,
    Blocks, BookingInv, TypeOK
<1>2. CASE CommitCancel(v)
  <2>1. UNCHANGED <<pc, roomOf, inserted, keyLock, roomLock>>
    BY <1>2 DEF CommitCancel, requestVars
  <2>2. \A s \in Line : \/ status'[s] = status[s]
                        \/ status[s] # "absent" /\ Blocks(s) /\ status'[s] = "cancelled"
                        \/ status[s] = "cancelled" /\ status'[s] = "cancelled"
    BY <1>2 DEF CommitCancel, RowsOfReference, Blocks, BookingInv, TypeOK
  <2> QED
    BY <2>1, <2>2 DEF FreeEffect, Blocks, TypeOK
<1> QED
  BY <1>1, <1>2 DEF ProceedVisit

\* Every step of the system.
LEMMA StepsHaveEffect ==
  ASSUME BookingInv, [Next]_vars
  PROVE  TypeOK' /\ (FreeEffect \/ \E r \in Request : RequestEffect(r))
<1>1. TypeOK'
  BY StepTypes DEF BookingInv
<1>2. CASE \E s \in Line : Desk(s)
  BY <1>1, <1>2 DEF Desk, DeskMoves, requestVars, FreeEffect, Blocks, BookingInv, TypeOK
<1>3. CASE UNCHANGED vars
  BY <1>1, <1>3 DEF vars, requestVars, storeVars, FreeEffect, Blocks, TypeOK
<1> QED
  BY <1>1, <1>2, <1>3, RequestStepsHaveEffect, VisitStepsFreeRooms DEF Next, Finished

\* Every step of the system keeps the inductive invariant.
LEMMA StepsKeepInv == BookingInv /\ [Next]_vars => BookingInv'
BY StepsHaveEffect, LocalKeepsInv, AssignKeepsInv, RollbackKeepsInv, FreeKeepsInv,
  BeginKeepsInv, CommitKeepsInv, InsertKeepsInv DEF RequestEffect

\* The inductive invariant holds in every reachable state.
LEMMA InvHolds == Spec => []BookingInv
<1>1. Init => BookingInv
  <2>1. Init => TypeOK
    BY DEF Init, TypeOK, Step, PythonStep, Status
  <2> QED
    BY <2>1, RequestAssumption DEF Init, BookingInv, ProgressInv, LockInv, FreshKeyInv,
      FreeRoomInv, NoDoubleBooking, OneReservationPerKey, Blocks, Stored, LinesOf
<1> QED
  BY <1>1, StepsKeepInv, PTL DEF Spec

\* No room is ever sold twice for one night, for any number of concurrent
\* requests, rooms and itineraries.
THEOREM RoomsNeverDoubleBooked == Spec => []NoDoubleBooking
<1>1. BookingInv => NoDoubleBooking
  BY DEF BookingInv
<1> QED
  BY <1>1, InvHolds, PTL

\* An idempotency key never owns two reservations, for any number of
\* concurrent double clicks and retries.
THEOREM KeysBookOnce == Spec => []OneReservationPerKey
<1>1. BookingInv => OneReservationPerKey
  BY DEF BookingInv
<1> QED
  BY <1>1, InvHolds, PTL

-----------------------------------------------------------------------------
(* Whole reservations.                                                     *)

\* A reservation appears as a whole and never loses a row or its credential.
LEMMA StepsKeepWhole == TypeOK /\ WholeReservation /\ [Next]_vars => WholeReservation'
<1> SUFFICES ASSUME TypeOK, WholeReservation, [Next]_vars PROVE WholeReservation'
  OBVIOUS
<1> USE RequestAssumption
<1>1. ASSUME NEW r \in Request, CommitCreate(r) PROVE WholeReservation'
  <2>1. \A s \in Line : status'[s] = IF RequestOf[s] = r THEN "confirmed" ELSE status[s]
    BY <1>1 DEF CommitCreate
  <2>2. \A q \in Request : credential'[q] = IF q = r THEN "live" ELSE credential[q]
    BY <1>1 DEF CommitCreate, TypeOK
  <2> QED
    BY <2>1, <2>2 DEF WholeReservation, Stored, LinesOf
<1>2. ASSUME \A s \in Line : (status'[s] = "absent") <=> (status[s] = "absent"),
             \A r \in Request : (credential'[r] = "none") <=> (credential[r] = "none")
      PROVE  WholeReservation'
  BY <1>2 DEF WholeReservation, Stored, LinesOf
<1>3. ASSUME UNCHANGED <<status, credential>> PROVE WholeReservation'
  BY <1>2, <1>3
<1>4. ASSUME NEW r \in Request, Proceed(r) \/ Abandon(r) \/ Fail(r) \/ Expire(r)
      PROVE  WholeReservation'
  <2>1. CASE Expire(r)
    BY <1>2, <2>1 DEF Expire, TypeOK
  <2>2. CASE CommitCreate(r)
    BY <1>1, <2>2
  <2>3. ASSUME NEW s \in Line, InsertRow(r, s) \/ RefuseRow(r, s) PROVE WholeReservation'
    BY <1>3, <2>3 DEF InsertRow, RefuseRow, Rollback
  <2>4. CASE BeginCreate(r) \/ BreakDeadlock(r) \/ Fail(r)
    BY <1>3, <2>4 DEF BeginCreate, BreakDeadlock, Fail, Rollback
  <2>5. CASE Validate(r) \/ DrawReference(r) \/ AssignRoom(r) \/ CallCreate(r)
    BY <1>3, <2>5 DEF Validate, DrawReference, AssignRoom, CallCreate, storeVars
  <2>6. CASE SendConfirmation(r) \/ Respond(r) \/ Abandon(r)
    BY <1>3, <2>6 DEF SendConfirmation, Respond, Abandon, storeVars
  <2> QED
    BY <1>4, <2>1, <2>2, <2>3, <2>4, <2>5, <2>6 DEF Proceed
<1>5. ASSUME NEW v \in Visit, PreviewCancel(v) \/ ProceedVisit(v) \/ FailCancel(v)
      PROVE  WholeReservation'
  <2>1. CASE CommitCancel(v)
    BY <1>2, <2>1 DEF CommitCancel, RowsOfReference, TypeOK
  <2>2. CASE PreviewCancel(v) \/ BeginCancel(v) \/ FailCancel(v)
    BY <1>3, <2>2 DEF PreviewCancel, BeginCancel, FailCancel, storeVars
  <2> QED
    BY <1>5, <2>1, <2>2 DEF ProceedVisit
<1>6. CASE \E s \in Line : Desk(s)
  BY <1>2, <1>6 DEF Desk, DeskMoves, TypeOK
<1>7. CASE UNCHANGED vars
  BY <1>3, <1>7 DEF vars, storeVars
<1> QED
  BY <1>4, <1>5, <1>6, <1>7 DEF Next, Finished

\* A reservation is stored with every line and with its cancellation row, or not
\* at all.
THEOREM ReservationsAreWhole == Spec => []WholeReservation
<1>1. Init => WholeReservation
  BY DEF Init, WholeReservation, Stored, LinesOf
<1> QED
  BY <1>1, StepsKeepWhole, TypeCorrect, PTL DEF Spec

-----------------------------------------------------------------------------
(* Answers and emails.                                                     *)

\* Nothing is answered or mailed anew, and no row disappears.
QuietEffect ==
  /\ UNCHANGED <<original, mail>>
  /\ \A s \in Line : status[s] # "absent" => status'[s] # "absent"
  /\ \A q \in Request :
       (pc'[q] \in {"committed", "respond"} \/ outcome'[q] = "stored")
         => (pc[q] \in {"committed", "respond"} \/ outcome[q] = "stored")

\* Steps without an answer keep AnswerInv.
LEMMA QuietKeepsAnswers ==
  ASSUME TypeOK, AnswerInv, QuietEffect PROVE AnswerInv'
<1>1. \A q \in Request : Stored(q) => Stored(q)'
  BY DEF QuietEffect, Stored, LinesOf
<1>2. \A q \in Request : original[q] # None => original[q] \in Request
  BY DEF TypeOK
<1> QED
  BY <1>1, <1>2 DEF QuietEffect, AnswerInv

\* A request that ends with an error is not answered with a reservation.
LEMMA EndAnswersNoStored ==
  ASSUME TypeOK, NEW r \in Request, NEW result \in {"unavailable", "failed"}, End(r, result)
  PROVE  \A q \in Request :
           (pc'[q] \in {"committed", "respond"} \/ outcome'[q] = "stored")
             => (pc[q] \in {"committed", "respond"} \/ outcome[q] = "stored")
<1>1. \A q \in Request : pc'[q] = IF q = r THEN "done" ELSE pc[q]
  BY DEF End, TypeOK
<1>2. \A q \in Request : outcome'[q] = outcome[q] \/ outcome'[q] = result
  BY DEF End, TypeOK
<1> QED
  BY <1>1, <1>2

\* Every step keeps AnswerInv.
LEMMA StepsKeepAnswers ==
  TypeOK /\ OneReservationPerKey /\ AnswerInv /\ [Next]_vars => AnswerInv'
<1> SUFFICES ASSUME TypeOK, OneReservationPerKey, AnswerInv, [Next]_vars PROVE AnswerInv'
  OBVIOUS
<1> USE RequestAssumption, NoneAssumption
<1>1. ASSUME NEW r \in Request, BeginCreate(r) PROVE AnswerInv'
  <2>1. CASE UNCHANGED original /\ Goto(r, "insert")
    <3>1. QuietEffect
      BY <1>1, <2>1 DEF BeginCreate, Goto, QuietEffect, TypeOK
    <3> QED
      BY <3>1, QuietKeepsAnswers
  <2>2. ASSUME NEW q \in Request, KeyOf[q] = KeyOf[r], Stored(q),
               original' = [original EXCEPT ![r] = q], Reply(r)
        PROVE  AnswerInv'
    <3>1. UNCHANGED <<outcome, status, mail>> /\ pc[r] = "call"
      BY <1>1, <2>2 DEF BeginCreate, Reply, Goto
    <3>2. \A p \in Request : Stored(p)' <=> Stored(p)
      BY <3>1 DEF Stored, LinesOf
    <3>3. \A p \in Request : p # r => pc'[p] = pc[p] /\ original'[p] = original[p]
      BY <2>2 DEF Reply, Goto, TypeOK
    <3>4. original'[r] = q
      BY <2>2 DEF TypeOK
    <3>5. mail[r] = "sent" => q = r
      BY <2>2 DEF AnswerInv, OneReservationPerKey
    <3>6. outcome[r] = outcome'[r] /\ mail[r] = mail'[r]
      BY <3>1
    <3>7. ASSUME NEW p \in Request
          PROVE  (/\ original[p] # None => Stored(original[p]) /\ KeyOf[original[p]] = KeyOf[p]
                  /\ pc[p] \in {"committed", "respond"} \/ outcome[p] = "stored"
                       => original[p] # None
                  /\ mail[p] = "sent" => original[p] = p)'
      <4>1. CASE p = r
        BY <2>2, <3>2, <3>4, <3>5, <3>6, <4>1
      <4>2. CASE p # r
        <5>1. original[p] # None => original[p] \in Request
          BY DEF TypeOK
        <5> QED
          BY <3>1, <3>2, <3>3, <4>2, <5>1 DEF AnswerInv
      <4> QED
        BY <4>1, <4>2
    <3> QED
      BY <3>7 DEF AnswerInv
  <2> QED
    BY <1>1, <2>1, <2>2 DEF BeginCreate
<1>2. ASSUME NEW r \in Request, CommitCreate(r) PROVE AnswerInv'
  <2>1. original' = [original EXCEPT ![r] = r] /\ UNCHANGED <<mail, outcome>>
    BY <1>2 DEF CommitCreate, Reply, Goto
  <2>2. \A p \in Request : Stored(p) => Stored(p)'
    BY <1>2 DEF CommitCreate, Stored, LinesOf
  <2>3. Stored(r)'
    BY <1>2, ItineraryAssumption DEF CommitCreate, Stored, LinesOf
  <2>4. \A p \in Request : p # r => pc'[p] = pc[p]
    BY <1>2 DEF CommitCreate, Reply, Goto, TypeOK
  <2>5. \A p \in Request : original'[p] = IF p = r THEN r ELSE original[p]
    BY <2>1 DEF TypeOK
  <2>6. \A p \in Request : original[p] # None => original[p] \in Request
    BY DEF TypeOK
  <2> QED
    BY <2>1, <2>2, <2>3, <2>4, <2>5, <2>6 DEF AnswerInv
<1>3. ASSUME NEW r \in Request, SendConfirmation(r) PROVE AnswerInv'
  <2>1. /\ UNCHANGED <<original, outcome, status>>
        /\ pc' = [pc EXCEPT ![r] = "respond"] /\ pc[r] = "committed"
    BY <1>3 DEF SendConfirmation, Goto, storeVars
  <2>2. \A p \in Request : mail'[p] = "sent" => mail[p] = "sent" \/ (p = r /\ original[r] = r)
    BY <1>3 DEF SendConfirmation, TypeOK
  <2>3. \A p \in Request : Stored(p)' <=> Stored(p)
    BY <2>1 DEF Stored, LinesOf
  <2>4. \A p \in Request : original[p] # None => original[p] \in Request
    BY DEF TypeOK
  <2> QED
    BY <2>1, <2>2, <2>3, <2>4 DEF AnswerInv, TypeOK
<1>4. ASSUME NEW r \in Request, Proceed(r) \/ Abandon(r) \/ Fail(r) \/ Expire(r)
      PROVE  AnswerInv'
  <2>1. CASE Validate(r) \/ DrawReference(r) \/ AssignRoom(r) \/ CallCreate(r)
    <3>1. QuietEffect
      BY <2>1 DEF Validate, DrawReference, AssignRoom, CallCreate, Goto, End, storeVars,
        QuietEffect, TypeOK
    <3> QED
      BY <3>1, QuietKeepsAnswers
  <2>2. ASSUME NEW s \in Line, InsertRow(r, s) \/ RefuseRow(r, s)
        PROVE  AnswerInv'
    <3>1. QuietEffect
      <4>1. CASE InsertRow(r, s)
        BY <4>1 DEF InsertRow, requestVars, QuietEffect
      <4>2. CASE RefuseRow(r, s)
        <5>1. UNCHANGED <<original, mail, status>>
          BY <4>2 DEF RefuseRow, Rollback
        <5>2. End(r, "unavailable")
          BY <4>2 DEF RefuseRow
        <5> QED
          BY <5>1, <5>2, EndAnswersNoStored DEF QuietEffect
      <4> QED
        BY <2>2, <4>1, <4>2
    <3> QED
      BY <3>1, QuietKeepsAnswers
  <2>3. CASE BreakDeadlock(r) \/ Fail(r)
    <3>1. UNCHANGED <<original, mail, status>>
      BY <2>3 DEF BreakDeadlock, Fail, Rollback
    <3>2. End(r, "failed")
      BY <2>3 DEF BreakDeadlock, Fail
    <3>3. QuietEffect
      BY <3>1, <3>2, EndAnswersNoStored DEF QuietEffect
    <3> QED
      BY <3>3, QuietKeepsAnswers
  <2>4. CASE Abandon(r) \/ Expire(r) \/ Respond(r)
    <3>1. QuietEffect
      BY <2>4 DEF Abandon, Expire, Respond, End, storeVars, requestVars, QuietEffect, TypeOK
    <3> QED
      BY <3>1, QuietKeepsAnswers
  <2> QED
    BY <1>1, <1>2, <1>3, <1>4, <2>1, <2>2, <2>3, <2>4 DEF Proceed
<1>5. ASSUME NEW v \in Visit, PreviewCancel(v) \/ ProceedVisit(v) \/ FailCancel(v)
      PROVE  AnswerInv'
  <2>1. UNCHANGED requestVars
    BY <1>5 DEF PreviewCancel, ProceedVisit, BeginCancel, CommitCancel, FailCancel
  <2>2. CASE CommitCancel(v)
    <3>1. \A s \in Line : status[s] # "absent" => status'[s] # "absent"
      BY <2>2 DEF CommitCancel
    <3> QED
      BY <2>1, <3>1, QuietKeepsAnswers DEF requestVars, QuietEffect
  <2>3. CASE PreviewCancel(v) \/ BeginCancel(v) \/ FailCancel(v)
    <3>1. UNCHANGED status
      BY <2>3 DEF PreviewCancel, BeginCancel, FailCancel, storeVars
    <3> QED
      BY <2>1, <3>1, QuietKeepsAnswers DEF requestVars, QuietEffect
  <2> QED
    BY <1>5, <2>2, <2>3 DEF ProceedVisit
<1>6. CASE \E s \in Line : Desk(s)
  <2>1. QuietEffect
    BY <1>6 DEF Desk, DeskMoves, requestVars, QuietEffect, TypeOK
  <2> QED
    BY <2>1, QuietKeepsAnswers
<1>7. CASE UNCHANGED vars
  <2>1. QuietEffect
    BY <1>7 DEF vars, requestVars, storeVars, QuietEffect
  <2> QED
    BY <2>1, QuietKeepsAnswers
<1> QED
  BY <1>4, <1>5, <1>6, <1>7 DEF Next, Finished

\* Answers and emails are about stored reservations in every reachable state.
LEMMA AnswersHold == Spec => []AnswerInv
<1>1. Init => AnswerInv
  BY DEF Init, AnswerInv
<1> QED
  BY <1>1, StepsKeepAnswers, TypeCorrect, KeysBookOnce, PTL DEF Spec

\* Success is answered only with a reservation stored under the request's key.
THEOREM AnswersAreTrue == Spec => []AnswerNamesReservation
<1>1. TypeOK /\ AnswerInv => AnswerNamesReservation
  BY DEF TypeOK, AnswerInv, AnswerNamesReservation
<1> QED
  BY <1>1, AnswersHold, TypeCorrect, PTL

\* However often a booking is repeated under one key, one email is sent at most.
THEOREM OneMailPerKey == Spec => []MailOncePerKey
<1>1. AnswerInv /\ OneReservationPerKey => MailOncePerKey
  BY NoneAssumption DEF AnswerInv, OneReservationPerKey, MailOncePerKey
<1> QED
  BY <1>1, AnswersHold, KeysBookOnce, PTL

-----------------------------------------------------------------------------
(* Cancellation.                                                           *)

\* What a step does to the rows that are not cancelled by it.
RowsKept ==
  \A s \in Line :
    \/ status'[s] = status[s] /\ credential'[RequestOf[s]] = credential[RequestOf[s]]
    \/ /\ credential'[RequestOf[s]] # "used"
       /\ status'[s] = status[s] \/ status'[s] = "confirmed"
    \/ <<status[s], status'[s]>> \in DeskMoves
       /\ credential'[RequestOf[s]] = credential[RequestOf[s]]

\* Steps of requests and of the desk leave open rows open.
LEMMA OthersKeepRows ==
  ASSUME TypeOK, [Next]_vars
  PROVE  RowsKept \/ \E v \in Visit : CommitCancel(v)
<1> USE RequestAssumption
<1>1. ASSUME UNCHANGED <<status, credential>> PROVE RowsKept
  BY <1>1 DEF RowsKept
<1>2. ASSUME NEW r \in Request, Proceed(r) \/ Abandon(r) \/ Fail(r) \/ Expire(r)
      PROVE  RowsKept
  <2>1. CASE Expire(r)
    BY <2>1 DEF Expire, TypeOK, RowsKept
  <2>2. CASE CommitCreate(r)
    <3>1. \A s \in Line : status'[s] = IF RequestOf[s] = r THEN "confirmed" ELSE status[s]
      BY <2>2 DEF CommitCreate
    <3>2. \A q \in Request : credential'[q] = IF q = r THEN "live" ELSE credential[q]
      BY <2>2 DEF CommitCreate, TypeOK
    <3> QED
      BY <3>1, <3>2 DEF RowsKept
  <2>3. ASSUME NEW s \in Line, InsertRow(r, s) \/ RefuseRow(r, s) PROVE RowsKept
    BY <1>1, <2>3 DEF InsertRow, RefuseRow, Rollback
  <2>4. CASE BeginCreate(r) \/ BreakDeadlock(r) \/ Fail(r)
    BY <1>1, <2>4 DEF BeginCreate, BreakDeadlock, Fail, Rollback
  <2>5. CASE Validate(r) \/ DrawReference(r) \/ AssignRoom(r) \/ CallCreate(r)
    BY <1>1, <2>5 DEF Validate, DrawReference, AssignRoom, CallCreate, storeVars
  <2>6. CASE SendConfirmation(r) \/ Respond(r) \/ Abandon(r)
    BY <1>1, <2>6 DEF SendConfirmation, Respond, Abandon, storeVars
  <2> QED
    BY <1>2, <2>1, <2>2, <2>3, <2>4, <2>5, <2>6 DEF Proceed
<1>3. ASSUME NEW v \in Visit, PreviewCancel(v) \/ BeginCancel(v) \/ FailCancel(v)
      PROVE  RowsKept
  BY <1>1, <1>3 DEF PreviewCancel, BeginCancel, FailCancel, storeVars
<1>4. ASSUME NEW s \in Line, Desk(s) PROVE RowsKept
  BY <1>4 DEF Desk, DeskMoves, TypeOK, RowsKept
<1>5. CASE UNCHANGED vars
  BY <1>1, <1>5 DEF vars, storeVars
<1> QED
  BY <1>2, <1>3, <1>4, <1>5 DEF Next, Finished, ProceedVisit

\* A guest who has checked in keeps the room, however stale the preview of the
\* cancellation was (cannot_cancel in cancel_public_booking).
THEOREM GuestsInHouseStay == Spec => StayInProgressKept
<1>1. ASSUME TypeOK, [Next]_vars, NEW s \in Line, status[s] = "checked_in"
      PROVE  status'[s] # "cancelled"
  <2>1. CASE RowsKept
    BY <1>1, <2>1 DEF RowsKept, DeskMoves
  <2>2. ASSUME NEW v \in Visit, CommitCancel(v) PROVE status'[s] # "cancelled"
    BY <1>1, <2>2 DEF CommitCancel, CheckedIn
  <2> QED
    BY <1>1, <2>1, <2>2, OthersKeepRows
<1>2. TypeOK /\ [Next]_vars
        => [\A s \in Line : status[s] = "checked_in" => status'[s] # "cancelled"]_vars
  BY <1>1
<1> QED
  BY <1>2, TypeCorrect, PTL DEF Spec, StayInProgressKept

\* A spent link has freed every room of its reservation, also when two
\* reservations share a reference (cancel_public_booking).
THEOREM SpentLinksFreeRooms == Spec => []SpentCredentialFreesRooms
<1>1. Init => SpentCredentialFreesRooms
  BY RequestAssumption DEF Init, SpentCredentialFreesRooms
<1>2. ASSUME TypeOK, SpentCredentialFreesRooms, [Next]_vars
      PROVE  SpentCredentialFreesRooms'
  <2>1. CASE RowsKept
    BY <1>2, <2>1 DEF RowsKept, SpentCredentialFreesRooms, DeskMoves
  <2>2. ASSUME NEW v \in Visit, CommitCancel(v) PROVE SpentCredentialFreesRooms'
    <3>1. CASE UNCHANGED <<status, credential>>
      BY <1>2, <3>1 DEF SpentCredentialFreesRooms
    <3>2. CASE ~CheckedIn(target[v])
      <4> SUFFICES ASSUME NEW s \in Line, ~UNCHANGED <<status, credential>>,
                          credential'[RequestOf[s]] = "used"
                   PROVE  status'[s] \notin {"confirmed", "checked_in"}
        BY <3>1 DEF SpentCredentialFreesRooms
      <4>1. status'[s] = IF s \in RowsOfReference(target[v])
                              /\ status[s] \notin {"no_show", "checked_out"}
                         THEN "cancelled" ELSE status[s]
        BY <2>2 DEF CommitCancel
      <4>2. \/ credential[RequestOf[s]] = "used"
            \/ ref[RequestOf[s]] = ref[target[v]]
        BY <2>2, RequestAssumption DEF CommitCancel
      <4>3. CASE credential[RequestOf[s]] = "used"
        BY <1>2, <4>1, <4>3 DEF SpentCredentialFreesRooms
      <4>4. CASE ref[RequestOf[s]] = ref[target[v]]
        BY <1>2, <4>1, <4>4 DEF RowsOfReference, TypeOK
      <4> QED
        BY <4>2, <4>3, <4>4
    <3> QED
      BY <2>2, <3>1, <3>2 DEF CommitCancel
  <2> QED
    BY <1>2, <2>1, <2>2, OthersKeepRows
<1> QED
  BY <1>1, <1>2, TypeCorrect, PTL DEF Spec

\* A request whose email may have been sent is past everything that could
\* change its reference or its cancellation row.
Settled == {"respond", "done"}

\* A visit that holds the lock of a reference has a credential that is not
\* spent, and no other visit has that lock; whoever cancelled has spent it.
VisitInv ==
  /\ \A r \in Request : mail[r] = "sent" => pc[r] \in Settled
  /\ \A v \in Visit :
       /\ stage[v] # "done" => answer[v] = "none"
       /\ stage[v] # "idle" => target[v] \in Request /\ pc[target[v]] \in Settled
       /\ stage[v] = "locked" => credential[target[v]] \in {"live", "expired"}
       /\ answer[v] = "cancelled" => credential[target[v]] = "used"
  /\ \A v, w \in Visit :
       (stage[v] = "locked" /\ stage[w] = "locked" /\ v # w)
         => ref[target[v]] # ref[target[w]]

\* No visit moves, and nothing settled changes but by the clock.
SettledKept ==
  /\ UNCHANGED visitVars
  /\ \A q \in Request : pc[q] \in Settled =>
       /\ pc'[q] \in Settled /\ ref'[q] = ref[q]
       /\ \/ credential'[q] = credential[q]
          \/ credential[q] = "live" /\ credential'[q] = "expired"
  /\ \A q \in Request : mail'[q] = "sent" => mail[q] = "sent" \/ pc'[q] = "respond"

\* Steps of requests, of the desk and of the clock change nothing settled.
LEMMA OthersKeepSettled ==
  ASSUME TypeOK, [Next]_vars
  PROVE  \/ SettledKept
         \/ \E v \in Visit : PreviewCancel(v) \/ ProceedVisit(v) \/ FailCancel(v)
<1> USE RequestAssumption DEF Settled
<1>1. ASSUME NEW r \in Request, Proceed(r) \/ Abandon(r) \/ Fail(r) \/ Expire(r)
      PROVE  SettledKept
  <2>1. CASE Expire(r) \/ Abandon(r)
    BY <2>1 DEF Expire, Abandon, TypeOK, SettledKept, requestVars, storeVars
  <2>2. CASE CommitCreate(r)
    BY <2>2 DEF CommitCreate, Reply, Goto, TypeOK, SettledKept
  <2>3. ASSUME NEW s \in Line, InsertRow(r, s) PROVE SettledKept
    BY <2>3 DEF InsertRow, requestVars, SettledKept
  <2>4. ASSUME End(r, "failed") \/ End(r, "unavailable"),
               UNCHANGED <<ref, credential, mail, visitVars>>
        PROVE  SettledKept
    BY <2>4 DEF End, TypeOK, SettledKept
  <2>5. ASSUME NEW s \in Line, RefuseRow(r, s) PROVE SettledKept
    BY <2>4, <2>5 DEF RefuseRow, Rollback
  <2>6. CASE BreakDeadlock(r) \/ Fail(r)
    BY <2>4, <2>6 DEF BreakDeadlock, Fail, Rollback
  <2>7. CASE BeginCreate(r)
    BY <2>7 DEF BeginCreate, Reply, Goto, TypeOK, SettledKept
  <2>8. CASE Validate(r) \/ AssignRoom(r) \/ CallCreate(r)
    <3>1. UNCHANGED <<ref, credential, mail, visitVars>> /\ pc[r] \in {"validate", "assign"}
      BY <2>8 DEF Validate, AssignRoom, CallCreate, storeVars
    <3>2. \A q \in Request : q # r => pc'[q] = pc[q]
      BY <2>8 DEF Validate, AssignRoom, CallCreate, Goto, End, TypeOK
    <3> QED
      BY <3>1, <3>2 DEF SettledKept
  <2>9. CASE DrawReference(r)
    BY <2>9 DEF DrawReference, Goto, End, TypeOK, SettledKept, storeVars
  <2>10. CASE SendConfirmation(r)
    BY <2>10 DEF SendConfirmation, Goto, TypeOK, SettledKept, storeVars
  <2>11. CASE Respond(r)
    BY <2>11 DEF Respond, End, TypeOK, SettledKept, storeVars
  <2> QED
    BY <1>1, <2>1, <2>2, <2>3, <2>5, <2>6, <2>7, <2>8, <2>9, <2>10, <2>11 DEF Proceed
<1>2. ASSUME NEW s \in Line, Desk(s) PROVE SettledKept
  BY <1>2 DEF Desk, requestVars, SettledKept
<1>3. CASE UNCHANGED vars
  BY <1>3 DEF vars, requestVars, storeVars, SettledKept
<1> QED
  BY <1>1, <1>2, <1>3 DEF Next, Finished

\* Every step keeps VisitInv, and only an unspent link is told "cancelled".
LEMMA StepsKeepVisits ==
  TypeOK /\ VisitInv /\ CancelledOnce /\ [Next]_vars => VisitInv' /\ CancelledOnce'
<1> SUFFICES ASSUME TypeOK, VisitInv, CancelledOnce, [Next]_vars
             PROVE  VisitInv' /\ CancelledOnce'
  OBVIOUS
<1>1. CASE SettledKept
  <2>1. \A v \in Visit : answer[v] = "cancelled" => stage[v] # "idle"
    BY DEF VisitInv
  <2> QED
    BY <1>1, <2>1 DEF SettledKept, visitVars, VisitInv, CancelledOnce, Settled
<1>2. ASSUME NEW v \in Visit, PreviewCancel(v) PROVE VisitInv' /\ CancelledOnce'
  <2>1. PICK r \in Request : mail[r] = "sent" /\ target' = [target EXCEPT ![v] = r]
    BY <1>2 DEF PreviewCancel
  <2>2. /\ stage[v] = "idle" /\ stage'[v] \in {"previewed", "done"}
        /\ answer'[v] # "cancelled"
        /\ stage'[v] = "previewed" => answer'[v] = "none"
        /\ \A w \in Visit : w # v => stage'[w] = stage[w] /\ answer'[w] = answer[w]
        /\ UNCHANGED <<pc, mail, credential, ref>>
    BY <1>2 DEF PreviewCancel, Show, TypeOK, VisitInv, requestVars, storeVars
  <2>3. target'[v] = r /\ \A w \in Visit : w # v => target'[w] = target[w]
    BY <2>1 DEF TypeOK
  <2> QED
    BY <2>1, <2>2, <2>3 DEF VisitInv, CancelledOnce
<1>3. ASSUME NEW v \in Visit, BeginCancel(v) \/ FailCancel(v) PROVE VisitInv' /\ CancelledOnce'
  <2>1. UNCHANGED <<pc, mail, credential, ref, target>>
    BY <1>3 DEF BeginCancel, FailCancel, requestVars, storeVars
  <2>2. /\ stage[v] # "idle" /\ stage'[v] \in {"locked", "done"}
        /\ answer'[v] # "cancelled"
        /\ stage'[v] = "locked" => answer'[v] = "none"
        /\ \A w \in Visit : w # v => stage'[w] = stage[w] /\ answer'[w] = answer[w]
    BY <1>3 DEF BeginCancel, FailCancel, Show, TypeOK, VisitInv
  <2>3. stage'[v] = "locked" =>
          /\ credential[target[v]] = "live"
          /\ \A w \in Visit : stage[w] = "locked" => ref[target[w]] # ref[target[v]]
    BY <1>3 DEF BeginCancel, FailCancel, Show, TypeOK
  <2> QED
    BY <2>1, <2>2, <2>3 DEF VisitInv, CancelledOnce
<1>4. ASSUME NEW v \in Visit, CommitCancel(v) PROVE VisitInv' /\ CancelledOnce'
  <2>1. UNCHANGED <<pc, mail, ref, target>> /\ stage[v] = "locked" /\ stage'[v] = "done"
    BY <1>4 DEF CommitCancel, Show, TypeOK, requestVars
  <2>2. \A w \in Visit : w # v => stage'[w] = stage[w] /\ answer'[w] = answer[w]
    BY <1>4 DEF CommitCancel, Show, TypeOK
  <2>3. /\ target[v] \in Request /\ credential[target[v]] \in {"live", "expired"}
        /\ pc[target[v]] \in Settled
    BY <2>1 DEF VisitInv
  <2>4. CASE UNCHANGED credential /\ answer'[v] # "cancelled"
    BY <2>1, <2>2, <2>4 DEF VisitInv, CancelledOnce
  <2>5. CASE credential' = [q \in Request |->
               IF credential[q] # "none" /\ ref[q] = ref[target[v]]
               THEN "used" ELSE credential[q]]
    <3>1. credential'[target[v]] = "used"
      BY <2>3, <2>5
    <3>2. \A q \in Request : credential[q] = "used" => credential'[q] = "used"
      BY <2>5
    <3>3. \A q \in Request : ref[q] # ref[target[v]] => credential'[q] = credential[q]
      BY <2>5
    <3>4. \A w \in Visit :
            answer[w] = "cancelled" => target[w] \in Request /\ target[w] # target[v]
      BY <2>3 DEF VisitInv
    <3> QED
      BY <2>1, <2>2, <2>3, <3>1, <3>2, <3>3, <3>4 DEF VisitInv, CancelledOnce
  <2>6. \/ UNCHANGED credential /\ answer'[v] # "cancelled"
        \/ credential' = [q \in Request |->
              IF credential[q] # "none" /\ ref[q] = ref[target[v]]
              THEN "used" ELSE credential[q]]
    BY <1>4 DEF CommitCancel, Show, TypeOK
  <2> QED
    BY <2>4, <2>5, <2>6
<1> QED
  BY <1>1, <1>2, <1>3, <1>4, OthersKeepSettled DEF ProceedVisit

\* Of the visits that follow one link, one at most is told that it cancelled.
THEOREM LinksCancelOnce == Spec => []CancelledOnce
<1>1. Init => VisitInv /\ CancelledOnce
  BY DEF Init, VisitInv, CancelledOnce
<1> QED
  BY <1>1, StepsKeepVisits, TypeCorrect, PTL DEF Spec

-----------------------------------------------------------------------------
(* Locks.                                                                  *)

\* An advisory lock is held by an open transaction: a key's by one that carries
\* the key, a room's by one that has inserted a row for the room.
LockOwnersInv ==
  /\ \A k \in Key :
       keyLock[k] # None => pc[keyLock[k]] = "insert" /\ KeyOf[keyLock[k]] = k
  /\ \A m \in Room :
       roomLock[m] # None =>
         \E s \in LinesOf(roomLock[m]) : inserted[s] /\ roomOf[s] = m

\* A transaction that ends takes its locks with it.
LEMMA EndKeepsLockOwners ==
  ASSUME BookingInv, LockOwnersInv, NEW r \in Request, ReleaseLocks(r), UNCHANGED roomOf,
         \A q \in Request : q # r => pc'[q] = pc[q],
         \A s \in Line : RequestOf[s] # r => inserted'[s] = inserted[s]
  PROVE  LockOwnersInv'
<1> USE RequestAssumption, NoneAssumption
<1>1. ASSUME NEW k \in Key, keyLock'[k] # None
      PROVE  pc'[keyLock'[k]] = "insert" /\ KeyOf[keyLock'[k]] = k
  <2>1. keyLock'[k] = keyLock[k] /\ keyLock[k] # r
    BY <1>1 DEF ReleaseLocks
  <2>2. keyLock[k] \in Request
    BY <1>1, <2>1 DEF BookingInv, TypeOK
  <2> QED
    BY <1>1, <2>1, <2>2 DEF LockOwnersInv
<1>2. ASSUME NEW m \in Room, roomLock'[m] # None
      PROVE  \E s \in LinesOf(roomLock'[m]) : inserted'[s] /\ roomOf'[s] = m
  <2>1. roomLock'[m] = roomLock[m] /\ roomLock[m] # r
    BY <1>2 DEF ReleaseLocks
  <2> QED
    BY <1>2, <2>1 DEF LockOwnersInv, LinesOf
<1> QED
  BY <1>1, <1>2 DEF LockOwnersInv

\* Every step keeps the owners of the locks.
LEMMA StepsKeepLockOwners ==
  BookingInv /\ LockOwnersInv /\ [Next]_vars => LockOwnersInv'
<1> SUFFICES ASSUME BookingInv, LockOwnersInv, [Next]_vars PROVE LockOwnersInv'
  OBVIOUS
<1> USE RequestAssumption, NoneAssumption
<1>1. CASE FreeEffect
  BY <1>1 DEF FreeEffect, LockOwnersInv, LinesOf
<1>2. ASSUME NEW r \in Request, LocalEffect(r) PROVE LockOwnersInv'
  <2>1. \A k \in Key : keyLock[k] # None => keyLock[k] \in Request /\ keyLock[k] # r
    BY <1>2 DEF LocalEffect, LockOwnersInv, BookingInv, TypeOK
  <2> QED
    BY <1>2, <2>1 DEF LocalEffect, LockOwnersInv, LinesOf
<1>3. ASSUME NEW r \in Request, AssignEffect(r) PROVE LockOwnersInv'
  <2>1. \A s \in Line : inserted[s] => RequestOf[s] # r
    BY <1>3 DEF AssignEffect, BookingInv, LockInv
  <2>2. \A s \in Line : inserted[s] => roomOf'[s] = roomOf[s]
    BY <1>3, <2>1 DEF AssignEffect
  <2> QED
    BY <1>3, <2>2 DEF AssignEffect, LockOwnersInv, LinesOf
<1>4. ASSUME NEW r \in Request, RollbackEffect(r) PROVE LockOwnersInv'
  <2>1. /\ \A q \in Request : q # r => pc'[q] = pc[q]
        /\ \A s \in Line : RequestOf[s] # r => inserted'[s] = inserted[s]
    BY <1>4 DEF RollbackEffect, BookingInv, TypeOK
  <2> QED
    BY <1>4, <2>1, EndKeepsLockOwners DEF RollbackEffect
<1>5. ASSUME NEW r \in Request, CommitCreate(r) PROVE LockOwnersInv'
  <2>1. /\ \A q \in Request : q # r => pc'[q] = pc[q]
        /\ \A s \in Line : RequestOf[s] # r => inserted'[s] = inserted[s]
    BY <1>5 DEF CommitCreate, Reply, Goto, BookingInv, TypeOK
  <2> QED
    BY <1>5, <2>1, EndKeepsLockOwners DEF CommitCreate
<1>6. ASSUME NEW r \in Request, BeginCreate(r) PROVE LockOwnersInv'
  <2>1. /\ UNCHANGED <<roomOf, inserted, roomLock>>
        /\ \A q \in Request : q # r => pc'[q] = pc[q]
        /\ pc[r] = "call"
    BY <1>6 DEF BeginCreate, Reply, Goto, BookingInv, TypeOK
  <2>2. \A k \in Key : keyLock[k] # None => keyLock[k] \in Request /\ keyLock[k] # r
    BY <2>1 DEF LockOwnersInv, BookingInv, TypeOK
  <2>3. CASE UNCHANGED keyLock
    BY <2>1, <2>2, <2>3 DEF LockOwnersInv, LinesOf
  <2>4. CASE keyLock' = [keyLock EXCEPT ![KeyOf[r]] = r] /\ pc'[r] = "insert"
    <3>1. \A k \in Key : keyLock'[k] = IF k = KeyOf[r] THEN r ELSE keyLock[k]
      BY <2>4 DEF BookingInv, TypeOK
    <3> QED
      BY <2>1, <2>2, <2>4, <3>1 DEF LockOwnersInv, LinesOf
  <2>5. \/ UNCHANGED keyLock
        \/ keyLock' = [keyLock EXCEPT ![KeyOf[r]] = r] /\ pc'[r] = "insert"
    BY <1>6 DEF BeginCreate, Goto, BookingInv, TypeOK
  <2> QED
    BY <2>3, <2>4, <2>5
<1>7. ASSUME NEW r \in Request, NEW z \in Line, InsertRow(r, z) PROVE LockOwnersInv'
  <2>1. /\ UNCHANGED <<pc, roomOf, keyLock>> /\ RequestOf[z] = r
        /\ inserted'[z] /\ \A s \in Line : inserted[s] => inserted'[s]
        /\ \A m \in Room : roomLock'[m] = IF m = roomOf[z] THEN r ELSE roomLock[m]
    BY <1>7 DEF InsertRow, NextToInsert, LinesOf, requestVars, BookingInv, TypeOK
  <2> QED
    BY <2>1 DEF LockOwnersInv, LinesOf
<1> QED
  BY <1>1, <1>2, <1>3, <1>4, <1>5, <1>6, <1>7, StepsHaveEffect DEF RequestEffect

\* No advisory lock outlives its transaction: whatever fails, the lock of a key
\* or of a room is held by a request that is inside create_public_booking.
THEOREM LocksDieWithTransactions == Spec => []LockOwnersInv
<1>1. Init => LockOwnersInv
  BY DEF Init, LockOwnersInv
<1> QED
  BY <1>1, StepsKeepLockOwners, InvHolds, PTL DEF Spec

\* Whoever is waited for is itself inside the transaction.
LEMMA HoldersAreOpen ==
  ASSUME BookingInv, LockOwnersInv, NEW m \in Room, roomLock[m] # None
  PROVE  roomLock[m] \in Request /\ pc[roomLock[m]] = "insert"
<1>1. PICK s \in LinesOf(roomLock[m]) : inserted[s] /\ roomOf[s] = m
  BY DEF LockOwnersInv
<1> QED
  BY <1>1 DEF BookingInv, LockInv, TypeOK, LinesOf

\* In a finite set of requests that wait for each other some wait in a cycle:
\* take a smallest set in which everybody waits for a member.
LEMMA WaitersFormCycle ==
  ASSUME IsFiniteSet(Request), NEW W \in SUBSET Request, W # {},
         \A p \in W : \E q \in W : WaitsFor(p, q)
  PROVE  \E r \in W : Deadlocked(r)
<1> DEFINE Closed == {S \in SUBSET W : S # {} /\ \A p \in S : \E q \in S : WaitsFor(p, q)}
           Order  == StrictSubsetOrdering(Request)
<1>1. IsWellFoundedOn(Order, SUBSET Request)
  <2>1. IsWellFoundedOn(Order, FiniteSubsetsOf(Request))
    BY FS_StrictSubsetOrderingWellFounded
  <2> QED
    BY <2>1, FS_FiniteSubsetsOfFinite
<1>2. Closed \subseteq SUBSET Request /\ Closed # {}
  <2>1. W \in Closed
    OBVIOUS
  <2> QED
    BY <2>1
<1>3. PICK S \in Closed : \A T \in Closed : <<T, S>> \notin Order
  <2> HIDE DEF Closed, Order
  <2> QED
    BY <1>1, <1>2, WFMin
<1>4. S \subseteq W /\ S # {} /\ \A p \in S : \E q \in S : WaitsFor(p, q)
  BY <1>3
<1> DEFINE T == {q \in S : \E p \in S : WaitsFor(p, q)}
<1>5. T \in Closed
  BY <1>4
<1>6. T = S
  <2>1. <<T, S>> \notin Order
    BY <1>3, <1>5
  <2>2. T \in SUBSET Request /\ S \in SUBSET Request /\ T \subseteq S
    BY <1>4
  <2> QED
    BY <2>1, <2>2 DEF StrictSubsetOrdering
<1>7. \A q \in S : \E p \in S : WaitsFor(p, q)
  BY <1>6
<1> QED
  BY <1>4, <1>7 DEF Deadlocked

\* A set of natural numbers has a least member: the intervals from 0 to its
\* members have a smallest one.
LEMMA LeastMember ==
  ASSUME NEW S \in SUBSET Nat, S # {}
  PROVE  \E m \in S : \A n \in S : m <= n
<1> DEFINE Order == StrictSubsetOrdering(Nat)
           upTo  == {0 .. n : n \in S}
<1>1. upTo \subseteq FiniteSubsetsOf(Nat) /\ upTo # {}
  <2>1. ASSUME NEW n \in S PROVE 0 .. n \in SUBSET Nat /\ IsFiniteSet(0 .. n)
    BY FS_Interval
  <2> QED
    BY <2>1 DEF FiniteSubsetsOf
<1>2. PICK t \in upTo : \A u \in upTo : <<u, t>> \notin Order
  <2> HIDE DEF upTo, Order
  <2> QED
    BY <1>1, FS_StrictSubsetOrderingWellFounded, WFMin DEF Order
<1>3. PICK m \in S : t = 0 .. m
  OBVIOUS
<1>4. ASSUME NEW n \in S PROVE m <= n
  <2>1. <<0 .. n, 0 .. m>> \notin Order
    BY <1>2, <1>3
  <2>2. 0 .. n \in SUBSET Nat /\ 0 .. m \in SUBSET Nat
    OBVIOUS
  <2>3. n < m => 0 .. n \subseteq 0 .. m /\ m \in 0 .. m /\ m \notin 0 .. n
    OBVIOUS
  <2> QED
    BY <2>1, <2>2, <2>3 DEF StrictSubsetOrdering
<1> QED
  BY <1>4

\* The loop of create_public_booking has a next line until all are inserted.
LEMMA NextLineExists ==
  ASSUME NEW r \in Request, \E s \in LinesOf(r) : ~inserted[s]
  PROVE  \E s \in Line : NextToInsert(r, s)
<1> DEFINE open == {s \in LinesOf(r) : ~inserted[s]}
           places == {Position[s] : s \in open}
<1>1. places \in SUBSET Nat /\ places # {}
  BY RequestAssumption DEF LinesOf
<1>2. PICK s \in open : \A n \in places : Position[s] <= n
  <2> HIDE DEF places
  <2>1. PICK m \in places : \A n \in places : m <= n
    BY <1>1, LeastMember
  <2> QED
    BY <2>1 DEF places
<1> QED
  BY <1>2 DEF NextToInsert, LinesOf

\* Request r is not held up: the lock of its key is free, or it commits, or the
\* lock of its next room is free or its own, or Postgres breaks its cycle.  These
\* are the guards of BeginCreate, CommitCreate, InsertRow and RefuseRow, and
\* BreakDeadlock.
CanMove(r) ==
  \/ pc[r] = "call" /\ keyLock[KeyOf[r]] = None
  \/ pc[r] = "insert" /\ \A s \in LinesOf(r) : inserted[s]
  \/ pc[r] = "insert" /\ \E s \in Line :
       NextToInsert(r, s) /\ roomLock[roomOf[s]] \in {None, r}
  \/ Deadlocked(r)

\* While a request is in or before its transaction some request can move.
SomeoneMoves ==
  (\E r \in Request : pc[r] \in {"call", "insert"}) => \E q \in Request : CanMove(q)

\* Everyone waiting on everyone is always a cycle that Postgres sees: the
\* advisory locks of create_public_booking, taken in the order of the
\* itinerary, cannot leave all open transactions waiting otherwise.
THEOREM LocksNeverStall ==
  ASSUME IsFiniteSet(Request)
  PROVE  Spec => []SomeoneMoves
<1>1. ASSUME BookingInv, LockOwnersInv, NEW r \in Request, pc[r] \in {"call", "insert"},
             \A q \in Request : ~CanMove(q)
      PROVE  FALSE
  <2> DEFINE W == {q \in Request : pc[q] = "insert"}
  <2>1. W # {}
    <3>1. CASE pc[r] = "call"
      <4>1. keyLock[KeyOf[r]] # None /\ KeyOf[r] \in Key
        BY <1>1, <3>1, RequestAssumption DEF CanMove
      <4>2. keyLock[KeyOf[r]] \in Request /\ pc[keyLock[KeyOf[r]]] = "insert"
        BY <1>1, <4>1 DEF BookingInv, TypeOK, LockOwnersInv
      <4> QED
        BY <4>2
    <3> QED
      BY <1>1, <3>1
  <2>2. ASSUME NEW p \in W PROVE \E q \in W : WaitsFor(p, q)
    <3>1. PICK s \in Line : NextToInsert(p, s)
      BY <1>1, NextLineExists DEF CanMove
    <3>2. roomOf[s] \in Room /\ roomLock[roomOf[s]] \notin {None, p}
      BY <1>1, <3>1 DEF CanMove, BookingInv, ProgressInv, NextToInsert, LinesOf
    <3>3. roomLock[roomOf[s]] \in W
      BY <1>1, <3>2, HoldersAreOpen
    <3> QED
      BY <3>1, <3>2, <3>3 DEF WaitsFor
  <2>3. \E q \in W : Deadlocked(q)
    <3> HIDE DEF W
    <3>1. W \in SUBSET Request
      BY DEF W
    <3> QED
      BY <2>1, <2>2, <3>1, WaitersFormCycle
  <2> QED
    BY <1>1, <2>3 DEF CanMove
<1>2. BookingInv /\ LockOwnersInv => SomeoneMoves
  BY <1>1 DEF SomeoneMoves
<1> QED
  BY <1>2, InvHolds, LocksDieWithTransactions, PTL

\* Itineraries of one line each.
SingleRooms == \A s, t \in Line : RequestOf[s] = RequestOf[t] => s = t

\* Bookings of one room never deadlock: whoever waits for a room has locked none.
THEOREM SingleRoomsNeverDeadlock ==
  ASSUME SingleRooms
  PROVE  Spec => [](\A r \in Request : ~Deadlocked(r))
<1>1. ASSUME BookingInv, LockOwnersInv, NEW r \in Request, Deadlocked(r) PROVE FALSE
  <2>1. PICK p \in Request, q \in Request : WaitsFor(p, r) /\ WaitsFor(r, q)
    BY <1>1 DEF Deadlocked
  <2>2. PICK s \in Line : NextToInsert(p, s) /\ roomLock[roomOf[s]] = r
    BY <2>1 DEF WaitsFor
  <2>3. PICK t \in LinesOf(r) : inserted[t]
    <3>1. roomOf[s] \in Room
      BY <1>1, <2>1, <2>2 DEF WaitsFor, NextToInsert, LinesOf, BookingInv, ProgressInv
    <3> QED
      BY <1>1, <2>2, <3>1, NoneAssumption DEF LockOwnersInv
  <2>4. PICK u \in Line : u \in LinesOf(r) /\ ~inserted[u]
    BY <2>1 DEF WaitsFor, NextToInsert
  <2> QED
    BY <2>3, <2>4 DEF SingleRooms, LinesOf
<1>2. BookingInv /\ LockOwnersInv => \A r \in Request : ~Deadlocked(r)
  BY <1>1
<1> QED
  BY <1>2, InvHolds, LocksDieWithTransactions, PTL
=============================================================================
