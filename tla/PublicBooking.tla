---------------------------- MODULE PublicBooking ----------------------------
(***************************************************************************)
(* The public booking funnel under the live_v6 contract: the handlers of   *)
(* POST /api/complete-booking (main.handle_booking) and of                 *)
(* POST /cancel-reservation/<ref> (main.cancel_reservation), and the two   *)
(* Postgres functions they call, create_public_booking and                 *)
(* cancel_public_booking.                                                  *)
(*                                                                         *)
(* Every request is a thread of its own.  The Python part reads committed  *)
(* rows one query at a time; the SQL part is a READ COMMITTED transaction  *)
(* that waits for advisory locks, sees committed rows and its own inserts, *)
(* and makes its inserts visible when it commits.                          *)
(*                                                                         *)
(* A booking row is identified by the itinerary line it was created for,   *)
(* so the room, the reference and the status of a row are functions of     *)
(* the line; a row that was never committed has the status "absent".       *)
(***************************************************************************)
EXTENDS Naturals, FiniteSets

CONSTANTS
  Request,      \* POSTs to /api/complete-booking; a retry is another request
  Line,         \* the room lines of all the itineraries
  RequestOf,    \* RequestOf[s]: the request whose itinerary has line s
  Position,     \* Position[s]: the place of line s in its itinerary
  CheckIn,      \* CheckIn[r], CheckOut[r]: the stay of request r, in days
  CheckOut,
  Key,          \* idempotency keys
  KeyOf,        \* KeyOf[r]: the key request r carries
  Ref,          \* booking references BK-XXXXXX
  Draws,        \* Draws[r]: what secrets.token_hex may return to request r
  Room,         \* physical rooms whose status is bookable
  RoomType,
  TypeOf,       \* TypeOf[m]: the room type of room m
  TypeWanted,   \* TypeWanted[s]: the room type line s asks for
  Visit,        \* POSTs to /cancel-reservation
  None          \* no room, no reference, no request, no lock holder

ASSUME NoneAssumption ==
  /\ None \notin Room
  /\ None \notin Ref
  /\ None \notin Request
  /\ None \notin Key

ASSUME RequestAssumption ==
  /\ RequestOf \in [Line -> Request]
  /\ Position \in [Line -> Nat]
  /\ KeyOf \in [Request -> Key]
  /\ Draws \in [Request -> SUBSET Ref]

\* main._validate_itinerary: an itinerary has a room.
ASSUME ItineraryAssumption == \A r \in Request : \E s \in Line : RequestOf[s] = r

\* main._validate_stay_window: check-out is after check-in.
ASSUME StayAssumption ==
  /\ CheckIn \in [Request -> Nat]
  /\ CheckOut \in [Request -> Nat]
  /\ \A r \in Request : CheckIn[r] < CheckOut[r]

ASSUME TypeAssumption ==
  /\ TypeOf \in [Room -> RoomType]
  /\ TypeWanted \in [Line -> RoomType]

VARIABLES
  pc,         \* pc[r]: where request r is
  outcome,    \* outcome[r]: what the browser was told
  original,   \* original[r]: the request whose reservation r was answered with
  ref,        \* ref[r]: the reference request r drew
  roomOf,     \* roomOf[s]: the physical room pre-selected for line s
  inserted,   \* inserted[s]: line s has a row in an open transaction
  status,     \* status[s]: booking_status of the committed row of line s
  credential, \* credential[r]: the cancellation row request r created
  mail,       \* mail[r]: the confirmation email of request r
  keyLock,    \* keyLock[k]: who holds the advisory lock gml_book:k
  roomLock,   \* roomLock[m]: who holds the advisory lock gml_room:m
  stage,      \* stage[v]: where cancellation visit v is
  target,     \* target[v]: the request whose emailed link v follows
  answer      \* answer[v]: the page visit v was shown

requestVars == <<pc, outcome, original, ref, roomOf, mail>>
storeVars   == <<inserted, status, credential, keyLock, roomLock>>
visitVars   == <<stage, target, answer>>
vars == <<requestVars, storeVars, visitVars>>

Status     == {"absent", "confirmed", "checked_in", "checked_out", "no_show", "cancelled"}
PythonStep == {"validate", "reference", "assign", "call", "committed", "respond"}
Step       == PythonStep \cup {"insert", "done"}

TypeOK ==
  /\ pc \in [Request -> Step]
  /\ outcome \in [Request -> {"pending", "stored", "unavailable", "failed"}]
  /\ original \in [Request -> Request \cup {None}]
  /\ ref \in [Request -> Ref \cup {None}]
  /\ roomOf \in [Line -> Room \cup {None}]
  /\ inserted \in [Line -> BOOLEAN]
  /\ status \in [Line -> Status]
  /\ credential \in [Request -> {"none", "live", "expired", "used"}]
  /\ mail \in [Request -> {"none", "sent"}]
  /\ keyLock \in [Key -> Request \cup {None}]
  /\ roomLock \in [Room -> Request \cup {None}]
  /\ stage \in [Visit -> {"idle", "previewed", "locked", "done"}]
  /\ target \in [Visit -> Request \cup {None}]
  /\ answer \in [Visit -> {"none", "invalid", "cannot_cancel", "cancelled"}]

-----------------------------------------------------------------------------
(* What the queries read.                                                  *)

LinesOf(r) == {s \in Line : RequestOf[s] = r}

\* Mutant: only the arrival day is compared with the other stay.
OverlapByArrival(r, q) == CheckIn[q] <= CheckIn[r] /\ CheckIn[r] < CheckOut[q]

\* Half-open stays: a.check_in < b.check_out and a.check_out > b.check_in.
Overlap(r, q) == CheckIn[r] < CheckOut[q] /\ CheckOut[r] > CheckIn[q]

\* booking_status NOT IN ('cancelled', 'no_show')
Blocks(s) == status[s] \notin {"absent", "cancelled", "no_show"}

\* Room m has a committed blocking row that overlaps the stay of request r.
Busy(m, r) ==
  \E t \in Line : Blocks(t) /\ roomOf[t] = m /\ Overlap(RequestOf[t], r)

\* The rows an open transaction of r sees besides the committed ones.
BusyWithOwn(m, r) ==
  Busy(m, r) \/ \E t \in LinesOf(r) : inserted[t] /\ roomOf[t] = m

Stored(r) == \E s \in LinesOf(r) : status[s] # "absent"

ReferenceTaken(x) == \E r \in Request : Stored(r) /\ ref[r] = x

\* Requested units of a type exceed the remaining ones: inventory less the
\* overlapping blocking bookings, counted per type and not per room.
Short(r) ==
  \E k \in RoomType :
    LET wanted    == {s \in LinesOf(r) : TypeWanted[s] = k}
        inventory == {m \in Room : TypeOf[m] = k}
        overlaps  == {t \in Line : /\ Blocks(t)
                                   /\ TypeOf[roomOf[t]] = k
                                   /\ Overlap(RequestOf[t], r)}
    IN  /\ wanted # {}
        /\ Cardinality(wanted) + Cardinality(overlaps) > Cardinality(inventory)

-----------------------------------------------------------------------------
Init ==
  /\ pc = [r \in Request |-> "validate"]
  /\ outcome = [r \in Request |-> "pending"]
  /\ original = [r \in Request |-> None]
  /\ ref = [r \in Request |-> None]
  /\ roomOf = [s \in Line |-> None]
  /\ inserted = [s \in Line |-> FALSE]
  /\ status = [s \in Line |-> "absent"]
  /\ credential = [r \in Request |-> "none"]
  /\ mail = [r \in Request |-> "none"]
  /\ keyLock = [k \in Key |-> None]
  /\ roomLock = [m \in Room |-> None]
  /\ stage = [v \in Visit |-> "idle"]
  /\ target = [v \in Visit |-> None]
  /\ answer = [v \in Visit |-> "none"]

\* A browser is answered once; whoever gave up before has its error already.
End(r, result) ==
  /\ pc' = [pc EXCEPT ![r] = "done"]
  /\ outcome' = [outcome EXCEPT ![r] = IF @ = "pending" THEN result ELSE @]

Goto(r, step) ==
  /\ pc' = [pc EXCEPT ![r] = step]
  /\ UNCHANGED outcome

\* The RPC returns to its handler, unless nobody waits for it any more.
Reply(r) ==
  Goto(r, IF outcome[r] = "pending" THEN "committed" ELSE "done")

(* The transaction of r ends: its advisory locks are released.             *)
ReleaseLocks(r) ==
  /\ keyLock' = [k \in Key |-> IF keyLock[k] = r THEN None ELSE keyLock[k]]
  /\ roomLock' = [m \in Room |-> IF roomLock[m] = r THEN None ELSE roomLock[m]]

\* Mutant: the rows inserted so far survive the end of the transaction.
RollbackKeepsRows(r) ==
  /\ status' = [s \in Line |->
       IF RequestOf[s] = r /\ inserted[s] THEN "confirmed" ELSE status[s]]
  /\ inserted' = [s \in Line |-> IF RequestOf[s] = r THEN FALSE ELSE inserted[s]]
  /\ ReleaseLocks(r)
  /\ UNCHANGED credential

\* Mutant: session locks on rooms, which the end of the transaction keeps.
RollbackKeepsRoomLocks(r) ==
  /\ inserted' = [s \in Line |-> IF RequestOf[s] = r THEN FALSE ELSE inserted[s]]
  /\ keyLock' = [k \in Key |-> IF keyLock[k] = r THEN None ELSE keyLock[k]]
  /\ UNCHANGED <<status, credential, roomLock>>

(* The transaction of r is rolled back: its rows vanish with its locks.    *)
Rollback(r) ==
  /\ inserted' = [s \in Line |-> IF RequestOf[s] = r THEN FALSE ELSE inserted[s]]
  /\ ReleaseLocks(r)
  /\ UNCHANGED <<status, credential>>

-----------------------------------------------------------------------------
(* POST /api/complete-booking, the Python side.                            *)

\* _validate_itinerary.  A failed overlap query counts no booking at all, so
\* a request may pass whatever the store holds; it is refused only when the
\* query answered and the rooms of a type are short.
Validate(r) ==
  /\ pc[r] = "validate"
  /\ \/ Goto(r, "reference")
     \/ Short(r) /\ End(r, "unavailable")
  /\ UNCHANGED <<original, ref, roomOf, mail, storeVars, visitVars>>

\* _generate_booking_reference: a draw no committed row carries, or a 500
\* after five draws that some row carries already.
DrawReference(r) ==
  /\ pc[r] = "reference"
  /\ \E x \in Draws[r] :
       \/ /\ ~ReferenceTaken(x)
          /\ ref' = [ref EXCEPT ![r] = x]
          /\ Goto(r, "assign")
       \/ /\ ReferenceTaken(x)
          /\ End(r, "failed")
          /\ UNCHANGED ref
  /\ UNCHANGED <<original, roomOf, mail, storeVars, visitVars>>

\* The next line of the itinerary that has no room yet.
NextToAssign(r, s) ==
  /\ s \in LinesOf(r) /\ roomOf[s] = None
  /\ \A t \in LinesOf(r) : roomOf[t] = None => Position[s] <= Position[t]

\* _available_physical_rooms, less the rooms already chosen for this request.
Available(r, s) ==
  {m \in Room : /\ TypeOf[m] = TypeWanted[s]
                /\ ~Busy(m, r)
                /\ \A t \in LinesOf(r) : roomOf[t] # m}

\* _assign_physical_rooms, one line: the query has no ORDER BY, so its first
\* row may be any available room.
AssignRoom(r) ==
  /\ pc[r] = "assign"
  /\ \E s \in Line :
       /\ NextToAssign(r, s)
       /\ \/ \E m \in Available(r, s) : roomOf' = [roomOf EXCEPT ![s] = m]
                                        /\ UNCHANGED <<pc, outcome>>
          \/ Available(r, s) = {} /\ End(r, "unavailable") /\ UNCHANGED roomOf
  /\ UNCHANGED <<original, ref, mail, storeVars, visitVars>>

\* The assignment loop ends and the handler calls the RPC.
CallCreate(r) ==
  /\ pc[r] = "assign"
  /\ \A s \in LinesOf(r) : roomOf[s] # None
  /\ Goto(r, "call")
  /\ UNCHANGED <<original, ref, roomOf, mail, storeVars, visitVars>>

-----------------------------------------------------------------------------
(* create_public_booking, the transaction.                                 *)

\* Mutant: the key is looked up without its lock.
BeginCreateWithoutLock(r) ==
  /\ pc[r] = "call"
  /\ \/ \E q \in Request :
          /\ KeyOf[q] = KeyOf[r] /\ Stored(q)
          /\ original' = [original EXCEPT ![r] = q]
          /\ Reply(r)
     \/ /\ \A q \in Request : KeyOf[q] = KeyOf[r] => ~Stored(q)
        /\ Goto(r, "insert")
        /\ UNCHANGED original
  /\ UNCHANGED <<ref, roomOf, mail, storeVars, visitVars>>

\* Mutant: a replay is answered with the reference of the new request.
BeginCreateEchoesRequest(r) ==
  /\ pc[r] = "call" /\ keyLock[KeyOf[r]] = None
  /\ \/ /\ \E q \in Request : KeyOf[q] = KeyOf[r] /\ Stored(q)
        /\ original' = [original EXCEPT ![r] = r]
        /\ Reply(r)
        /\ UNCHANGED keyLock
     \/ /\ \A q \in Request : KeyOf[q] = KeyOf[r] => ~Stored(q)
        /\ keyLock' = [keyLock EXCEPT ![KeyOf[r]] = r]
        /\ Goto(r, "insert")
        /\ UNCHANGED original
  /\ UNCHANGED <<ref, roomOf, mail, inserted, status, credential, roomLock, visitVars>>

\* The key's advisory lock, then the lookup of the key: the reservation the
\* key already has is the answer, whatever its status, and nothing is written.
BeginCreate(r) ==
  LET k == KeyOf[r] IN
  /\ pc[r] = "call"
  /\ keyLock[k] = None
  /\ \/ \E q \in Request :
          /\ KeyOf[q] = k /\ Stored(q)
          /\ original' = [original EXCEPT ![r] = q]
          /\ Reply(r)
          /\ UNCHANGED keyLock
     \/ /\ \A q \in Request : KeyOf[q] = k => ~Stored(q)
        /\ keyLock' = [keyLock EXCEPT ![k] = r]
        /\ Goto(r, "insert")
        /\ UNCHANGED original
  /\ UNCHANGED <<ref, roomOf, mail, inserted, status, credential, roomLock, visitVars>>

\* The next line of the itinerary in the RPC's loop.
NextToInsert(r, s) ==
  /\ s \in LinesOf(r) /\ ~inserted[s]
  /\ \A t \in LinesOf(r) : ~inserted[t] => Position[s] <= Position[t]

\* Mutant: the loop does not wait for the lock of the room.
InsertRowWithoutLock(r, s) ==
  /\ pc[r] = "insert" /\ NextToInsert(r, s)
  /\ ~BusyWithOwn(roomOf[s], r)
  /\ inserted' = [inserted EXCEPT ![s] = TRUE]
  /\ UNCHANGED <<requestVars, status, credential, keyLock, roomLock, visitVars>>

\* One turn of the loop: wait for the room's advisory lock, look for an
\* overlap, insert.
InsertRow(r, s) ==
  /\ pc[r] = "insert" /\ NextToInsert(r, s)
  /\ roomLock[roomOf[s]] \in {None, r}
  /\ ~BusyWithOwn(roomOf[s], r)
  /\ roomLock' = [roomLock EXCEPT ![roomOf[s]] = r]
  /\ inserted' = [inserted EXCEPT ![s] = TRUE]
  /\ UNCHANGED <<requestVars, status, credential, keyLock, visitVars>>

\* room_unavailable: a room taken since it was pre-selected aborts everything.
RefuseRow(r, s) ==
  /\ pc[r] = "insert" /\ NextToInsert(r, s)
  /\ roomLock[roomOf[s]] \in {None, r}
  /\ BusyWithOwn(roomOf[s], r)
  /\ End(r, "unavailable")
  /\ Rollback(r)
  /\ UNCHANGED <<original, ref, roomOf, mail, visitVars>>

\* The cancellation row is inserted for one of the rows that carry the
\* reference, and the transaction commits: rows and credential appear at once.
CommitCreate(r) ==
  /\ pc[r] = "insert"
  /\ \A s \in LinesOf(r) : inserted[s]
  /\ status' = [s \in Line |-> IF RequestOf[s] = r THEN "confirmed" ELSE status[s]]
  /\ inserted' = [s \in Line |-> IF RequestOf[s] = r THEN FALSE ELSE inserted[s]]
  /\ credential' = [credential EXCEPT ![r] = "live"]
  /\ ReleaseLocks(r)
  /\ original' = [original EXCEPT ![r] = r]
  /\ Reply(r)
  /\ UNCHANGED <<ref, roomOf, mail, visitVars>>

\* r waits for a room whose lock q holds.
WaitsFor(r, q) ==
  /\ pc[r] = "insert" /\ q # r
  /\ \E s \in Line : NextToInsert(r, s) /\ roomLock[roomOf[s]] = q

\* Requests that wait for each other in a cycle.
Deadlocked(r) ==
  \E S \in SUBSET Request :
    /\ r \in S
    /\ \A p \in S : (\E q \in S : WaitsFor(p, q)) /\ (\E q \in S : WaitsFor(q, p))

\* Multi-room requests that lock the same rooms in different orders can wait
\* for each other; Postgres aborts one and its handler answers with an error.
BreakDeadlock(r) ==
  /\ Deadlocked(r)
  /\ End(r, "failed")
  /\ Rollback(r)
  /\ UNCHANGED <<original, ref, roomOf, mail, visitVars>>

-----------------------------------------------------------------------------
(* The Python side after the RPC.                                          *)

\* Mutant: a replay sends the email again.
SendConfirmationOnReplay(r) ==
  /\ pc[r] = "committed"
  /\ mail' = [mail EXCEPT ![r] = "sent"]
  /\ Goto(r, "respond")
  /\ UNCHANGED <<original, ref, roomOf, storeVars, visitVars>>

\* The confirmation page's data is read and the email is sent, with the raw
\* cancellation token, on the first creation only; sending may fail.
SendConfirmation(r) ==
  /\ pc[r] = "committed"
  /\ \/ original[r] = r /\ mail' = [mail EXCEPT ![r] = "sent"]
     \/ UNCHANGED mail
  /\ Goto(r, "respond")
  /\ UNCHANGED <<original, ref, roomOf, storeVars, visitVars>>

\* The 200 with the reference and the confirmation URL.
Respond(r) ==
  /\ pc[r] = "respond"
  /\ End(r, "stored")
  /\ UNCHANGED <<original, ref, roomOf, mail, storeVars, visitVars>>

\* The RPC times out, or its worker dies: the browser sees an error, and the
\* transaction goes on without them.
Abandon(r) ==
  /\ pc[r] \in {"call", "insert"} /\ outcome[r] = "pending"
  /\ outcome' = [outcome EXCEPT ![r] = "failed"]
  /\ UNCHANGED <<pc, original, ref, roomOf, mail, storeVars, visitVars>>

\* An exception, a lost reply of the database, a dead worker or a dropped
\* connection at any point: the browser sees an error.  An open transaction
\* rolls back; a committed one stays, whatever the browser was told.
Fail(r) ==
  /\ pc[r] # "done"
  /\ End(r, "failed")
  /\ Rollback(r)
  /\ UNCHANGED <<original, ref, roomOf, mail, visitVars>>

-----------------------------------------------------------------------------
(* POST /cancel-reservation/<ref>.                                         *)

\* Mutant: the filter on the reference is missing.
RowsOfAnyReference(r) == {s \in Line : status[s] # "absent"}

\* The rows whose reference is the one of request r.
RowsOfReference(r) ==
  {s \in Line : status[s] # "absent" /\ ref[RequestOf[s]] = ref[r]}

CheckedIn(r) == \E s \in RowsOfReference(r) : status[s] = "checked_in"

Show(v, page) ==
  /\ stage' = [stage EXCEPT ![v] = "done"]
  /\ answer' = [answer EXCEPT ![v] = page]

\* The guest opens the link of an email that was sent; the handler's preview
\* reads the credential and the statuses, or fails to, and lets the visit on.
PreviewCancel(v) ==
  /\ stage[v] = "idle"
  /\ \E r \in Request :
       /\ mail[r] = "sent"
       /\ target' = [target EXCEPT ![v] = r]
       /\ \/ Show(v, "invalid")
          \/ credential[r] = "live" /\ CheckedIn(r) /\ Show(v, "cannot_cancel")
          \/ /\ credential[r] = "live" /\ ~CheckedIn(r)
             /\ stage' = [stage EXCEPT ![v] = "previewed"]
             /\ UNCHANGED answer
  /\ UNCHANGED <<requestVars, storeVars>>

\* Mutant: the RPC relies on the preview and does not read the credential again.
BeginCancelTrustsPreview(v) ==
  /\ stage[v] = "previewed"
  /\ \A w \in Visit : stage[w] = "locked" => ref[target[w]] # ref[target[v]]
  /\ stage' = [stage EXCEPT ![v] = "locked"]
  /\ UNCHANGED <<answer, target, requestVars, storeVars>>

\* cancel_public_booking up to the credential: the advisory lock of the
\* reference and the credential row FOR UPDATE, then already_used and expired.
BeginCancel(v) ==
  LET r == target[v] IN
  /\ stage[v] = "previewed"
  /\ \A w \in Visit : stage[w] = "locked" => ref[target[w]] # ref[r]
  /\ \/ /\ credential[r] = "live"
        /\ stage' = [stage EXCEPT ![v] = "locked"]
        /\ UNCHANGED answer
     \/ credential[r] # "live" /\ Show(v, "invalid")
  /\ UNCHANGED <<target, requestVars, storeVars>>

\* Mutant: the refusal of a stay in progress is left to the preview.
CommitCancelTrustsPreview(v) ==
  /\ stage[v] = "locked"
  /\ \/ CheckedIn(target[v]) /\ Show(v, "cannot_cancel") /\ UNCHANGED <<status, credential>>
     \/ /\ TRUE
        /\ status' = [s \in Line |->
             IF s \in RowsOfReference(target[v]) /\ status[s] \notin {"no_show", "checked_out"}
             THEN "cancelled" ELSE status[s]]
        /\ credential' = [q \in Request |->
             IF credential[q] # "none" /\ ref[q] = ref[target[v]] THEN "used" ELSE credential[q]]
        /\ Show(v, "cancelled")
  /\ UNCHANGED <<target, inserted, keyLock, roomLock, requestVars>>

\* Mutant: only the row the credential points to is cancelled.
CommitCancelFirstRowOnly(v) ==
  /\ stage[v] = "locked"
  /\ \/ CheckedIn(target[v]) /\ Show(v, "cannot_cancel") /\ UNCHANGED <<status, credential>>
     \/ /\ ~CheckedIn(target[v])
        /\ status' = [s \in Line |->
             IF s \in RowsOfReference(target[v]) /\ Position[s] = 1
             THEN "cancelled" ELSE status[s]]
        /\ credential' = [q \in Request |->
             IF credential[q] # "none" /\ ref[q] = ref[target[v]] THEN "used" ELSE credential[q]]
        /\ Show(v, "cancelled")
  /\ UNCHANGED <<target, inserted, keyLock, roomLock, requestVars>>

\* Mutant: the credential is given a status no reader knows.
CommitCancelWrongLiteral(v) ==
  /\ stage[v] = "locked"
  /\ \/ CheckedIn(target[v]) /\ Show(v, "cannot_cancel") /\ UNCHANGED <<status, credential>>
     \/ /\ ~CheckedIn(target[v])
        /\ status' = [s \in Line |->
             IF s \in RowsOfReference(target[v]) /\ status[s] \notin {"no_show", "checked_out"}
             THEN "cancelled" ELSE status[s]]
        /\ credential' = [q \in Request |->
             IF credential[q] # "none" /\ ref[q] = ref[target[v]] THEN "cancelled" ELSE credential[q]]
        /\ Show(v, "cancelled")
  /\ UNCHANGED <<target, inserted, keyLock, roomLock, requestVars>>

\* The rest of the RPC, atomic behind the row locks of its second SELECT:
\* refuse a stay that has begun, else cancel every open row of the reference
\* and spend every credential of these rows.  The reply may still be lost.
CommitCancel(v) ==
  LET r == target[v] IN
  /\ stage[v] = "locked"
  /\ \/ CheckedIn(r) /\ Show(v, "cannot_cancel") /\ UNCHANGED <<status, credential>>
     \/ /\ ~CheckedIn(r)
        /\ status' = [s \in Line |->
             IF s \in RowsOfReference(r) /\ status[s] \notin {"no_show", "checked_out"}
             THEN "cancelled" ELSE status[s]]
        /\ credential' = [q \in Request |->
             IF credential[q] # "none" /\ ref[q] = ref[r] THEN "used" ELSE credential[q]]
        /\ \/ Show(v, "cancelled")
           \/ Show(v, "invalid")
  /\ UNCHANGED <<target, inserted, keyLock, roomLock, requestVars>>

\* The RPC fails before it commits: the guest sees the invalid-link page.
FailCancel(v) ==
  /\ stage[v] \in {"previewed", "locked"}
  /\ Show(v, "invalid")
  /\ UNCHANGED <<target, requestVars, storeVars>>

-----------------------------------------------------------------------------
(* The environment: the front desk's system, which is not in this          *)
(* repository, and time.                                                   *)

\* What the desk does to a stay.  Cancellations by the staff are not among it:
\* CancelledByOwnLinkOnly is about those through the website.
DeskMoves == {<<"confirmed", "checked_in">>, <<"confirmed", "no_show">>,
              <<"checked_in", "checked_out">>}

\* The desk updates a row; the row locks of a cancellation are held only within
\* CommitCancel.
Desk(s) ==
  /\ \E move \in DeskMoves :
       status[s] = move[1] /\ status' = [status EXCEPT ![s] = move[2]]
  /\ UNCHANGED <<inserted, credential, keyLock, roomLock, requestVars, visitVars>>

\* 15:00 on the check-in day passes: the credential is no longer accepted.
Expire(r) ==
  /\ credential[r] = "live"
  /\ credential' = [credential EXCEPT ![r] = "expired"]
  /\ UNCHANGED <<inserted, status, keyLock, roomLock, requestVars, visitVars>>

-----------------------------------------------------------------------------
Proceed(r) ==
  \/ Validate(r) \/ DrawReference(r) \/ AssignRoom(r) \/ CallCreate(r)
  \/ BeginCreate(r) \/ CommitCreate(r) \/ BreakDeadlock(r)
  \/ \E s \in Line : InsertRow(r, s) \/ RefuseRow(r, s)
  \/ SendConfirmation(r) \/ Respond(r)

ProceedVisit(v) == BeginCancel(v) \/ CommitCancel(v)

Finished ==
  /\ \A r \in Request : pc[r] = "done"
  /\ \A v \in Visit : stage[v] = "done" \/ \A r \in Request : mail[r] # "sent"
  /\ UNCHANGED vars

Next ==
  \/ \E r \in Request : Proceed(r) \/ Abandon(r) \/ Fail(r) \/ Expire(r)
  \/ \E v \in Visit : PreviewCancel(v) \/ ProceedVisit(v) \/ FailCancel(v)
  \/ \E s \in Line : Desk(s)
  \/ Finished

Spec == Init /\ [][Next]_vars

\* A worker that runs goes on and Postgres breaks deadlocks; nothing obliges a
\* guest, the desk or a failure to happen.
FairSpec ==
  /\ Spec
  /\ \A r \in Request : WF_vars(Proceed(r))
  /\ \A v \in Visit : WF_vars(ProceedVisit(v))

-----------------------------------------------------------------------------
(* Safety.                                                                 *)

\* No physical room is ever sold twice for one night: two committed blocking
\* rows of a room never overlap, however the requests interleave between the
\* Python availability check and the SQL transaction (the per-room advisory
\* lock and the overlap check of create_public_booking).
NoDoubleBooking ==
  \A s, t \in Line :
    (s # t /\ Blocks(s) /\ Blocks(t) /\ roomOf[s] = roomOf[t])
      => ~Overlap(RequestOf[s], RequestOf[t])

\* A double click or a retry never stores a second reservation: two requests
\* with one idempotency key never both have rows (the gml_book lock and the
\* lookup of create_public_booking).
OneReservationPerKey ==
  \A r, q \in Request :
    (KeyOf[r] = KeyOf[q] /\ Stored(r) /\ Stored(q)) => r = q

\* A reservation is stored as a whole, with the credential that cancels it:
\* once one row of an itinerary is visible all of them are, and so is its
\* cancellation row (create_public_booking is one transaction).
WholeReservation ==
  \A r \in Request :
    Stored(r) => /\ \A s \in LinesOf(r) : status[s] # "absent"
                 /\ credential[r] # "none"

\* The browser is told "success" only with a reservation that is stored under
\* its own key, be the request the first one or a replay (handle_booking).
AnswerNamesReservation ==
  \A r \in Request :
    outcome[r] = "stored" =>
      \E q \in Request : original[r] = q /\ Stored(q) /\ KeyOf[q] = KeyOf[r]

\* "a retry/refresh does not re-email the guest": the requests of one key send
\* one confirmation email at most (handle_booking, the reused flag).
MailOncePerKey ==
  \A r, q \in Request :
    (KeyOf[r] = KeyOf[q] /\ mail[r] = "sent" /\ mail[q] = "sent") => r = q

\* A spent credential has freed every room of its reservation: no row of it is
\* left confirmed or checked in, although the desk works on the same rows
\* between the preview and the RPC (cancel_public_booking).
SpentCredentialFreesRooms ==
  \A s \in Line :
    credential[RequestOf[s]] = "used" => status[s] \notin {"confirmed", "checked_in"}

\* Of the visits that follow one reference's links only one is told that it
\* cancelled: the credential is read again under the lock of the reference
\* (cancel_public_booking; the preview alone would let two visits pass).
CancelledOnce ==
  \A v, w \in Visit :
    (answer[v] = "cancelled" /\ answer[w] = "cancelled" /\ target[v] = target[w])
      => v = w

\* A guest who has checked in keeps the room: no cancellation, however stale
\* its preview, ends a stay in progress (cannot_cancel in
\* cancel_public_booking).
StayInProgressKept ==
  [][\A s \in Line : status[s] = "checked_in" => status'[s] # "cancelled"]_vars

\* A row is cancelled through the website only by a visit that followed the link
\* of its own reservation.
CancelledByOwnLinkOnly ==
  [][\A s \in Line :
       (status[s] # "cancelled" /\ status'[s] = "cancelled") =>
         \E v \in Visit : /\ stage[v] = "locked" /\ stage'[v] = "done"
                          /\ target[v] = RequestOf[s]]_vars

\* A reference names one reservation: rows that share it have one key
\* (main._generate_booking_reference says it regenerates on a collision).
UniqueReference ==
  \A r, q \in Request :
    (Stored(r) /\ Stored(q) /\ ref[r] = ref[q]) => KeyOf[r] = KeyOf[q]

\* "a repeat submit returns the original reservation": while the reservation
\* of its key is stored, no request is refused for want of a room
\* (_persist_booking).
RepeatReturnsOriginal ==
  [][\A r \in Request :
       (outcome[r] # "unavailable" /\ outcome'[r] = "unavailable") =>
         \A q \in Request : KeyOf[q] = KeyOf[r] => ~Stored(q)]_vars

-----------------------------------------------------------------------------
(* Why NoDoubleBooking and OneReservationPerKey hold: the inductive        *)
(* invariant of PublicBookingProofs.                                       *)

\* Rows appear only when a request commits, and rooms are chosen before the
\* RPC is called.
ProgressInv ==
  \A s \in Line :
    /\ status[s] # "absent" => pc[RequestOf[s]] \in {"committed", "respond", "done"}
    /\ pc[RequestOf[s]] \in {"call", "insert"} => roomOf[s] \in Room

\* An uncommitted row is covered by its room's lock and an open transaction
\* by its key's lock.
LockInv ==
  /\ \A s \in Line :
       inserted[s] => /\ pc[RequestOf[s]] = "insert"
                      /\ roomLock[roomOf[s]] = RequestOf[s]
  /\ \A r \in Request : pc[r] = "insert" => keyLock[KeyOf[r]] = r

\* While a transaction is open its key has no reservation.
FreshKeyInv ==
  \A r, q \in Request :
    (pc[r] = "insert" /\ KeyOf[q] = KeyOf[r]) => ~Stored(q)

\* An uncommitted row collides neither with a committed one nor with another
\* row of its own transaction.
FreeRoomInv ==
  \A s, t \in Line :
    (inserted[s] /\ roomOf[t] = roomOf[s] /\ t # s) =>
      /\ Blocks(t) => ~Overlap(RequestOf[t], RequestOf[s])
      /\ inserted[t] => RequestOf[t] # RequestOf[s]

BookingInv ==
  /\ TypeOK /\ ProgressInv /\ LockInv /\ FreshKeyInv /\ FreeRoomInv
  /\ NoDoubleBooking /\ OneReservationPerKey

\* What a request was answered with is stored under its key, and what it mailed
\* is its own.
AnswerInv ==
  \A r \in Request :
    /\ original[r] # None => Stored(original[r]) /\ KeyOf[original[r]] = KeyOf[r]
    /\ pc[r] \in {"committed", "respond"} \/ outcome[r] = "stored" => original[r] # None
    /\ mail[r] = "sent" => original[r] = r

-----------------------------------------------------------------------------
(* The promise: the store implements a calendar of rooms and nights.       *)

Night == UNION {CheckIn[r] .. (CheckOut[r] - 1) : r \in Request}

\* The committed rows that hold night d of room m.
RowsHolding(m, d) ==
  {s \in Line : /\ Blocks(s) /\ roomOf[s] = m
               /\ CheckIn[RequestOf[s]] <= d /\ d < CheckOut[RequestOf[s]]}

HolderOf(m, d) ==
  LET rows == RowsHolding(m, d)
  IN  IF rows = {} THEN None ELSE KeyOf[RequestOf[CHOOSE s \in rows : TRUE]]

Calendar == INSTANCE RoomCalendar WITH
  Nobody <- None,
  holder <- [c \in Room \X Night |-> HolderOf(c[1], c[2])],
  taken  <- {k \in Key : \E r \in Request : KeyOf[r] = k /\ Stored(r)}

\* Every behaviour of requests, cancellations and desk is a behaviour of the
\* calendar: bookings are all-or-nothing, once per key, on free nights only.
ImplementsCalendar == Calendar!Spec

-----------------------------------------------------------------------------
(* Liveness.                                                               *)

\* Every request is answered: waits for the advisory locks end, because every
\* way out of the transaction releases them and cycles are broken.
EveryRequestEnds == \A r \in Request : <>(pc[r] = "done")
=============================================================================
