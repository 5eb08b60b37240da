------------------------------- MODULE StayQuote -------------------------------
(***************************************************************************)
(* The price of a stay, from the table of room types to the confirmation.  *)
(* Concurrent requests of one process share the room-type cache            *)
(* (_room_types_by_code).  verify_cart and handle_booking each price the   *)
(* stay for themselves (_validate_itinerary), a room type at a time, from  *)
(* that cache or else from ROOM_CATALOG; handle_booking goes on to split   *)
(* its price over the rows of the reservation (_persist_booking), unless   *)
(* create_public_booking finds the reservation of an earlier request with  *)
(* its key; and build_confirmation_context adds the stored rows up.        *)
(*                                                                         *)
(* Amounts are integers, in cents: each is the result of a round(x, 2).    *)
(* Rooms and their nights are in PublicBooking; here they are a refusal    *)
(* that may come at any time.  Supabase is configured, or the handlers     *)
(* stop at _supabase_required.                                             *)
(***************************************************************************)
EXTENDS Integers, Sequences

CONSTANTS
  Request,     \* requests to quote or to book a stay
  Key,         \* idempotency keys
  Code,        \* codes of the room types
  Rate,        \* nightly rates, in cents
  Catalog,     \* Catalog[code]: capacity and rate of ROOM_CATALOG
  Stay,        \* what may be asked for: rooms, days ahead and nights
  TiesUp,      \* <<amount, percent>> whose tax is a half cent that is rounded up
  NoRow,       \* no row of room_types has the code
  Unreadable,  \* its row lacks what the loop over the rows needs
  Flaw,        \* which of these two the table may have
  MaxChanges,  \* bound: changes of the table
  Unfilled,    \* _ROOM_TYPES_CACHE is None
  None

ASSUME CatalogAssumption == Catalog \in [Code -> [capacity : Nat, rate : Rate]]

ASSUME RateAssumption == Rate \subseteq Nat /\ {NoRow, Unreadable} \cap Rate = {}

ASSUME FlawAssumption == Flaw \subseteq {NoRow, Unreadable} /\ MaxChanges \in Nat

ASSUME StayAssumption ==
  Stay \subseteq [rooms : Seq([code : Code, humans : Nat, pets : Nat]),
                  ahead : Int, nights : Int]

ASSUME NoneAssumption == None \notin Key \cup Request

VARIABLES
  table,    \* room_types.nightly_rate, of the rows that can be read
  changes,  \* how often it has changed
  up,       \* Supabase answers
  cache,    \* _ROOM_TYPES_CACHE: the rates of the codes it has
  stay,     \* stay[r]: what r asks for
  key,      \* key[r]: the key handle_booking has; None in verify_cart
  pc,       \* pc[r]: where request r is
  fetched,  \* fetched[r]: the data its query brought, not yet in the cache
  priced,   \* priced[r]: code, rate and source, of the rooms r has got to
  found,    \* found[r]: the rooms r has found a room_type_id for
  quote,    \* quote[r]: the grand_total it answers
  total,    \* total[r]: the grand_total of the confirmation it leads to
  reused,   \* reused[r]: the RPC said that the reservation was there
  rows,     \* rows[k]: total_price of the rows stored under key k
  maker,    \* maker[k]: the request that stored them
  lacked    \* lacked[r]: codes Supabase could not surely give while r priced

localVars == <<fetched, priced, found, quote, total, reused>>
saleVars == <<rows, maker>>
vars == <<table, changes, up, cache, stay, key, pc, localVars, saleVars, lacked>>

MAX_STAY_NIGHTS == 90
MAX_FUTURE_DAYS == 540
MAX_ROOMS_PER_TXN == 5
MAX_HUMANS_PER_ROOM == 4
MAX_PETS_PER_ROOM == 5
ATL_EXEMPT_NIGHTS == 28

\* What a query may bring: rates of some of the codes.
Data == UNION {[codes -> Rate] : codes \in SUBSET Code}

ASSUME CacheAssumption == Unfilled \notin Data

Price == [code : Code, rate : Rate, from : {"table", "catalog"}]

TypeOK ==
  /\ table \in [Code -> Rate \cup Flaw]
  /\ changes \in 0 .. MaxChanges
  /\ up \in BOOLEAN
  /\ cache \in Data \cup {Unfilled}
  /\ stay \in [Request -> Stay]
  /\ key \in [Request -> Key \cup {None}]
  /\ pc \in [Request -> {"start", "price", "fetch", "fill", "answered", "assign",
                         "stored", "confirmed", "refused", "killed"}]
  /\ fetched \in [Request -> Data \cup {Unfilled}]
  /\ \A r \in Request :
       priced[r] \in Seq(Price) /\ Len(priced[r]) <= MAX_ROOMS_PER_TXN
  /\ found \in [Request -> 0 .. MAX_ROOMS_PER_TXN]
  /\ quote \in [Request -> Nat]
  /\ total \in [Request -> Nat]
  /\ reused \in [Request -> BOOLEAN]
  /\ \A k \in Key : rows[k] \in Seq(Nat) /\ Len(rows[k]) <= MAX_ROOMS_PER_TXN
  /\ maker \in [Key -> Request \cup {None}]
  /\ lacked \in [Request -> SUBSET Code]

Init ==
  /\ table \in [Code -> Rate \cup Flaw]
  /\ changes = 0 /\ up = TRUE /\ cache = Unfilled
  /\ stay \in [Request -> Stay]
  /\ key \in [Request -> Key \cup {None}]
  /\ pc = [r \in Request |-> "start"]
  /\ fetched = [r \in Request |-> Unfilled]
  /\ priced = [r \in Request |-> <<>>]
  /\ found = [r \in Request |-> 0]
  /\ quote = [r \in Request |-> 0]
  /\ total = [r \in Request |-> 0]
  /\ reused = [r \in Request |-> FALSE]
  /\ rows = [k \in Key |-> <<>>]
  /\ maker = [k \in Key |-> None]
  /\ lacked = [r \in Request |-> {}]

-----------------------------------------------------------------------------
(* Amounts.                                                                *)

\* round(amount * percent / 100, 2), to the nearest cent; a tie goes the way
\* the binary value of the product happens to be.
Tax(amount, percent) ==
  LET n == amount * percent IN
  IF n % 100 = 50 /\ <<amount, percent>> \notin TiesUp
  THEN n \div 100
  ELSE (n + 50) \div 100

\* _compute_taxes: GST, and the Alberta Tourism Levy of shorter stays.
WithTaxes(amount, nights) ==
  amount + Tax(amount, 5) + IF nights < ATL_EXEMPT_NIGHTS THEN Tax(amount, 6) ELSE 0

\* The line_total of room i.
Line(r, i) == priced[r][i].rate * stay[r].nights

\* The sum over the rooms, which are MAX_ROOMS_PER_TXN at most.
SumOf(amounts) ==
  LET at(i) == IF i \in DOMAIN amounts THEN amounts[i] ELSE 0 IN
  at(1) + at(2) + at(3) + at(4) + at(5)

Subtotal(r) == SumOf([i \in DOMAIN priced[r] |-> Line(r, i)])

\* The total_price of each row (_persist_booking).
RowTotals(r) ==
  [i \in DOMAIN priced[r] |-> WithTaxes(Line(r, i), stay[r].nights)]

\* build_confirmation_context: what the rows were stored with.
GrandTotal(k) == SumOf(rows[k])

-----------------------------------------------------------------------------
(* Rules of a stay.                                                        *)

\* _validate_stay_window, and the number of rooms.
WindowOK(s) ==
  /\ s.ahead \in 0 .. MAX_FUTURE_DAYS
  /\ s.nights \in 1 .. MAX_STAY_NIGHTS
  /\ Len(s.rooms) \in 1 .. MAX_ROOMS_PER_TXN

\* The guests and pets of one room.
GuestsOK(room) ==
  /\ room.humans \in 1 .. MAX_HUMANS_PER_ROOM
  /\ room.humans <= Catalog[room.code].capacity
  /\ room.pets <= MAX_PETS_PER_ROOM

-----------------------------------------------------------------------------
(* The steps of a request.                                                 *)

Goto(r, next) == pc' = [pc EXCEPT ![r] = next]

Pricing(r) == pc[r] \in {"price", "fetch", "fill"}

Readable == {code \in Code : table[code] \in Rate}

\* A row that cannot be read ends the loop over the rows, which come in any order.
LoopBreaks == \E code \in Code : table[code] = Unreadable

\* Mutant: the rates are taken as they come, without float().
LoadsAsTheyCome ==
  {[code \in codes |-> table[code]] : codes \in
     IF up THEN {{code \in Code : table[code] # NoRow}} ELSE {{}}}

\* What a query of the table may leave in data: nothing when it fails, all rows,
\* or those that came before one that cannot be read.
Loads ==
  {[code \in codes |-> table[code]] : codes \in
     IF ~up THEN {{}} ELSE IF LoopBreaks THEN SUBSET Readable ELSE {Readable}}

\* The codes a query would not surely bring.
Lacking ==
  IF ~up \/ LoopBreaks THEN Code ELSE Code \ Readable

NoteLacking == lacked' = [r \in Request |->
                            IF Pricing(r)' THEN lacked[r] \cup Lacking' ELSE lacked[r]]

Begin(r) ==
  /\ pc[r] = "start"
  /\ Goto(r, IF WindowOK(stay[r]) THEN "price" ELSE "refused")
  /\ UNCHANGED <<table, changes, up, cache, stay, key, localVars, saleVars>>
  /\ NoteLacking

\* The room _validate_itinerary has got to.
Room(r) == stay[r].rooms[Len(priced[r]) + 1]

RoomsLeft(r) == Len(priced[r]) < Len(stay[r].rooms)

\* _server_rate: the rate the data has for the code, or else the catalog's.
PriceFrom(data, code) ==
  IF code \in DOMAIN data
  THEN [code |-> code, rate |-> data[code], from |-> "table"]
  ELSE [code |-> code, rate |-> Catalog[code].rate, from |-> "catalog"]

AddPrice(r, data) ==
  /\ priced' = [priced EXCEPT ![r] = Append(@, PriceFrom(data, Room(r).code))]
  /\ Goto(r, "price")

\* _room_types_by_code finds the cache filled, with whatever.
PriceRoom(r) ==
  /\ pc[r] = "price" /\ RoomsLeft(r) /\ GuestsOK(Room(r))
  /\ IF cache = Unfilled
     THEN Goto(r, "fetch") /\ UNCHANGED priced
     ELSE AddPrice(r, cache)
  /\ UNCHANGED <<table, changes, up, cache, stay, key, fetched, found, quote, total, reused,
                 saleVars, lacked>>

RefuseGuests(r) ==
  /\ pc[r] = "price" /\ RoomsLeft(r) /\ ~GuestsOK(Room(r))
  /\ Goto(r, "refused")
  /\ UNCHANGED <<table, changes, up, cache, stay, key, localVars, saleVars, lacked>>

\* Mutant: the cache is emptied first and filled when the rows are there.
FetchIntoCache(r) ==
  /\ pc[r] = "fetch"
  /\ \E data \in Loads : fetched' = [fetched EXCEPT ![r] = data]
  /\ cache' = [code \in {} |-> 0]
  /\ Goto(r, "fill")
  /\ UNCHANGED <<table, changes, up, stay, key, priced, found, quote, total, reused, saleVars,
                 lacked>>

\* The query of the table and the loop over its rows.
Fetch(r) ==
  /\ pc[r] = "fetch"
  /\ \E data \in Loads : fetched' = [fetched EXCEPT ![r] = data]
  /\ Goto(r, "fill")
  /\ UNCHANGED <<table, changes, up, cache, stay, key, priced, found, quote, total, reused,
                 saleVars, lacked>>

\* The cache is set, over what another thread may have put there, also when the
\* data is partial or none; the room at hand is priced from this thread's data.
Fill(r) ==
  /\ pc[r] = "fill"
  /\ cache' = fetched[r]
  /\ AddPrice(r, fetched[r])
  /\ fetched' = [fetched EXCEPT ![r] = Unfilled]
  /\ UNCHANGED <<table, changes, up, stay, key, found, quote, total, reused, saleVars, lacked>>

\* The itinerary is valid and its price made: verify_cart answers it and is done,
\* handle_booking goes on with it.
Answer(r) ==
  /\ pc[r] = "price" /\ ~RoomsLeft(r)
  /\ quote' = [quote EXCEPT ![r] = WithTaxes(Subtotal(r), stay[r].nights)]
  /\ Goto(r, IF key[r] = None THEN "answered" ELSE "assign")
  /\ UNCHANGED <<table, changes, up, cache, stay, key, fetched, priced, found, total, reused,
                 saleVars, lacked>>

\* _assign_physical_rooms takes the id of the next room's type from the cache as
\* it is by then.
AssignRoom(r) ==
  /\ pc[r] = "assign" /\ found[r] < Len(priced[r])
  /\ priced[r][found[r] + 1].code \in DOMAIN cache
  /\ found' = [found EXCEPT ![r] = @ + 1]
  /\ UNCHANGED <<table, changes, up, cache, stay, key, pc, fetched, priced, quote, total, reused,
                 saleVars, lacked>>

\* Mutant: the RPC does not look for the reservation of its key.
StoreAgain(r) ==
  /\ pc[r] = "assign" /\ found[r] = Len(priced[r]) /\ up
  /\ rows' = [rows EXCEPT ![key[r]] = RowTotals(r)]
  /\ maker' = [maker EXCEPT ![key[r]] = r]
  /\ (Goto(r, "stored") \/ Goto(r, "refused"))
  /\ UNCHANGED <<table, changes, up, cache, stay, key, fetched, priced, found, quote, total, reused,
                 lacked>>

\* create_public_booking stores the rows, or returns the reservation that an
\* earlier request with the key has stored; its reply may be lost.
Store(r) ==
  /\ pc[r] = "assign" /\ found[r] = Len(priced[r]) /\ up
  /\ \/ /\ maker[key[r]] = None
        /\ rows' = [rows EXCEPT ![key[r]] = RowTotals(r)]
        /\ maker' = [maker EXCEPT ![key[r]] = r]
        /\ UNCHANGED reused
     \/ /\ maker[key[r]] # None
        /\ reused' = [reused EXCEPT ![r] = TRUE]
        /\ UNCHANGED saleVars
  /\ (Goto(r, "stored") \/ Goto(r, "refused"))
  /\ UNCHANGED <<table, changes, up, cache, stay, key, fetched, priced, found, quote, total, lacked>>

\* No room, a room type "is not configured in the database", a failed call.
Refuse(r) ==
  /\ pc[r] = "assign" \/ (pc[r] = "price" /\ ~RoomsLeft(r))
  /\ Goto(r, "refused")
  /\ UNCHANGED <<table, changes, up, cache, stay, key, localVars, saleVars, lacked>>

\* fetch_confirmation_from_supabase, for the email or the page: the rows under the
\* reference that the RPC returned, while the answer has the quote of r itself.
Confirm(r) ==
  /\ pc[r] = "stored" /\ up
  /\ total' = [total EXCEPT ![r] = GrandTotal(key[r])]
  /\ Goto(r, "confirmed")
  /\ UNCHANGED <<table, changes, up, cache, stay, key, fetched, priced, found, quote, reused,
                 saleVars, lacked>>

-----------------------------------------------------------------------------
(* The lodge, the network and the process.                                 *)

\* The staff application adds, changes, breaks or removes a row.
ChangeRow(code, value) ==
  /\ table[code] # value /\ changes < MaxChanges
  /\ changes' = changes + 1
  /\ table' = [table EXCEPT ![code] = value]
  /\ UNCHANGED <<up, cache, stay, key, pc, localVars, saleVars>>
  /\ NoteLacking

GoDown ==
  /\ up /\ up' = FALSE
  /\ UNCHANGED <<table, changes, cache, stay, key, pc, localVars, saleVars>>
  /\ NoteLacking

ComeBack ==
  /\ ~up /\ up' = TRUE
  /\ UNCHANGED <<table, changes, cache, stay, key, pc, localVars, saleVars, lacked>>

\* A new process has no cache; the page of what was stored can still be opened.
Restart ==
  /\ cache # Unfilled
  /\ cache' = Unfilled
  /\ pc' = [r \in Request |-> IF Pricing(r) \/ pc[r] = "assign" THEN "killed" ELSE pc[r]]
  /\ fetched' = [r \in Request |-> Unfilled]
  /\ UNCHANGED <<table, changes, up, stay, key, priced, found, quote, total, reused, saleVars,
                 lacked>>

Serve(r) ==
  \/ Begin(r)
  \/ PriceRoom(r) \/ RefuseGuests(r)
  \/ Fetch(r) \/ Fill(r)
  \/ Answer(r) \/ AssignRoom(r) \/ Store(r) \/ Refuse(r)
  \/ Confirm(r)

Next ==
  \/ \E r \in Request : Serve(r)
  \/ \E code \in Code, value \in Rate \cup Flaw : ChangeRow(code, value)
  \/ GoDown \/ ComeBack \/ Restart

Spec == Init /\ [][Next]_vars

-----------------------------------------------------------------------------
(* Safety.                                                                 *)

Distance(a, b) == IF a < b THEN b - a ELSE a - b

\* Every confirmation asks for the price of the request that made the reservation,
\* whatever became of rates and caches since, and whatever a retry with its key
\* was priced at: to the cent for one room, and within the roundings of the rows
\* for more.  Who is told that the reservation is new made it, so the price it was
\* answered is the one confirmed (main.py:782, :987, :1231, confirmation.py:123,
\* create_public_booking).
ConfirmsTheSale ==
  \A r \in Request :
    pc[r] = "confirmed" =>
      LET m == maker[key[r]]
          n == Len(rows[key[r]])
      IN
      /\ m # None /\ n = Len(stay[m].rooms)
      /\ ~reused[r] => m = r
      /\ Distance(total[r], quote[m]) <= IF n = 1 THEN 0 ELSE n + 1

\* The room types that r priced from the source code.
CatalogCodes(r) ==
  {priced[r][i].code : i \in {j \in DOMAIN priced[r] : priced[r][j].from = "catalog"}}

\* The rate of the source code stands in for a room type only if there was a time,
\* while some request priced, when Supabase could not surely give that type: it was
\* down, the type had no row, or some row could not be read.  Threads that fill the
\* cache at once never see it half filled (main.py:611, _server_rate).
FallbackNeedsGap ==
  \A r \in Request : CatalogCodes(r) \subseteq UNION {lacked[q] : q \in Request}

\* "the values here are the authoritative fallback if Supabase is unreachable": a
\* room type that Supabase could give as long as the request priced is priced from
\* the table (main.py:279-280).
FallbackOnlyWhileUnreachable ==
  \A r \in Request : CatalogCodes(r) \subseteq lacked[r]
=============================================================================
