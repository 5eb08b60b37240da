---------------------------- MODULE StayQuoteProofs ----------------------------
(***************************************************************************)
(* Proofs about StayQuote, for any number of concurrent requests, keys and *)
(* room types, any rates, and any way ties are rounded.                    *)
(*                                                                         *)
(* A price comes from the catalog only after a gap: a missing room type    *)
(* travels from a query to the cache and from there to the prices of other *)
(* requests, and the invariant follows it.  The confirmation agrees with   *)
(* the price of the request that made the reservation: the invariant says  *)
(* what each amount was made from, and lemmas about rounding bound how far *)
(* the two sums can be apart.                                              *)
(***************************************************************************)
EXTENDS StayQuote, SequenceTheorems, TLAPS

Pcs == {"start", "price", "fetch", "fill", "answered", "assign",
        "stored", "confirmed", "refused", "killed"}

\* The types the argument needs; amounts are not among them.
Shape ==
  /\ table \in [Code -> Rate \cup Flaw]
  /\ changes \in 0 .. MaxChanges
  /\ up \in BOOLEAN
  /\ cache \in Data \cup {Unfilled}
  /\ stay \in [Request -> Stay]
  /\ key \in [Request -> Key \cup {None}]
  /\ pc \in [Request -> Pcs]
  /\ fetched \in [Request -> Data \cup {Unfilled}]
  /\ priced \in [Request -> Seq(Price)]
  /\ lacked \in [Request -> SUBSET Code]

\* Who prices has noted what Supabase would not give now.
Noticed == \A r \in Request : Pricing(r) => Lacking \subseteq lacked[r]

\* Who queries the table has a room to price, and then the data of the query.
InHand ==
  \A r \in Request :
    /\ pc[r] \in {"fetch", "fill"} => RoomsLeft(r)
    /\ pc[r] = "fill" => fetched[r] # Unfilled

Gaps == UNION {lacked[q] : q \in Request}

\* The codes that are missing from data are gaps.
OnlyGaps(data) == data # Unfilled => Code \ DOMAIN data \subseteq Gaps

\* Wherever a room type is missing, there was a gap.
MissingNeedsGap ==
  /\ OnlyGaps(cache)
  /\ \A r \in Request : OnlyGaps(fetched[r]) /\ CatalogCodes(r) \subseteq Gaps

IInv == Shape /\ Noticed /\ InHand /\ MissingNeedsGap

-----------------------------------------------------------------------------
\* _server_rate gives a rate of the code, the catalog's only if data lacks it.
LEMMA PriceFromGives ==
  ASSUME NEW data \in Data, NEW code \in Code
  PROVE  /\ PriceFrom(data, code) \in Price
         /\ PriceFrom(data, code).code = code
         /\ PriceFrom(data, code).from = "catalog" => code \notin DOMAIN data
<1>1. PICK codes \in SUBSET Code : data \in [codes -> Rate]
  BY DEF Data
<1>2. CASE code \in DOMAIN data
  <2>1. data[code] \in Rate
    BY <1>1, <1>2
  <2> QED BY <1>2, <2>1 DEF PriceFrom, Price
<1>3. CASE code \notin DOMAIN data
  <2>1. Catalog[code].rate \in Rate
    BY CatalogAssumption
  <2> QED BY <1>3, <2>1 DEF PriceFrom, Price
<1> QED BY <1>2, <1>3

\* The data of a query are rates of codes, and those it lacks are not surely given.
LEMMA LoadsGive ==
  ASSUME Shape, NEW data \in Loads
  PROVE  data \in Data /\ Code \ DOMAIN data \subseteq Lacking
<1>1. PICK codes \in (IF ~up THEN {{}} ELSE IF LoopBreaks THEN SUBSET Readable ELSE {Readable}) :
        data = [code \in codes |-> table[code]]
  BY DEF Loads
<1>2. codes \subseteq Readable /\ Readable \subseteq Code
  BY <1>1 DEF Readable
<1>3. data \in [codes -> Rate]
  BY <1>1, <1>2 DEF Readable
<1>4. data \in Data
  BY <1>2, <1>3 DEF Data
<1>5. ~up \/ LoopBreaks \/ codes = Readable
  BY <1>1
<1> QED BY <1>1, <1>4, <1>5 DEF Lacking

\* The room at hand is one of the stay's.
LEMMA RoomHasCode ==
  ASSUME Shape, NEW r \in Request, RoomsLeft(r)
  PROVE  Room(r).code \in Code
<1>1. stay[r].rooms \in Seq([code : Code, humans : Nat, pets : Nat])
  <2>1. stay[r] \in Stay
    BY DEF Shape
  <2> QED BY <2>1, StayAssumption
<1>2. Len(priced[r]) \in Nat /\ Len(stay[r].rooms) \in Nat
  <2>1. priced[r] \in Seq(Price)
    BY DEF Shape
  <2>2. Len(priced[r]) \in Nat
    BY <2>1
  <2>3. Len(stay[r].rooms) \in Nat
    BY <1>1
  <2> QED BY <2>2, <2>3
<1>3. Len(priced[r]) + 1 \in 1 .. Len(stay[r].rooms)
  BY <1>1, <1>2 DEF RoomsLeft
<1>4. \A s \in Seq([code : Code, humans : Nat, pets : Nat]) :
        \A i \in 1 .. Len(s) : s[i] \in [code : Code, humans : Nat, pets : Nat]
  BY ElementOfSeq
<1> QED BY <1>1, <1>3, <1>4 DEF Room

\* A price is added, from the catalog only for a gap: the codes of the others stay.
LEMMA AddPriceKeeps ==
  ASSUME IInv, NEW r \in Request, NEW data \in Data, OnlyGaps(data), RoomsLeft(r),
         AddPrice(r, data)
  PROVE  /\ priced' \in [Request -> Seq(Price)]
         /\ \A q \in Request : CatalogCodes(q)' \subseteq Gaps
<1> DEFINE p == PriceFrom(data, Room(r).code)
<1>1. p \in Price /\ (p.from = "catalog" => p.code \in Gaps)
  <2>1. Room(r).code \in Code
    BY RoomHasCode DEF IInv
  <2>2. data # Unfilled
    BY CacheAssumption
  <2> QED BY <2>1, <2>2, PriceFromGives DEF OnlyGaps
<1> HIDE DEF p
<1>2. priced' = [priced EXCEPT ![r] = Append(priced[r], p)]
  BY DEF AddPrice, p
<1>3. priced[r] \in Seq(Price) /\ priced \in [Request -> Seq(Price)]
  BY DEF IInv, Shape
<1>4. Append(priced[r], p) \in Seq(Price)
  BY <1>1, <1>3
<1>5. ASSUME NEW q \in Request, NEW i \in DOMAIN priced'[q], priced'[q][i].from = "catalog"
      PROVE  priced'[q][i].code \in Gaps
  <2>1. ASSUME i \in DOMAIN priced[q], priced'[q][i] = priced[q][i]
        PROVE  priced'[q][i].code \in Gaps
    <3>1. priced[q][i].code \in CatalogCodes(q)
      BY <1>5, <2>1 DEF CatalogCodes
    <3> QED BY <2>1, <3>1 DEF IInv, MissingNeedsGap
  <2>2. CASE q # r
    BY <1>2, <1>3, <1>5, <2>1, <2>2
  <2>3. CASE q = r
    <3>1. priced'[r] = Append(priced[r], p)
      BY <1>2, <1>3
    <3>2. CASE i = Len(priced[r]) + 1
      <4>1. priced'[q][i] = p
        BY <1>3, <2>3, <3>1, <3>2
      <4> QED BY <1>1, <1>5, <4>1
    <3>3. CASE i # Len(priced[r]) + 1
      <4>1. i \in DOMAIN priced[r] /\ priced'[q][i] = priced[r][i]
        BY <1>1, <1>3, <1>5, <2>3, <3>1, <3>3
      <4> QED BY <2>1, <2>3, <4>1
    <3> QED BY <3>2, <3>3
  <2> QED BY <2>2, <2>3
<1>6. ASSUME NEW q \in Request PROVE CatalogCodes(q)' \subseteq Gaps
  BY <1>5 DEF CatalogCodes
<1> QED BY <1>2, <1>3, <1>4, <1>6

\* The prices of the other requests stay.
LEMMA PricedElsewhere ==
  ASSUME Shape, NEW r \in Request, NEW data, AddPrice(r, data)
  PROVE  \A q \in Request : q # r => priced'[q] = priced[q]
BY DEF AddPrice, Shape

\* Nothing is priced, read or lacked in the beginning.
LEMMA InitInvariant == Init => IInv
<1> SUFFICES ASSUME Init PROVE IInv
  OBVIOUS
<1>1. Shape
  BY FlawAssumption DEF Init, Shape, Pcs
<1>2. Noticed /\ InHand
  BY DEF Init, Noticed, InHand, Pricing
<1>3. MissingNeedsGap
  BY DEF Init, MissingNeedsGap, OnlyGaps, CatalogCodes
<1> QED BY <1>1, <1>2, <1>3 DEF IInv

\* What is lacked is noted and not forgotten.
LEMMA NotedKeeps ==
  ASSUME Shape, Noticed, NoteLacking
  PROVE  /\ lacked' \in [Request -> SUBSET Code] /\ Noticed' /\ Gaps \subseteq Gaps'
<1>1. Lacking' \subseteq Code
  BY DEF Lacking
<1>2. lacked' \in [Request -> SUBSET Code]
  BY <1>1 DEF NoteLacking, Shape
<1>3. \A r \in Request : lacked[r] \subseteq lacked'[r]
  BY DEF NoteLacking, Shape
<1>4. Noticed'
  BY DEF NoteLacking, Noticed
<1> QED BY <1>2, <1>3, <1>4 DEF Gaps

\* A step that adds no data and no price keeps their gaps.
LEMMA MissingKept ==
  ASSUME MissingNeedsGap, Gaps \subseteq Gaps', cache' \in {cache, Unfilled},
         UNCHANGED priced, \A r \in Request : fetched'[r] \in {fetched[r], Unfilled}
  PROVE  MissingNeedsGap'
BY DEF MissingNeedsGap, OnlyGaps, CatalogCodes

\* Steps of a request that touch neither data nor prices, and end its pricing.
LEMMA QuietStep ==
  ASSUME IInv, NEW r \in Request,
         RefuseGuests(r) \/ Answer(r) \/ AssignRoom(r) \/ Store(r) \/ Refuse(r) \/ Confirm(r)
  PROVE  IInv'
<1>1. /\ UNCHANGED <<table, changes, up, cache, stay, key, fetched, priced, lacked>>
      /\ \E next \in {"answered", "assign", "stored", "confirmed", "refused"} :
           pc' = [pc EXCEPT ![r] = next]
  <2>1. CASE AssignRoom(r)
    BY <2>1 DEF AssignRoom, IInv, Shape
  <2>2. CASE ~AssignRoom(r)
    BY <2>2 DEF RefuseGuests, Answer, Store, Refuse, Confirm, Goto, localVars
  <2> QED BY <2>1, <2>2
<1>2. Lacking' = Lacking /\ Gaps' = Gaps
  BY <1>1 DEF Lacking, LoopBreaks, Readable, Gaps
<1>3. Shape'
  BY <1>1 DEF IInv, Shape, Pcs
<1>4. Noticed' /\ InHand'
  BY <1>1, <1>2 DEF IInv, Shape, Noticed, InHand, RoomsLeft, Pricing
<1>5. MissingNeedsGap'
  BY <1>1, <1>2, MissingKept DEF IInv
<1> QED BY <1>3, <1>4, <1>5 DEF IInv

\* Every step keeps the invariant.
LEMMA NextInvariant == IInv /\ [Next]_vars => IInv'
<1> SUFFICES ASSUME IInv, [Next]_vars PROVE IInv'
  OBVIOUS
<1>0. ASSUME UNCHANGED <<table, up>> PROVE Lacking' = Lacking
  BY <1>0 DEF Lacking, LoopBreaks, Readable
<1>00. ASSUME UNCHANGED lacked PROVE Gaps' = Gaps
  BY <1>00 DEF Gaps
<1>1. ASSUME NEW r \in Request, Begin(r) PROVE IInv'
  <2>1. /\ UNCHANGED <<table, changes, up, cache, stay, key, fetched, priced>>
        /\ pc' = [pc EXCEPT ![r] = IF WindowOK(stay[r]) THEN "price" ELSE "refused"]
    BY <1>1 DEF Begin, Goto, localVars
  <2>2. lacked' \in [Request -> SUBSET Code] /\ Noticed' /\ Gaps \subseteq Gaps'
    BY <1>1, NotedKeeps DEF Begin, IInv
  <2>3. Shape'
    BY <2>1, <2>2 DEF IInv, Shape, Pcs
  <2>4. InHand'
    BY <2>1 DEF IInv, Shape, InHand, RoomsLeft
  <2>5. MissingNeedsGap'
    BY <2>1, <2>2, MissingKept DEF IInv
  <2> QED BY <2>2, <2>3, <2>4, <2>5 DEF IInv
<1>2. ASSUME NEW r \in Request, PriceRoom(r) PROVE IInv'
  <2>0. UNCHANGED <<table, changes, up, cache, stay, key, fetched, lacked>> /\ pc[r] = "price"
        /\ RoomsLeft(r)
    BY <1>2 DEF PriceRoom
  <2>1. CASE cache = Unfilled
    <3>1. UNCHANGED priced /\ pc' = [pc EXCEPT ![r] = "fetch"]
      BY <1>2, <2>1 DEF PriceRoom, Goto
    <3>2. Shape' /\ Noticed' /\ InHand'
      BY <1>0, <2>0, <3>1 DEF IInv, Shape, Pcs, Noticed, InHand, RoomsLeft, Pricing
    <3>3. MissingNeedsGap'
      BY <1>00, <2>0, <3>1, MissingKept DEF IInv
    <3> QED BY <3>2, <3>3 DEF IInv
  <2>2. CASE cache # Unfilled
    <3>1. AddPrice(r, cache) /\ pc' = [pc EXCEPT ![r] = "price"]
      BY <1>2, <2>2 DEF PriceRoom, AddPrice, Goto
    <3>2. cache \in Data /\ OnlyGaps(cache)
      BY <2>2 DEF IInv, Shape, MissingNeedsGap
    <3>3. /\ priced' \in [Request -> Seq(Price)]
          /\ \A q \in Request : CatalogCodes(q)' \subseteq Gaps
      BY <2>0, <3>1, <3>2, AddPriceKeeps
    <3>4. Shape' /\ Noticed'
      BY <1>0, <2>0, <3>1, <3>3 DEF IInv, Shape, Pcs, Noticed, Pricing
    <3>5. InHand'
      BY <2>0, <3>1, PricedElsewhere DEF IInv, InHand, RoomsLeft, Shape
    <3>6. MissingNeedsGap'
      BY <1>00, <2>0, <3>3 DEF IInv, MissingNeedsGap, OnlyGaps
    <3> QED BY <3>4, <3>5, <3>6 DEF IInv
  <2> QED BY <2>1, <2>2
<1>3. ASSUME NEW r \in Request, Fetch(r) PROVE IInv'
  <2>1. PICK data \in Loads : fetched' = [fetched EXCEPT ![r] = data]
    BY <1>3 DEF Fetch
  <2>2. /\ UNCHANGED <<table, changes, up, cache, stay, key, priced, lacked>>
        /\ pc[r] = "fetch" /\ pc' = [pc EXCEPT ![r] = "fill"]
    BY <1>3 DEF Fetch, Goto
  <2>3. data \in Data /\ data # Unfilled /\ Code \ DOMAIN data \subseteq Lacking
    BY LoadsGive, CacheAssumption DEF IInv
  <2>4. Lacking \subseteq Gaps
    BY <2>2 DEF IInv, Noticed, Pricing, Gaps
  <2>5. Shape' /\ Noticed'
    BY <1>0, <2>1, <2>2, <2>3 DEF IInv, Shape, Pcs, Noticed, Pricing
  <2>6. InHand'
    BY <2>1, <2>2, <2>3 DEF IInv, InHand, RoomsLeft, Shape
  <2>7. OnlyGaps(data)
    BY <2>3, <2>4 DEF OnlyGaps
  <2>8. MissingNeedsGap'
    BY <1>00, <2>1, <2>2, <2>7 DEF IInv, Shape, MissingNeedsGap, OnlyGaps, CatalogCodes
  <2> QED BY <2>5, <2>6, <2>8 DEF IInv
<1>4. ASSUME NEW r \in Request, Fill(r) PROVE IInv'
  <2>1. fetched[r] \in Data /\ fetched[r] # Unfilled /\ RoomsLeft(r) /\ OnlyGaps(fetched[r])
    BY <1>4 DEF Fill, IInv, InHand, Shape, MissingNeedsGap
  <2>2. AddPrice(r, fetched[r])
    BY <1>4 DEF Fill
  <2>3. /\ priced' \in [Request -> Seq(Price)]
        /\ \A q \in Request : CatalogCodes(q)' \subseteq Gaps
    BY <2>1, <2>2, AddPriceKeeps
  <2>4. /\ UNCHANGED <<table, changes, up, stay, key, lacked>> /\ pc[r] = "fill"
        /\ cache' = fetched[r] /\ fetched' = [fetched EXCEPT ![r] = Unfilled]
        /\ pc' = [pc EXCEPT ![r] = "price"]
    BY <1>4 DEF Fill, AddPrice, Goto
  <2>5. Shape' /\ Noticed'
    BY <1>0, <2>1, <2>3, <2>4 DEF IInv, Shape, Pcs, Noticed, Pricing
  <2>6. InHand'
    BY <2>2, <2>4, PricedElsewhere DEF IInv, InHand, RoomsLeft, Shape
  <2>7. MissingNeedsGap'
    BY <1>00, <2>1, <2>3, <2>4 DEF IInv, Shape, MissingNeedsGap, OnlyGaps
  <2> QED BY <2>5, <2>6, <2>7 DEF IInv
<1>5. ASSUME NEW r \in Request,
             RefuseGuests(r) \/ Answer(r) \/ AssignRoom(r) \/ Store(r) \/ Refuse(r)
               \/ Confirm(r)
      PROVE  IInv'
  BY <1>5, QuietStep
<1>6. ASSUME NEW code \in Code, NEW value \in Rate \cup Flaw, ChangeRow(code, value)
      PROVE  IInv'
  <2>1. /\ UNCHANGED <<up, cache, stay, key, pc, fetched, priced>>
        /\ table' \in [Code -> Rate \cup Flaw] /\ changes' \in 0 .. MaxChanges
    BY <1>6, FlawAssumption DEF ChangeRow, localVars, IInv, Shape
  <2>2. lacked' \in [Request -> SUBSET Code] /\ Noticed' /\ Gaps \subseteq Gaps'
    BY <1>6, NotedKeeps DEF ChangeRow, IInv
  <2>3. Shape' /\ InHand'
    BY <2>1, <2>2 DEF IInv, Shape, InHand, RoomsLeft
  <2>4. MissingNeedsGap'
    BY <2>1, <2>2, MissingKept DEF IInv
  <2> QED BY <2>2, <2>3, <2>4 DEF IInv
<1>7. CASE GoDown
  <2>1. UNCHANGED <<table, changes, cache, stay, key, pc, fetched, priced>> /\ up' = FALSE
    BY <1>7 DEF GoDown, localVars
  <2>2. lacked' \in [Request -> SUBSET Code] /\ Noticed' /\ Gaps \subseteq Gaps'
    BY <1>7, NotedKeeps DEF GoDown, IInv
  <2>3. Shape' /\ InHand'
    BY <2>1, <2>2 DEF IInv, Shape, InHand, RoomsLeft
  <2>4. MissingNeedsGap'
    BY <2>1, <2>2, MissingKept DEF IInv
  <2> QED BY <2>2, <2>3, <2>4 DEF IInv
<1>8. CASE ComeBack
  <2>1. UNCHANGED <<table, changes, cache, stay, key, pc, fetched, priced, lacked>>
        /\ ~up /\ up' = TRUE
    BY <1>8 DEF ComeBack, localVars
  <2>2. Lacking' \subseteq Lacking
    BY <2>1 DEF Lacking, Readable
  <2>3. Shape' /\ Noticed' /\ InHand'
    BY <2>1, <2>2 DEF IInv, Shape, Noticed, InHand, RoomsLeft, Pricing
  <2>4. MissingNeedsGap'
    BY <1>00, <2>1, MissingKept DEF IInv
  <2> QED BY <2>3, <2>4 DEF IInv
<1>9. CASE Restart
  <2>1. /\ UNCHANGED <<table, changes, up, stay, key, priced, lacked>>
        /\ cache' = Unfilled /\ fetched' = [r \in Request |-> Unfilled]
        /\ pc' = [r \in Request |-> IF Pricing(r) \/ pc[r] = "assign" THEN "killed" ELSE pc[r]]
    BY <1>9 DEF Restart
  <2>2. Shape' /\ Noticed' /\ InHand'
    BY <1>0, <2>1 DEF IInv, Shape, Pcs, Noticed, InHand, RoomsLeft, Pricing
  <2>3. MissingNeedsGap'
    BY <1>00, <2>1, MissingKept DEF IInv
  <2> QED BY <2>2, <2>3 DEF IInv
<1>10. CASE UNCHANGED vars
  BY <1>0, <1>00, <1>10, MissingKept
  DEF vars, localVars, IInv, Shape, Noticed, InHand, RoomsLeft, Pricing
<1> QED
  BY <1>1, <1>2, <1>3, <1>4, <1>5, <1>6, <1>7, <1>8, <1>9, <1>10 DEF Next, Serve

-----------------------------------------------------------------------------
\* However threads fill and read the cache, half filled by broken rows or not at
\* all, a rate of the source code needs a gap in what Supabase could give.
THEOREM CatalogNeedsGap == Spec => []FallbackNeedsGap
<1>1. Init => IInv BY InitInvariant
<1>2. IInv => FallbackNeedsGap
  BY DEF IInv, MissingNeedsGap, Gaps, FallbackNeedsGap
<1> QED BY <1>1, <1>2, NextInvariant, PTL DEF Spec

-----------------------------------------------------------------------------
(* Roundings.                                                              *)

\* The amounts of five rooms, their sum, and those of a stay of n rooms.
Five == [1 .. MAX_ROOMS_PER_TXN -> Nat]
Sum5(f) == f[1] + f[2] + f[3] + f[4] + f[5]
NoneAfter(f, n) == \A i \in 1 .. MAX_ROOMS_PER_TXN : i > n => f[i] = 0

\* A tax is a number of cents, within half a cent of the exact product.
LEMMA TaxRounds ==
  ASSUME NEW a \in Nat, NEW p \in {5, 6}
  PROVE  /\ Tax(a, p) \in Nat
         /\ 100 * Tax(a, p) <= a * p + 50
         /\ a * p <= 100 * Tax(a, p) + 50
<1> PICK n \in Nat : n = a * p
  BY SMT
<1>1. /\ n \div 100 \in Nat /\ n % 100 \in 0 .. 99
      /\ n = 100 * (n \div 100) + (n % 100)
  BY SMT
<1>2. /\ (n + 50) \div 100 \in Nat /\ (n + 50) % 100 \in 0 .. 99
      /\ n + 50 = 100 * ((n + 50) \div 100) + ((n + 50) % 100)
  BY SMT
<1>3. CASE n % 100 = 50 /\ <<a, p>> \notin TiesUp
  <2>1. Tax(a, p) = n \div 100
    BY <1>3 DEF Tax
  <2> QED BY <1>1, <1>3, <2>1
<1>4. CASE ~(n % 100 = 50 /\ <<a, p>> \notin TiesUp)
  <2>1. Tax(a, p) = (n + 50) \div 100
    BY <1>4 DEF Tax
  <2> QED BY <1>2, <2>1
<1> QED BY <1>3, <1>4

\* An amount with its taxes is an amount.
LEMMA WithTaxesNat ==
  ASSUME NEW a \in Nat, NEW nights
  PROVE  WithTaxes(a, nights) \in Nat
<1>1. Tax(a, 5) \in Nat /\ Tax(a, 6) \in Nat
  BY TaxRounds
<1> QED BY <1>1 DEF WithTaxes

\* Nothing is taxed nothing.
LEMMA NoTaxOnNothing == \A p \in {5, 6} : Tax(0, p) = 0
BY SMT DEF Tax

\* A sum of amounts is an amount.
LEMMA Sum5Nat == \A f \in Five : Sum5(f) \in Nat
BY DEF Five, MAX_ROOMS_PER_TXN, Sum5

\* Taxing the amounts of n rooms one by one and taxing their sum differ by at
\* most half a cent for each rounding.
LEMMA TaxOfSum ==
  ASSUME NEW n \in 1 .. 5, NEW p \in {5, 6}, NEW a \in Five, NoneAfter(a, n)
  PROVE  \E t \in Five, all \in Nat :
           /\ t = [i \in 1 .. 5 |-> Tax(a[i], p)]
           /\ all = Tax(Sum5(a), p)
           /\ 2 * Sum5(t) <= 2 * all + n + 1
           /\ 2 * all <= 2 * Sum5(t) + n + 1
           /\ n = 1 => Sum5(t) = all
<1>1. ASSUME NEW x \in Nat
      PROVE  /\ Tax(x, p) \in Nat /\ x * p \in Nat
             /\ 100 * Tax(x, p) <= x * p + 50 /\ x * p <= 100 * Tax(x, p) + 50
             /\ x = 0 => Tax(x, p) = 0 /\ x * p = 0
  <2>1. x * p \in Nat /\ (x = 0 => x * p = 0)
    OBVIOUS
  <2>2. /\ Tax(x, p) \in Nat
        /\ 100 * Tax(x, p) <= x * p + 50
        /\ x * p <= 100 * Tax(x, p) + 50
    BY TaxRounds
  <2>3. x = 0 => Tax(x, p) = 0
    BY NoTaxOnNothing
  <2> QED BY <2>1, <2>2, <2>3
<1>2. PICK t \in Five : t = [i \in 1 .. 5 |-> Tax(a[i], p)]
  BY <1>1 DEF Five, MAX_ROOMS_PER_TXN
<1>3. PICK y \in Five : y = [i \in 1 .. 5 |-> a[i] * p]
  BY <1>1 DEF Five, MAX_ROOMS_PER_TXN
<1>4. PICK s \in Nat : s = Sum5(a)
  BY Sum5Nat
<1>5. PICK all \in Nat : all = Tax(s, p)
  BY <1>1
<1>6. s * p = Sum5(y)
  BY <1>3, <1>4 DEF Five, MAX_ROOMS_PER_TXN, Sum5
<1>7. \A i \in 1 .. 5 :
        /\ 100 * t[i] <= y[i] + 50 /\ y[i] <= 100 * t[i] + 50
        /\ i > n => t[i] = 0 /\ y[i] = 0
  BY <1>1, <1>2, <1>3 DEF Five, MAX_ROOMS_PER_TXN, NoneAfter
<1>8. 100 * all <= Sum5(y) + 50 /\ Sum5(y) <= 100 * all + 50
  BY <1>1, <1>5, <1>6
<1>9. /\ 2 * Sum5(t) <= 2 * all + n + 1
      /\ 2 * all <= 2 * Sum5(t) + n + 1
  <2>1. /\ t[1] \in Nat /\ t[2] \in Nat /\ t[3] \in Nat /\ t[4] \in Nat /\ t[5] \in Nat
        /\ y[1] \in Nat /\ y[2] \in Nat /\ y[3] \in Nat /\ y[4] \in Nat /\ y[5] \in Nat
    BY DEF Five, MAX_ROOMS_PER_TXN
  <2>2. PICK ta \in Nat, tb \in Nat, tc \in Nat, td \in Nat, te \in Nat,
             ya \in Nat, yb \in Nat, yc \in Nat, yd \in Nat, ye \in Nat :
          /\ ta = t[1] /\ tb = t[2] /\ tc = t[3] /\ td = t[4] /\ te = t[5]
          /\ ya = y[1] /\ yb = y[2] /\ yc = y[3] /\ yd = y[4] /\ ye = y[5]
    BY <2>1, Zenon
  <2>3. /\ 100 * ta <= ya + 50 /\ ya <= 100 * ta + 50
        /\ 100 * tb <= yb + 50 /\ yb <= 100 * tb + 50
        /\ 100 * tc <= yc + 50 /\ yc <= 100 * tc + 50
        /\ 100 * td <= yd + 50 /\ yd <= 100 * td + 50
        /\ 100 * te <= ye + 50 /\ ye <= 100 * te + 50
    BY <1>7, <2>2
  <2>4. /\ n < 2 => tb = 0 /\ yb = 0
        /\ n < 3 => tc = 0 /\ yc = 0
        /\ n < 4 => td = 0 /\ yd = 0
        /\ n < 5 => te = 0 /\ ye = 0
    BY <1>7, <2>2
  <2>5. Sum5(t) = ta + tb + tc + td + te /\ Sum5(y) = ya + yb + yc + yd + ye
    BY <2>2 DEF Sum5
  <2>6. /\ 100 * all <= ya + yb + yc + yd + ye + 50
        /\ ya + yb + yc + yd + ye <= 100 * all + 50
    BY <1>8, <2>5
  <2>7. n = 1 \/ n = 2 \/ n = 3 \/ n = 4 \/ n = 5
    OBVIOUS
  <2>8. /\ 2 * (ta + tb + tc + td + te) <= 2 * all + n + 1
        /\ 2 * all <= 2 * (ta + tb + tc + td + te) + n + 1
    BY <2>3, <2>4, <2>6, <2>7
  <2> QED BY <2>5, <2>8
<1>10. n = 1 => Sum5(t) = all
  <2> SUFFICES ASSUME n = 1 PROVE Sum5(t) = all
    OBVIOUS
  <2>1. /\ a[1] \in Nat /\ a[2] = 0 /\ a[3] = 0 /\ a[4] = 0 /\ a[5] = 0
        /\ t[1] \in Nat /\ t[2] = 0 /\ t[3] = 0 /\ t[4] = 0 /\ t[5] = 0
    BY <1>7 DEF Five, MAX_ROOMS_PER_TXN, NoneAfter
  <2>2. s = a[1] /\ Sum5(t) = t[1]
    BY <1>4, <2>1 DEF Sum5
  <2> QED BY <1>2, <1>5, <2>2
<1> QED BY <1>2, <1>4, <1>5, <1>9, <1>10

\* The same for both taxes: what the rows of a stay come to, and its quote.
LEMMA WithTaxesOfSum ==
  ASSUME NEW n \in 1 .. 5, NEW nights \in Int, NEW a \in Five, NoneAfter(a, n)
  PROVE  \E w \in Five, all \in Nat :
           /\ w = [i \in 1 .. 5 |-> WithTaxes(a[i], nights)]
           /\ all = WithTaxes(Sum5(a), nights)
           /\ Sum5(w) <= all + n + 1 /\ all <= Sum5(w) + n + 1
           /\ n = 1 => Sum5(w) = all
<1>1. PICK w \in Five : w = [i \in 1 .. 5 |-> WithTaxes(a[i], nights)]
  BY WithTaxesNat DEF Five, MAX_ROOMS_PER_TXN
<1>2. PICK s \in Nat : s = Sum5(a)
  BY Sum5Nat
<1>3. PICK g \in Five, h \in Nat :
        /\ g = [i \in 1 .. 5 |-> Tax(a[i], 5)] /\ h = Tax(s, 5)
        /\ 2 * Sum5(g) <= 2 * h + n + 1 /\ 2 * h <= 2 * Sum5(g) + n + 1
        /\ n = 1 => Sum5(g) = h
  BY <1>2, TaxOfSum
<1>4. PICK k \in Five, l \in Nat :
        /\ k = [i \in 1 .. 5 |-> Tax(a[i], 6)] /\ l = Tax(s, 6)
        /\ 2 * Sum5(k) <= 2 * l + n + 1 /\ 2 * l <= 2 * Sum5(k) + n + 1
        /\ n = 1 => Sum5(k) = l
  BY <1>2, TaxOfSum
<1>5. Sum5(w) \in Nat /\ Sum5(g) \in Nat /\ Sum5(k) \in Nat
  BY Sum5Nat
<1>6. CASE nights < ATL_EXEMPT_NIGHTS
  <2>1. \A i \in 1 .. 5 : w[i] = a[i] + g[i] + k[i]
    BY <1>1, <1>3, <1>4, <1>6 DEF WithTaxes
  <2>2. Sum5(w) = s + Sum5(g) + Sum5(k)
    BY <1>2, <2>1 DEF Sum5, Five, MAX_ROOMS_PER_TXN
  <2>3. WithTaxes(s, nights) = s + h + l
    BY <1>3, <1>4, <1>6 DEF WithTaxes
  <2>4. /\ Sum5(w) <= s + h + l + n + 1 /\ s + h + l <= Sum5(w) + n + 1
        /\ n = 1 => Sum5(w) = s + h + l
    BY <1>3, <1>4, <1>5, <2>2
  <2> QED BY <1>1, <1>2, <2>3, <2>4
<1>7. CASE ~(nights < ATL_EXEMPT_NIGHTS)
  <2>1. \A i \in 1 .. 5 : w[i] = a[i] + g[i]
    BY <1>1, <1>3, <1>7 DEF WithTaxes, Five, MAX_ROOMS_PER_TXN
  <2>2. Sum5(w) = s + Sum5(g)
    BY <1>2, <2>1 DEF Sum5, Five, MAX_ROOMS_PER_TXN
  <2>3. WithTaxes(s, nights) = s + h
    BY <1>3, <1>7 DEF WithTaxes
  <2>4. /\ Sum5(w) <= s + h + n + 1 /\ s + h <= Sum5(w) + n + 1
        /\ n = 1 => Sum5(w) = s + h
    BY <1>3, <1>5, <2>2
  <2> QED BY <1>1, <1>2, <2>3, <2>4
<1> QED BY <1>6, <1>7

\* For the amounts of the rooms as the model has them.
LEMMA RowsAgreeWithQuote ==
  ASSUME NEW amounts \in Seq(Nat), Len(amounts) \in 1 .. MAX_ROOMS_PER_TXN,
         NEW nights \in Int
  PROVE  LET one == SumOf([i \in DOMAIN amounts |-> WithTaxes(amounts[i], nights)])
             all == WithTaxes(SumOf(amounts), nights)
             n == Len(amounts)
         IN  /\ one \in Nat /\ all \in Nat
             /\ Distance(one, all) <= IF n = 1 THEN 0 ELSE n + 1
<1>1. PICK n \in 1 .. 5 : n = Len(amounts)
  BY DEF MAX_ROOMS_PER_TXN
<1>2. DOMAIN amounts = 1 .. n /\ \A i \in 1 .. n : amounts[i] \in Nat
  BY <1>1, ElementOfSeq
<1>3. PICK a \in Five :
        a = [i \in 1 .. 5 |-> IF i \in DOMAIN amounts THEN amounts[i] ELSE 0]
  BY <1>2 DEF Five, MAX_ROOMS_PER_TXN
<1>4. NoneAfter(a, n)
  BY <1>2, <1>3 DEF NoneAfter, MAX_ROOMS_PER_TXN
<1>5. PICK w \in Five, all \in Nat :
        /\ w = [i \in 1 .. 5 |-> WithTaxes(a[i], nights)]
        /\ all = WithTaxes(Sum5(a), nights)
        /\ Sum5(w) <= all + n + 1 /\ all <= Sum5(w) + n + 1
        /\ n = 1 => Sum5(w) = all
  BY <1>4, WithTaxesOfSum
<1>6. SumOf(amounts) = Sum5(a)
  BY <1>3 DEF SumOf, Sum5
<1>7. WithTaxes(0, nights) = 0
  BY NoTaxOnNothing DEF WithTaxes
<1>8. SumOf([i \in DOMAIN amounts |-> WithTaxes(amounts[i], nights)]) = Sum5(w)
  <2>1. ASSUME NEW i \in 1 .. 5
        PROVE  w[i] = IF i \in DOMAIN amounts THEN WithTaxes(amounts[i], nights) ELSE 0
    BY <1>3, <1>5, <1>7
  <2> DEFINE f == [i \in DOMAIN amounts |-> WithTaxes(amounts[i], nights)]
  <2>2. /\ w[1] = IF 1 \in DOMAIN f THEN f[1] ELSE 0
        /\ w[2] = IF 2 \in DOMAIN f THEN f[2] ELSE 0
        /\ w[3] = IF 3 \in DOMAIN f THEN f[3] ELSE 0
        /\ w[4] = IF 4 \in DOMAIN f THEN f[4] ELSE 0
        /\ w[5] = IF 5 \in DOMAIN f THEN f[5] ELSE 0
    BY <2>1
  <2> HIDE DEF f
  <2>3. SumOf(f) = Sum5(w)
    BY <2>2 DEF SumOf, Sum5
  <2> QED BY <2>3 DEF f
<1>9. Sum5(w) \in Nat
  BY Sum5Nat
<1>10. Distance(Sum5(w), all) <= IF n = 1 THEN 0 ELSE n + 1
  <2>1. CASE n = 1
    <3>1. Sum5(w) = all
      BY <1>5, <2>1
    <3> QED BY <2>1, <3>1 DEF Distance
  <2>2. CASE n # 1
    <3>1. Sum5(w) <= all + n + 1 /\ all <= Sum5(w) + n + 1
      BY <1>5
    <3> QED BY <1>9, <2>2, <3>1 DEF Distance
  <2> QED BY <2>1, <2>2
<1> QED BY <1>1, <1>5, <1>6, <1>8, <1>9, <1>10

-----------------------------------------------------------------------------
(* What the amounts are made from.                                         *)

\* A request whose stay is priced: its quote is made from its prices.
Priced(r) ==
  /\ WindowOK(stay[r]) /\ Len(priced[r]) = Len(stay[r].rooms)
  /\ quote[r] = WithTaxes(Subtotal(r), stay[r].nights)

\* A request has priced no room before it begins, and never one too many; who asks
\* the RPC has a key, and who was told that the reservation is new made it.
Made(r) ==
  /\ Len(priced[r]) <= MAX_ROOMS_PER_TXN
  /\ pc[r] = "start" => priced[r] = <<>>
  /\ Pricing(r) => WindowOK(stay[r]) /\ Len(priced[r]) <= Len(stay[r].rooms)
  /\ pc[r] = "assign" => Priced(r)
  /\ pc[r] \in {"assign", "stored", "confirmed"} => key[r] # None
  /\ pc[r] \in {"stored", "confirmed"} =>
       maker[key[r]] # None /\ (~reused[r] => maker[key[r]] = r)
  /\ pc[r] = "confirmed" => total[r] = GrandTotal(key[r])

\* A reservation is what its maker, which prices no more, was quoted for.
SoldBy(m, k) ==
  /\ rows[k] = RowTotals(m) /\ Priced(m)
  /\ pc[m] \in {"stored", "confirmed", "refused", "killed"}

Sold(k) ==
  /\ maker[k] = None => rows[k] = <<>>
  /\ maker[k] # None => SoldBy(maker[k], k)

AmountTypes ==
  /\ found \in [Request -> 0 .. MAX_ROOMS_PER_TXN]
  /\ quote \in [Request -> Nat]
  /\ total \in [Request -> Nat]
  /\ reused \in [Request -> BOOLEAN]
  /\ rows \in [Key -> Seq(Nat)]
  /\ maker \in [Key -> Request \cup {None}]

Amounts ==
  /\ AmountTypes
  /\ \A r \in Request : Made(r)
  /\ \A k \in Key : Sold(k)

\* What the rules of a stay leave.
LEMMA WindowGives ==
  ASSUME NEW s, WindowOK(s)
  PROVE  s.nights \in Nat /\ Len(s.rooms) \in 1 .. 5
<1>1. s.nights \in 1 .. 90 /\ Len(s.rooms) \in 1 .. 5
  BY DEF WindowOK, MAX_STAY_NIGHTS, MAX_ROOMS_PER_TXN
<1> QED BY <1>1

\* The lines of a valid stay, as the operators add them up.
LEMMA LinesOfStay ==
  ASSUME Shape, NEW r \in Request, WindowOK(stay[r]),
         Len(priced[r]) = Len(stay[r].rooms)
  PROVE  \E lines \in Seq(Nat) :
           /\ Len(lines) \in 1 .. MAX_ROOMS_PER_TXN
           /\ Len(lines) = Len(priced[r])
           /\ Subtotal(r) = SumOf(lines)
           /\ RowTotals(r) = [i \in DOMAIN lines |-> WithTaxes(lines[i], stay[r].nights)]
<1>1. PICK n \in 1 .. 5 : n = Len(priced[r])
  BY WindowGives
<1>2. priced[r] \in Seq(Price) /\ DOMAIN priced[r] = 1 .. n
  BY <1>1 DEF Shape
<1>3. stay[r].nights \in Nat
  BY WindowGives
<1>4. ASSUME NEW i \in 1 .. n PROVE Line(r, i) \in Nat
  <2>1. priced[r][i] \in Price
    BY <1>2
  <2>2. priced[r][i].rate \in Nat
    BY <2>1, RateAssumption DEF Price
  <2> QED BY <1>3, <2>2 DEF Line
<1>5. PICK lines \in Seq(Nat) : lines = [i \in 1 .. n |-> Line(r, i)] /\ Len(lines) = n
  <2> DEFINE f == [i \in 1 .. n |-> Line(r, i)]
  <2>1. f \in [1 .. n -> Nat]
    BY <1>4
  <2>2. n \in Nat
    OBVIOUS
  <2> HIDE DEF f
  <2>3. f \in Seq(Nat) /\ Len(f) = n
    BY <2>1, <2>2, SeqDef
  <2> QED BY <2>3 DEF f
<1>6. Subtotal(r) = SumOf(lines)
  BY <1>2, <1>5 DEF Subtotal
<1>7. RowTotals(r) = [i \in DOMAIN lines |-> WithTaxes(lines[i], stay[r].nights)]
  BY <1>2, <1>5 DEF RowTotals
<1> QED BY <1>1, <1>5, <1>6, <1>7 DEF MAX_ROOMS_PER_TXN

\* What is answered, stored and confirmed are amounts, and close to each other.
LEMMA AmountsOfStay ==
  ASSUME Shape, NEW r \in Request, WindowOK(stay[r]),
         Len(priced[r]) = Len(stay[r].rooms)
  PROVE  LET quoted == WithTaxes(Subtotal(r), stay[r].nights)
             n == Len(stay[r].rooms)
         IN  /\ quoted \in Nat /\ SumOf(RowTotals(r)) \in Nat
             /\ RowTotals(r) \in Seq(Nat) /\ Len(RowTotals(r)) = n
             /\ Distance(SumOf(RowTotals(r)), quoted) <= IF n = 1 THEN 0 ELSE n + 1
<1>1. PICK lines \in Seq(Nat) :
        /\ Len(lines) \in 1 .. MAX_ROOMS_PER_TXN
        /\ Len(lines) = Len(stay[r].rooms)
        /\ Subtotal(r) = SumOf(lines)
        /\ RowTotals(r) = [i \in DOMAIN lines |-> WithTaxes(lines[i], stay[r].nights)]
  BY LinesOfStay
<1>2. stay[r].nights \in Int
  BY WindowGives
<1>3. RowTotals(r) \in Seq(Nat) /\ Len(RowTotals(r)) = Len(lines)
  <2>1. \A i \in DOMAIN lines : WithTaxes(lines[i], stay[r].nights) \in Nat
    BY WithTaxesNat
  <2>2. RowTotals(r) \in [1 .. Len(lines) -> Nat]
    BY <1>1, <2>1
  <2> QED BY <2>2
<1> QED BY <1>1, <1>2, <1>3, RowsAgreeWithQuote

-----------------------------------------------------------------------------
(* The amounts of a request change at its own steps only.                  *)

\* What a request was priced at stays as long as its prices and its quote do.
LEMMA PricedKept ==
  ASSUME NEW r \in Request, stay' = stay, priced'[r] = priced[r], quote'[r] = quote[r]
  PROVE  (Priced(r)' <=> Priced(r)) /\ RowTotals(r)' = RowTotals(r)
<1>1. Subtotal(r)' = Subtotal(r) /\ RowTotals(r)' = RowTotals(r)
  BY DEF Subtotal, RowTotals, Line
<1> QED BY <1>1 DEF Priced, WindowOK

\* A step that leaves the amounts of a request and moves it, if at all, out of
\* the way or to its next room keeps what they were made from.
LEMMA MadeKept ==
  ASSUME NEW r \in Request, Made(r), UNCHANGED <<stay, key, saleVars>>,
         priced'[r] = priced[r], quote'[r] = quote[r], total'[r] = total[r],
         reused'[r] = reused[r],
         pc'[r] = pc[r] \/ pc'[r] \in {"refused", "killed"}
                        \/ (Pricing(r) /\ pc'[r] \in {"price", "fetch", "fill"})
  PROVE  Made(r)'
<1>1. Priced(r)' <=> Priced(r)
  BY PricedKept
<1>2. GrandTotal(key[r])' = GrandTotal(key[r])
  BY DEF GrandTotal, saleVars
<1> QED BY <1>1, <1>2 DEF Made, Pricing, WindowOK, saleVars

\* No reservation changes while its maker's prices and quote do not.
LEMMA SoldKept ==
  ASSUME NEW k \in Key, Sold(k), AmountTypes, UNCHANGED <<stay, saleVars>>,
         maker[k] # None =>
           /\ priced'[maker[k]] = priced[maker[k]] /\ quote'[maker[k]] = quote[maker[k]]
           /\ pc'[maker[k]] = pc[maker[k]]
                \/ pc'[maker[k]] \in {"stored", "confirmed", "refused", "killed"}
  PROVE  Sold(k)'
<1>1. CASE maker[k] = None
  BY <1>1 DEF Sold, saleVars
<1>2. CASE maker[k] # None
  <2>1. maker[k] \in Request
    BY <1>2 DEF AmountTypes
  <2>2. (Priced(maker[k])' <=> Priced(maker[k])) /\ RowTotals(maker[k])' = RowTotals(maker[k])
        /\ maker'[k] = maker[k] /\ rows'[k] = rows[k]
    BY <1>2, <2>1, PricedKept DEF saleVars
  <2>3. SoldBy(maker[k], k)
    BY <1>2 DEF Sold
  <2>4. SoldBy(maker[k], k)'
    BY <1>2, <2>2, <2>3 DEF SoldBy, saleVars
  <2> QED BY <1>2, <2>2, <2>4 DEF Sold
<1> QED BY <1>1, <1>2

\* A request that prices, assigns or is done with a quote made no reservation, so
\* its steps keep all of them.
LEMMA OwnStepKeepsSold ==
  ASSUME IInv, Amounts, NEW r \in Request, UNCHANGED <<stay, saleVars>>,
         \A q \in Request : q # r => /\ priced'[q] = priced[q] /\ quote'[q] = quote[q]
                                     /\ pc'[q] = pc[q],
         pc[r] \notin {"stored", "confirmed", "refused", "killed"}
  PROVE  \A k \in Key : Sold(k)'
<1> TAKE k \in Key
<1>1. maker[k] # r
  <2>1. r # None
    BY NoneAssumption
  <2>2. maker[k] # None => pc[maker[k]] \in {"stored", "confirmed", "refused", "killed"}
    BY DEF Amounts, Sold, SoldBy
  <2> QED BY <2>1, <2>2
<1>2. maker[k] # None => maker[k] \in Request
  BY DEF Amounts, AmountTypes
<1> QED BY <1>1, <1>2, SoldKept DEF Amounts

\* Who asks for a room more has one room more to price.
LEMMA PriceAdded ==
  ASSUME IInv, NEW r \in Request, Made(r), NEW data \in Data,
         RoomsLeft(r), Pricing(r), AddPrice(r, data), UNCHANGED <<stay, key>>
  PROVE  Made(r)'
<1>1. PriceFrom(data, Room(r).code) \in Price /\ priced[r] \in Seq(Price)
  BY RoomHasCode, PriceFromGives DEF IInv, Shape
<1>2. Len(priced[r]) \in Nat /\ Len(priced'[r]) = Len(priced[r]) + 1 /\ pc'[r] = "price"
  BY <1>1 DEF AddPrice, Goto, IInv, Shape
<1>3. WindowOK(stay[r]) /\ WindowOK(stay[r])' /\ Len(priced[r]) < Len(stay[r].rooms)
  BY DEF Made, WindowOK, RoomsLeft
<1>4. PICK n \in 1 .. 5, m \in Nat :
        n = Len(stay[r].rooms) /\ m = Len(priced[r]) /\ m < n
  BY <1>2, <1>3, WindowGives
<1>5. \A k \in 1 .. 5, l \in Nat : l < k => l + 1 <= 5 /\ l + 1 <= k
  OBVIOUS
<1>6. Len(priced'[r]) <= 5 /\ Len(priced'[r]) <= Len(stay'[r].rooms)
  BY <1>2, <1>4, <1>5, Zenon
<1> QED BY <1>2, <1>3, <1>6 DEF Made, Pricing, MAX_ROOMS_PER_TXN

\* Nothing is priced, quoted or stored in the beginning.
LEMMA InitAmounts == Init => Amounts
<1> SUFFICES ASSUME Init PROVE Amounts
  OBVIOUS
<1>1. AmountTypes
  BY DEF Init, AmountTypes, MAX_ROOMS_PER_TXN
<1>2. ASSUME NEW r \in Request PROVE Made(r)
  BY DEF Init, Made, Pricing, MAX_ROOMS_PER_TXN
<1>3. ASSUME NEW k \in Key PROVE Sold(k)
  BY DEF Init, Sold
<1> QED BY <1>1, <1>2, <1>3 DEF Amounts

\* A reservation is stored under a free key, and is what its maker was quoted.
LEMMA StoreKeepsAmounts ==
  ASSUME IInv, Amounts, NEW r \in Request, Store(r)
  PROVE  Amounts'
<1>0. /\ AmountTypes /\ pc[r] = "assign" /\ key[r] # None /\ Priced(r)
      /\ Len(priced[r]) <= MAX_ROOMS_PER_TXN
      /\ \A q \in Request : Made(q)
      /\ pc \in [Request -> Pcs] /\ key \in [Request -> Key \cup {None}]
  BY DEF Store, Amounts, Made, IInv, Shape
<1>1. key[r] \in Key
  BY <1>0
<1>2. /\ UNCHANGED <<stay, key, priced, quote, total, found>>
      /\ pc'[r] \in {"stored", "refused"}
      /\ \A q \in Request : q # r => pc'[q] = pc[q]
  BY <1>0 DEF Store, Goto
<1>3. ASSUME NEW q \in Request PROVE (Priced(q)' <=> Priced(q)) /\ RowTotals(q)' = RowTotals(q)
  BY <1>2, PricedKept
<1>4. CASE maker[key[r]] = None
  <2>1. /\ rows' = [rows EXCEPT ![key[r]] = RowTotals(r)]
        /\ maker' = [maker EXCEPT ![key[r]] = r] /\ UNCHANGED reused
    BY <1>4 DEF Store
  <2>2. RowTotals(r) \in Seq(Nat)
    BY <1>0, AmountsOfStay DEF Priced, IInv
  <2>3. AmountTypes'
    BY <1>0, <1>2, <2>1, <2>2 DEF AmountTypes
  <2>4. rows'[key[r]] = RowTotals(r) /\ maker'[key[r]] = r
        /\ \A k \in Key : k # key[r] => rows'[k] = rows[k] /\ maker'[k] = maker[k]
    BY <1>0, <1>1, <2>1 DEF AmountTypes
  <2>5. ASSUME NEW q \in Request, q # r PROVE Made(q)'
    <3>1. pc'[q] = pc[q] /\ Made(q) /\ (Priced(q)' <=> Priced(q))
      BY <1>0, <1>2, <1>3, <2>5
    <3>2. CASE pc[q] \in {"stored", "confirmed"}
      <4>1. key[q] \in Key /\ key[q] # key[r]
        BY <1>0, <1>4, <3>1, <3>2 DEF Made
      <4>2. rows'[key[q]] = rows[key[q]] /\ maker'[key[q]] = maker[key[q]]
        BY <2>4, <4>1
      <4>3. GrandTotal(key[q])' = GrandTotal(key[q])
        BY <1>2, <4>2 DEF GrandTotal
      <4> QED BY <1>2, <2>1, <3>1, <3>2, <4>2, <4>3 DEF Made, Pricing
    <3>3. CASE pc[q] \notin {"stored", "confirmed"}
      BY <1>2, <3>1, <3>3 DEF Made, Pricing, WindowOK
    <3> QED BY <3>2, <3>3
  <2>6. Made(r)'
    <3>1. maker'[key'[r]] = r /\ r # None /\ key'[r] # None
      BY <1>0, <1>2, <2>4, NoneAssumption
    <3>2. Len(priced'[r]) <= MAX_ROOMS_PER_TXN
      BY <1>0, <1>2
    <3> QED BY <1>2, <3>1, <3>2 DEF Made, Pricing
  <2>7. ASSUME NEW k \in Key PROVE Sold(k)'
    <3>1. CASE k = key[r]
      <4>1. SoldBy(r, k)'
        BY <1>0, <1>2, <1>3, <2>4, <3>1 DEF SoldBy
      <4>2. r # None
        BY NoneAssumption
      <4> QED BY <2>4, <3>1, <4>1, <4>2 DEF Sold
    <3>2. CASE k # key[r]
      <4>1. rows'[k] = rows[k] /\ maker'[k] = maker[k] /\ Sold(k)
        BY <2>4, <3>2 DEF Amounts
      <4>2. CASE maker[k] = None
        BY <4>1, <4>2 DEF Sold
      <4>3. CASE maker[k] # None
        <5>1. maker[k] \in Request /\ maker[k] # r /\ SoldBy(maker[k], k)
          BY <1>0, <4>1, <4>3 DEF AmountTypes, Sold, SoldBy
        <5>2. SoldBy(maker[k], k)'
          BY <1>2, <1>3, <4>1, <5>1 DEF SoldBy
        <5> QED BY <4>1, <4>3, <5>2 DEF Sold
      <4> QED BY <4>2, <4>3
    <3> QED BY <3>1, <3>2
  <2> QED BY <2>3, <2>5, <2>6, <2>7 DEF Amounts
<1>5. CASE maker[key[r]] # None
  <2>1. reused' = [reused EXCEPT ![r] = TRUE] /\ UNCHANGED saleVars
    BY <1>5 DEF Store
  <2>2. AmountTypes'
    BY <1>0, <1>2, <2>1 DEF AmountTypes, saleVars
  <2>3. ASSUME NEW q \in Request, q # r PROVE Made(q)'
    BY <1>0, <1>2, <2>1, <2>3, MadeKept DEF AmountTypes
  <2>4. Made(r)'
    BY <1>0, <1>2, <1>5, <2>1 DEF Made, Pricing, AmountTypes, saleVars
  <2>5. \A k \in Key : Sold(k)'
    BY <1>0, <1>2, <2>1, OwnStepKeepsSold
  <2> QED BY <2>2, <2>3, <2>4, <2>5 DEF Amounts
<1> QED BY <1>4, <1>5

\* Every step keeps what the amounts are made from.
LEMMA NextAmounts == IInv /\ Amounts /\ [Next]_vars => Amounts'
<1> SUFFICES ASSUME IInv, Amounts, [Next]_vars PROVE Amounts'
  OBVIOUS
<1> USE DEF localVars
<1>0. /\ AmountTypes /\ pc \in [Request -> Pcs] /\ priced \in [Request -> Seq(Price)]
      /\ key \in [Request -> Key \cup {None}]
      /\ \A q \in Request : Made(q)
      /\ \A k \in Key : Sold(k)
  BY DEF Amounts, IInv, Shape
<1>1. ASSUME NEW r \in Request, Begin(r) PROVE Amounts'
  <2>0. /\ UNCHANGED <<stay, key, localVars, saleVars>> /\ pc[r] = "start"
        /\ pc'[r] = IF WindowOK(stay[r]) THEN "price" ELSE "refused"
        /\ \A q \in Request : q # r => pc'[q] = pc[q]
    BY <1>0, <1>1 DEF Begin, Goto
  <2>1. ASSUME NEW q \in Request, q # r PROVE Made(q)'
    BY <1>0, <2>0, <2>1, MadeKept
  <2>2. Made(r)'
    <3>1. priced[r] = <<>>
      BY <1>0, <2>0 DEF Made
    <3>2. WindowOK(stay[r])' <=> WindowOK(stay[r])
      BY <2>0 DEF WindowOK
    <3>3. WindowOK(stay[r]) => 0 <= Len(stay[r].rooms)
      BY DEF WindowOK
    <3> QED BY <2>0, <3>1, <3>2, <3>3 DEF Made, Pricing, MAX_ROOMS_PER_TXN
  <2>3. \A k \in Key : Sold(k)'
    BY <2>0, OwnStepKeepsSold
  <2>4. AmountTypes'
    BY <1>0, <2>0 DEF AmountTypes, saleVars
  <2> QED BY <2>1, <2>2, <2>3, <2>4 DEF Amounts
<1>2. ASSUME NEW r \in Request, PriceRoom(r) \/ Fill(r) PROVE Amounts'
  <2>0. /\ UNCHANGED <<stay, key, found, quote, total, reused, saleVars>>
        /\ Pricing(r) /\ RoomsLeft(r)
        /\ \/ UNCHANGED priced /\ pc' = [pc EXCEPT ![r] = "fetch"]
           \/ \E data \in Data : AddPrice(r, data)
    <3>1. CASE PriceRoom(r)
      BY <3>1 DEF PriceRoom, Pricing, Goto, IInv, Shape
    <3>2. CASE Fill(r)
      BY <3>2 DEF Fill, Pricing, IInv, Shape, InHand
    <3> QED BY <1>2, <3>1, <3>2
  <2>1. /\ \A q \in Request : q # r => pc'[q] = pc[q] /\ priced'[q] = priced[q]
        /\ pc'[r] \in {"price", "fetch"}
    BY <1>0, <2>0 DEF AddPrice, Goto
  <2>2. ASSUME NEW q \in Request, q # r PROVE Made(q)'
    BY <1>0, <2>0, <2>1, <2>2, MadeKept
  <2>3. Made(r)'
    <3>1. CASE \E data \in Data : AddPrice(r, data)
      BY <1>0, <2>0, <3>1, PriceAdded
    <3>2. CASE UNCHANGED priced
      BY <1>0, <2>0, <2>1, <3>2, MadeKept
    <3> QED BY <2>0, <3>1, <3>2
  <2>4. \A k \in Key : Sold(k)'
    BY <2>0, <2>1, OwnStepKeepsSold DEF Pricing
  <2>5. AmountTypes'
    BY <1>0, <2>0 DEF AmountTypes, saleVars
  <2> QED BY <2>2, <2>3, <2>4, <2>5 DEF Amounts
<1>3. ASSUME NEW r \in Request, Fetch(r) \/ RefuseGuests(r) \/ Refuse(r) PROVE Amounts'
  <2>0. /\ UNCHANGED <<stay, key, priced, found, quote, total, reused, saleVars>>
        /\ pc[r] \in {"price", "fetch", "assign"}
        /\ pc'[r] = "refused" \/ (Pricing(r) /\ pc'[r] = "fill")
        /\ \A q \in Request : q # r => pc'[q] = pc[q]
    BY <1>0, <1>3 DEF Fetch, RefuseGuests, Refuse, Goto, Pricing
  <2>1. ASSUME NEW q \in Request PROVE Made(q)'
    BY <1>0, <2>0, MadeKept
  <2>2. \A k \in Key : Sold(k)'
    BY <2>0, OwnStepKeepsSold
  <2>3. AmountTypes'
    BY <1>0, <2>0 DEF AmountTypes, saleVars
  <2> QED BY <2>1, <2>2, <2>3 DEF Amounts
<1>4. ASSUME NEW r \in Request, Answer(r) PROVE Amounts'
  <2>0. /\ UNCHANGED <<stay, key, priced, found, total, reused, saleVars>>
        /\ pc[r] = "price" /\ ~RoomsLeft(r)
        /\ pc'[r] = IF key[r] = None THEN "answered" ELSE "assign"
        /\ quote' = [quote EXCEPT ![r] = WithTaxes(Subtotal(r), stay[r].nights)]
        /\ \A q \in Request : q # r => pc'[q] = pc[q]
    BY <1>0, <1>4 DEF Answer, Goto
  <2>1. /\ quote'[r] = WithTaxes(Subtotal(r), stay[r].nights)
        /\ \A q \in Request : q # r => quote'[q] = quote[q]
    BY <1>0, <2>0 DEF AmountTypes
  <2>2. ASSUME NEW q \in Request, q # r PROVE Made(q)'
    BY <1>0, <2>0, <2>1, <2>2, MadeKept
  <2>3. WindowOK(stay[r]) /\ Len(priced[r]) = Len(stay[r].rooms)
    <3>1. WindowOK(stay[r]) /\ Len(priced[r]) <= Len(stay[r].rooms)
      BY <1>0, <2>0 DEF Made, Pricing
    <3>2. Len(priced[r]) \in Nat /\ Len(stay[r].rooms) \in Nat
      BY <1>0, <3>1 DEF WindowOK
    <3> QED BY <2>0, <3>1, <3>2 DEF RoomsLeft
  <2>4. WithTaxes(Subtotal(r), stay[r].nights) \in Nat
    BY <2>3, AmountsOfStay DEF IInv
  <2>5. Priced(r)'
    <3>1. Subtotal(r)' = Subtotal(r) /\ WindowOK(stay[r])'
      BY <2>0, <2>3 DEF Subtotal, Line, WindowOK
    <3> QED BY <2>0, <2>1, <2>3, <3>1 DEF Priced
  <2>6. Made(r)'
    <3>1. Len(priced[r]) <= MAX_ROOMS_PER_TXN
      BY <1>0 DEF Made
    <3> QED BY <2>0, <2>5, <3>1 DEF Made, Pricing
  <2>7. \A k \in Key : Sold(k)'
    BY <2>0, <2>1, OwnStepKeepsSold
  <2>8. AmountTypes'
    BY <1>0, <2>0, <2>4 DEF AmountTypes, saleVars
  <2> QED BY <2>2, <2>6, <2>7, <2>8 DEF Amounts
<1>5. ASSUME NEW r \in Request, AssignRoom(r) PROVE Amounts'
  <2>0. /\ UNCHANGED <<stay, key, pc, priced, quote, total, reused, saleVars>>
        /\ pc[r] = "assign" /\ found[r] < Len(priced[r])
        /\ found' = [found EXCEPT ![r] = found[r] + 1]
    BY <1>5 DEF AssignRoom
  <2>1. ASSUME NEW q \in Request PROVE Made(q)'
    BY <1>0, <2>0, MadeKept
  <2>2. \A k \in Key : Sold(k)'
    BY <2>0, OwnStepKeepsSold
  <2>3. found[r] + 1 \in 0 .. MAX_ROOMS_PER_TXN
    <3>1. Len(priced[r]) \in Nat /\ Len(priced[r]) <= 5 /\ found[r] \in 0 .. 5
      BY <1>0 DEF Made, AmountTypes, MAX_ROOMS_PER_TXN
    <3>2. PICK n \in Nat, f \in 0 .. 5 : n = Len(priced[r]) /\ f = found[r] /\ n <= 5 /\ f < n
      BY <2>0, <3>1
    <3> QED BY <3>2 DEF MAX_ROOMS_PER_TXN
  <2>4. AmountTypes'
    BY <1>0, <2>0, <2>3 DEF AmountTypes, saleVars
  <2> QED BY <2>1, <2>2, <2>4 DEF Amounts
<1>6. ASSUME NEW r \in Request, Store(r) PROVE Amounts'
  BY <1>6, StoreKeepsAmounts
<1>7. ASSUME NEW r \in Request, Confirm(r) PROVE Amounts'
  <2>0. /\ UNCHANGED <<stay, key, priced, found, quote, reused, saleVars>>
        /\ pc[r] = "stored" /\ pc'[r] = "confirmed"
        /\ total' = [total EXCEPT ![r] = GrandTotal(key[r])]
        /\ \A q \in Request : q # r => pc'[q] = pc[q]
    BY <1>0, <1>7 DEF Confirm, Goto
  <2>1. /\ total'[r] = GrandTotal(key[r])
        /\ \A q \in Request : q # r => total'[q] = total[q]
    BY <1>0, <2>0 DEF AmountTypes
  <2>2. ASSUME NEW q \in Request, q # r PROVE Made(q)'
    BY <1>0, <2>0, <2>1, <2>2, MadeKept
  <2>3. GrandTotal(key[r])' = GrandTotal(key[r])
    BY <2>0 DEF GrandTotal, saleVars
  <2>4. Made(r)'
    BY <1>0, <2>0, <2>1, <2>3 DEF Made, Pricing, saleVars
  <2>5. GrandTotal(key[r]) \in Nat
    <3>1. key[r] \in Key /\ maker[key[r]] # None
      BY <1>0, <2>0 DEF Made
    <3>2. maker[key[r]] \in Request /\ SoldBy(maker[key[r]], key[r])
      BY <1>0, <3>1 DEF AmountTypes, Sold
    <3>3. SumOf(RowTotals(maker[key[r]])) \in Nat
      BY <3>2, AmountsOfStay DEF SoldBy, Priced, IInv
    <3> QED BY <3>2, <3>3 DEF GrandTotal, SoldBy
  <2>6. ASSUME NEW k \in Key PROVE Sold(k)'
    <3>1. maker[k] # None => maker[k] \in Request
      BY <1>0 DEF AmountTypes
    <3> QED BY <1>0, <2>0, <3>1, SoldKept
  <2>7. AmountTypes'
    BY <1>0, <2>0, <2>5 DEF AmountTypes, saleVars
  <2> QED BY <2>2, <2>4, <2>6, <2>7 DEF Amounts
<1>8. CASE \/ \E code \in Code, value \in Rate \cup Flaw : ChangeRow(code, value)
           \/ GoDown \/ ComeBack \/ Restart \/ UNCHANGED vars
  <2>0. UNCHANGED <<stay, key, priced, found, quote, total, reused, saleVars>>
        /\ \A q \in Request : pc'[q] \in {pc[q], "killed"}
    BY <1>0, <1>8 DEF ChangeRow, GoDown, ComeBack, Restart, vars
  <2>1. ASSUME NEW q \in Request PROVE Made(q)'
    BY <1>0, <2>0, MadeKept
  <2>2. ASSUME NEW k \in Key PROVE Sold(k)'
    <3>1. maker[k] # None => maker[k] \in Request
      BY <1>0 DEF AmountTypes
    <3> QED BY <1>0, <2>0, <3>1, SoldKept
  <2>3. AmountTypes'
    BY <1>0, <2>0 DEF AmountTypes, saleVars
  <2> QED BY <2>1, <2>2, <2>3 DEF Amounts
<1> QED
  BY <1>1, <1>2, <1>3, <1>4, <1>5, <1>6, <1>7, <1>8 DEF Next, Serve

-----------------------------------------------------------------------------
\* The invariant, of data and of amounts.
LEMMA AmountsHold == Spec => [](IInv /\ Amounts)
<1>1. Init => IInv /\ Amounts
  BY InitInvariant, InitAmounts
<1>2. IInv /\ Amounts /\ [Next]_vars => (IInv /\ Amounts)'
  BY NextInvariant, NextAmounts
<1> QED BY <1>1, <1>2, PTL DEF Spec

\* Every variable keeps its type: data is rates of room types, all of them or
\* some, no stay is priced past its rooms, and amounts are numbers of cents.
THEOREM TypeCorrect == Spec => []TypeOK
<1>1. IInv /\ Amounts => TypeOK
  <2> SUFFICES ASSUME IInv, Amounts PROVE TypeOK
    OBVIOUS
  <2>1. ASSUME NEW r \in Request
        PROVE  priced[r] \in Seq(Price) /\ Len(priced[r]) <= MAX_ROOMS_PER_TXN
    BY DEF IInv, Shape, Amounts, Made
  <2>2. ASSUME NEW k \in Key
        PROVE  rows[k] \in Seq(Nat) /\ Len(rows[k]) <= MAX_ROOMS_PER_TXN
    <3>1. rows[k] \in Seq(Nat) /\ Sold(k)
      BY DEF Amounts, AmountTypes
    <3>2. CASE maker[k] = None
      BY <3>1, <3>2 DEF Sold, MAX_ROOMS_PER_TXN
    <3>3. CASE maker[k] # None
      <4>1. maker[k] \in Request /\ SoldBy(maker[k], k)
        BY <3>1, <3>3 DEF Sold, Amounts, AmountTypes
      <4>2. Len(rows[k]) = Len(stay[maker[k]].rooms) /\ Len(stay[maker[k]].rooms) \in 1 .. 5
        BY <4>1, AmountsOfStay, WindowGives DEF SoldBy, Priced, IInv
      <4>3. PICK n \in 1 .. 5 : n = Len(rows[k])
        BY <4>2
      <4>4. \A l \in 1 .. 5 : l <= 5
        OBVIOUS
      <4>5. Len(rows[k]) <= 5
        BY <4>3, <4>4, Zenon
      <4> QED BY <3>1, <4>5 DEF MAX_ROOMS_PER_TXN
    <3> QED BY <3>1, <3>2, <3>3
  <2> QED BY <2>1, <2>2 DEF TypeOK, IInv, Shape, Pcs, Amounts, AmountTypes
<1> QED BY <1>1, AmountsHold, PTL

\* However rates, caches and retries with the same key go on, every confirmation
\* asks for the price its reservation's maker was quoted, to the roundings of the
\* rows' taxes, and who is told that the reservation is new is the maker.
THEOREM SaleIsConfirmed == Spec => []ConfirmsTheSale
<1>1. IInv /\ Amounts => ConfirmsTheSale
  <2> SUFFICES ASSUME IInv, Amounts, NEW r \in Request, pc[r] = "confirmed"
               PROVE  LET m == maker[key[r]]
                          n == Len(rows[key[r]])
                      IN
                      /\ m # None /\ n = Len(stay[m].rooms)
                      /\ ~reused[r] => m = r
                      /\ Distance(total[r], quote[m]) <= IF n = 1 THEN 0 ELSE n + 1
    BY DEF ConfirmsTheSale
  <2> DEFINE m == maker[key[r]]
  <2>1. /\ key[r] \in Key /\ m # None /\ (~reused[r] => m = r)
        /\ total[r] = GrandTotal(key[r])
    BY DEF Amounts, Made, IInv, Shape
  <2>2. m \in Request /\ SoldBy(m, key[r])
    BY <2>1 DEF Amounts, AmountTypes, Sold
  <2>3. /\ Priced(m) /\ rows[key[r]] = RowTotals(m) /\ total[r] = SumOf(RowTotals(m))
    BY <2>1, <2>2 DEF SoldBy, GrandTotal
  <2> HIDE DEF m
  <2>4. LET n == Len(stay[m].rooms) IN
        /\ Len(RowTotals(m)) = n
        /\ Distance(SumOf(RowTotals(m)), quote[m]) <= IF n = 1 THEN 0 ELSE n + 1
    BY <2>2, <2>3, AmountsOfStay DEF Priced, IInv
  <2> QED BY <2>1, <2>3, <2>4 DEF m
<1> QED BY <1>1, AmountsHold, PTL
=============================================================================
