------------------------ MODULE PaymentCompletionProofs ------------------------
(***************************************************************************)
(* Theorems about PaymentCompletion, for any number of requests, sessions  *)
(* and keys.  What goes on inside the registrar is taken from its own      *)
(* proofs: every step here is one of the registrar's, or leaves it alone.  *)
(***************************************************************************)
EXTENDS PaymentCompletion, TLAPS

Proved == INSTANCE CredentialRegistrationProofs WITH Call <- Worker, Booking <- Session

-----------------------------------------------------------------------------
(* The inductive invariant.                                                *)

\* A key belongs to one session: it was minted for the request that has it,
\* and its row, if any, was written for that request.
Custody ==
  /\ \A s \in Session : attempt[s] \in minted \cup {None}
  /\ \A w \in Worker :
       /\ pc[w] = "claim" => key[w] = None
       /\ key[w] # None =>
            /\ key[w] \in minted /\ booking[w] = SessionOf[w]
            /\ \A s \in Session : attempt[s] = key[w] => s = SessionOf[w]
  /\ \A k \in Key :
       /\ status[k] = "absent" => owner[k] = None
       /\ status[k] # "absent" => \E w \in Worker : key[w] = k /\ owner[k] = SessionOf[w]
       /\ \A s \in Session :
            <<k, s>> \in posted => \E w \in Worker : key[w] = k /\ s = SessionOf[w]

\* An attempt that is not the current one has failed, and so has the last one
\* of a session that expired; Moneris refused its card, unless an operator
\* ended the session.
PastFailed ==
  \A w \in Worker :
    LET s == SessionOf[w] IN
    key[w] # None =>
      /\ attempt[s] # key[w] \/ session[s] = "EXPIRED" => status[key[w]] = "FAILED"
      /\ status[key[w]] = "FAILED" /\ session[s] # "EXPIRED" => moneris[key[w]] = "declined"

\* The session and its reservation go together.
Lifecycle ==
  \A s \in Session :
    /\ session[s] = "OPEN" => attempt[s] = None /\ reservation[s] = "pending_payment"
    /\ session[s] = "PROCESSING" => attempt[s] # None /\ reservation[s] = "pending_payment"
    /\ session[s] = "CONSUMED" =>
         /\ attempt[s] # None /\ status[attempt[s]] = "SUCCEEDED"
         /\ reservation[s] = "confirmed"
    /\ session[s] = "EXPIRED" => reservation[s] = "cancelled"

\* Whoever loads the confirmation, or has, knows the session to be consumed.
Told ==
  \A w \in Worker :
    pc[w] = "load" \/ reply[w] = "success" => session[SessionOf[w]] = "CONSUMED"

IInv ==
  TypeOK /\ Registrar!RegistrarInv /\ Custody /\ PastFailed /\ Lifecycle /\ Told

-----------------------------------------------------------------------------
(* The registrar.                                                          *)

\* The instance that is used here and the one that is proved are the same.
LEMMA SameSteps == [Registrar!Next]_Registrar!vars <=> [Proved!Next]_Proved!vars
BY DEF Proved!GetByKey, Registrar!GetByKey, Proved!GetActive, Registrar!GetActive,
  Proved!Begin, Registrar!Begin, Proved!ResolveByKey, Registrar!ResolveByKey,
  Proved!ResolveActive, Registrar!ResolveActive, Proved!Raced, Registrar!Raced,
  Proved!ValidateAccepted, Registrar!ValidateAccepted, Proved!ValidateDeclined,
  Registrar!ValidateDeclined, Proved!ValidateAmbiguous,
  Registrar!ValidateAmbiguous, Proved!ValidateInvalid, Registrar!ValidateInvalid,
  Proved!ValidateNoToken, Registrar!ValidateNoToken, Proved!MarkSucceeded,
  Registrar!MarkSucceeded, Proved!Reread, Registrar!Reread, Proved!MarkUnsure,
  Registrar!MarkUnsure, Proved!Recheck, Registrar!Recheck, Proved!MarkFailed,
  Registrar!MarkFailed, Proved!MarkHeld, Registrar!MarkHeld, Proved!LoseDatabase,
  Registrar!LoseDatabase, Proved!Die, Registrar!Die, Proved!Goto, Registrar!Goto,
  Proved!Return, Registrar!Return, Proved!rowVars, Registrar!rowVars,
  Proved!callVars, Registrar!callVars, Proved!Resume, Registrar!Resume,
  Proved!HasActive, Registrar!HasActive, Proved!Active, Registrar!Active,
  Proved!Writable, Registrar!Writable, Proved!Insert, Registrar!Insert,
  Proved!MonerisAnswers, Registrar!MonerisAnswers, Proved!Patch, Registrar!Patch,
  Proved!Delay, Registrar!Delay, Proved!Reads, Registrar!Reads, Proved!Status,
  Registrar!Status, Proved!Step, Registrar!Step, Proved!Result, Registrar!Result,
  Proved!Settle, Registrar!Settle, Proved!Release, Registrar!Release,
  Proved!Deliver, Registrar!Deliver, Proved!DeliverInsert,
  Registrar!DeliverInsert, Proved!ConfirmedFailure, Registrar!ConfirmedFailure,
  Proved!Environment, Registrar!Environment, Proved!Finished, Registrar!Finished,
  Proved!Start, Registrar!Start, Proved!Work, Registrar!Work, Proved!Next,
  Registrar!Next, Proved!vars, Registrar!vars

\* The registrar's own proof, for the instance that is used here.
LEMMA RegistrarKeepsInv ==
  Registrar!RegistrarInv /\ [Registrar!Next]_Registrar!vars => Registrar!RegistrarInv'
<1>1. [Registrar!Next]_Registrar!vars <=> [Proved!Next]_Proved!vars
  BY SameSteps
<1>2. /\ Registrar!RegistrarInv <=> Proved!RegistrarInv
      /\ Registrar!RegistrarInv' <=> Proved!RegistrarInv'
  BY DEF Proved!RegistrarInv, Registrar!RegistrarInv, Proved!TypeOK, Registrar!TypeOK,
    Proved!CallInv, Registrar!CallInv, Proved!RowInv, Registrar!RowInv,
    Proved!LateInv, Registrar!LateInv, Proved!OneActivePerBooking,
    Registrar!OneActivePerBooking, Proved!SuccessIsTrue, Registrar!SuccessIsTrue,
    Proved!AtCard, Registrar!AtCard, Proved!AfterAccept, Registrar!AfterAccept,
    Proved!Status, Registrar!Status, Proved!Active, Registrar!Active,
    Proved!Writable, Registrar!Writable, Proved!Step, Registrar!Step, Proved!Reads,
    Registrar!Reads, Proved!Result, Registrar!Result
<1>3. Proved!RegistrarInv /\ [Proved!Next]_Proved!vars => Proved!RegistrarInv'
  BY NoneAssumption, Proved!StepsKeepInv
<1> QED
  BY <1>1, <1>2, <1>3

\* What a step of the registrar does to the rows, seen from the sessions:
\* verdicts stay, a row fails only with a refused card, and a row is written
\* for a request that has its key.
RowsMove ==
  /\ UNCHANGED <<key, booking>>
  /\ \A k \in Key :
       /\ status[k] \in {"SUCCEEDED", "FAILED"} => status'[k] = status[k]
       /\ status'[k] = "FAILED" => status[k] = "FAILED" \/ moneris[k] = "declined"
       /\ moneris[k] = "declined" => moneris'[k] = "declined"
       /\ status[k] # "absent" => status'[k] # "absent" /\ owner'[k] = owner[k]
       /\ status[k] = "absent" =>
            \/ status'[k] = "absent" /\ owner'[k] = owner[k]
            \/ /\ status'[k] # "absent"
               /\ \E w \in Worker : key[w] = k /\ owner'[k] = SessionOf[w]
       /\ \A s \in Session :
            <<k, s>> \in posted' => \E w \in Worker : key[w] = k /\ s = SessionOf[w]

\* A request of a registration moves the rows so.
LEMMA WorkMovesRows ==
  ASSUME IInv, NEW w \in Worker, Registrar!Work(w)
  PROVE  RowsMove
<1> USE DEF IInv
<1>1. Registrar!TypeOK /\ Registrar!CallInv
  BY DEF Registrar!RegistrarInv
<1>2. key[w] \in Key /\ booking[w] = SessionOf[w]
  BY <1>1, NoneAssumption DEF Custody, Registrar!CallInv, Registrar!Work,
    Registrar!GetByKey, Registrar!GetActive, Registrar!Begin, Registrar!ResolveByKey,
    Registrar!ResolveActive, Registrar!Raced, Registrar!ValidateAccepted,
    Registrar!ValidateDeclined, Registrar!ValidateAmbiguous, Registrar!ValidateInvalid,
    Registrar!ValidateNoToken, Registrar!MarkSucceeded, Registrar!Reread,
    Registrar!MarkUnsure, Registrar!Recheck, Registrar!MarkFailed, Registrar!MarkHeld,
    Registrar!LoseDatabase, Registrar!Die, Registrar!Reads
<1>3. UNCHANGED <<key, booking>>
  BY DEF Registrar!Work, Registrar!Begin, Registrar!ValidateAccepted,
    Registrar!ValidateDeclined, Registrar!ValidateAmbiguous,
    Registrar!MarkSucceeded, Registrar!MarkUnsure, Registrar!MarkFailed,
    Registrar!MarkHeld, Registrar!Goto, Registrar!Return, Registrar!Resume,
    Registrar!GetByKey, Registrar!GetActive, Registrar!ResolveByKey,
    Registrar!ResolveActive, Registrar!Raced, Registrar!ValidateInvalid,
    Registrar!ValidateNoToken, Registrar!Reread, Registrar!Recheck,
    Registrar!LoseDatabase, Registrar!Die
<1>4. CASE UNCHANGED <<status, owner, posted, moneris>>
  BY <1>1, <1>3, <1>4 DEF RowsMove, Custody, Registrar!TypeOK
<1>5. CASE \/ Registrar!ValidateAccepted(w) \/ Registrar!ValidateDeclined(w)
           \/ Registrar!ValidateAmbiguous(w)
  BY <1>1, <1>2, <1>3, <1>5 DEF RowsMove, Custody, Registrar!TypeOK,
    Registrar!ValidateAccepted, Registrar!ValidateDeclined, Registrar!ValidateAmbiguous,
    Registrar!MonerisAnswers, Registrar!rowVars
<1>6. CASE Registrar!Begin(w)
  <2>1. CASE UNCHANGED <<status, owner, moneris>>
    BY <1>1, <1>2, <1>3, <1>6, <2>1 DEF RowsMove, Custody, Registrar!TypeOK,
      Registrar!Begin
  <2>2. CASE Registrar!Insert(key[w], booking[w]) /\ UNCHANGED <<posted, moneris>>
    BY <1>1, <1>2, <1>3, <2>2 DEF RowsMove, Custody, Registrar!TypeOK, Registrar!Insert
  <2> QED
    BY <1>6, <2>1, <2>2 DEF Registrar!Begin
<1>7. CASE \/ Registrar!MarkSucceeded(w) \/ Registrar!MarkUnsure(w)
           \/ Registrar!MarkFailed(w) \/ Registrar!MarkHeld(w)
  BY <1>1, <1>2, <1>3, <1>7 DEF RowsMove, Custody, Registrar!TypeOK, Registrar!CallInv,
    Registrar!MarkSucceeded, Registrar!MarkUnsure, Registrar!MarkFailed,
    Registrar!MarkHeld, Registrar!Patch, Registrar!Delay, Registrar!Writable
<1>8. CASE \/ Registrar!GetByKey(w) \/ Registrar!GetActive(w) \/ Registrar!ResolveByKey(w)
           \/ Registrar!ResolveActive(w) \/ Registrar!Raced(w) \/ Registrar!ValidateInvalid(w)
           \/ Registrar!ValidateNoToken(w) \/ Registrar!Reread(w) \/ Registrar!Recheck(w)
           \/ Registrar!LoseDatabase(w) \/ Registrar!Die(w)
  <2>1. UNCHANGED <<status, owner, posted, moneris>>
    BY <1>8 DEF Registrar!rowVars, Registrar!GetByKey, Registrar!GetActive,
      Registrar!ResolveByKey, Registrar!ResolveActive, Registrar!Raced,
      Registrar!ValidateInvalid, Registrar!ValidateNoToken, Registrar!Reread,
      Registrar!Recheck, Registrar!LoseDatabase, Registrar!Die
  <2> QED
    BY <1>4, <2>1
<1> QED
  BY <1>5, <1>6, <1>7, <1>8 DEF Registrar!Work

\* So do the requests that nobody waits for.
LEMMA NetworkMovesRows ==
  ASSUME IInv, Network
  PROVE  RowsMove
<1> USE DEF IInv
<1>1. Registrar!TypeOK /\ Registrar!LateInv
  BY DEF Registrar!RegistrarInv
<1>2. ASSUME NEW k \in Key, Registrar!Settle(k) PROVE RowsMove
  BY <1>1, <1>2 DEF RowsMove, Custody, Registrar!TypeOK, Registrar!Settle,
    Registrar!rowVars, Registrar!callVars
<1>3. ASSUME NEW k \in Key, NEW new \in Registrar!Status, Registrar!Deliver(k, new)
      PROVE  RowsMove
  <2>1. new # "absent" /\ (new = "FAILED" => moneris[k] = "declined")
    BY <1>1, <1>3 DEF Registrar!LateInv, Registrar!Deliver
  <2>2. status' = [status EXCEPT ![k] = IF @ \in Registrar!Writable THEN new ELSE @]
    BY <1>3 DEF Registrar!Deliver, Registrar!Patch
  <2>3. UNCHANGED <<owner, posted, moneris, key, booking>>
    BY <1>3 DEF Registrar!Deliver, Registrar!callVars
  <2> QED
    BY <1>1, <2>1, <2>2, <2>3
    DEF RowsMove, Custody, Registrar!TypeOK, Registrar!Writable
<1>4. ASSUME NEW k \in Key, NEW s \in Session, Registrar!DeliverInsert(k, s)
      PROVE  RowsMove
  BY <1>1, <1>4 DEF RowsMove, Custody, Registrar!TypeOK, Registrar!DeliverInsert,
    Registrar!Insert, Registrar!callVars
<1> QED
  BY <1>2, <1>3, <1>4 DEF Network

\* The sessions' side of the invariant is kept where only rows move.
LEMMA RowsMoveKeepsInv ==
  ASSUME IInv, RowsMove, UNCHANGED <<sessionVars, workerVars>>
  PROVE  Custody' /\ PastFailed' /\ Lifecycle' /\ Told'
<1> USE DEF IInv, sessionVars, workerVars
<1>1. Registrar!TypeOK /\ TypeOK
  BY DEF Registrar!RegistrarInv
<1>2. Custody'
  BY DEF Custody, RowsMove
<1>3. PastFailed'
  BY <1>1 DEF PastFailed, RowsMove, Registrar!TypeOK
<1>4. Lifecycle'
  BY <1>1 DEF Lifecycle, RowsMove, TypeOK
<1>5. Told'
  BY DEF Told
<1> QED
  BY <1>2, <1>3, <1>4, <1>5

\* Every step of the system is one of the registrar's or leaves it alone.
LEMMA StepsAreRegistrars == [Next]_vars => [Registrar!Next]_Registrar!vars
<1> SUFFICES ASSUME [Next]_vars PROVE [Registrar!Next]_Registrar!vars
  OBVIOUS
<1> USE DEF Registrar!Next
<1>1. ASSUME UNCHANGED registrarVars PROVE UNCHANGED Registrar!vars
  BY <1>1 DEF registrarVars, Registrar!vars, Registrar!rowVars, Registrar!callVars
<1>2. ASSUME NEW w \in Worker, ClaimOpen(w) PROVE [Registrar!Next]_Registrar!vars
  BY <1>1, <1>2, SessionAssumption DEF ClaimOpen
<1>3. ASSUME NEW w \in Worker, Register(w) PROVE [Registrar!Next]_Registrar!vars
  BY <1>3 DEF Register
<1>4. ASSUME NEW s \in Session, NEW k \in Key, OperatorRelease(s, k)
      PROVE  [Registrar!Next]_Registrar!vars
  BY <1>4 DEF OperatorRelease, Registrar!Environment
<1>5. CASE Network
  BY <1>5 DEF Network, Registrar!Environment
<1>6. ASSUME NEW w \in Worker,
             \/ ClaimRefused(w) \/ ClaimConsumed(w) \/ ClaimUnknown(w) \/ Registered(w)
             \/ Reopen(w) \/ Finalize(w) \/ Load(w) \/ Die(w) \/ LateReopen(w)
      PROVE  [Registrar!Next]_Registrar!vars
  BY <1>1, <1>6 DEF ClaimRefused, ClaimConsumed, ClaimUnknown, Registered, Reopen, Finalize,
    Load, Die, LateReopen
<1>7. ASSUME NEW s \in Session, PassTTL(s) \/ Sweep(s) \/ OperatorFinalize(s)
      PROVE  [Registrar!Next]_Registrar!vars
  BY <1>1, <1>7 DEF PassTTL, Sweep, OperatorFinalize
<1>8. CASE UNCHANGED vars
  BY <1>1, <1>8 DEF vars
<1> QED
  BY <1>2, <1>3, <1>4, <1>5, <1>6, <1>7, <1>8
  DEF Next, Work, Claim, Proceed, Environment, Finished

-----------------------------------------------------------------------------
(* The sessions.  Each effect keeps their side of the invariant.           *)

SessionInv == Custody /\ PastFailed /\ Lifecycle

\* A claim mints a key that nobody has, for an OPEN session whose attempts
\* have all failed, and calls the registrar or does not.
LEMMA ClaimKeepsInv ==
  ASSUME IInv, NEW w \in Worker, ClaimOpen(w)
  PROVE  SessionInv'
<1> DEFINE s == SessionOf[w]
<1> USE DEF IInv, SessionInv
<1>1. s \in Session /\ session[s] = "OPEN" /\ attempt[s] = None /\ key[w] = None
  BY SessionAssumption DEF ClaimOpen, Custody, Lifecycle
<1>2. TypeOK /\ Registrar!TypeOK
  BY DEF TypeOK
<1>3. PICK k \in Key \ minted :
        /\ minted' = minted \cup {k} /\ attempt' = [attempt EXCEPT ![s] = k]
        /\ \/ Registrar!Start(w, k, s)
           \/ UNCHANGED registrarVars
  BY DEF ClaimOpen
<1>4. /\ session' = [session EXCEPT ![s] = "PROCESSING"]
      /\ UNCHANGED <<reservation, status, owner, posted, moneris>>
  BY DEF ClaimOpen, registrarVars, Registrar!Start, Registrar!rowVars
<1>5. \/ /\ key' = [key EXCEPT ![w] = k] /\ booking' = [booking EXCEPT ![w] = s]
      \/ UNCHANGED <<key, booking>>
  BY <1>3 DEF registrarVars, Registrar!Start
<1>6. \A v \in Worker : pc'[v] = "claim" => pc[v] = "claim" /\ v # w
  BY <1>2 DEF ClaimOpen, Goto, End, TypeOK
<1>7. Custody'
  BY <1>1, <1>2, <1>3, <1>4, <1>5, <1>6, NoneAssumption
  DEF Custody, TypeOK, Registrar!TypeOK
<1>8. PastFailed'
  BY <1>1, <1>2, <1>3, <1>4, <1>5, SessionAssumption
  DEF PastFailed, Custody, TypeOK, Registrar!TypeOK
<1>9. Lifecycle'
  BY <1>1, <1>2, <1>3, <1>4, NoneAssumption DEF Lifecycle, TypeOK
<1> QED
  BY <1>7, <1>8, <1>9

\* Reopening takes the attempt from a session, which has failed by then.
LEMMA ReopenKeepsInv ==
  ASSUME IInv, NEW w \in Worker, Reopenable(SessionOf[w], key[w]),
         session' = [session EXCEPT ![SessionOf[w]] = "OPEN"],
         attempt' = [attempt EXCEPT ![SessionOf[w]] = None],
         \A v \in Worker : pc'[v] = "claim" => pc[v] = "claim",
         UNCHANGED <<reservation, minted, registrarVars>>
  PROVE  SessionInv'
<1> USE SessionAssumption DEF IInv, SessionInv, registrarVars, Reopenable
<1>1. TypeOK /\ Registrar!TypeOK
  BY DEF TypeOK
<1>2. Custody'
  BY <1>1 DEF Custody, TypeOK
<1>3. PastFailed'
  BY <1>1 DEF PastFailed, TypeOK
<1>4. Lifecycle'
  BY <1>1 DEF Lifecycle, TypeOK
<1> QED
  BY <1>2, <1>3, <1>4

\* A session ends as its attempts stand: consumed with a stored card, expired
\* with failed ones.
LEMMA EndKeepsInv ==
  ASSUME IInv, NEW s \in Session, NEW state,
         \/ state = "CONSUMED" /\ Finalizable(s)
            /\ reservation' = [reservation EXCEPT ![s] = "confirmed"]
         \/ state = "EXPIRED" /\ session[s] = "OPEN"
            /\ reservation' = [reservation EXCEPT ![s] = "cancelled"],
         session' = [session EXCEPT ![s] = state],
         \A v \in Worker : pc'[v] = "claim" => pc[v] = "claim",
         UNCHANGED <<attempt, minted, registrarVars>>
  PROVE  SessionInv'
<1> USE SessionAssumption DEF IInv, SessionInv, registrarVars, Finalizable
<1>1. TypeOK /\ Registrar!TypeOK
  BY DEF TypeOK
<1>2. Custody'
  BY <1>1 DEF Custody
<1>3. PastFailed'
  BY <1>1, NoneAssumption DEF PastFailed, Lifecycle, TypeOK
<1>4. Lifecycle'
  BY <1>1 DEF Lifecycle, TypeOK
<1> QED
  BY <1>2, <1>3, <1>4

\* A release fails the current attempt and ends its session.
LEMMA ReleaseKeepsInv ==
  ASSUME IInv, NEW s \in Session, NEW k \in Key, OperatorRelease(s, k)
  PROVE  SessionInv'
<1> USE SessionAssumption DEF IInv, SessionInv, OperatorRelease, Registrar!Release,
      Registrar!callVars, workerVars
<1>1. TypeOK /\ Registrar!TypeOK
  BY DEF TypeOK
<1>2. status[k] \notin {"absent", "SUCCEEDED", "FAILED"}
  BY DEF Registrar!Writable
<1>3. Custody'
  BY <1>1, <1>2 DEF Custody, Registrar!TypeOK
<1>4. PastFailed'
  BY <1>1, <1>2 DEF PastFailed, Custody, TypeOK, Registrar!TypeOK
<1>5. Lifecycle'
  BY <1>1, <1>2 DEF Lifecycle, TypeOK, Registrar!TypeOK
<1> QED
  BY <1>3, <1>4, <1>5

-----------------------------------------------------------------------------
(* Every step keeps the invariant.                                         *)

\* The variables of this module keep their types.
LEMMA TypesKept == IInv /\ [Next]_vars => TypeOK'
<1> SUFFICES ASSUME IInv, [Next]_vars PROVE TypeOK'
  OBVIOUS
<1> USE SessionAssumption DEF IInv, TypeOK, sessionVars, workerVars, Reply
<1>1. Registrar!TypeOK'
  BY StepsAreRegistrars, RegistrarKeepsInv DEF Registrar!RegistrarInv
<1>2. ASSUME NEW w \in Worker, Claim(w) \/ ClaimUnknown(w) PROVE TypeOK'
  BY <1>1, <1>2 DEF Claim, ClaimOpen, ClaimRefused, ClaimConsumed, ClaimUnknown, Goto, End
<1>3. ASSUME NEW w \in Worker, Proceed(w) \/ Die(w) \/ LateReopen(w) PROVE TypeOK'
  BY <1>1, <1>3 DEF Proceed, Register, Registered, Reopen, Finalize, Load, Die, LateReopen,
    Confirm, Goto, End
<1>4. ASSUME NEW s \in Session, \/ PassTTL(s) \/ Sweep(s) \/ OperatorFinalize(s)
                               \/ \E k \in Key : OperatorRelease(s, k)
      PROVE  TypeOK'
  BY <1>1, <1>4 DEF PassTTL, Sweep, OperatorFinalize, OperatorRelease, Confirm
<1>5. CASE Network \/ UNCHANGED vars
  BY <1>1, <1>5 DEF Network, vars
<1> QED
  BY <1>2, <1>3, <1>4, <1>5 DEF Next, Work, Environment, Finished

\* The sessions and what was told of them stay in step.
LEMMA StepsKeepSessionInv == IInv /\ [Next]_vars => SessionInv' /\ Told'
<1> SUFFICES ASSUME IInv, [Next]_vars PROVE SessionInv' /\ Told'
  OBVIOUS
<1> USE SessionAssumption DEF IInv, SessionInv
<1>1. TypeOK
  OBVIOUS
<1>2. ASSUME UNCHANGED <<session, attempt, reservation, minted, registrarVars>>,
             \A v \in Worker : pc'[v] = "claim" => pc[v] = "claim"
      PROVE  SessionInv'
  BY <1>2 DEF registrarVars, Custody, PastFailed, Lifecycle
<1>3. ASSUME NEW w \in Worker,
             ClaimOpen(w)
      PROVE  SessionInv' /\ Told'
  <2>1. Told'
    BY <1>1, <1>3 DEF ClaimOpen, Goto, End, Told, TypeOK
  <2> QED
    BY <1>3, <2>1, ClaimKeepsInv
<1>4. ASSUME NEW w \in Worker, ClaimRefused(w) \/ ClaimConsumed(w) \/ ClaimUnknown(w)
                               \/ Registered(w) \/ Load(w) \/ Die(w)
      PROVE  SessionInv' /\ Told'
  <2>1. /\ UNCHANGED <<sessionVars, registrarVars>>
        /\ \A v \in Worker : pc'[v] = "claim" => pc[v] = "claim"
    BY <1>1, <1>4 DEF ClaimRefused, ClaimConsumed, ClaimUnknown, Registered, Load, Die, Goto,
      End, TypeOK
  <2>2. Told'
    BY <1>1, <1>4, <2>1 DEF ClaimRefused, ClaimConsumed, ClaimUnknown, Registered, Load, Die,
      Goto, End, TypeOK, Told, sessionVars
  <2> QED
    BY <1>2, <2>1, <2>2 DEF sessionVars
<1>5. ASSUME NEW w \in Worker, Register(w) PROVE SessionInv' /\ Told'
  <2>1. RowsMove
    BY <1>5, WorkMovesRows DEF Register
  <2> QED
    BY <1>5, <2>1, RowsMoveKeepsInv DEF Register
<1>6. ASSUME NEW w \in Worker, Reopen(w) \/ LateReopen(w) PROVE SessionInv' /\ Told'
  <2>1. \A v \in Worker : pc'[v] = "claim" => pc[v] = "claim"
    BY <1>1, <1>6 DEF Reopen, LateReopen, End, TypeOK, workerVars
  <2>2. Told'
    BY <1>1, <1>6 DEF Reopen, LateReopen, Reopenable, End, TypeOK, Told, workerVars
  <2>3. CASE Reopenable(SessionOf[w], key[w])
             /\ session' = [session EXCEPT ![SessionOf[w]] = "OPEN"]
             /\ attempt' = [attempt EXCEPT ![SessionOf[w]] = None]
    BY <1>6, <2>1, <2>2, <2>3, ReopenKeepsInv DEF Reopen, LateReopen
  <2>4. CASE UNCHANGED <<session, attempt>>
    BY <1>2, <1>6, <2>1, <2>2, <2>4 DEF Reopen, LateReopen
  <2> QED
    BY <1>6, <2>3, <2>4 DEF Reopen, LateReopen
<1>7. ASSUME NEW w \in Worker, Finalize(w) PROVE SessionInv' /\ Told'
  <2>1. \A v \in Worker : pc'[v] = "claim" => pc[v] = "claim"
    BY <1>1, <1>7 DEF Finalize, Goto, End, TypeOK
  <2>2. Told'
    BY <1>1, <1>7 DEF Finalize, Confirm, Goto, End, TypeOK, Told, sessionVars
  <2>3. CASE Finalizable(SessionOf[w]) /\ Confirm(SessionOf[w])
    BY <1>7, <2>1, <2>2, <2>3, EndKeepsInv DEF Finalize, Confirm
  <2>4. CASE UNCHANGED sessionVars
    BY <1>2, <1>7, <2>1, <2>2, <2>4 DEF Finalize, sessionVars
  <2> QED
    BY <1>7, <2>3, <2>4 DEF Finalize
<1>8. ASSUME NEW s \in Session, OperatorFinalize(s) PROVE SessionInv' /\ Told'
  <2>1. Told'
    BY <1>1, <1>8 DEF OperatorFinalize, Confirm, TypeOK, Told, workerVars
  <2> QED
    BY <1>8, <2>1, EndKeepsInv DEF OperatorFinalize, Confirm, workerVars
<1>9. ASSUME NEW s \in Session, Sweep(s) PROVE SessionInv' /\ Told'
  <2>1. Told'
    BY <1>1, <1>9 DEF Sweep, TypeOK, Told, workerVars
  <2> QED
    BY <1>9, <2>1, EndKeepsInv DEF Sweep, workerVars
<1>10. ASSUME NEW s \in Session, PassTTL(s) PROVE SessionInv' /\ Told'
  <2>1. Told'
    BY <1>10 DEF PassTTL, Told, workerVars
  <2> QED
    BY <1>2, <1>10, <2>1 DEF PassTTL, workerVars
<1>11. ASSUME NEW s \in Session, NEW k \in Key, OperatorRelease(s, k)
       PROVE  SessionInv' /\ Told'
  <2>1. Told'
    BY <1>1, <1>11 DEF OperatorRelease, TypeOK, Told, workerVars
  <2> QED
    BY <1>11, <2>1, ReleaseKeepsInv
<1>12. CASE Network
  BY <1>12, NetworkMovesRows, RowsMoveKeepsInv DEF Network
<1>13. CASE UNCHANGED vars
  BY <1>2, <1>13 DEF vars, sessionVars, workerVars, Told
<1> QED
  BY <1>3, <1>4, <1>5, <1>6, <1>7, <1>8, <1>9, <1>10, <1>11, <1>12, <1>13
  DEF Next, Work, Claim, Proceed, Environment, Finished

\* The inductive invariant holds in every reachable state.
LEMMA InvHolds == Spec => []IInv
<1>1. Init => IInv
  <2>1. Init => Registrar!RegistrarInv
    BY DEF Init, Registrar!Init, Registrar!RegistrarInv, Registrar!TypeOK, Registrar!Status,
      Registrar!Active, Registrar!Writable, Registrar!Step, Registrar!Reads,
      Registrar!Result, Registrar!CallInv, Registrar!RowInv, Registrar!LateInv,
      Registrar!OneActivePerBooking, Registrar!SuccessIsTrue, Registrar!AtCard,
      Registrar!AfterAccept
  <2>2. Init => TypeOK
    BY <2>1 DEF Init, TypeOK, Reply, Registrar!RegistrarInv
  <2> QED
    BY <2>1, <2>2 DEF Init, Registrar!Init, IInv, Custody, PastFailed, Lifecycle, Told
<1>2. IInv /\ [Next]_vars => IInv'
  <2>1. IInv /\ [Next]_vars => Registrar!RegistrarInv'
    BY StepsAreRegistrars, RegistrarKeepsInv DEF IInv
  <2> QED
    BY <2>1, TypesKept, StepsKeepSessionInv DEF IInv, SessionInv
<1> QED
  BY <1>1, <1>2, PTL DEF Spec

\* A request is told to retry by a reopen that the database granted.
LEMMA RetryMeansReopened ==
  ASSUME TypeOK, Next, NEW w \in Worker, reply[w] # "retry", reply'[w] = "retry"
  PROVE  /\ Reopenable(SessionOf[w], key[w])
         /\ session' = [session EXCEPT ![SessionOf[w]] = "OPEN"]
         /\ pc'[w] = "done" /\ UNCHANGED registrarVars
<1>1. ASSUME NEW v \in Worker, Claim(v) \/ ClaimUnknown(v) \/ Die(v) PROVE FALSE
  BY <1>1 DEF Claim, ClaimOpen, ClaimRefused, ClaimConsumed, ClaimUnknown, Die, Goto, End,
    TypeOK
<1>2. ASSUME NEW v \in Worker, Register(v) \/ Registered(v) \/ Finalize(v) \/ Load(v)
                               \/ LateReopen(v)
      PROVE  FALSE
  BY <1>2 DEF Register, Registered, Finalize, Load, LateReopen, Goto, End, TypeOK,
    workerVars
<1>3. ASSUME UNCHANGED workerVars PROVE FALSE
  BY <1>3 DEF workerVars
<1>4. PICK v \in Worker : Reopen(v)
  BY <1>1, <1>2, <1>3 DEF Next, Work, Proceed, Environment, Network, PassTTL, Sweep,
    OperatorFinalize, OperatorRelease, Finished, vars
<1>5. v = w
  BY <1>4 DEF Reopen, End, TypeOK
<1> QED
  BY <1>4, <1>5 DEF Reopen, End, TypeOK

-----------------------------------------------------------------------------
\* The variables of the service and of its registrar always have their types.
THEOREM TypeCorrect == Spec => []TypeOK
<1>1. IInv => TypeOK
  BY DEF IInv
<1> QED
  BY <1>1, InvHolds, PTL

\* The handlers, the sweeper and the operator are a user of the registrar as
\* its own specification has it, so that whatever is proved of it holds here
\* (complete_pending_payment, release_held_payment).
THEOREM RegistrarRespected == Spec => UsesRegistrar
<1>1. Init => Registrar!Init
  BY DEF Init
<1> QED
  BY <1>1, StepsAreRegistrars, PTL DEF Spec, UsesRegistrar, Registrar!Spec

\* So its table implements the ledger here too: verdicts are final, and only a
\* refusal lets a reservation have another card (begin_registration).
THEOREM TableKeepsLedger == Spec => Proved!ImplementsLedger
<1>1. Init => Proved!Init
  BY DEF Init, Registrar!Init, Proved!Init
<1>2. [Next]_vars => [Proved!Next]_Proved!vars
  BY StepsAreRegistrars, SameSteps
<1>3. Proved!Spec => Proved!ImplementsLedger
  BY Proved!TableImplementsLedger, NoneAssumption
<1> QED
  BY <1>1, <1>2, <1>3, PTL DEF Spec, Proved!Spec

\* No guest is sent to the confirmation of a reservation that is not
\* confirmed, by whatever request, replay or operator it was to be.
THEOREM SuccessIsConfirmed == Spec => []SuccessMeansConfirmed
<1>1. IInv => SuccessMeansConfirmed
  BY SessionAssumption DEF IInv, Told, Lifecycle, SuccessMeansConfirmed
<1> QED
  BY <1>1, InvHolds, PTL

\* The attempt of a confirmed reservation succeeded.
LEMMA ConfirmedMeansCard ==
  ASSUME IInv, NEW s \in Session, reservation[s] = "confirmed"
  PROVE  /\ attempt[s] \in Key /\ owner[attempt[s]] = s
         /\ status[attempt[s]] = "SUCCEEDED" /\ moneris[attempt[s]] = "accepted"
<1>1. attempt[s] \in Key /\ status[attempt[s]] = "SUCCEEDED"
  BY DEF IInv, Lifecycle, TypeOK
<1>2. owner[attempt[s]] = s
  BY <1>1, NoneAssumption DEF IInv, Custody
<1>3. moneris[attempt[s]] = "accepted"
  BY <1>1 DEF IInv, Registrar!RegistrarInv, Registrar!RowInv
<1> QED
  BY <1>1, <1>2, <1>3

\* A confirmed reservation has a stored card of its own, wherever workers died
\* (finalize_booking_after_credential and the operator's finalize).
THEOREM ConfirmationsHaveCards == Spec => []ConfirmedHasCard
<1>1. IInv => ConfirmedHasCard
  BY ConfirmedMeansCard, NoneAssumption DEF ConfirmedHasCard
<1> QED
  BY <1>1, InvHolds, PTL

\* No reservation has two cards at the processor, whatever was retried.
THEOREM OneCardEach == Spec => []OneCardPerReservation
<1>1. IInv => OneCardPerReservation
  BY DEF IInv, OneCardPerReservation, Registrar!RegistrarInv, Registrar!TypeOK,
    Registrar!RowInv, Registrar!OneActivePerBooking, Registrar!Status
<1> QED
  BY <1>1, InvHolds, PTL

\* The attempts of a cancelled reservation have failed, all of them.
LEMMA CancelledMeansNoCard ==
  ASSUME IInv, NEW s \in Session, reservation[s] = "cancelled", NEW k \in Key, owner[k] = s
  PROVE  moneris[k] \in {"unsent", "declined"}
<1>1. session[s] = "EXPIRED"
  BY DEF IInv, Lifecycle, TypeOK
<1>2. status[k] # "absent"
  BY NoneAssumption DEF IInv, Custody
<1>3. status[k] = "FAILED"
  BY <1>1, <1>2, NoneAssumption DEF IInv, Custody, PastFailed
<1> QED
  BY <1>3 DEF IInv, Registrar!RegistrarInv, Registrar!RowInv

\* A reservation that was swept or released has no card, nor one on its way
\* (expire_abandoned_payment_sessions, release_held_payment).
THEOREM CancelledWithoutCard == Spec => []CancelledHasNoCard
<1>1. IInv => CancelledHasNoCard
  BY CancelledMeansNoCard DEF CancelledHasNoCard
<1> QED
  BY <1>1, InvHolds, PTL

\* Another card is asked for only when the session is open again and every
\* card before it was refused (_reopen_after_failed_registration).
THEOREM RetriesAreSafe == Spec => RetryIsSafe
<1> DEFINE Safe == \A w \in Worker :
       (reply[w] # "retry" /\ reply'[w] = "retry") =>
         /\ session'[SessionOf[w]] = "OPEN"
         /\ \A k \in Key : owner[k] = SessionOf[w] => moneris[k] = "declined"
<1>1. ASSUME IInv, Next, NEW w \in Worker, reply[w] # "retry", reply'[w] = "retry"
      PROVE  /\ session'[SessionOf[w]] = "OPEN"
             /\ \A k \in Key : owner[k] = SessionOf[w] => moneris[k] = "declined"
  <2>1. /\ Reopenable(SessionOf[w], key[w])
        /\ session' = [session EXCEPT ![SessionOf[w]] = "OPEN"]
    BY <1>1, RetryMeansReopened DEF IInv
  <2>2. session'[SessionOf[w]] = "OPEN" /\ session[SessionOf[w]] = "PROCESSING"
    BY <1>1, <2>1, SessionAssumption DEF IInv, TypeOK, Reopenable
  <2>3. ASSUME NEW k \in Key, owner[k] = SessionOf[w] PROVE moneris[k] = "declined"
    <3>1. PICK v \in Worker : key[v] = k /\ SessionOf[v] = SessionOf[w]
      BY <1>1, <2>3, SessionAssumption, NoneAssumption DEF IInv, Custody
    <3>2. status[k] = "FAILED"
      BY <1>1, <2>1, <3>1, NoneAssumption DEF IInv, PastFailed, Reopenable
    <3> QED
      BY <1>1, <2>2, <3>1, <3>2, NoneAssumption DEF IInv, PastFailed
  <2> QED
    BY <2>2, <2>3
<1>2. IInv /\ [Next]_vars => [Safe]_vars
  BY <1>1
<1> QED
  BY <1>2, InvHolds, PTL DEF Spec, RetryIsSafe

-----------------------------------------------------------------------------
(* The guarantee of the card.                                              *)

\* What a step does to the processor's verdicts: at most one key has a new one,
\* and it has its row already.
VerdictsMove ==
  \/ UNCHANGED moneris
  \/ /\ UNCHANGED <<owner, reservation>>
     /\ \E k \in Key : \A l \in Key : moneris'[l] # moneris[l] => l = k

\* A step of the registrar gives one verdict at most.
LEMMA RegistrarMovesVerdicts ==
  ASSUME IInv, (\E w \in Worker : Register(w)) \/ Network
  PROVE  RowsMove /\ VerdictsMove
         /\ \A k \in Key : moneris[k] = "accepted" => moneris'[k] = "accepted"
<1> USE DEF VerdictsMove, IInv
<1>1. Registrar!TypeOK /\ Registrar!CallInv /\ Registrar!LateInv
  BY DEF Registrar!RegistrarInv
<1>2. RowsMove /\ UNCHANGED reservation
  BY WorkMovesRows, NetworkMovesRows DEF Register, Network, sessionVars
<1>3. ASSUME UNCHANGED moneris
      PROVE  VerdictsMove /\ \A k \in Key : moneris[k] = "accepted" => moneris'[k] = "accepted"
  BY <1>3
<1>4. ASSUME NEW w \in Worker, Registrar!Work(w)
      PROVE  VerdictsMove /\ \A k \in Key : moneris[k] = "accepted" => moneris'[k] = "accepted"
  <2>1. CASE \/ Registrar!ValidateAccepted(w) \/ Registrar!ValidateDeclined(w)
             \/ Registrar!ValidateAmbiguous(w)
    <3>1. key[w] \in Key
      BY <1>1, <2>1 DEF Registrar!CallInv, Registrar!ValidateAccepted,
        Registrar!ValidateDeclined, Registrar!ValidateAmbiguous
    <3> QED
      BY <1>1, <1>2, <2>1, <3>1 DEF Registrar!TypeOK, Registrar!ValidateAccepted,
        Registrar!ValidateDeclined, Registrar!ValidateAmbiguous,
        Registrar!MonerisAnswers, Registrar!rowVars
  <2>2. CASE ~(\/ Registrar!ValidateAccepted(w) \/ Registrar!ValidateDeclined(w)
               \/ Registrar!ValidateAmbiguous(w))
    <3>1. UNCHANGED moneris
      BY <1>4, <2>2 DEF Registrar!Work, Registrar!GetByKey, Registrar!GetActive,
        Registrar!Begin, Registrar!ResolveByKey, Registrar!ResolveActive, Registrar!Raced,
        Registrar!ValidateInvalid, Registrar!ValidateNoToken, Registrar!MarkSucceeded,
        Registrar!Reread, Registrar!MarkUnsure, Registrar!Recheck, Registrar!MarkFailed,
        Registrar!MarkHeld, Registrar!LoseDatabase, Registrar!Die
    <3> QED
      BY <1>3, <3>1
  <2> QED
    BY <2>1, <2>2
<1>5. ASSUME NEW k \in Key, Registrar!Settle(k)
      PROVE  VerdictsMove /\ \A l \in Key : moneris[l] = "accepted" => moneris'[l] = "accepted"
  BY <1>1, <1>2, <1>5 DEF Registrar!TypeOK, Registrar!Settle, Registrar!rowVars
<1>6. ASSUME NEW k \in Key, \/ \E new \in Registrar!Status : Registrar!Deliver(k, new)
                            \/ \E s \in Session : Registrar!DeliverInsert(k, s)
      PROVE  VerdictsMove /\ \A l \in Key : moneris[l] = "accepted" => moneris'[l] = "accepted"
  BY <1>3, <1>6 DEF Registrar!Deliver, Registrar!DeliverInsert
<1> QED
  BY <1>2, <1>4, <1>5, <1>6 DEF Register, Network

\* The other steps leave the processor and the rows' owners alone, and change
\* one reservation at most: it is confirmed or cancelled.
LEMMA SessionsMoveReservations ==
  ASSUME IInv, [Next]_vars, ~((\E w \in Worker : Register(w)) \/ Network)
  PROVE  /\ UNCHANGED <<owner, moneris>>
         /\ \/ UNCHANGED reservation
            \/ \E s \in Session, new \in {"confirmed", "cancelled"} :
                 reservation[s] = "pending_payment" /\ reservation' = [reservation EXCEPT ![s] = new]
<1> USE SessionAssumption DEF registrarVars, sessionVars
<1>1. ASSUME NEW w \in Worker, Claim(w) \/ ClaimUnknown(w)
      PROVE  UNCHANGED <<owner, moneris, reservation>>
  BY <1>1 DEF Claim, ClaimOpen, ClaimRefused, ClaimConsumed, ClaimUnknown, Registrar!Start,
    Registrar!rowVars
<1>2. ASSUME NEW w \in Worker, Registered(w) \/ Reopen(w) \/ Load(w) \/ Die(w) \/ LateReopen(w)
      PROVE  UNCHANGED <<owner, moneris, reservation>>
  BY <1>2 DEF Registered, Reopen, Load, Die, LateReopen
<1>3. ASSUME NEW w \in Worker, Finalize(w)
      PROVE  /\ UNCHANGED <<owner, moneris>>
             /\ \/ UNCHANGED reservation
                \/ reservation[SessionOf[w]] = "pending_payment"
                   /\ reservation' = [reservation EXCEPT ![SessionOf[w]] = "confirmed"]
  BY <1>3 DEF Finalize, Finalizable, Confirm
<1>4. ASSUME NEW s \in Session, \/ PassTTL(s) \/ Sweep(s) \/ OperatorFinalize(s)
                               \/ \E k \in Key : OperatorRelease(s, k)
      PROVE  /\ UNCHANGED <<owner, moneris>>
             /\ \/ UNCHANGED reservation
                \/ \E new \in {"confirmed", "cancelled"} :
                     reservation[s] = "pending_payment"
                     /\ reservation' = [reservation EXCEPT ![s] = new]
  BY <1>4 DEF PassTTL, Sweep, OperatorFinalize, OperatorRelease, Registrar!Release,
    Finalizable, Confirm, IInv, Lifecycle
<1>5. CASE UNCHANGED vars
  BY <1>5 DEF vars
<1> QED
  BY <1>1, <1>2, <1>3, <1>4, <1>5 DEF Next, Work, Proceed, Environment, Finished

Guaranteed == [s \in Session |-> HasCard(s)]

\* A confirmed reservation has a card; a cancelled one has none.
Standing ==
  \A s \in Session : /\ reservation[s] = "confirmed" => HasCard(s)
                     /\ reservation[s] = "cancelled" => ~HasCard(s)

\* It is so in every reachable state.
LEMMA StandingHolds == Spec => []Standing
<1>1. IInv => Standing
  BY ConfirmedMeansCard, CancelledMeansNoCard DEF Standing, HasCard
<1> QED
  BY <1>1, InvHolds, PTL

\* A verdict guarantees one pending stay at most; it is never the card of
\* another stay, nor of one that has ended.
LEMMA VerdictsGuarantee ==
  ASSUME IInv, Standing, Standing', (\E w \in Worker : Register(w)) \/ Network
  PROVE  [Guarantee!Next]_<<reservation, Guaranteed>>
<1> USE DEF IInv
<1>1. /\ RowsMove /\ VerdictsMove
      /\ \A k \in Key : moneris[k] = "accepted" => moneris'[k] = "accepted"
  BY RegistrarMovesVerdicts
<1>2. UNCHANGED reservation
  BY DEF Register, Network, sessionVars
<1>3. \A k \in Key : moneris[k] = "accepted" => owner'[k] = owner[k]
  BY <1>1 DEF RowsMove, Registrar!RegistrarInv, Registrar!RowInv
<1>4. \A s \in Session : HasCard(s) => HasCard(s)'
  BY <1>1, <1>3 DEF HasCard
<1>5. CASE UNCHANGED moneris
  <2>1. \A s \in Session : HasCard(s)' <=> HasCard(s)
    BY <1>3, <1>4, <1>5 DEF HasCard
  <2>2. UNCHANGED Guaranteed
    BY <2>1 DEF Guaranteed, HasCard
  <2> QED
    BY <1>2, <2>2
<1>6. CASE ~UNCHANGED moneris
  <2>1. PICK k \in Key : UNCHANGED owner /\ \A l \in Key : moneris'[l] # moneris[l] => l = k
    BY <1>1, <1>6 DEF VerdictsMove
  <2>2. \A s \in Session : HasCard(s)' => HasCard(s) \/ s = owner[k]
    BY <2>1 DEF HasCard
  <2>3. CASE \A s \in Session : HasCard(s)' <=> HasCard(s)
    <3>1. UNCHANGED Guaranteed
      BY <2>3 DEF Guaranteed, HasCard
    <3> QED
      BY <1>2, <3>1
  <2>4. ASSUME NEW s \in Session, HasCard(s)', ~HasCard(s) PROVE Guarantee!StoreCard(s)
    <3>1. reservation[s] = "pending_payment"
      BY <1>2, <2>4 DEF Standing, TypeOK
    <3>2. \A q \in Session : HasCard(q)' <=> HasCard(q) \/ q = s
      BY <1>4, <2>2, <2>4
    <3>3. Guaranteed' = [Guaranteed EXCEPT ![s] = TRUE]
      BY <3>2 DEF Guaranteed, HasCard
    <3> QED
      BY <1>2, <2>4, <3>1, <3>3 DEF Guarantee!StoreCard, Guaranteed
  <2> QED
    BY <1>4, <2>3, <2>4 DEF Guarantee!Next
<1> QED
  BY <1>5, <1>6

\* Every step is a step of the guarantee, or none.
LEMMA StepsAreGuaranteeSteps ==
  ASSUME IInv, Standing, Standing', [Next]_vars
  PROVE  [Guarantee!Next]_<<reservation, Guaranteed>>
<1>1. CASE (\E w \in Worker : Register(w)) \/ Network
  BY <1>1, VerdictsGuarantee
<1>2. CASE ~((\E w \in Worker : Register(w)) \/ Network)
  <2>1. /\ UNCHANGED <<owner, moneris>>
        /\ \/ UNCHANGED reservation
           \/ \E s \in Session, new \in {"confirmed", "cancelled"} :
                reservation[s] = "pending_payment"
                /\ reservation' = [reservation EXCEPT ![s] = new]
    BY <1>2, SessionsMoveReservations
  <2>2. (\A s \in Session : HasCard(s)' <=> HasCard(s)) /\ UNCHANGED Guaranteed
    BY <2>1 DEF HasCard, Guaranteed
  <2>3. ASSUME NEW s \in Session, NEW new \in {"confirmed", "cancelled"},
               reservation[s] = "pending_payment",
               reservation' = [reservation EXCEPT ![s] = new]
        PROVE  Guarantee!Confirm(s) \/ Guarantee!Cancel(s)
    <3>1. reservation'[s] = new
      BY <2>3 DEF IInv, TypeOK
    <3>2. IF new = "confirmed" THEN HasCard(s) ELSE ~HasCard(s)
      BY <2>2, <2>3, <3>1 DEF Standing
    <3> QED
      BY <2>2, <2>3, <3>2 DEF Guarantee!Confirm, Guarantee!Cancel, Guaranteed
  <2> QED
    BY <2>1, <2>2, <2>3 DEF Guarantee!Next
<1> QED
  BY <1>1, <1>2

\* Requests, crashes, late answers, sweeper and operator together implement the
\* guarantee: a reservation with a stored card is confirmed or waits to be, one
\* without is cancelled or waits, and every outcome is final
\* (complete_pending_payment, expire_abandoned_payment_sessions, the operator's
\* calls).
THEOREM ServiceImplementsGuarantee == Spec => ImplementsGuarantee
<1>1. Init => Guarantee!Init
  BY NoneAssumption DEF Init, Registrar!Init, Guarantee!Init, HasCard
<1>2. IInv /\ Standing /\ Standing' /\ [Next]_vars
        => [Guarantee!Next]_<<reservation, Guaranteed>>
  BY StepsAreGuaranteeSteps
<1> QED
  BY <1>1, <1>2, InvHolds, StandingHolds, PTL
  DEF Spec, ImplementsGuarantee, Guarantee!Spec, Guaranteed
=============================================================================
