---------------------------- MODULE OAuthCacheProofs ----------------------------
(***************************************************************************)
(* Proofs about OAuthCache, for every set of callers, configurations and   *)
(* lifetimes.                                                              *)
(*                                                                         *)
(* What is given out is what the cache holds or what was just granted, so  *)
(* the invariant says of both that the token is of the right account and   *)
(* that its deadline was counted from before it was issued; and, for the   *)
(* token replaced, that whoever holds the lock has found it due.           *)
(***************************************************************************)
EXTENDS OAuthCache, TLAPS

\* The entry is for the account of its token, and leaves the buffer of its life.
CacheSound ==
  cache # NoEntry =>
    /\ cache \in Entry
    /\ cache.token.config = cache.config
    /\ cache.refreshAt + Buffer(cache.token.life) <= cache.token.issued + cache.token.life

\* Nobody has read a time that is yet to come.
NowPast == \A c \in Caller : now[c] <= clock

\* A granted token was issued after its caller read the clock.
ReplySound ==
  \A c \in Caller :
    pc[c] = "granted" =>
      /\ reply[c] \in Token /\ reply[c].config = ConfigOf[c]
      /\ now[c] <= reply[c].issued

\* What is done under the lock is done by its holder.
HolderOnly ==
  \A c \in Caller : pc[c] \in {"recheck", "fetch", "granted"} => lock = c

\* Who fetches has found the entry of its account due.
FoundDue ==
  \A c \in Caller :
    pc[c] \in {"fetch", "granted"} /\ cache # NoEntry /\ cache.config = ConfigOf[c]
      => now[c] >= cache.refreshAt

IInv ==
  /\ TypeOK
  /\ CacheSound /\ NowPast /\ ReplySound /\ HolderOnly /\ FoundDue
  /\ TokenOfOwnAccount /\ SpareLife

-----------------------------------------------------------------------------
\* The buffer is a part of the life (_refresh_at).
LEMMA BufferBounds ==
  ASSUME NEW life \in Nat
  PROVE  Buffer(life) \in Nat /\ Buffer(life) <= life
BY TimeAssumption DEF Buffer

\* A deadline is a time, and what is before it leaves the buffer.
LEMMA RefreshAtBounds ==
  ASSUME NEW t \in Nat, NEW life \in Nat
  PROVE  RefreshAt(t, life) \in Nat /\ RefreshAt(t, life) + Buffer(life) = t + life
BY BufferBounds DEF RefreshAt

\* What is recorded of a token are times.
LEMMA EntryTimes ==
  ASSUME NEW e \in Entry
  PROVE  e.token.life \in Nat /\ e.token.issued \in Nat /\ e.refreshAt \in Nat
BY TimeAssumption DEF Entry, Token

LEMMA NowIsTime ==
  ASSUME TypeOK, NEW c \in Caller
  PROVE  now[c] \in Nat
BY TimeAssumption DEF TypeOK

\* The empty cache and idle callers satisfy the invariant.
LEMMA InitInvariant == Init => IInv
BY CallerAssumption, TimeAssumption
   DEF Init, IInv, TypeOK, CacheSound, NowPast, ReplySound, HolderOnly, FoundDue,
       TokenOfOwnAccount, SpareLife

\* Each step of a call keeps the invariant.
LEMMA StepInvariant ==
  ASSUME IInv, NEW c \in Caller, Step(c)
  PROVE  IInv'
<1> USE CallerAssumption, TimeAssumption, NoneAssumption
<1>1. CASE ReadClock(c)
  BY <1>1 DEF IInv, ReadClock, Goto, TypeOK, CacheSound, NowPast, ReplySound,
     HolderOnly, FoundDue, TokenOfOwnAccount, SpareLife
<1>2. CASE Peek(c)
  <2>1. CASE Usable(ConfigOf[c], now[c])
    <3>1. cache \in Entry /\ cache.token \in Token /\ cache.token.config = ConfigOf[c]
      BY <2>1 DEF Usable, IInv, CacheSound, Entry
    <3>2. now[c] + Buffer(cache.token.life) < cache.token.issued + cache.token.life
      <4>1. /\ cache.token.life \in Nat /\ cache.token.issued \in Nat
            /\ cache.refreshAt \in Nat /\ now[c] \in Nat
        BY <3>1, EntryTimes, NowIsTime DEF IInv
      <4>2. now[c] < cache.refreshAt
            /\ cache.refreshAt + Buffer(cache.token.life) <= cache.token.issued + cache.token.life
        BY <2>1 DEF Usable, IInv, CacheSound
      <4>3. Buffer(cache.token.life) \in Nat
        BY <4>1, BufferBounds
      <4> QED BY <4>1, <4>2, <4>3
    <3> QED
      BY <1>2, <2>1, <3>1, <3>2 DEF IInv, Peek, Return, Goto, TypeOK, CacheSound, NowPast,
         ReplySound, HolderOnly, FoundDue, TokenOfOwnAccount, SpareLife
  <2>2. CASE ~Usable(ConfigOf[c], now[c])
    BY <1>2, <2>2 DEF IInv, Peek, Goto, TypeOK, CacheSound, NowPast, ReplySound,
       HolderOnly, FoundDue, TokenOfOwnAccount, SpareLife
  <2> QED BY <2>1, <2>2
<1>3. CASE Acquire(c)
  BY <1>3 DEF IInv, Acquire, Goto, TypeOK, CacheSound, NowPast, ReplySound,
     HolderOnly, FoundDue, TokenOfOwnAccount, SpareLife
<1>4. CASE Recheck(c)
  <2>1. CASE Usable(ConfigOf[c], now[c])
    <3>1. cache \in Entry /\ cache.token \in Token /\ cache.token.config = ConfigOf[c]
      BY <2>1 DEF Usable, IInv, CacheSound, Entry
    <3>2. now[c] + Buffer(cache.token.life) < cache.token.issued + cache.token.life
      <4>1. /\ cache.token.life \in Nat /\ cache.token.issued \in Nat
            /\ cache.refreshAt \in Nat /\ now[c] \in Nat
        BY <3>1, EntryTimes, NowIsTime DEF IInv
      <4>2. now[c] < cache.refreshAt
            /\ cache.refreshAt + Buffer(cache.token.life) <= cache.token.issued + cache.token.life
        BY <2>1 DEF Usable, IInv, CacheSound
      <4>3. Buffer(cache.token.life) \in Nat
        BY <4>1, BufferBounds
      <4> QED BY <4>1, <4>2, <4>3
    <3> QED
      BY <1>4, <2>1, <3>1, <3>2 DEF IInv, Recheck, Return, Goto, Unlock, TypeOK, CacheSound,
         NowPast, ReplySound, HolderOnly, FoundDue, TokenOfOwnAccount, SpareLife
  <2>2. CASE ~Usable(ConfigOf[c], now[c])
    <3>1. cache # NoEntry /\ cache.config = ConfigOf[c] => now[c] >= cache.refreshAt
      BY <2>2 DEF Usable, IInv, CacheSound, TypeOK, Entry
    <3> QED
      BY <1>4, <2>2, <3>1 DEF IInv, Recheck, Goto, TypeOK, CacheSound, NowPast, ReplySound,
         HolderOnly, FoundDue, TokenOfOwnAccount, SpareLife
  <2> QED BY <2>1, <2>2
<1>5. CASE Grant(c)
  BY <1>5 DEF IInv, Grant, Goto, Token, TypeOK, CacheSound, NowPast, ReplySound,
     HolderOnly, FoundDue, TokenOfOwnAccount, SpareLife
<1>6. CASE Store(c)
  <2> DEFINE at == RefreshAt(now[c], reply[c].life)
  <2>1. reply[c] \in Token /\ reply[c].config = ConfigOf[c] /\ now[c] <= reply[c].issued
    BY <1>6 DEF Store, IInv, ReplySound
  <2>2. reply[c].life \in Nat /\ reply[c].issued \in Nat /\ now[c] \in Nat
    BY <2>1, NowIsTime DEF Token, IInv
  <2>3. at \in Nat /\ at + Buffer(reply[c].life) = now[c] + reply[c].life
        /\ Buffer(reply[c].life) \in Nat
    BY <2>2, RefreshAtBounds, BufferBounds
  <2>4. at + Buffer(reply[c].life) <= reply[c].issued + reply[c].life
        /\ now[c] + Buffer(reply[c].life) < reply[c].issued + reply[c].life
    BY <1>6, <2>1, <2>2, <2>3 DEF Store
  <2>5. /\ cache' = [token |-> reply[c], refreshAt |-> at, config |-> ConfigOf[c]]
        /\ cache' \in Entry
        /\ CacheSound'
    BY <1>6, <2>1, <2>3, <2>4 DEF Store, Entry, CacheSound
  <2>6. \A d \in Caller : d # c => pc[d] \notin {"recheck", "fetch", "granted"}
    BY <1>6 DEF Store, IInv, HolderOnly
  <2>7. lock' = None /\ clock' = clock /\ now' = now
        /\ pc' = [pc EXCEPT ![c] = "returned"] /\ got' = [got EXCEPT ![c] = reply[c]]
        /\ reply' = [reply EXCEPT ![c] = NoToken]
    BY <1>6 DEF Store, Return, Goto, Forget, Unlock, IInv, HolderOnly
  <2>8. TypeOK'
    BY <2>1, <2>5, <2>7 DEF IInv, TypeOK
  <2>9. NowPast' /\ ReplySound' /\ HolderOnly' /\ FoundDue'
    BY <2>6, <2>7 DEF IInv, TypeOK, NowPast, ReplySound, HolderOnly, FoundDue
  <2>10. TokenOfOwnAccount' /\ SpareLife'
    BY <2>1, <2>4, <2>7 DEF IInv, TypeOK, TokenOfOwnAccount, SpareLife
  <2> QED BY <2>5, <2>8, <2>9, <2>10 DEF IInv
<1>7. CASE Worthless(c)
  BY <1>7 DEF IInv, Worthless, Fail, Forget, Unlock, Goto, TypeOK, CacheSound, NowPast,
     ReplySound, HolderOnly, FoundDue, TokenOfOwnAccount, SpareLife
<1>8. CASE FetchFails(c)
  BY <1>8 DEF IInv, FetchFails, Fail, Forget, Unlock, Goto, TypeOK, CacheSound, NowPast,
     ReplySound, HolderOnly, FoundDue, TokenOfOwnAccount, SpareLife
<1> QED
  BY <1>1, <1>2, <1>3, <1>4, <1>5, <1>6, <1>7, <1>8 DEF Step

\* The clock and the replacement of the instance keep it too.
LEMMA NextInvariant == IInv /\ [Next]_vars => IInv'
<1> SUFFICES ASSUME IInv, [Next]_vars PROVE IInv'
  OBVIOUS
<1> USE CallerAssumption, TimeAssumption, NoneAssumption
<1>1. ASSUME NEW c \in Caller, Step(c) PROVE IInv'
  BY <1>1, StepInvariant
<1>2. CASE Tick
  BY <1>2 DEF IInv, Tick, TypeOK, CacheSound, NowPast, ReplySound, HolderOnly, FoundDue,
     TokenOfOwnAccount, SpareLife
<1>3. CASE ColdStart
  BY <1>3 DEF IInv, ColdStart, Running, TypeOK, CacheSound, NowPast, ReplySound,
     HolderOnly, FoundDue, TokenOfOwnAccount, SpareLife
<1>4. CASE UNCHANGED vars
  BY <1>4 DEF vars, IInv, TypeOK, CacheSound, NowPast, ReplySound, HolderOnly, FoundDue,
     TokenOfOwnAccount, SpareLife
<1> QED BY <1>1, <1>2, <1>3, <1>4 DEF Next, Finished

\* The invariant holds at all times.
LEMMA Invariance == Spec => []IInv
<1>1. Init => IInv BY InitInvariant
<1>2. IInv /\ [Next]_vars => IInv' BY NextInvariant
<1> QED BY <1>1, <1>2, PTL DEF Spec

-----------------------------------------------------------------------------
\* Every variable keeps its type, whatever the callers, accounts and lifetimes.
THEOREM TypeCorrect == Spec => []TypeOK
<1>1. IInv => TypeOK BY DEF IInv
<1> QED BY <1>1, Invariance, PTL

\* get_access_token never returns a token of another configuration.
THEOREM TokensStayHome == Spec => []TokenOfOwnAccount
<1>1. IInv => TokenOfOwnAccount BY DEF IInv
<1> QED BY <1>1, Invariance, PTL

\* A returned token has the buffer of its life left, however slow its fetch was.
THEOREM TokensAreFresh == Spec => []SpareLife
<1>1. IInv => SpareLife BY DEF IInv
<1> QED BY <1>1, Invariance, PTL

\* No caller replaces a token of its account that was not due.
THEOREM NoNeedlessFetch == Spec => ReplacedWhenDue
<1> DEFINE Due(c) == cache' # cache /\ pc'[c] # pc[c] /\ cache.config = cache'.config
                     /\ cache # NoEntry
<1>1. ASSUME IInv, [Next]_vars, NEW c \in Caller, Due(c)
      PROVE  now[c] >= cache.refreshAt
  <2>1. ASSUME ColdStart PROVE FALSE
    <3>1. cache' = NoEntry /\ cache.config \in Config
      BY <1>1, <2>1 DEF ColdStart, IInv, CacheSound, Entry
    <3> QED BY <1>1, <3>1, NoneAssumption DEF NoEntry
  <2>2. PICK d \in Caller : Store(d)
    BY <1>1, <2>1 DEF Next, Step, Finished, vars, Tick, ReadClock, Peek, Acquire, Recheck,
       Grant, Worthless, FetchFails
  <2>3. d = c
    BY <1>1, <2>2 DEF Store, Return, Goto, IInv, TypeOK
  <2> QED
    BY <1>1, <2>2, <2>3 DEF Store, IInv, FoundDue
<1>2. IInv /\ [Next]_vars =>
        [\A c \in Caller :
           cache' # cache /\ pc'[c] # pc[c] /\ cache.config = cache'.config
           /\ cache # NoEntry
             => now[c] >= cache.refreshAt]_vars
  BY <1>1
<1> QED BY <1>2, Invariance, PTL DEF Spec, ReplacedWhenDue

-----------------------------------------------------------------------------
(* The lock.                                                               *)

\* Where the source is inside "with _cache_lock".
Inside(c) == pc[c] \in {"recheck", "fetch", "granted"}

\* The lock is held by the one caller that is inside the block, and by nobody
\* when there is none: it is never left behind by a caller that has ended.
LockIsInside == \A c \in Caller : lock = c <=> Inside(c)

\* Every step takes the lock on the way in and frees it on the way out.
LEMMA StepsKeepLock == IInv /\ LockIsInside /\ [Next]_vars => LockIsInside'
<1> SUFFICES ASSUME IInv, LockIsInside, [Next]_vars PROVE LockIsInside'
  OBVIOUS
<1> USE NoneAssumption
<1>1. ASSUME NEW c \in Caller, lock # c, ~Inside(c), ~Inside(c)',
             \A d \in Caller : d # c => pc'[d] = pc[d], UNCHANGED lock
      PROVE  LockIsInside'
  BY <1>1 DEF LockIsInside, Inside
<1>2. ASSUME NEW c \in Caller, Inside(c), Inside(c)',
             \A d \in Caller : d # c => pc'[d] = pc[d], UNCHANGED lock
      PROVE  LockIsInside'
  BY <1>2 DEF LockIsInside, Inside
<1>3. ASSUME NEW c \in Caller, Inside(c), ~Inside(c)',
             \A d \in Caller : d # c => pc'[d] = pc[d], Unlock(c)
      PROVE  LockIsInside'
  BY <1>3 DEF LockIsInside, Inside, Unlock
<1>4. ASSUME NEW c \in Caller, Step(c) PROVE LockIsInside'
  <2>1. \A d \in Caller : d # c => pc'[d] = pc[d]
    BY <1>4 DEF Step, ReadClock, Peek, Acquire, Recheck, Grant, Store, Worthless, FetchFails,
       Return, Fail, Goto, IInv, TypeOK
  <2>2. CASE ReadClock(c) \/ Peek(c)
    BY <1>1, <2>1, <2>2 DEF ReadClock, Peek, Return, Goto, Inside, LockIsInside, IInv, TypeOK
  <2>3. CASE Acquire(c)
    BY <2>1, <2>3 DEF Acquire, Goto, Inside, LockIsInside, IInv, TypeOK
  <2>4. CASE Grant(c)
    BY <1>2, <2>1, <2>4 DEF Grant, Goto, Inside, IInv, TypeOK
  <2>5. CASE Recheck(c)
    BY <1>2, <1>3, <2>1, <2>5 DEF Recheck, Return, Goto, Inside, IInv, TypeOK
  <2>6. CASE Store(c) \/ Worthless(c) \/ FetchFails(c)
    BY <1>3, <2>1, <2>6 DEF Store, Worthless, FetchFails, Return, Fail, Goto, Inside, IInv, TypeOK
  <2> QED BY <1>4, <2>2, <2>3, <2>4, <2>5, <2>6 DEF Step
<1>5. CASE ColdStart
  BY <1>5 DEF ColdStart, Running, Inside, LockIsInside, IInv, TypeOK
<1>6. CASE Tick \/ UNCHANGED vars
  BY <1>6 DEF Tick, vars, Inside, LockIsInside
<1> QED BY <1>4, <1>5, <1>6 DEF Next, Finished

\* A failed request, a worthless token or a cold start never leaves the cache
\* locked, and two callers never fetch at once (with _cache_lock).
THEOREM LockFreedOnEveryPath == Spec => []LockIsInside
<1>1. Init => LockIsInside
  BY NoneAssumption DEF Init, LockIsInside, Inside
<1> QED BY <1>1, StepsKeepLock, Invariance, PTL DEF Spec
=============================================================================
