------------------------------- MODULE OAuthCache -------------------------------
(***************************************************************************)
(* The OAuth token cache of one process: payment_api/auth.get_access_token *)
(* called by concurrent threads.                                           *)
(*                                                                         *)
(* One token is cached, whatever its configuration.  A caller looks at it  *)
(* without the lock, then again with the lock, and fetches a token with    *)
(* the lock held.  The clock may be read long before what is decided on    *)
(* it: before the cache is read, and before the request that may take any  *)
(* time ("not a guaranteed total wall-clock deadline").                    *)
(***************************************************************************)
EXTENDS Integers

CONSTANTS
  Caller,      \* calls of get_access_token, each by a thread of its own
  Config,      \* fingerprints of a configuration
  ConfigOf,    \* ConfigOf[c]: the configuration c was called with
  Lifetime,    \* values of expires_in; 0 is one that vanishes in a float sum
  MaxBuffer,   \* _MAX_EXPIRY_BUFFER_SECONDS
  Horizon,     \* bound of the clock
  None

ASSUME CallerAssumption == ConfigOf \in [Caller -> Config]

ASSUME TimeAssumption ==
  /\ Lifetime \subseteq Nat /\ MaxBuffer \in Nat /\ Horizon \in Nat
  /\ \A life \in Lifetime : life % 2 = 0    \* so that halves are integers

ASSUME NoneAssumption == None \notin Caller \cup Config

VARIABLES
  clock,   \* time.monotonic()
  cache,   \* _token_cache: no entry or one
  lock,    \* the holder of _cache_lock
  pc,      \* pc[c]: where call c is
  now,     \* now[c]: the time c last read
  reply,   \* reply[c]: what Moneris answered c
  got      \* got[c]: the token c returned

vars == <<clock, cache, lock, pc, now, reply, got>>

\* A token is known by what Moneris granted: to whom, when, and for how long.
Token == [config : Config, issued : Nat, life : Lifetime]
Entry == [token : Token, refreshAt : Nat, config : Config]

NoToken == [config |-> None, issued |-> 0, life |-> 0]
NoEntry == [token |-> NoToken, refreshAt |-> 0, config |-> None]

TypeOK ==
  /\ clock \in 0 .. Horizon
  /\ cache \in Entry \cup {NoEntry}
  /\ lock \in Caller \cup {None}
  /\ pc \in [Caller -> {"start", "peek", "wait", "recheck", "fetch", "granted",
                        "returned", "failed", "killed"}]
  /\ now \in [Caller -> 0 .. Horizon]
  /\ reply \in [Caller -> Token \cup {NoToken}]
  /\ got \in [Caller -> Token \cup {NoToken}]

Init ==
  /\ clock = 0 /\ cache = NoEntry /\ lock = None
  /\ pc = [c \in Caller |-> "start"]
  /\ now = [c \in Caller |-> 0]
  /\ reply = [c \in Caller |-> NoToken]
  /\ got = [c \in Caller |-> NoToken]

-----------------------------------------------------------------------------
(* Helpers.                                                                *)

Buffer(life) == IF life \div 2 < MaxBuffer THEN life \div 2 ELSE MaxBuffer

\* _refresh_at
RefreshAt(t, life) == t + life - Buffer(life)

\* Mutant: whatever configuration the entry is for.
UsableByAnyone(config, t) == cache # NoEntry /\ t < cache.refreshAt

\* _usable_cached_token
Usable(config, t) ==
  cache # NoEntry /\ cache.config = config /\ t < cache.refreshAt

Goto(c, next) == pc' = [pc EXCEPT ![c] = next]

Return(c, token) == Goto(c, "returned") /\ got' = [got EXCEPT ![c] = token]

\* The locals of a call end with it.
Forget(c) == reply' = [reply EXCEPT ![c] = NoToken]

Fail(c) ==
  /\ Goto(c, "failed")
  /\ now' = [now EXCEPT ![c] = 0]
  /\ Forget(c)

Unlock(c) == lock' = IF lock = c THEN None ELSE lock

-----------------------------------------------------------------------------
(* get_access_token.                                                       *)

ReadClock(c) ==
  /\ pc[c] = "start"
  /\ now' = [now EXCEPT ![c] = clock]
  /\ Goto(c, "peek")
  /\ UNCHANGED <<clock, cache, lock, reply, got>>

\* Mutant: the caller is given the entry and not the token in it.
PeekReturnsEntry(c) ==
  /\ pc[c] = "peek"
  /\ IF Usable(ConfigOf[c], now[c])
     THEN Return(c, cache)
     ELSE Goto(c, "wait") /\ UNCHANGED got
  /\ UNCHANGED <<clock, cache, lock, now, reply>>

Peek(c) ==
  /\ pc[c] = "peek"
  /\ IF Usable(ConfigOf[c], now[c])
     THEN Return(c, cache.token)
     ELSE Goto(c, "wait") /\ UNCHANGED got
  /\ UNCHANGED <<clock, cache, lock, now, reply>>

\* The lock and the clock: a pause between the two is one before them.
Acquire(c) ==
  /\ pc[c] = "wait" /\ lock = None
  /\ lock' = c
  /\ now' = [now EXCEPT ![c] = clock]
  /\ Goto(c, "recheck")
  /\ UNCHANGED <<clock, cache, reply, got>>

\* Mutant: the cache is not looked at again once the lock is held.
RecheckNothing(c) ==
  /\ pc[c] = "recheck"
  /\ Goto(c, "fetch")
  /\ UNCHANGED <<clock, cache, lock, now, reply, got>>

Recheck(c) ==
  /\ pc[c] = "recheck"
  /\ IF Usable(ConfigOf[c], now[c])
     THEN Return(c, cache.token) /\ Unlock(c)
     ELSE Goto(c, "fetch") /\ UNCHANGED <<lock, got>>
  /\ UNCHANGED <<clock, cache, now, reply>>

\* Moneris grants a token while the request is under way.
Grant(c) ==
  /\ pc[c] = "fetch"
  /\ \E life \in Lifetime :
       reply' = [reply EXCEPT ![c] =
                   [config |-> ConfigOf[c], issued |-> clock, life |-> life]]
  /\ Goto(c, "granted")
  /\ UNCHANGED <<clock, cache, lock, now, got>>

\* Mutant: the lifetime is counted from the arrival of the answer.
StoreFromArrival(c) ==
  LET at == RefreshAt(clock, reply[c].life) IN
  /\ pc[c] = "granted" /\ at > clock
  /\ cache' = [token |-> reply[c], refreshAt |-> at, config |-> ConfigOf[c]]
  /\ Return(c, reply[c]) /\ Forget(c) /\ Unlock(c)
  /\ UNCHANGED <<clock, now>>

\* _fetch_and_store_token, once the answer is there.
Store(c) ==
  LET at == RefreshAt(now[c], reply[c].life) IN
  /\ pc[c] = "granted" /\ at > now[c]
  /\ cache' = [token |-> reply[c], refreshAt |-> at, config |-> ConfigOf[c]]
  /\ Return(c, reply[c]) /\ Forget(c) /\ Unlock(c)
  /\ UNCHANGED <<clock, now>>

\* A lifetime of nothing is an invalid response.
Worthless(c) ==
  /\ pc[c] = "granted" /\ RefreshAt(now[c], reply[c].life) <= now[c]
  /\ Fail(c) /\ Unlock(c)
  /\ UNCHANGED <<clock, cache, got>>

\* Mutant: the lock is acquired and released by hand, and not on this path.
FetchFailsLocked(c) ==
  /\ pc[c] \in {"fetch", "granted"}
  /\ Fail(c)
  /\ UNCHANGED <<clock, cache, lock, got>>

\* MonerisAuthError: no answer, a status that is not 2xx, a body that is no
\* bearer token with a positive lifetime.  Moneris may have granted one.
FetchFails(c) ==
  /\ pc[c] \in {"fetch", "granted"}
  /\ Fail(c) /\ Unlock(c)
  /\ UNCHANGED <<clock, cache, got>>

-----------------------------------------------------------------------------
Tick ==
  /\ clock < Horizon
  /\ clock' = clock + 1
  /\ UNCHANGED <<cache, lock, pc, now, reply, got>>

Running(c) == pc[c] \in {"peek", "wait", "recheck", "fetch", "granted"}

\* The instance is replaced: its threads and its cache are gone.
ColdStart ==
  /\ \E c \in Caller : pc[c] # "start"
  /\ cache' = NoEntry /\ lock' = None
  /\ pc' = [c \in Caller |-> IF Running(c) THEN "killed" ELSE pc[c]]
  /\ now' = [c \in Caller |-> IF Running(c) THEN 0 ELSE now[c]]
  /\ reply' = [c \in Caller |-> NoToken]
  /\ UNCHANGED <<clock, got>>

Step(c) ==
  \/ ReadClock(c)
  \/ Peek(c)
  \/ Acquire(c)
  \/ Recheck(c)
  \/ Grant(c)
  \/ Store(c)
  \/ Worthless(c)
  \/ FetchFails(c)

Ended(c) == pc[c] \in {"returned", "failed", "killed"}

Finished == (\A c \in Caller : Ended(c)) /\ UNCHANGED vars

Next == (\E c \in Caller : Step(c)) \/ Tick \/ ColdStart \/ Finished

Spec == Init /\ [][Next]_vars

\* A thread that can go on does: the lock is released on every path, and the
\* request has a timeout.
FairSpec == Spec /\ \A c \in Caller : WF_vars(Step(c))

-----------------------------------------------------------------------------
(* Safety.                                                                 *)

\* A caller gets a token of the account it was configured for, although one
\* entry serves every configuration (config_id, auth.py:100).
TokenOfOwnAccount ==
  \A c \in Caller : pc[c] = "returned" => got[c].config = ConfigOf[c]

\* A token given out had more than the buffer of its life before it when its
\* caller last read the clock, however slow the request that fetched it was
\* (auth.py:62: the clock is read before the request, and not after).
SpareLife ==
  \A c \in Caller :
    pc[c] = "returned" =>
      now[c] + Buffer(got[c].life) < got[c].issued + got[c].life

\* Callers that waited for the lock use what was fetched meanwhile: a token is
\* replaced by another of its account only when it was due (auth.py:62-65).
ReplacedWhenDue ==
  [][\A c \in Caller :
       cache' # cache /\ pc'[c] # pc[c] /\ cache.config = cache'.config
       /\ cache # NoEntry
         => now[c] >= cache.refreshAt]_vars

\* Every call returns a token or an error, whoever holds the lock and however
\* its request ends (with _cache_lock).
EveryCallEnds == \A c \in Caller : pc[c] = "peek" ~> Ended(c)
=============================================================================
