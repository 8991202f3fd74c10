---------------------------- MODULE WorkshopClient ----------------------------
(***************************************************************************)
(* The client of the Workshop API (mods/workshop.py): one process-wide rate  *)
(* limiter whose lock is held while it paces, a cache of answers with a time *)
(* to live, and a retry loop for refusals (429) and for passing failures.    *)
(*                                                                         *)
(* One unit of time is the interval in which the bucket gains a token, so    *)
(* tokens and times are integers.  A timer that has run out may be noticed   *)
(* late: the event loop owes nobody a prompt wake-up.                       *)
(***************************************************************************)
EXTENDS Integers, Sequences, SequencesExt

CONSTANTS
    ApiCallers,     \* the requests and jobs that call the API
    Urls,
    Burst,          \* _RATE_BURST
    PerDay,         \* _RATE_PER_DAY
    Ttl,            \* _CACHE_TTL_SECONDS
    Waits,          \* the values of Retry-After
    Max429,         \* _MAX_429_RETRIES
    MaxTransient,   \* _MAX_TRANSIENT_RETRIES
    Midnights       \* BOOLEAN: whether days pass

ASSUME WorkshopAssumption ==
    /\ Burst \in Nat \ {0} /\ PerDay \in Nat /\ Ttl \in Nat
    /\ Waits \subseteq Nat \ {0} /\ \E w \in Waits : \A v \in Waits : v <= w
    /\ Max429 \in Nat /\ MaxTransient \in Nat /\ Midnights \in BOOLEAN

VARIABLES
    tokens,     \* _tokens, in debt after a pause it has to sit out
    ahead,      \* _updated, relative to now
    dayCount,   \* _day_count
    newDay,     \* today is not _day
    lock,       \* the callers at the limiter's lock, its holder first
    pc,         \* what each caller awaits
    left,       \* of the sleep of each caller
    refused,    \* attempt_429
    failed,     \* attempt_transient
    url,
    cache,      \* the time each answer has left
    level       \* history: the budget the Workshop still grants

limiter == <<tokens, ahead, dayCount, newDay>>
callers == <<pc, left, refused, failed, url>>
wcVars == <<limiter, lock, callers, cache, level>>

Least(a, b) == IF a < b THEN a ELSE b
Most(a, b) == IF a > b THEN a ELSE b
LongestWait == CHOOSE w \in Waits : \A v \in Waits : v <= w

WCTypeOK ==
    /\ tokens \in -LongestWait..Burst /\ ahead \in -(Burst + LongestWait)..LongestWait
    /\ dayCount \in 0..PerDay /\ newDay \in BOOLEAN
    /\ lock \in Seq(ApiCallers)
    /\ pc \in [ApiCallers -> {"idle", "lock", "paced", "sent", "told", "retry"}]
    /\ left \in [ApiCallers -> 0..(LongestWait + 1)]
    /\ refused \in [ApiCallers -> 0..Max429] /\ failed \in [ApiCallers -> 0..MaxTransient]
    /\ url \in [ApiCallers -> Urls] /\ cache \in [Urls -> 0..Ttl] /\ level \in 0..Burst

WCInit ==
    /\ tokens = Burst /\ ahead = 0 /\ dayCount = 0 /\ newDay = FALSE
    /\ lock = <<>>
    /\ pc = [c \in ApiCallers |-> "idle"] /\ left = [c \in ApiCallers |-> 0]
    /\ refused = [c \in ApiCallers |-> 0] /\ failed = [c \in ApiCallers |-> 0]
    /\ url \in [ApiCallers -> Urls]
    /\ cache = [u \in Urls |-> 0]
    /\ level = Burst

-----------------------------------------------------------------------------
(* The caller and the lock *)

(* The caller's call is over, with an answer or an exception.               *)
Returns(c) ==
    /\ pc' = [pc EXCEPT ![c] = "idle"]
    /\ left' = [left EXCEPT ![c] = 0]
    /\ refused' = [refused EXCEPT ![c] = 0]
    /\ failed' = [failed EXCEPT ![c] = 0]
    /\ UNCHANGED url

Queues(c) == lock' = Append(lock, c)

(* _get_json, not answered from the cache.                                  *)
Get(c, u) ==
    /\ pc[c] = "idle" /\ cache[u] = 0
    /\ url' = [url EXCEPT ![c] = u]
    /\ pc' = [pc EXCEPT ![c] = "lock"]
    /\ Queues(c)
    /\ UNCHANGED <<limiter, left, refused, failed, cache, level>>

-----------------------------------------------------------------------------
(* _RateLimiter *)

Refilled == Least(Burst, tokens - ahead)
CountToday == IF newDay THEN 0 ELSE dayCount

Sends(c) ==
    /\ lock' = Tail(lock)
    /\ pc' = [pc EXCEPT ![c] = "sent"]
    /\ level' = level - 1

(* The budget of the day is spent.                                          *)
Exhausts(c) ==
    /\ CountToday >= PerDay
    /\ tokens' = Refilled
    /\ lock' = Tail(lock)
    /\ Returns(c)
    /\ UNCHANGED <<dayCount, level>>

Paces(c) ==
    /\ CountToday < PerDay /\ Refilled < 1
    /\ tokens' = Refilled
    /\ dayCount' = CountToday
    /\ pc' = [pc EXCEPT ![c] = "paced"]
    /\ left' = [left EXCEPT ![c] = 1 - Refilled]
    /\ UNCHANGED <<lock, refused, failed, url, level>>

Passes(c) ==
    /\ CountToday < PerDay /\ Refilled >= 1
    /\ tokens' = Refilled - 1
    /\ dayCount' = CountToday + 1
    /\ Sends(c)
    /\ UNCHANGED <<left, refused, failed, url>>

Acquire(c) ==
    /\ lock # <<>> /\ Head(lock) = c /\ pc[c] = "lock"
    /\ ahead' = 0 /\ newDay' = FALSE
    /\ Exhausts(c) \/ Paces(c) \/ Passes(c)
    /\ UNCHANGED cache

(* Mutant of Settles: the sleep that paid for the token is credited again.   *)
SettlesNothing == UNCHANGED <<tokens, ahead>>

Settles == tokens' = 0 /\ ahead' = 0

(* The day's count goes up whatever day it has become.                       *)
PaceEnds(c) ==
    /\ pc[c] = "paced" /\ left[c] = 0
    /\ Settles
    /\ dayCount' = dayCount + 1
    /\ Sends(c)
    /\ UNCHANGED <<newDay, left, refused, failed, url, cache>>

(* note_retry_after                                                         *)
NoteRetryAfter(w) == tokens' = 0 /\ ahead' = w /\ UNCHANGED <<dayCount, newDay>>

-----------------------------------------------------------------------------
(* The answers *)

(* Mutant of Spent: a refusal can always be tried again.                    *)
SpentNever(tries, max) == FALSE

Spent(tries, max) == tries >= max

Answered(c) ==
    /\ pc[c] = "sent"
    /\ cache' = [cache EXCEPT ![url[c]] = Ttl]
    /\ Returns(c)
    /\ UNCHANGED <<limiter, lock, level>>

(* 404, another client error, or what is no JSON.                           *)
Raises(c) ==
    /\ pc[c] = "sent"
    /\ Returns(c)
    /\ UNCHANGED <<limiter, lock, cache, level>>

Sleeps(c, why, w) ==
    /\ pc' = [pc EXCEPT ![c] = why]
    /\ left' = [left EXCEPT ![c] = w]
    /\ UNCHANGED <<url, lock, cache, level>>

(* 429: the bucket is drained for everyone, and the caller sleeps it out.    *)
TooMany(c, w) ==
    /\ pc[c] = "sent" /\ ~Spent(refused[c], Max429)
    /\ refused' = [refused EXCEPT ![c] = Least(@ + 1, Max429)]
    /\ NoteRetryAfter(w)
    /\ Sleeps(c, "told", w)
    /\ UNCHANGED failed

(* No connection, a timeout, a server error.                                *)
Transient(c) ==
    /\ pc[c] = "sent" /\ ~Spent(failed[c], MaxTransient)
    /\ failed' = [failed EXCEPT ![c] = Least(@ + 1, MaxTransient)]
    /\ Sleeps(c, "retry", 1)
    /\ UNCHANGED <<limiter, refused>>

GivesUp(c) ==
    /\ pc[c] = "sent"
    /\ Spent(refused[c], Max429) \/ Spent(failed[c], MaxTransient)
    /\ Returns(c)
    /\ UNCHANGED <<limiter, lock, cache, level>>

TriesAgain(c) ==
    /\ pc[c] \in {"told", "retry"} /\ left[c] = 0
    /\ pc' = [pc EXCEPT ![c] = "lock"]
    /\ Queues(c)
    /\ UNCHANGED <<limiter, left, refused, failed, url, cache, level>>

(* The task that called is cancelled: a job's, or that of a request whose    *)
(* client left.                                                             *)
Cancelled(c) ==
    /\ pc[c] # "idle"
    /\ Returns(c)
    /\ \/ \E i \in DOMAIN lock : lock[i] = c /\ lock' = RemoveAt(lock, i)
       \/ (\A i \in DOMAIN lock : lock[i] # c) /\ UNCHANGED lock
    /\ UNCHANGED <<limiter, cache, level>>

ClearCache ==
    /\ cache' = [u \in Urls |-> 0]
    /\ UNCHANGED <<limiter, lock, callers, level>>

-----------------------------------------------------------------------------
Tick ==
    /\ ahead' = Most(ahead - 1, -(Burst + LongestWait))
    /\ left' = [c \in ApiCallers |-> Most(left[c] - 1, 0)]
    /\ cache' = [u \in Urls |-> Most(cache[u] - 1, 0)]
    /\ level' = Least(level + 1, Burst)
    /\ UNCHANGED <<tokens, dayCount, newDay, lock, pc, refused, failed, url>>

Midnight ==
    /\ Midnights
    /\ newDay' = TRUE
    /\ UNCHANGED <<tokens, ahead, dayCount, lock, callers, cache, level>>

(* The transport's timeouts bound every answer.                             *)
Ends(c) == Answered(c) \/ Raises(c) \/ Transient(c) \/ GivesUp(c) \/ \E w \in Waits : TooMany(c, w)

WCNext ==
    \/ Tick \/ Midnight \/ ClearCache
    \/ \E c \in ApiCallers :
         \/ \E u \in Urls : Get(c, u)
         \/ Acquire(c) \/ PaceEnds(c) \/ Ends(c) \/ TriesAgain(c) \/ Cancelled(c)

WCFairness ==
    /\ WF_wcVars(Tick)
    /\ \A c \in ApiCallers : /\ WF_wcVars(Acquire(c)) /\ WF_wcVars(PaceEnds(c))
                             /\ WF_wcVars(Ends(c)) /\ WF_wcVars(TriesAgain(c))

WCSpec == WCInit /\ [][WCNext]_wcVars /\ WCFairness

-----------------------------------------------------------------------------
(* Properties *)

(* However the callers interleave, are refused, sleep and are cancelled, the *)
(* process never sends more than the burst and the rate allow: what           *)
(* _RateLimiter.acquire credits and charges is a token bucket.              *)
Bucket == INSTANCE TokenBucket
ImplementsTokenBucket == Bucket!Spec

(* Every call comes back: the lock is handed on in order, and the retries of *)
(* _get_json are counted.                                                   *)
GetEnds == \A c \in ApiCallers : pc[c] # "idle" ~> pc[c] = "idle"

-----------------------------------------------------------------------------
(* What the source says and the program does not do *)

(* "After a 429: drain the bucket so the next acquire() also waits"          *)
(* (workshop.py:152): nothing is sent while a refused caller sits out its    *)
(* pause.  A caller that was pacing settles the bucket when it wakes, and a   *)
(* second refusal with a shorter pause replaces the first one.              *)
BackoffHonoured ==
    [][\A c, d \in ApiCallers :
         pc[c] = "told" /\ left[c] > 0 => ~(pc[d] # "sent" /\ pc'[d] = "sent")]_wcVars
================================================================================
