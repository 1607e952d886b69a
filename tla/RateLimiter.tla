------------------------------ MODULE RateLimiter ------------------------------
(***************************************************************************)
(* One key of the sliding-window limiter (platform/ratelimit.py), on each  *)
(* of its stores.  A caller reads the clock first; the store records the   *)
(* hit and counts later, under its lock or in a transaction of its own, so *)
(* that hits of several callers may arrive out of order.  Refused hits are *)
(* recorded like the others.                                               *)
(*                                                                         *)
(* The transactions of the database store write first, which makes them    *)
(* serial on SQLite.  On PostgreSQL they run side by side at the default   *)
(* isolation: a count does not see the hits that others have inserted and  *)
(* not committed.  (Two that delete the same expired row wait for each     *)
(* other there; the module leaves that out, and so allows more.)           *)
(***************************************************************************)
EXTENDS Integers, FiniteSets

CONSTANTS
    Callers,
    Limit, Window,  \* requests, and seconds
    Delay,          \* bound: seconds between reading the clock and the store
    MaxTime,        \* bound: the clock's readings
    MaxHits         \* bound: hits a key has at a time

\* A limit of 0 switches the check off.
ASSUME LimitAssumption == Limit \in Nat \ {0} /\ Window \in Nat \ {0} /\ Delay \in Nat
ASSUME RoomAssumption == MaxTime \in Nat /\ MaxHits \in Nat

VARIABLES
    store,          \* where the hits are: "memory", "sqlite" or "postgres"
    time,
    hits,           \* the hits recorded for the key, numbered as they arrived
    caller,         \* what each caller is doing
    admitted,       \* history: the hits of callers let in since the last reset
                    \* and when that was
    promise         \* history: when the caller refused last may try again, if
                    \* nobody has come since

limiterVars == <<store, time, hits, caller, admitted, promise>>

Stores == {"memory", "sqlite", "postgres"}

Away == [step |-> "away"]
Caller ==
    {Away}
    \cup [step : {"checking", "refused"}, now : 0..MaxTime]
    \cup [step : {"recorded"}, now : 0..MaxTime, fits : BOOLEAN]

Hit == [n : Nat \ {0}, at : 0..MaxTime]
Admission == [hit : Hit, time : 0..MaxTime]

LimiterTypeOK ==
    /\ store \in Stores
    /\ time \in 0..MaxTime
    /\ hits \subseteq Hit /\ Cardinality(hits) <= MaxHits
    /\ caller \in [Callers -> Caller]
    /\ admitted \subseteq Admission
    /\ promise \in Int

NoPromise == -1

LimiterInit ==
    /\ store \in Stores
    /\ time = 0
    /\ hits = {}
    /\ caller = [c \in Callers |-> Away]
    /\ admitted = {}
    /\ promise = NoPromise

-----------------------------------------------------------------------------
\* hits in (now - window, now] count.
Counts(h, now) == h.at > now - Window

\* InMemoryStore._prune takes expired hits from the front only; DatabaseStore
\* deletes them wherever they are.
Pruned(now) ==
    {h \in hits : \E k \in hits :
        Counts(k, now) /\ IF store = "memory" THEN k.n <= h.n ELSE k = h}

\* The next hit comes behind all those that are kept.
Arrival(kept, now) ==
    [n |-> 1 + (CHOOSE n \in {0} \cup {h.n : h \in kept} : \A h \in kept : h.n <= n), at |-> now]

\* record_and_count
Count(now) == Cardinality(Pruned(now)) + 1

\* Fault: one more than the limit.
FitsLoosely(now) == Count(now) <= Limit + 1

Fits(now) == Count(now) <= Limit

\* retry_after looks at the hits in the order of arrival, or of time.
Place(h) == IF store = "memory" THEN h.n ELSE h.at

Behind(h, kept) == {k \in kept : Place(k) > Place(h)}

\* Fault: refused until the oldest hit of all has left the window.
AnyHit(kept) == kept

Latest(kept) == {h \in kept : Cardinality(Behind(h, kept)) < Limit}

\* "The request is allowed again once the oldest of the limit most recent hits
\* ages out of the window."
Deciding(kept) == CHOOSE h \in Latest(kept) : \A k \in Latest(kept) : Place(h) <= Place(k)

\* Whole seconds are rounded up past the second that has begun.
RetryAfter(now) ==
    LET kept == Pruned(now)
        seconds == Deciding(kept).at + Window - now + 1
    IN  IF kept = {} \/ seconds < 1 THEN 1 ELSE seconds

-----------------------------------------------------------------------------
Tick ==
    /\ time < MaxTime
    /\ \A c \in Callers : caller[c].step \in {"checking", "recorded"} => time < caller[c].now + Delay
    /\ time' = time + 1
    /\ UNCHANGED <<store, hits, caller, admitted, promise>>

\* RateLimiter.check reads the clock ...
ReadClock(c) ==
    /\ caller[c] = Away
    /\ caller' = [caller EXCEPT ![c] = [step |-> "checking", now |-> time]]
    /\ UNCHANGED <<store, time, hits, admitted, promise>>

\* The hit is in the store, and the caller is let in if it fits.
Arrives(c, fits) ==
    /\ Cardinality(hits) < MaxHits
    /\ LET now == caller[c].now
           hit == Arrival(Pruned(now), now)
       IN  /\ hits' = Pruned(now) \cup {hit}
           /\ admitted' = IF fits THEN admitted \cup {[hit |-> hit, time |-> time]} ELSE admitted
           /\ caller' = [caller EXCEPT ![c] =
                           IF fits THEN Away ELSE [step |-> "refused", now |-> now]]
    /\ promise' = NoPromise
    /\ UNCHANGED <<store, time>>

\* ... and the store records the hit and counts, in one go ...
Check(c) ==
    /\ store # "postgres"
    /\ caller[c].step = "checking"
    /\ Arrives(c, Fits(caller[c].now))

\* ... or it counts the hits that are committed and its own ...
RecordHit(c) ==
    /\ store = "postgres"
    /\ caller[c].step = "checking"
    /\ caller' = [caller EXCEPT ![c] =
                    [step |-> "recorded", now |-> @.now, fits |-> Fits(@.now)]]
    /\ UNCHANGED <<store, time, hits, admitted, promise>>

\* ... and commits: only then do others count it.
CommitHit(c) ==
    /\ caller[c].step = "recorded"
    /\ Arrives(c, caller[c].fits)

\* A store that raises lets the caller in, uncounted ("fail open").  If it raises
\* for a caller refused, the answer names the whole window and promises nothing.
StoreFails(c) ==
    /\ caller[c] # Away
    /\ caller' = [caller EXCEPT ![c] = Away]
    /\ UNCHANGED <<store, time, hits, admitted, promise>>

\* The answer to a caller refused.  Only the memory store prunes here.
Refuse429(c) ==
    /\ caller[c].step = "refused"
    /\ promise' = caller[c].now + RetryAfter(caller[c].now)
    /\ hits' = IF store = "memory" THEN Pruned(caller[c].now) ELSE hits
    /\ caller' = [caller EXCEPT ![c] = Away]
    /\ UNCHANGED <<store, time, admitted>>

\* reset_login_account, after a login.
Reset ==
    /\ hits # {}
    /\ hits' = {}
    /\ admitted' = {}
    /\ promise' = NoPromise
    /\ UNCHANGED <<store, time, caller>>

LimiterNext ==
    \/ Tick
    \/ Reset
    \/ \E c \in Callers : ReadClock(c) \/ Check(c) \/ RecordHit(c) \/ CommitHit(c) \/ StoreFails(c) \/ Refuse429(c)

LimiterSpec == LimiterInit /\ [][LimiterNext]_limiterVars

-----------------------------------------------------------------------------
(***************************************************************************)
(* Properties.                                                             *)
(***************************************************************************)
\* Who was let in during Window seconds from t; as a caller may be late by Delay
\* seconds, the windows of which something is certain are as much shorter.
AdmittedFrom(t) == {a \in admitted : t <= a.time /\ a.time < t + Window - Delay}

\* What a sliding window promises: at most Limit callers are let in during any of
\* them, however late and in whatever order hits arrive, in memory and on SQLite.
\* (On PostgreSQL, callers who record their hits at the same time do not count each
\* other, and more are let in.)
AdmitsAtMostLimit ==
    store # "postgres" => \A t \in 0..time : Cardinality(AdmittedFrom(t)) <= Limit

\* Retry-After tells the truth: a caller who waits as long as told is let in,
\* if nobody else came, though refused attempts count.  The memory store, which
\* counts from the end of its deque, needs the hits to have arrived in order.
InOrderOfTime == \A h, k \in hits : h.n < k.n => h.at <= k.at

RetryAfterSuffices ==
    promise # NoPromise /\ (store # "memory" \/ InOrderOfTime) => Fits(promise)
=============================================================================
