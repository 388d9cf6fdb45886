----------------------------- MODULE RateLimiter -----------------------------
(***************************************************************************)
(* The fixed-window counters of interfaces/api/rate_limit.py as the        *)
(* middleware of operations.py drives them: a request that is              *)
(* authenticated and of an acceptable length is charged to its client's    *)
(* bucket, and is passed to its handler or refused with 429.               *)
(*                                                                         *)
(* The middleware runs on the event loop and does not await between the    *)
(* request's arrival and the limiter's decision, so a decision is one      *)
(* step. ApiService has the requests refused earlier and the handlers.     *)
(***************************************************************************)
EXTENDS Integers, Sequences, FiniteSets

CONSTANTS
    MaxRequests,     \* bound of the model: the number of requests that arrive
    Identities,      \* credential fingerprints or client addresses
    Limit,           \* bucket -> requests allowed per window
    WindowSeconds,   \* rate_limit_window_seconds
    TicksPerSecond,  \* grain of the monotonic clock
    MaxEntries,      \* rate_limit_max_identities
    MaxClock         \* bound of the model: the last clock reading

Buckets == {"standard", "expensive"}

ASSUME RequestsAssumption == MaxRequests \in Nat /\ IsFiniteSet(Identities)
ASSUME LimitAssumption == Limit \in [Buckets -> Nat \ {0}]
ASSUME WindowAssumption ==
    /\ WindowSeconds \in Nat \ {0}
    /\ TicksPerSecond \in Nat \ {0}
    /\ MaxEntries \in Nat \ {0}
    /\ MaxClock \in Nat

VARIABLES
    windows,   \* InMemoryRateLimitStorage._values: start and count of a key
    requests,  \* how many requests have arrived
    now,       \* the monotonic clock
    told,      \* history: requests a key was last told it has left
    comeBack,  \* history: when a refused key was told to retry, or Never
    admitted   \* history: when a key's latest requests were let through

limiterVars == <<windows, requests, now, told, comeBack, admitted>>

-----------------------------------------------------------------------------
(* Types and helpers *)

Keys == Identities \X Buckets
Window == WindowSeconds * TicksPerSecond
Never == -1

Absent == [start |-> 0, count |-> 0]
Stored(w) == {k \in Keys : w[k] # Absent}

\* A key whose window has not run out at time t.
Live(w, t) == {k \in Stored(w) : t - w[k].start < Window}

Larger(a, b) == IF a >= b THEN a ELSE b

\* ceil(a / TicksPerSecond) for a tick count.
CeilSeconds(a) == (a + TicksPerSecond - 1) \div TicksPerSecond

\* Faulty variants of the definitions below, to show that the properties can fail.
CleanupOneEarly(w, t) ==
    [k \in Keys |-> IF t - w[k].start >= Window - 1 THEN Absent ELSE w[k]]
Newest(w) == {k \in Stored(w) : \A l \in Stored(w) : w[l].start <= w[k].start}
RetryRoundedDown(entry) == Larger(1, (Window - (now - entry.start)) \div TicksPerSecond)

-----------------------------------------------------------------------------
(* rate_limit.py *)

\* _cleanup_locked: expired windows are dropped.
Cleanup(w, t) == [k \in Keys |-> IF t - w[k].start >= Window THEN Absent ELSE w[k]]

\* The keys min() may pick; the order of key strings that breaks ties is left open.
Oldest(w) == {k \in Stored(w) : \A l \in Stored(w) : w[k].start <= w[l].start}

\* A new key in a full storage takes the place of an oldest one.
MakeRoom(w, k) ==
    IF w[k] = Absent /\ Cardinality(Stored(w)) >= MaxEntries
    THEN {[w EXCEPT ![o] = Absent] : o \in Oldest(w)}
    ELSE {w}

Bump(entry, t) ==
    IF t - entry.start >= Window
    THEN [start |-> t, count |-> 1]
    ELSE [entry EXCEPT !.count = @ + 1]

\* The storages increment(k, now, window) may leave behind.
Increment(k) ==
    {[w EXCEPT ![k] = Bump(IF @ = Absent THEN [start |-> now, count |-> 0] ELSE @, now)]
        : w \in MakeRoom(Cleanup(windows, now), k)}

RetryAfter(entry) == Larger(1, CeilSeconds(Window - (now - entry.start)))
Remaining(entry, limit) == Larger(0, limit - entry.count)

-----------------------------------------------------------------------------
(* operations.py and FixedWindowRateLimiter.check *)

\* A live window that makes room for another is forgotten, and with it the
\* admissions it counted.
Forgotten == {k \in Live(windows, now) : windows'[k] = Absent}

\* The last 2 * limit admissions of a key are enough to judge a window's length.
Remember(k) ==
    LET times == Append(admitted[k], now)
    IN  IF Len(times) > 2 * Limit[k[2]] THEN Tail(times) ELSE times

\* check() lets the request through, and call_next runs its handler.
Admit(k) ==
    /\ requests < MaxRequests
    /\ requests' = requests + 1
    /\ windows' \in Increment(k)
    /\ windows'[k].count <= Limit[k[2]]
    /\ told' = [told EXCEPT ![k] = Remaining(windows'[k], Limit[k[2]])]
    /\ comeBack' = [comeBack EXCEPT ![k] = Never]
    /\ admitted' = [l \in Keys |-> IF l = k THEN Remember(k)
                                  ELSE IF l \in Forgotten THEN <<>> ELSE admitted[l]]
    /\ UNCHANGED now

\* check() refuses: 429 with Retry-After. The refused request is counted too.
Refuse(k) ==
    /\ requests < MaxRequests
    /\ requests' = requests + 1
    /\ windows' \in Increment(k)
    /\ windows'[k].count > Limit[k[2]]
    /\ comeBack' = [comeBack EXCEPT ![k] = now + RetryAfter(windows'[k]) * TicksPerSecond]
    /\ UNCHANGED <<now, told, admitted>>

Tick ==
    /\ now < MaxClock
    /\ now' = now + 1
    /\ UNCHANGED <<windows, requests, told, comeBack, admitted>>

LimiterInit ==
    /\ windows = [k \in Keys |-> Absent]
    /\ requests = 0
    /\ now = 0
    /\ told = [k \in Keys |-> 0]
    /\ comeBack = [k \in Keys |-> Never]
    /\ admitted = [k \in Keys |-> <<>>]

-----------------------------------------------------------------------------
(* Properties *)

\* A window opens with the request that finds none, so 2 * limit requests in a
\* row are let through in no less than a window's length, wherever the span
\* starts, as long as the key's live window was not evicted in between.
BurstBounded ==
    \A k \in Keys : LET n == 2 * Limit[k[2]]
                    IN  Len(admitted[k]) = n => admitted[k][n] - admitted[k][1] >= Window

\* What a response promises its client is kept, whatever it or others send in
\* the meantime.  A key that was refused and comes back no earlier than
\* Retry-After said finds the window that refused it gone; the counter keeps room
\* for as many requests as X-RateLimit-Remaining said when the key was last let
\* through, also after it was evicted.
HeadersHonest ==
    /\ \A k \in Keys : comeBack[k] # Never /\ now >= comeBack[k] => k \notin Live(windows, now)
    /\ \A k \in Live(windows, now) : told[k] > 0 => windows[k].count + told[k] <= Limit[k[2]]

\* A live window is forgotten only to make room in a storage full of live
\* windows, and none of those it leaves behind is older; the storage never holds
\* more windows than it may.
LiveWindowsKept ==
    [][/\ Cardinality(Stored(windows')) <= MaxEntries
       /\ \A k \in Live(windows, now) :
              windows'[k] = Absent =>
                  /\ Cardinality(Live(windows, now)) = MaxEntries
                  /\ \A l \in Stored(windows') : windows[k].start <= windows'[l].start]_limiterVars
=============================================================================
