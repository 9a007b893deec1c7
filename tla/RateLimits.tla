---- MODULE RateLimits ----
\* The limits on requests that are kept in Redis: the gateway's middleware
\* (api-gateway/internal/middleware/rate_limiter.go) and the library's
\* RateLimiter (database/redis/rate_limit.go).
\*
\* Each is a Lua script, which Redis runs as one step, over a sorted set
\* of the requests admitted in the last Window, or over a bucket of
\* tokens.  A request is checked twice: by the gateway against the limit
\* of its address and that of the endpoint, by the library against the
\* user's limit and the global one.  The time a script is given was read
\* by the caller before: scripts can overtake each other.
EXTENDS Integers, FiniteSets

CONSTANTS
    Calls,            \* requests
    Limit,            \* requests admitted in one window
    Window,           \* its length in milliseconds
    Capacity, Refill, \* of the bucket: tokens, and tokens per millisecond
    Sizes,            \* how many slots or tokens one call of the library asks for
    MaxDelay,         \* a script runs within so many milliseconds, or its call fails
    MaxClock,         \* bounds the clock
    MaxRateFaults     \* calls of Redis that fail (bounds them)

\* A call of Redis times out after seconds; windows are seconds to a day.  A bucket is kept
\* for twice the time it takes to fill (six seconds for the one there is): if it is gone,
\* it would have been full for a script given the earliest of the times still in use.
ASSUME RateAssumption ==
    /\ {Limit, Window, Capacity, Refill} \subseteq Nat \ {0} /\ Sizes \subseteq Nat \ {0}
    /\ MaxDelay \in 0..Window - 1 /\ MaxClock \in Nat /\ MaxRateFaults \in Nat
    /\ ((2 * Capacity) \div Refill - MaxDelay) * Refill >= Capacity

Limiters == {"gateway", "library", "bucket"}
Windows == {"first", "second"}

VARIABLES
    limiter,          \* which of them the requests meet
    clock,            \* milliseconds
    zset,             \* members of each sorted set: the time is score and part of the name
    expires,          \* when each key goes
    bucket,           \* tokens and ts of the hash
    blocked,          \* rl:block:<identifier> is there
    call,             \* what each request does
    admitted,         \* the requests each script has admitted, and the bucket's under "first"
    latest,           \* the latest time each script was given
    overtaken,        \* a script was given an earlier time than one that had run, or a time at
                      \* which the library's key, since gone, was still there
    rateFaults

rateVars == <<limiter, clock, zset, expires, bucket, blocked, call, admitted, latest, overtaken, rateFaults>>

CallSteps == {"new", "block", "first", "second", "passed", "refused"}
Entries == [of : Calls, at : 0..MaxClock, size : Sizes \cup {1}]

RateInit ==
    /\ limiter \in Limiters /\ clock = 0 /\ blocked = FALSE
    /\ zset = [w \in Windows |-> {}] /\ expires = [w \in Windows |-> 0]
    /\ bucket = [tokens |-> Capacity, ts |-> 0]
    /\ call = [c \in Calls |-> [step |-> "new", at |-> 0, size |-> 1]]
    /\ admitted = [w \in Windows |-> {}] /\ latest = [w \in Windows |-> 0]
    /\ overtaken = FALSE /\ rateFaults = 0

--------
\* The time is read when a step begins.
Moves(c, step) == call' = [call EXCEPT ![c].step = step, ![c].at = clock]
Ends(c, step) == call' = [call EXCEPT ![c].step = step, ![c].at = 0]

Waiting(c) == call[c].step \in Windows
Tick ==
    /\ clock < MaxClock /\ clock' = clock + 1
    /\ \A c \in Calls : Waiting(c) => clock - call[c].at < MaxDelay
    /\ UNCHANGED <<limiter, zset, expires, bucket, blocked, call, admitted, latest, overtaken, rateFaults>>

\* Check and CheckN of the library; the middleware of the gateway.  Only Check asks whether
\* the identifier is blocked.
Check(c) ==
    /\ call[c].step = "new"
    /\ IF limiter = "gateway" THEN Moves(c, "first") ELSE Moves(c, "block")
    /\ UNCHANGED <<limiter, clock, zset, expires, bucket, blocked, admitted, latest, overtaken, rateFaults>>

CheckN(c) ==
    /\ call[c].step = "new" /\ limiter # "gateway"
    /\ \E n \in Sizes : call' = [call EXCEPT ![c] = [step |-> "first", at |-> clock, size |-> n]]
    /\ UNCHANGED <<limiter, clock, zset, expires, bucket, blocked, admitted, latest, overtaken, rateFaults>>

IsBlocked(c) ==
    /\ call[c].step = "block"
    /\ IF blocked THEN Ends(c, "refused") ELSE Moves(c, "first")
    /\ UNCHANGED <<limiter, clock, zset, expires, bucket, blocked, admitted, latest, overtaken, rateFaults>>

--------
\* The sorted set, without what is outside the window that ends at time t.
Kept(w, t) == {m \in zset[w] : clock < expires[w] /\ m.at > t - Window}

\* Mutant: the members of one millisecond have one name, in the gateway too.
TagOfSize(w, c) == call[c].size

\* The second part of a member's name: the gateway's is the count.
Tag(w, c) == IF limiter = "gateway" THEN Cardinality(Kept(w, call[c].at)) ELSE call[c].size

\* Of n slots the library takes one, where n are left.
Room(w, c) ==
    LET effective == Limit - call[c].size + 1
    IN Cardinality(Kept(w, call[c].at)) < IF effective < 1 THEN 1 ELSE effective

Lasts == IF limiter = "gateway" THEN 2 * Window ELSE Window

Notes(w, c) ==
    /\ latest' = [latest EXCEPT ![w] = call[c].at]
    /\ overtaken' = \/ overtaken \/ call[c].at < latest[w]
                    \/ limiter = "library" /\ call[c].at < expires[w] /\ clock >= expires[w]

Admits(w, c) == admitted' = [admitted EXCEPT ![w] =
                                @ \cup {[of |-> c, at |-> call[c].at, size |-> call[c].size]}]

Script(w, c) ==
    /\ Notes(w, c)
    /\ IF Room(w, c)
       THEN /\ Admits(w, c)
            /\ zset' = [zset EXCEPT ![w] =
                           Kept(w, call[c].at) \cup {[at |-> call[c].at, tag |-> Tag(w, c)]}]
            /\ expires' = [expires EXCEPT ![w] = clock + Lasts]
       ELSE /\ zset' = [zset EXCEPT ![w] = Kept(w, call[c].at)]
            /\ UNCHANGED <<admitted, expires>>

\* The second limit: the endpoint's, or the library's global one, which only Check looks at.
Goes2(c) == IF limiter = "gateway" \/ call[c].size = 1 THEN Moves(c, "second") ELSE Ends(c, "passed")

SlidingWindow(c) ==
    /\ call[c].step = "first" /\ limiter # "bucket" /\ Script("first", c)
    /\ IF Room("first", c) THEN Goes2(c) ELSE Ends(c, "refused")
    /\ UNCHANGED <<limiter, clock, bucket, blocked, rateFaults>>

CheckGlobalLimit(c) ==
    /\ call[c].step = "second" /\ Script("second", c)
    /\ IF Room("second", c) THEN Ends(c, "passed") ELSE Ends(c, "refused")
    /\ UNCHANGED <<limiter, clock, bucket, blocked, rateFaults>>

\* An error of Redis: the gateway goes on, the library does not.  The script may have run.
RedisFails(c) ==
    /\ call[c].step \in {"block"} \cup Windows
    /\ rateFaults < MaxRateFaults /\ rateFaults' = rateFaults + 1
    /\ IF limiter # "gateway" THEN Ends(c, "refused")
       ELSE IF call[c].step = "first" THEN Moves(c, "second") ELSE Ends(c, "passed")
    /\ \/ call[c].step \in Windows /\ limiter # "bucket" /\ Script(call[c].step, c)
       \/ UNCHANGED <<zset, expires, admitted, latest, overtaken>>
    /\ UNCHANGED <<limiter, clock, bucket, blocked>>

--------
\* A bucket that was not used for twice the time it takes to fill is forgotten, and full.
BucketLasts == (2 * Capacity) \div Refill

\* Mutant: the bucket fills beyond its capacity.
RefilledWithoutCap(t) ==
    LET elapsed == IF t > bucket.ts THEN t - bucket.ts ELSE 0
    IN IF clock >= expires["first"] THEN Capacity ELSE bucket.tokens + elapsed * Refill

Refilled(t) ==
    LET elapsed == IF t > bucket.ts THEN t - bucket.ts ELSE 0
        full == bucket.tokens + elapsed * Refill
    IN IF clock >= expires["first"] \/ full > Capacity THEN Capacity ELSE full

TokenBucket(c) ==
    /\ call[c].step = "first" /\ limiter = "bucket" /\ Notes("first", c)
    /\ LET tokens == Refilled(call[c].at)
           enough == tokens >= call[c].size
       IN /\ bucket' = [tokens |-> IF enough THEN tokens - call[c].size ELSE tokens,
                        ts |-> call[c].at]
          /\ IF enough THEN Admits("first", c) /\ Ends(c, "passed")
                       ELSE Ends(c, "refused") /\ UNCHANGED admitted
    /\ expires' = [expires EXCEPT !["first"] = clock + BucketLasts]
    /\ UNCHANGED <<limiter, clock, zset, blocked, rateFaults>>

--------
Block == limiter # "gateway" /\ ~blocked /\ blocked' = TRUE
         /\ UNCHANGED <<limiter, clock, zset, expires, bucket, call, admitted, latest, overtaken, rateFaults>>

\* Unblock, and the end of the block's time.
Unblock == blocked /\ blocked' = FALSE
           /\ UNCHANGED <<limiter, clock, zset, expires, bucket, call, admitted, latest, overtaken, rateFaults>>

\* Reset forgets the user's window and bucket; what was admitted before no longer counts.
Reset ==
    /\ limiter # "gateway" /\ admitted["first"] # {}
    /\ zset' = [zset EXCEPT !["first"] = {}] /\ expires' = [expires EXCEPT !["first"] = 0]
    /\ admitted' = [admitted EXCEPT !["first"] = {}]
    /\ UNCHANGED <<limiter, clock, bucket, blocked, call, latest, overtaken, rateFaults>>

RateNext ==
    \/ \E c \in Calls :
          \/ Check(c) \/ CheckN(c) \/ IsBlocked(c) \/ SlidingWindow(c) \/ TokenBucket(c)
          \/ CheckGlobalLimit(c) \/ RedisFails(c)
    \/ Tick \/ Block \/ Unblock \/ Reset

RateSpec == RateInit /\ [][RateNext]_rateVars

--------
\* Properties.

RateTypeOK ==
    /\ limiter \in Limiters /\ clock \in 0..MaxClock /\ blocked \in BOOLEAN
    /\ zset \in [Windows -> SUBSET [at : 0..MaxClock, tag : Nat]]
    /\ expires \in [Windows -> Nat]
    /\ bucket \in [tokens : 0..Capacity, ts : 0..MaxClock]
    /\ call \in [Calls -> [step : CallSteps, at : 0..MaxClock, size : Sizes \cup {1}]]
    /\ admitted \in [Windows -> SUBSET Entries]
    /\ latest \in [Windows -> 0..MaxClock] /\ overtaken \in BOOLEAN
    /\ rateFaults \in 0..MaxRateFaults

InWindow(w, t) == {e \in admitted[w] : e.at \in t - Window + 1..t}
Bounded(w) == \A t \in 0..MaxClock : Cardinality(InWindow(w, t)) <= Limit

\* The gateway's scripts never admit more than Limit requests in any window, if none was
\* given an earlier time than one that ran before it.
GatewayIsBounded == limiter = "gateway" /\ ~overtaken => \A w \in Windows : Bounded(w)

\* From s to t a bucket gives what it holds, and what flows in.
Taken(es) == Cardinality(UNION {{e} \X (1..e.size) : e \in es})
Between(s, t) == {e \in admitted["first"] : e.at \in s..t}
BucketIsBounded ==
    limiter = "bucket" /\ ~overtaken =>
        \A s \in 0..MaxClock : \A t \in s..MaxClock :
            Taken(Between(s, t)) <= Capacity + (t - s) * Refill

\* Nor do the library's, of requests that differ in their millisecond or in their number of
\* slots: those that do not share a member of the sorted set, and count as one.
Members(es) == {[at |-> e.at, tag |-> e.size] : e \in es}
LibraryIsBounded ==
    limiter = "library" /\ ~overtaken =>
        \A w \in Windows : \A t \in 0..MaxClock : Cardinality(Members(InWindow(w, t))) <= Limit

\* While no call of Redis fails, the gateway lets nothing through that its two scripts have not
\* admitted; one that fails lets its request through.
PassedAreCounted ==
    limiter = "gateway" /\ rateFaults = 0 =>
        \A c \in Calls : call[c].step = "passed" => \A w \in Windows : \E e \in admitted[w] : e.of = c

\* If the scripts are given their times in order, no script admits more than its limit, the
\* library's in the members it keeps; and what passes the gateway was admitted, or Redis failed.
LimitsHold == GatewayIsBounded /\ BucketIsBounded /\ LibraryIsBounded /\ PassedAreCounted

=====
