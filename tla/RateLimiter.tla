----------------------------- MODULE RateLimiter -----------------------------
(***************************************************************************)
(* The gateway's sliding window: one key of Redis DB 0, the requests of a  *)
(* user to several gateway replicas, and the script that drops, counts and *)
(* adds in one step.  The PAYMENT and the GENERAL tier count in the same   *)
(* key, rate:user:{id}; only their limits differ.                          *)
(*                                                                         *)
(* A replica stamps a request with its own clock before it calls Redis:    *)
(* stamps of two replicas differ by up to Skew at one time, and up to      *)
(* Delay passes until the script runs.  Times are relative to the present, *)
(* so that a behaviour may go on for ever.  Requests, calls and members   *)
(* that are alike are told apart by a number, as members of the sorted set *)
(* are by random letters.                                                  *)
(***************************************************************************)
EXTENDS Integers, FiniteSets

CONSTANTS
    Replicas,
    Limit,        \* of each tier, in requests
    Window, Skew, Delay,   \* in ticks
    Spare,        \* ticks the key outlives the window: EXPIRE rounds up, plus 1 s
    MaxCalls,     \* calls of Redis under way at a time
    MaxOutages    \* calls that fail

Tiers == {"PAYMENT", "GENERAL"}

ASSUME LimiterAssumption ==
    /\ Limit \in [Tiers -> Nat \ {0}] /\ Limit["PAYMENT"] <= Limit["GENERAL"]
    /\ {Skew, Delay, Spare, MaxCalls, MaxOutages} \subseteq Nat
    /\ Window \in Nat /\ Window > Skew + Delay

Span == Window - Skew - Delay

VARIABLES
    ahead,      \* how far each replica's clock is ahead; constant
    calls,      \* checkRateLimit calls that Redis has not served yet
    zset,       \* the sorted set: its members, by their stamps
    ttl,        \* ticks until the key expires
    admitted,   \* history: the requests let through, while a span may hold them
    outages

limiterVars == << ahead, calls, zset, ttl, admitted, outages >>

\* S with one more of kind x.
With(S, x) == S \cup {<<x, CHOOSE n \in 0 .. Cardinality(S) : <<x, n>> \notin S>>}

LimiterInit ==
    /\ ahead \in [Replicas -> 0 .. Skew]
    /\ calls = {} /\ zset = {} /\ ttl = 0
    /\ admitted = {} /\ outages = 0

Arrive(tier, g) ==
    /\ Cardinality(calls) < MaxCalls
    /\ calls' = With(calls, [stamp |-> ahead[g], at |-> 0, tier |-> tier])
    /\ UNCHANGED << ahead, zset, ttl, admitted, outages >>

-----------------------------------------------------------------------------
LetThrough(c) == admitted' = With(admitted, [at |-> c.at, tier |-> c.tier])

(* SLIDING_WINDOW_LUA *)

\* Mutant: the count may reach the limit before a request is refused.
AllowedOneMore(c, kept) == Cardinality(kept) <= Limit[c.tier]
Allowed(c, kept) == Cardinality(kept) < Limit[c.tier]

InWindow(c) == {m \in zset : m[1] > c.stamp - Window}

SlidingWindow(c) ==
    IF Allowed(c, InWindow(c))
    THEN /\ zset' = With(InWindow(c), c.stamp)
         /\ ttl' = Window + Spare
         /\ LetThrough(c)
    ELSE zset' = InWindow(c) /\ UNCHANGED << ttl, admitted >>

Check(call) ==
    /\ calls' = calls \ {call}
    /\ SlidingWindow(call[1])
    /\ UNCHANGED << ahead, outages >>

\* Fail open: the request passes and is not counted.
CheckFails(call) ==
    /\ outages < MaxOutages /\ outages' = outages + 1
    /\ calls' = calls \ {call}
    /\ LetThrough(call[1])
    /\ UNCHANGED << ahead, zset, ttl >>

-----------------------------------------------------------------------------
OlderCall(c) == [stamp |-> c.stamp - 1, at |-> c.at - 1, tier |-> c.tier]
OlderRequest(r) == [at |-> r.at - 1, tier |-> r.tier]

\* A call does not wait longer than Delay for Redis.  Stamps that every call
\* to come would drop are dropped here; EXPIRE drops all of them.
Tick ==
    /\ \A c \in calls : -c[1].at < Delay
    /\ calls' = {<<OlderCall(c[1]), c[2]>> : c \in calls}
    /\ ttl' = IF ttl = 0 THEN 0 ELSE ttl - 1
    /\ zset' = IF ttl <= 1 THEN {}
               ELSE {<<m[1] - 1, m[2]>> : m \in {z \in zset : z[1] - 1 > -Window - Delay}}
    /\ admitted' = {<<OlderRequest(a[1]), a[2]>> :
                        a \in {r \in admitted : 1 - r[1].at < Span + Delay}}
    /\ UNCHANGED << ahead, outages >>

LimiterNext ==
    \/ \E tier \in Tiers, g \in Replicas : Arrive(tier, g)
    \/ \E call \in calls : Check(call) \/ CheckFails(call)
    \/ Tick

LimiterSpec == LimiterInit /\ [][LimiterNext]_limiterVars

(***************************************************************************)
(* However far the clocks of the replicas are apart and in whatever order  *)
(* their calls reach Redis, what a user gets through in any span shorter   *)
(* than the window by the skew and the delay is the quota, plus the        *)
(* requests Redis failed for: a fast clock drops the stamps of a slow one  *)
(* too early, but not by more.  The payments alone keep to their own limit.*)
(***************************************************************************)
QuotaHolds ==
    \A from \in -Window .. 0 :
        LET span == {r \in admitted : r[1].at \in from .. from + Span - 1}
        IN  /\ Cardinality(span) <= Limit["GENERAL"] + outages
            /\ Cardinality({r \in span : r[1].tier = "PAYMENT"}) <= Limit["PAYMENT"] + outages
=============================================================================
