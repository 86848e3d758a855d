----------------------------- MODULE RateLimits -----------------------------
(***************************************************************************)
(* The two rate limits: requests of a client are counted in Redis by one   *)
(* atomic script (RedisThrottlerStorage), events of a socket in the memory *)
(* of the process (enforceSocketRateLimit).  Time passes in ticks; expiry  *)
(* times are the ticks that are left.  The script is atomic, so one client *)
(* stands for all of them.  recent counts what was let through in each of  *)
(* the last ticks and waited how long ago the first refusal since then     *)
(* was; both are observations.                                             *)
(***************************************************************************)
EXTENDS RunningTotals

CONSTANTS
    Ttl,        \* ticks a counter lives
    Limit,      \* requests a counter allows
    BlockFor,   \* ticks a client is refused once over the limit
    Sockets,
    Window,     \* ticks of a socket's window
    MaxEvents   \* events a window allows

\* The guard's default block is the counter's time to live.
ASSUME RateLimitsAssumption ==
    /\ Ttl \in Nat \ {0} /\ Limit \in Nat \ {0} /\ BlockFor \in Nat \ {0}
    /\ Window \in Nat \ {0} /\ MaxEvents \in Nat \ {0}
    /\ BlockFor = Ttl

VARIABLES
    redis,      \* the counter, its expiry and the expiry of the block
    socket,     \* count and the ticks its window is still open, by socket
    recent,     \* requests let through in this tick, the one before and so on
    events,     \* the same of a socket's events
    waited      \* ticks since the first refusal without a pass, and the largest at a refusal

rateVars == <<redis, socket, recent, events, waited>>

Least(m, n) == IF m < n THEN m ELSE n

\* One more in this tick.
OneMore(f) == [f EXCEPT ![1] = @ + 1]

NoWindow == [count |-> 0, left |-> 0]

RateInit ==
    /\ redis = [count |-> 0, expires |-> 0, blocked |-> 0]
    /\ socket = [s \in Sockets |-> NoWindow]
    /\ recent = [t \in 1..Ttl |-> 0]
    /\ events = [s \in Sockets |-> [t \in 1..Window |-> 0]]
    /\ waited = [since |-> 0, refusing |-> FALSE, most |-> 0]

-----------------------------------------------------------------------------
(* Requests *)

\* Variant: off by one.
Bug_OverLimit(current) == current > Limit + 1

OverLimit(current) == current > Limit

\* Variant: the counter is given no expiry.
Bug_ExpiryAfter(current) == redis.expires

\* PEXPIRE on the first request of a counter only.
ExpiryAfter(current) == IF current = 1 THEN Ttl ELSE redis.expires

Pass ==
    /\ recent' = OneMore(recent)
    /\ waited' = [waited EXCEPT !.since = 0, !.refusing = FALSE]

Refuse ==
    /\ recent' = recent
    /\ waited' = [waited EXCEPT !.refusing = TRUE,
                                !.most = IF waited.most > waited.since THEN waited.most ELSE waited.since]

\* A refusal leaves the block as it is.
BlockAfterRefusal == redis.blocked

\* The script: a blocked client is not counted.
Increment ==
    /\ UNCHANGED <<socket, events>>
    /\ \/ /\ redis.blocked > 0
          /\ redis' = [redis EXCEPT !.blocked = BlockAfterRefusal]
          /\ Refuse
       \/ LET current == redis.count + 1
          IN  /\ redis.blocked = 0
              /\ redis' = [count |-> current, expires |-> ExpiryAfter(current),
                           blocked |-> IF OverLimit(current) THEN BlockFor ELSE 0]
              /\ IF OverLimit(current) THEN Refuse ELSE Pass

-----------------------------------------------------------------------------
(* Socket events *)

\* A new connection has no window, whatever the client sent before.
Connect(s) ==
    /\ socket[s] # NoWindow
    /\ socket' = [socket EXCEPT ![s] = NoWindow]
    /\ events' = [events EXCEPT ![s] = [t \in 1..Window |-> 0]]
    /\ UNCHANGED <<redis, recent, waited>>

\* The count beyond the limit is of no interest.
SocketEvent(s) ==
    LET opens == socket[s].left = 0
        count == IF opens THEN 1 ELSE Least(socket[s].count + 1, MaxEvents + 1)
    IN  /\ socket' = [socket EXCEPT ![s] = [count |-> count, left |-> IF opens THEN Window ELSE socket[s].left]]
        /\ events' = IF opens \/ count <= MaxEvents THEN [events EXCEPT ![s] = OneMore(events[s])] ELSE events
        /\ UNCHANGED <<redis, recent, waited>>

-----------------------------------------------------------------------------
Down(n) == IF n = 0 THEN 0 ELSE n - 1

Shifted(f) == [t \in DOMAIN f |-> IF t = 1 THEN 0 ELSE f[t - 1]]

\* A key whose time is up is gone; one without expiry stays.
TimePasses ==
    /\ redis' = [count |-> IF redis.expires = 1 THEN 0 ELSE redis.count,
                 expires |-> Down(redis.expires), blocked |-> Down(redis.blocked)]
    /\ socket' = [s \in Sockets |-> [socket[s] EXCEPT !.left = Down(socket[s].left)]]
    /\ recent' = Shifted(recent)
    /\ events' = [s \in Sockets |-> Shifted(events[s])]
    /\ waited' = IF waited.refusing THEN [waited EXCEPT !.since = Least(waited.since + 1, 2 * BlockFor)] ELSE waited

RateNext == Increment \/ TimePasses \/ \E s \in Sockets : Connect(s) \/ SocketEvent(s)

RateSpec == RateInit /\ [][RateNext]_rateVars

-----------------------------------------------------------------------------
(* Type: a counter in Redis always has an expiry, and a block outlives the *)
(* counter that caused it, so that no request after it finds the old count *)
(* (redis-throttler.storage.ts, the script).                               *)
RateTypeOK ==
    /\ redis.count \in 0..Limit + 1 /\ redis.expires \in 0..Ttl /\ redis.blocked \in 0..BlockFor
    /\ redis.count > 0 => redis.expires > 0
    /\ redis.count > Limit => redis.blocked >= redis.expires
    /\ \A s \in Sockets : socket[s].count \in 0..MaxEvents + 1 /\ socket[s].left \in 0..Window
    /\ waited.most <= 2 * BlockFor

(* Windows are not sliding: around the end of one, less than two limits    *)
(* are let through in the time of one (redis-throttler.storage.ts and      *)
(* socket-rate-limiter.ts).                                                *)
BurstIsBounded ==
    /\ Total(recent) < 2 * Limit
    /\ \A s \in Sockets : Total(events[s]) < 2 * MaxEvents

(* A client that keeps asking while it is blocked is let through when the  *)
(* block of its first refusal ends (redis-throttler.storage.ts, the branch *)
(* that returns while the block key lives).                                *)
RefusalsEnd == waited.most < BlockFor

\* Limits let through less than twice their number and refuse for one block at a time
\* (redis-throttler.storage.ts, socket-rate-limiter.ts).
LimitsHold ==
    /\ BurstIsBounded
    /\ RefusalsEnd

=============================================================================
