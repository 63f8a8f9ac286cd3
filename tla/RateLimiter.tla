---------------------------- MODULE RateLimiter ----------------------------
(***************************************************************************)
(* The gateway's rate limiter, gateway/src/ratelimit.rs, with the counter  *)
(* it keeps in Redis, incr_in_window of gateway/src/redis_cache.rs: one    *)
(* fixed-window counter per (client, endpoint), shared by all gateways     *)
(* while Redis answers and kept in process when it does not.               *)
(*                                                                         *)
(* The clock is the number of the current window.  A check awaits Redis    *)
(* between reading the clock and counting, and reads the clock again when  *)
(* it falls back; on a runtime with several threads another thread can run *)
(* between that read and the lock of the buckets.                          *)
(***************************************************************************)
EXTENDS Naturals, FiniteSets

CONSTANTS
    Gateways,         \* gateway processes
    Requests,         \* request slots; a slot is reused once answered
    Clients,          \* (client, endpoint) pairs: what a counter is kept for
    Configured,       \* the gateways whose Redis is_configured()
    Amount,           \* limit.amount
    Threads,          \* worker threads of a gateway
    PruneThreshold,   \* PRUNE_THRESHOLD
    MaxWindow,        \* bound: the windows are 0..MaxWindow
    MaxArrivals,      \* bound: how many requests arrive
    NoBucket, NoGateway, NoClient

Windows == 0..MaxWindow
Bucket == [window : Windows, count : Nat \ {0}]

ASSUME LimiterAssumption ==
    /\ IsFiniteSet(Requests)
    /\ Configured \subseteq Gateways
    /\ Amount \in Nat \ {0}      \* 0 refuses everything at once
    /\ Threads \in Nat \ {0}
    /\ PruneThreshold \in Nat /\ MaxWindow \in Nat /\ MaxArrivals \in Nat
    /\ NoGateway \notin Gateways /\ NoClient \notin Clients
    /\ NoBucket \notin Bucket

(* "incr": INCR under way; "expire": its EXPIRE under way; "clock": falls  *)
(* back, about to read the clock; "lock": about to lock the buckets.       *)
States == {"idle", "incr", "expire", "clock", "lock"}

VARIABLES
    window,        \* the current window
    redisUp,       \* Redis answers
    counter,       \* Redis: the counter of each client and window
    expiring,      \* Redis: the counters that have an expiry
    local,         \* the buckets of each gateway
    pc, gw, client, win,   \* each request: where, for whom, its window
    arrivals,      \* requests so far
    made,          \* requests that took a window as theirs (history)
    shared,        \* on-time admissions by Redis since it lost its data
    own,           \* admissions by a gateway's buckets since it started
    refused        \* (client, window) pairs with a refusal (history)

requestVars == <<pc, gw, client, win>>
redisVars == <<redisUp, counter, expiring>>
historyVars == <<arrivals, made, shared, own, refused>>
vars == <<window, redisVars, local, requestVars, historyVars>>

Cells == Clients \X Windows

(* What each variable ranges over; a bucket counts at least the request    *)
(* that made it.                                                           *)
TypeOK ==
    /\ window \in Windows
    /\ redisUp \in BOOLEAN
    /\ counter \in [Cells -> Nat]
    /\ expiring \subseteq Cells
    /\ local \in [Gateways -> [Clients -> Bucket \cup {NoBucket}]]
    /\ pc \in [Requests -> States]
    /\ gw \in [Requests -> Gateways \cup {NoGateway}]
    /\ client \in [Requests -> Clients \cup {NoClient}]
    /\ win \in [Requests -> Windows]
    /\ arrivals \in 0..MaxArrivals
    /\ made \in [Cells -> Nat]
    /\ shared \in [Cells -> Nat]
    /\ own \in [Gateways -> [Cells -> Nat]]
    /\ refused \subseteq Cells

Init ==
    /\ window = 0
    /\ redisUp \in BOOLEAN
    /\ counter = [c \in Cells |-> 0]
    /\ expiring = {}
    /\ local = [g \in Gateways |-> [c \in Clients |-> NoBucket]]
    /\ pc = [r \in Requests |-> "idle"]
    /\ gw = [r \in Requests |-> NoGateway]
    /\ client = [r \in Requests |-> NoClient]
    /\ win = [r \in Requests |-> 0]
    /\ arrivals = 0
    /\ made = [c \in Cells |-> 0]
    /\ shared = [c \in Cells |-> 0]
    /\ own = [g \in Gateways |-> [c \in Cells |-> 0]]
    /\ refused = {}

-----------------------------------------------------------------------------
Goto(r, to) == pc' = [pc EXCEPT ![r] = to]

(* The check is over: the slot is free.                                    *)
Over(r) ==
    /\ pc' = [pc EXCEPT ![r] = "idle"]
    /\ gw' = [gw EXCEPT ![r] = NoGateway]
    /\ client' = [client EXCEPT ![r] = NoClient]
    /\ win' = [win EXCEPT ![r] = 0]

(* The counter request r counts in.                                        *)
Cell(r) == <<client[r], win[r]>>

(* Whether the request that brought a counter to n is allowed.             *)
Allows(n) == n <= Amount

(* The count of the INCR settles whether r is admitted.  An admission is   *)
(* on time when the window it is counted in is still the current one.      *)
DecideShared(r, n) ==
    /\ shared' = IF Allows(n) /\ win[r] = window
                 THEN [shared EXCEPT ![Cell(r)] = @ + 1] ELSE shared
    /\ refused' = IF Allows(n) THEN refused ELSE refused \cup {Cell(r)}
    /\ UNCHANGED <<arrivals, made, own>>

(* check_shared begins: the clock is read for the key of the counter.      *)
Begin(r, g, c) ==
    /\ pc[r] = "idle"
    /\ arrivals < MaxArrivals
    /\ Goto(r, IF g \in Configured THEN "incr" ELSE "clock")
    /\ gw' = [gw EXCEPT ![r] = g]
    /\ client' = [client EXCEPT ![r] = c]
    /\ win' = [win EXCEPT ![r] = window]
    /\ arrivals' = arrivals + 1
    /\ made' = [made EXCEPT ![<<c, window>>] = @ + 1]
    /\ UNCHANGED <<window, redisVars, local, shared, own, refused>>

(* Redis executes the INCR.  Who made the counter 1 goes on to set its     *)
(* expiry, anyone else has the answer.                                     *)
Incr(r) ==
    /\ pc[r] = "incr"
    /\ redisUp
    /\ counter' = [counter EXCEPT ![Cell(r)] = @ + 1]
    /\ \/ /\ counter[Cell(r)] = 0
          /\ Goto(r, "expire")
          /\ UNCHANGED <<gw, client, win>>
       \/ /\ counter[Cell(r)] > 0
          /\ Over(r)
    /\ DecideShared(r, counter[Cell(r)] + 1)
    /\ UNCHANGED <<window, redisUp, expiring, local>>

(* The EXPIRE is executed, or it fails and the counter stays without one;  *)
(* either way the count of 1 is returned.                                  *)
Expire(r) ==
    /\ pc[r] = "expire"
    /\ \/ redisUp /\ counter[Cell(r)] > 0
          /\ expiring' = expiring \cup {Cell(r)}
       \/ UNCHANGED expiring
    /\ Over(r)
    /\ UNCHANGED <<window, redisUp, counter, local, historyVars>>

(* Mutant: a Redis that does not answer is waited for.                     *)
IncrFailedWaits(r) == pc[r] = "incr" /\ UNCHANGED vars

(* No connection, no answer or an error; the INCR may have been executed.  *)
IncrFailed(r) ==
    /\ pc[r] = "incr"
    /\ \/ UNCHANGED counter
       \/ redisUp /\ counter' = [counter EXCEPT ![Cell(r)] = @ + 1]
    /\ Goto(r, "clock")
    /\ UNCHANGED <<window, redisUp, expiring, local, gw, client, win,
                   historyVars>>

(* check(): the clock is read again, on a thread.                          *)
ReadClock(r) ==
    /\ pc[r] = "clock"
    /\ Cardinality({q \in Requests : gw[q] = gw[r] /\ pc[q] = "lock"})
          < Threads
    /\ Goto(r, "lock")
    /\ win' = [win EXCEPT ![r] = window]
    /\ made' = IF win[r] = window THEN made
               ELSE [made EXCEPT ![<<client[r], window>>] = @ + 1]
    /\ UNCHANGED <<window, redisVars, local, gw, client, arrivals, shared,
                   own, refused>>

(* A gateway's buckets b as seen at the lock by a request of window w:     *)
(* when there are too many, those of earlier windows are dropped.          *)
Pruned(b, w) ==
    IF Cardinality({c \in Clients : b[c] # NoBucket}) > PruneThreshold
    THEN [c \in Clients |->
             IF b[c] # NoBucket /\ b[c].window >= w THEN b[c] ELSE NoBucket]
    ELSE b

(* Mutant: a bucket is inserted with its maker counted, who counts again.  *)
CountedTwice(e, w) ==
    [window |-> w,
     count |-> IF e = NoBucket \/ e.window # w THEN 2 ELSE e.count + 1]

(* Mutant: every check starts a new bucket.                                *)
CountedAfresh(e, w) == [window |-> w, count |-> 1]

(* The bucket e after a request of window w was counted in it.             *)
Counted(e, w) ==
    [window |-> w,
     count |-> IF e = NoBucket \/ e.window # w THEN 1 ELSE e.count + 1]

(* check_at(), under the lock.                                             *)
CheckAt(r) ==
    /\ pc[r] = "lock"
    /\ LET g == gw[r]
           c == client[r]
           b == Pruned(local[g], win[r])
           e == Counted(b[c], win[r])
       IN /\ local' = [local EXCEPT ![g] = [b EXCEPT ![c] = e]]
          /\ own' = IF Allows(e.count)
                    THEN [own EXCEPT ![g][Cell(r)] = @ + 1]
                    ELSE own
          /\ refused' = IF Allows(e.count) THEN refused
                        ELSE refused \cup {Cell(r)}
    /\ Over(r)
    /\ UNCHANGED <<window, redisVars, arrivals, made, shared>>

(* The client disconnects while Redis is awaited.                          *)
Abandon(r) ==
    /\ pc[r] \in {"incr", "expire"}
    /\ Over(r)
    /\ UNCHANGED <<window, redisVars, local, historyVars>>

-----------------------------------------------------------------------------
(* The surroundings.                                                       *)

(* The next window begins.                                                 *)
Tick ==
    /\ window < MaxWindow
    /\ window' = window + 1
    /\ UNCHANGED <<redisVars, local, requestVars, historyVars>>

(* A counter that has an expiry disappears.  The expiry is one window      *)
(* after the first INCR, so never within the counter's own window.         *)
KeyExpires(cell) ==
    /\ cell \in expiring
    /\ cell[2] < window
    /\ counter' = [counter EXCEPT ![cell] = 0]
    /\ expiring' = expiring \ {cell}
    /\ UNCHANGED <<window, redisUp, local, requestVars, historyVars>>

(* Redis becomes unreachable, or reachable again.                          *)
RedisChange ==
    /\ redisUp' = ~redisUp
    /\ UNCHANGED <<window, counter, expiring, local, requestVars,
                   historyVars>>

(* Redis restarts without its data.                                        *)
RedisLoses ==
    /\ counter' = [c \in Cells |-> 0]
    /\ expiring' = {}
    /\ shared' = [c \in Cells |-> 0]
    /\ UNCHANGED <<window, redisUp, local, requestVars, arrivals, made, own,
                   refused>>

(* A gateway dies with its buckets and requests, and is started again.     *)
Restart(g) ==
    /\ local' = [local EXCEPT ![g] = [c \in Clients |-> NoBucket]]
    /\ own' = [own EXCEPT ![g] = [c \in Cells |-> 0]]
    /\ pc' = [r \in Requests |-> IF gw[r] = g THEN "idle" ELSE pc[r]]
    /\ client' = [r \in Requests |->
                     IF gw[r] = g THEN NoClient ELSE client[r]]
    /\ win' = [r \in Requests |-> IF gw[r] = g THEN 0 ELSE win[r]]
    /\ gw' = [r \in Requests |-> IF gw[r] = g THEN NoGateway ELSE gw[r]]
    /\ UNCHANGED <<window, redisVars, arrivals, made, shared, refused>>

-----------------------------------------------------------------------------
Step(r) == Incr(r) \/ Expire(r) \/ IncrFailed(r) \/ ReadClock(r) \/ CheckAt(r)

Next ==
    \/ \E r \in Requests, g \in Gateways, c \in Clients : Begin(r, g, c)
    \/ \E r \in Requests : Step(r) \/ Abandon(r)
    \/ Tick
    \/ \E cell \in Cells : KeyExpires(cell)
    \/ RedisChange \/ RedisLoses
    \/ \E g \in Gateways : Restart(g)

(* The runtime polls every task that can make progress.                    *)
Fairness == \A r \in Requests : SF_vars(Step(r))

Spec == Init /\ [][Next]_vars /\ Fairness

-----------------------------------------------------------------------------
(* Properties.                                                             *)

(* While Redis keeps its data it admits no more than Amount requests of a  *)
(* client in a window, whatever gateways they went through and however     *)
(* often Redis was unreachable in between.                                 *)
SharedAllowance == \A c \in Cells : shared[c] <= Amount

(* A gateway on its own admits no more than Amount in a window.            *)
LocalAllowance == \A g \in Gateways, c \in Cells : own[g][c] <= Amount

(* Nobody is refused who stayed within the allowance: lost replies,        *)
(* fallbacks, pruning and window changes never count a request twice in    *)
(* one counter or in a window it did not fall in.                          *)
RefusalsAreEarned == \A c \in refused : made[c] > Amount

(* Every check ends, whatever Redis does.                                  *)
EveryCheckEnds ==
    \A r \in Requests : (pc[r] # "idle") ~> (pc[r] = "idle")

(* check_shared and check: neither store, the shared one nor a gateway's   *)
(* own, admits more than the allowance in a window.                        *)
AllowanceKept == TypeOK /\ SharedAllowance /\ LocalAllowance
=============================================================================
