----------------------------- MODULE OsrmClient -----------------------------
(***************************************************************************)
(* The gateway's upstream client, gateway/src/osrm/client.rs, with the     *)
(* shared cache tier it uses, gateway/src/redis_cache.rs: the lookup       *)
(* through L1 (in process, one per gateway) and L2 (Redis, shared by all   *)
(* gateways), the bounded retry against the engine, and the write-through  *)
(* of what the engine answered.                                            *)
(*                                                                         *)
(* Every .await at which another request, the clock, Redis or a dropped    *)
(* connection can intervene is a point between two actions.  Time is       *)
(* discrete and relative: what is stored is how old things are.  A body is *)
(* reduced to the key it was fetched for.  The OnceCell of the connection  *)
(* does not show: a failed first contact leaves it empty and the next call *)
(* tries again, a built manager reconnects by itself, so all that matters  *)
(* to a call is whether Redis answers it.                                  *)
(*                                                                         *)
(* An entry has the time since it was stored (which expires it) and the    *)
(* time since the engine gave its body (which is how stale it is).         *)
(***************************************************************************)
EXTENDS Naturals

CONSTANTS
    Gateways,    \* gateway processes sharing one Redis
    Requests,    \* request slots; a slot is reused once its call is over
    Keys,        \* cache keys: endpoint with coordinates, and parameters
    Unserved,    \* keys whose profile this deployment has no engine for
    TooLong,     \* keys whose URL would exceed max_url_bytes
    Configured,  \* the gateways whose redis.client.is_some()
    Attempts,    \* retry.attempts
    L1TTL,       \* l1_cache_ttl
    L2TTL,       \* redis_ttl
    OpTime,      \* the longest an l2.get or l2.set takes: CONNECT_TIMEOUT
                 \* for the command and for each connect it waits for
    NoEntry, NoBody, NoGateway, NoKey, NoAnswer

ASSUME ClientAssumption ==
    /\ Unserved \subseteq Keys /\ TooLong \subseteq Keys
    /\ Configured \subseteq Gateways
    /\ Attempts \in Nat \ {0}
    /\ L1TTL \in Nat /\ L2TTL \in Nat /\ OpTime \in Nat

(* A tier that keeps entries for ttl answers with one while its age is     *)
(* below ttl: this is the greatest age, in whole ticks, it answers with.   *)
Oldest(ttl) == IF ttl = 0 THEN 0 ELSE ttl - 1

(* How old what a caller receives can be: the SET is one call after the    *)
(* fetch, the GET that promotes the entry of L2 is one call, and the clock *)
(* of the promoted copy starts again in L1.                                *)
MaxStale == OpTime + Oldest(L2TTL) + OpTime + Oldest(L1TTL)

Entries == [body : Keys, age : Nat, stale : Nat]

ASSUME SentinelAssumption ==
    /\ NoEntry \notin Entries /\ NoBody \notin Keys
    /\ NoGateway \notin Gateways /\ NoKey \notin Keys

Kinds == {"ok", "status", "unavailable", "tooLong", "noProfile"}
Answers == [kind : Kinds, body : Keys \cup {NoBody}, stale : Nat,
            calls : 0..Attempts]

ASSUME AnswerAssumption == NoAnswer \notin Answers

(* "l2get": connection.get(key) under way; "reply": Redis has read the     *)
(* entry, the value is on its way; "resolve": both tiers missed;           *)
(* "attempt": a call to the engine is due; "backoff": asleep before the    *)
(* next one; "l2set": connection.set_ex under way.                         *)
States == {"idle", "l2get", "reply", "resolve", "attempt", "backoff",
           "l2set"}

VARIABLES
    l1,        \* the moka cache of each gateway
    l2,        \* Redis
    redisUp,   \* Redis answers
    pc, gw, key,   \* each request: where it is, on which gateway, for what
    body, stale,   \* the body it holds, and the time since it was fetched
    waited,        \* how long its Redis call has been under way
    calls,         \* engine calls it made
    answer         \* what it was answered, kept until the slot is reused

requestVars == <<pc, gw, key, body, stale, waited, calls, answer>>
vars == <<l1, l2, redisUp, requestVars>>

(* What each variable ranges over.                                         *)
TypeOK ==
    /\ l1 \in [Gateways -> [Keys -> Entries \cup {NoEntry}]]
    /\ l2 \in [Keys -> Entries \cup {NoEntry}]
    /\ redisUp \in BOOLEAN
    /\ pc \in [Requests -> States]
    /\ gw \in [Requests -> Gateways \cup {NoGateway}]
    /\ key \in [Requests -> Keys \cup {NoKey}]
    /\ body \in [Requests -> Keys \cup {NoBody}]
    /\ stale \in [Requests -> Nat]
    /\ waited \in [Requests -> 0..OpTime]
    /\ calls \in [Requests -> 0..Attempts]
    /\ answer \in [Requests -> Answers \cup {NoAnswer}]

Init ==
    /\ l1 = [g \in Gateways |-> [k \in Keys |-> NoEntry]]
    /\ l2 = [k \in Keys |-> NoEntry]
    /\ redisUp \in BOOLEAN
    /\ pc = [r \in Requests |-> "idle"]
    /\ gw = [r \in Requests |-> NoGateway]
    /\ key = [r \in Requests |-> NoKey]
    /\ body = [r \in Requests |-> NoBody]
    /\ stale = [r \in Requests |-> 0]
    /\ waited = [r \in Requests |-> 0]
    /\ calls = [r \in Requests |-> 0]
    /\ answer = [r \in Requests |-> NoAnswer]

-----------------------------------------------------------------------------
(* The call is over: the slot forgets everything but its answer.           *)
Over(r, a) ==
    /\ pc' = [pc EXCEPT ![r] = "idle"]
    /\ gw' = [gw EXCEPT ![r] = NoGateway]
    /\ body' = [body EXCEPT ![r] = NoBody]
    /\ stale' = [stale EXCEPT ![r] = 0]
    /\ waited' = [waited EXCEPT ![r] = 0]
    /\ calls' = [calls EXCEPT ![r] = 0]
    /\ answer' = [answer EXCEPT ![r] = a]
    /\ UNCHANGED key

AnswerOk(r, b, s) ==
    Over(r, [kind |-> "ok", body |-> b, stale |-> s, calls |-> calls[r]])

AnswerError(r, kind, n) ==
    Over(r, [kind |-> kind, body |-> NoBody, stale |-> 0, calls |-> n])

Goto(r, to) ==
    /\ pc' = [pc EXCEPT ![r] = to]
    /\ waited' = [waited EXCEPT ![r] = 0]

(* get() begins, and lookup_cached consults L1: a hit is the answer, a     *)
(* miss goes to L2 when a tier is configured.                              *)
Begin(r, g, k) ==
    /\ pc[r] = "idle"
    /\ key' = [key EXCEPT ![r] = k]
    /\ \/ /\ l1[g][k] # NoEntry
          /\ answer' = [answer EXCEPT ![r] =
                [kind |-> "ok", body |-> l1[g][k].body,
                 stale |-> l1[g][k].stale, calls |-> 0]]
          /\ UNCHANGED <<pc, gw, body, stale, waited, calls>>
       \/ /\ l1[g][k] = NoEntry
          /\ pc' = [pc EXCEPT ![r] =
                       IF g \in Configured THEN "l2get" ELSE "resolve"]
          /\ gw' = [gw EXCEPT ![r] = g]
          /\ answer' = [answer EXCEPT ![r] = NoAnswer]
          /\ UNCHANGED <<body, stale, waited, calls>>
    /\ UNCHANGED <<l1, l2, redisUp>>

(* Mutant: a Redis error is answered instead of being taken for a miss.    *)
L2GetFailedSurfaces(r) ==
    /\ pc[r] \in {"l2get", "reply"}
    /\ AnswerError(r, "unavailable", 0)
    /\ UNCHANGED <<l1, l2, redisUp>>

(* Redis executes the GET of l2.get: the value starts its way back.        *)
L2Read(r) ==
    /\ pc[r] = "l2get"
    /\ redisUp
    /\ l2[key[r]] # NoEntry
    /\ pc' = [pc EXCEPT ![r] = "reply"]
    /\ body' = [body EXCEPT ![r] = l2[key[r]].body]
    /\ stale' = [stale EXCEPT ![r] = l2[key[r]].stale]
    /\ UNCHANGED <<l1, l2, redisUp, gw, key, waited, calls, answer>>

(* Redis has nothing under the key.                                        *)
L2Miss(r) ==
    /\ pc[r] = "l2get"
    /\ redisUp
    /\ l2[key[r]] = NoEntry
    /\ Goto(r, "resolve")
    /\ UNCHANGED <<l1, l2, redisUp, gw, key, body, stale, calls, answer>>

(* No connection, an error or a timeout, before or after Redis read the    *)
(* entry: every failure of the lookup is a miss.                           *)
L2GetFailed(r) ==
    /\ pc[r] \in {"l2get", "reply"}
    /\ Goto(r, "resolve")
    /\ body' = [body EXCEPT ![r] = NoBody]
    /\ stale' = [stale EXCEPT ![r] = 0]
    /\ UNCHANGED <<l1, l2, redisUp, gw, key, calls, answer>>

(* A tier that keeps entries for ttl stores nothing when that is zero.     *)
Stored(b, s, ttl) ==
    IF ttl = 0 THEN NoEntry ELSE [body |-> b, age |-> 0, stale |-> s]

(* The value arrives: it is promoted into L1 and is the answer.            *)
Promote(r) ==
    /\ pc[r] = "reply"
    /\ l1' = [l1 EXCEPT ![gw[r]][key[r]] = Stored(body[r], stale[r], L1TTL)]
    /\ AnswerOk(r, body[r], stale[r])
    /\ UNCHANGED <<l2, redisUp>>

(* The head of fetch_with_retry: a profile nobody serves and a URL nobody  *)
(* takes are refused before the first attempt.                             *)
Resolve(r) ==
    /\ pc[r] = "resolve"
    /\ \/ key[r] \in Unserved /\ AnswerError(r, "noProfile", 0)
       \/ /\ key[r] \in TooLong \ Unserved
          /\ AnswerError(r, "tooLong", 0)
       \/ /\ key[r] \notin Unserved \cup TooLong
          /\ Goto(r, "attempt")
          /\ UNCHANGED <<gw, key, body, stale, calls, answer>>
    /\ UNCHANGED <<l1, l2, redisUp>>

(* attempt() brings a body with a status below 400; store_cached writes L1 *)
(* and, when there is an L2, starts writing that.                          *)
AttemptOk(r) ==
    /\ pc[r] = "attempt"
    /\ l1' = [l1 EXCEPT ![gw[r]][key[r]] = Stored(key[r], 0, L1TTL)]
    /\ \/ /\ gw[r] \in Configured
          /\ Goto(r, "l2set")
          /\ body' = [body EXCEPT ![r] = key[r]]
          /\ stale' = [stale EXCEPT ![r] = 0]
          /\ calls' = [calls EXCEPT ![r] = @ + 1]
          /\ UNCHANGED <<gw, key, answer>>
       \/ /\ gw[r] \notin Configured
          /\ Over(r, [kind |-> "ok", body |-> key[r], stale |-> 0,
                      calls |-> calls[r] + 1])
    /\ UNCHANGED <<l2, redisUp>>

(* A 4xx is final and keeps its status.                                    *)
AttemptRefused(r) ==
    /\ pc[r] = "attempt"
    /\ AnswerError(r, "status", calls[r] + 1)
    /\ UNCHANGED <<l1, l2, redisUp>>

(* The attempt that brings the count to n was the last of 1..=attempts.    *)
LastAttempt(n) == n >= Attempts

(* A 5xx or a transport failure: sleep and try again, or give up as        *)
(* Unavailable whatever the engine's status was.                           *)
AttemptFailed(r) ==
    /\ pc[r] = "attempt"
    /\ \/ /\ LastAttempt(calls[r] + 1)
          /\ AnswerError(r, "unavailable", calls[r] + 1)
       \/ /\ ~LastAttempt(calls[r] + 1)
          /\ Goto(r, "backoff")
          /\ calls' = [calls EXCEPT ![r] = @ + 1]
          /\ UNCHANGED <<gw, key, body, stale, answer>>
    /\ UNCHANGED <<l1, l2, redisUp>>

(* Mutant: the sleeper is never woken.                                     *)
BackoffLost(r) == pc[r] = "backoff" /\ UNCHANGED vars

(* The backoff before the next attempt is over.                            *)
Backoff(r) ==
    /\ pc[r] = "backoff"
    /\ Goto(r, "attempt")
    /\ UNCHANGED <<l1, l2, redisUp, gw, key, body, stale, calls, answer>>

(* Redis once the SET EX of r is executed; EX 0 is never sent.             *)
SetEx(r) ==
    IF L2TTL = 0 THEN l2
    ELSE [l2 EXCEPT ![key[r]] = Stored(body[r], stale[r], L2TTL)]

(* Redis executes the SET EX of l2.set; the answer goes out.               *)
L2Write(r) ==
    /\ pc[r] = "l2set"
    /\ redisUp
    /\ l2' = SetEx(r)
    /\ AnswerOk(r, body[r], stale[r])
    /\ UNCHANGED <<l1, redisUp>>

(* Nobody hears whether the SET was executed: it was not, or it was and    *)
(* the reply is lost.                                                      *)
SetUnheard(r) == l2' = l2 \/ (redisUp /\ l2' = SetEx(r))

(* The SET fails, is timed out, or is skipped: the answer goes out anyway. *)
L2SetFailed(r) ==
    /\ pc[r] = "l2set"
    /\ SetUnheard(r)
    /\ AnswerOk(r, body[r], stale[r])
    /\ UNCHANGED <<l1, redisUp>>

(* The client hangs up: axum drops the handler at its current await, which *)
(* may be between sending the SET and hearing of it.                       *)
Abandon(r) ==
    /\ pc[r] # "idle"
    /\ \/ pc[r] = "l2set" /\ SetUnheard(r)
       \/ pc[r] # "l2set" /\ UNCHANGED l2
    /\ Over(r, NoAnswer)
    /\ UNCHANGED <<l1, redisUp>>

-----------------------------------------------------------------------------
(* The surroundings.                                                       *)

(* Mutant: the tier's time to live is not applied.                         *)
AgedForEver(e, ttl) ==
    IF e = NoEntry \/ e.stale > MaxStale THEN e
    ELSE [e EXCEPT !.stale = @ + 1]

(* An entry of a tier that keeps entries for ttl, one tick later.          *)
Aged(e, ttl) ==
    IF e = NoEntry \/ e.age + 1 >= ttl THEN NoEntry
    ELSE [e EXCEPT !.age = @ + 1, !.stale = @ + 1]

OnRedis(r) == pc[r] \in {"l2get", "reply", "l2set"}

(* Time passes.  A Redis call that has taken OpTime is over before more    *)
(* time passes: it is answered or its timeout fires.                       *)
Tick ==
    /\ \A r \in Requests : OnRedis(r) => waited[r] < OpTime
    /\ l1' = [g \in Gateways |-> [k \in Keys |-> Aged(l1[g][k], L1TTL)]]
    /\ l2' = [k \in Keys |-> Aged(l2[k], L2TTL)]
    /\ waited' = [r \in Requests |-> waited[r] + IF OnRedis(r) THEN 1 ELSE 0]
    /\ stale' = [r \in Requests |->
                    stale[r] + IF body[r] # NoBody THEN 1 ELSE 0]
    /\ UNCHANGED <<redisUp, pc, gw, key, body, calls, answer>>

(* moka evicts at max_capacity.                                            *)
L1Evict(g, k) ==
    /\ l1[g][k] # NoEntry
    /\ l1' = [l1 EXCEPT ![g][k] = NoEntry]
    /\ UNCHANGED <<l2, redisUp, requestVars>>

(* Redis becomes unreachable, or comes back, with its data or without.     *)
RedisChange ==
    /\ redisUp' = ~redisUp
    /\ l2' \in {l2, [k \in Keys |-> NoEntry]}
    /\ UNCHANGED <<l1, requestVars>>

(* A gateway dies and is started again: its L1 and its requests are gone;  *)
(* what it had written to Redis is not.                                    *)
Restart(g) ==
    /\ l1' = [l1 EXCEPT ![g] = [k \in Keys |-> NoEntry]]
    /\ pc' = [r \in Requests |-> IF gw[r] = g THEN "idle" ELSE pc[r]]
    /\ gw' = [r \in Requests |-> IF gw[r] = g THEN NoGateway ELSE gw[r]]
    /\ body' = [r \in Requests |-> IF gw[r] = g THEN NoBody ELSE body[r]]
    /\ stale' = [r \in Requests |-> IF gw[r] = g THEN 0 ELSE stale[r]]
    /\ waited' = [r \in Requests |-> IF gw[r] = g THEN 0 ELSE waited[r]]
    /\ calls' = [r \in Requests |-> IF gw[r] = g THEN 0 ELSE calls[r]]
    /\ UNCHANGED <<l2, redisUp, key, answer>>

-----------------------------------------------------------------------------
(* What a request does on its own.                                         *)
Step(r) ==
    \/ L2Read(r) \/ L2Miss(r) \/ L2GetFailed(r) \/ Promote(r)
    \/ Resolve(r)
    \/ AttemptOk(r) \/ AttemptRefused(r) \/ AttemptFailed(r) \/ Backoff(r)
    \/ L2Write(r) \/ L2SetFailed(r)

Next ==
    \/ \E r \in Requests, g \in Gateways, k \in Keys : Begin(r, g, k)
    \/ \E r \in Requests : Step(r) \/ Abandon(r)
    \/ Tick
    \/ \E g \in Gateways, k \in Keys : L1Evict(g, k)
    \/ RedisChange
    \/ \E g \in Gateways : Restart(g)

(* The runtime polls every task that can make progress; nothing is assumed *)
(* of Redis, of the engine's answers or of the clients.                    *)
Fairness == \A r \in Requests : WF_vars(Step(r))

Spec == Init /\ [][Next]_vars /\ Fairness

-----------------------------------------------------------------------------
(* Properties.                                                             *)

Answered(r) == answer[r] # NoAnswer

(* Whatever tiers, promotions, slow Redis calls and gateways a body went   *)
(* through, it is answered no later than MaxStale after the engine gave it *)
(* and always to a request for the key it was fetched for.                 *)
BoundedStaleness ==
    \A r \in Requests : Answered(r) /\ answer[r].kind = "ok" =>
       /\ answer[r].stale <= MaxStale
       /\ answer[r].body = key[r]

(* Losing Redis costs cache hits and nothing else: a request is only       *)
(* answered 500 after the engine failed it Attempts times, an engine       *)
(* status is passed on only after a call that brought it, and the two      *)
(* refusals are made without calling the engine.                           *)
ErrorsAreEarned ==
    \A r \in Requests : Answered(r) =>
       CASE answer[r].kind = "unavailable" -> answer[r].calls = Attempts
         [] answer[r].kind = "status" -> answer[r].calls \in 1..Attempts
         [] answer[r].kind = "tooLong" ->
               answer[r].calls = 0 /\ key[r] \in TooLong
         [] answer[r].kind = "noProfile" ->
               answer[r].calls = 0 /\ key[r] \in Unserved
         [] answer[r].kind = "ok" -> TRUE

(* Every request that is not abandoned is answered: neither a Redis that   *)
(* comes and goes nor an engine that keeps failing holds it for ever.      *)
EveryRequestEnds ==
    \A r \in Requests : (pc[r] # "idle") ~> (pc[r] = "idle")

(* The cache tiers never make an answer false: its age is bounded and it   *)
(* is the key's own, whichever gateways and outages it went through.       *)
CachesAreTrue == TypeOK /\ BoundedStaleness
=============================================================================
