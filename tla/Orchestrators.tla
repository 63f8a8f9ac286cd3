--------------------------- MODULE Orchestrators ---------------------------
(***************************************************************************)
(* The constraints that span routes, enforced by solving again:            *)
(* vrp/synchronise.py (coupled visits) and vrp/depots.py (depot stock).    *)
(*                                                                         *)
(* The engine is a parameter: it returns some plan that                  *)
(* keeps what it compiles (EngineKeeps) of the problem it is given.  The   *)
(* loops are the actions; the operators before them are what they compute. *)
(***************************************************************************)
EXTENDS Evaluator, Verifier

CONSTANTS MAX_ROUNDS,       \* max_rounds of the loop (6 and 8 in the code)
          Instances         \* the problems the loops are asked to solve

RoundsAssumption == MAX_ROUNDS \in Nat

-----------------------------------------------------------------------------
(* Coupled visits.                                                         *)

StepsServing(sol, o) == {x \in Serving(sol) : At(sol, x).serves = {o}}

\* _timing: of the steps that serve an order the last one counts.
Timing(sol) ==
    [o \in {OrderOf(At(sol, x)) : x \in Serving(sol)} |->
        LET mine == StepsServing(sol, o)
            r == Max({x[1] : x \in mine})
            i == Max({x[2] : x \in {y \in mine : y[1] = r}})
        IN  [vehicle |-> sol.routes[r].vehicle,
             start |-> sol.routes[r].steps[i].start,
             departure |-> sol.routes[r].steps[i].departure]]

\* Mutant: nothing is too far apart.
UnmetIfTooClose(p, sol) ==
    LET seen == Timing(sol)
    IN  {s \in p.syncs :
            /\ {s.first, s.second} \subseteq DOMAIN seen
            /\ \/ seen[s.first].vehicle = seen[s.second].vehicle
               \/ seen[s.second].start - seen[s.first].start < s.minGap}

\* unmet: written apart from INV-15.
Unmet(p, sol) ==
    LET seen == Timing(sol)
        Abs(n) == IF n < 0 THEN -n ELSE n
        Gap(s) == IF s.kind = "TRANSFER"
                  THEN seen[s.second].start - seen[s.first].departure
                  ELSE Abs(seen[s.second].start - seen[s.first].start)
    IN  {s \in p.syncs :
            /\ {s.first, s.second} \subseteq DOMAIN seen
            /\ \/ seen[s.first].vehicle = seen[s.second].vehicle
               \/ Gap(s) < s.minGap
               \/ \E m \in s.maxGap : Gap(s) > m}

\* _hold_until: no window opens before the instant; one that has closed by
\* then shrinks to its last instant.
HoldUntil(p, o, opens) ==
    LET order == p.orders[o]
        Held(w) == [w EXCEPT !.start = Max({@, Min({opens, w.end})})]
        moved == [StopOf(order) EXCEPT !.windows =
                    [i \in DOMAIN @ |-> Held(@[i])]]
    IN  [p EXCEPT !.orders[o] = IF order.delivery # {}
                                THEN [order EXCEPT !.delivery = {moved}]
                                ELSE [order EXCEPT !.pickup = {moved}]]

\* What a round of solve_synchronised does about one broken coupling.
Tightened(p, s, seen) ==
    LET meet == Max({seen[s.first].start, seen[s.second].start})
    IN  IF s.kind = "TRANSFER"
        THEN HoldUntil(p, s.second, seen[s.first].departure + s.minGap)
        ELSE HoldUntil(HoldUntil(p, s.first, meet), s.second, meet)

TightenAll(p, sol) ==
    FoldSet(LAMBDA s, q : Tightened(q, s, Timing(sol)), p, Unmet(p, sol))

-----------------------------------------------------------------------------
(* Depot stock.                                                            *)

\* drawn_per_depot, of one dimension; a pickup is stock arriving.
DrawnFrom(p, sol, l, d) ==
    LET Leaves(x) == /\ p.vehicles[sol.routes[x[1]].vehicle].start = l
                     /\ p.orders[OrderOf(At(sol, x))].delivery # {}
    IN  SumOver({x \in Serving(sol) : Leaves(x)},
                LAMBDA x : Get(p.orders[OrderOf(At(sol, x))].qty, d))

\* over_drawn: by how much, for each depot and dimension that is short.
OverDrawn(p, sol) ==
    LET held == {x \in (DOMAIN p.locations)
                    \X UNION {DOMAIN l.inventory : l \in Range(p.locations)} :
                        x[2] \in DOMAIN p.locations[x[1]].inventory}
        Excess(x) == DrawnFrom(p, sol, x[1], x[2])
                        - p.locations[x[1]].inventory[x[2]]
    IN  [x \in {y \in held : Excess(y) > 0} |-> Excess(x)]

\* _orders_on: the depot's deliveries, least worth protecting first.
OrdersOn(p, sol, l) ==
    LET mine == {OrderOf(At(sol, x)) : x \in {y \in Serving(sol) :
                    /\ p.vehicles[sol.routes[y[1]].vehicle].start = l
                    /\ p.orders[OrderOf(At(sol, y))].delivery # {}}}
        Before(a, b) ==
            LET x == p.orders[a]
                y == p.orders[b]
            IN  \/ x.tier > y.tier
                \/ x.tier = y.tier /\ x.prize < y.prize
                \/ x.tier = y.tier /\ x.prize = y.prize /\ a <= b
    IN  SetToSortSeq(mine, Before)

\* The orders one depot gives up: in that order, as long as something is
\* short, those that carry some of what is.
GivenUp(p, sol, l, excess) ==
    LET seq == OrdersOn(p, sol, l)
        short == [d \in {x[2] : x \in {y \in DOMAIN excess : y[1] = l}} |->
                    excess[<<l, d>>]]
        Helps(o, left) == \E d \in DOMAIN p.orders[o].qty : Get(left, d) > 0
        after[i \in 0..Len(seq)] ==
            IF i = 0 THEN [left |-> short, gone |-> {}]
            ELSE LET was == after[i - 1]
                 IN  IF Helps(seq[i], was.left)
                     THEN [left |-> [d \in DOMAIN short |-> was.left[d]
                                        - Get(p.orders[seq[i]].qty, d)],
                           gone |-> was.gone \cup {seq[i]}]
                     ELSE was
    IN  after[Len(seq)].gone

\* _withdrawals: off every vehicle of that depot.
Withdrawals(p, sol) ==
    LET excess == OverDrawn(p, sol)
        depots == {x[1] : x \in DOMAIN excess}
        Fleet(l) == {v \in DOMAIN p.vehicles : p.vehicles[v].start = l}
    IN  UNION {{[kind |-> "FORBID_ORDER_ON_VEHICLE", order |-> o,
                 vehicle |-> v] : o \in GivenUp(p, sol, l, excess),
                                  v \in Fleet(l)} : l \in depots}

\* _with_locks: the problem is rebuilt from its parts, and the couplings and
\* the speed profiles are not among those it is given.
WithMoreLocks(p, locks) ==
    [p EXCEPT !.locks = @ \cup locks, !.syncs = {}, !.profile = {},
              !.profiles = {}]

-----------------------------------------------------------------------------
(* The loops.                                                              *)

VARIABLES loop,         \* which of the two is running
          problem,      \* the problem it was called with
          current,      \* the problem it solves now
          round,        \* how many times it has tightened
          solution,     \* the engine's last answer
          state         \* "solve", "judge", then how it ended

vars == <<loop, problem, current, round, solution, state>>

Nothing == [routes |-> <<>>, unassigned |-> {}, claimed |-> <<>>]

\* The plans the engine can answer with: routes for some vehicles, within
\* everything it compiles, the constraints these loops exist for excepted.
EngineKeeps == {"INV-1", "INV-3", "INV-4", "INV-5", "INV-6", "INV-8"}

\* A vehicle for each order; 0 leaves it unassigned.
Routings(p) == [DOMAIN p.orders -> DOMAIN p.vehicles \cup {0}]

PlanOf(p, f, order) ==
    LET Mine(v) == SelectSeq(order, LAMBDA o : f[o] = v)
        fleet == SetToSortSeq({v \in DOMAIN p.vehicles : Mine(v) # <<>>},
                              LAMBDA a, b : a <= b)
    IN  [ routes |-> [i \in DOMAIN fleet |->
                        [vehicle |-> fleet[i],
                         steps |-> Timeline(p, fleet[i], Mine(fleet[i]))]],
          unassigned |-> {o \in DOMAIN p.orders : f[o] = 0},
          claimed |-> <<>> ]

Answers(p) ==
    {s \in {PlanOf(p, f, order) : f \in Routings(p),
                                  order \in SetToSeqs(DOMAIN p.orders)} :
        /\ \A r \in DOMAIN s.routes : CheckRoute(p, s.routes[r]) = {}
        /\ CheckLocks(p, s) = {}}

Init ==
    /\ problem \in Instances /\ current = problem
    /\ loop \in {"synchronise", "inventory"}
    /\ round = 0 /\ solution = Nothing /\ state = "solve"

\* solution = solve(current)
Solve ==
    /\ state = "solve" /\ round <= MAX_ROUNDS
    /\ solution' \in Answers(current) /\ state' = "judge"
    /\ UNCHANGED <<loop, problem, current, round>>

\* Nothing is broken: the plan is returned.
Return ==
    /\ state = "judge"
    /\ IF loop = "synchronise" THEN Unmet(current, solution) = {}
       ELSE DOMAIN OverDrawn(current, solution) = {}
    /\ state' = "returned"
    /\ UNCHANGED <<loop, problem, current, round, solution>>

Shared(s) == LET seen == Timing(solution)
             IN  seen[s.first].vehicle = seen[s.second].vehicle

\* One vehicle carries both halves of a coupling: NotImplementedError.
RefuseShared ==
    /\ state = "judge" /\ loop = "synchronise"
    /\ \E s \in Unmet(current, solution) : Shared(s)
    /\ state' = "shared"
    /\ UNCHANGED <<loop, problem, current, round, solution>>

\* A round of solve_synchronised that narrows some window.
Narrow ==
    /\ state = "judge" /\ loop = "synchronise"
    /\ \A s \in Unmet(current, solution) : ~Shared(s)
    /\ current' = TightenAll(current, solution) /\ current' # current
    /\ state' = "solve" /\ round' = round + 1
    /\ UNCHANGED <<loop, problem, solution>>

\* A round of solve_within_inventory.
Withdraw ==
    /\ state = "judge" /\ loop = "inventory"
    /\ Withdrawals(current, solution) # {}
    /\ current' = WithMoreLocks(current, Withdrawals(current, solution))
    /\ state' = "solve" /\ round' = round + 1
    /\ UNCHANGED <<loop, problem, solution>>

\* The rounds are used up, or no window can be narrowed: RuntimeError.
GiveUp ==
    /\ \/ state = "solve" /\ round > MAX_ROUNDS
       \/ /\ state = "judge" /\ loop = "synchronise"
          /\ Unmet(current, solution) # {}
          /\ \A s \in Unmet(current, solution) : ~Shared(s)
          /\ TightenAll(current, solution) = current
    /\ state' = "refused"
    /\ UNCHANGED <<loop, problem, current, round, solution>>

\* Returned or raised: nothing more happens.
Ended ==
    /\ state \in {"returned", "shared", "refused"}
    /\ UNCHANGED vars

Next ==
    Solve \/ Return \/ RefuseShared \/ Narrow \/ Withdraw \/ GiveUp \/ Ended

\* The rounds are bounded, so that no state deadlocks is that every loop ends.
Spec == Init /\ [][Next]_vars

-----------------------------------------------------------------------------
(* Properties.                                                             *)

\* What solve_synchronised returns is a plan for the problem it was called
\* with: the narrowed windows lie inside the operator's, and unmet agrees
\* with the verifier's INV-15, which is written apart from it.
CoupledPlanHoldsUp ==
    state = "returned" /\ loop = "synchronise" =>
        Verify(problem, solution) \cap (EngineKeeps \cup {"INV-15"}) = {}

\* What solve_within_inventory returns is within the stock of the problem it
\* was called with, and keeps every lock the operator had set.
StockedPlanHoldsUp ==
    state = "returned" /\ loop = "inventory" =>
        Verify(problem, solution) \cap (EngineKeeps \cup {"INV-13"}) = {}

\* Each round withdraws (order, vehicle) pairs that were still allowed, so an
\* engine that keeps its locks cannot make the loop repeat itself; every one
\* is of an order that draws on what the depot is short of, and no order of a
\* less protected tier that does so stays behind on that depot.
LeastProtectedGoFirst ==
    state = "judge" /\ loop = "inventory" =>
        LET excess == OverDrawn(current, solution)
            withdrawn == Withdrawals(current, solution)
            Short(l, o) == \E x \in DOMAIN excess :
                    x[1] = l /\ Get(current.orders[o].qty, x[2]) > 0
        IN  /\ excess # <<>> => withdrawn # {}
            /\ withdrawn \cap current.locks = {}
            /\ \A k \in withdrawn :
                LET l == current.vehicles[k.vehicle].start
                IN  /\ Short(l, k.order)
                    /\ \A o \in Range(OrdersOn(current, solution, l)) :
                        Short(l, o) /\ current.orders[o].tier
                                        > current.orders[k.order].tier =>
                            [k EXCEPT !.order = o] \in withdrawn
=============================================================================
