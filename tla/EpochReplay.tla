---------------------------- MODULE EpochReplay ----------------------------
(***************************************************************************)
(* A day replayed wave by wave under a dispatch policy: vrp/replay.py.     *)
(*                                                                         *)
(* Requests become visible at the wave after they arrive, the policy sends *)
(* some of the open work, the rest is carried and published against a      *)
(* provisional vehicle, and the last wave sends all that is left.  What a  *)
(* wave costs to drive is not modelled; the two forms of churn the         *)
(* replayer prices, delay and moves, are.                                  *)
(***************************************************************************)
EXTENDS DispatchPolicies

CONSTANTS
    Quantity,       \* of each order
    Capacity,       \* of each vehicle
    Unseen          \* first_seen of an order that is not visible yet

ASSUME ReplayAssumption ==
    /\ Quantity \in [Orders -> Nat] /\ Capacity \in [Vehicles -> Nat]
    /\ Unseen \notin Nat

VARIABLES
    day,            \* arrivals: when each order becomes known
    policy,
    wave,           \* the wave to be decided
    carried,        \* postponed by the last wave
    dispatchedEver,
    firstSeen,      \* the start of the wave an order was first visible at
    provisional,    \* the vehicle published for each held order
    records,        \* one per wave that had open work
    raised          \* decide raised ValueError

vars == <<day, policy, wave, carried, dispatchedEver, firstSeen, provisional,
          records, raised>>

-----------------------------------------------------------------------------
(* generate_days: an instant strictly inside the horizon for each order.   *)
Arrivals ==
    LET span == Max({Horizon.end - Horizon.start - 1, 1})
    IN Horizon.start..(Horizon.start + span - 1)

(* dispatchable: windows of a width, staggered over the day.               *)
Dispatchable(width) ==
    LET span == Max({Horizon.end - Horizon.start - width, 1})
        opens(o) == Horizon.start + (((o - 1) * span) \div Cardinality(Orders))
    IN [o \in Orders |-> {Min({opens(o) + width, Horizon.end})}]

(* The requests visible at t, in order of arrival, then of id.             *)
KnownBy(t) ==
    LET known == {o \in Orders : day[o] <= t}
        Earlier(o, p) == day[o] < day[p] \/ (day[o] = day[p] /\ o < p)
    IN CHOOSE seq \in [1..Cardinality(known) -> known] :
          \A i, j \in DOMAIN seq : i < j => Earlier(seq[i], seq[j])

(* What is on v so far, and the vehicles that still have room for o.       *)
Load(owner, v) ==
    MapThenSumSet(LAMBDA o : Quantity[o], {o \in DOMAIN owner : owner[o] = v})

Room(owner, o) ==
    {v \in Vehicles : Load(owner, v) + Quantity[o] <= Capacity[v]}

(* _first_fit: each order goes on the first vehicle with room for it, or   *)
(* on none.                                                                *)
FirstFit(orders) ==
    LET after[i \in 0..Len(orders)] ==
            IF i = 0 THEN [o \in {} |-> 0]
            ELSE LET owner == after[i - 1]
                     room == Room(owner, orders[i])
                 IN IF room = {} THEN owner
                    ELSE [o \in DOMAIN owner \cup {orders[i]} |->
                            IF o = orders[i] THEN Min(room) ELSE owner[o]]
    IN after[Len(orders)]

(* moved_between, over the held work only.                                 *)
Moved(was, now, held) ==
    {o \in DOMAIN was \cap held :
        o \notin DOMAIN now \/ now[o] # was[o]}

-----------------------------------------------------------------------------
Init ==
    /\ day \in [Orders -> Arrivals]
    /\ policy \in Policies
    /\ wave = 1
    /\ carried = <<>> /\ dispatchedEver = {}
    /\ firstSeen = [o \in Orders |-> Unseen]
    /\ provisional = [o \in {} |-> 0]
    /\ records = <<>>
    /\ raised = FALSE

LastWave == wave = EpochCount

(* What became visible since the last wave.  The last one sweeps to the    *)
(* end of the horizon.                                                     *)
Arrived ==
    Kept(KnownBy(IF LastWave THEN Epoch(wave).end ELSE Epoch(wave).start),
         Orders \ (dispatchedEver \cup ToSet(carried)))

Open == carried \o Arrived

Playing == wave <= EpochCount /\ ~raised

(* A wave without open work leaves no record.                              *)
SkipWave ==
    /\ Playing
    /\ Open = <<>>
    /\ wave' = wave + 1
    /\ UNCHANGED <<day, policy, carried, dispatchedEver, firstSeen,
                   provisional, records, raised>>

Chosen(open, split) ==
    IF LastWave THEN Greedy(open)
    ELSE Answers(policy, open, split, Epoch(wave))

(* Mutant: the wait is counted to the end of the wave.                     *)
WaitedToEnd(o, seen, start) == start + EpochLength - seen[o]

(* How long o was held, charged when it goes out.                          *)
Waited(o, seen, start) == Max({start - seen[o], 0})

Delay(orders, seen, start) ==
    SumFunction([o \in orders |-> Waited(o, seen, start)])

(* One wave: arrivals are noted, the work is split and decided, the held   *)
(* part is published, and the record is written.                           *)
PlayWave ==
    /\ Playing
    /\ LET open == Open
           new == ToSet(Arrived)
           split == Classify(open, Epoch(wave).end)
           seen == [o \in Orders |->
                      IF o \in new THEN Epoch(wave).start ELSE firstSeen[o]]
       IN /\ open # <<>>
          /\ \E chosen \in Chosen(open, split) :
                LET d == Decide(open, split, chosen)
                    published == FirstFit(d.postponed)
                IN /\ Known(open, chosen)
                   /\ carried' = d.postponed
                   /\ dispatchedEver' = dispatchedEver \cup ToSet(d.dispatched)
                   /\ provisional' = published
                   /\ records' = Append(records,
                        [wave |-> wave, dispatched |-> d.dispatched,
                         postponed |-> d.postponed, must |-> split.must,
                         forced |-> d.forced,
                         delay |-> Delay(ToSet(d.dispatched), seen, Epoch(wave).start),
                         moves |-> Cardinality(Moved(provisional, published,
                                                     ToSet(d.postponed)))])
          /\ firstSeen' = seen
    /\ wave' = wave + 1
    /\ UNCHANGED <<day, policy, raised>>

(* A policy that names work that is not open ends the replay.              *)
RefuseWave ==
    /\ Playing
    /\ Open # <<>>
    /\ \E chosen \in Chosen(Open, Classify(Open, Epoch(wave).end)) :
          ~Known(Open, chosen)
    /\ raised' = TRUE
    /\ UNCHANGED <<day, policy, wave, carried, dispatchedEver, firstSeen,
                   provisional, records>>

Next == SkipWave \/ PlayWave \/ RefuseWave

Spec == Init /\ [][Next]_vars

-----------------------------------------------------------------------------
(* Properties.                                                             *)

Over == wave > EpochCount
Sent == FlattenSeq([i \in DOMAIN records |-> records[i].dispatched])

(* What each variable ranges over.                                         *)
TypeOK ==
    /\ wave \in 1..(EpochCount + 1)
    /\ carried \in Seq(Orders) /\ IsInjective(carried)
    /\ dispatchedEver \subseteq Orders
    /\ firstSeen \in [Orders -> Nat \cup {Unseen}]
    /\ DOMAIN provisional \subseteq ToSet(carried)
    /\ Len(records) < wave

(* No order is lost and none goes out twice, whatever the policy holds and *)
(* however late it arrives: the waves' dispatches and what is carried are  *)
(* the visible work, each order once, and at the end of the day all of it  *)
(* has gone out.                                                           *)
SentExactlyOnce ==
    /\ IsInjective(Sent \o carried)
    /\ ToSet(Sent \o carried) = {o \in Orders : firstSeen[o] # Unseen}
    /\ Over => ToSet(Sent) = Orders

Servable(o, t) == \E v \in Vehicles : Reachable(o, v, t)

(* The must-go rule does what it is for over the whole day: an order that  *)
(* some vehicle could reach in time when it was first seen goes out while  *)
(* some vehicle still can, under any policy, through any number of waves.  *)
SentWhileServable ==
    \A i \in DOMAIN records :
       \A o \in ToSet(records[i].dispatched) :
          Servable(o, firstSeen[o]) =>
             Servable(o, Epoch(records[i].wave).start)

(* Arrivals do not disturb what was published: a held order changes its    *)
(* provisional vehicle only in a wave that sends carried work out.         *)
PublishedStaysPut ==
    \A i \in 2..Len(records) :
       records[i].moves > 0 =>
          ToSet(records[i - 1].postponed) \cap ToSet(records[i].dispatched)
             # {}

Charged == SumFunction([i \in DOMAIN records |-> records[i].delay])

(* The start of the wave that sent o, and how long o had been known then.  *)
WentAt(o) ==
    Epoch(records[CHOOSE i \in DOMAIN records :
                     o \in ToSet(records[i].dispatched)].wave).start
HeldFor == [o \in ToSet(Sent) |-> Max({WentAt(o) - day[o], 0})]

(* The delay that is charged is the time the work sent was held, counted   *)
(* from arrival, to within one epoch for each order: holding an order over *)
(* several waves is charged once.                                          *)
DelayChargedOnce ==
    LET held == SumFunction(HeldFor)
    IN /\ Charged <= held
       /\ held <= Charged + Len(Sent) * (EpochLength - 1)

(* The sampling policy holds nothing that cannot gain by it: deferrable    *)
(* work with no other order in reach goes out in the wave it is seen.      *)
LonelyWorkGoes ==
    policy = "icd" =>
       \A o \in ToSet(carried) :
          \E p \in Orders \ {o} : Gap[o][p] <= Reach

(* replay and must_go: whatever the policy holds, every order goes out,    *)
(* once, and while some vehicle can still serve it.                        *)
EveryOrderGoesInTime == TypeOK /\ SentExactlyOnce /\ SentWhileServable

(* replay's records say what holding cost: what was published moves only    *)
(* with the work it was published with, a wait is charged once, nothing is *)
(* held that cannot gain.                                                  *)
HoldingIsHonest == PublishedStaysPut /\ DelayChargedOnce /\ LonelyWorkGoes
=============================================================================
