-------------------------- MODULE DispatchPolicies --------------------------
(***************************************************************************)
(* Which open work goes out in a dispatch wave: the waves and the must-go  *)
(* classifier of vrp/epochs.py (with _reachable of vrp/diagnose.py), the   *)
(* baselines of vrp/policies.py, the sampling policy of vrp/icd.py and the *)
(* prize-collecting one of vrp/pcdispatch.py.                              *)
(*                                                                         *)
(* Orders and vehicles are numbered in the order of the instance.  An      *)
(* order has the closing times of its hard windows; one without any is     *)
(* never out of time.  A draw of a random generator is a free choice among *)
(* what the draw can give, so a policy is the set of its possible answers. *)
(***************************************************************************)
EXTENDS Integers, SequencesExt, FiniteSetsExt, Subsequences

CONSTANTS
    Orders, Vehicles,
    ShiftStart,     \* of each vehicle
    HorizonEnd,     \* the end of the first vehicle's shift
    EpochLength,
    Release,        \* of each order
    Leg,            \* Leg[v][o]: from v's depot to the stop, or NoRoad
    NoRoad,
    Closes,         \* Closes[o]: the ends of its hard windows
    Gap,            \* Gap[o][p]: the distance between two stops
    Longest,        \* the longest distance of the matrix
    Probability,    \* of random_policy, in parts of Full
    Scenarios, Rounds, SendAt, HoldAt, Full   \* of icd_policy

Horizon == [start |-> ShiftStart[1], end |-> HorizonEnd]

ASSUME DispatchAssumption ==
    /\ IsFiniteSet(Vehicles) /\ IsFiniteSet(Orders)
    /\ Vehicles = 1..Cardinality(Vehicles) /\ Vehicles # {}
    /\ Orders = 1..Cardinality(Orders)
    /\ ShiftStart \in [Vehicles -> Nat] /\ Release \in [Orders -> Nat]
    /\ NoRoad \notin Nat
    /\ Leg \in [Vehicles -> [Orders -> Nat \cup {NoRoad}]]
    /\ \A o \in Orders : Closes[o] \subseteq Nat
    /\ Gap \in [Orders -> [Orders -> Nat]] /\ Longest \in Nat
    /\ EpochLength \in Nat \ {0}
    /\ HorizonEnd \in Nat /\ ShiftStart[1] < HorizonEnd
    /\ {Scenarios, Rounds} \subseteq Nat \ {0}
    /\ {HoldAt, SendAt, Full, Probability} \subseteq Nat
    /\ HoldAt < SendAt /\ SendAt <= Full /\ Probability <= Full

-----------------------------------------------------------------------------
(* epochs: contiguous waves over the horizon, the last one short where the *)
(* length does not divide it.                                              *)
EpochCount ==
    (Horizon.end - Horizon.start + EpochLength - 1) \div EpochLength

Epoch(i) ==
    LET start == Horizon.start + (i - 1) * EpochLength
    IN [start |-> start, end |-> Min({start + EpochLength, Horizon.end})]

(* Whether vehicle v, leaving no earlier than t, makes a hard window of o. *)
Reachable(o, v, t) ==
    \/ Closes[o] = {}
    \/ /\ Leg[v][o] # NoRoad
       /\ \E close \in Closes[o] :
             Max({ShiftStart[v], Release[o], t}) + Leg[v][o] <= close

(* Mutant: an order that is just too late is still thought to be in time.  *)
MustGoTooLate(o, t) == ~\E v \in Vehicles : Reachable(o, v, t - 1)

(* Postponing o to t leaves no vehicle that could serve it.                *)
MustGo(o, t) == ~\E v \in Vehicles : Reachable(o, v, t)

Classify(open, t) ==
    LET must == {o \in Orders : MustGo(o, t)}
    IN [must |-> Kept(open, must), defer |-> Kept(open, Orders \ must)]

-----------------------------------------------------------------------------
Greedy(open) == {ToSet(open)}

Lazy(split) == {ToSet(split.must)}

(* Must-go work, and what the draws add to it.                             *)
RandomPolicy(split) ==
    {ToSet(split.must) \cup drawn : drawn \in
        CASE Probability = 0 -> {{}}
          [] Probability = Full -> {ToSet(split.defer)}
          [] OTHER -> SUBSET ToSet(split.defer)}

(* The solver serves what it likes of the open work; when it fails the     *)
(* must-go work is answered, which is one of these sets.                   *)
PrizeCollecting(open) == SUBSET ToSet(open)

-----------------------------------------------------------------------------
(* icd_policy.  The futures one scenario can draw, each order arriving     *)
(* with a likelihood that falls with the day.                              *)
Futures(e) ==
    LET remaining == Max({Horizon.end - e.end, 0})
        span == Max({Horizon.end - Horizon.start, 1})
        likelihood == (remaining * Full) \div span
    IN CASE likelihood = 0 -> {{}}
         [] likelihood >= Full -> {Orders}
         [] OTHER -> SUBSET Orders

Reach == Max({Longest \div 2, 1})

(* One scenario's verdict: send o when waiting makes it must-go or buys it *)
(* no company near enough to share a route.                                *)
WouldSend(o, going, future, t) ==
    LET company == future \ (going \cup {o})
    IN MustGo(o, t) \/ \A p \in company : Gap[o][p] > Reach

(* The consensus of the drawn scenarios, in parts of Full.                 *)
Share(o, going, drawn, t) ==
    (Cardinality({i \in DOMAIN drawn : WouldSend(o, going, drawn[i], t)})
        * Full) \div Scenarios

(* One round: the confident cases are fixed, the rest is judged again with *)
(* those as given; the rounds stop when nothing was fixed.                 *)
JudgeWith(s, drawn, t) ==
    LET send == {o \in s.undecided : Share(o, s.going, drawn, t) >= SendAt}
        hold == {o \in s.undecided : Share(o, s.going, drawn, t) <= HoldAt}
    IN [going |-> s.going \cup send,
        undecided |-> s.undecided \ (send \cup hold),
        over |-> send \cup hold = {}]

Judge(s, e) ==
    IF s.over THEN {s}
    ELSE {JudgeWith(s, drawn, e.end) : drawn \in [1..Scenarios -> Futures(e)]}

(* What is still undecided after the last round waits.                     *)
Icd(split, e) ==
    LET start == [going |-> ToSet(split.must),
                  undecided |-> ToSet(split.defer), over |-> FALSE]
        after[k \in 0..Rounds] ==
            IF k = 0 THEN {start}
            ELSE UNION {Judge(s, e) : s \in after[k - 1]}
    IN {s.going : s \in after[Rounds]}

-----------------------------------------------------------------------------
(* "caller" is a policy somebody hands in, which may name anything.        *)
Policies == {"greedy", "lazy", "random", "icd", "pc", "caller"}

Answers(policy, open, split, e) ==
    CASE policy = "greedy" -> Greedy(open)
      [] policy = "lazy" -> Lazy(split)
      [] policy = "random" -> RandomPolicy(split)
      [] policy = "icd" -> Icd(split, e)
      [] policy = "pc" -> PrizeCollecting(open)
      [] policy = "caller" -> SUBSET Orders

(* decide: an answer that names work that is not open is refused; must-go  *)
(* work that was not chosen goes all the same, and is reported as forced.  *)
Known(open, chosen) == chosen \subseteq ToSet(open)

Decide(open, split, chosen) ==
    LET forced == Kept(split.must, Orders \ chosen)
        out == chosen \cup ToSet(forced)
    IN [dispatched |-> Kept(open, out),
        postponed |-> Kept(open, Orders \ out),
        forced |-> forced]
=============================================================================
