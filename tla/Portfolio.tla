----------------------------- MODULE Portfolio -----------------------------
(***************************************************************************)
(* vrp/portfolio.py: several engines solve one instance, at most `workers` *)
(* at a time; every plan is verified and scored again from its routes, and *)
(* the cheapest legal one wins.                                            *)
(*                                                                         *)
(* What an engine answers is fixed in the first state (answers), so all    *)
(* that the behaviours differ in is who runs and ends when: the outcome    *)
(* may not depend on it.  An answer is a set: empty for an engine that     *)
(* raised, else its solution.                                              *)
(***************************************************************************)
EXTENDS Evaluator, Verifier, Subsequences

CONSTANTS Problems,     \* the instances
          Members,      \* 1..n: the engines, in order and by distinct names
          Offers(_),    \* instance -> the answers an engine may give
          Weights,      \* ObjectiveWeights
          SIZE_BANDS    \* 10, 50, 200, 1000 in the code

VARIABLES problem, answers, workers, executor,
          racing,     \* the members of this run
          unsendable, \* members a worker process cannot import
          phase,      \* "new", "solving", "ended", "raised"
          queued,     \* positions not started, in order
          running,    \* positions in flight
          results,    \* position -> answer, of those that ended
          outcome, wins

given == <<problem, answers, workers, executor, racing, unsendable>>
vars == <<given, phase, queued, running, results, outcome, wins>>


\* instance_signature: a coarse shape.
InstanceSignature(p) ==
    LET n == Cardinality(DOMAIN p.orders)
        bands == {b \in SIZE_BANDS : n <= b}
        starts == {v.start : v \in Range(p.vehicles)}
    IN  [ band |-> IF bands = {} THEN {} ELSE {Min(bands)},
          windows |-> \E o \in Range(p.orders) :
                        \E w \in Range(StopOf(o).windows) :
                            w.end - w.start < 4 * 3600,
          depots |-> Min({Cardinality(starts), 3}),
          hos |-> \E v \in Range(p.vehicles) : v.hos # {} ]

NoOutcome == [winner |-> {}, best |-> {}, scores |-> <<>>, rejected |-> {}]

\* accelerate.py: the accelerator is added where it is asked for and found,
\* and refuses every instance.
ACCELERATOR == Cardinality(Members) + 1
AcceleratedPortfolio(enabled, available) ==
    IF enabled /\ available THEN Members \cup {ACCELERATOR} ELSE Members
AnswerOf(i) == IF i = ACCELERATOR THEN {} ELSE answers[i]

\* The assignment the routes of a solution spell out.
AssignmentOf(sol) ==
    LET OrdersOn(steps) == LET s == SelectSeq(steps, LAMBDA x : x.serves # {})
                           IN  [i \in DOMAIN s |-> OrderOf(s[i])]
    IN  [v \in {r.vehicle : r \in Range(sol.routes)} |->
            OrdersOn((CHOOSE r \in Range(sol.routes) : r.vehicle = v).steps)]

Legal(p, answer) == \E s \in answer : Verify(p, s) = {}

\* The loop of run_portfolio over the results, then the cheapest by score
\* and name.  Nothing is returned when nothing is legal.
CostOf(p, answer) ==
    Evaluate(p, AssignmentOf(CHOOSE s \in answer : TRUE), Weights)
Scores(p, found) ==
    [i \in {j \in DOMAIN found : Legal(p, found[j])} |-> CostOf(p, found[i])]
Cheapest(scores) ==
    {i \in DOMAIN scores : \A j \in DOMAIN scores :
        \/ scores[i] < scores[j]
        \/ scores[i] = scores[j] /\ i <= j}
Judged(found, scores) ==
    LET best == Cheapest(scores)
    IN  [ winner |-> best, best |-> UNION {found[i] : i \in best},
          scores |-> scores, rejected |-> DOMAIN found \ DOMAIN scores ]
Judge(p, found) == Judged(found, Scores(p, found))

\* A plan that is legal has a score.
EnginesAreKnown ==
    /\ IsFiniteSet(Members) /\ Members = 1..Cardinality(Members)
    /\ \A p \in Problems : \A answer \in Offers(p) :
            Legal(p, answer) => CostOf(p, answer) \in Int

-----------------------------------------------------------------------------

Init == /\ problem \in Problems
        /\ answers \in [Members -> Offers(problem)]
        /\ \E enabled, available \in BOOLEAN :
                racing = AcceleratedPortfolio(enabled, available)
        /\ workers \in 0..Cardinality(Members)
        /\ executor \in {"thread", "process"}
        /\ unsendable \in {{}} \cup {{i} : i \in Members}
        /\ phase = "new" /\ queued = <<>> /\ running = {}
        /\ results = <<>> /\ outcome = NoOutcome /\ wins = <<>>

\* No workers, or a member that cannot be sent: refused before anything runs.
\* A pool of one runs inline, whatever the executor.
Refused == \/ workers < 1
           \/ executor = "process" /\ workers > 1 /\ unsendable # {}

Refuse ==
    /\ phase = "new" /\ Refused
    /\ phase' = "raised"
    /\ UNCHANGED <<given, queued, running, results, outcome, wins>>

Open ==
    /\ phase = "new" /\ ~Refused
    /\ phase' = "solving"
    /\ queued' = Ascending(racing)
    /\ UNCHANGED <<given, running, results, outcome, wins>>

\* A free worker takes the next member.
Take ==
    /\ phase = "solving" /\ queued # <<>>
    /\ Cardinality(running) < workers
    /\ running' = running \cup {Head(queued)}
    /\ queued' = Tail(queued)
    /\ UNCHANGED <<given, phase, results, outcome, wins>>

\* Mutant: results are kept in the order they arrive.
PlacedAsEnded(position) == Cardinality(DOMAIN results) + 1

\* pool.map keeps the place of a member: where its result goes.
Placed(position) == position

\* _attempt: a member returns a plan or raises; the others go on.
Attempt(i) ==
    /\ i \in running
    /\ running' = running \ {i}
    /\ results' = [j \in DOMAIN results \cup {Placed(i)} |->
                    IF j = Placed(i) THEN AnswerOf(i) ELSE results[j]]
    /\ UNCHANGED <<given, phase, queued, outcome, wins>>

\* The pool is empty: the outcome, and the win recorded for this shape.
Ran == phase = "solving" /\ queued = <<>> /\ running = {}

Unverifiable == \E i \in DOMAIN results : \E s \in results[i] :
                    Raises(problem, s)

Decide ==
    /\ Ran /\ ~Unverifiable
    /\ phase' = "ended"
    /\ outcome' = Judge(problem, results)
    /\ wins' = [shape \in {InstanceSignature(problem)} |-> outcome'.winner]
    /\ UNCHANGED <<given, queued, running, results>>

\* A plan that drives a leg no road connects: verify raises, and with it
\* run_portfolio.
VerifyRaises ==
    /\ Ran /\ Unverifiable
    /\ phase' = "raised"
    /\ UNCHANGED <<given, queued, running, results, outcome, wins>>

Done == phase \in {"ended", "raised"} /\ UNCHANGED vars

Next == \/ Refuse \/ Open \/ Take
        \/ \E i \in racing : Attempt(i)
        \/ Decide \/ VerifyRaises \/ Done

Spec == Init /\ [][Next]_vars

-----------------------------------------------------------------------------

\* run_portfolio promises "timing does not decide anything": however the
\* members were interleaved, the winner is a member whose own plan verifies,
\* no member's legal plan is cheaper, a tie goes to the first name, and every
\* member is either scored or rejected.  An accelerator "costs its own slot and
\* no more": the outcome is the one the other members come to.
TimingDecidesNothing ==
    phase = "ended" =>
        \A legal \in {{i \in Members : Legal(problem, answers[i])}} :
            /\ DOMAIN outcome.scores = legal
            /\ outcome.rejected = racing \ legal
            /\ (outcome.winner = {}) <=> (legal = {})
            /\ \A w \in outcome.winner :
                 /\ outcome.best = answers[w]
                 /\ \A i \in legal \ {w} :
                    \A gap \in {CostOf(problem, answers[i])
                                    - CostOf(problem, answers[w])} :
                        gap > 0 \/ (gap = 0 /\ w < i)

\* _solved keeps at most `workers` members in flight, and a member that
\* raises takes none of the others down: each is run once.
EveryMemberRunsOnce ==
    /\ Cardinality(running) <= workers
    /\ phase = "solving" =>
          /\ Range(queued) \cup running \cup DOMAIN results = racing
          /\ running \cap (Range(queued) \cup DOMAIN results) = {}
=============================================================================
