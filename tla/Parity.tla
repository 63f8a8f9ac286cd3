------------------------------- MODULE Parity -------------------------------
(***************************************************************************)
(* The parity harness: a corpus is recorded against a real engine through  *)
(* one gateway, then replayed to two gateways, and the pair of answers to  *)
(* each case is judged.  What the run exits with is all that a pipeline    *)
(* ever reads of it.                                                       *)
(*                                                                         *)
(* A JSON value is [type, value]; a number also says whether its sign bit  *)
(* is set.  The answer to a VRP case is the record quality.py reads.       *)
(***************************************************************************)
EXTENDS Integers, SequencesExt

CONSTANTS Corpus,       \* the cases: [endpoint, stops, depots, capacity]
          Pairs,        \* [reference, candidate]: per case, what is asked
                        \* upstream (at most one request) and answered
          Faults,       \* replies of an environment that is wrong
          ABS_TOL,      \* abs_tol, in the unit numbers are written in
          REL_TOL,      \* 1 / rel_tol
          CHUNK,        \* VRP_CHUNK_SIZE
          MAX_RATIO     \* MAX_ACCEPTABLE_RATIO, in percent

VARIABLES pair,         \* the gateways under comparison
          mode,         \* what the stand-in engine does: record, replay
          at,           \* the case in hand
          fixtures,     \* FixtureStore: upstream request key -> status
          misses,       \* FixtureStore.misses
          seen,         \* the replies judged, reference's and candidate's
          verdicts,     \* CaseResult per case: [verdict, unproven]
          ratios,       \* of each comparable solve, in percent
          exit          \* the exit code, once there is one

vars == <<pair, mode, at, fixtures, misses, seen, verdicts, ratios, exit>>

OK == 0
ADVISORY == 1
FAIL == 2

Diff(path, verdict) == [path |-> path, verdict |-> verdict]
Worst(diffs) == IF diffs = {} THEN OK
                ELSE CHOOSE v \in {d.verdict : d \in diffs} :
                        \A d \in diffs : d.verdict <= v

Magnitude(n) == IF n < 0 THEN -n ELSE n
Allowed(tol, a, b) ==
    IF tol.exact THEN 0
    ELSE LET Larger(x, y) == IF x > y THEN x ELSE y
         IN  Larger(tol.abs, Larger(Magnitude(a), Magnitude(b)) \div tol.rel)

NumericDiff(path, ref, cand, tol) ==
    IF ref = cand THEN {}
    ELSE {Diff(path, IF Magnitude(ref.value - cand.value)
                            <= Allowed(tol, ref.value, cand.value)
                     THEN ADVISORY ELSE FAIL)}

RECURSIVE Compare(_, _, _, _)

\* Mutant: only what the reference has is looked for.
MappingDiffOneWay(path, ref, cand, tol) ==
    {Diff(Append(path, k), FAIL) : k \in DOMAIN ref \ DOMAIN cand}
        \cup UNION {Compare(ref[k], cand[k], tol, Append(path, k)) :
                        k \in DOMAIN ref \cap DOMAIN cand}

\* Both trees are walked: a key of one side only is a failure.
MappingDiff(path, ref, cand, tol) ==
    LET both == DOMAIN ref \cap DOMAIN cand
        either == DOMAIN ref \cup DOMAIN cand
    IN  {Diff(Append(path, k), FAIL) : k \in either \ both}
            \cup UNION {Compare(ref[k], cand[k], tol, Append(path, k)) :
                            k \in both}

SequenceDiff(path, ref, cand, tol) ==
    IF Len(ref) # Len(cand) THEN {Diff(path, FAIL)}
    ELSE UNION {Compare(ref[i], cand[i], tol, Append(path, i)) :
                    i \in DOMAIN ref}

Compare(ref, cand, tol, path) ==
    IF path \in tol.ignored THEN {}
    ELSE IF ref.type # cand.type THEN {Diff(path, FAIL)}
    ELSE CASE ref.type = "number" -> NumericDiff(path, ref, cand, tol)
           [] ref.type = "dict" -> MappingDiff(path, ref.value, cand.value, tol)
           [] ref.type = "list" -> SequenceDiff(path, ref.value, cand.value, tol)
           [] OTHER -> IF ref.value = cand.value THEN {} ELSE {Diff(path, FAIL)}

\* RULES: which strategy applies to the body of an endpoint's answer, and
\* whether the two sides must agree about the status.
Tolerance(exact) == [exact |-> exact, abs |-> ABS_TOL, rel |-> REL_TOL,
                     ignored |-> {}]
RuleFor(endpoint) ==
    [ body |-> CASE endpoint = "tile" -> "bytes"
                 [] endpoint \in {"vrp", "vrp-allocate"} -> "quality"
                 [] endpoint = "metrics" -> "probe"
                 [] OTHER -> "json",
      tolerance |-> Tolerance(endpoint = "matrix"),
      compareStatus |-> endpoint \notin {"health", "metrics"} ]

-----------------------------------------------------------------------------
(* quality.py: what each side's answer to a VRP case must be on its own.   *)

Violated(name, condition) == IF condition THEN {Diff(<<name>>, FAIL)} ELSE {}

ServedSeq(answer) == FlattenSeq([i \in DOMAIN answer.routes |->
                                    answer.routes[i].stops])
ServedStops(answer) == ToSet(ServedSeq(answer))
TotalMetres(answer) ==
    FoldLeft(LAMBDA sum, r : sum + r.metres, 0, answer.routes)

RouteInvariants(r, case) ==
    Violated("stops_indices",
             \/ Len(r.stops) > CHUNK \/ Len(r.stops) > case.capacity
             \/ \E i \in DOMAIN r.stops : r.stops[i] \notin 0..(case.stops - 1))
    \cup Violated("depot_index", r.depot \notin 0..(case.depots - 1))
    \cup Violated("route_geometry", r.points < 2)

VrpInvariants(case, answer) ==
    Violated("code", answer.code # "Ok")
    \cup UNION {RouteInvariants(answer.routes[i], case) :
                    i \in DOMAIN answer.routes}
    \cup Violated("routes", \/ ~IsInjective(ServedSeq(answer))
                            \/ Len(ServedSeq(answer)) > case.stops)
    \cup Violated("total_distance",
                  answer.distance # TotalMetres(answer))

\* vrp-allocate answers with a depot's stops, and the stops none can reach.
Placed(answer) == FlattenSeq(answer.allocations) \o answer.unreachable
AllocationInvariants(case, answer) ==
    Violated("code", answer.code # "Ok")
    \cup Violated("allocations", \/ ~IsInjective(Placed(answer))
                                 \/ Len(Placed(answer)) # case.stops)

StopToDepot(answer) ==
    [s \in ToSet(FlattenSeq(answer.allocations)) |->
        CHOOSE d \in DOMAIN answer.allocations :
            \E i \in DOMAIN answer.allocations[d] :
                answer.allocations[d][i] = s]
AllocationAgrees(ref, cand) ==
    LET was == StopToDepot(ref)
        is == StopToDepot(cand)
    IN  \A s \in DOMAIN was : s \in DOMAIN is /\ is[s] = was[s]

\* ratio_verdict, over the distribution: its median, and its worst case.
RatioVerdict(percent) ==
    LET ordered == SortSeq(percent, <)
        n == Len(ordered)
        median2 == ordered[(n + 1) \div 2] + ordered[(n + 2) \div 2]
    IN  IF n = 0 THEN OK
        ELSE IF median2 > 200 \/ ordered[n] > MAX_RATIO THEN FAIL
        ELSE IF ordered[n] > 100 THEN ADVISORY
        ELSE OK

-----------------------------------------------------------------------------
(* runner.py: the verdict on one case.                                     *)

IsPreconditionFailure(reply) == reply.status \in {0, 429, 503}

JudgeStatus(ref, cand, rule) ==
    (IF ref.status = cand.status THEN {}
     ELSE {Diff(<<"status">>, IF rule.compareStatus THEN FAIL ELSE ADVISORY)})
    \cup Violated("content-type", ref.kind # cand.kind)

JudgeBytes(ref, cand) == Violated("body", ref.body # cand.body)

\* A body that is not the endpoint's answer is read as an empty one.
NoRoutes == [code |-> "missing", routes |-> <<>>, distance |-> 0]
NoAllocation == [code |-> "missing", allocations |-> <<>>, unreachable |-> <<>>]
JudgeQuality(case, ref, cand) ==
    LET Read(reply, none) == IF reply.status = 200 THEN reply.body ELSE none
    IN  IF case.endpoint = "vrp-allocate"
        THEN LET a == Read(ref, NoAllocation)
                 b == Read(cand, NoAllocation)
             IN  AllocationInvariants(case, a) \cup AllocationInvariants(case, b)
                    \cup Violated("agreement", ~AllocationAgrees(a, b))
        ELSE LET a == Read(ref, NoRoutes)
                 b == Read(cand, NoRoutes)
             IN  VrpInvariants(case, a) \cup VrpInvariants(case, b)
                    \cup Violated("served", ServedStops(a) # ServedStops(b))

JudgeBody(case, ref, cand) ==
    LET rule == RuleFor(case.endpoint)
    IN  CASE rule.body = "bytes" -> JudgeBytes(ref, cand)
          [] rule.body = "quality" -> JudgeQuality(case, ref, cand)
          [] rule.body = "json" ->
                Compare(ref.body, cand.body, rule.tolerance, <<>>)
          [] OTHER -> {}

Unproven(ref, cand) == ref.status >= 500 /\ cand.status >= 500

Judge(case, ref, cand) ==
    [ verdict |-> Worst(JudgeStatus(ref, cand, RuleFor(case.endpoint))
                        \cup JudgeBody(case, ref, cand)
                        \cup IF Unproven(ref, cand)
                             THEN {Diff(<<"status">>, ADVISORY)} ELSE {}),
      unproven |-> Unproven(ref, cand) ]

RatioOf(case, ref, cand) ==
    IF case.endpoint # "vrp" \/ ref.status # 200 \/ ref.body.distance = 0
    THEN <<>>
    ELSE <<IF cand.status = 200
           THEN (cand.body.distance * 100) \div ref.body.distance ELSE 0>>

\* run_corpus and summarise: an endpoint is as bad as its worst case or as
\* its distribution; the exit code counts the failing cases.
EndpointVerdict ==
    Worst({Diff(<<"case">>, verdicts[i].verdict) : i \in DOMAIN verdicts}
            \cup {Diff(<<"ratio">>, RatioVerdict(ratios))})
ExitCode == IF \E i \in DOMAIN verdicts : verdicts[i].verdict = FAIL
            THEN 1 ELSE 0

-----------------------------------------------------------------------------
(* engine.py: the stand-in for osrm-routed.                                *)

\* request_key: a parameter's place in the query makes no difference.
RequestKey(request) == [request EXCEPT !.params = SortSeq(@, <)]

\* What a gateway answers, given what the replaying engine has for it.  A
\* miss is a 404, which a gateway passes on; so is a recorded failure.
AnError(status) == [status |-> status, kind |-> "json",
                    body |-> [type |-> "string", value |-> "error"]]
ReplyTo(turn) ==
    IF turn.ask = {} THEN turn.reply
    ELSE LET key == RequestKey(CHOOSE r \in turn.ask : TRUE)
         IN  IF key \notin DOMAIN fixtures THEN AnError(404)
             ELSE IF fixtures[key] # 200 THEN AnError(fixtures[key])
             ELSE turn.reply

Missed(turn) == {r \in turn.ask : RequestKey(r) \notin DOMAIN fixtures}

\* send: a failure to get an answer is an answer, and ends nothing by itself.
Send(turn) == Faults \cup {ReplyTo(turn)}

Init == /\ pair \in Pairs /\ mode = "record" /\ at = 1
        /\ fixtures = <<>> /\ misses = {} /\ seen = <<>> /\ verdicts = <<>>
        /\ ratios = <<>> /\ exit = {}

\* The corpus goes through the reference gateway once; the engine's answer,
\* whatever it is, is kept under the request that got it.
Record(status) ==
    /\ mode = "record" /\ at <= Len(Corpus)
    /\ fixtures' = [k \in {RequestKey(r) : r \in pair.reference[at].ask} |->
                        status] @@ fixtures
    /\ at' = at + 1
    /\ UNCHANGED <<pair, mode, misses, seen, verdicts, ratios, exit>>

Rewind ==
    /\ mode = "record" /\ at > Len(Corpus)
    /\ mode' = "replay" /\ at' = 1
    /\ UNCHANGED <<pair, fixtures, misses, seen, verdicts, ratios, exit>>

\* run_case: both sides are sent the case; an environment at fault ends the
\* run with a code of its own.
RunCase(ref, cand) ==
    /\ mode = "replay" /\ exit = {} /\ at <= Len(Corpus)
    /\ seen' = Append(seen, <<ref, cand>>)
    /\ misses' = misses \cup Missed(pair.reference[at])
                        \cup Missed(pair.candidate[at])
    /\ IF IsPreconditionFailure(ref) \/ IsPreconditionFailure(cand)
       THEN exit' = {2} /\ UNCHANGED <<at, verdicts, ratios>>
       ELSE /\ verdicts' = Append(verdicts, Judge(Corpus[at], ref, cand))
            /\ ratios' = ratios \o RatioOf(Corpus[at], ref, cand)
            /\ at' = at + 1 /\ UNCHANGED exit
    /\ UNCHANGED <<pair, mode, fixtures>>

Report ==
    /\ mode = "replay" /\ exit = {} /\ at > Len(Corpus)
    /\ exit' = {ExitCode}
    /\ UNCHANGED <<pair, mode, at, fixtures, misses, seen, verdicts, ratios>>

Exited == exit # {} /\ UNCHANGED vars

Next == \/ \E status \in {200, 500} : Record(status)
        \/ Rewind
        \/ /\ mode = "replay" /\ at <= Len(Corpus)
           /\ \E ref \in Send(pair.reference[at]),
                 cand \in Send(pair.candidate[at]) : RunCase(ref, cand)
        \/ Report
        \/ Exited

-----------------------------------------------------------------------------
(* What an exit code says, written apart from the comparison: a JSON value *)
(* as the set of its leaves.                                               *)

RECURSIVE Leaves(_, _)
Leaves(tree, path) ==
    IF tree.type \in {"dict", "list"}
    THEN {<<path, tree>>} \cup
         UNION {Leaves(tree.value[k], Append(path, k)) :
                    k \in DOMAIN tree.value}
    ELSE {<<path, tree>>}

\* The same places hold the same things, numbers up to the tolerance.
Alike(a, b, tol) ==
    LET Counterpart(x, y) ==
            /\ x[1] = y[1] /\ x[2].type = y[2].type
            /\ x[2].type \in {"dict", "list"} =>
                    DOMAIN x[2].value = DOMAIN y[2].value
            /\ x[2].type = "number" =>
                    Magnitude(x[2].value - y[2].value)
                        <= Allowed(tol, x[2].value, y[2].value)
            /\ x[2].type \in {"string", "bool", "null"} => x[2] = y[2]
    IN  /\ \A x \in Leaves(a, <<>>) : \E y \in Leaves(b, <<>>) : Counterpart(x, y)
        /\ \A y \in Leaves(b, <<>>) : \E x \in Leaves(a, <<>>) : Counterpart(x, y)

Equivalent(case, ref, cand) ==
    CASE case.endpoint = "tile" -> ref = cand
      [] case.endpoint = "vrp" ->
            /\ ref.status = cand.status
            /\ ref.status = 200 =>
                /\ ServedStops(ref.body) = ServedStops(cand.body)
                /\ \A reply \in {ref, cand} : \A i, j \in DOMAIN reply.body.routes :
                    \A x \in DOMAIN reply.body.routes[i].stops,
                       y \in DOMAIN reply.body.routes[j].stops :
                        reply.body.routes[i].stops[x]
                                = reply.body.routes[j].stops[y]
                            => <<i, x>> = <<j, y>>
      [] case.endpoint = "vrp-allocate" ->
            /\ ref.status = cand.status
            /\ ref.status = 200 => \A s \in 0..(case.stops - 1) :
                {d \in DOMAIN ref.body.allocations :
                        Contains(ref.body.allocations[d], s)}
                    = {d \in DOMAIN cand.body.allocations :
                        Contains(cand.body.allocations[d], s)}
      [] OTHER -> /\ case.endpoint # "health" => ref.status = cand.status
                  /\ Alike(ref.body, cand.body, Tolerance(case.endpoint = "matrix"))

\* A run that exits clean compared every case, in each the two gateways gave
\* the same answer, and neither asked the engine for what was not recorded;
\* a wrong environment has a code of its own and is never a failure of the
\* port; and two failures alike are not agreement.  An endpoint that fails in
\* a clean run fails on the distribution of its distances alone.
CleanExitIsEarned ==
    /\ exit = {0} =>
        /\ Len(seen) = Len(Corpus)
        /\ \A i \in DOMAIN seen : Equivalent(Corpus[i], seen[i][1], seen[i][2])
        /\ {m \in misses : m.path # "ping"} = {}
        /\ EndpointVerdict = FAIL => RatioVerdict(ratios) = FAIL
    /\ (exit = {2}) <=> (\E i \in DOMAIN seen, side \in {1, 2} :
                            seen[i][side].status \in {0, 429, 503})
    /\ \A i \in DOMAIN verdicts :
            seen[i][1].status >= 500 /\ seen[i][2].status >= 500
                => verdicts[i].verdict # OK
=============================================================================
