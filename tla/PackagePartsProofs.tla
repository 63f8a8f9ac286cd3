------------------------- MODULE PackagePartsProofs -------------------------
(***************************************************************************)
(* The invariant of each part, part by part: capacity assessment, run      *)
(* record, race, travel matrix, search; then the parts together.           *)
(***************************************************************************)
EXTENDS PackageParts, SubsequencesProofs

-----------------------------------------------------------------------------
(* A part sees the library's operators under its own name; they are the    *)
(* same operators.                                                         *)

LEMMA SameCardinality ==
    ASSUME NEW S
    PROVE  /\ Matrix!Cardinality(S) = Cardinality(S)
           /\ Race!Cardinality(S) = Cardinality(S)
<1>1. Matrix!Cardinality(S) = Cardinality(S)
  BY DEF Matrix!Cardinality, Cardinality
<1>2. Race!Cardinality(S) = Cardinality(S)
  BY DEF Race!Cardinality, Cardinality
<1> QED BY <1>1, <1>2

LEMMA SameFinite ==
    ASSUME NEW S PROVE Race!IsFiniteSet(S) <=> IsFiniteSet(S)
BY DEF Race!IsFiniteSet, IsFiniteSet

LEMMA SameAscending ==
    ASSUME NEW S
    PROVE  /\ Matrix!Ascending(S) = Ascending(S)
           /\ Race!Ascending(S) = Ascending(S)
<1>1. Matrix!Ascending(S) = Ascending(S)
  BY SameCardinality, Zenon DEF Matrix!Ascending, Ascending
<1>2. Race!Ascending(S) = Ascending(S)
  BY SameCardinality, Zenon DEF Race!Ascending, Ascending
<1> QED BY <1>1, <1>2

LEMMA SameKept ==
    ASSUME NEW s, NEW wanted
    PROVE  Matrix!Kept(s, wanted) = Kept(s, wanted)
BY DEF Matrix!Kept, Kept

LEMMA SameToSet ==
    ASSUME NEW s PROVE Matrix!ToSet(s) = ToSet(s)
BY DEF Matrix!ToSet, ToSet

LEMMA SameMin ==
    ASSUME NEW S PROVE Matrix!Min(S) = Min(S) /\ Run!Min(S) = Min(S)
<1>1. Matrix!Min(S) = Min(S)  BY DEF Matrix!Min, Min
<1>2. Run!Min(S) = Min(S)  BY DEF Run!Min, Min
<1> QED BY <1>1, <1>2

LEMMA SameMax ==
    ASSUME NEW S PROVE Matrix!Max(S) = Max(S)
BY DEF Matrix!Max, Max

-----------------------------------------------------------------------------
(* The capacity assessment: requests issued are in flight or ended, and a  *)
(* launch that comes late is seen before the launcher next sleeps.         *)

LoadType ==
    /\ issued \in Nat /\ inFlight \in Nat /\ late \in Nat
    /\ ended \in [Capacity!Endings -> Nat]
    /\ enabled \in BOOLEAN /\ breached \in BOOLEAN /\ broken \in BOOLEAN

LoadInv ==
    /\ LoadType
    /\ breached => enabled
    /\ watcher = "sampling" => enabled
    /\ late <= 1
    /\ pc = "asleep" => late = 0
    /\ pc = "guard" /\ ~breached => late = 0
    /\ pc \in {"drained", "aborted"} => inFlight = 0
    /\ pc \in {"guard", "asleep", "drain", "drained"} =>
            Capacity!Samples + inFlight = issued
    /\ Capacity!Samples + inFlight <= issued
    /\ pc = "aborted" => enabled
    /\ broken => LoadPhases[phase] = "smoke"

LEMMA SamplesAreCounted ==
    LoadType => Capacity!Samples \in Nat
BY DEF LoadType, Capacity!Samples, Capacity!Endings

LEMMA NothingIsNone ==
    /\ Capacity!Nothing \in [Capacity!Endings -> Nat]
    /\ \A e \in Capacity!Endings : Capacity!Nothing[e] = 0
BY DEF Capacity!Nothing

LEMMA LoadInit == Capacity!Init => LoadInv
<1> SUFFICES ASSUME Capacity!Init PROVE LoadInv OBVIOUS
<1>1. /\ pc = "guard" /\ issued = 0 /\ inFlight = 0 /\ late = 0
      /\ ended = Capacity!Nothing /\ watcher = "watching"
      /\ enabled \in BOOLEAN /\ breached = FALSE /\ broken = FALSE
  BY DEF Capacity!Init
<1>2. ended \in [Capacity!Endings -> Nat] /\ Capacity!Samples = 0
  BY <1>1, NothingIsNone DEF Capacity!Samples, Capacity!Endings
<1>3. ~breached /\ ~broken /\ breached \in BOOLEAN /\ broken \in BOOLEAN
  BY <1>1
<1>4. LoadType  BY <1>1, <1>2, <1>3 DEF LoadType
<1> QED BY <1>1, <1>2, <1>3, <1>4 DEF LoadInv

LEMMA LoadBegin ==
    ASSUME LoadType, NEW next, Capacity!Begin(next), breached' \in BOOLEAN,
           broken' \in BOOLEAN,
           enabled' = enabled, breached' => enabled,
           broken' => LoadPhases[phase'] = "smoke"
    PROVE  LoadInv'
<1>1. /\ issued' = 0 /\ inFlight' = 0 /\ late' = 0 /\ ended' = Capacity!Nothing
      /\ watcher' = "watching" /\ pc' \in {"done", "guard"}
  BY DEF Capacity!Begin
<1>2. ended' \in [Capacity!Endings -> Nat] /\ Capacity!Samples' = 0
  BY <1>1, NothingIsNone DEF Capacity!Samples, Capacity!Endings
<1> QED BY <1>1, <1>2 DEF LoadInv, LoadType

LEMMA LoadFire ==
    ASSUME LoadInv, NEW e \in Capacity!Endings, Capacity!Fire(e)
    PROVE  LoadInv'
<1>1. /\ inFlight \in Nat /\ inFlight > 0 /\ inFlight' = inFlight - 1
      /\ ended' = [ended EXCEPT ![e] = ended[e] + 1]
      /\ pc \in {"asleep", "drain"}
      /\ UNCHANGED <<phase, pc, issued, enabled, watcher, last, breached, broken,
                   envelope, exit, late>>
  BY DEF LoadInv, LoadType, Capacity!Fire, Capacity!Running
<1>2. inFlight' \in Nat BY <1>1
<1>3. /\ ended' \in [Capacity!Endings -> Nat]
      /\ Capacity!Samples' = Capacity!Samples + 1
  BY <1>1 DEF LoadInv, LoadType, Capacity!Samples, Capacity!Endings
<1>4. Capacity!Samples \in Nat BY SamplesAreCounted DEF LoadInv
<1>5. Capacity!Samples' + inFlight' = Capacity!Samples + inFlight
  BY <1>1, <1>3, <1>4
<1> QED BY <1>1, <1>2, <1>3, <1>5 DEF LoadInv, LoadType

LEMMA LoadNext ==
    ASSUME LoadInv, Capacity!Next \/ UNCHANGED Capacity!vars
    PROVE  LoadInv'
<1>0. Capacity!Samples \in Nat BY SamplesAreCounted DEF LoadInv
<1>1. ASSUME NEW behind \in BOOLEAN, Capacity!Guard(behind) PROVE LoadInv'
  BY <1>0, <1>1
     DEF LoadInv, LoadType, Capacity!Guard, Capacity!Launched, Capacity!Samples
<1>2. CASE Capacity!Wake
  BY <1>0, <1>2
     DEF LoadInv, LoadType, Capacity!Wake, Capacity!Launched, Capacity!Samples
<1>3. CASE Capacity!TimeUp
  BY <1>3 DEF LoadInv, LoadType, Capacity!TimeUp, Capacity!Samples
<1>4. CASE Capacity!Abort
  BY <1>0, <1>4 DEF LoadInv, LoadType, Capacity!Abort, Capacity!Samples
<1>5. CASE Capacity!StartSample
  BY <1>5 DEF LoadInv, LoadType, Capacity!StartSample, Capacity!Samples
<1>6. CASE Capacity!Drained
  BY <1>6 DEF LoadInv, LoadType, Capacity!Drained, Capacity!Samples
<1>7. ASSUME NEW e \in Capacity!Endings, Capacity!Fire(e) PROVE LoadInv'
  BY <1>7, LoadFire
<1>8. ASSUME NEW reading, Capacity!Watch(reading) PROVE LoadInv'
  BY <1>8 DEF LoadInv, LoadType, Capacity!Watch, Capacity!Samples
<1>9. ASSUME NEW reading, Capacity!Leak(reading) PROVE LoadInv'
  <2>1. ~broken BY <1>9 DEF LoadInv, Capacity!Leak
  <2>2. /\ Capacity!Begin(Capacity!NextPhase)
        /\ UNCHANGED <<enabled, breached, broken>>
    BY <1>9 DEF Capacity!Leak
  <2>. HIDE DEF Capacity!NextPhase
  <2> QED BY <2>1, <2>2, LoadBegin DEF LoadInv, LoadType
<1>10. ASSUME NEW reading, Capacity!Recovered(reading) PROVE LoadInv'
  <2> DEFINE next == IF LoadPhases[phase] = "vrp" THEN {Capacity!First("matrix")} ELSE {}
  <2>1. Capacity!Begin(next) /\ UNCHANGED <<enabled, breached, broken>>
    BY <1>10 DEF Capacity!Recovered
  <2>2. broken => LoadPhases[phase'] = "smoke"
    <3>1. SUFFICES ASSUME broken PROVE phase' = phase BY DEF LoadInv
    <3>2. next = {} BY <3>1 DEF LoadInv
    <3> HIDE DEF next
    <3> QED BY <3>2, <2>1 DEF Capacity!Begin
  <2> HIDE DEF next
  <2> QED BY <2>1, <2>2, LoadBegin DEF LoadInv, LoadType
<1>11. ASSUME NEW reading, Capacity!NotRecovered(reading) PROVE LoadInv'
  BY <1>11 DEF LoadInv, LoadType, Capacity!NotRecovered, Capacity!Samples
<1>12. CASE Capacity!Smoke
  <2>1. broken' \in BOOLEAN BY <1>12 DEF Capacity!Smoke, LoadInv, LoadType
  <2>2. CASE broken' /\ LoadPhases[phase + 1] # "smoke"
    BY <1>12, <2>1, <2>2, <1>0
       DEF Capacity!Smoke, LoadInv, LoadType, Capacity!Samples,
           Capacity!PhaseIsOver
  <2>3. CASE ~(broken' /\ LoadPhases[phase + 1] # "smoke")
    <3>1. Capacity!Begin(Capacity!NextPhase) /\ UNCHANGED <<enabled, breached>>
      BY <1>12, <2>3 DEF Capacity!Smoke
    <3>2. broken' => LoadPhases[phase'] = "smoke"
      <4>1. SUFFICES ASSUME broken' PROVE LoadPhases[phase'] = "smoke" OBVIOUS
      <4>2. LoadPhases[phase + 1] = "smoke" /\ LoadPhases[phase] = "smoke"
        BY <4>1, <2>3, <1>12 DEF Capacity!Smoke
      <4>3. phase' = phase \/ phase' = phase + 1
        BY <3>1 DEF Capacity!Begin, Capacity!NextPhase
      <4> QED BY <4>2, <4>3
    <3> HIDE DEF Capacity!NextPhase
    <3> QED BY <2>1, <3>1, <3>2, LoadBegin DEF LoadInv, LoadType
  <2> QED BY <2>2, <2>3
<1>13. CASE Capacity!Ramp
  <2> DEFINE next == IF Capacity!Knee THEN {Capacity!First("vrp")} ELSE Capacity!NextPhase
  <2>1. ~broken BY <1>13 DEF LoadInv, Capacity!Ramp
  <2>2. Capacity!Begin(next) /\ UNCHANGED <<enabled, breached, broken>>
    BY <1>13 DEF Capacity!Ramp
  <2> HIDE DEF next
  <2> QED BY <2>1, <2>2, LoadBegin DEF LoadInv, LoadType
<1>14. CASE Capacity!Ladder
  <2>1. ~broken BY <1>14 DEF LoadInv, Capacity!Ladder
  <2>2. CASE Capacity!Aborted
    BY <2>1, <2>2, <1>14, <1>0
       DEF LoadInv, LoadType, Capacity!Ladder, Capacity!Samples
  <2>3. CASE ~Capacity!Aborted
    <3>1. /\ Capacity!Begin(Capacity!NextPhase)
          /\ UNCHANGED <<enabled, breached, broken>>
      BY <1>14, <2>3 DEF Capacity!Ladder
    <3> HIDE DEF Capacity!NextPhase
    <3> QED BY <2>1, <3>1, LoadBegin DEF LoadInv, LoadType
  <2> QED BY <2>2, <2>3
<1>15. CASE UNCHANGED Capacity!vars
  BY <1>15 DEF LoadInv, LoadType, Capacity!vars, Capacity!Samples
<1> QED
  BY <1>1, <1>2, <1>3, <1>4, <1>5, <1>6, <1>7, <1>8, <1>9, <1>10, <1>11, <1>12,
     <1>13, <1>14, <1>15
     DEF Capacity!Next, Capacity!Done

LEMMA LoadGuard == LoadInv => Capacity!GuardIsKept
<1> SUFFICES ASSUME LoadInv PROVE Capacity!GuardIsKept OBVIOUS
<1>1. Capacity!Samples \in Nat BY SamplesAreCounted DEF LoadInv
<1>2. pc = "drained" => Capacity!Samples = issued
  BY <1>1 DEF LoadInv, LoadType
<1> QED BY <1>2 DEF LoadInv, Capacity!GuardIsKept, Capacity!PhaseIsOver

-----------------------------------------------------------------------------
(* The run record: the snapshot in hand is sealed, what was published is   *)
(* the improving part of what was tried, and each record is of its input.  *)

Trials(input) == RunSearch(input.problem, input.config)
Breaches(input) == Run!ViolationsOf(RunReport(input.problem, input.config))
Improvement == [iteration : Nat, elapsed : Int, objective : Int]
Spoken(line) == [k \in DOMAIN line |-> <<line[k].iteration, line[k].objective>>]

(* g holds the incumbents after each of the first n trials.               *)
Filters(g, trials, n) ==
    /\ g[0] = <<>>
    /\ \A k \in 1..n :
        g[k] = IF g[k - 1] = <<>> \/ trials[k][2] < g[k - 1][Len(g[k - 1])][2]
               THEN Append(g[k - 1], trials[k]) ELSE g[k - 1]
Filtered(line, trials, n) ==
    \E g \in [0..n -> Seq(Run!Trial)] : Filters(g, trials, n) /\ Spoken(line) = g[n]

IsRecordOf(record, input) ==
    /\ record.of = Run!Digest(input) /\ record.config = input.config
    /\ record.iterations = Len(Trials(input))
    /\ record.violations = Breaches(input)
    /\ record.trajectory \in Seq(Improvement)
    /\ Filtered(record.trajectory, Trials(input), Len(Trials(input)))
    /\ record.hits \in Nat /\ record.lookups \in Nat
    /\ record.hits <= record.lookups

IsRecord(record) == \E input \in RunInputs : IsRecordOf(record, input)

Falls(line) ==
    \A k \in 2..Len(line) : /\ line[k].objective < line[k - 1].objective
                            /\ line[k].elapsed >= line[k - 1].elapsed

(* What has been tried so far has been no better than the incumbent.       *)
IsBest(line, trials, n) ==
    /\ n = 0 => line = <<>>
    /\ n > 0 => /\ line # <<>>
                /\ \A k \in 1..n : line[Len(line)].objective <= trials[k][2]
                /\ \E k \in 1..n : line[Len(line)].objective = trials[k][2]

StagesAre == {"planned", "running", "recorded", "written", "replaying",
              "replayed", "tampered"}
Copies == [payload : RunInputs, digest : {Run!Digest(i) : i \in RunInputs}]
RunType ==
    /\ caller \in RunInputs /\ stage \in StagesAre
    /\ clock \in Nat /\ began \in Nat /\ began <= clock
    /\ trajectory \in Seq(Improvement)

Underway ==
    stage # "planned" =>
        /\ held \in Copies /\ held.digest = Run!Digest(held.payload)
        /\ step \in 1..(Len(Trials(held.payload)) + 1)
        /\ Filtered(trajectory, Trials(held.payload), step - 1)
        /\ IsBest(trajectory, Trials(held.payload), step - 1)
        /\ stage \in {"recorded", "written", "replayed"} =>
                step = Len(Trials(held.payload)) + 1

Clocked ==
    /\ Falls(trajectory)
    /\ \A k \in DOMAIN trajectory : trajectory[k].elapsed <= clock - began

RecordsKept ==
    /\ stage \in {"planned", "running"} => records = <<>>
    /\ stage \in {"recorded", "written", "tampered", "replaying"} =>
            \E r : IsRecord(r) /\ records = <<r>>
    /\ stage = "replayed" => \E r, s : IsRecord(r) /\ IsRecord(s) /\ records = <<r, s>>

Filed == file \subseteq Copies

RunInv == RunType /\ Underway /\ Clocked /\ RecordsKept /\ Filed

-----------------------------------------------------------------------------

LEMMA DigestIsInjective ==
    ASSUME NEW a, NEW b, Run!Digest(a) = Run!Digest(b) PROVE a = b
BY DEF Run!Digest

LEMMA FiltersAgree ==
    ASSUME NEW n \in Nat, NEW trials, NEW f, NEW g, Filters(f, trials, n),
           Filters(g, trials, n)
    PROVE  f[n] = g[n]
<1> DEFINE Bad == {k \in 0..n : f[k] # g[k]}
<1>1. SUFFICES ASSUME Bad # {} PROVE FALSE  OBVIOUS
<1>2. PICK k \in Bad : \A m \in Bad : k <= m
  <2>1. Bad \subseteq Nat  OBVIOUS
  <2> HIDE DEF Bad
  <2> QED BY <1>1, <2>1, LeastElement
<1>3. k # 0 BY <1>2 DEF Filters
<1>4. k \in 1..n /\ k - 1 \in 0..n /\ k - 1 \notin Bad BY <1>2, <1>3
<1>5. f[k - 1] = g[k - 1] BY <1>4
<1>6. f[k] = g[k] BY <1>4, <1>5 DEF Filters
<1> QED BY <1>6, <1>2

LEMMA RecordsAgree ==
    ASSUME NEW input \in RunInputs, NEW other \in RunInputs, NEW r, NEW s,
           IsRecordOf(r, input),
           IsRecordOf(s, other), r.of = s.of, Run!RunsAreKnown
    PROVE  Run!Replayable(r) = Run!Replayable(s)
<1>1. input = other BY DigestIsInjective DEF IsRecordOf
<1> DEFINE n == Len(Trials(input))
<1>2. n \in Nat BY DEF Run!RunsAreKnown, Trials
<1>3. PICK f : Filters(f, Trials(input), n) /\ Spoken(r.trajectory) = f[n]
  BY DEF IsRecordOf, Filtered
<1>4. PICK g : Filters(g, Trials(input), n) /\ Spoken(s.trajectory) = g[n]
  BY <1>1 DEF IsRecordOf, Filtered
<1>5. Spoken(r.trajectory) = Spoken(s.trajectory)
  <2> HIDE DEF n
  <2> QED BY <1>2, <1>3, <1>4, FiltersAgree
<1> QED BY <1>1, <1>5 DEF IsRecordOf, Run!Replayable, Spoken

LEMMA FilteredStep ==
    ASSUME NEW line \in Seq(Improvement), NEW n \in Nat,
           NEW trials \in Seq(Run!Trial), n + 1 <= Len(trials),
           Filtered(line, trials, n), NEW t \in Int,
           NEW more,
           more = IF line = <<>> \/ trials[n + 1][2] < line[Len(line)].objective
                  THEN Append(line, [iteration |-> trials[n + 1][1],
                                     elapsed |-> t,
                                     objective |-> trials[n + 1][2]])
                  ELSE line
    PROVE  more \in Seq(Improvement) /\ Filtered(more, trials, n + 1)
<1> DEFINE try == trials[n + 1]
           new == [iteration |-> try[1], elapsed |-> t, objective |-> try[2]]
<1>1. try \in Run!Trial OBVIOUS
<1>2. try = <<try[1], try[2]>> /\ try[1] \in Nat /\ try[2] \in Int
  BY <1>1 DEF Run!Trial
<1>3. new \in Improvement BY <1>2 DEF Improvement
<1>4. PICK g \in [0..n -> Seq(Run!Trial)] : Filters(g, trials, n) /\ Spoken(line) = g[n]
  BY DEF Filtered
<1>5. g[n] \in Seq(Run!Trial) OBVIOUS
<1>6. Len(g[n]) = Len(line) /\ DOMAIN g[n] = DOMAIN line
  BY <1>4, <1>5 DEF Spoken
<1>7. line # <<>> => g[n][Len(g[n])][2] = line[Len(line)].objective /\ g[n] # <<>>
  <2> SUFFICES ASSUME line # <<>>
               PROVE  /\ g[n][Len(g[n])][2] = line[Len(line)].objective
                      /\ g[n] # <<>>
    OBVIOUS
  <2>1. Len(line) \in DOMAIN line  OBVIOUS
  <2>2. g[n][Len(line)] = <<line[Len(line)].iteration, line[Len(line)].objective>>
    BY <2>1, <1>4 DEF Spoken
  <2>3. g[n] # <<>>  BY <2>1, <1>6
  <2> QED BY <2>2, <2>3, <1>6
<1>8. line = <<>> => g[n] = <<>>
  BY <1>5, <1>6
<1> DEFINE better == line = <<>> \/ try[2] < line[Len(line)].objective
           next == IF better THEN Append(g[n], try) ELSE g[n]
           h == [k \in 0..(n + 1) |-> IF k = n + 1 THEN next ELSE g[k]]
<1>9. next = IF g[n] = <<>> \/ try[2] < g[n][Len(g[n])][2]
             THEN Append(g[n], try) ELSE g[n]
  BY <1>7, <1>8
<1>10. next \in Seq(Run!Trial)
  <2> HIDE DEF try
  <2> QED BY <1>1, <1>5
<1>11. more \in Seq(Improvement)
  <2>1. more = IF better THEN Append(line, new) ELSE line OBVIOUS
  <2> HIDE DEF new, better
  <2> QED BY <2>1, <1>3
<1>12. Spoken(more) = next
  <2>1. CASE ~better BY <2>1, <1>4
  <2>2. CASE better
    <3>1. more = Append(line, new) BY <2>2
    <3>2. next = Append(g[n], try) BY <2>2
    <3>3. DOMAIN more = 1..(Len(line) + 1) /\ DOMAIN next = 1..(Len(line) + 1)
      <4> HIDE DEF new, try, next
      <4> QED BY <3>1, <3>2, <1>1, <1>3, <1>5, <1>6
    <3>4. ASSUME NEW k \in 1..(Len(line) + 1)
          PROVE  next[k] = <<more[k].iteration, more[k].objective>>
      <4>1. CASE k = Len(line) + 1
        <5>1. more[k] = new
          <6> HIDE DEF new
          <6> QED BY <4>1, <3>1, <1>3
        <5>2. next[k] = try
          <6> HIDE DEF try, next
          <6> DEFINE was == g[n]
          <6>1. /\ next = Append(was, try) /\ was \in Seq(Run!Trial)
                /\ k = Len(was) + 1
            BY <3>2, <1>5, <1>6, <4>1
          <6> HIDE DEF was
          <6> QED BY <6>1, <1>1, AppendAt
        <5>3. more[k].iteration = try[1] /\ more[k].objective = try[2]  BY <5>1
        <5> HIDE DEF next, try
        <5> QED BY <5>2, <5>3, <1>2
      <4>2. CASE k # Len(line) + 1
        <5>0. k \in 1..Len(line) BY <4>2
        <5>1. more[k] = line[k]
          <6> HIDE DEF new
          <6> QED BY <5>0, <3>1, <1>3
        <5>2. next[k] = g[n][k]
          <6> HIDE DEF try, next
          <6> QED BY <5>0, <3>2, <1>1, <1>5, <1>6
        <5> QED BY <5>0, <5>1, <5>2, <1>4 DEF Spoken
      <4> QED BY <4>1, <4>2
    <3>5. Spoken(more) = [k \in 1..(Len(line) + 1) |-> <<more[k].iteration, more[k].objective>>]
      BY <3>3 DEF Spoken
    <3>6. next = [k \in 1..(Len(line) + 1) |-> next[k]]
      <4> HIDE DEF next
      <4> QED BY <3>3, <1>10
    <3> HIDE DEF next
    <3> QED BY <3>4, <3>5, <3>6
  <2> QED BY <2>1, <2>2
<1>13. h \in [0..(n + 1) -> Seq(Run!Trial)]
  <2> HIDE DEF next
  <2> QED BY <1>10
<1>14. Filters(h, trials, n + 1)
  <2>1. h[0] = <<>> BY <1>4 DEF Filters
  <2>2. ASSUME NEW k \in 1..(n + 1)
        PROVE  h[k] = IF h[k - 1] = <<>> \/ trials[k][2] < h[k - 1][Len(h[k - 1])][2]
                      THEN Append(h[k - 1], trials[k]) ELSE h[k - 1]
    <3>1. CASE k = n + 1
      <4>1. h[k] = next /\ h[k - 1] = g[n] BY <3>1
      <4> HIDE DEF h, next
      <4> QED BY <4>1, <3>1, <1>9
    <3>2. CASE k # n + 1
      <4>1. k \in 1..n /\ h[k] = g[k] /\ h[k - 1] = g[k - 1] BY <3>2
      <4> HIDE DEF h
      <4> QED BY <4>1, <1>4 DEF Filters
    <3> QED BY <3>1, <3>2
  <2> HIDE DEF h
  <2> QED BY <2>1, <2>2 DEF Filters
<1>15. h[n + 1] = next OBVIOUS
<1> HIDE DEF h, next
<1> QED BY <1>11, <1>12, <1>13, <1>14, <1>15 DEF Filtered

LEMMA BestStep ==
    ASSUME NEW line \in Seq(Improvement), NEW n \in Nat,
           NEW trials \in Seq(Run!Trial), n + 1 <= Len(trials),
           IsBest(line, trials, n), Falls(line), NEW t \in Int,
           \A k \in DOMAIN line : line[k].elapsed <= t,
           NEW more,
           more = IF line = <<>> \/ trials[n + 1][2] < line[Len(line)].objective
                  THEN Append(line, [iteration |-> trials[n + 1][1],
                                     elapsed |-> t,
                                     objective |-> trials[n + 1][2]])
                  ELSE line
    PROVE  /\ IsBest(more, trials, n + 1) /\ Falls(more)
           /\ \A k \in DOMAIN more : more[k].elapsed <= t
<1> DEFINE try == trials[n + 1]
           new == [iteration |-> try[1], elapsed |-> t, objective |-> try[2]]
<1>1. try \in Run!Trial OBVIOUS
<1>2. try[1] \in Nat /\ try[2] \in Int BY <1>1 DEF Run!Trial
<1>3. new \in Improvement /\ new.objective = try[2] /\ new.elapsed = t
  BY <1>2 DEF Improvement
<1>4. \A k \in DOMAIN line : line[k].objective \in Int /\ line[k].elapsed \in Int
  <2>1. \A k \in DOMAIN line : line[k] \in Improvement  OBVIOUS
  <2> QED BY <2>1 DEF Improvement
<1>5. \A k \in 1..n : trials[k][2] \in Int
  <2> SUFFICES ASSUME NEW k \in 1..n PROVE trials[k][2] \in Int OBVIOUS
  <2>1. trials[k] \in Run!Trial OBVIOUS
  <2> QED BY <2>1 DEF Run!Trial
<1>6. CASE line # <<>> /\ ~(try[2] < line[Len(line)].objective)
  <2>1. more = line BY <1>6
  <2>2. line[Len(line)].objective <= try[2] BY <1>6, <1>2, <1>4
  <2>3. n > 0 /\ n + 1 > 0 BY <1>6 DEF IsBest
  <2>4. \A k \in 1..(n + 1) : k \in 1..n \/ k = n + 1  OBVIOUS
  <2>5. \A k \in 1..(n + 1) : line[Len(line)].objective <= trials[k][2]
    BY <2>2, <2>3, <2>4 DEF IsBest
  <2>6. \E k \in 1..(n + 1) : line[Len(line)].objective = trials[k][2]
    BY <2>3 DEF IsBest
  <2>7. IsBest(line, trials, n + 1)
    BY <2>3, <2>5, <2>6, <1>6 DEF IsBest
  <2> QED BY <2>1, <2>7
<1>7. CASE line = <<>> \/ try[2] < line[Len(line)].objective
  <2>1. more = Append(line, new) BY <1>7
  <2> DEFINE m == Len(line)
  <2>2. /\ m \in Nat /\ DOMAIN line = 1..m /\ DOMAIN more = 1..(m + 1)
        /\ Len(more) = m + 1
        /\ more[m + 1] = new /\ \A k \in 1..m : more[k] = line[k]
    <3> HIDE DEF new
    <3> QED BY <2>1, <1>3
  <2>3. more # <<>> BY <2>2
  <2>4. \A k \in 1..n : try[2] <= trials[k][2]
    <3> SUFFICES ASSUME NEW k \in 1..n PROVE try[2] <= trials[k][2] OBVIOUS
    <3>1. line # <<>> /\ line[m].objective <= trials[k][2] BY DEF IsBest
    <3>2. m \in DOMAIN line BY <3>1
    <3>3. try[2] < line[m].objective BY <3>1, <1>7
    <3> HIDE DEF try, m
    <3>4. PICK low : low = line[m].objective  OBVIOUS
    <3>5. PICK offer : offer = try[2]  OBVIOUS
    <3>6. PICK tried : tried = trials[k][2]  OBVIOUS
    <3>7. low \in Int /\ offer \in Int /\ tried \in Int
      BY <3>2, <3>4, <3>5, <3>6, <1>2, <1>4, <1>5
    <3>8. low <= tried /\ offer < low
      BY <3>1, <3>3, <3>4, <3>5, <3>6, Zenon
    <3>9. offer <= tried  BY ONLY <3>7, <3>8
    <3> QED BY <3>5, <3>6, <3>9, Zenon
  <2>5. IsBest(more, trials, n + 1)
    <3>1. more[Len(more)].objective = try[2] BY <2>2, <1>3
    <3>2. \A k \in 1..(n + 1) : k \in 1..n \/ k = n + 1 OBVIOUS
    <3>3. \A k \in 1..(n + 1) : try[2] <= trials[k][2] BY <3>2, <2>4, <1>2
    <3>4. n + 1 \in 1..(n + 1) OBVIOUS
    <3>5. PICK ending : ending = more[Len(more)].objective  OBVIOUS
    <3>6. \A k \in 1..(n + 1) : ending <= trials[k][2]  BY <3>1, <3>3, <3>5, Zenon
    <3>7. ending = trials[n + 1][2]  BY <3>1, <3>5, Zenon
    <3>8. n + 1 > 0 /\ n + 1 # 0  OBVIOUS
    <3> HIDE DEF try, new, m
    <3> QED BY <2>3, <3>4, <3>5, <3>6, <3>7, <3>8, Zenon DEF IsBest
  <2>6. \A k \in DOMAIN more : more[k].elapsed <= t
    <3> HIDE DEF new
    <3> QED BY <2>2, <1>3
  <2>7. Falls(more)
    <3> SUFFICES ASSUME NEW k \in 2..(m + 1)
                 PROVE  more[k].objective < more[k - 1].objective
                        /\ more[k].elapsed >= more[k - 1].elapsed
      BY <2>2 DEF Falls
    <3>1. CASE k = m + 1
      <4>1. k - 1 = m /\ m \in 1..m /\ line # <<>> BY <3>1
      <4>2. more[k] = new /\ more[k - 1] = line[m] BY <3>1, <4>1, <2>2
      <4>3. try[2] < line[m].objective /\ line[m].elapsed <= t BY <4>1, <1>7
      <4> QED BY <4>2, <4>3, <1>3, <4>1, <1>4
    <3>2. CASE k # m + 1
      <4>1. k \in 2..m /\ k \in 1..m /\ k - 1 \in 1..m BY <3>2, <2>2
      <4>2. more[k] = line[k] /\ more[k - 1] = line[k - 1] BY <4>1, <2>2
      <4> QED BY <4>1, <4>2 DEF Falls
    <3> QED BY <3>1, <3>2
  <2> QED BY <2>5, <2>6, <2>7
<1> QED BY <1>6, <1>7

LEMMA TrialsAreSeq ==
    ASSUME Run!RunsAreKnown, NEW input \in RunInputs
    PROVE  /\ Trials(input) \in Seq(Run!Trial)
           /\ Len(Trials(input)) \in Nat \ {0}
BY DEF Run!RunsAreKnown, Trials

LEMMA RunInit == Run!RunsAreKnown /\ Run!Init => RunInv
<1> SUFFICES ASSUME Run!RunsAreKnown, Run!Init PROVE RunInv OBVIOUS
<1>1. /\ caller \in RunInputs /\ file = {} /\ stage = "planned"
      /\ clock \in Nat
      /\ began = clock /\ trajectory = <<>> /\ records = <<>>
  BY DEF Run!Init, Run!RunsAreKnown
<1>2. RunType  BY <1>1 DEF RunType, StagesAre
<1>3. Clocked  BY <1>1 DEF Clocked, Falls
<1>4. Underway /\ RecordsKept /\ Filed
  BY <1>1 DEF Underway, RecordsKept, Filed
<1> QED BY <1>2, <1>3, <1>4 DEF RunInv

LEMMA RunStart ==
    ASSUME Run!RunsAreKnown, RunInv, NEW input \in RunInputs,
           NEW next \in {"running", "replaying"},
           held' = Run!Sealed(input), Run!Start(next),
           UNCHANGED <<caller, file, clock, records>>,
           next = "running" => stage = "planned",
           next = "replaying" => stage = "written"
    PROVE  RunInv'
<1>1. /\ stage' = next /\ step' = 1 /\ trajectory' = <<>> /\ began' = clock
      /\ clock' = clock
      /\ caller' = caller /\ file' = file /\ records' = records
      /\ held' = [payload |-> input, digest |-> Run!Digest(input)]
  BY DEF Run!Start, Run!Sealed
<1>2. RunType' BY <1>1 DEF RunInv, RunType, StagesAre
<1>3. Filtered(<<>>, Trials(input), 0)
  <2>1. [k \in 0..0 |-> <<>>] \in [0..0 -> Seq(Run!Trial)] OBVIOUS
  <2>2. Filters([k \in 0..0 |-> <<>>], Trials(input), 0) BY DEF Filters
  <2>3. Spoken(<<>>) = <<>> BY DEF Spoken
  <2> QED BY <2>1, <2>2, <2>3 DEF Filtered
<1>4. IsBest(<<>>, Trials(input), 0) BY DEF IsBest
<1>5. Underway'
  <2>1. Len(Trials(input)) \in Nat BY TrialsAreSeq
  <2>2. held'.payload = input /\ held'.digest = Run!Digest(input) BY <1>1
  <2>3. held' \in Copies BY <1>1 DEF Copies
  <2> QED BY <1>1, <1>3, <1>4, <2>1, <2>2, <2>3 DEF Underway
<1>6. Clocked' BY <1>1 DEF Clocked, Falls
<1>7. RecordsKept' BY <1>1 DEF RunInv, RecordsKept
<1>8. Filed' BY <1>1 DEF RunInv, Filed
<1> QED BY <1>2, <1>5, <1>6, <1>7, <1>8 DEF RunInv

LEMMA RunImproved ==
    ASSUME Run!RunsAreKnown, RunInv, Run!Improved
    PROVE  RunInv'
<1> DEFINE input == held.payload
           try == Run!Trail[step]
           line == trajectory
<1>1. /\ stage \in {"running", "replaying"} /\ step <= Len(Run!Trail)
      /\ clock' \in RunTicks /\ clock' >= clock
      /\ trajectory' = IF line = <<>> \/ try[2] < line[Len(line)].objective
                       THEN Append(line, [iteration |-> try[1], elapsed |-> clock' - began,
                                          objective |-> try[2]])
                       ELSE line
      /\ step' = step + 1
      /\ UNCHANGED <<caller, held, file, stage, began, records>>
  BY DEF Run!Improved, Run!Better
<1>2. input \in RunInputs /\ Run!Trail = Trials(input)
  BY <1>1 DEF RunInv, Underway, Copies, Run!Trail, Run!Snapshot, Trials
<1>3. Run!Trail \in Seq(Run!Trial) /\ Len(Run!Trail) \in Nat
  BY <1>2, TrialsAreSeq
<1>4. /\ step \in 1..Len(Run!Trail) /\ Filtered(line, Run!Trail, step - 1)
      /\ IsBest(line, Run!Trail, step - 1)
      /\ line \in Seq(Improvement) /\ Falls(line) /\ clock' \in Nat
      /\ began \in Nat /\ began <= clock' /\ clock \in Nat
      /\ \A k \in DOMAIN line : line[k].elapsed <= clock - began
  <2>1. step \in 1..(Len(Run!Trail) + 1)  BY <1>1, <1>2 DEF RunInv, Underway
  <2>2. step \in 1..Len(Run!Trail)  BY <2>1, <1>1, <1>3
  <2>3. /\ Filtered(line, Run!Trail, step - 1)
        /\ IsBest(line, Run!Trail, step - 1)
    BY <1>1, <1>2 DEF RunInv, Underway
  <2>4. /\ line \in Seq(Improvement) /\ began \in Nat /\ clock \in Nat
        /\ began <= clock
    BY DEF RunInv, RunType
  <2>5. clock' \in Nat  BY <1>1 DEF Run!RunsAreKnown
  <2>7. began <= clock'  BY <1>1, <2>4, <2>5
  <2>6. Falls(line) /\ \A k \in DOMAIN line : line[k].elapsed <= clock - began
    BY DEF RunInv, Clocked
  <2> HIDE DEF line
  <2> QED BY <2>2, <2>3, <2>4, <2>5, <2>6, <2>7
<1> DEFINE n == step - 1
           t == clock' - began
<1>5. n \in Nat /\ n + 1 <= Len(Run!Trail) /\ n + 1 = step /\ t \in Int
  BY <1>3, <1>4
<1>6. \A k \in DOMAIN line : line[k].elapsed <= t
  <2>1. \A k \in DOMAIN line : line[k] \in Improvement BY <1>4
  <2>2. \A k \in DOMAIN line : line[k].elapsed \in Int BY <2>1 DEF Improvement
  <2> QED BY <1>4, <1>1, <2>2
<1> HIDE DEF n, t, line, input
<1>7. trajectory' = IF line = <<>> \/ Run!Trail[n + 1][2] < line[Len(line)].objective
                       THEN Append(line, [iteration |-> Run!Trail[n + 1][1], elapsed |-> t,
                                          objective |-> Run!Trail[n + 1][2]])
                       ELSE line
  BY <1>1, <1>5 DEF t
<1>8. /\ trajectory' \in Seq(Improvement)
      /\ Filtered(trajectory', Run!Trail, n + 1)
  BY <1>3, <1>4, <1>5, <1>7, FilteredStep DEF n
<1>9. /\ IsBest(trajectory', Run!Trail, n + 1) /\ Falls(trajectory')
      /\ \A k \in DOMAIN trajectory' : trajectory'[k].elapsed <= t
  BY <1>3, <1>4, <1>5, <1>6, <1>7, BestStep DEF n
<1>10. RunType' BY <1>1, <1>4, <1>8 DEF RunInv, RunType
<1>11. Underway'
  <2>1. step' = n + 2 /\ step' - 1 = n + 1 /\ step' \in 1..(Len(Run!Trail) + 1)
    BY <1>1, <1>3, <1>5, <1>4
  <2>2. /\ held' \in Copies /\ held'.payload = input
        /\ held'.digest = Run!Digest(input) /\ stage' = stage
    BY <1>1 DEF input, RunInv, Underway
  <2> QED BY <1>1, <1>2, <1>8, <1>9, <2>1, <2>2 DEF Underway
<1>12. Clocked' BY <1>1, <1>9 DEF Clocked, t
<1>13. RecordsKept' BY <1>1 DEF RunInv, RecordsKept
<1>14. Filed' BY <1>1 DEF RunInv, Filed
<1> QED BY <1>10, <1>11, <1>12, <1>13, <1>14 DEF RunInv

LEMMA RunFinish ==
    ASSUME Run!RunsAreKnown, RunInv, NEW hits \in RunHits, Run!Finish(hits)
    PROVE  RunInv'
<1> DEFINE input == held.payload
           new == [ of |-> held.digest, config |-> Run!Snapshot.config,
              iterations |-> Len(Run!Trail),
              trajectory |-> trajectory,
              violations |-> Run!ViolationsOf(RunReport(Run!Snapshot.problem,
                                                 Run!Snapshot.config)),
              hits |-> hits.hits, lookups |-> hits.hits + hits.misses ]
<1>1. /\ stage \in {"running", "replaying"} /\ step > Len(Run!Trail)
      /\ records' = Append(records, new)
      /\ stage' = IF stage = "running" THEN "recorded" ELSE "replayed"
      /\ UNCHANGED <<caller, held, file, step, clock, began, trajectory>>
  BY DEF Run!Finish
<1>2. /\ input \in RunInputs /\ held.digest = Run!Digest(input)
      /\ Run!Trail = Trials(input)
  BY <1>1 DEF RunInv, Underway, Copies, Run!Trail, Run!Snapshot, Trials
<1>3. Len(Run!Trail) \in Nat /\ step = Len(Run!Trail) + 1
  BY <1>1, <1>2, TrialsAreSeq DEF RunInv, Underway
<1>4. IsRecordOf(new, input)
  <2>1. Filtered(trajectory, Trials(input), Len(Trials(input)))
    BY <1>1, <1>2, <1>3 DEF RunInv, Underway
  <2>2. new.violations = Breaches(input) BY DEF Breaches, Run!Snapshot
  <2>3. hits.hits \in Nat /\ hits.misses \in Nat BY DEF Run!RunsAreKnown
  <2>4. new.lookups \in Nat /\ new.hits \in Nat /\ new.hits <= new.lookups
    BY <2>3
  <2>5. new.trajectory = trajectory /\ trajectory \in Seq(Improvement)
    BY DEF RunInv, RunType
  <2>6. /\ new.of = Run!Digest(input) /\ new.config = input.config
        /\ new.iterations = Len(Trials(input))
    BY <1>2 DEF Run!Snapshot
  <2> HIDE DEF new, input
  <2> QED BY <2>1, <2>2, <2>3, <2>4, <2>5, <2>6 DEF IsRecordOf
<1> HIDE DEF new
<1>5. IsRecord(new) BY <1>2, <1>4 DEF IsRecord
<1>6. RunType' BY <1>1 DEF RunInv, RunType, StagesAre
<1>7. Underway' BY <1>1, <1>2, <1>3 DEF RunInv, Underway
<1>8. Clocked' BY <1>1 DEF RunInv, Clocked
<1>9. Filed' BY <1>1 DEF RunInv, Filed
<1>10. RecordsKept'
  <2>1. CASE stage = "running"
    <3>1. records' = <<new>> BY <1>1, <2>1 DEF RunInv, RecordsKept
    <3> QED BY <1>1, <1>5, <2>1, <3>1 DEF RecordsKept
  <2>2. CASE stage = "replaying"
    <3>1. PICK r : IsRecord(r) /\ records = <<r>>
      BY <2>2 DEF RunInv, RecordsKept
    <3>2. records' = <<r, new>> BY <1>1, <3>1, SecondOf
    <3> QED BY <1>1, <1>5, <2>2, <3>1, <3>2 DEF RecordsKept
  <2> QED BY <2>1, <2>2, <1>1
<1> QED BY <1>6, <1>7, <1>8, <1>9, <1>10 DEF RunInv

LEMMA RunNext ==
    ASSUME Run!RunsAreKnown, RunInv, Run!Next \/ UNCHANGED Run!vars
    PROVE  RunInv'
<1>1. CASE Run!Capture
  <2>1. caller \in RunInputs BY DEF RunInv, RunType
  <2> QED BY <1>1, <2>1, RunStart DEF Run!Capture
<1>2. CASE Run!Mutate
  BY <1>2
     DEF Run!Mutate, RunInv, RunType, Underway, Clocked, RecordsKept, Filed
<1>3. CASE Run!Improved BY <1>3, RunImproved
<1>4. CASE Run!Write
  <2>1. held \in Copies BY <1>4 DEF Run!Write, RunInv, Underway
  <2>2. Filed' BY <1>4, <2>1 DEF Run!Write, Filed
  <2> QED
    BY <1>4, <2>2
       DEF Run!Write, RunInv, RunType, Underway, Clocked, RecordsKept,
           StagesAre
<1>5. CASE Run!Edit
  <2>1. PICK was \in file, other \in RunInputs :
            \/ file' = {[was EXCEPT !.payload = other]}
            \/ file' = {[was EXCEPT !.digest = Run!Digest(other)]}
    BY <1>5 DEF Run!Edit
  <2>2. was \in Copies BY DEF RunInv, Filed
  <2>3. [was EXCEPT !.payload = other] \in Copies BY <2>2 DEF Copies
  <2>4. [was EXCEPT !.digest = Run!Digest(other)] \in Copies BY <2>2 DEF Copies
  <2>5. Filed' BY <2>1, <2>3, <2>4 DEF Filed
  <2> QED
    BY <2>5, <1>5 DEF Run!Edit, RunInv, RunType, Underway, Clocked, RecordsKept
<1>6. CASE Run!Read
  <2>1. PICK found \in file :
            IF Run!Digest(found.payload) # found.digest
            THEN /\ stage' = "tampered"
                 /\ UNCHANGED <<held, step, began, trajectory>>
            ELSE held' = found /\ Run!Start("replaying")
    BY <1>6 DEF Run!Read
  <2>2. /\ found \in Copies /\ stage = "written"
        /\ UNCHANGED <<caller, file, clock, records>>
    BY <1>6 DEF Run!Read, RunInv, Filed
  <2>3. CASE Run!Digest(found.payload) # found.digest
    <3>1. stage' = "tampered" /\ UNCHANGED <<held, step, began, trajectory>>
      BY <2>1, <2>3
    <3>2. /\ stage' # "planned"
          /\ stage' \notin {"recorded", "written", "replayed"}
      BY <3>1
    <3>3. Underway' BY <2>2, <3>1, <3>2 DEF RunInv, Underway
    <3>4. RecordsKept' BY <2>2, <3>1 DEF RunInv, RecordsKept
    <3> QED
      BY <2>2, <3>1, <3>3, <3>4 DEF RunInv, RunType, Clocked, Filed, StagesAre
  <2>4. CASE Run!Digest(found.payload) = found.digest
    <3>1. held' = found /\ Run!Start("replaying") BY <2>1, <2>4
    <3>2. found.payload \in RunInputs /\ found = Run!Sealed(found.payload)
      BY <2>2, <2>4 DEF Copies, Run!Sealed
    <3> DEFINE input == found.payload
    <3>3. held' = Run!Sealed(input) /\ input \in RunInputs BY <3>1, <3>2
    <3> HIDE DEF input
    <3> QED BY <3>1, <3>3, <2>2, RunStart
  <2> QED BY <2>3, <2>4
<1>7. CASE UNCHANGED Run!vars
  BY <1>7 DEF Run!vars, RunInv, RunType, Underway, Clocked, RecordsKept, Filed
<1>8. ASSUME NEW hits \in RunHits, Run!Finish(hits) PROVE RunInv'
  BY <1>8, RunFinish
<1> QED
  BY <1>1, <1>2, <1>3, <1>4, <1>5, <1>6, <1>7, <1>8 DEF Run!Next, Run!Ended


LEMMA RateIsOne ==
    ASSUME NEW h \in Nat, NEW l \in Nat, h <= l, NEW p \in Nat
    PROVE  (IF l <= 0 THEN 0 ELSE (h * p) \div l) \in 0..p
<1>1. CASE l <= 0 BY <1>1
<1>2. CASE l > 0
  <2>1. h * p \in Nat /\ h * p <= l * p BY SMT
  <2> DEFINE q == (h * p) \div l
             r == (h * p) % l
  <2>2. q \in Int /\ r \in Nat /\ h * p = l * q + r /\ r < l BY <1>2, <2>1
  <2> HIDE DEF q, r
  <2>3. q >= 0
    <3>1. ASSUME q <= -1 PROVE FALSE
      <4>1. l * q <= -l BY <2>2, <3>1, <1>2
      <4> QED BY <4>1, <2>1, <2>2
    <3> QED BY <3>1, <2>2
  <2>4. q <= p
    <3>1. ASSUME q >= p + 1 PROVE FALSE
      <4>1. l * q >= l * p + l BY <2>2, <3>1, <1>2
      <4> QED BY <4>1, <2>1, <2>2, <1>2
    <3> QED BY <3>1, <2>2
  <2> QED BY <2>2, <2>3, <2>4, <1>2 DEF q
<1> QED BY <1>1, <1>2

LEMMA RunAgrees ==
    ASSUME Run!RunsAreKnown, RunInv, PPT \in Nat \ {0} PROVE Run!ReplayAgrees
<1>1. stage = "replayed" /\ records[1].of = records[2].of
            => Run!Replayable(records[1]) = Run!Replayable(records[2])
  <2> SUFFICES ASSUME stage = "replayed", records[1].of = records[2].of
               PROVE  Run!Replayable(records[1]) = Run!Replayable(records[2])
    OBVIOUS
  <2>1. PICK r, s : IsRecord(r) /\ IsRecord(s) /\ records = <<r, s>>
    BY DEF RunInv, RecordsKept
  <2>2. records[1] = r /\ records[2] = s BY <2>1
  <2>3. PICK input \in RunInputs : IsRecordOf(r, input) BY <2>1 DEF IsRecord
  <2>4. PICK other \in RunInputs : IsRecordOf(s, other) BY <2>1 DEF IsRecord
  <2> QED BY <2>2, <2>3, <2>4, RecordsAgree
<1>2. stage \in {"recorded", "replayed"} =>
            Last(trajectory).objective
                = Min({Run!Trail[i][2] : i \in DOMAIN Run!Trail})
  <2> SUFFICES ASSUME stage \in {"recorded", "replayed"}
               PROVE  Last(trajectory).objective
                        = Min({Run!Trail[i][2] : i \in DOMAIN Run!Trail})
    OBVIOUS
  <2>1. held.payload \in RunInputs /\ Run!Trail = Trials(held.payload)
    BY DEF RunInv, Underway, Copies, Run!Trail, Run!Snapshot, Trials
  <2>2. Run!Trail \in Seq(Run!Trial) /\ Len(Run!Trail) \in Nat \ {0}
    BY <2>1, TrialsAreSeq
  <2>3. IsBest(trajectory, Run!Trail, Len(Run!Trail))
    BY <2>1, <2>2 DEF RunInv, Underway
  <2> DEFINE lowest == Last(trajectory).objective
             S == {Run!Trail[i][2] : i \in DOMAIN Run!Trail}
  <2>4. lowest \in S /\ \A y \in S : lowest <= y BY <2>2, <2>3 DEF IsBest, Last
  <2>5. S \subseteq Int
    <3>1. \A i \in DOMAIN Run!Trail : Run!Trail[i] \in Run!Trial BY <2>2
    <3> QED BY <3>1 DEF Run!Trial
  <2> HIDE DEF lowest, S
  <2>6. lowest = Min(S) BY <2>4, <2>5, LeastIsMin
  <2> QED BY <2>6 DEF lowest, S
<1>3. \A k \in 2..Len(trajectory) :
            /\ trajectory[k].objective < trajectory[k - 1].objective
            /\ trajectory[k].elapsed >= trajectory[k - 1].elapsed
  BY DEF RunInv, Clocked, Falls
<1>4. ASSUME NEW i \in DOMAIN records
      PROVE  Run!CacheHitRatePpt(records[i]) \in 0..PPT
  <2>1. IsRecord(records[i])
    <3>1. \/ records = <<>> \/ \E r : IsRecord(r) /\ records = <<r>>
          \/ \E r, s : IsRecord(r) /\ IsRecord(s) /\ records = <<r, s>>
      BY DEF RunInv, RunType, StagesAre, RecordsKept
    <3> QED BY <3>1
  <2> DEFINE h == records[i].hits
             l == records[i].lookups
  <2>2. h \in Nat /\ l \in Nat /\ h <= l BY <2>1 DEF IsRecord, IsRecordOf
  <2> HIDE DEF h, l
  <2>3. (IF l <= 0 THEN 0 ELSE (h * PPT) \div l) \in 0..PPT BY <2>2, RateIsOne
  <2> QED BY <2>3 DEF Run!CacheHitRatePpt, h, l
<1>5. stage \in {"recorded", "replayed"} =>
            Run!Last(trajectory).objective
                = Run!Min({Run!Trail[i][2] : i \in DOMAIN Run!Trail})
  <2>1. Run!Last(trajectory) = Last(trajectory)  BY DEF Run!Last, Last
  <2>2. Run!Min({Run!Trail[i][2] : i \in DOMAIN Run!Trail})
            = Min({Run!Trail[i][2] : i \in DOMAIN Run!Trail})
    BY SameMin
  <2> QED BY <1>2, <2>1, <2>2
<1> QED BY <1>1, <1>3, <1>4, <1>5 DEF Run!ReplayAgrees

-----------------------------------------------------------------------------
(* The race: those queued, running and answered partition those that race, *)
(* and each answer is the member's own.                                    *)

RaceGiven ==
    /\ problem \in RaceProblems
    /\ answers \in [RaceMembers -> RaceOffers(problem)]
    /\ workers \in Nat
    /\ racing \in {RaceMembers, RaceMembers \cup {Race!ACCELERATOR}}

RaceQueue ==
    /\ running \subseteq racing /\ Cardinality(running) <= workers
    /\ phase \in {"new", "solving", "ended", "raised"}
    /\ phase = "new" => results = <<>>
    /\ phase # "solving" => running = {}
    /\ phase = "solving" =>
          /\ queued \in Seq(racing) /\ IsInjective(queued)
          /\ ToSet(queued) \cup running \cup DOMAIN results = racing
          /\ ToSet(queued) \cap running = {}
          /\ ToSet(queued) \cap DOMAIN results = {}
          /\ running \cap DOMAIN results = {}

RaceResults ==
    /\ \A i \in DOMAIN results : results[i] = Race!AnswerOf(i)
    /\ phase = "ended" => DOMAIN results = racing /\ outcome = Race!Judge(problem, results)

RaceInv == RaceGiven /\ RaceQueue /\ RaceResults

LEMMA RacingIsFinite ==
    ASSUME Race!EnginesAreKnown, RaceGiven
    PROVE  /\ IsFiniteSet(racing) /\ racing \subseteq Int
           /\ Race!ACCELERATOR \notin RaceMembers
           /\ RaceMembers \subseteq racing
           /\ racing \subseteq RaceMembers \cup {Race!ACCELERATOR}
<1>1. IsFiniteSet(RaceMembers) /\ Cardinality(RaceMembers) \in Nat
  BY FS_CardinalityType, SameFinite DEF Race!EnginesAreKnown
<1>2. /\ RaceMembers \subseteq Int /\ Race!ACCELERATOR \in Int
      /\ Race!ACCELERATOR \notin RaceMembers
  <2>1. Race!Cardinality(RaceMembers) = Cardinality(RaceMembers)
    BY SameCardinality
  <2> QED BY <1>1, <2>1 DEF Race!EnginesAreKnown, Race!ACCELERATOR
<1>3. IsFiniteSet(RaceMembers \cup {Race!ACCELERATOR})  BY <1>1, FS_AddElement
<1> QED BY <1>1, <1>2, <1>3 DEF RaceGiven

LEMMA RaceInit == Race!EnginesAreKnown /\ Race!Init => RaceInv
<1> SUFFICES ASSUME Race!EnginesAreKnown, Race!Init PROVE RaceInv OBVIOUS
<1>1. IsFiniteSet(RaceMembers) /\ Cardinality(RaceMembers) \in Nat
  BY FS_CardinalityType, SameFinite DEF Race!EnginesAreKnown
<1>2. RaceGiven BY <1>1 DEF Race!Init, RaceGiven, Race!AcceleratedPortfolio
<1>3. phase = "new" /\ running = {} /\ results = <<>> BY DEF Race!Init
<1>4. Cardinality(running) = 0 BY <1>3, FS_EmptySet
<1>5. RaceQueue BY <1>2, <1>3, <1>4 DEF RaceQueue, RaceGiven
<1>6. RaceResults BY <1>3 DEF RaceResults
<1> QED BY <1>2, <1>5, <1>6 DEF RaceInv

LEMMA RaceTake ==
    ASSUME Race!EnginesAreKnown, RaceInv, Race!Take PROVE RaceInv'
<1> DEFINE first == Head(queued)
           rest == Tail(queued)
<1>1. /\ phase = "solving" /\ queued # <<>> /\ Cardinality(running) < workers
      /\ running' = running \cup {first} /\ queued' = rest
      /\ UNCHANGED <<Race!given, phase, results, outcome, wins>>
  <2>1. Race!Cardinality(running) = Cardinality(running)  BY SameCardinality
  <2> QED BY <2>1 DEF Race!Take
<1>2. queued \in Seq(racing) /\ IsInjective(queued)
  BY <1>1 DEF RaceInv, RaceQueue
<1>3. rest \in Seq(racing) /\ first \in racing /\ ToSet(queued) = {first} \cup ToSet(rest)
      /\ first \notin ToSet(rest) /\ IsInjective(rest)
  BY <1>1, <1>2, HeadAndTail
<1> HIDE DEF first, rest
<1>4. RaceGiven' BY <1>1 DEF RaceInv, RaceGiven, Race!given
<1>5. Cardinality(running') <= workers
  <2>1. IsFiniteSet(running)
    BY RacingIsFinite, FS_Subset DEF RaceInv, RaceQueue
  <2>2. Cardinality(running') \in Nat /\ Cardinality(running') <= Cardinality(running) + 1
        /\ Cardinality(running) \in Nat
    BY <2>1, <1>1, FS_AddElement, FS_CardinalityType
  <2> QED BY <2>2, <1>1 DEF RaceInv, RaceGiven
<1>6. RaceQueue' BY <1>1, <1>3, <1>5 DEF RaceInv, RaceQueue, Race!given
<1>7. RaceResults' BY <1>1 DEF RaceInv, RaceResults, Race!given, Race!AnswerOf
<1> QED BY <1>4, <1>6, <1>7 DEF RaceInv

LEMMA RaceAttempt ==
    ASSUME Race!EnginesAreKnown, RaceInv, NEW i \in racing, Race!Attempt(i)
    PROVE  RaceInv'
<1>1. /\ i \in running /\ running' = running \ {i}
      /\ results' = [j \in DOMAIN results \cup {i} |->
                        IF j = i THEN Race!AnswerOf(i) ELSE results[j]]
      /\ UNCHANGED <<Race!given, phase, queued, outcome, wins>>
  BY DEF Race!Attempt, Race!Placed
<1>2. phase = "solving" BY <1>1 DEF RaceInv, RaceQueue
<1>3. RaceGiven' BY <1>1 DEF RaceInv, RaceGiven, Race!given
<1>4. Cardinality(running') <= workers
  <2>1. IsFiniteSet(running)
    BY RacingIsFinite, FS_Subset DEF RaceInv, RaceQueue
  <2>2. /\ Cardinality(running) \in Nat
        /\ Cardinality(running \ {i}) = Cardinality(running) - 1
    BY <2>1, <1>1, FS_RemoveElement, FS_CardinalityType
  <2> QED BY <2>2, <1>1 DEF RaceInv, RaceGiven, RaceQueue, Race!given
<1>5. DOMAIN results' = DOMAIN results \cup {i} BY <1>1
<1>6. RaceQueue' BY <1>1, <1>2, <1>4, <1>5 DEF RaceInv, RaceQueue, Race!given
<1>7. RaceResults'
  BY <1>1, <1>2 DEF RaceInv, RaceResults, Race!given, Race!AnswerOf
<1> QED BY <1>3, <1>6, <1>7 DEF RaceInv

LEMMA RaceNext ==
    ASSUME Race!EnginesAreKnown, RaceInv, Race!Next \/ UNCHANGED Race!vars
    PROVE  RaceInv'
<1>1. CASE Race!Refuse
  BY <1>1
     DEF Race!Refuse, RaceInv, RaceGiven, RaceQueue, RaceResults, Race!given,
         Race!AnswerOf
<1>2. CASE Race!Open
  <2>1. /\ Ascending(racing) \in Seq(racing) /\ IsInjective(Ascending(racing))
        /\ ToSet(Ascending(racing)) = racing
    BY RacingIsFinite, AscendingLists DEF RaceInv
  <2>2. results = <<>> /\ running = {}
    BY <1>2 DEF Race!Open, RaceInv, RaceQueue
  <2>3. DOMAIN results = {} BY <2>2
  <2>4. Race!Ascending(racing) = Ascending(racing)  BY SameAscending
  <2> QED
    BY <2>1, <2>2, <2>3, <2>4, <1>2
       DEF Race!Open, RaceInv, RaceGiven, RaceQueue, RaceResults, Race!given,
           Race!AnswerOf
<1>3. CASE Race!Take BY <1>3, RaceTake
<1>4. ASSUME NEW i \in racing, Race!Attempt(i) PROVE RaceInv'
  BY <1>4, RaceAttempt
<1>5. CASE Race!Decide
  <2>1. phase = "solving" /\ queued = <<>> /\ running = {} /\ phase' = "ended"
        /\ outcome' = Race!Judge(problem, results)
        /\ UNCHANGED <<Race!given, queued, running, results>>
    BY <1>5 DEF Race!Decide, Race!Ran
  <2>2. ToSet(queued) = {} BY <2>1 DEF ToSet
  <2>3. DOMAIN results = racing BY <2>1, <2>2 DEF RaceInv, RaceQueue
  <2> QED
    BY <2>1, <2>3
       DEF RaceInv, RaceGiven, RaceQueue, RaceResults, Race!given,
           Race!AnswerOf
<1>6. CASE Race!VerifyRaises
  BY <1>6
     DEF Race!VerifyRaises, Race!Ran, RaceInv, RaceGiven, RaceQueue,
         RaceResults, Race!given, Race!AnswerOf
<1>7. CASE UNCHANGED Race!vars
  BY <1>7
     DEF Race!vars, RaceInv, RaceGiven, RaceQueue, RaceResults, Race!given,
         Race!AnswerOf
<1> QED BY <1>1, <1>2, <1>3, <1>4, <1>5, <1>6, <1>7 DEF Race!Next, Race!Done

LEMMA CheapestExists ==
    ASSUME NEW S \in SUBSET Int, IsFiniteSet(S), S # {},
           NEW scores \in [S -> Int]
    PROVE  \E w \in S : Race!Cheapest(scores) = {w}
<1> DEFINE Before(i, j) == scores[i] < scores[j] \/ (scores[i] = scores[j] /\ i <= j)
           First(T) == \E i \in T : \A j \in T : Before(i, j)
           Bad == {T \in SUBSET S : T # {} /\ ~First(T)}
<1>0. \A i \in S : i \in Int /\ scores[i] \in Int OBVIOUS
<1>1. Bad = {}
  <2>1. SUFFICES ASSUME Bad # {} PROVE FALSE OBVIOUS
  <2>2. PICK T \in Bad : /\ IsFiniteSet(T)
                         /\ \A x \in T : IsFiniteSet(T \ {x}) /\ T \ {x} \notin Bad
    <3>1. Bad \in SUBSET SUBSET S  OBVIOUS
    <3> HIDE DEF Bad
    <3> QED BY <2>1, <3>1, SmallestSet
  <2>3. PICK x : x \in T /\ x \in S BY <2>2
  <2>4. CASE T \ {x} = {}
    <3>1. T = {x} /\ Before(x, x) BY <2>3, <2>4, <1>0
    <3> QED BY <3>1, <2>2
  <2>5. CASE T \ {x} # {}
    <3>1. First(T \ {x}) BY <2>2, <2>3, <2>5
    <3>2. PICK m \in T \ {x} : \A j \in T \ {x} : Before(m, j) BY <3>1
    <3>3. m \in S /\ \A j \in T : j \in S BY <2>2, <3>2
    <3>4. Before(m, x) \/ Before(x, m) BY <2>3, <3>3, <1>0
    <3>5. ASSUME NEW j \in S, Before(x, m), Before(m, j) PROVE Before(x, j)
      BY <2>3, <3>3, <3>5, <1>0
    <3>6. Before(x, x) BY <2>3, <1>0
    <3> HIDE DEF Before
    <3>7. First(T) BY <2>3, <3>2, <3>3, <3>4, <3>5, <3>6
    <3> QED BY <3>7, <2>2
  <2> QED BY <2>4, <2>5
<1>2. First(S)
  <2> HIDE DEF First
  <2> QED BY <1>1
<1>3. PICK w \in S : \A j \in S : Before(w, j) BY <1>2
<1>4. ASSUME NEW v \in S, \A j \in S : Before(v, j) PROVE v = w
  BY <1>0, <1>3, <1>4
<1>5. Race!Cheapest(scores) = {i \in S : \A j \in S : Before(i, j)}
  BY DEF Race!Cheapest
<1> HIDE DEF Before
<1> QED BY <1>3, <1>4, <1>5

LEMMA RaceDecided ==
    ASSUME Race!EnginesAreKnown, RaceInv PROVE Race!TimingDecidesNothing
<1> SUFFICES ASSUME phase = "ended", NEW legal,
                    legal = {i \in RaceMembers : Race!Legal(problem, answers[i])}
    PROVE   /\ DOMAIN outcome.scores = legal
            /\ outcome.rejected = racing \ legal
            /\ (outcome.winner = {}) <=> (legal = {})
            /\ \A w \in outcome.winner :
                 /\ outcome.best = answers[w]
                 /\ \A i \in legal \ {w} :
                    \A gap \in {Race!CostOf(problem, answers[i])
                                    - Race!CostOf(problem, answers[w])} :
                        gap > 0 \/ (gap = 0 /\ w < i)
  BY DEF Race!TimingDecidesNothing
<1> DEFINE scores == Race!Scores(problem, results)
           Cost(i) == Race!CostOf(problem, answers[i])
<1>1. DOMAIN results = racing /\ outcome = Race!Judge(problem, results)
      /\ \A i \in racing : results[i] = Race!AnswerOf(i)
  BY DEF RaceInv, RaceResults
<1>2. /\ RaceMembers \subseteq racing
      /\ racing \subseteq RaceMembers \cup {Race!ACCELERATOR}
      /\ Race!ACCELERATOR \notin RaceMembers /\ racing \subseteq Int
      /\ IsFiniteSet(racing)
  BY RacingIsFinite DEF RaceInv
<1>3. /\ \A i \in RaceMembers : Race!AnswerOf(i) = answers[i]
      /\ Race!AnswerOf(Race!ACCELERATOR) = {}
  BY <1>2 DEF Race!AnswerOf
<1>4. ~Race!Legal(problem, {}) BY DEF Race!Legal
<1>5. {j \in DOMAIN results : Race!Legal(problem, results[j])} = legal
  BY <1>1, <1>2, <1>3, <1>4
<1>6. scores = [i \in legal |-> Race!CostOf(problem, results[i])]
  BY <1>5 DEF Race!Scores
<1>7. \A i \in legal : /\ i \in RaceMembers /\ i \in racing
                         /\ results[i] = answers[i] /\ Cost(i) \in Int
  <2> SUFFICES ASSUME NEW i \in legal
               PROVE  /\ i \in RaceMembers /\ i \in racing
                      /\ results[i] = answers[i] /\ Cost(i) \in Int
    OBVIOUS
  <2>1. i \in RaceMembers /\ Race!Legal(problem, answers[i]) OBVIOUS
  <2>2. answers[i] \in RaceOffers(problem) /\ problem \in RaceProblems
    BY <2>1 DEF RaceInv, RaceGiven
  <2> QED BY <2>1, <2>2, <1>1, <1>2, <1>3 DEF Race!EnginesAreKnown
<1>8. scores \in [legal -> Int] /\ \A i \in legal : scores[i] = Cost(i)
  <2> HIDE DEF Cost
  <2>1. scores = [i \in legal |-> Cost(i)] BY <1>6, <1>7 DEF Cost
  <2> HIDE DEF scores
  <2> QED BY <2>1, <1>7
<1>9. legal \in SUBSET Int /\ IsFiniteSet(legal)
  BY <1>2, <1>7, FS_Subset
<1>10. /\ outcome.scores = scores
       /\ outcome.rejected = DOMAIN results \ DOMAIN scores
       /\ outcome.winner = Race!Cheapest(scores)
       /\ outcome.best = UNION {results[i] : i \in Race!Cheapest(scores)}
  BY <1>1 DEF Race!Judge, Race!Judged
<1>11. DOMAIN scores = legal BY <1>6
<1> HIDE DEF scores, Cost
<1>12. CASE legal = {}
  <2>1. Race!Cheapest(scores) = {} BY <1>11, <1>12 DEF Race!Cheapest
  <2> QED BY <2>1, <1>1, <1>10, <1>11, <1>12
<1>13. CASE legal # {}
  <2>1. PICK w \in legal : Race!Cheapest(scores) = {w}
    BY <1>8, <1>9, <1>13, CheapestExists
  <2>2. outcome.best = answers[w] BY <2>1, <1>7, <1>10
  <2>3. ASSUME NEW i \in legal \ {w}
        PROVE  Cost(i) - Cost(w) > 0 \/ (Cost(i) - Cost(w) = 0 /\ w < i)
    <3>1. scores[w] < scores[i] \/ (scores[w] = scores[i] /\ w <= i)
      BY <2>1, <1>11 DEF Race!Cheapest
    <3>2. w \in Int /\ i \in Int /\ Cost(i) \in Int /\ Cost(w) \in Int /\ w # i
      BY <1>7, <1>9
    <3> QED BY <3>1, <3>2, <1>8
  <2> QED BY <2>1, <2>2, <2>3, <1>1, <1>10, <1>11, <1>13 DEF Cost
<1> QED BY <1>12, <1>13

LEMMA RaceOnce ==
    ASSUME RaceInv PROVE Race!EveryMemberRunsOnce
<1>1. Race!Cardinality(running) = Cardinality(running)  BY SameCardinality
<1>2. Race!Range(queued) = ToSet(queued)  BY DEF Race!Range, ToSet
<1> QED BY <1>1, <1>2 DEF RaceInv, RaceQueue, Race!EveryMemberRunsOnce

LEMMA Divides ==
    ASSUME NEW n \in Nat, NEW d \in Nat \ {0}
    PROVE  /\ n \div d \in Nat /\ n % d \in Nat /\ n % d < d
           /\ n = d * (n \div d) + (n % d)
<1> DEFINE q == n \div d
           r == n % d
<1>1. q \in Int /\ r \in Nat /\ r < d /\ n = d * q + r  OBVIOUS
<1> HIDE DEF q, r
<1>2. ASSUME q <= -1 PROVE FALSE
  <2>1. d * q <= -d  BY <1>1, <1>2
  <2> QED BY <2>1, <1>1
<1>3. q \in Nat  BY <1>1, <1>2
<1>4. q \in Nat /\ r \in Nat /\ r < d /\ n = d * q + r  BY <1>1, <1>3
<1> QED BY <1>4, Zenon DEF q, r

LEMMA DivisionIsUnique ==
    ASSUME NEW n \in Nat, NEW d \in Nat \ {0}, NEW q \in Nat, NEW r \in Nat,
           r < d, n = d * q + r
    PROVE  n \div d = q /\ n % d = r
<1> DEFINE a == n \div d
           b == n % d
<1>1. a \in Nat /\ b \in Nat /\ b < d /\ n = d * a + b  BY Divides
<1> HIDE DEF a, b
<1>2. ASSUME a >= q + 1 PROVE FALSE
  <2>1. d * a >= d * q + d  BY <1>1, <1>2
  <2> QED BY <2>1, <1>1
<1>3. ASSUME q >= a + 1 PROVE FALSE
  <2>1. d * q >= d * a + d  BY <1>1, <1>3
  <2> QED BY <2>1, <1>1
<1>4. a = q  BY <1>1, <1>2, <1>3
<1> QED BY <1>1, <1>4 DEF a, b

(* Row after row: position n of a table q wide is row (n - 1) \div q and    *)
(* column (n - 1) % q, and each pair has one position.                      *)
LEMMA RowByRow ==
    ASSUME NEW p \in Nat, NEW q \in Nat
    PROVE  /\ p * q \in Nat
           /\ \A n \in 1..(p * q) : /\ 1 + ((n - 1) \div q) \in 1..p
                                    /\ 1 + ((n - 1) % q) \in 1..q
           /\ \A i \in 1..p, j \in 1..q :
                /\ (i - 1) * q + j \in 1..(p * q)
                /\ 1 + ((((i - 1) * q + j) - 1) \div q) = i
                /\ 1 + ((((i - 1) * q + j) - 1) % q) = j
<1>1. p * q \in Nat  OBVIOUS
<1>2. ASSUME NEW n \in 1..(p * q)
      PROVE  1 + ((n - 1) \div q) \in 1..p /\ 1 + ((n - 1) % q) \in 1..q
  <2>1. n - 1 \in Nat /\ n <= p * q  BY <1>1
  <2>2. q \in Nat \ {0}
    <3>1. q = 0 => p * q = 0  OBVIOUS
    <3> QED BY <3>1, <2>1
  <2> DEFINE a == (n - 1) \div q
             b == (n - 1) % q
  <2>3. a \in Nat /\ b \in Nat /\ b < q /\ n - 1 = q * a + b
    BY <2>1, <2>2, Divides
  <2> HIDE DEF a, b
  <2>4. ASSUME a >= p PROVE FALSE
    <3>1. q * a >= p * q  BY <2>2, <2>3, <2>4
    <3> QED BY <3>1, <2>1, <2>3, <1>1
  <2> QED BY <2>3, <2>4 DEF a, b
<1>3. ASSUME NEW i \in 1..p, NEW j \in 1..q
      PROVE  /\ (i - 1) * q + j \in 1..(p * q)
             /\ 1 + ((((i - 1) * q + j) - 1) \div q) = i
             /\ 1 + ((((i - 1) * q + j) - 1) % q) = j
  <2> DEFINE n == ((i - 1) * q + j) - 1
  <2>1. i - 1 \in Nat /\ j - 1 \in Nat /\ j - 1 < q /\ q \in Nat \ {0}  OBVIOUS
  <2>2. (i - 1) * q \in Nat  BY <2>1
  <2>3. n \in Nat /\ n = q * (i - 1) + (j - 1)  BY <2>1, <2>2
  <2>4. i * q <= p * q
    <3>1. i \in Nat /\ i <= p  OBVIOUS
    <3> QED BY <3>1
  <2>5. (i - 1) * q = i * q - q  OBVIOUS
  <2>6. i * q \in Int  OBVIOUS
  <2>7. (i - 1) * q + j <= p * q  BY <2>1, <2>4, <2>5, <2>6, <1>1
  <2>8. n \div q = i - 1 /\ n % q = j - 1
    <3> HIDE DEF n
    <3> QED BY <2>1, <2>3, DivisionIsUnique
  <2>9. (i - 1) * q + j \in 1..(p * q)  BY <2>1, <2>2, <2>7, <1>1
  <2>10. 1 + (n \div q) = i /\ 1 + (n % q) = j
    <3> HIDE DEF n
    <3> QED BY <2>8
  <2> QED BY <2>9, <2>10, Zenon DEF n
<1> QED BY <1>1, <1>2, <1>3

RowAt(n, q) == 1 + ((n - 1) \div q)
ColumnAt(n, q) == 1 + ((n - 1) % q)

(* Each pair has a position in the table.                                  *)
LEMMA PlaceInTable ==
    ASSUME NEW p \in Nat, NEW q \in Nat, NEW i \in 1..p, NEW j \in 1..q
    PROVE  \E n \in 1..(p * q) : RowAt(n, q) = i /\ ColumnAt(n, q) = j
<1> DEFINE n == (i - 1) * q + j
<1>1. n \in 1..(p * q)  BY RowByRow
<1>2. i - 1 \in Nat /\ j - 1 \in Nat /\ j - 1 < q /\ q \in Nat \ {0}  OBVIOUS
<1>3. (i - 1) * q \in Nat  BY <1>2
<1>4. n - 1 \in Nat /\ n - 1 = q * (i - 1) + (j - 1)  BY <1>2, <1>3
<1> HIDE DEF n
<1>5. (n - 1) \div q = i - 1 /\ (n - 1) % q = j - 1
  BY <1>2, <1>4, DivisionIsUnique
<1>6. 1 + ((n - 1) \div q) = i /\ 1 + ((n - 1) % q) = j  BY <1>5
<1>7. RowAt(n, q) = i /\ ColumnAt(n, q) = j  BY <1>6 DEF RowAt, ColumnAt
<1> QED BY <1>1, <1>7

-----------------------------------------------------------------------------
(* Tiles.                                                                  *)

TilesOf(size) == [sources : SUBSET (0..(size - 1)),
                  destinations : SUBSET (0..(size - 1))]

LEMMA CellsOfTile ==
    ASSUME NEW size \in Nat, NEW tile \in TilesOf(size)
    PROVE  /\ \A n \in DOMAIN Matrix!CellsOf(tile) :
                Matrix!CellsOf(tile)[n] \in tile.sources \X tile.destinations
           /\ \A c \in tile.sources \X tile.destinations :
                \E n \in DOMAIN Matrix!CellsOf(tile) : Matrix!CellsOf(tile)[n] = c
           /\ Matrix!CellsOf(tile) \in Seq(tile.sources \X tile.destinations)
           /\ Len(Matrix!CellsOf(tile))
                = Cardinality(tile.sources) * Cardinality(tile.destinations)
<1> DEFINE S == tile.sources
           D == tile.destinations
           rows == Ascending(S)
           columns == Ascending(D)
           p == Len(rows)
           q == Len(columns)
           cells == Matrix!CellsOf(tile)
<1>1. /\ S \in SUBSET Int /\ D \in SUBSET Int /\ IsFiniteSet(S)
      /\ IsFiniteSet(D)
  <2>1. S \in SUBSET (0..(size - 1)) /\ D \in SUBSET (0..(size - 1))
    BY DEF TilesOf
  <2>2. IsFiniteSet(0..(size - 1)) BY FS_Interval
  <2> QED BY <2>1, <2>2, FS_Subset
<1>2. /\ rows \in Seq(S) /\ ToSet(rows) = S /\ p = Cardinality(S)
      /\ columns \in Seq(D) /\ ToSet(columns) = D /\ q = Cardinality(D)
  <2> HIDE DEF S, D
  <2> QED BY <1>1, AscendingLists
<1>3. cells = [n \in 1..(p * q) |-> <<rows[1 + ((n - 1) \div q)],
                                    columns[1 + ((n - 1) % q)]>>]
  BY SameAscending, Zenon DEF Matrix!CellsOf
<1>4. p \in Nat /\ q \in Nat /\ DOMAIN rows = 1..p /\ DOMAIN columns = 1..q
  BY <1>2
<1> HIDE DEF S, D, rows, columns, p, q, cells
<1>5. p * q \in Nat /\ DOMAIN cells = 1..(p * q) BY <1>3, <1>4
<1>6. ASSUME NEW n \in 1..(p * q) PROVE cells[n] \in S \X D
  <2> DEFINE i == 1 + ((n - 1) \div q)
             j == 1 + ((n - 1) % q)
  <2>1. i \in 1..p /\ j \in 1..q BY <1>4, RowByRow
  <2> HIDE DEF i, j
  <2>2. rows[i] \in S /\ columns[j] \in D BY <2>1, <1>2, <1>4
  <2>3. cells[n] = <<rows[i], columns[j]>> BY <1>3 DEF i, j
  <2> QED BY <2>2, <2>3
<1>7. ASSUME NEW c \in S \X D PROVE \E n \in 1..(p * q) : cells[n] = c
  <2>1. PICK i \in 1..p : rows[i] = c[1] BY <1>2, <1>4 DEF ToSet
  <2>2. PICK j \in 1..q : columns[j] = c[2] BY <1>2, <1>4 DEF ToSet
  <2>3. PICK n \in 1..(p * q) : RowAt(n, q) = i /\ ColumnAt(n, q) = j
    BY <1>4, PlaceInTable
  <2>4. cells[n] = <<rows[RowAt(n, q)], columns[ColumnAt(n, q)]>>
    BY <1>3, <2>3 DEF RowAt, ColumnAt
  <2>5. cells[n] = <<rows[i], columns[j]>>  BY <2>3, <2>4, Zenon
  <2>6. cells[n] = c  BY <2>1, <2>2, <2>5
  <2> QED BY <2>3, <2>6
<1>8. cells \in Seq(S \X D) /\ Len(cells) = p * q
  <2>1. cells \in [1..(p * q) -> S \X D] BY <1>3, <1>6
  <2> QED BY <2>1, <1>5
<1> QED BY <1>2, <1>5, <1>6, <1>7, <1>8 DEF S, D, cells

(* The cells of a tile are its rows by its columns.                        *)
LEMMA CellsAreInTile ==
    ASSUME NEW size \in Nat, NEW tile \in TilesOf(size)
    PROVE  ToSet(Matrix!CellsOf(tile))
             = {c \in (0..(size - 1)) \X (0..(size - 1)) :
                    Matrix!InTile(c, tile)}
<1> DEFINE cells == Matrix!CellsOf(tile)
<1>1. /\ tile.sources \in SUBSET (0..(size - 1))
      /\ tile.destinations \in SUBSET (0..(size - 1))
  BY DEF TilesOf
<1>2. /\ \A n \in DOMAIN cells : cells[n] \in tile.sources \X tile.destinations
      /\ \A c \in tile.sources \X tile.destinations :
                \E n \in DOMAIN cells : cells[n] = c
  BY CellsOfTile
<1> HIDE DEF cells
<1>3. ToSet(cells) = tile.sources \X tile.destinations BY <1>2 DEF ToSet
<1> QED BY <1>1, <1>3 DEF Matrix!InTile, cells

LEMMA BlockIsBounded ==
    ASSUME Matrix!MapIsKnown
    PROVE  /\ Matrix!Block \in Nat \ {0}
           /\ Matrix!Block * Matrix!Block <= MatrixCells
<1> DEFINE S == {1} \cup {b \in 1..MatrixCells : b * b <= MatrixCells}
<1>1. MatrixCells \in Nat \ {0} BY DEF Matrix!MapIsKnown
<1>2. S \subseteq 1..MatrixCells /\ S \subseteq Int /\ S # {}
  <2>1. 1 \in 1..MatrixCells  BY <1>1
  <2>2. S \subseteq 1..MatrixCells  BY <2>1
  <2>3. 1..MatrixCells \subseteq Int /\ 1 \in S  OBVIOUS
  <2> HIDE DEF S
  <2> QED BY <2>2, <2>3
<1>3. IsFiniteSet(S)
  <2>1. IsFiniteSet(1..MatrixCells)  BY <1>1, FS_Interval
  <2> HIDE DEF S
  <2> QED BY <1>2, <2>1, FS_Subset
<1>4. \A b \in S : b * b <= MatrixCells
  <2>1. 1 * 1 <= MatrixCells  BY <1>1
  <2> QED BY <2>1
<1> HIDE DEF S
<1>5. \E x \in S : \A y \in S : y <= x BY <1>2, <1>3, GreatestElement
<1>6. Max(S) \in S
  <2>1. \E x \in S : \A y \in S : x >= y BY <1>2, <1>5
  <2> QED BY <2>1 DEF Max
<1>7. Matrix!Block = Max(S) BY SameMax DEF Matrix!Block, S
<1>8. /\ Matrix!Block \in 1..MatrixCells
      /\ Matrix!Block * Matrix!Block <= MatrixCells
  BY <1>2, <1>4, <1>6, <1>7
<1> QED BY <1>1, <1>8

LEMMA LesserOf ==
    ASSUME NEW a \in Int, NEW b \in Int
    PROVE  Min({a, b}) = IF a <= b THEN a ELSE b
BY LeastIsMin

(* Every index lies in the one span its quotient names.                    *)
LEMMA SpanOf ==
    ASSUME NEW B \in Nat \ {0}, NEW size \in Nat, NEW a \in 0..(size - 1)
    PROVE  /\ a \div B \in 0..(((size + B - 1) \div B) - 1)
           /\ \A k \in Nat : (k * B <= a /\ a < (k + 1) * B) <=> k = a \div B
<1> DEFINE k0 == a \div B
           across == (size + B - 1) \div B
           r == a % B
           s == (size + B - 1) % B
<1>1. /\ a \in Nat /\ size \in Nat \ {0} /\ a <= size - 1
      /\ size + B - 1 \in Nat
  OBVIOUS
<1>2. k0 \in Nat /\ r \in Nat /\ r < B /\ a = B * k0 + r  BY <1>1, Divides
<1>3. across \in Nat /\ s \in Nat /\ s < B /\ size + B - 1 = B * across + s
  BY <1>1, Divides
<1> HIDE DEF k0, across, r, s
<1>4. ASSUME k0 >= across PROVE FALSE
  <2>1. B * k0 >= B * across  BY <1>2, <1>3, <1>4
  <2>2. B * k0 \in Int /\ B * across \in Int  BY <1>2, <1>3
  <2> QED BY <2>1, <2>2, <1>1, <1>2, <1>3
<1>5. k0 \in 0..(across - 1)  BY <1>2, <1>3, <1>4
<1>6. ASSUME NEW k \in Nat PROVE (k * B <= a /\ a < (k + 1) * B) <=> k = k0
  <2>1. k * B \in Int /\ (k + 1) * B = k * B + B /\ k * B = B * k  OBVIOUS
  <2>2. CASE k = k0
    <3>1. B * k0 \in Int BY <1>2
    <3> QED BY <2>1, <2>2, <1>2, <1>1, <3>1
  <2>3. CASE k >= k0 + 1
    <3>1. B * k >= B * k0 + B  BY <2>3, <1>2
    <3>2. B * k0 \in Int /\ B * k \in Int BY <1>2
    <3> QED BY <3>1, <3>2, <2>1, <2>3, <1>1, <1>2
  <2>4. CASE k0 >= k + 1
    <3>1. B * k0 >= B * k + B  BY <2>4, <1>2
    <3>2. B * k0 \in Int /\ B * k \in Int BY <1>2
    <3> QED BY <3>1, <3>2, <2>1, <2>4, <1>1, <1>2
  <2> QED BY <2>2, <2>3, <2>4, <1>2
<1> QED BY <1>5, <1>6 DEF k0, across

(* plan_tiles: the tiles are tiles of the matrix.                          *)
LEMMA TilesAreTiles ==
    ASSUME Matrix!MapIsKnown, NEW size \in Nat
    PROVE  /\ Matrix!PlanTiles(size) \in Seq(TilesOf(size))
           /\ \A a, b \in 0..(size - 1) : \E t \in DOMAIN Matrix!PlanTiles(size) :
                \A u \in DOMAIN Matrix!PlanTiles(size) :
                    Matrix!InTile(<<a, b>>, Matrix!PlanTiles(size)[u]) <=> u = t
           /\ \A t \in DOMAIN Matrix!PlanTiles(size) :
                Len(Matrix!CellsOf(Matrix!PlanTiles(size)[t])) <= MatrixCells
<1> DEFINE tiles == Matrix!PlanTiles(size)
           B == Matrix!Block
           across == (size + B - 1) \div B
           Span(k) == (k * B)..(Min({(k + 1) * B, size}) - 1)
<1>1. B \in Nat \ {0} /\ B * B <= MatrixCells /\ MatrixCells \in Nat \ {0}
  BY BlockIsBounded DEF Matrix!MapIsKnown
<1>2. CASE size * size <= MatrixCells
  <2> DEFINE all == [sources |-> 0..(size - 1), destinations |-> 0..(size - 1)]
  <2>1. tiles = <<all>>  BY <1>2 DEF Matrix!PlanTiles
  <2>2. all \in TilesOf(size)  BY DEF TilesOf
  <2>3. Len(Matrix!CellsOf(all)) <= MatrixCells
    <3>1. Len(Matrix!CellsOf(all)) = Cardinality(all.sources) * Cardinality(all.destinations)
      <4> HIDE DEF all
      <4> QED BY <2>2, CellsOfTile
    <3>2. Cardinality(0..(size - 1)) = size
      <4>1. 0 \in Int /\ size - 1 \in Int  OBVIOUS
      <4> QED BY <4>1, FS_Interval
    <3> QED BY <3>1, <3>2, <1>2
  <2>4. DOMAIN tiles = {1} /\ tiles[1] = all  BY <2>1
  <2>5. \A a, b \in 0..(size - 1) : Matrix!InTile(<<a, b>>, all)
    BY DEF Matrix!InTile
  <2> HIDE DEF all
  <2>6. tiles \in Seq(TilesOf(size))  BY <2>1, <2>2
  <2> HIDE DEF tiles
  <2> QED BY <2>3, <2>4, <2>5, <2>6 DEF tiles
<1>3. CASE size * size > MatrixCells
  <2>1. tiles = [t \in 1..(across * across) |->
                [sources |-> Span((t - 1) \div across),
                 destinations |-> Span((t - 1) % across)]]
    <3>1. ~(size * size <= MatrixCells)  BY <1>1, <1>3
    <3>2. \A k : Matrix!Min({(k + 1) * B, size}) = Min({(k + 1) * B, size})
      BY SameMin
    <3> DEFINE Reach(k) == (k * B)..(Matrix!Min({(k + 1) * B, size}) - 1)
    <3>3. tiles = [t \in 1..(across * across) |->
                  [sources |-> Reach((t - 1) \div across),
                   destinations |-> Reach((t - 1) % across)]]
      BY <3>1, Zenon DEF Matrix!PlanTiles
    <3>4. \A k : Reach(k) = Span(k)  BY <3>2
    <3> HIDE DEF tiles, Reach, Span, across
    <3> QED BY <3>3, <3>4
  <2>2. across \in Nat /\ size + B - 1 \in Nat
    <3>1. size + B - 1 \in Nat  BY <1>1
    <3> QED BY <3>1, <1>1, Divides
  <2>3. ASSUME NEW k \in Nat
        PROVE  /\ Span(k) \in SUBSET (0..(size - 1))
               /\ \A a \in 0..(size - 1) : a \in Span(k) <=> (k * B <= a /\ a < (k + 1) * B)
               /\ IsFiniteSet(Span(k)) /\ Cardinality(Span(k)) <= B
    <3> DEFINE lo == k * B
               hi == (k + 1) * B
               top == Min({hi, size})
    <3>1. lo \in Nat /\ hi = lo + B /\ hi \in Nat  BY <1>1
    <3> HIDE DEF lo, hi
    <3>2. top = IF hi <= size THEN hi ELSE size  BY <3>1, LesserOf
    <3> HIDE DEF top
    <3>3. top \in Nat /\ top <= hi /\ top <= size  BY <3>1, <3>2
    <3>4. Span(k) = lo..(top - 1)  BY DEF lo, hi, top
    <3>5. \A a \in 0..(size - 1) : a \in lo..(top - 1) <=> lo <= a /\ a < hi
      BY <3>1, <3>2, <3>3
    <3>6. lo..(top - 1) \subseteq 0..(size - 1)  BY <3>1, <3>3
    <3>7. /\ IsFiniteSet(lo..(top - 1))
          /\ Cardinality(lo..(top - 1)) = IF lo > top - 1 THEN 0 ELSE (top - 1) - lo + 1
      <4>1. lo \in Int /\ top - 1 \in Int  BY <3>1, <3>3
      <4> DEFINE bottom == top - 1
      <4>2. lo \in Int /\ bottom \in Int  BY <4>1
      <4> HIDE DEF bottom
      <4>3. /\ IsFiniteSet(lo..bottom)
            /\ Cardinality(lo..bottom) = IF lo > bottom THEN 0 ELSE bottom - lo + 1
        BY <4>2, FS_Interval
      <4> QED BY <4>3 DEF bottom
    <3>8. Cardinality(lo..(top - 1)) <= B  BY <3>1, <3>3, <3>7, <1>1
    <3> HIDE DEF Span
    <3> QED BY <3>4, <3>5, <3>6, <3>7, <3>8 DEF lo, hi
  <2> HIDE DEF Span, tiles
  <2>4. ASSUME NEW t \in 1..(across * across)
        PROVE  (t - 1) \div across \in Nat /\ (t - 1) % across \in Nat
    <3>1. /\ 1 + ((t - 1) \div across) \in 1..across
          /\ 1 + ((t - 1) % across) \in 1..across
      BY <2>2, RowByRow
    <3>2. across # 0  BY <3>1
    <3>3. t - 1 \in Nat  BY <2>2
    <3> QED BY <2>2, <3>2, <3>3, Divides
  <2>5. ASSUME NEW t \in 1..(across * across)
        PROVE  /\ tiles[t] \in TilesOf(size)
               /\ Len(Matrix!CellsOf(tiles[t])) <= MatrixCells
               /\ tiles[t].sources = Span((t - 1) \div across)
               /\ tiles[t].destinations = Span((t - 1) % across)
    <3> DEFINE S == Span((t - 1) \div across)
               D == Span((t - 1) % across)
    <3>1. tiles[t] = [sources |-> S, destinations |-> D]  BY <2>1
    <3>2. /\ S \in SUBSET (0..(size - 1)) /\ D \in SUBSET (0..(size - 1))
          /\ IsFiniteSet(S) /\ IsFiniteSet(D)
          /\ Cardinality(S) <= B /\ Cardinality(D) <= B
      BY <2>3, <2>4
    <3> HIDE DEF S, D
    <3>3. tiles[t] \in TilesOf(size)  BY <3>1, <3>2 DEF TilesOf
    <3>4. Len(Matrix!CellsOf(tiles[t])) = Cardinality(S) * Cardinality(D)
      <4>1. Len(Matrix!CellsOf(tiles[t])) = Cardinality(tiles[t].sources)
                                        * Cardinality(tiles[t].destinations)
        BY <3>3, CellsOfTile
      <4> QED BY <4>1, <3>1
    <3>5. Cardinality(S) \in Nat /\ Cardinality(D) \in Nat
      BY <3>2, FS_CardinalityType
    <3>6. Cardinality(S) * Cardinality(D) <= B * B
      <4> DEFINE x == Cardinality(S)
                 y == Cardinality(D)
      <4>1. x \in Nat /\ y \in Nat /\ x <= B /\ y <= B /\ B \in Nat
        BY <3>2, <3>5, <1>1
      <4> HIDE DEF x, y, B
      <4>2. x * y <= B * y  BY <4>1
      <4>3. B * y <= B * B  BY <4>1
      <4>4. x * y \in Int /\ B * y \in Int /\ B * B \in Int  BY <4>1
      <4>5. x * y <= B * B  BY <4>2, <4>3, <4>4
      <4> QED BY <4>5 DEF x, y
    <3>7. B * B \in Int /\ Cardinality(S) * Cardinality(D) \in Int
      BY <1>1, <3>5
    <3> QED BY <3>1, <3>3, <3>4, <3>6, <3>7, <1>1 DEF S, D
  <2>6. tiles \in Seq(TilesOf(size)) /\ DOMAIN tiles = 1..(across * across)
    <3>1. across * across \in Nat  BY <2>2
    <3>2. tiles \in [1..(across * across) -> TilesOf(size)]  BY <2>1, <2>5
    <3> QED BY <3>1, <3>2
  <2>7. ASSUME NEW a \in 0..(size - 1), NEW b \in 0..(size - 1)
        PROVE  \E t \in DOMAIN tiles : \A u \in DOMAIN tiles :
                    Matrix!InTile(<<a, b>>, tiles[u]) <=> u = t
    <3> DEFINE i == a \div B
               j == b \div B
               t == i * across + (j + 1)
    <3>1. /\ i \in 0..(across - 1)
          /\ \A k \in Nat : (k * B <= a /\ a < (k + 1) * B) <=> k = i
          /\ j \in 0..(across - 1)
          /\ \A k \in Nat : (k * B <= b /\ b < (k + 1) * B) <=> k = j
      BY <1>1, SpanOf
    <3> HIDE DEF i, j
    <3>2. i + 1 \in 1..across /\ j + 1 \in 1..across /\ across \in Nat \ {0}
      BY <2>2, <3>1
    <3>3. /\ t \in 1..(across * across)
          /\ (t - 1) \div across = i /\ (t - 1) % across = j
      <4>1. ((i + 1) - 1) * across + (j + 1) \in 1..(across * across)
        BY <2>2, <3>2, RowByRow
      <4>2. (i + 1) - 1 = i  BY <3>1, <2>2
      <4>3. t \in 1..(across * across)  BY <4>1, <4>2
      <4>4. /\ i * across \in Nat /\ t - 1 = across * i + j /\ j < across
            /\ i \in Nat /\ j \in Nat
        BY <3>1, <3>2
      <4>5. t - 1 \in Nat  BY <4>4
      <4> HIDE DEF t
      <4> QED BY <4>3, <4>4, <4>5, <3>2, DivisionIsUnique
    <3>4. ASSUME NEW u \in 1..(across * across)
          PROVE  Matrix!InTile(<<a, b>>, tiles[u]) <=> u = t
      <4> DEFINE k == (u - 1) \div across
                 l == (u - 1) % across
      <4>1. k \in Nat /\ l \in Nat  BY <2>4
      <4>2. Matrix!InTile(<<a, b>>, tiles[u]) <=> a \in Span(k) /\ b \in Span(l)
        BY <2>5 DEF Matrix!InTile
      <4>3. u - 1 = across * k + l
        <5>1. u - 1 \in Nat  BY <2>2
        <5> QED BY <5>1, <3>2, Divides
      <4> HIDE DEF k, l
      <4>4. a \in Span(k) <=> k = i  BY <2>3, <3>1, <4>1
      <4>5. b \in Span(l) <=> l = j  BY <2>3, <3>1, <4>1
      <4>6. k = i /\ l = j => u = t
        <5> SUFFICES ASSUME k = i, l = j PROVE u = t  OBVIOUS
        <5>1. u - 1 = across * i + j  BY <4>3
        <5>2. across * i \in Int /\ i * across = across * i  BY <3>1, <3>2
        <5> QED BY <5>1, <5>2, <3>1
      <4>7. u = t => k = i /\ l = j  BY <3>3, Zenon DEF k, l
      <4> QED BY <4>2, <4>4, <4>5, <4>6, <4>7
    <3> QED BY <3>3, <3>4, <2>6
  <2> QED BY <2>5, <2>6, <2>7 DEF tiles
<1>4. size * size \in Int /\ MatrixCells \in Int  BY <1>1
<1> QED BY <1>2, <1>3, <1>4

-----------------------------------------------------------------------------
(* The cache.                                                              *)

Pairs == Int \X Int
SaidOf(e, k) == Matrix!Whole(MatrixTravel(e, k[1], k[2]))
EntriesOf(x) == {[key |-> k, value |-> SaidOf(e, k)] : k \in Pairs, e \in 1..x}
OnePerKey(cache) ==
    \A i, j \in 1..Len(cache) : cache[i].key = cache[j].key => i = j
Sound(cache, x) ==
    cache \in Seq(EntriesOf(x)) /\ Len(cache) <= MatrixEntries /\ OnePerKey(cache)

LEMMA EntryOf ==
    ASSUME NEW x, NEW entry \in EntriesOf(x)
    PROVE  \E k \in Pairs, e \in 1..x :
                entry.key = k /\ entry.value = SaidOf(e, k)
BY DEF EntriesOf

LEMMA EntryIs ==
    ASSUME NEW x, NEW k \in Pairs, NEW e \in 1..x
    PROVE  [key |-> k, value |-> SaidOf(e, k)] \in EntriesOf(x)
BY DEF EntriesOf

(* get: the cache holds the same entries, the hit now bottom.                *)
LEMMA GetKeeps ==
    ASSUME Matrix!MapIsKnown, NEW x, NEW cache, Sound(cache, x), NEW key
    PROVE  Sound(Matrix!CacheGet(cache, key), x)
<1>1. CASE Matrix!Found(cache, key) = {}  BY <1>1 DEF Matrix!CacheGet
<1>2. CASE Matrix!Found(cache, key) # {}
  <2> DEFINE i == CHOOSE j \in Matrix!Found(cache, key) : TRUE
             n == Len(cache)
             E == EntriesOf(x)
             front == SubSeq(cache, 1, i - 1)
             back == SubSeq(cache, i + 1, n)
             rest == front \o back
             after == Append(rest, cache[i])
  <2>1. cache \in Seq(E) /\ n \in Nat /\ n <= MatrixEntries /\ OnePerKey(cache)
    BY DEF Sound
  <2>2. i \in 1..n  BY <1>2, <2>1 DEF Matrix!Found
  <2>3. Matrix!CacheGet(cache, key) = after
    BY <1>2 DEF Matrix!CacheGet, Matrix!RemoveAt
  <2> HIDE DEF i, E
  <2>4. /\ front \in Seq(E) /\ Len(front) = i - 1
        /\ \A k \in 1..(i - 1) : front[k] = cache[k]
    BY <2>1, <2>2
  <2>5. /\ back \in Seq(E) /\ Len(back) = n - i
        /\ \A k \in 1..(n - i) : back[k] = cache[i + k]
    BY <2>1, <2>2
  <2> HIDE DEF front, back, n
  <2>6. /\ rest \in Seq(E) /\ Len(rest) = n - 1
        /\ \A k \in 1..(i - 1) : rest[k] = cache[k]
        /\ \A k \in 1..(n - i) : rest[(i - 1) + k] = cache[i + k]
    <3>1. /\ rest \in Seq(E) /\ DOMAIN rest = 1..(Len(front) + Len(back))
          /\ \A k \in 1..Len(front) : rest[k] = front[k]
          /\ \A k \in 1..Len(back) : rest[Len(front) + k] = back[k]
      <4>1. front \in Seq(E) /\ back \in Seq(E) /\ rest = front \o back
        BY <2>4, <2>5
      <4> HIDE DEF rest
      <4>2. /\ rest \in Seq(E) /\ DOMAIN rest = 1..(Len(front) + Len(back))
            /\ \A k \in 1..Len(front) : rest[k] = front[k]
        BY <4>1, ConcatAt
      <4>3. \A k \in 1..Len(back) : rest[Len(front) + k] = back[k]
        BY <4>1, ConcatAt
      <4> QED BY <4>2, <4>3
    <3> HIDE DEF rest
    <3>2. Len(rest) = n - 1  BY <3>1, <2>1, <2>2, <2>4, <2>5
    <3> QED BY <3>1, <3>2, <2>4, <2>5
  <2> HIDE DEF rest
  <2>7. cache[i] \in E  BY <2>1, <2>2 DEF n
  <2>8. /\ after \in Seq(E) /\ Len(after) = n /\ after[n] = cache[i]
        /\ \A k \in 1..(n - 1) : after[k] = rest[k]
    <3>1. /\ after \in Seq(E) /\ DOMAIN after = 1..(Len(rest) + 1)
          /\ after[Len(rest) + 1] = cache[i]
          /\ \A k \in 1..Len(rest) : after[k] = rest[k]
      BY <2>6, <2>7, AppendAt
    <3> HIDE DEF after
    <3> QED BY <3>1, <2>6, <2>1, <2>2
  <2> HIDE DEF after
  <2> DEFINE from(k) == IF k < i THEN k ELSE IF k = n THEN i ELSE k + 1
  <2>9. ASSUME NEW k \in 1..n
        PROVE  from(k) \in 1..n /\ after[k] = cache[from(k)]
    <3>1. CASE k < i
      <4>1. k \in 1..(n - 1) /\ k \in 1..(i - 1)  BY <3>1, <2>1, <2>2
      <4> QED BY <4>1, <3>1, <2>8, <2>6
    <3>2. CASE k >= i /\ k = n  BY <3>2, <2>8, <2>2
    <3>3. CASE k >= i /\ k # n
      <4>1. k \in 1..(n - 1) /\ (k - i) + 1 \in 1..(n - i)  BY <3>3, <2>1, <2>2
      <4>2. rest[(i - 1) + ((k - i) + 1)] = cache[i + ((k - i) + 1)]
        BY <4>1, <2>6
      <4>3. (i - 1) + ((k - i) + 1) = k /\ i + ((k - i) + 1) = k + 1
        BY <2>1, <2>2
      <4> QED BY <4>1, <4>2, <4>3, <3>3, <2>8, <2>1, <2>2
    <3> QED BY <3>1, <3>2, <3>3, <2>1, <2>2
  <2>10. OnePerKey(after)
    <3> SUFFICES ASSUME NEW k \in 1..n, NEW l \in 1..n,
                        after[k].key = after[l].key
                 PROVE  k = l
      BY <2>8 DEF OnePerKey
    <3>1. /\ from(k) \in 1..n /\ after[k] = cache[from(k)]
          /\ from(l) \in 1..n /\ after[l] = cache[from(l)]
      BY <2>9
    <3>2. from(k) = from(l)
      <4> HIDE DEF from
      <4> QED BY <3>1, <2>1 DEF OnePerKey, n
    <3> QED BY <3>2, <2>1, <2>2
  <2> QED BY <2>1, <2>3, <2>8, <2>10 DEF Sound, E
<1> QED BY <1>1, <1>2

(* put: the entry is bottom, no other has its key, and the oldest went.      *)
LEMMA PutKeeps ==
    ASSUME Matrix!MapIsKnown, NEW x, NEW cache, Sound(cache, x),
           NEW k \in Pairs, NEW e \in 1..x
    PROVE  Sound(Matrix!CachePut(cache, k, SaidOf(e, k)), x)
<1> DEFINE E == EntriesOf(x)
           wanted == {entry \in ToSet(cache) : entry.key # k}
           new == [key |-> k, value |-> SaidOf(e, k)]
           others == Kept(cache, wanted)
           all == Append(others, new)
           m == Len(others)
           onset == (m + 1) - MatrixEntries + 1
           latest == SubSeq(all, onset, m + 1)
<1>1. cache \in Seq(E) /\ OnePerKey(cache) /\ MatrixEntries \in Nat
  BY DEF Sound, Matrix!MapIsKnown
<1>2. new \in E  BY EntryIs
<1>3. IsInjective(cache)  BY <1>1 DEF OnePerKey, IsInjective
<1>4. /\ others \in Seq(E) /\ ToSet(others) = ToSet(cache) \cap wanted
      /\ IsInjective(others)
  <2> HIDE DEF E, wanted
  <2> QED BY <1>1, <1>3, KeptSelects
<1>5. new.key = k  OBVIOUS
<1> HIDE DEF E, new, others
<1>6. /\ m \in Nat
      /\ \A i \in 1..m : others[i] \in ToSet(cache) /\ others[i].key # k
  <2>1. \A i \in 1..m : others[i] \in ToSet(others)  BY <1>4 DEF ToSet
  <2> QED BY <2>1, <1>4
<1>7. /\ all \in Seq(E) /\ DOMAIN all = 1..(m + 1) /\ all[m + 1] = new
      /\ \A i \in 1..m : all[i] = others[i]
  BY <1>2, <1>4, AppendAt
<1>8. Len(all) = m + 1  BY <1>6, <1>7
<1> HIDE DEF all
<1>9. OnePerKey(all)
  <2> SUFFICES ASSUME NEW i \in 1..(m + 1), NEW j \in 1..(m + 1),
                      all[i].key = all[j].key
               PROVE  i = j
    BY <1>8 DEF OnePerKey
  <2>1. CASE i \in 1..m /\ j \in 1..m
    <3>1. others[i].key = others[j].key  BY <2>1, <1>7
    <3>2. others[i] \in ToSet(cache) /\ others[j] \in ToSet(cache)
      BY <2>1, <1>6
    <3>3. others[i] = others[j]  BY <3>1, <3>2, <1>1 DEF OnePerKey, ToSet
    <3> QED BY <3>3, <2>1, <1>4 DEF IsInjective
  <2>2. CASE i = m + 1 /\ j \in 1..m
    <3>1. all[j].key # k /\ all[i].key = k  BY <2>2, <1>5, <1>6, <1>7
    <3> QED BY <3>1
  <2>3. CASE j = m + 1 /\ i \in 1..m
    <3>1. all[i].key # k /\ all[j].key = k  BY <2>3, <1>5, <1>6, <1>7
    <3> QED BY <3>1
  <2> QED BY <2>1, <2>2, <2>3, <1>6
<1>10. Matrix!CachePut(cache, k, SaidOf(e, k)) =
            IF m + 1 > MatrixEntries THEN latest ELSE all
  <2>1. Matrix!CachePut(cache, k, SaidOf(e, k)) =
            IF Len(all) > MatrixEntries
            THEN SubSeq(all, Len(all) - MatrixEntries + 1, Len(all)) ELSE all
    BY SameKept, SameToSet DEF Matrix!CachePut, all, others, new
  <2> QED BY <2>1, <1>8
<1>11. CASE m + 1 <= MatrixEntries
  <2>1. Matrix!CachePut(cache, k, SaidOf(e, k)) = all
    BY <1>10, <1>11, <1>1, <1>6
  <2> QED BY <2>1, <1>7, <1>8, <1>9, <1>11 DEF Sound, E
<1>12. CASE m + 1 > MatrixEntries
  <2>1. onset \in 1..(m + 2)  BY <1>12, <1>1, <1>6
  <2>2. /\ latest \in Seq(E) /\ Len(latest) = MatrixEntries
        /\ \A i \in 1..MatrixEntries : latest[i] = all[(onset + i) - 1]
    <3> DEFINE first == onset
    <3>1. first \in 1..(m + 2) /\ (m + 1) - first + 1 = MatrixEntries
      BY <2>1, <1>1, <1>6
    <3> HIDE DEF first
    <3>2. /\ SubSeq(all, first, m + 1) \in Seq(E)
          /\ Len(SubSeq(all, first, m + 1)) = MatrixEntries
          /\ \A i \in 1..MatrixEntries : SubSeq(all, first, m + 1)[i] = all[(first + i) - 1]
      BY <3>1, <1>1, <1>6, <1>7, <1>8
    <3> QED BY <3>2 DEF first
  <2>3. OnePerKey(latest)
    <3> HIDE DEF latest
    <3> SUFFICES ASSUME NEW i \in 1..MatrixEntries, NEW j \in 1..MatrixEntries,
                        latest[i].key = latest[j].key
                 PROVE  i = j
      BY <2>2 DEF OnePerKey
    <3>1. (onset + i) - 1 \in 1..(m + 1) /\ (onset + j) - 1 \in 1..(m + 1)
      BY <2>1, <1>1, <1>6
    <3>2. all[(onset + i) - 1].key = all[(onset + j) - 1].key  BY <2>2
    <3>3. (onset + i) - 1 = (onset + j) - 1
      BY <3>1, <3>2, <1>8, <1>9 DEF OnePerKey
    <3> QED BY <3>3, <2>1
  <2>4. Matrix!CachePut(cache, k, SaidOf(e, k)) = latest
    BY <1>10, <1>12, Zenon
  <2> HIDE DEF latest
  <2> QED BY <2>2, <2>3, <2>4, <1>1 DEF Sound, E
<1> QED BY <1>11, <1>12, <1>1, <1>6

-----------------------------------------------------------------------------
(* The cache after a tile was asked for, and after it was told.            *)

Square(size) == (0..(size - 1)) \X (0..(size - 1))

LEMMA KeyOfCell ==
    ASSUME locations \in Seq(Int), NEW c \in Square(Len(locations))
    PROVE  Matrix!KeyOf(c) \in Pairs
<1>1. c[1] + 1 \in 1..Len(locations) /\ c[2] + 1 \in 1..Len(locations)
  BY DEF Square
<1>2. locations[c[1] + 1] \in Int /\ locations[c[2] + 1] \in Int  BY <1>1
<1>3. \A a \in Int : Matrix!Doorway(a) \in Int
  BY DEF Matrix!Doorway, Matrix!GRAIN
<1>4. /\ Matrix!Doorway(locations[c[1] + 1]) \in Int
      /\ Matrix!Doorway(locations[c[2] + 1]) \in Int
  BY <1>2, <1>3
<1> QED BY <1>4 DEF Matrix!KeyOf, Matrix!Key, Pairs

Asks(g, cells, k) ==
    g = [n \in 0..k |-> IF n = 0 THEN entries
                       ELSE Matrix!CacheGet(g[n - 1], Matrix!KeyOf(cells[n]))]

LEMMA AsksExists ==
    ASSUME NEW S, NEW cells \in Seq(S), NEW k \in 0..Len(cells)
    PROVE  \E g : Asks(g, cells, k)
<1> DEFINE Bad == {n \in 0..Len(cells) : ~\E g : Asks(g, cells, n)}
<1>1. SUFFICES ASSUME Bad # {} PROVE FALSE  OBVIOUS
<1>2. PICK n \in Bad : \A m \in Bad : n <= m
  <2>1. Bad \subseteq Nat  OBVIOUS
  <2> HIDE DEF Bad
  <2> QED BY <1>1, <2>1, LeastElement
<1>3. CASE n = 0
  <2>1. Asks([i \in 0..0 |-> entries], cells, 0)  BY DEF Asks
  <2> QED BY <1>2, <1>3, <2>1
<1>4. CASE n # 0
  <2>1. n - 1 \in 0..Len(cells) /\ n - 1 \notin Bad  BY <1>2, <1>4
  <2>2. PICK g : Asks(g, cells, n - 1)  BY <2>1
  <2> DEFINE final == Matrix!CacheGet(g[n - 1], Matrix!KeyOf(cells[n]))
             h == [i \in 0..n |-> IF i = n THEN final ELSE g[i]]
  <2>3. ASSUME NEW i \in 0..n
        PROVE  h[i] = IF i = 0 THEN entries
                      ELSE Matrix!CacheGet(h[i - 1], Matrix!KeyOf(cells[i]))
    <3>1. CASE i = n  BY <3>1, <1>4
    <3>2. CASE i # n
      <4>1. h[i] = g[i] /\ (i # 0 => h[i - 1] = g[i - 1])  BY <3>2
      <4>2. i \in 0..(n - 1)  BY <3>2
      <4> HIDE DEF h
      <4> QED BY <2>2, <4>1, <4>2 DEF Asks
    <3> QED BY <3>1, <3>2
  <2>4. Asks(h, cells, n)
    <3> HIDE DEF final
    <3> QED BY <2>3 DEF Asks
  <2> QED BY <2>4, <1>2
<1> QED BY <1>3, <1>4

LEMMA AskedKeeps ==
    ASSUME Matrix!MapIsKnown, NEW x, Sound(entries, x), NEW S,
           NEW cells \in Seq(S)
    PROVE  Sound(Matrix!AskedFor(cells), x)
<1>1. PICK g : Asks(g, cells, Len(cells)) /\ Matrix!AskedFor(cells) = g[Len(cells)]
  <2>1. Len(cells) \in 0..Len(cells)  OBVIOUS
  <2>2. \E g : Asks(g, cells, Len(cells))  BY <2>1, AsksExists
  <2> QED BY <2>2 DEF Matrix!AskedFor, Asks
<1> DEFINE Bad == {n \in 0..Len(cells) : ~Sound(g[n], x)}
<1>2. Bad = {}
  <2> SUFFICES ASSUME Bad # {} PROVE FALSE  OBVIOUS
  <2>1. PICK n \in Bad : \A m \in Bad : n <= m
    <3>1. Bad \subseteq Nat  OBVIOUS
    <3> HIDE DEF Bad
    <3> QED BY <3>1, LeastElement
  <2>2. g[n] = IF n = 0 THEN entries ELSE Matrix!CacheGet(g[n - 1], Matrix!KeyOf(cells[n]))
    BY <1>1 DEF Asks
  <2>3. n # 0  BY <2>1, <2>2
  <2>4. n - 1 \in 0..Len(cells) /\ n - 1 \notin Bad  BY <2>1, <2>3
  <2>5. Sound(g[n - 1], x)  BY <2>4
  <2>6. Sound(g[n], x)  BY <2>2, <2>3, <2>5, GetKeeps
  <2> QED BY <2>1, <2>6
<1>3. Len(cells) \in 0..Len(cells)  OBVIOUS
<1> QED BY <1>1, <1>2, <1>3

Fills(g, cache, cells, values, k) ==
    g = [n \in 0..k |-> IF n = 0 THEN cache
                       ELSE Matrix!CachePut(g[n - 1], Matrix!KeyOf(cells[n]), values[n])]

LEMMA FillsExists ==
    ASSUME NEW S, NEW cache, NEW cells \in Seq(S), NEW values,
           NEW k \in 0..Len(cells)
    PROVE  \E g : Fills(g, cache, cells, values, k)
<1> DEFINE Bad == {n \in 0..Len(cells) : ~\E g : Fills(g, cache, cells, values, n)}
<1>1. SUFFICES ASSUME Bad # {} PROVE FALSE  OBVIOUS
<1>2. PICK n \in Bad : \A m \in Bad : n <= m
  <2>1. Bad \subseteq Nat  OBVIOUS
  <2> HIDE DEF Bad
  <2> QED BY <1>1, <2>1, LeastElement
<1>3. CASE n = 0
  <2>1. Fills([i \in 0..0 |-> cache], cache, cells, values, 0)  BY DEF Fills
  <2> QED BY <1>2, <1>3, <2>1
<1>4. CASE n # 0
  <2>1. n - 1 \in 0..Len(cells) /\ n - 1 \notin Bad  BY <1>2, <1>4
  <2>2. PICK g : Fills(g, cache, cells, values, n - 1)  BY <2>1
  <2> DEFINE final == Matrix!CachePut(g[n - 1], Matrix!KeyOf(cells[n]), values[n])
             h == [i \in 0..n |-> IF i = n THEN final ELSE g[i]]
  <2>3. ASSUME NEW i \in 0..n
        PROVE  h[i] = IF i = 0 THEN cache
                      ELSE Matrix!CachePut(h[i - 1], Matrix!KeyOf(cells[i]), values[i])
    <3>1. CASE i = n  BY <3>1, <1>4
    <3>2. CASE i # n
      <4>1. h[i] = g[i] /\ (i # 0 => h[i - 1] = g[i - 1])  BY <3>2
      <4>2. i \in 0..(n - 1)  BY <3>2
      <4> HIDE DEF h
      <4> QED BY <2>2, <4>1, <4>2 DEF Fills
    <3> QED BY <3>1, <3>2
  <2>4. Fills(h, cache, cells, values, n)
    <3> HIDE DEF final
    <3> QED BY <2>3 DEF Fills
  <2> QED BY <2>4, <1>2
<1> QED BY <1>3, <1>4

LEMMA FilledKeeps ==
    ASSUME Matrix!MapIsKnown, locations \in Seq(Int), NEW x, NEW cache,
           Sound(cache, x),
           NEW cells \in Seq(Square(Len(locations))), NEW values,
           \A n \in 1..Len(cells) :
                \E e \in 1..x : values[n] = SaidOf(e, Matrix!KeyOf(cells[n]))
    PROVE  Sound(Matrix!Filled(cache, cells, values), x)
<1>1. PICK g : /\ Fills(g, cache, cells, values, Len(cells))
               /\ Matrix!Filled(cache, cells, values) = g[Len(cells)]
  <2>1. Len(cells) \in 0..Len(cells)  OBVIOUS
  <2>2. \E g : Fills(g, cache, cells, values, Len(cells))  BY <2>1, FillsExists
  <2> QED BY <2>2 DEF Matrix!Filled, Fills
<1> DEFINE Bad == {n \in 0..Len(cells) : ~Sound(g[n], x)}
<1>2. Bad = {}
  <2> SUFFICES ASSUME Bad # {} PROVE FALSE  OBVIOUS
  <2>1. PICK n \in Bad : \A m \in Bad : n <= m
    <3>1. Bad \subseteq Nat  OBVIOUS
    <3> HIDE DEF Bad
    <3> QED BY <3>1, LeastElement
  <2>2. g[n] = IF n = 0 THEN cache
               ELSE Matrix!CachePut(g[n - 1], Matrix!KeyOf(cells[n]), values[n])
    BY <1>1 DEF Fills
  <2>3. n # 0  BY <2>1, <2>2
  <2>4. n - 1 \in 0..Len(cells) /\ n - 1 \notin Bad  BY <2>1, <2>3
  <2>5. Sound(g[n - 1], x)  BY <2>4
  <2>6. n \in 1..Len(cells) /\ cells[n] \in Square(Len(locations))  BY <2>3
  <2>7. Matrix!KeyOf(cells[n]) \in Pairs  BY <2>6, KeyOfCell
  <2>8. PICK e \in 1..x : values[n] = SaidOf(e, Matrix!KeyOf(cells[n]))
    BY <2>6
  <2>9. Sound(Matrix!CachePut(g[n - 1], Matrix!KeyOf(cells[n]), values[n]), x)
    BY <2>5, <2>7, <2>8, PutKeeps
  <2> QED BY <2>1, <2>2, <2>3, <2>9
<1>3. Len(cells) \in 0..Len(cells)  OBVIOUS
<1> QED BY <1>1, <1>2, <1>3

-----------------------------------------------------------------------------
(* The request and its answer.                                             *)

LEMMA TileIsFinite ==
    ASSUME NEW size \in Nat, NEW tile \in TilesOf(size)
    PROVE  /\ tile.sources \in SUBSET (0..(size - 1))
           /\ IsFiniteSet(tile.sources)
           /\ tile.destinations \in SUBSET (0..(size - 1))
           /\ IsFiniteSet(tile.destinations)
<1>1. /\ tile.sources \in SUBSET (0..(size - 1))
      /\ tile.destinations \in SUBSET (0..(size - 1))
  BY DEF TilesOf
<1>2. IsFiniteSet(0..(size - 1))  BY FS_Interval
<1> QED BY <1>1, <1>2, FS_Subset

(* The coordinates a tile sends are the tile's and possibly another.       *)
LEMMA NeededIs ==
    ASSUME NEW tile \in TilesOf(Len(locations)), Len(locations) \in Nat
    PROVE  /\ Matrix!Needed(tile) \in SUBSET (0..(Len(locations) - 1))
           /\ IsFiniteSet(Matrix!Needed(tile))
           /\ tile.sources \cup tile.destinations \subseteq Matrix!Needed(tile)
<1> DEFINE all == 0..(Len(locations) - 1)
           own == tile.sources \cup tile.destinations
           others == all \ own
<1>1. own \in SUBSET all /\ IsFiniteSet(all)
  <2>1. tile.sources \in SUBSET all /\ tile.destinations \in SUBSET all
    BY DEF TilesOf
  <2>2. IsFiniteSet(all)  BY FS_Interval
  <2> QED BY <2>1, <2>2
<1>2. all \subseteq Nat  OBVIOUS
<1>3. Matrix!Needed(tile) = IF Cardinality(own) < 2 /\ others # {} THEN own \cup {Min(others)}
                     ELSE own
  BY SameCardinality, SameMin DEF Matrix!Needed
<1>4. others # {} => Min(others) \in others
  <2> SUFFICES ASSUME others # {} PROVE Min(others) \in others  OBVIOUS
  <2>1. others \subseteq Nat  BY <1>2
  <2> HIDE DEF others
  <2>2. PICK x \in others : \A y \in others : x <= y  BY <2>1, LeastElement
  <2>3. others \in SUBSET Int  BY <2>1
  <2>4. x = Min(others)  BY <2>2, <2>3, LeastIsMin
  <2> QED BY <2>2, <2>4
<1>5. Matrix!Needed(tile) \in SUBSET all /\ own \subseteq Matrix!Needed(tile)
  BY <1>1, <1>3, <1>4
<1>6. IsFiniteSet(Matrix!Needed(tile))  BY <1>1, <1>5, FS_Subset
<1> QED BY <1>5, <1>6

(* Renumbered into the request and back, a cell is answered as itself.     *)
LEMMA AnswersAreOfCells ==
    ASSUME locations \in Seq(Int), NEW tile \in TilesOf(Len(locations)),
           NEW n \in DOMAIN Matrix!CellsOf(tile)
    PROVE  Matrix!Answered(tile)[n] = SaidOf(extract, Matrix!KeyOf(Matrix!CellsOf(tile)[n]))
<1> DEFINE S == tile.sources
           D == tile.destinations
           rows == Ascending(S)
           columns == Ascending(D)
           p == Len(rows)
           q == Len(columns)
           cells == Matrix!CellsOf(tile)
           Both == Matrix!Needed(tile)
           needed == Ascending(Both)
           Local(i) == CHOOSE l \in DOMAIN needed : needed[l] = i
           coordinates == [l \in DOMAIN needed |-> locations[needed[l] + 1]]
           sources == [l \in DOMAIN rows |-> Local(rows[l])]
           destinations == [l \in DOMAIN columns |-> Local(columns[l])]
           r == 1 + ((n - 1) \div q)
           c == 1 + ((n - 1) % q)
<1>1. /\ S \in SUBSET Int /\ IsFiniteSet(S)
      /\ D \in SUBSET Int /\ IsFiniteSet(D)
      /\ Both \in SUBSET Int /\ IsFiniteSet(Both)
      /\ S \subseteq Both /\ D \subseteq Both /\ Both \subseteq 0..(Len(locations) - 1)
  <2>1. Len(locations) \in Nat  OBVIOUS
  <2>2. /\ S \in SUBSET (0..(Len(locations) - 1)) /\ IsFiniteSet(S)
        /\ D \in SUBSET (0..(Len(locations) - 1)) /\ IsFiniteSet(D)
    BY <2>1, TileIsFinite
  <2>3. /\ Both \in SUBSET (0..(Len(locations) - 1)) /\ IsFiniteSet(Both)
        /\ S \cup D \subseteq Both
    BY <2>1, NeededIs
  <2>4. 0..(Len(locations) - 1) \subseteq Int  OBVIOUS
  <2> HIDE DEF S, D, Both
  <2> QED BY <2>2, <2>3, <2>4
<1>2. Matrix!Request(tile) = [coordinates |-> coordinates, sources |-> sources,
                       destinations |-> destinations]
  <2>1. /\ Matrix!Ascending(Both) = needed
        /\ Matrix!Ascending(S) = rows /\ Matrix!Ascending(D) = columns
    BY SameAscending
  <2> QED BY <2>1 DEF Matrix!Request
<1>3. cells = [l \in 1..(p * q) |-> <<rows[1 + ((l - 1) \div q)],
                                    columns[1 + ((l - 1) % q)]>>]
  BY SameAscending, Zenon DEF Matrix!CellsOf
<1>4. Matrix!Answered(tile) = [l \in DOMAIN cells |->
            Matrix!Whole(Matrix!Respond(Matrix!Request(tile))[1 + ((l - 1) \div Cardinality(D))]
                                        [1 + ((l - 1) % Cardinality(D))])]
  BY SameCardinality, Zenon DEF Matrix!Answered
<1>5. /\ rows \in Seq(S) /\ columns \in Seq(D) /\ q = Cardinality(D)
      /\ needed \in Seq(Both) /\ ToSet(needed) = Both
  <2> HIDE DEF S, D, Both
  <2> QED BY <1>1, AscendingLists
<1>6. DOMAIN rows = 1..p /\ DOMAIN columns = 1..q /\ p \in Nat /\ q \in Nat
  BY <1>5
<1> HIDE DEF S, D, rows, columns, p, q, Both, needed
<1>7. p * q \in Nat /\ DOMAIN cells = 1..(p * q)  BY <1>3, <1>6
<1>8. r \in 1..p /\ c \in 1..q  BY <1>6, <1>7, RowByRow
<1>9. cells[n] = <<rows[r], columns[c]>>  BY <1>3, <1>7
<1>10. Matrix!Answered(tile)[n] = Matrix!Whole(Matrix!Respond(Matrix!Request(tile))[r][c])
  BY <1>4, <1>5
<1> HIDE DEF cells, r, c
<1>11. ASSUME NEW i \in Both
       PROVE  /\ Local(i) \in DOMAIN needed
              /\ coordinates[Local(i)] = locations[i + 1]
  <2>1. \E l \in DOMAIN needed : needed[l] = i  BY <1>5 DEF ToSet
  <2>2. Local(i) \in DOMAIN needed /\ needed[Local(i)] = i  BY <2>1
  <2> HIDE DEF Local
  <2> QED BY <2>2
<1> HIDE DEF Local, coordinates
<1>12. rows[r] \in Both /\ columns[c] \in Both
  <2>1. rows[r] \in S /\ columns[c] \in D  BY <1>5, <1>6, <1>8
  <2>2. S \subseteq Both /\ D \subseteq Both  BY <1>1
  <2> QED BY <2>1, <2>2
<1>13. sources[r] = Local(rows[r]) /\ destinations[c] = Local(columns[c])
  BY <1>6, <1>8
<1>14. DOMAIN sources = 1..p /\ DOMAIN destinations = 1..q  BY <1>6
<1> HIDE DEF sources, destinations
<1>15. Matrix!Respond(Matrix!Request(tile))[r][c] =
        MatrixTravel(extract, Matrix!Doorway(coordinates[sources[r]]),
                        Matrix!Doorway(coordinates[destinations[c]]))
  BY <1>2, <1>8, <1>14 DEF Matrix!Respond
<1>16. coordinates[sources[r]] = locations[rows[r] + 1]
       /\ coordinates[destinations[c]] = locations[columns[c] + 1]
  BY <1>11, <1>12, <1>13
<1>17. Matrix!KeyOf(cells[n]) = <<Matrix!Doorway(locations[rows[r] + 1]),
                           Matrix!Doorway(locations[columns[c] + 1])>>
  BY <1>9 DEF Matrix!KeyOf, Matrix!Key
<1>18. SaidOf(extract, Matrix!KeyOf(cells[n]))
            = Matrix!Whole(Matrix!Respond(Matrix!Request(tile))[r][c])
  <2>1. /\ Matrix!KeyOf(cells[n])[1] = Matrix!Doorway(locations[rows[r] + 1])
        /\ Matrix!KeyOf(cells[n])[2] = Matrix!Doorway(locations[columns[c] + 1])
    BY <1>17
  <2>2. Matrix!Respond(Matrix!Request(tile))[r][c] =
            MatrixTravel(extract, Matrix!KeyOf(cells[n])[1], Matrix!KeyOf(cells[n])[2])
    BY <1>15, <1>16, <2>1, Zenon
  <2> QED BY <2>2, Zenon DEF SaidOf
<1> QED BY <1>10, <1>18 DEF cells

-----------------------------------------------------------------------------
(* The invariant.                                                          *)

TrueCell(c) == \E e \in 1..version : durations[c] = SaidOf(e, Matrix!KeyOf(c))
OwnedUp(c) ==
    /\ durations[c] = Matrix!UNREACHABLE
    /\ \E tile \in failed : Matrix!InTile(c, tile)
Awaited(c) ==
    /\ durations[c] = Matrix!UNREACHABLE
    /\ \E i \in 1..Len(todo) : Matrix!InTile(c, todo[i])

MatrixPhases ==
    /\ phase \in {"idle", "tiling", "built", "raised"}
    /\ extract \in Nat \ {0} /\ version \in Nat /\ version <= extract
    /\ phase = "tiling" => version = extract
    /\ phase = "built" => todo = <<>>
MatrixGiven ==
    phase \in {"tiling", "built"} =>
        /\ locations \in Seq(Int)
        /\ DOMAIN durations = Square(Len(locations))
        /\ todo \in Seq(TilesOf(Len(locations)))
CellsSettled ==
    phase \in {"tiling", "built"} =>
        \A c \in DOMAIN durations : TrueCell(c) \/ OwnedUp(c) \/ Awaited(c)

MatrixInv == MatrixPhases /\ MatrixGiven /\ CellsSettled /\ Sound(entries, extract)

LEMMA MatrixInit ==
    ASSUME Matrix!MapIsKnown, Matrix!Init PROVE MatrixInv
<1>1. MatrixPhases /\ MatrixGiven /\ CellsSettled
  BY DEF Matrix!Init, MatrixPhases, MatrixGiven, CellsSettled
<1>2. Sound(entries, extract)
  BY DEF Matrix!Init, Sound, OnePerKey, Matrix!MapIsKnown
<1> QED BY <1>1, <1>2 DEF MatrixInv

(* The cache vouches for every extract it vouched for before.              *)
LEMMA SoundLater ==
    ASSUME NEW x \in Nat, NEW y \in Nat, x <= y, NEW cache, Sound(cache, x)
    PROVE  Sound(cache, y)
<1>1. 1..x \subseteq 1..y  OBVIOUS
<1>2. EntriesOf(x) \subseteq EntriesOf(y)  BY <1>1 DEF EntriesOf
<1>3. cache \in Seq(EntriesOf(x))  BY DEF Sound
<1> DEFINE E == EntriesOf(x)
           F == EntriesOf(y)
<1> HIDE DEF E, F
<1>4. cache \in Seq(E) /\ E \subseteq F  BY <1>2, <1>3 DEF E, F
<1>5. \A i \in 1..Len(cache) : cache[i] \in F  BY <1>4
<1>6. cache \in Seq(F)  BY <1>4, <1>5
<1> QED BY <1>6 DEF Sound, F

LEMMA MatrixStart ==
    ASSUME Matrix!MapIsKnown, MatrixInv, NEW r \in MatrixRounds,
           Matrix!Start(r)
    PROVE  MatrixInv'
<1>1. /\ r \in Seq(Int) /\ Len(r) \in Nat  BY DEF Matrix!MapIsKnown
<1>2. /\ phase' = "tiling" /\ locations' = r /\ version' = extract
      /\ todo' = Matrix!PlanTiles(Len(r)) /\ extract' = extract
      /\ entries' = entries
      /\ durations' = [c \in Square(Len(r)) |-> Matrix!UNREACHABLE]
  BY DEF Matrix!Start, Square
<1>3. MatrixPhases'  BY <1>2 DEF MatrixPhases, MatrixInv
<1>4. /\ Matrix!PlanTiles(Len(r)) \in Seq(TilesOf(Len(r)))
      /\ \A a, b \in 0..(Len(r) - 1) : \E t \in DOMAIN Matrix!PlanTiles(Len(r)) :
            Matrix!InTile(<<a, b>>, Matrix!PlanTiles(Len(r))[t])
  <2>1. /\ Matrix!PlanTiles(Len(r)) \in Seq(TilesOf(Len(r)))
        /\ \A a, b \in 0..(Len(r) - 1) : \E t \in DOMAIN Matrix!PlanTiles(Len(r)) :
                \A u \in DOMAIN Matrix!PlanTiles(Len(r)) :
                    Matrix!InTile(<<a, b>>, Matrix!PlanTiles(Len(r))[u]) <=> u = t
    BY <1>1, TilesAreTiles
  <2> QED BY <2>1
<1>5. MatrixGiven'  BY <1>1, <1>2, <1>4 DEF MatrixGiven
<1>6. CellsSettled'
  <2> SUFFICES ASSUME NEW c \in Square(Len(r)) PROVE Awaited(c)'
    BY <1>2 DEF CellsSettled
  <2>1. durations'[c] = Matrix!UNREACHABLE  BY <1>2
  <2>2. PICK a \in 0..(Len(r) - 1), b \in 0..(Len(r) - 1) : c = <<a, b>>
    BY DEF Square
  <2>3. \E t \in DOMAIN Matrix!PlanTiles(Len(r)) :
            Matrix!InTile(c, Matrix!PlanTiles(Len(r))[t])
    BY <1>4, <2>2
  <2>4. DOMAIN todo' = 1..Len(todo')  BY <1>2, <1>4
  <2>5. \E i \in 1..Len(todo') : Matrix!InTile(c, todo'[i])
    BY <2>3, <2>4, <1>2
  <2> QED BY <2>1, <2>5 DEF Awaited, Matrix!InTile
<1>7. Sound(entries, extract)'
  BY <1>2 DEF MatrixInv, Sound, OnePerKey, EntriesOf
<1> QED BY <1>3, <1>5, <1>6, <1>7 DEF MatrixInv

(* What the cache knows of a tile is what a gateway said of it.            *)
LEMMA LookedIs ==
    ASSUME Matrix!MapIsKnown, MatrixInv, phase = "tiling",
           NEW tile \in TilesOf(Len(locations))
    PROVE  /\ Matrix!Looked(tile).hit
                \in SUBSET {c \in Square(Len(locations)) :
                                Matrix!InTile(c, tile)}
           /\ Matrix!Looked(tile).cells = [c \in DOMAIN durations |->
                    IF c \in Matrix!Looked(tile).hit THEN Matrix!ValueOf(c) ELSE durations[c]]
           /\ \A c \in Matrix!Looked(tile).hit :
                    \E e \in 1..extract :
                        Matrix!ValueOf(c) = SaidOf(e, Matrix!KeyOf(c))
           /\ Sound(Matrix!Looked(tile).cache, extract)
<1> DEFINE cells == Matrix!CellsOf(tile)
           hit == {c \in ToSet(cells) : Matrix!Known(c)}
           looked == [cache |-> Matrix!AskedFor(cells), hit |-> hit,
                      cells |-> [c \in DOMAIN durations |->
                            IF c \in hit THEN Matrix!ValueOf(c) ELSE durations[c]]]
<1>1. Matrix!Looked(tile) = looked  BY SameToSet, Zenon DEF Matrix!Looked
<1>2. locations \in Seq(Int) /\ Len(locations) \in Nat
  BY DEF MatrixInv, MatrixGiven
<1>3. ToSet(cells) = {c \in Square(Len(locations)) : Matrix!InTile(c, tile)}
  BY <1>2, CellsAreInTile DEF Square
<1>4. hit \in SUBSET {c \in Square(Len(locations)) : Matrix!InTile(c, tile)}
  BY <1>3
<1>5. ASSUME NEW c \in hit
      PROVE  \E e \in 1..extract : Matrix!ValueOf(c) = SaidOf(e, Matrix!KeyOf(c))
  <2> DEFINE i == CHOOSE j \in Matrix!Found(entries, Matrix!KeyOf(c)) : TRUE
  <2>1. Matrix!Found(entries, Matrix!KeyOf(c)) # {}  BY DEF Matrix!Known
  <2>2. i \in DOMAIN entries /\ entries[i].key = Matrix!KeyOf(c)
    BY <2>1 DEF Matrix!Found
  <2>3. Matrix!ValueOf(c) = entries[i].value  BY DEF Matrix!ValueOf
  <2> HIDE DEF i
  <2>4. entries \in Seq(EntriesOf(extract))  BY DEF MatrixInv, Sound
  <2>5. entries[i] \in EntriesOf(extract)  BY <2>2, <2>4
  <2>6. PICK k \in Pairs, e \in 1..extract :
            entries[i].key = k /\ entries[i].value = SaidOf(e, k)
    BY <2>5, EntryOf
  <2> QED BY <2>2, <2>3, <2>6
<1>6. Sound(Matrix!AskedFor(cells), extract)
  <2>1. cells \in Seq(tile.sources \X tile.destinations)
    BY <1>2, CellsOfTile
  <2>2. Sound(entries, extract)  BY DEF MatrixInv
  <2> HIDE DEF cells
  <2> QED BY <2>1, <2>2, AskedKeeps
<1>7. /\ looked.cache = Matrix!AskedFor(cells) /\ looked.hit = hit
      /\ looked.cells = [c \in DOMAIN durations |->
                            IF c \in hit THEN Matrix!ValueOf(c) ELSE durations[c]]
  <2> HIDE DEF hit, cells
  <2> QED OBVIOUS
<1> HIDE DEF looked, hit, cells
<1> QED BY <1>1, <1>4, <1>5, <1>6, <1>7

(* The first tile, and those that are left.                                *)
LEMMA FirstTile ==
    ASSUME MatrixInv, phase = "tiling", todo # <<>>
    PROVE  /\ Head(todo) \in TilesOf(Len(locations))
           /\ Tail(todo) \in Seq(TilesOf(Len(locations)))
           /\ \A c : (\E i \in 1..Len(todo) : Matrix!InTile(c, todo[i])) =>
                    \/ Matrix!InTile(c, Head(todo))
                    \/ \E i \in 1..Len(Tail(todo)) : Matrix!InTile(c, Tail(todo)[i])
<1> DEFINE T == TilesOf(Len(locations))
           rest == Tail(todo)
<1>1. todo \in Seq(T)  BY DEF MatrixInv, MatrixGiven
<1> HIDE DEF T
<1>2. /\ Head(todo) \in T /\ rest \in Seq(T) /\ Len(rest) = Len(todo) - 1
      /\ Head(todo) = todo[1]
      /\ \A i \in 1..(Len(todo) - 1) : rest[i] = todo[i + 1]
  BY <1>1
<1>3. Len(todo) \in Nat  BY <1>1
<1> HIDE DEF rest
<1>4. ASSUME NEW c, NEW i \in 1..Len(todo), Matrix!InTile(c, todo[i])
      PROVE  \/ Matrix!InTile(c, Head(todo))
             \/ \E j \in 1..Len(rest) : Matrix!InTile(c, rest[j])
  <2>1. CASE i = 1  BY <2>1, <1>2, <1>4
  <2>2. CASE i # 1
    <3>1. i - 1 \in 1..(Len(todo) - 1) /\ (i - 1) + 1 = i  BY <2>2, <1>3
    <3>2. rest[i - 1] = todo[i]  BY <3>1, <1>2
    <3>3. Matrix!InTile(c, rest[i - 1]) /\ i - 1 \in 1..Len(rest)
      BY <3>1, <3>2, <1>2, <1>4
    <3> QED BY <3>3
  <2> QED BY <2>1, <2>2
<1> QED BY <1>2, <1>4 DEF rest, T

(* A tile is dealt with: a cell of it that nobody answered is owned up to.  *)
LEMMA MatrixTile ==
    ASSUME MatrixInv, phase = "tiling", todo # <<>>, todo' = Tail(todo),
           UNCHANGED <<phase, locations, extract, version>>,
           DOMAIN durations' = DOMAIN durations, failed \subseteq failed',
           Sound(entries', extract),
           \A c \in DOMAIN durations :
                \/ /\ durations'[c] = durations[c]
                   /\ Matrix!InTile(c, Head(todo)) => Head(todo) \in failed'
                \/ \E e \in 1..extract : durations'[c] = SaidOf(e, Matrix!KeyOf(c))
    PROVE  MatrixInv'
<1>1. MatrixPhases'  BY DEF MatrixInv, MatrixPhases
<1>2. MatrixGiven'
  <2>1. /\ locations \in Seq(Int) /\ DOMAIN durations = Square(Len(locations))
    BY DEF MatrixInv, MatrixGiven
  <2>2. Tail(todo) \in Seq(TilesOf(Len(locations)))  BY FirstTile
  <2> QED BY <2>1, <2>2 DEF MatrixGiven
<1>3. CellsSettled'
  <2> SUFFICES ASSUME NEW c \in DOMAIN durations
               PROVE  TrueCell(c)' \/ OwnedUp(c)' \/ Awaited(c)'
    BY DEF CellsSettled
  <2>0. version = extract  BY DEF MatrixInv, MatrixPhases
  <2>1. Matrix!KeyOf(c)' = Matrix!KeyOf(c)  BY DEF Matrix!KeyOf
  <2>2. CASE \E e \in 1..extract : durations'[c] = SaidOf(e, Matrix!KeyOf(c))
    BY <2>0, <2>1, <2>2 DEF TrueCell, SaidOf
  <2>3. CASE /\ durations'[c] = durations[c]
             /\ Matrix!InTile(c, Head(todo)) => Head(todo) \in failed'
    <3>1. TrueCell(c) \/ OwnedUp(c) \/ Awaited(c)
      BY DEF MatrixInv, CellsSettled
    <3>2. CASE TrueCell(c)  BY <2>1, <2>3, <3>2 DEF TrueCell, SaidOf
    <3>3. CASE OwnedUp(c)  BY <2>3, <3>3 DEF OwnedUp, Matrix!InTile
    <3>4. CASE Awaited(c)
      <4>1. durations'[c] = Matrix!UNREACHABLE  BY <2>3, <3>4 DEF Awaited
      <4>2. \/ Matrix!InTile(c, Head(todo))
            \/ \E i \in 1..Len(Tail(todo)) : Matrix!InTile(c, Tail(todo)[i])
        BY <3>4, FirstTile DEF Awaited
      <4>3. CASE Matrix!InTile(c, Head(todo))
        <5>1. Head(todo) \in failed'  BY <2>3, <4>3
        <5> QED BY <4>1, <4>3, <5>1 DEF OwnedUp, Matrix!InTile
      <4>4. CASE \E i \in 1..Len(Tail(todo)) : Matrix!InTile(c, Tail(todo)[i])
        <5>1. \E i \in 1..Len(todo') : Matrix!InTile(c, todo'[i])  BY <4>4
        <5> QED BY <4>1, <5>1 DEF Awaited, Matrix!InTile
      <4> QED BY <4>2, <4>3, <4>4
    <3> QED BY <3>1, <3>2, <3>3, <3>4
  <2> QED BY <2>2, <2>3
<1>4. Sound(entries, extract)'  BY DEF Sound, OnePerKey, EntriesOf, SaidOf
<1> QED BY <1>1, <1>2, <1>3, <1>4 DEF MatrixInv

LEMMA MatrixCached ==
    ASSUME Matrix!MapIsKnown, MatrixInv, Matrix!Cached PROVE MatrixInv'
<1> DEFINE tile == Head(todo)
           looked == Matrix!Looked(tile)
<1>1. /\ phase = "tiling" /\ todo # <<>> /\ todo' = Tail(todo)
      /\ UNCHANGED <<phase, locations, extract, version>> /\ failed' = failed
      /\ looked.hit = ToSet(Matrix!CellsOf(tile))
      /\ durations' = looked.cells /\ entries' = looked.cache
  BY SameToSet DEF Matrix!Cached
<1>2. tile \in TilesOf(Len(locations))  BY <1>1, FirstTile
<1> HIDE DEF tile
<1>3. /\ looked.cells = [c \in DOMAIN durations |->
                    IF c \in looked.hit THEN Matrix!ValueOf(c) ELSE durations[c]]
      /\ \A c \in looked.hit :
                    \E e \in 1..extract :
                        Matrix!ValueOf(c) = SaidOf(e, Matrix!KeyOf(c))
      /\ Sound(looked.cache, extract)
  BY <1>1, <1>2, LookedIs
<1>4. /\ DOMAIN durations = Square(Len(locations)) /\ Len(locations) \in Nat
  BY <1>1 DEF MatrixInv, MatrixGiven
<1>5. ToSet(Matrix!CellsOf(tile)) = {c \in Square(Len(locations)) : Matrix!InTile(c, tile)}
  BY <1>2, <1>4, CellsAreInTile DEF Square
<1> HIDE DEF looked
<1>6. DOMAIN durations' = DOMAIN durations  BY <1>1, <1>3
<1>7. ASSUME NEW c \in DOMAIN durations
      PROVE  \/ durations'[c] = durations[c] /\ ~Matrix!InTile(c, tile)
             \/ \E e \in 1..extract : durations'[c] = SaidOf(e, Matrix!KeyOf(c))
  <2>1. CASE Matrix!InTile(c, tile)
    <3>1. c \in looked.hit  BY <1>1, <1>4, <1>5, <2>1
    <3>2. durations'[c] = Matrix!ValueOf(c)  BY <1>1, <1>3, <3>1
    <3> QED BY <1>3, <3>1, <3>2
  <2>2. CASE ~Matrix!InTile(c, tile)
    <3>1. c \notin looked.hit  BY <1>1, <1>5, <2>2
    <3>2. durations'[c] = durations[c]  BY <1>1, <1>3, <3>1
    <3> QED BY <3>2, <2>2
  <2> QED BY <2>1, <2>2
<1>8. Sound(entries', extract)  BY <1>1, <1>3
<1> QED BY <1>1, <1>6, <1>7, <1>8, MatrixTile DEF tile

LEMMA MatrixUnfetched ==
    ASSUME Matrix!MapIsKnown, MatrixInv, Matrix!Unfetched PROVE MatrixInv'
<1> DEFINE tile == Head(todo)
           looked == Matrix!Looked(tile)
<1>1. /\ phase = "tiling" /\ todo # <<>> /\ todo' = Tail(todo)
      /\ UNCHANGED <<phase, locations, extract, version>>
      /\ failed' = failed \cup {tile}
      /\ durations' = looked.cells /\ entries' = looked.cache
  BY DEF Matrix!Unfetched
<1>2. tile \in TilesOf(Len(locations))  BY <1>1, FirstTile
<1>3. tile \in failed' /\ failed \subseteq failed'  BY <1>1
<1> HIDE DEF tile
<1>4. /\ looked.cells = [c \in DOMAIN durations |->
                    IF c \in looked.hit THEN Matrix!ValueOf(c) ELSE durations[c]]
      /\ \A c \in looked.hit :
                    \E e \in 1..extract :
                        Matrix!ValueOf(c) = SaidOf(e, Matrix!KeyOf(c))
      /\ Sound(looked.cache, extract)
  BY <1>1, <1>2, LookedIs
<1> HIDE DEF looked
<1>5. DOMAIN durations' = DOMAIN durations  BY <1>1, <1>4
<1>6. ASSUME NEW c \in DOMAIN durations
      PROVE  \/ durations'[c] = durations[c]
             \/ \E e \in 1..extract : durations'[c] = SaidOf(e, Matrix!KeyOf(c))
  <2>1. durations'[c] = IF c \in looked.hit THEN Matrix!ValueOf(c) ELSE durations[c]
    BY <1>1, <1>4
  <2> QED BY <1>4, <2>1
<1>7. Sound(entries', extract)  BY <1>1, <1>4
<1> QED BY <1>1, <1>3, <1>5, <1>6, <1>7, MatrixTile DEF tile

LEMMA MatrixFetched ==
    ASSUME Matrix!MapIsKnown, MatrixInv, Matrix!Fetched PROVE MatrixInv'
<1> DEFINE tile == Head(todo)
           looked == Matrix!Looked(tile)
           cells == Matrix!CellsOf(tile)
           values == Matrix!Answered(tile)
           position(c) == CHOOSE n \in DOMAIN cells : cells[n] = c
<1>1. /\ phase = "tiling" /\ todo # <<>> /\ todo' = Tail(todo)
      /\ UNCHANGED <<phase, locations, extract, version>> /\ failed' = failed
      /\ durations' = [c \in DOMAIN durations |->
                IF c \in ToSet(cells) THEN values[position(c)] ELSE durations[c]]
      /\ entries' = Matrix!Filled(looked.cache, cells, values)
  BY SameToSet DEF Matrix!Fetched
<1>2. tile \in TilesOf(Len(locations))  BY <1>1, FirstTile
<1>3. /\ locations \in Seq(Int) /\ DOMAIN durations = Square(Len(locations))
      /\ Len(locations) \in Nat
  BY <1>1 DEF MatrixInv, MatrixGiven
<1> HIDE DEF tile
<1>4. Sound(looked.cache, extract)  BY <1>1, <1>2, LookedIs
<1>5. ToSet(cells) = {c \in Square(Len(locations)) : Matrix!InTile(c, tile)}
  BY <1>2, <1>3, CellsAreInTile DEF Square
<1>6. cells \in Seq(Square(Len(locations)))
  <2>1. cells \in Seq(tile.sources \X tile.destinations)
    BY <1>2, <1>3, CellsOfTile
  <2>2. \A n \in 1..Len(cells) : cells[n] \in Square(Len(locations))
    <3> HIDE DEF cells
    <3>1. \A n \in 1..Len(cells) : cells[n] \in ToSet(cells)  BY <2>1 DEF ToSet
    <3> QED BY <3>1, <1>5
  <2> HIDE DEF cells
  <2> QED BY <2>1, <2>2
<1>7. \A n \in DOMAIN cells : values[n] = SaidOf(extract, Matrix!KeyOf(cells[n]))
  BY <1>2, <1>3, AnswersAreOfCells
<1>8. extract \in 1..extract  BY DEF MatrixInv, MatrixPhases
<1> HIDE DEF looked, cells, values
<1>9. Sound(entries', extract)
  <2>1. \A n \in 1..Len(cells) :
            \E e \in 1..extract : values[n] = SaidOf(e, Matrix!KeyOf(cells[n]))
    BY <1>6, <1>7, <1>8
  <2> QED BY <1>1, <1>3, <1>4, <1>6, <2>1, FilledKeeps
<1>10. ASSUME NEW c \in DOMAIN durations
       PROVE  \/ durations'[c] = durations[c] /\ ~Matrix!InTile(c, tile)
              \/ \E e \in 1..extract : durations'[c] = SaidOf(e, Matrix!KeyOf(c))
  <2>1. CASE Matrix!InTile(c, tile)
    <3>1. c \in ToSet(cells)  BY <1>3, <1>5, <2>1
    <3>2. \E n \in DOMAIN cells : cells[n] = c  BY <3>1 DEF ToSet
    <3>3. position(c) \in DOMAIN cells /\ cells[position(c)] = c  BY <3>2
    <3>4. durations'[c] = values[position(c)]  BY <1>1, <3>1
    <3> HIDE DEF position
    <3>5. durations'[c] = SaidOf(extract, Matrix!KeyOf(c))  BY <3>3, <3>4, <1>7
    <3> QED BY <3>5, <1>8
  <2>2. CASE ~Matrix!InTile(c, tile)
    <3>1. c \notin ToSet(cells)  BY <1>5, <2>2
    <3>2. durations'[c] = durations[c]  BY <1>1, <3>1
    <3> QED BY <3>2, <2>2
  <2> QED BY <2>1, <2>2
<1>11. DOMAIN durations' = DOMAIN durations  BY <1>1
<1> HIDE DEF position
<1> QED BY <1>1, <1>9, <1>10, <1>11, MatrixTile DEF tile

LEMMA MatrixNext ==
    ASSUME Matrix!MapIsKnown, MatrixInv, Matrix!Next \/ UNCHANGED Matrix!vars
    PROVE  MatrixInv'
<1>1. ASSUME NEW r \in MatrixRounds, Matrix!Start(r) PROVE MatrixInv'
  BY <1>1, MatrixStart
<1>2. ASSUME NEW r \in MatrixRounds, Matrix!SnapRaises(r) PROVE MatrixInv'
  <2>1. /\ phase' = "raised" /\ version' = extract /\ extract' = extract
        /\ entries' = entries
    BY <1>2 DEF Matrix!SnapRaises
  <2> QED BY <2>1 DEF MatrixInv, MatrixPhases, MatrixGiven, CellsSettled,
                      Sound, OnePerKey, EntriesOf
<1>3. CASE Matrix!Cached  BY <1>3, MatrixCached
<1>4. CASE Matrix!Fetched  BY <1>4, MatrixFetched
<1>5. CASE Matrix!Unfetched  BY <1>5, MatrixUnfetched
<1>6. CASE Matrix!Finish
  <2>1. /\ phase = "tiling" /\ phase' = "built" /\ todo = <<>>
        /\ UNCHANGED <<locations, extract, version, todo, durations, failed, entries>>
    BY <1>6 DEF Matrix!Finish
  <2>2. MatrixPhases' /\ MatrixGiven'
    BY <2>1 DEF MatrixInv, MatrixPhases, MatrixGiven
  <2>3. CellsSettled'
    BY <2>1
       DEF MatrixInv, CellsSettled, TrueCell, OwnedUp, Awaited, Matrix!InTile,
           SaidOf, Matrix!KeyOf
  <2>4. Sound(entries, extract)'
    BY <2>1 DEF MatrixInv, Sound, OnePerKey, EntriesOf
  <2> QED BY <2>2, <2>3, <2>4 DEF MatrixInv
<1>7. CASE Matrix!Reimport
  <2>1. /\ phase # "tiling" /\ extract' = extract + 1
        /\ UNCHANGED <<phase, locations, version, todo, durations, failed, entries>>
    BY <1>7 DEF Matrix!Reimport
  <2>2. MatrixPhases' /\ MatrixGiven'
    BY <2>1 DEF MatrixInv, MatrixPhases, MatrixGiven
  <2>3. CellsSettled'
    BY <2>1
       DEF MatrixInv, CellsSettled, TrueCell, OwnedUp, Awaited, Matrix!InTile,
           SaidOf, Matrix!KeyOf
  <2>4. Sound(entries, extract + 1)
    BY SoundLater DEF MatrixInv, MatrixPhases
  <2>5. Sound(entries, extract)'
    BY <2>1, <2>4 DEF Sound, OnePerKey, EntriesOf
  <2> QED BY <2>2, <2>3, <2>5 DEF MatrixInv
<1>8. CASE UNCHANGED Matrix!vars
  BY <1>8 DEF Matrix!vars, MatrixInv, MatrixPhases, MatrixGiven, CellsSettled,
              TrueCell, OwnedUp, Awaited, Matrix!InTile, SaidOf, Matrix!KeyOf,
              Sound, OnePerKey, EntriesOf
<1>9. CASE Matrix!Done  BY <1>8, <1>9 DEF Matrix!Done
<1> QED BY <1>1, <1>2, <1>3, <1>4, <1>5, <1>6, <1>7, <1>8, <1>9 DEF Matrix!Next

(* What the invariant says of the run's properties.                        *)
LEMMA MatrixSays ==
    ASSUME Matrix!MapIsKnown, MatrixInv
    PROVE  /\ Matrix!TilesCoverOnce /\ Matrix!CacheIsTrue
           /\ Matrix!EveryCellIsTrueOrOwnedUp
<1>1. Matrix!TilesCoverOnce
  <2> SUFFICES ASSUME phase = "tiling"
               PROVE  LET tiles == Matrix!PlanTiles(Len(locations)) IN
                      /\ \A c \in DOMAIN durations :
                            Cardinality({t \in DOMAIN tiles : Matrix!InTile(c, tiles[t])}) = 1
                      /\ \A t \in DOMAIN tiles :
                            Len(Matrix!CellsOf(tiles[t])) <= MatrixCells
    BY SameCardinality DEF Matrix!TilesCoverOnce
  <2> DEFINE tiles == Matrix!PlanTiles(Len(locations))
  <2>1. /\ DOMAIN durations = Square(Len(locations)) /\ Len(locations) \in Nat
    BY DEF MatrixInv, MatrixGiven
  <2>2. /\ \A a, b \in 0..(Len(locations) - 1) : \E t \in DOMAIN tiles :
                \A u \in DOMAIN tiles : Matrix!InTile(<<a, b>>, tiles[u]) <=> u = t
        /\ \A t \in DOMAIN tiles : Len(Matrix!CellsOf(tiles[t])) <= MatrixCells
    BY <2>1, TilesAreTiles
  <2> HIDE DEF tiles
  <2>3. ASSUME NEW c \in DOMAIN durations
        PROVE  Cardinality({t \in DOMAIN tiles : Matrix!InTile(c, tiles[t])}) = 1
    <3>1. PICK a \in 0..(Len(locations) - 1), b \in 0..(Len(locations) - 1) :
                c = <<a, b>>
      BY <2>1 DEF Square
    <3>2. PICK t \in DOMAIN tiles : \A u \in DOMAIN tiles :
                Matrix!InTile(c, tiles[u]) <=> u = t
      BY <2>2, <3>1
    <3>3. {u \in DOMAIN tiles : Matrix!InTile(c, tiles[u])} = {t}  BY <3>2
    <3>4. Cardinality({t}) = 1  BY FS_Singleton
    <3> QED BY <3>3, <3>4
  <2> QED BY <2>2, <2>3 DEF tiles
<1>2. Matrix!CacheIsTrue
  <2>1. entries \in Seq(EntriesOf(extract)) /\ Len(entries) <= MatrixEntries
        /\ OnePerKey(entries)
    BY DEF MatrixInv, Sound
  <2>2. DOMAIN entries = 1..Len(entries)  BY <2>1
  <2>3. ASSUME NEW i \in DOMAIN entries
        PROVE  \E e \in 1..extract : entries[i].value =
                    Matrix!Whole(MatrixTravel(e, entries[i].key[1], entries[i].key[2]))
    <3>1. entries[i] \in EntriesOf(extract)  BY <2>1
    <3>2. PICK k \in Pairs, e \in 1..extract :
                entries[i].key = k /\ entries[i].value = SaidOf(e, k)
      BY <3>1, EntryOf
    <3> QED BY <3>2 DEF SaidOf
  <2> QED BY <2>1, <2>2, <2>3 DEF Matrix!CacheIsTrue, OnePerKey
<1>3. Matrix!EveryCellIsTrueOrOwnedUp
  <2> SUFFICES ASSUME phase = "built", NEW c \in DOMAIN durations
               PROVE  \/ \E e \in 1..version :
                            durations[c] = Matrix!BuildMatrix(locations, e)[c]
                      \/ /\ durations[c] = Matrix!UNREACHABLE /\ Matrix!Degraded
                         /\ \E tile \in failed : Matrix!InTile(c, tile)
    BY DEF Matrix!EveryCellIsTrueOrOwnedUp
  <2>1. DOMAIN durations = Square(Len(locations)) /\ todo = <<>>
    BY DEF MatrixInv, MatrixGiven, MatrixPhases
  <2>2. TrueCell(c) \/ OwnedUp(c) \/ Awaited(c)  BY DEF MatrixInv, CellsSettled
  <2>3. ~Awaited(c)  BY <2>1 DEF Awaited
  <2>4. CASE TrueCell(c)
    <3>1. PICK e \in 1..version : durations[c] = SaidOf(e, Matrix!KeyOf(c))
      BY <2>4 DEF TrueCell
    <3>2. Matrix!BuildMatrix(locations, e)[c] =
            Matrix!Whole(MatrixTravel(e, Matrix!Doorway(locations[c[1] + 1]),
                                         Matrix!Doorway(locations[c[2] + 1])))
      BY <2>1 DEF Matrix!BuildMatrix, Square
    <3>3. SaidOf(e, Matrix!KeyOf(c)) = Matrix!BuildMatrix(locations, e)[c]
      BY <3>2 DEF SaidOf, Matrix!KeyOf, Matrix!Key
    <3> QED BY <3>1, <3>3
  <2>5. CASE OwnedUp(c)  BY <2>5 DEF OwnedUp, Matrix!Degraded
  <2> QED BY <2>2, <2>3, <2>4, <2>5
<1> QED BY <1>1, <1>2, <1>3


-----------------------------------------------------------------------------
(* The search.  Costs are integers.                                        *)

LEMMA SearchIsKnown ==
    /\ N \in Nat /\ N # 0 /\ MAX_STRING \in Nat /\ K \in Nat /\ K # 0
    /\ CAPACITY \in Nat /\ CAP \in Nat
    /\ Demand \in [Customers -> Nat]
    /\ Grids \subseteq [Nodes -> [Nodes -> Int]]
    /\ \A s \in Starts : /\ s \in Seq(Seq(Customers)) /\ s # <<>>
                         /\ IsInjective(FlattenSeq(s))
                         /\ Range(FlattenSeq(s)) = Customers
<1>1. SearchAssumption  BY PartsAssumption
<1> QED BY <1>1 DEF SearchAssumption

LEMMA SearchedNodes ==
    /\ Customers \subseteq Nodes /\ 0 \in Nodes /\ 0 \notin Customers
    /\ Customers \subseteq Nat \ {0} /\ Nodes \subseteq Nat
    /\ Nodes = Customers \cup {0}
    /\ IsFiniteSet(Customers) /\ Cardinality(Customers) = N
    /\ IsFiniteSet(Nodes)
<1>1. IsFiniteSet(1..N) /\ Cardinality(1..N) = N  BY SearchIsKnown, FS_Interval
<1>2. IsFiniteSet(0..N)  BY SearchIsKnown, FS_Interval
<1> QED BY <1>1, <1>2, SearchIsKnown DEF Customers, Nodes

Grid == [Nodes -> [Nodes -> Int]]

LEMMA DistanceIsInt ==
    ASSUME NEW d \in Grid, NEW a \in Nodes, NEW b \in Nodes
    PROVE  d[a][b] \in Int
BY DEF Grid

LEMMA RouteCostIsInt ==
    ASSUME NEW d \in Grid, NEW r \in Seq(Nodes)
    PROVE  RouteCost(d, r) \in Int
<1>1. CASE r = <<>>  BY <1>1 DEF RouteCost
<1>2. CASE r # <<>>
  <2>1. PICK n \in Nat : n = Len(r) - 1 /\ \A i \in 1..(n + 1) : r[i] \in Nodes
    BY <1>2
  <2>2. PICK f : f = [i \in 1..n |-> d[r[i]][r[i + 1]]]  OBVIOUS
  <2>3. DOMAIN f = 1..n /\ \A i \in 1..n : f[i] \in Int
    BY <2>1, <2>2 DEF Grid
  <2>4. SumFunction(f) \in Int  BY <2>3, SequenceSumIsInt
  <2>5. SumFunction([i \in 1..(Len(r) - 1) |-> d[r[i]][r[i + 1]]]) \in Int
    BY <2>1, <2>2, <2>4
  <2>6. d[0][r[1]] \in Int /\ d[Last(r)][0] \in Int
    <3>1. r[1] \in Nodes /\ r[n + 1] \in Nodes  BY <2>1
    <3>2. Last(r) = r[n + 1]  BY <2>1 DEF Last
    <3>3. 0 \in Nodes  BY SearchedNodes
    <3> QED BY <3>1, <3>2, <3>3, DistanceIsInt
  <2>7. RouteCost(d, r) = d[0][r[1]] + d[Last(r)][0]
            + SumFunction([i \in 1..(Len(r) - 1) |-> d[r[i]][r[i + 1]]])
    BY <1>2 DEF RouteCost
  <2> QED BY <2>5, <2>6, <2>7
<1> QED BY <1>1, <1>2

LEMMA CustomersAreNodes ==
    ASSUME NEW r \in Seq(Customers) PROVE r \in Seq(Nodes)
BY SearchedNodes

LEMMA PlanCostIsInt ==
    ASSUME NEW d \in Grid, NEW p \in Seq(Seq(Customers))
    PROVE  PlanCost(d, p) \in Int
<1>1. PICK f : f = [i \in DOMAIN p |-> RouteCost(d, p[i])]  OBVIOUS
<1>2. DOMAIN p = 1..Len(p) /\ Len(p) \in Nat  OBVIOUS
<1>3. \A i \in DOMAIN p : RouteCost(d, p[i]) \in Int
  BY RouteCostIsInt, CustomersAreNodes
<1>4. DOMAIN f = 1..Len(p) /\ \A i \in 1..Len(p) : f[i] \in Int
  BY <1>1, <1>2, <1>3
<1>5. SumFunction(f) \in Int  BY <1>2, <1>4, SequenceSumIsInt
<1> QED BY <1>1, <1>5 DEF PlanCost

LEMMA LoadIsInt ==
    ASSUME NEW r \in Seq(Customers) PROVE Load(r) \in Int
<1>1. PICK f : f = [i \in DOMAIN r |-> Demand[r[i]]]  OBVIOUS
<1>2. DOMAIN f = 1..Len(r) /\ Len(r) \in Nat /\ \A i \in 1..Len(r) : f[i] \in Int
  BY <1>1, SearchIsKnown
<1>3. SumFunction(f) \in Int  BY <1>2, SequenceSumIsInt
<1> QED BY <1>1, <1>3 DEF Load

LEMMA DetourIsInt ==
    ASSUME NEW d \in Grid, NEW p \in Seq(Seq(Customers)), NEW x \in Gaps(p),
           NEW c \in Customers
    PROVE  Detour(d, p, x, c) \in Int
<1>1. x[1] \in DOMAIN p /\ x[2] \in 1..(Len(p[x[1]]) + 1)
      /\ p[x[1]] \in Seq(Customers)
  BY SearchIsKnown DEF Gaps
<1>2. InsertAt(p[x[1]], x[2], c) \in Seq(Customers)  BY <1>1, InsertedAt
<1>3. RouteCost(d, InsertAt(p[x[1]], x[2], c)) \in Int
  BY <1>2, RouteCostIsInt, CustomersAreNodes
<1>4. RouteCost(d, p[x[1]]) \in Int
  BY <1>1, RouteCostIsInt, CustomersAreNodes
<1> QED BY <1>3, <1>4 DEF Detour

-----------------------------------------------------------------------------
(* Ruin: what is left in the routes and what was removed are together the  *)
(* customers, each once.                                                   *)

Ruined(size) ==
    {r \in [routes : Seq(Seq(Customers)), removed : Seq(Customers),
            used : SUBSET Nat] :
        /\ Len(r.routes) = size /\ IsInjective(r.removed)
        /\ OnceEach(r.routes, Customers \ ToSet(r.removed))}

LEMMA ByDistanceLists ==
    ASSUME NEW d \in Grid, NEW p \in Seq(Seq(Customers)),
           OnceEach(p, Customers), NEW seed \in Customers
    PROVE  ByDistance(d, p, seed) \in Seq(Customers)
<1>1. PICK flat : flat = FlattenSeq(p)  OBVIOUS
<1>2. flat \in Seq(Customers)  BY <1>1, OnceFlat
<1>3. PICK key : key = [i \in DOMAIN flat |-> <<d[seed][flat[i]], i>>]  OBVIOUS
<1>4. DOMAIN flat = 1..Len(flat) /\ Len(flat) \in Nat
      /\ IsFiniteSet(DOMAIN flat)
  BY <1>2, FS_Interval
<1>5. \A i \in DOMAIN flat : d[seed][flat[i]] \in Int /\ i \in Int
  <2>1. seed \in Nodes  BY SearchedNodes
  <2>2. \A i \in DOMAIN flat : flat[i] \in Nodes /\ i \in Int
    BY <1>2, <1>4, SearchedNodes
  <2> QED BY <2>1, <2>2, DistanceIsInt
<1>6. \A i \in DOMAIN flat : key[i] = <<d[seed][flat[i]], i>>
  BY <1>3
<1>7. key \in [DOMAIN flat -> Keys(2)]
  <2>1. \A i \in DOMAIN flat : <<d[seed][flat[i]], i>> \in Keys(2)
    BY <1>5 DEF Keys
  <2> QED BY <1>3, <2>1
<1>8. \A i, j \in DOMAIN flat : i # j => key[i] # key[j]  BY <1>6
<1>9. TellsApart(key, DOMAIN flat, 2)  BY <1>7, <1>8 DEF TellsApart
<1>10. PICK order : order = Ranked(DOMAIN flat, key)  OBVIOUS
<1>11. order \in Seq(DOMAIN flat)  BY <1>4, <1>9, <1>10, RankedLists
<1>12. [k \in DOMAIN order |-> flat[order[k]]] \in Seq(Customers)
  <2>1. DOMAIN order = 1..Len(order) /\ Len(order) \in Nat  BY <1>11
  <2>2. \A k \in DOMAIN order : flat[order[k]] \in Customers
    BY <1>2, <1>4, <1>11
  <2>3. [k \in DOMAIN order |-> flat[order[k]]] \in [1..Len(order) -> Customers]
    BY <2>1, <2>2
  <2> QED BY <2>1, <2>3
<1> QED BY <1>1, <1>3, <1>10, <1>12 DEF ByDistance

LEMMA RuinedIs ==
    ASSUME NEW size, NEW q \in Seq(Seq(Customers)), Len(q) = size,
           NEW removed \in Seq(Customers), IsInjective(removed),
           OnceEach(q, Customers \ ToSet(removed)), NEW used \in SUBSET Nat
    PROVE  [routes |-> q, removed |-> removed, used |-> used] \in Ruined(size)
BY DEF Ruined

LEMMA TakeStringRuins ==
    ASSUME NEW size, NEW r \in Ruined(size), NEW anchor \in Customers,
           NEW target \in Nat, NEW draw \in Nat
    PROVE  TakeString(r, anchor, target, draw) \in Ruined(size)
<1>1. PICK holding :
        holding = {i \in DOMAIN r.routes : anchor \in Range(r.routes[i])}
  OBVIOUS
<1>2. PICK index : index = Min(holding)  OBVIOUS
<1>3. PICK route : route = r.routes[index]  OBVIOUS
<1>4. PICK at : at = CHOOSE i \in DOMAIN route : route[i] = anchor  OBVIOUS
<1>5. PICK length : length = Min({draw, Len(route), target - Len(r.removed)})
  OBVIOUS
<1>6. PICK latest :
        latest = Min({at - 1 - (length \div 2), Len(route) - length})
  OBVIOUS
<1>7. PICK begin : begin = Max({0, latest})  OBVIOUS
<1>8. TakeString(r, anchor, target, draw) =
        IF Len(r.removed) >= target \/ holding = {} \/ index \in r.used
        THEN r
        ELSE [routes |-> [r.routes EXCEPT ![index] = Rest(route, begin, length)],
              removed |-> r.removed \o Taken(route, begin, length),
              used |-> r.used \cup {index}]
  BY <1>1, <1>2, <1>3, <1>4, <1>5, <1>6, <1>7 DEF TakeString, Rest, Taken
<1>9. /\ r.routes \in Seq(Seq(Customers)) /\ r.removed \in Seq(Customers)
      /\ r.used \in SUBSET Nat /\ Len(r.routes) = size /\ IsInjective(r.removed)
      /\ OnceEach(r.routes, Customers \ ToSet(r.removed))
  BY DEF Ruined
<1>10. CASE Len(r.removed) >= target \/ holding = {} \/ index \in r.used
  BY <1>8, <1>10
<1>11. CASE ~(Len(r.removed) >= target \/ holding = {} \/ index \in r.used)
  <2>1. index \in holding /\ index \in DOMAIN r.routes /\ index \in Nat
    <3>1. holding \subseteq Nat  BY <1>1, <1>9
    <3>2. index \in holding  BY <3>1, <1>2, <1>11, MinOf
    <3> QED BY <3>1, <3>2, <1>1
  <2>2. route \in Seq(Customers) /\ IsInjective(route)
        /\ anchor \in Range(route)
    BY <1>1, <1>3, <1>9, <2>1 DEF OnceEach
  <2>3. at \in DOMAIN route /\ at \in Nat
    BY <1>4, <2>2 DEF Range
  <2>4. length \in Nat /\ length <= Len(route)
    <3>1. target - Len(r.removed) \in Nat /\ Len(route) \in Nat
      BY <1>9, <1>11, <2>2
    <3> QED BY <3>1, <1>5, MinOfThree
  <2>5. begin \in Nat /\ begin + length <= Len(route)
    <3>1. PICK n \in Nat : n = Len(route)  BY <2>2
    <3>2. at - 1 - (length \div 2) \in Int /\ n - length \in Int  BY <2>3, <2>4
    <3>3. latest \in Int /\ latest <= n - length
      BY <1>6, <3>1, <3>2, MinOfTwo
    <3>4. 0 \in Int /\ latest \in Int  BY <3>3
    <3>5. begin \in {0, latest} /\ 0 <= begin  BY <1>7, <3>4, MaxOfTwo
    <3> QED BY <3>1, <3>3, <3>5, <2>4
  <2>6. PICK taken : taken = Taken(route, begin, length)  OBVIOUS
  <2>7. PICK rest : rest = Rest(route, begin, length)  OBVIOUS
  <2>8. /\ taken \in Seq(Customers) /\ IsInjective(taken)
        /\ rest \in Seq(Customers) /\ IsInjective(rest)
        /\ ToSet(taken) \cap ToSet(rest) = {}
        /\ ToSet(taken) \cup ToSet(rest) = ToSet(route)
    BY <2>2, <2>4, <2>5, <2>6, <2>7, CutOut
  <2>9. PICK S : S = Customers \ ToSet(r.removed)  OBVIOUS
  <2>10. ToSet(route) \subseteq S  BY <1>3, <1>9, <2>1, <2>9 DEF OnceEach
  <2>11. PICK q : q = [r.routes EXCEPT ![index] = rest]  OBVIOUS
  <2>12. /\ q \in Seq(Seq(Customers)) /\ Len(q) = Len(r.routes)
         /\ OnceEach(q, (S \ ToSet(route)) \cup ToSet(rest))
    <3>1. OnceEach(r.routes, S)  BY <1>9, <2>9
    <3>2. ToSet(rest) \cap (S \ ToSet(r.routes[index])) = {}
      BY <2>8, <1>3
    <3>3. PICK routes : routes = r.routes  OBVIOUS
    <3>4. /\ routes \in Seq(Seq(Customers)) /\ OnceEach(routes, S)
          /\ index \in DOMAIN routes /\ route = routes[index]
          /\ rest \in Seq(Customers) /\ IsInjective(rest)
          /\ ToSet(rest) \cap (S \ ToSet(routes[index])) = {}
          /\ q = [routes EXCEPT ![index] = rest]
      BY <3>1, <3>2, <3>3, <1>3, <1>9, <2>1, <2>8, <2>11
    <3>5. /\ Changed(routes, index, rest) \in Seq(Seq(Customers))
          /\ Len(Changed(routes, index, rest)) = Len(routes)
          /\ OnceEach(Changed(routes, index, rest),
                  (S \ ToSet(routes[index])) \cup ToSet(rest))
      <4>1. FitsIn(rest, routes, index, S, Customers)  BY <3>4 DEF FitsIn
      <4> QED BY <4>1, OnceChanged
    <3>6. q = Changed(routes, index, rest)  BY <3>4 DEF Changed
    <3> QED BY <3>3, <3>4, <3>5, <3>6
  <2>13. PICK removed : removed = r.removed \o taken  OBVIOUS
  <2>14. /\ removed \in Seq(Customers) /\ IsInjective(removed)
         /\ ToSet(removed) = ToSet(r.removed) \cup ToSet(taken)
    <3>1. ToSet(r.removed) \cap ToSet(taken) = {}  BY <2>8, <2>9, <2>10
    <3> QED BY <3>1, <1>9, <2>8, <2>13, ConcatSets
  <2>15. (S \ ToSet(route)) \cup ToSet(rest) = Customers \ ToSet(removed)
    BY <2>8, <2>9, <2>10, <2>14
  <2>16. TakeString(r, anchor, target, draw) =
            [routes |-> q, removed |-> removed, used |-> r.used \cup {index}]
    BY <1>8, <1>11, <2>6, <2>7, <2>11, <2>13
  <2>17. r.used \cup {index} \in SUBSET Nat  BY <1>9, <2>1
  <2>18. OnceEach(q, Customers \ ToSet(removed)) /\ Len(q) = size
    BY <2>12, <2>15, <1>9
  <2> QED BY <2>12, <2>14, <2>16, <2>17, <2>18, RuinedIs
<1> QED BY <1>10, <1>11

LEMMA TakeOneRuins ==
    ASSUME NEW size, NEW r \in Ruined(size), NEW anchor \in Customers,
           NEW target \in Nat
    PROVE  TakeOne(r, anchor, target) \in Ruined(size)
<1>1. /\ r.routes \in Seq(Seq(Customers)) /\ r.removed \in Seq(Customers)
      /\ r.used \in SUBSET Nat /\ Len(r.routes) = size /\ IsInjective(r.removed)
      /\ OnceEach(r.routes, Customers \ ToSet(r.removed))
      /\ r = [routes |-> r.routes, removed |-> r.removed, used |-> r.used]
  BY DEF Ruined
<1>2. CASE Len(r.removed) >= target \/ anchor \in Range(r.removed)
  BY <1>2 DEF TakeOne
<1>3. CASE ~(Len(r.removed) >= target \/ anchor \in Range(r.removed))
  <2>1. PICK routes : routes = r.routes  OBVIOUS
  <2>2. PICK wanted : wanted = Nodes \ {anchor}  OBVIOUS
  <2>3. PICK q : q = [i \in DOMAIN routes |-> Kept(routes[i], wanted)]
    OBVIOUS
  <2>4. PICK S : S = Customers \ ToSet(r.removed)  OBVIOUS
  <2>5. q \in Seq(Seq(Customers)) /\ Len(q) = Len(routes)
        /\ OnceEach(q, S \cap wanted)
    <3>1. Lists(routes, S, Customers)  BY <1>1, <2>1, <2>4 DEF Lists
    <3>2. Lists(KeptOfEach(routes, wanted), S \cap wanted, Customers)
          /\ Len(KeptOfEach(routes, wanted)) = Len(routes)
      BY <3>1, OnceKept
    <3>3. q = KeptOfEach(routes, wanted)  BY <2>3 DEF KeptOfEach
    <3> QED BY <3>2, <3>3 DEF Lists
  <2>6. PICK removed : removed = Append(r.removed, anchor)  OBVIOUS
  <2>7. /\ removed \in Seq(Customers) /\ IsInjective(removed)
        /\ ToSet(removed) = ToSet(r.removed) \cup {anchor}
    <3>1. anchor \notin ToSet(r.removed)  BY <1>3, RangeIsSet
    <3> QED BY <3>1, <1>1, <2>6, AppendSets
  <2>8. S \cap wanted = Customers \ ToSet(removed)
    BY <2>2, <2>4, <2>7, SearchedNodes
  <2>9. TakeOne(r, anchor, target)
            = [routes |-> q, removed |-> removed, used |-> r.used]
    <3>1. q = [i \in DOMAIN r.routes |-> Without(r.routes[i], anchor)]
      BY <2>1, <2>2, <2>3 DEF Without
    <3>2. TakeOne(r, anchor, target) =
            [r EXCEPT !.routes = [i \in DOMAIN @ |-> Without(@[i], anchor)],
                      !.removed = Append(@, anchor)]
      BY <1>3 DEF TakeOne
    <3> QED BY <3>1, <3>2, <1>1, <2>6
  <2>10. OnceEach(q, Customers \ ToSet(removed)) /\ Len(q) = size
    BY <1>1, <2>1, <2>5, <2>8
  <2> QED BY <1>1, <2>5, <2>7, <2>9, <2>10, RuinedIs
<1> QED BY <1>2, <1>3

StringsAre(g, near, p, target, draw) ==
    g = [n \in 0..Len(near) |->
            IF n = 0 THEN [routes |-> p, removed |-> <<>>, used |-> {}]
            ELSE TakeString(g[n - 1], near[n], target, draw[near[n]])]

LEMMA StringsRuin ==
    ASSUME NEW p \in Seq(Seq(Customers)), OnceEach(p, Customers),
           NEW near \in Seq(Customers), NEW target \in Nat,
           NEW draw \in [Customers -> Nat]
    PROVE  Strings(near, p, target, draw) \in Ruined(Len(p))
<1>1. PICK A : A = Ruined(Len(p))  OBVIOUS
<1>2. PICK k \in Nat : k = Len(near)  OBVIOUS
<1>3. PICK x0 : x0 = [routes |-> p, removed |-> <<>>, used |-> {}]  OBVIOUS
<1>4. x0 \in A
  <2>1. <<>> \in Seq(Customers) /\ IsInjective(<<>>) /\ ToSet(<<>>) = {}
    BY DEF IsInjective, ToSet
  <2>2. OnceEach(p, Customers \ ToSet(<<>>))  BY <2>1
  <2> QED BY <1>1, <1>3, <2>1, <2>2, RuinedIs
<1>5. \A n \in 1..k : near[n] \in Customers /\ draw[near[n]] \in Nat  BY <1>2
<1>6. \A n \in 1..k : \A r \in A :
            TakeString(r, near[n], target, draw[near[n]]) \in A
  BY <1>1, <1>5, TakeStringRuins
<1>7. \E g : StringsAre(g, near, p, target, draw)
  <2> DEFINE s == [n \in 1..k |->
                [r \in A |-> TakeString(r, near[n], target, draw[near[n]])]]
  <2>1. \A n \in 1..k : s[n] \in [A -> A]  BY <1>6
  <2>2. \A n \in 1..k : \A r \in A :
            s[n][r] = TakeString(r, near[n], target, draw[near[n]])
    OBVIOUS
  <2> HIDE DEF s
  <2>3. PICK g : Loops(g, x0, s, k) /\ \A n \in 0..k : g[n] \in A
    BY <1>4, <2>1, LoopStaysIn
  <2>4. \A n \in 0..k : n # 0 =>
            s[n][g[n - 1]] = TakeString(g[n - 1], near[n], target, draw[near[n]])
    <3>1. \A n \in 0..k : n # 0 => n \in 1..k /\ n - 1 \in 0..k  OBVIOUS
    <3> QED BY <3>1, <2>2, <2>3
  <2>5. g = [n \in 0..k |-> IF n = 0 THEN x0 ELSE s[n][g[n - 1]]]
    BY <2>3 DEF Loops
  <2>6. g = [n \in 0..k |-> IF n = 0 THEN x0
                ELSE TakeString(g[n - 1], near[n], target, draw[near[n]])]
    BY <2>4, <2>5
  <2> QED BY <2>6, <1>2, <1>3 DEF StringsAre
<1>8. PICK g : /\ StringsAre(g, near, p, target, draw)
               /\ Strings(near, p, target, draw) = g[Len(near)]
  BY <1>7, Zenon DEF Strings, StringsAre
<1>9. g = [n \in 0..k |-> IF n = 0 THEN x0
                ELSE TakeString(g[n - 1], near[n], target, draw[near[n]])]
  BY <1>2, <1>3, <1>8 DEF StringsAre
<1>10. g[0] \in A /\ \A n \in 1..k : g[n - 1] \in A => g[n] \in A
  <2>1. 0 \in 0..k /\ \A n \in 1..k : n \in 0..k /\ n # 0  OBVIOUS
  <2>2. g[0] = x0 /\ \A n \in 1..k :
            g[n] = TakeString(g[n - 1], near[n], target, draw[near[n]])
    BY <1>9, <2>1
  <2> QED BY <2>2, <1>4, <1>6
<1>11. \A n \in 0..k : g[n] \in A  BY <1>10, LoopKeepsIn
<1> QED BY <1>1, <1>2, <1>8, <1>11

SinglyIs(g, near, strings, target) ==
    g = [n \in 0..Len(near) |->
            IF n = 0 THEN strings ELSE TakeOne(g[n - 1], near[n], target)]

LEMMA SinglyRuins ==
    ASSUME NEW size, NEW strings \in Ruined(size), NEW near \in Seq(Customers),
           NEW target \in Nat
    PROVE  Singly(near, strings, target) \in Ruined(size)
<1>1. PICK A : A = Ruined(size)  OBVIOUS
<1>2. PICK k \in Nat : k = Len(near)  OBVIOUS
<1>3. strings \in A  BY <1>1
<1>4. \A n \in 1..k : near[n] \in Customers  BY <1>2
<1>5. \A n \in 1..k : \A r \in A : TakeOne(r, near[n], target) \in A
  BY <1>1, <1>4, TakeOneRuins
<1>6. \E g : SinglyIs(g, near, strings, target)
  <2> DEFINE s == [n \in 1..k |-> [r \in A |-> TakeOne(r, near[n], target)]]
  <2>1. \A n \in 1..k : s[n] \in [A -> A]  BY <1>5
  <2>2. \A n \in 1..k : \A r \in A : s[n][r] = TakeOne(r, near[n], target)
    OBVIOUS
  <2> HIDE DEF s
  <2>3. PICK g : Loops(g, strings, s, k) /\ \A n \in 0..k : g[n] \in A
    BY <1>3, <2>1, LoopStaysIn
  <2>4. \A n \in 0..k : n # 0 =>
            s[n][g[n - 1]] = TakeOne(g[n - 1], near[n], target)
    <3>1. \A n \in 0..k : n # 0 => n \in 1..k /\ n - 1 \in 0..k  OBVIOUS
    <3> QED BY <3>1, <2>2, <2>3
  <2>5. g = [n \in 0..k |-> IF n = 0 THEN strings ELSE s[n][g[n - 1]]]
    BY <2>3 DEF Loops
  <2>6. g = [n \in 0..k |-> IF n = 0 THEN strings
                            ELSE TakeOne(g[n - 1], near[n], target)]
    BY <2>4, <2>5
  <2> QED BY <2>6, <1>2 DEF SinglyIs
<1>7. PICK g : /\ SinglyIs(g, near, strings, target)
               /\ Singly(near, strings, target) = g[Len(near)]
  BY <1>6, Zenon DEF Singly, SinglyIs
<1>8. g = [n \in 0..k |-> IF n = 0 THEN strings
                          ELSE TakeOne(g[n - 1], near[n], target)]
  BY <1>2, <1>7 DEF SinglyIs
<1>9. g[0] \in A /\ \A n \in 1..k : g[n - 1] \in A => g[n] \in A
  <2>1. 0 \in 0..k /\ \A n \in 1..k : n \in 0..k /\ n # 0  OBVIOUS
  <2>2. g[0] = strings /\ \A n \in 1..k :
            g[n] = TakeOne(g[n - 1], near[n], target)
    BY <1>8, <2>1
  <2> QED BY <2>2, <1>3, <1>5
<1>10. \A n \in 0..k : g[n] \in A  BY <1>9, LoopKeepsIn
<1> QED BY <1>1, <1>2, <1>7, <1>10

LEMMA RuinsRuin ==
    ASSUME NEW d \in Grid, NEW p \in Seq(Seq(Customers)), OnceEach(p, Customers),
           NEW target \in Nat, NEW r \in Ruins(d, p, target)
    PROVE  r \in Ruined(Len(p))
<1>1. CASE \E seed \in Customers, draw \in [Customers -> 1..MAX_STRING] :
                r = SisrRuin(d, p, target, seed, draw)
  <2>1. PICK seed \in Customers, draw \in [Customers -> 1..MAX_STRING] :
                r = SisrRuin(d, p, target, seed, draw)
    BY <1>1
  <2>2. PICK near : near = ByDistance(d, p, seed)  OBVIOUS
  <2>3. near \in Seq(Customers)  BY <2>2, ByDistanceLists
  <2>4. draw \in [Customers -> Nat]  BY SearchIsKnown
  <2>5. Strings(near, p, target, draw) \in Ruined(Len(p))
    BY <2>3, <2>4, StringsRuin
  <2>6. Singly(near, Strings(near, p, target, draw), target) \in Ruined(Len(p))
    BY <2>3, <2>5, SinglyRuins
  <2> QED BY <2>1, <2>2, <2>6 DEF SisrRuin
<1>2. CASE \E removed \in SetToAllKPermutations(Customers) :
                r = RandomRuin(p, removed)
  <2>1. PICK removed \in SetToAllKPermutations(Customers) :
                r = RandomRuin(p, removed)
    BY <1>2
  <2>2. PICK S \in SUBSET Customers : removed \in SetToSeqs(S)
    BY <2>1 DEF SetToAllKPermutations
  <2>3. IsFiniteSet(S)  BY SearchedNodes, FS_Subset
  <2>4. removed \in Seq(S) /\ IsInjective(removed)  BY <2>2, <2>3, SeqsOfSet
  <2>5. removed \in Seq(Customers)  BY <2>2, <2>4
  <2>6. PICK wanted : wanted = Customers \ Range(removed)  OBVIOUS
  <2>7. Lists(p, Customers, Customers)  BY DEF Lists
  <2>8. PICK q : q = KeptOfEach(p, wanted)  OBVIOUS
  <2>9. Lists(q, Customers \cap wanted, Customers) /\ Len(q) = Len(p)
    BY <2>7, <2>8, OnceKept
  <2>10. Customers \cap wanted = Customers \ ToSet(removed)
    BY <2>6, RangeIsSet
  <2>11. q \in Seq(Seq(Customers)) /\ OnceEach(q, Customers \ ToSet(removed))
    BY <2>9, <2>10 DEF Lists
  <2>12. r = [routes |-> q, removed |-> removed, used |-> {}]
    BY <2>1, <2>6, <2>8 DEF RandomRuin, KeptOfEach
  <2>13. {} \in SUBSET Nat  OBVIOUS
  <2> QED BY <2>4, <2>5, <2>9, <2>11, <2>12, <2>13, RuinedIs
<1> QED BY <1>1, <1>2 DEF Ruins

-----------------------------------------------------------------------------
(* Recreate: every customer that is placed was in no route, and is in one. *)

Recreating(size, S) ==
    {q \in Seq(Seq(Customers)) : Len(q) = size /\ OnceEach(q, S)}

LEMMA GapIs ==
    ASSUME NEW p \in Seq(Seq(Customers)), NEW x \in Gaps(p)
    PROVE  /\ x[1] \in DOMAIN p /\ p[x[1]] \in Seq(Customers)
           /\ x[2] \in 1..(Len(p[x[1]]) + 1) /\ x = <<x[1], x[2]>>
           /\ x[1] \in Int /\ x[2] \in Int
BY SearchIsKnown DEF Gaps

LEMMA PlacedHolds ==
    ASSUME NEW size, NEW S \in SUBSET Customers, NEW p \in Recreating(size, S),
           NEW x \in Gaps(p), NEW c \in Customers \ S
    PROVE  /\ Placed(p, x, c) \in Recreating(size, S \cup {c})
           /\ Placed(p, x, c) = Changed(p, x[1], InsertAt(p[x[1]], x[2], c))
<1>1. p \in Seq(Seq(Customers)) /\ Len(p) = size /\ OnceEach(p, S)
  BY DEF Recreating
<1>2. PICK i : i = x[1]  OBVIOUS
<1>3. PICK r : r = p[i]  OBVIOUS
<1>4. i \in DOMAIN p /\ r \in Seq(Customers) /\ x[2] \in 1..(Len(r) + 1)
  BY <1>1, <1>2, <1>3, GapIs
<1>5. IsInjective(r) /\ ToSet(r) \subseteq S  BY <1>1, <1>3, <1>4 DEF OnceEach
<1>6. PICK more : more = InsertAt(r, x[2], c)  OBVIOUS
<1>7. /\ more \in Seq(Customers) /\ ToSet(more) = ToSet(r) \cup {c}
      /\ IsInjective(more)
  BY <1>4, <1>5, <1>6, InsertedAt
<1>8. FitsIn(more, p, i, S, Customers)
  BY <1>1, <1>3, <1>4, <1>5, <1>7 DEF FitsIn
<1>9. PICK q : q = Changed(p, i, more)  OBVIOUS
<1>10. /\ q \in Seq(Seq(Customers)) /\ Len(q) = Len(p)
       /\ OnceEach(q, (S \ ToSet(p[i])) \cup ToSet(more))
  BY <1>8, <1>9, OnceChanged
<1>11. (S \ ToSet(p[i])) \cup ToSet(more) = S \cup {c}
  BY <1>3, <1>5, <1>7
<1>12. q \in Recreating(size, S \cup {c})
  BY <1>1, <1>10, <1>11 DEF Recreating
<1>13. Placed(p, x, c) = Changed(p, x[1], InsertAt(p[x[1]], x[2], c))
  BY DEF Placed, Changed
<1> QED BY <1>2, <1>3, <1>6, <1>9, <1>12, <1>13

LEMMA GapsAreFinite ==
    ASSUME NEW p \in Seq(Seq(Customers))
    PROVE  IsFiniteSet(Gaps(p)) /\ (Len(p) # 0 => Gaps(p) # {})
<1>1. PICK D : D = (DOMAIN p) \X (1..(N + 1))  OBVIOUS
<1>2. DOMAIN p = 1..Len(p) /\ Len(p) \in Nat  OBVIOUS
<1>3. IsFiniteSet(1..Len(p)) /\ IsFiniteSet(1..(N + 1))
  BY <1>2, SearchIsKnown, FS_Interval
<1>4. IsFiniteSet(D)
  <2>1. IsFiniteSet(DOMAIN p) /\ IsFiniteSet(1..(N + 1))  BY <1>2, <1>3
  <2> QED BY <2>1, <1>1, FS_Product
<1>5. Gaps(p) \in SUBSET D  BY <1>1 DEF Gaps
<1>6. IsFiniteSet(Gaps(p))  BY <1>4, <1>5, FS_Subset
<1>7. ASSUME Len(p) # 0 PROVE Gaps(p) # {}
  <2>1. 1 \in DOMAIN p /\ 1 \in 1..(N + 1) /\ p[1] \in Seq(Customers)
    BY <1>2, <1>7, SearchIsKnown
  <2>2. <<1, 1>> \in (DOMAIN p) \X (1..(N + 1)) /\ 1 <= Len(p[1]) + 1
    BY <2>1
  <2> QED BY <2>2 DEF Gaps
<1> QED BY <1>6, <1>7

LEMMA BestPlaceIsGap ==
    ASSUME NEW d \in Grid, NEW p \in Seq(Seq(Customers)), Len(p) # 0,
           NEW c \in Customers
    PROVE  BestPlace(d, p, c) \in Gaps(p)
<1>1. PICK key : key = [x \in Gaps(p) |-> <<Detour(d, p, x, c), x[1], x[2]>>]
  OBVIOUS
<1>2. \A x \in Gaps(p) : key[x] = <<Detour(d, p, x, c), x[1], x[2]>>  BY <1>1
<1>3. \A x \in Gaps(p) : x[1] \in Int /\ x[2] \in Int /\ x = <<x[1], x[2]>>
  BY GapIs
<1>4. key \in [Gaps(p) -> Keys(3)]
  <2>1. \A x \in Gaps(p) : <<Detour(d, p, x, c), x[1], x[2]>> \in Keys(3)
    BY <1>3, DetourIsInt DEF Keys
  <2> QED BY <1>1, <2>1
<1>5. \A x, y \in Gaps(p) : x # y => key[x] # key[y]  BY <1>2, <1>3
<1>6. TellsApart(key, Gaps(p), 3)  BY <1>4, <1>5 DEF TellsApart
<1>7. FirstBy(Gaps(p), key) \in Gaps(p)  BY <1>6, GapsAreFinite, FirstOf
<1> QED BY <1>1, <1>7 DEF BestPlace

LEMMA InsertionsHold ==
    ASSUME NEW d \in Grid, NEW size \in Nat \ {0}, NEW S \in SUBSET Customers,
           NEW p \in Recreating(size, S), NEW c \in Customers \ S, NEW blink
    PROVE  Insertions(d, p, c, blink) \subseteq Recreating(size, S \cup {c})
<1>1. p \in Seq(Seq(Customers)) /\ Len(p) # 0  BY DEF Recreating
<1>2. BestPlace(d, p, c) \in Gaps(p)  BY <1>1, BestPlaceIsGap
<1>3. \A x \in Gaps(p) : Placed(p, x, c) \in Recreating(size, S \cup {c})
  BY PlacedHolds
<1> QED BY <1>2, <1>3 DEF Insertions

RecreatedIs(g, d, p, removed, blink) ==
    g = [n \in 0..Len(removed) |->
            IF n = 0 THEN {p}
            ELSE UNION {Insertions(d, q, removed[n], blink) : q \in g[n - 1]}]

LEMMA RecreatedServes ==
    ASSUME NEW d \in Grid, NEW size \in Nat \ {0}, NEW r \in Ruined(size),
           NEW blink
    PROVE  Recreated(d, r.routes, r.removed, blink)
                \subseteq Recreating(size, Customers)
<1>1. /\ r.routes \in Seq(Seq(Customers)) /\ r.removed \in Seq(Customers)
      /\ Len(r.routes) = size /\ IsInjective(r.removed)
      /\ OnceEach(r.routes, Customers \ ToSet(r.removed))
  BY DEF Ruined
<1>2. PICK p : p = r.routes  OBVIOUS
<1>3. PICK removed : removed = r.removed  OBVIOUS
<1>4. PICK k \in Nat : k = Len(removed)  BY <1>1, <1>3
<1>5. /\ removed \in Seq(Customers) /\ IsInjective(removed)
      /\ DOMAIN removed = 1..k /\ \A n \in 1..k : removed[n] \in Customers
  BY <1>1, <1>3, <1>4
<1> DEFINE served(n) == (Customers \ ToSet(removed)) \cup {removed[i] : i \in 1..n}
           X == [n \in 0..k |-> SUBSET Recreating(size, served(n))]
<1>6. ToSet(removed) = {removed[i] : i \in 1..k}  BY <1>5 DEF ToSet
<1>7. {p} \in X[0]
  <2>1. 0 \in 0..k /\ served(0) = Customers \ ToSet(removed)  OBVIOUS
  <2>2. p \in Recreating(size, Customers \ ToSet(removed))
    BY <1>1, <1>2, <1>3 DEF Recreating
  <2> HIDE DEF served
  <2> QED BY <2>1, <2>2
<1>8. ASSUME NEW n \in 1..k, NEW Q \in X[n - 1]
      PROVE  UNION {Insertions(d, q, removed[n], blink) : q \in Q} \in X[n]
  <2>1. n \in 0..k /\ n - 1 \in 0..k  OBVIOUS
  <2>2. Q \subseteq Recreating(size, served(n - 1))  BY <2>1
  <2>3. removed[n] \in Customers \ served(n - 1)
    <3>1. removed[n] \in ToSet(removed)  BY <1>6
    <3>2. \A i \in 1..(n - 1) : removed[i] # removed[n]
      BY <1>5 DEF IsInjective
    <3> QED BY <3>1, <3>2, <1>5
  <2>4. served(n) = served(n - 1) \cup {removed[n]}
    <3>1. 1..n = 1..(n - 1) \cup {n}  OBVIOUS
    <3> QED BY <3>1
  <2>5. served(n - 1) \in SUBSET Customers
    <3>1. \A i \in 1..(n - 1) : removed[i] \in Customers  BY <1>5
    <3> QED BY <3>1
  <2> HIDE DEF served
  <2>6. \A q \in Q : Insertions(d, q, removed[n], blink)
                        \subseteq Recreating(size, served(n))
    BY <2>2, <2>3, <2>4, <2>5, InsertionsHold
  <2> QED BY <2>1, <2>6
<1> DEFINE s == [n \in 1..k |-> [Q \in X[n - 1] |->
                    UNION {Insertions(d, q, removed[n], blink) : q \in Q}]]
<1> HIDE DEF X
<1>9. \E g : RecreatedIs(g, d, p, removed, blink)
  <2>1. \A n \in 1..k : s[n] \in [X[n - 1] -> X[n]]  BY <1>8
  <2>2. \A n \in 1..k : \A Q \in X[n - 1] :
            s[n][Q] = UNION {Insertions(d, q, removed[n], blink) : q \in Q}
    OBVIOUS
  <2> HIDE DEF s
  <2>3. PICK g : Loops(g, {p}, s, k)  BY LoopExists
  <2>4. \A n \in 0..k : g[n] \in X[n]  BY <1>7, <2>1, <2>3, LoopStays
  <2>5. \A n \in 0..k : n # 0 =>
            s[n][g[n - 1]]
                = UNION {Insertions(d, q, removed[n], blink) : q \in g[n - 1]}
    <3>1. \A n \in 0..k : n # 0 => n \in 1..k /\ n - 1 \in 0..k  OBVIOUS
    <3> QED BY <3>1, <2>2, <2>4
  <2>6. g = [n \in 0..k |-> IF n = 0 THEN {p} ELSE s[n][g[n - 1]]]
    BY <2>3 DEF Loops
  <2>7. g = [n \in 0..k |-> IF n = 0 THEN {p} ELSE
            UNION {Insertions(d, q, removed[n], blink) : q \in g[n - 1]}]
    BY <2>5, <2>6
  <2> QED BY <2>7, <1>4 DEF RecreatedIs
<1> HIDE DEF s
<1>10. PICK g : /\ RecreatedIs(g, d, p, removed, blink)
                /\ Recreated(d, p, removed, blink) = g[Len(removed)]
  BY <1>9, Zenon DEF Recreated, RecreatedIs
<1>11. g[0] \in X[0] /\ \A n \in 1..k : g[n - 1] \in X[n - 1] => g[n] \in X[n]
  <2>1. 0 \in 0..k /\ \A n \in 1..k : n \in 0..k /\ n # 0  OBVIOUS
  <2>2. g = [n \in 0..k |-> IF n = 0 THEN {p} ELSE
            UNION {Insertions(d, q, removed[n], blink) : q \in g[n - 1]}]
    BY <1>4, <1>10 DEF RecreatedIs
  <2>3. \A n \in 0..k : g[n] = IF n = 0 THEN {p} ELSE
            UNION {Insertions(d, q, removed[n], blink) : q \in g[n - 1]}
    BY <2>2, Zenon
  <2>4. g[0] = {p}  BY <2>1, <2>3
  <2>5. \A n \in 1..k : g[n] =
            UNION {Insertions(d, q, removed[n], blink) : q \in g[n - 1]}
    BY <2>1, <2>3
  <2>6. \A n \in 1..k : g[n - 1] \in X[n - 1] =>
            UNION {Insertions(d, q, removed[n], blink) : q \in g[n - 1]} \in X[n]
    BY <1>8
  <2> QED BY <2>4, <2>5, <2>6, <1>7
<1>12. \A n \in 0..k : g[n] \in X[n]  BY <1>11, LoopKeeps
<1>13. X[k] = SUBSET Recreating(size, Customers)
  <2>1. served(k) = Customers
    <3>1. ToSet(removed) \subseteq Customers  BY <1>5, <1>6
    <3> QED BY <3>1, <1>6
  <2>2. k \in 0..k  OBVIOUS
  <2> HIDE DEF served
  <2> QED BY <2>1, <2>2 DEF X
<1> QED BY <1>2, <1>3, <1>4, <1>10, <1>12, <1>13

-----------------------------------------------------------------------------
(* Every iteration of ruin and recreate keeps the customers, and its       *)
(* incumbent.                                                              *)

ServesAll(p) == p \in Seq(Seq(Customers)) /\ p # <<>> /\ OnceEach(p, Customers)

LnsHolds ==
    /\ dist \in Grid /\ start \in Seq(Seq(Customers))
    /\ ServesAll(plan) /\ ServesAll(best)
    /\ PlanCost(dist, best) <= PlanCost(dist, start)
    /\ PlanCost(dist, best) <= PlanCost(dist, plan)

LEMMA OnceIsSome ==
    ASSUME NEW p \in Seq(Seq(Customers)), OnceEach(p, Customers)
    PROVE  p # <<>>
<1>1. 1 \in Customers  BY SearchIsKnown DEF Customers
<1> QED BY <1>1 DEF OnceEach

Ruinable(d, p) == UNION {Ruins(d, p, target) : target \in 1..Max({1, N - 1})}

LEMMA CandidatesServe ==
    ASSUME NEW d \in Grid, NEW p, ServesAll(p),
           NEW candidate \in Candidates(d, Ruinable(d, p))
    PROVE  ServesAll(candidate)
<1>1. PICK ruins : ruins = Ruinable(d, p)  OBVIOUS
<1>2. candidate \in Candidates(d, ruins)  BY <1>1
<1>3. PICK r \in ruins : \E blink \in BOOLEAN :
            candidate \in Recreated(d, r.routes, r.removed, blink)
  BY <1>2 DEF Candidates
<1>4. PICK blink \in BOOLEAN :
            candidate \in Recreated(d, r.routes, r.removed, blink)
  BY <1>3
<1>5. PICK target \in 1..Max({1, N - 1}) : r \in Ruins(d, p, target)
  BY <1>1, <1>3 DEF Ruinable
<1>6. target \in Nat
  <2>1. PICK most \in Int : most = N - 1  BY SearchIsKnown
  <2>2. 1 \in Int  OBVIOUS
  <2>3. Max({1, most}) \in Int  BY <2>2, MaxOfTwo
  <2> QED BY <2>1, <2>3
<1>7. p \in Seq(Seq(Customers)) /\ OnceEach(p, Customers) /\ p # <<>>
  BY DEF ServesAll
<1>8. PICK size \in Nat \ {0} : size = Len(p)  BY <1>7
<1>9. r \in Ruined(size)  BY <1>5, <1>6, <1>7, <1>8, RuinsRuin
<1>10. Recreated(d, r.routes, r.removed, blink)
            \subseteq Recreating(size, Customers)
  BY <1>9, RecreatedServes
<1>11. candidate \in Recreating(size, Customers)  BY <1>4, <1>10
<1> QED BY <1>11, OnceIsSome DEF Recreating, ServesAll

LEMMA LnsIterateHolds ==
    ASSUME LnsHolds, LnsIterate PROVE LnsHolds'
<1> USE DEF LnsHolds
<1>1. PICK candidate \in Candidates(dist, Ruinable(dist, plan)) :
        /\ plan' \in {candidate} \cup
                IF PlanCost(dist, candidate) <= PlanCost(dist, plan)
                THEN {} ELSE {plan}
        /\ best' = IF PlanCost(dist, candidate) < PlanCost(dist, best)
                   THEN candidate ELSE best
  BY DEF LnsIterate, Ruinable
<1>7. ServesAll(candidate)  BY <1>1, CandidatesServe
<1>8. dist' = dist /\ start' = start  BY DEF LnsIterate
<1>9. ServesAll(plan') /\ ServesAll(best')
  BY <1>1, <1>7
<1>10. \A p : ServesAll(p) => PlanCost(dist, p) \in Int
  BY PlanCostIsInt DEF ServesAll
<1>11. /\ PlanCost(dist, best) \in Int /\ PlanCost(dist, candidate) \in Int
       /\ PlanCost(dist, plan) \in Int /\ PlanCost(dist, start) \in Int
  BY <1>7, <1>10, PlanCostIsInt
<1>12. PlanCost(dist, best') <= PlanCost(dist, start)
       /\ PlanCost(dist, best') <= PlanCost(dist, plan')
  <2>1. CASE PlanCost(dist, candidate) < PlanCost(dist, best)
    <3>1. best' = candidate  BY <1>1, <2>1
    <3>2. PlanCost(dist, candidate) <= PlanCost(dist, plan)  BY <2>1, <1>11
    <3>3. plan' = candidate  BY <1>1, <3>2
    <3> QED BY <3>1, <3>3, <2>1, <1>11
  <2>2. CASE ~(PlanCost(dist, candidate) < PlanCost(dist, best))
    <3>1. best' = best  BY <1>1, <2>2
    <3>2. plan' = candidate \/ plan' = plan  BY <1>1
    <3> QED BY <3>1, <3>2, <2>2, <1>11
  <2> QED BY <2>1, <2>2
<1>13. PlanCost(dist, plan)' = PlanCost(dist, plan')
       /\ PlanCost(dist, best)' = PlanCost(dist, best')
       /\ PlanCost(dist, start)' = PlanCost(dist, start)
  BY <1>8
<1>14. ServesAll(plan)' /\ ServesAll(best)'  BY <1>9
<1> QED BY <1>8, <1>12, <1>13, <1>14

-----------------------------------------------------------------------------
(* Fleet minimisation: a route is as it was given or was filled by a       *)
(* customer that fitted; emptying one loses nobody.                        *)

Filled(d, given, r) ==
    \/ r \in given
    \/ \E j \in DOMAIN r : Fits(d, RemoveAt(r, j), j, r[j])
AllFilled(d, given, p) ==
    \A i \in DOMAIN p : p[i] # <<>> /\ Filled(d, given, p[i])

LEMMA FittingIsGap ==
    ASSUME NEW d \in Grid, NEW p \in Seq(Seq(Customers)), NEW c \in Customers,
           NEW q \in InsertFleet(d, p, c)
    PROVE  \E x \in Fitting(d, p, c) : q = Placed(p, x, c)
<1>1. PICK fits : fits = Fitting(d, p, c)  OBVIOUS
<1>2. PICK key : key = [x \in fits |->
                    <<CAPACITY - Load(p[x[1]]) - Demand[c],
                      Detour(d, p, x, c), x[1], x[2]>>]
  OBVIOUS
<1>3. fits # {} /\ q = Placed(p, FirstBy(fits, key), c)
  BY <1>1, <1>2 DEF InsertFleet
<1>4. fits \in SUBSET Gaps(p)  BY <1>1 DEF Fitting
<1>5. IsFiniteSet(fits)  BY <1>4, GapsAreFinite, FS_Subset
<1>6. \A x \in fits : x[1] \in Int /\ x[2] \in Int /\ x = <<x[1], x[2]>>
  BY <1>4, GapIs
<1>7. \A x \in fits : /\ CAPACITY - Load(p[x[1]]) - Demand[c] \in Int
                      /\ Detour(d, p, x, c) \in Int
  <2> TAKE x \in fits
  <2>1. x \in Gaps(p)  BY <1>4
  <2>2. p[x[1]] \in Seq(Customers)  BY <2>1, GapIs
  <2>3. Load(p[x[1]]) \in Int  BY <2>2, LoadIsInt
  <2>4. Demand[c] \in Int /\ CAPACITY \in Int  BY SearchIsKnown
  <2> QED BY <2>1, <2>3, <2>4, DetourIsInt
<1>8. \A x \in fits : key[x] = <<CAPACITY - Load(p[x[1]]) - Demand[c],
                                 Detour(d, p, x, c), x[1], x[2]>>
  BY <1>2
<1>9. key \in [fits -> Keys(4)]
  <2>1. \A x \in fits : <<CAPACITY - Load(p[x[1]]) - Demand[c],
                          Detour(d, p, x, c), x[1], x[2]>> \in Keys(4)
    BY <1>6, <1>7 DEF Keys
  <2> QED BY <1>2, <2>1
<1>10. \A x, y \in fits : x # y => key[x] # key[y]  BY <1>6, <1>8
<1>11. TellsApart(key, fits, 4)  BY <1>9, <1>10 DEF TellsApart
<1>12. FirstBy(fits, key) \in fits  BY <1>3, <1>5, <1>11, FirstOf
<1> QED BY <1>1, <1>3, <1>12

LEMMA InsertFleetFills ==
    ASSUME NEW d \in Grid, NEW given, NEW size, NEW S \in SUBSET Customers,
           NEW p \in Recreating(size, S), AllFilled(d, given, p),
           NEW c \in Customers \ S, NEW q \in InsertFleet(d, p, c)
    PROVE  q \in Recreating(size, S \cup {c}) /\ AllFilled(d, given, q)
<1>1. p \in Seq(Seq(Customers))  BY DEF Recreating
<1>2. PICK x \in Fitting(d, p, c) : q = Placed(p, x, c)
  BY <1>1, FittingIsGap
<1>3. x \in Gaps(p) /\ Fits(d, p[x[1]], x[2], c)  BY <1>2 DEF Fitting
<1>4. PICK i : i = x[1]  OBVIOUS
<1>5. PICK at : at = x[2]  OBVIOUS
<1>6. PICK r : r = p[i]  OBVIOUS
<1>7. PICK more : more = InsertAt(r, at, c)  OBVIOUS
<1>8. i \in DOMAIN p /\ r \in Seq(Customers) /\ at \in 1..(Len(r) + 1)
  BY <1>1, <1>3, <1>4, <1>5, <1>6, GapIs
<1>9. q \in Recreating(size, S \cup {c}) /\ q = Changed(p, i, more)
  BY <1>2, <1>3, <1>4, <1>5, <1>6, <1>7, PlacedHolds
<1>10. /\ more \in Seq(Customers) /\ Len(more) = Len(r) + 1 /\ more[at] = c
  BY <1>7, <1>8, InsertedAt
<1>11. RemoveAt(more, at) = r  BY <1>7, <1>8, InsertedAndRemoved
<1>12. at \in DOMAIN more /\ more # <<>>
  BY <1>8, <1>10
<1>13. Fits(d, RemoveAt(more, at), at, more[at])
  BY <1>3, <1>4, <1>5, <1>6, <1>10, <1>11
<1>14. DOMAIN q = DOMAIN p /\ q[i] = more
       /\ \A j \in DOMAIN p : j # i => q[j] = p[j]
  BY <1>8, <1>9 DEF Changed
<1>15. AllFilled(d, given, q)
  BY <1>12, <1>13, <1>14 DEF AllFilled, Filled
<1> QED BY <1>9, <1>15

LEMMA ChooseNextChooses ==
    ASSUME NEW pool \in SUBSET Customers, pool # {},
           NEW count \in [Customers -> Int]
    PROVE  ChooseNext(pool, count) \in pool
<1>1. PICK key : key = [c \in pool |-> <<count[c], -Demand[c], c>>]  OBVIOUS
<1>2. \A c \in pool : /\ key[c] = <<count[c], -Demand[c], c>>
                      /\ count[c] \in Int /\ -Demand[c] \in Int /\ c \in Int
  BY <1>1, SearchIsKnown, SearchedNodes
<1>3. key \in [pool -> Keys(3)]
  <2>1. \A c \in pool : <<count[c], -Demand[c], c>> \in Keys(3)
    BY <1>2 DEF Keys
  <2> QED BY <1>1, <2>1
<1>4. \A x, y \in pool : x # y => key[x] # key[y]  BY <1>2
<1>5. TellsApart(key, pool, 3)  BY <1>3, <1>4 DEF TellsApart
<1>6. IsFiniteSet(pool)  BY SearchedNodes, FS_Subset
<1>7. FirstBy(pool, key) \in pool  BY <1>5, <1>6, FirstOf
<1> QED BY <1>1, <1>7 DEF ChooseNext

(* After n steps of emptying: those placed are in the plan, and n of them  *)
(* are, unless one could not be.                                           *)
Emptying(d, given, size, n) ==
    {s \in [plan : Seq(Seq(Customers)), pool : SUBSET Customers,
            failed : SUBSET Customers] :
        /\ s.plan \in Recreating(size, Customers \ s.pool)
        /\ AllFilled(d, given, s.plan)
        /\ s.failed # {} \/ Cardinality(s.pool) <= N - n}

EmptyOne(d, was, count) ==
    LET c == ChooseNext(was.pool, count)
        put == InsertFleet(d, was.plan, c)
    IN  IF was.failed # {} \/ was.pool = {} THEN was
        ELSE IF put = {} THEN [was EXCEPT !.failed = {c}]
        ELSE [was EXCEPT !.plan = CHOOSE q \in put : TRUE, !.pool = @ \ {c}]

LEMMA EmptyOneKeeps ==
    ASSUME NEW d \in Grid, NEW given, NEW size, NEW count \in [Customers -> Int],
           NEW n \in 1..N, NEW was \in Emptying(d, given, size, n - 1)
    PROVE  EmptyOne(d, was, count) \in Emptying(d, given, size, n)
<1>1. /\ was \in [plan : Seq(Seq(Customers)), pool : SUBSET Customers,
                  failed : SUBSET Customers]
      /\ was.pool \in SUBSET Customers /\ was.failed \in SUBSET Customers
      /\ was.plan \in Seq(Seq(Customers))
      /\ was.plan \in Recreating(size, Customers \ was.pool)
      /\ AllFilled(d, given, was.plan)
      /\ was.failed # {} \/ Cardinality(was.pool) <= N - (n - 1)
  BY DEF Emptying
<1>2. PICK c : c = ChooseNext(was.pool, count)  OBVIOUS
<1>3. PICK put : put = InsertFleet(d, was.plan, c)  OBVIOUS
<1>4. EmptyOne(d, was, count) =
        IF was.failed # {} \/ was.pool = {} THEN was
        ELSE IF put = {} THEN [was EXCEPT !.failed = {c}]
        ELSE [was EXCEPT !.plan = CHOOSE q \in put : TRUE, !.pool = @ \ {c}]
  BY <1>2, <1>3 DEF EmptyOne
<1>5. N - n \in Nat  BY SearchIsKnown
<1>6. CASE was.failed # {} \/ was.pool = {}
  <2>1. was.failed # {} \/ Cardinality(was.pool) <= N - n
    BY <1>5, <1>6, FS_EmptySet
  <2>2. was \in Emptying(d, given, size, n)  BY <1>1, <2>1 DEF Emptying
  <2> QED BY <1>4, <1>6, <2>2
<1>7. CASE was.failed = {} /\ was.pool # {} /\ put = {}
  <2>1. c \in Customers  BY <1>1, <1>2, <1>7, ChooseNextChooses
  <2>2. PICK now : now = [was EXCEPT !.failed = {c}]  OBVIOUS
  <2>3. /\ now \in [plan : Seq(Seq(Customers)), pool : SUBSET Customers,
                    failed : SUBSET Customers]
        /\ now.plan = was.plan /\ now.pool = was.pool /\ now.failed # {}
    BY <1>1, <2>1, <2>2
  <2>4. now \in Emptying(d, given, size, n)  BY <1>1, <2>3 DEF Emptying
  <2> QED BY <1>4, <1>7, <2>2, <2>4
<1>8. CASE was.failed = {} /\ was.pool # {} /\ put # {}
  <2>1. c \in was.pool  BY <1>1, <1>2, <1>8, ChooseNextChooses
  <2>2. PICK q : q = CHOOSE y \in put : TRUE  OBVIOUS
  <2>3. q \in put  BY <1>8, <2>2
  <2>4. PICK S : S = Customers \ was.pool  OBVIOUS
  <2>5. c \in Customers \ S /\ S \in SUBSET Customers
    BY <1>1, <2>1, <2>4
  <2>6. was.plan \in Recreating(size, S)  BY <1>1, <2>4
  <2>7. q \in InsertFleet(d, was.plan, c)  BY <1>3, <2>3
  <2>8. q \in Recreating(size, S \cup {c}) /\ AllFilled(d, given, q)
    BY <1>1, <2>5, <2>6, <2>7, InsertFleetFills
  <2>9. S \cup {c} = Customers \ (was.pool \ {c})
    BY <1>1, <2>1, <2>4
  <2>10. PICK now :
            now = [was EXCEPT !.plan = CHOOSE y \in put : TRUE, !.pool = @ \ {c}]
    OBVIOUS
  <2>11. /\ now \in [plan : Seq(Seq(Customers)), pool : SUBSET Customers,
                     failed : SUBSET Customers]
         /\ now.plan = q /\ now.pool = was.pool \ {c}
    <3>1. q \in Seq(Seq(Customers))  BY <2>8 DEF Recreating
    <3> QED BY <3>1, <1>1, <2>2, <2>10
  <2>12. Cardinality(now.pool) <= N - n
    <3>1. PICK pool : pool = was.pool  OBVIOUS
    <3>2. IsFiniteSet(pool)  BY <1>1, <3>1, SearchedNodes, FS_Subset
    <3>3. Cardinality(pool) \in Nat  BY <3>2, FS_CardinalityType
    <3>4. Cardinality(pool \ {c}) = Cardinality(pool) - 1
      BY <2>1, <3>1, <3>2, FS_RemoveElement
    <3>5. Cardinality(pool) <= N - (n - 1)  BY <1>1, <1>8, <3>1
    <3>6. now.pool = pool \ {c}  BY <2>11, <3>1
    <3> QED BY <3>3, <3>4, <3>5, <3>6, <1>5, SearchIsKnown
  <2>13. now \in Emptying(d, given, size, n)
    BY <2>8, <2>9, <2>11, <2>12 DEF Emptying
  <2> QED BY <1>4, <1>8, <2>10, <2>13
<1> QED BY <1>6, <1>7, <1>8

ReinsertIs(g, d, p, pool, count) ==
    g = [n \in 0..N |->
            IF n = 0 THEN [plan |-> p, pool |-> pool, failed |-> {}]
            ELSE EmptyOne(d, g[n - 1], count)]

LEMMA ReinsertEmpties ==
    ASSUME NEW d \in Grid, NEW given, NEW size, NEW count \in [Customers -> Int],
           NEW pool \in SUBSET Customers,
           NEW p \in Recreating(size, Customers \ pool), AllFilled(d, given, p)
    PROVE  Reinsert(d, p, pool, count) \in Emptying(d, given, size, N)
<1>1. PICK x0 : x0 = [plan |-> p, pool |-> pool, failed |-> {}]  OBVIOUS
<1>2. PICK X : X = [n \in 0..N |-> Emptying(d, given, size, n)]  OBVIOUS
<1>3. N \in Nat  BY SearchIsKnown
<1>4. \A n \in 0..N : X[n] = Emptying(d, given, size, n)  BY <1>2
<1>5. x0 \in X[0]
  <2>1. Cardinality(pool) <= N
    <3>1. Cardinality(pool) <= Cardinality(Customers)
      BY SearchedNodes, FS_Subset
    <3> QED BY <3>1, SearchedNodes
  <2>2. p \in Seq(Seq(Customers))  BY DEF Recreating
  <2>3. x0 \in [plan : Seq(Seq(Customers)), pool : SUBSET Customers,
                failed : SUBSET Customers]
        /\ x0.plan = p /\ x0.pool = pool
    BY <1>1, <2>2
  <2>4. Cardinality(x0.pool) <= N - 0  BY <2>1, <2>3, <1>3
  <2>5. x0 \in Emptying(d, given, size, 0)
    BY <2>3, <2>4 DEF Emptying
  <2> QED BY <2>5, <1>3, <1>4
<1>6. \A n \in 1..N : \A was \in X[n - 1] : EmptyOne(d, was, count) \in X[n]
  <2> TAKE n \in 1..N
  <2>1. n \in 0..N /\ n - 1 \in 0..N  BY <1>3
  <2> TAKE was \in X[n - 1]
  <2>2. was \in Emptying(d, given, size, n - 1)  BY <2>1, <1>4
  <2>3. EmptyOne(d, was, count) \in Emptying(d, given, size, n)
    BY <2>2, EmptyOneKeeps
  <2> QED BY <2>1, <2>3, <1>4
<1> DEFINE s == [n \in 1..N |-> [was \in X[n - 1] |-> EmptyOne(d, was, count)]]
<1>7. \E g : ReinsertIs(g, d, p, pool, count)
  <2>1. \A n \in 1..N : s[n] \in [X[n - 1] -> X[n]]  BY <1>6
  <2>2. \A n \in 1..N : \A was \in X[n - 1] :
            s[n][was] = EmptyOne(d, was, count)
    OBVIOUS
  <2> HIDE DEF s
  <2>3. PICK g : Loops(g, x0, s, N)  BY <1>3, LoopExists
  <2>4. \A n \in 0..N : g[n] \in X[n]  BY <1>3, <1>5, <2>1, <2>3, LoopStays
  <2>5. \A n \in 0..N : n # 0 => s[n][g[n - 1]] = EmptyOne(d, g[n - 1], count)
    <3>1. \A n \in 0..N : n # 0 => n \in 1..N /\ n - 1 \in 0..N  BY <1>3
    <3> QED BY <3>1, <2>2, <2>4
  <2>6. g = [n \in 0..N |-> IF n = 0 THEN x0 ELSE s[n][g[n - 1]]]
    BY <2>3 DEF Loops
  <2>7. g = [n \in 0..N |-> IF n = 0 THEN x0
                            ELSE EmptyOne(d, g[n - 1], count)]
    BY <2>5, <2>6
  <2> QED BY <2>7, <1>1 DEF ReinsertIs
<1> HIDE DEF s
<1>8. PICK g : /\ ReinsertIs(g, d, p, pool, count)
               /\ Reinsert(d, p, pool, count) = g[N]
  BY <1>7, Zenon DEF Reinsert, ReinsertIs, EmptyOne
<1>9. g[0] \in X[0] /\ \A n \in 1..N : g[n - 1] \in X[n - 1] => g[n] \in X[n]
  <2>1. 0 \in 0..N /\ \A n \in 1..N : n \in 0..N /\ n # 0  BY <1>3
  <2>2. g = [n \in 0..N |-> IF n = 0 THEN x0
                            ELSE EmptyOne(d, g[n - 1], count)]
    BY <1>1, <1>8 DEF ReinsertIs
  <2>3. g[0] = x0 /\ \A n \in 1..N : g[n] = EmptyOne(d, g[n - 1], count)
    BY <2>1, <2>2
  <2> QED BY <2>3, <1>5, <1>6
<1>10. \A n \in 0..N : g[n] \in X[n]  BY <1>3, <1>9, LoopKeeps
<1>11. N \in 0..N  BY <1>3
<1> QED BY <1>4, <1>8, <1>10, <1>11

LEMMA VictimIsRoute ==
    ASSUME NEW p \in Seq(Seq(Customers)), Len(p) # 0
    PROVE  Victim(p) \in DOMAIN p
<1>1. PICK key : key = [i \in DOMAIN p |-> <<Len(p[i]), i>>]  OBVIOUS
<1>2. DOMAIN p = 1..Len(p) /\ Len(p) \in Nat /\ IsFiniteSet(1..Len(p))
  BY FS_Interval
<1>3. \A i \in DOMAIN p : key[i] = <<Len(p[i]), i>>
  BY <1>1
<1>4. \A i \in DOMAIN p : Len(p[i]) \in Int /\ i \in Int  BY <1>2
<1>5. key \in [DOMAIN p -> Keys(2)]
  <2>1. \A i \in DOMAIN p : <<Len(p[i]), i>> \in Keys(2)
    BY <1>4 DEF Keys
  <2> QED BY <1>1, <2>1
<1>6. \A i, j \in DOMAIN p : i # j => key[i] # key[j]  BY <1>3
<1>7. TellsApart(key, DOMAIN p, 2)  BY <1>5, <1>6 DEF TellsApart
<1>8. IsFiniteSet(DOMAIN p) /\ DOMAIN p # {}
  <2>1. 1 \in DOMAIN p  BY <1>2
  <2>2. IsFiniteSet(DOMAIN p)  BY <1>2, Zenon
  <2> QED BY <2>1, <2>2
<1>9. FirstBy(DOMAIN p, key) \in DOMAIN p  BY <1>7, <1>8, FirstOf
<1> QED BY <1>1, <1>9 DEF Victim

FleetHolds ==
    /\ dist \in Grid
    /\ ServesAll(plan) /\ ServesAll(best)
    /\ absence \in [Customers -> Int]
    /\ Len(plan) <= Len(Busy(start))
    /\ AllFilled(dist, Range(start), plan)

LEMMA FleetAttemptHolds ==
    ASSUME FleetHolds, Len(Busy(start)) \in Int, FleetAttempt PROVE FleetHolds'
<1>1. PICK v : v = Victim(plan)  OBVIOUS
<1>2. PICK others : others = RemoveAt(plan, v)  OBVIOUS
<1>3. PICK pool : pool = Range(plan[v])  OBVIOUS
<1>4. PICK r : r = Reinsert(dist, others, pool, absence)  OBVIOUS
<1>5. /\ dist' = dist /\ start' = start /\ best' = best
      /\ IF r.failed = {}
         THEN plan' = r.plan /\ absence' = absence
         ELSE /\ \E order \in SetToSeqs(DOMAIN plan) :
                    plan' = [i \in DOMAIN plan |-> plan[order[i]]]
              /\ absence' = [c \in Customers |->
                                IF c \in r.failed
                                THEN Min({absence[c] + 1, CAP})
                                ELSE absence[c]]
  BY <1>1, <1>2, <1>3, <1>4 DEF FleetAttempt
<1>6. plan \in Seq(Seq(Customers)) /\ OnceEach(plan, Customers) /\ plan # <<>>
  BY DEF FleetHolds, ServesAll
<1>7. PICK n \in Nat : n = Len(plan) /\ DOMAIN plan = 1..n  BY <1>6
<1>8. v \in DOMAIN plan  BY <1>1, <1>6, VictimIsRoute
<1>9. PICK given : given = Range(start)  OBVIOUS
<1>10. AllFilled(dist, given, plan) /\ dist \in Grid
       /\ absence \in [Customers -> Int] /\ n <= Len(Busy(start))
  BY <1>7, <1>9 DEF FleetHolds
<1>11. pool = ToSet(plan[v]) /\ pool \in SUBSET Customers
  BY <1>3, <1>6, <1>8, RangeIsSet DEF OnceEach
<1>12. /\ others \in Seq(Seq(Customers)) /\ Len(others) = n - 1
       /\ OnceEach(others, Customers \ pool)
       /\ \A i \in DOMAIN others : \E j \in DOMAIN plan : others[i] = plan[j]
  <2>1. /\ RemoveAt(plan, v) \in Seq(Seq(Customers))
        /\ Len(RemoveAt(plan, v)) = Len(plan) - 1
        /\ OnceEach(RemoveAt(plan, v), Customers \ ToSet(plan[v]))
        /\ \A i \in DOMAIN RemoveAt(plan, v) : \E j \in DOMAIN plan :
                    RemoveAt(plan, v)[i] = plan[j]
    <3>1. Lists(plan, Customers, Customers)  BY <1>6 DEF Lists
    <3>2. ButOneList(plan, v, Customers, Customers)
      BY <3>1, <1>8, OnceRemoved
    <3> QED BY <3>2 DEF Lists, ButOneList
  <2> QED BY <2>1, <1>2, <1>7, <1>11
<1>13. AllFilled(dist, given, others)  BY <1>10, <1>12 DEF AllFilled
<1>14. r \in Emptying(dist, given, n - 1, N)
  <2>1. others \in Recreating(n - 1, Customers \ pool)
    BY <1>12 DEF Recreating
  <2> QED BY <2>1, <1>4, <1>10, <1>11, <1>13, ReinsertEmpties
<1>15. CASE r.failed = {}
  <2>1. plan' = r.plan /\ absence' = absence  BY <1>5, <1>15
  <2>2. PICK left0 : left0 = r.pool  OBVIOUS
  <2>3. /\ r.plan \in Recreating(n - 1, Customers \ left0)
        /\ AllFilled(dist, given, r.plan)
        /\ Cardinality(left0) <= N - N /\ left0 \in SUBSET Customers
    BY <1>14, <1>15, <2>2 DEF Emptying
  <2>4. left0 = {}
    <3>1. IsFiniteSet(left0)  BY <2>3, SearchedNodes, FS_Subset
    <3>2. Cardinality(left0) \in Nat  BY <3>1, FS_CardinalityType
    <3>3. Cardinality(left0) = 0  BY <3>2, <2>3, SearchIsKnown
    <3> QED BY <3>1, <3>3, FS_EmptySet
  <2>5. OnceEach(plan', Customers) /\ plan' \in Seq(Seq(Customers))
        /\ Len(plan') = n - 1
    BY <2>1, <2>3, <2>4 DEF Recreating
  <2>6. ServesAll(plan')  BY <2>5, OnceIsSome DEF ServesAll
  <2>7. Len(plan') <= Len(Busy(start))  BY <2>5, <1>10
  <2> QED BY <2>1, <2>3, <2>6, <2>7, <1>5, <1>9, <1>10 DEF FleetHolds
<1>16. CASE r.failed # {}
  <2>1. PICK order \in SetToSeqs(DOMAIN plan) :
            plan' = [i \in DOMAIN plan |-> plan[order[i]]]
    BY <1>5, <1>16
  <2>2. IsFiniteSet(DOMAIN plan) /\ Cardinality(DOMAIN plan) = n
    <3>1. IsFiniteSet(1..n) /\ Cardinality(1..n) = n  BY FS_Interval
    <3> QED BY <3>1, <1>7
  <2>3. /\ order \in Seq(DOMAIN plan) /\ Len(order) = n
        /\ IsInjective(order) /\ ToSet(order) = DOMAIN plan
    BY <2>2, SeqsOfSet
  <2>4. PICK q : q = [i \in DOMAIN plan |-> plan[order[i]]]  OBVIOUS
  <2>5. DOMAIN q = DOMAIN plan /\ \A i \in DOMAIN plan : q[i] = plan[order[i]]
    BY <2>4
  <2>6. order \in [DOMAIN plan -> DOMAIN plan]  BY <2>3, <1>7
  <2>7. Picks(q, plan, order)  BY <2>3, <2>5, <2>6 DEF Picks
  <2>8. OnceEach(q, UNION {ToSet(plan[order[i]]) : i \in DOMAIN q})
    BY <2>7, <1>6, OncePicked
  <2>9. UNION {ToSet(plan[order[i]]) : i \in DOMAIN q} = Customers
    <3>1. \A j \in DOMAIN plan : \E i \in DOMAIN plan : order[i] = j
      BY <2>3, <2>6 DEF ToSet
    <3> QED BY <3>1, <2>5, <2>6, <1>6 DEF OnceEach
  <2>10. q \in Seq(Seq(Customers)) /\ Len(q) = n
    <3>1. \A i \in 1..n : plan[order[i]] \in Seq(Customers)
      BY <2>6, <1>6, <1>7
    <3>2. q \in [1..n -> Seq(Customers)]  BY <3>1, <2>4, <1>7
    <3> QED BY <3>2
  <2>11. AllFilled(dist, given, q)
    BY <2>5, <2>6, <1>10 DEF AllFilled
  <2>12. ServesAll(q)
    BY <2>8, <2>9, <2>10, OnceIsSome DEF ServesAll
  <2>13. absence' \in [Customers -> Int]
    <3>1. ASSUME NEW c \in Customers PROVE Min({absence[c] + 1, CAP}) \in Int
      <4>1. PICK a \in Int : a = absence[c] + 1  BY <1>10
      <4>2. CAP \in Int  BY SearchIsKnown
      <4>3. Min({a, CAP}) \in Int  BY <4>2, MinOfTwo
      <4> QED BY <4>1, <4>3
    <3>2. \A c \in Customers : absence[c] \in Int  BY <1>10
    <3> QED BY <3>1, <3>2, <1>5, <1>16
  <2>14. plan' = q  BY <2>1, <2>4
  <2>15. Len(plan') <= Len(Busy(start))  BY <2>10, <2>14, <1>10
  <2>16. ServesAll(best)  BY DEF FleetHolds
  <2> QED BY <2>11, <2>12, <2>13, <2>14, <2>15, <2>16, <1>5, <1>9, <1>10
      DEF FleetHolds
<1> QED BY <1>15, <1>16

-----------------------------------------------------------------------------
(* Local search: every move makes a tour of the same nodes.                *)

ClosedTour(t) == t \in Seq(Nodes) /\ IsInjective(t) /\ ToSet(t) = Nodes

LEMMA TourIs ==
    ASSUME NEW t, ClosedTour(t)
    PROVE  /\ Len(t) = Cardinality(Nodes) /\ Len(t) \in Nat \ {0}
           /\ DOMAIN t = 1..Len(t) /\ \A i \in 1..Len(t) : t[i] \in Nodes
<1>1. t \in Seq(Nodes) /\ IsInjective(t) /\ ToSet(t) = Nodes  BY DEF ClosedTour
<1>2. Len(t) = Cardinality(Nodes)  BY <1>1, LengthOfOnce
<1>3. 0 \in ToSet(t)  BY <1>1, SearchedNodes
<1>4. Len(t) # 0  BY <1>1, <1>3 DEF ToSet
<1> QED BY <1>1, <1>2, <1>4

LEMMA PositionIs ==
    ASSUME NEW t \in Seq(Nodes), NEW c \in ToSet(t)
    PROVE  PositionOf(t, c) \in DOMAIN t /\ t[PositionOf(t, c)] = c
<1>1. \E i \in DOMAIN t : t[i] = c  BY DEF ToSet
<1> QED BY <1>1 DEF PositionOf

LEMMA AfterIs ==
    ASSUME NEW t, ClosedTour(t), NEW i \in DOMAIN t
    PROVE  After(t, i) \in Nodes
<1>1. PICK n \in Nat \ {0} : n = Len(t)  BY TourIs
<1>2. i \in 1..n  BY <1>1, TourIs
<1>3. (i % n) \in 0..(n - 1)  BY <1>1, <1>2
<1>4. (i % n) + 1 \in 1..n  BY <1>1, <1>3
<1>5. t[(i % n) + 1] \in Nodes  BY <1>1, <1>4, TourIs
<1> QED BY <1>1, <1>5 DEF After

LEMMA WithoutIs ==
    ASSUME NEW t, ClosedTour(t), NEW c \in Nodes
    PROVE  /\ Without(t, c) \in Seq(Nodes) /\ IsInjective(Without(t, c))
           /\ ToSet(Without(t, c)) = Nodes \ {c}
           /\ Len(Without(t, c)) = Len(t) - 1
<1>1. PICK rest : rest = Without(t, c)  OBVIOUS
<1>2. PICK others : others = Nodes \ {c}  OBVIOUS
<1>3. rest = Kept(t, others)  BY <1>1, <1>2 DEF Without
<1>4. t \in Seq(Nodes) /\ IsInjective(t) /\ ToSet(t) = Nodes  BY DEF ClosedTour
<1>5. /\ rest \in Seq(Nodes) /\ ToSet(rest) = ToSet(t) \cap others
      /\ IsInjective(rest)
  BY <1>3, <1>4, KeptSelects
<1>6. ToSet(rest) = others  BY <1>2, <1>4, <1>5
<1>7. rest \in Seq(others)
  <2>1. \A i \in 1..Len(rest) : rest[i] \in others
    BY <1>5, <1>6 DEF ToSet
  <2> QED BY <2>1, <1>5
<1>8. Len(rest) = Cardinality(others)  BY <1>5, <1>6, <1>7, LengthOfOnce
<1>9. Cardinality(others) = Cardinality(Nodes) - 1
  BY <1>2, SearchedNodes, FS_RemoveElement
<1> QED BY <1>1, <1>2, <1>5, <1>6, <1>8, <1>9, TourIs

LEMMA PutBackIsTour ==
    ASSUME NEW t, ClosedTour(t), NEW c \in Nodes, NEW at \in 1..Len(t)
    PROVE  ClosedTour(InsertAt(Without(t, c), at, c))
<1>1. PICK rest : rest = Without(t, c)  OBVIOUS
<1>2. /\ rest \in Seq(Nodes) /\ IsInjective(rest)
      /\ ToSet(rest) = Nodes \ {c} /\ Len(rest) = Len(t) - 1
  BY <1>1, WithoutIs
<1>3. Len(t) \in Nat  BY TourIs
<1>4. at \in 1..(Len(rest) + 1) /\ c \notin ToSet(rest)  BY <1>2, <1>3
<1>5. /\ InsertAt(rest, at, c) \in Seq(Nodes)
      /\ ToSet(InsertAt(rest, at, c)) = ToSet(rest) \cup {c}
      /\ IsInjective(InsertAt(rest, at, c))
  BY <1>2, <1>4, InsertedAt
<1> QED BY <1>1, <1>2, <1>5 DEF ClosedTour

LEMMA RelocateIsTour ==
    ASSUME NEW t, ClosedTour(t), NEW c \in Nodes, NEW other \in Nodes \ {c}
    PROVE  ClosedTour(Relocate(t, c, other))
<1>1. PICK rest : rest = Without(t, c)  OBVIOUS
<1>2. /\ rest \in Seq(Nodes) /\ ToSet(rest) = Nodes \ {c}
      /\ Len(rest) = Len(t) - 1
  BY <1>1, WithoutIs
<1>3. PICK at : at = PositionOf(rest, other)  OBVIOUS
<1>4. at \in DOMAIN rest  BY <1>2, <1>3, PositionIs
<1>5. Len(t) \in Nat  BY TourIs
<1>6. at + 1 \in 1..Len(t)  BY <1>2, <1>4, <1>5
<1>7. ClosedTour(InsertAt(Without(t, c), at + 1, c))  BY <1>6, PutBackIsTour
<1> QED BY <1>1, <1>3, <1>7 DEF Relocate

LEMMA ReversedIsTour ==
    ASSUME NEW t, ClosedTour(t), NEW l \in 1..Len(t), NEW r \in 1..Len(t), l <= r
    PROVE  ClosedTour(Reversed(t, l, r))
<1>1. PICK n \in Nat : n = Len(t)  BY TourIs
<1>2. /\ DOMAIN t = 1..n /\ t \in [1..n -> Nodes] /\ IsInjective(t)
      /\ ToSet(t) = Nodes /\ l \in 1..n /\ r \in 1..n
  BY <1>1 DEF ClosedTour
<1> DEFINE m == [i \in 1..n |-> IF l <= i /\ i < r THEN l + r - 1 - i ELSE i]
<1>3. \A i \in 1..n : m[i] \in 1..n /\ m[m[i]] = i
  <2> TAKE i \in 1..n
  <2>1. CASE l <= i /\ i < r
    <3>1. m[i] = l + r - 1 - i  BY <2>1
    <3>2. l + r - 1 - i \in 1..n /\ l <= l + r - 1 - i /\ l + r - 1 - i < r
      BY <2>1, <1>2
    <3>3. m[l + r - 1 - i] = l + r - 1 - (l + r - 1 - i)  BY <3>2
    <3>4. l + r - 1 - (l + r - 1 - i) = i  BY <1>2
    <3> HIDE DEF m
    <3> QED BY <3>1, <3>2, <3>3, <3>4
  <2>2. CASE ~(l <= i /\ i < r)
    <3>1. m[i] = i  BY <2>2
    <3> HIDE DEF m
    <3> QED BY <3>1
  <2> QED BY <2>1, <2>2
<1>4. PICK u : u = Reversed(t, l, r)  OBVIOUS
<1>5. DOMAIN u = 1..n /\ \A i \in 1..n : u[i] = t[m[i]]
  <2>1. u = [i \in 1..n |-> IF l <= i /\ i < r THEN t[l + r - 1 - i] ELSE t[i]]
    BY <1>2, <1>4 DEF Reversed
  <2> QED BY <2>1
<1>6. u = [i \in 1..n |-> t[m[i]]]
  <2>1. u = [i \in 1..n |-> IF l <= i /\ i < r THEN t[l + r - 1 - i] ELSE t[i]]
    BY <1>2, <1>4 DEF Reversed
  <2>2. u = [i \in 1..n |-> u[i]]  BY <2>1
  <2> QED BY <2>2, <1>5
<1> HIDE DEF m
<1>7. u \in [1..n -> Nodes]  BY <1>2, <1>3, <1>6
<1>8. IsInjective(u)
  <2>1. ASSUME NEW i \in 1..n, NEW j \in 1..n, u[i] = u[j] PROVE i = j
    <3>1. t[m[i]] = t[m[j]]  BY <2>1, <1>5
    <3>2. m[i] \in 1..n /\ m[j] \in 1..n  BY <1>3
    <3>3. m[i] = m[j]  BY <3>1, <3>2, <1>2 DEF IsInjective
    <3>4. m[m[i]] = i /\ m[m[j]] = j  BY <1>3
    <3> QED BY <3>3, <3>4
  <2> QED BY <2>1, <1>5 DEF IsInjective
<1>9. ToSet(u) = Nodes
  <2>1. \A x \in Nodes : \E i \in 1..n : t[i] = x  BY <1>2 DEF ToSet
  <2>2. \A x \in Nodes : \E i \in 1..n : u[i] = x
    <3> TAKE x \in Nodes
    <3>1. PICK i \in 1..n : t[i] = x  BY <2>1
    <3>2. m[i] \in 1..n /\ m[m[i]] = i  BY <1>3
    <3>3. u[m[i]] = x  BY <3>1, <3>2, <1>5
    <3> QED BY <3>2, <3>3
  <2> QED BY <2>2, <1>5, <1>7 DEF ToSet
<1>10. u \in Seq(Nodes)  BY <1>7
<1> QED BY <1>4, <1>8, <1>9, <1>10 DEF ClosedTour

LEMMA NeighboursAreNodes ==
    ASSUME NEW d \in Grid, NEW c \in Nodes
    PROVE  Neighbours(d, c) \in Seq(Nodes)
<1>1. PICK others : others = Nodes \ {c}  OBVIOUS
<1>2. PICK key : key = [a \in others |-> <<d[c][a], a>>]  OBVIOUS
<1>3. PICK near : near = Ranked(others, key)  OBVIOUS
<1>4. PICK first : first = SubSeq(near, 1, Min({K, Len(near)}))  OBVIOUS
<1>5. Neighbours(d, c) = IF 0 \in Range(first) \/ c = 0 THEN first
                         ELSE Append(first, 0)
  BY <1>1, <1>2, <1>3, <1>4 DEF Neighbours
<1>6. IsFiniteSet(others)  BY <1>1, SearchedNodes, FS_Subset
<1>7. \A a \in others : d[c][a] \in Int /\ a \in Int
  <2> TAKE a \in others
  <2>1. a \in Nodes  BY <1>1
  <2>2. a \in Int  BY <2>1, SearchedNodes
  <2> QED BY <2>1, <2>2, DistanceIsInt
<1>8. \A a \in others : key[a] = <<d[c][a], a>>  BY <1>2
<1>9. key \in [others -> Keys(2)]
  <2>1. \A a \in others : <<d[c][a], a>> \in Keys(2)  BY <1>7 DEF Keys
  <2> QED BY <2>1, <1>2
<1>10. \A x, y \in others : x # y => key[x] # key[y]  BY <1>8
<1>11. TellsApart(key, others, 2)  BY <1>9, <1>10 DEF TellsApart
<1>12. near \in Seq(others)  BY <1>3, <1>6, <1>11, RankedLists
<1>13. near \in Seq(Nodes)  BY <1>1, <1>12
<1>14. first \in Seq(Nodes)
  <2>1. PICK n \in Nat : n = Len(near)  BY <1>13
  <2>2. K \in Int /\ n \in Int  BY SearchIsKnown
  <2>3. PICK upto : upto = Min({K, n})  OBVIOUS
  <2>4. upto \in {K, n} /\ upto <= n  BY <2>2, <2>3, MinOfTwo
  <2>5. upto \in 0..n  BY <2>1, <2>4, SearchIsKnown
  <2>6. Upto(near, upto) \in Seq(Nodes)  BY <1>13, <2>1, <2>5, UptoIs
  <2> QED BY <1>4, <2>1, <2>3, <2>6 DEF Upto
<1> QED BY <1>5, <1>14, SearchedNodes, AppendSets

(* The length of a tour, by its positions and by its nodes.                *)
LEMMA AfterSteps ==
    ASSUME NEW t, ClosedTour(t), NEW k \in 1..Len(t)
    PROVE  After(t, k) = IF k = Len(t) THEN t[1] ELSE t[k + 1]
<1>1. PICK n \in Nat \ {0} : n = Len(t)  BY TourIs
<1>2. k \in 1..n  BY <1>1
<1>3. (k % n) = IF k = n THEN 0 ELSE k  BY <1>2
<1> QED BY <1>1, <1>3 DEF After

LEMMA LegIsInt ==
    ASSUME NEW d \in Grid, NEW t, ClosedTour(t), NEW k \in 1..Len(t)
    PROVE  d[t[k]][After(t, k)] \in Int
<1>1. k \in DOMAIN t /\ t[k] \in Nodes  BY TourIs
<1>2. After(t, k) \in Nodes  BY <1>1, AfterIs
<1> QED BY <1>1, <1>2, DistanceIsInt

Legs(d, t) == [k \in DOMAIN t |-> d[t[k]][After(t, k)]]

LEMMA LengthOfLegs ==
    ASSUME NEW d, NEW t, ClosedTour(t)
    PROVE  TourLength(d, t) = SumFunctionOnSet(Legs(d, t), 1..Len(t))
<1>1. DOMAIN t = 1..Len(t)  BY TourIs
<1>2. TourLength(d, t) = SumFunction(Legs(d, t))  BY DEF TourLength, Legs, After
<1> QED BY <1>1, <1>2 DEF SumFunction, Legs

LEMMA LengthByNode ==
    ASSUME NEW d, NEW t, ClosedTour(t), NEW f, \A x \in Nodes : f[x] \in Int,
           \A k \in 1..Len(t) : f[t[k]] = d[t[k]][After(t, k)]
    PROVE  TourLength(d, t) = SumFunctionOnSet(f, Nodes)
<1>1. PICK n \in Nat \ {0} : n = Len(t) /\ DOMAIN t = 1..n
            /\ \A k \in 1..n : t[k] \in Nodes
  BY TourIs
<1>2. PICK g : g = Legs(d, t)  OBVIOUS
<1>3. \A k \in 1..n : g[k] = f[t[k]]  BY <1>1, <1>2 DEF Legs
<1>4. Renumbers(t, 1..n, Nodes)
  <2>1. t \in [1..n -> Nodes]  BY <1>1 DEF ClosedTour
  <2>2. IsInjective(t) /\ ToSet(t) = Nodes  BY DEF ClosedTour
  <2>3. \A j, k \in 1..n : t[j] = t[k] => j = k  BY <2>2, <1>1 DEF IsInjective
  <2>4. \A x \in Nodes : \E k \in 1..n : t[k] = x  BY <2>2, <1>1 DEF ToSet
  <2> QED BY <2>1, <2>3, <2>4 DEF Renumbers
<1>5. IsFiniteSet(1..n) /\ IsFiniteSet(Nodes)  BY FS_Interval, SearchedNodes
<1>6. SumFunctionOnSet(g, 1..n) = SumFunctionOnSet(f, Nodes)
  BY <1>3, <1>4, <1>5, SumRenumbered
<1> QED BY <1>1, <1>2, <1>6, LengthOfLegs

(* Where each node of a tour leads.                                        *)
Leads(to, t) == /\ to \in [Nodes -> Nodes]
                /\ \A k \in 1..Len(t) : to[t[k]] = After(t, k)

LEMMA TourLeads ==
    ASSUME NEW t, ClosedTour(t) PROVE \E to : Leads(to, t)
<1>1. PICK n \in Nat \ {0} : n = Len(t) /\ DOMAIN t = 1..n
            /\ \A k \in 1..n : t[k] \in Nodes
  BY TourIs
<1>2. t \in Seq(Nodes) /\ IsInjective(t) /\ ToSet(t) = Nodes  BY DEF ClosedTour
<1> DEFINE to == [x \in Nodes |-> After(t, PositionOf(t, x))]
<1>3. \A x \in Nodes : PositionOf(t, x) \in 1..n /\ t[PositionOf(t, x)] = x
  BY <1>1, <1>2, PositionIs
<1>4. to \in [Nodes -> Nodes]
  <2>1. \A x \in Nodes : After(t, PositionOf(t, x)) \in Nodes
    BY <1>1, <1>3, AfterIs
  <2> QED BY <2>1
<1>5. ASSUME NEW k \in 1..n PROVE to[t[k]] = After(t, k)
  <2>1. t[k] \in Nodes  BY <1>1
  <2>2. PositionOf(t, t[k]) = k  BY <2>1, <1>1, <1>2, <1>3 DEF IsInjective
  <2> QED BY <2>1, <2>2
<1> HIDE DEF to
<1>6. Leads(to, t)  BY <1>1, <1>4, <1>5 DEF Leads
<1> QED BY <1>6

LEMMA LengthOfLeads ==
    ASSUME NEW d \in Grid, NEW t, ClosedTour(t), NEW to, Leads(to, t)
    PROVE  TourLength(d, t) = SumFunctionOnSet([x \in Nodes |-> d[x][to[x]]], Nodes)
<1> DEFINE f == [x \in Nodes |-> d[x][to[x]]]
<1>1. \A x \in Nodes : f[x] \in Int
  <2>1. \A x \in Nodes : to[x] \in Nodes  BY DEF Leads
  <2> QED BY <2>1, DistanceIsInt
<1>2. \A k \in 1..Len(t) : f[t[k]] = d[t[k]][After(t, k)]
  <2>1. \A k \in 1..Len(t) : t[k] \in Nodes  BY TourIs
  <2> QED BY <2>1 DEF Leads
<1> HIDE DEF f
<1>3. TourLength(d, t) = SumFunctionOnSet(f, Nodes)  BY <1>1, <1>2, LengthByNode
<1> QED BY <1>3 DEF f

(* A relocation, node by node: three nodes lead somewhere else.            *)
Moved(to, prev, next, other, c, after) ==
    [x \in Nodes |-> IF x = prev THEN next
                     ELSE IF x = other THEN c
                     ELSE IF x = c THEN after ELSE to[x]]

(* Position k of the tour that has the entry of position i after that of q. *)
Shifted(t, i, q, k) ==
    IF q < i
    THEN IF k <= q \/ k > i THEN t[k] ELSE IF k = q + 1 THEN t[i] ELSE t[k - 1]
    ELSE IF k < i \/ k > q THEN t[k] ELSE IF k = q THEN t[i] ELSE t[k + 1]

LEMMA RelocatedAt ==
    ASSUME NEW t, ClosedTour(t), NEW i \in 1..Len(t), NEW q \in 1..Len(t), i # q
    PROVE  \A k \in 1..Len(t) : Relocate(t, t[i], t[q])[k] = Shifted(t, i, q, k)
<1>1. PICK n \in Nat \ {0} : n = Len(t) /\ DOMAIN t = 1..n
            /\ \A k \in 1..n : t[k] \in Nodes
  BY TourIs
<1>2. t \in Seq(Nodes) /\ IsInjective(t) /\ ToSet(t) = Nodes  BY DEF ClosedTour
<1>3. PICK c : c = t[i]  OBVIOUS
<1>4. PICK other : other = t[q]  OBVIOUS
<1>5. c \in Nodes /\ other \in Nodes /\ c # other
  BY <1>1, <1>2, <1>3, <1>4 DEF IsInjective
<1>6. PICK rest : rest = Without(t, c)  OBVIOUS
<1>7. /\ rest \in Seq(Nodes) /\ IsInjective(rest) /\ ToSet(rest) = Nodes \ {c}
      /\ Len(rest) = n - 1
  BY <1>1, <1>5, <1>6, WithoutIs
<1>8. ButOne(rest, t, i, Len(t))
  <2>1. PICK wanted : wanted = Nodes \ {c}  OBVIOUS
  <2>2. \A j \in 1..Len(t) : t[j] \in wanted <=> j # i
    BY <2>1, <1>1, <1>2, <1>3 DEF IsInjective
  <2>3. rest = Kept(t, wanted)  BY <2>1, <1>6 DEF Without
  <2> QED BY <2>2, <2>3, <1>2, KeptButOne
<1>9. \A j \in 1..(n - 1) : rest[j] = IF j < i THEN t[j] ELSE t[j + 1]
  BY <1>7, <1>8 DEF ButOne
<1>10. PICK p : p = PositionOf(rest, other)  OBVIOUS
<1>11. p \in 1..(n - 1) /\ rest[p] = other
  <2>1. other \in ToSet(rest)  BY <1>5, <1>7
  <2>2. DOMAIN rest = 1..(n - 1)  BY <1>7
  <2> QED BY <2>1, <2>2, <1>7, <1>10, PositionIs
<1>12. p = IF q < i THEN q ELSE q - 1
  <2>1. PICK p0 : p0 = IF q < i THEN q ELSE q - 1  OBVIOUS
  <2>2. p0 \in 1..(n - 1) /\ rest[p0] = other
    <3>1. p0 \in 1..(n - 1)  BY <2>1, <1>1
    <3>2. rest[p0] = IF p0 < i THEN t[p0] ELSE t[p0 + 1]  BY <3>1, <1>9
    <3>3. p0 < i => p0 = q  BY <2>1, <1>1
    <3>4. ~(p0 < i) => p0 + 1 = q  BY <2>1, <1>1
    <3> QED BY <3>1, <3>2, <3>3, <3>4, <1>4
  <2>3. DOMAIN rest = 1..(n - 1)  BY <1>7
  <2>4. p = p0  BY <2>2, <2>3, <1>7, <1>11 DEF IsInjective
  <2> QED BY <2>1, <2>4
<1>13. PICK u : u = Relocate(t, c, other)  OBVIOUS
<1>14. u = InsertAt(rest, p + 1, c)  BY <1>6, <1>10, <1>13 DEF Relocate
<1>15. /\ \A j \in 1..p : u[j] = rest[j]
       /\ u[p + 1] = c
       /\ \A j \in (p + 1)..(n - 1) : u[j + 1] = rest[j]
  <2>1. PICK at : at = p + 1  OBVIOUS
  <2>2. at \in 1..(Len(rest) + 1) /\ at - 1 = p  BY <2>1, <1>7, <1>11
  <2>3. /\ \A j \in 1..(at - 1) : u[j] = rest[j]
        /\ u[at] = c
        /\ \A j \in at..Len(rest) : u[j + 1] = rest[j]
    <3>1. u = InsertAt(rest, at, c)  BY <2>1, <1>14
    <3>2. rest \in Seq(Nodes) /\ c \in Nodes  BY <1>5, <1>7
    <3> QED BY <3>1, <3>2, <2>2, InsertedAt
  <2> QED BY <2>1, <2>2, <2>3, <1>7
<1>16. ASSUME NEW k \in 1..n PROVE u[k] = Shifted(t, i, q, k)
  <2>1. CASE k <= p
    <3>1. k \in 1..p /\ k \in 1..(n - 1)  BY <2>1, <1>11
    <3>2. u[k] = IF k < i THEN t[k] ELSE t[k + 1]  BY <3>1, <1>9, <1>15
    <3> QED BY <2>1, <3>2, <1>1, <1>11, <1>12 DEF Shifted
  <2>2. CASE k = p + 1
    <3>1. u[k] = t[i]  BY <2>2, <1>3, <1>15
    <3> QED BY <2>2, <3>1, <1>1, <1>12 DEF Shifted
  <2>3. CASE k > p + 1
    <3>1. PICK j \in (p + 1)..(n - 1) : k = j + 1
      <4>1. k - 1 \in (p + 1)..(n - 1) /\ k = (k - 1) + 1  BY <2>3, <1>11
      <4> QED BY <4>1
    <3>2. u[k] = rest[j] /\ j \in 1..(n - 1)  BY <3>1, <1>11, <1>15
    <3>3. u[k] = IF j < i THEN t[j] ELSE t[j + 1]  BY <3>2, <1>9
    <3>4. j = k - 1 /\ j + 1 = k  BY <3>1
    <3> QED BY <2>3, <3>3, <3>4, <1>1, <1>12 DEF Shifted
  <2> QED BY <2>1, <2>2, <2>3, <1>11
<1> QED BY <1>1, <1>3, <1>4, <1>13, <1>16

LEMMA RelocateLeads ==
    ASSUME NEW t, ClosedTour(t), NEW i \in 2..Len(t), NEW q \in 1..Len(t),
           i # q, After(t, q) # t[i], NEW to, Leads(to, t)
    PROVE  Leads(Moved(to, t[i - 1], After(t, i), t[q], t[i], After(t, q)),
                 Relocate(t, t[i], t[q]))
<1>1. PICK n \in Nat \ {0} : n = Len(t) /\ DOMAIN t = 1..n
            /\ \A k \in 1..n : t[k] \in Nodes
  BY TourIs
<1>2. t \in Seq(Nodes) /\ IsInjective(t)  BY DEF ClosedTour
<1>3. \A j, k \in 1..n : t[j] = t[k] => j = k  BY <1>1, <1>2 DEF IsInjective
<1>4. PICK c : c = t[i]  OBVIOUS
<1>5. PICK other : other = t[q]  OBVIOUS
<1>6. PICK prev : prev = t[i - 1]  OBVIOUS
<1>7. PICK next : next = After(t, i)  OBVIOUS
<1>8. PICK after : after = After(t, q)  OBVIOUS
<1>9. PICK now : now = Moved(to, prev, next, other, c, after)  OBVIOUS
<1>10. i \in 2..n /\ q \in 1..n /\ i - 1 \in 1..n /\ i # q  BY <1>1
<1>11. \A k \in 1..n : After(t, k) = IF k = n THEN t[1] ELSE t[k + 1]
  BY <1>1, AfterSteps
<1>12. q + 1 # i
  <2>1. SUFFICES ASSUME q + 1 = i PROVE FALSE  OBVIOUS
  <2>2. q # n /\ t[q + 1] = c  BY <2>1, <1>4, <1>10
  <2> QED BY <2>2, <1>4, <1>10, <1>11
<1>13. \A k \in 1..n : /\ t[k] = prev <=> k = i - 1
                       /\ t[k] = other <=> k = q
                       /\ t[k] = c <=> k = i
  BY <1>3, <1>4, <1>5, <1>6, <1>10
<1>14. \A k \in 1..n : to[t[k]] = After(t, k)  BY <1>1 DEF Leads
<1>15. \A k \in 1..n : now[t[k]] = IF k = i - 1 THEN next
                                   ELSE IF k = q THEN c
                                   ELSE IF k = i THEN after
                                   ELSE IF k = n THEN t[1] ELSE t[k + 1]
  BY <1>1, <1>9, <1>11, <1>13, <1>14 DEF Moved
<1>16. /\ prev \in Nodes /\ next \in Nodes /\ other \in Nodes /\ c \in Nodes
       /\ after \in Nodes
  BY <1>1, <1>4, <1>5, <1>6, <1>7, <1>8, <1>10, AfterIs
<1>17. now \in [Nodes -> Nodes]
  <2>1. to \in [Nodes -> Nodes]  BY DEF Leads
  <2> QED BY <2>1, <1>9, <1>16 DEF Moved
<1>18. PICK u : u = Relocate(t, c, other)  OBVIOUS
<1>19. \A k \in 1..n : u[k] = Shifted(t, i, q, k)
  BY <1>1, <1>4, <1>5, <1>10, <1>18, RelocatedAt
<1>20. c # other  BY <1>10, <1>13, <1>5
<1>21. ClosedTour(u)  BY <1>16, <1>18, <1>20, RelocateIsTour
<1>22. Len(u) = n  BY <1>1, <1>21, TourIs
<1>23. \A k \in 1..n : After(u, k) = IF k = n THEN u[1] ELSE u[k + 1]
  BY <1>21, <1>22, AfterSteps
<1>24. /\ next = IF i = n THEN t[1] ELSE t[i + 1]
       /\ after = IF q = n THEN t[1] ELSE t[q + 1]
       /\ c = t[i]
  BY <1>4, <1>7, <1>8, <1>10, <1>11
<1>25. u[1] = t[1]
  BY <1>1, <1>10, <1>12, <1>19 DEF Shifted
<1>26. ASSUME NEW k \in 1..n PROVE now[u[k]] = After(u, k)
  <2>1. CASE q < i
    <3>1. q + 1 < i  BY <2>1, <1>10, <1>12
    <3>2. \A j \in 1..n :
              u[j] = IF j <= q \/ j > i THEN t[j]
                     ELSE IF j = q + 1 THEN t[i] ELSE t[j - 1]
      BY <2>1, <1>19 DEF Shifted
    <3>3. CASE k < q
      <4>1. u[k] = t[k] /\ u[k + 1] = t[k + 1] /\ k # n /\ k + 1 \in 1..n
        BY <3>2, <3>3, <1>10
      <4>2. now[t[k]] = t[k + 1]  BY <3>1, <3>3, <1>10, <1>15
      <4> QED BY <4>1, <4>2, <1>23
    <3>4. CASE k = q
      <4>1. u[k] = t[q] /\ u[k + 1] = c /\ k # n
        BY <3>1, <3>2, <3>4, <1>4, <1>10
      <4>2. now[t[q]] = c  BY <3>1, <1>10, <1>15
      <4> QED BY <4>1, <4>2, <1>23
    <3>5. CASE k = q + 1
      <4>1. u[k] = t[i] /\ u[k + 1] = t[q + 1] /\ k # n
        BY <3>1, <3>2, <3>5, <1>10
      <4>2. now[t[i]] = after /\ after = t[q + 1]
        BY <3>1, <1>10, <1>15, <1>24
      <4> QED BY <4>1, <4>2, <1>23
    <3>6. CASE q + 1 < k /\ k < i
      <4>1. u[k] = t[k - 1] /\ u[k + 1] = t[k] /\ k # n
        BY <3>1, <3>2, <3>6, <1>10
      <4>2. k - 1 \in 1..n /\ now[t[k - 1]] = t[(k - 1) + 1]
        BY <3>1, <3>6, <1>10, <1>15
      <4>3. (k - 1) + 1 = k  OBVIOUS
      <4> QED BY <4>1, <4>2, <4>3, <1>23
    <3>7. CASE k = i
      <4>1. u[k] = t[i - 1] /\ now[t[i - 1]] = next
        BY <3>1, <3>2, <3>7, <1>10, <1>15
      <4>2. k # n => u[k + 1] = t[i + 1]  BY <3>1, <3>2, <3>7, <1>10
      <4> QED BY <4>1, <4>2, <3>7, <1>23, <1>24, <1>25
    <3>8. CASE k > i
      <4>1. u[k] = t[k] /\ (k # n => u[k + 1] = t[k + 1])
        BY <3>1, <3>2, <3>8, <1>10
      <4>2. now[t[k]] = IF k = n THEN t[1] ELSE t[k + 1]
        BY <3>1, <3>8, <1>10, <1>15
      <4> QED BY <4>1, <4>2, <1>23, <1>25
    <3> QED BY <3>1, <3>3, <3>4, <3>5, <3>6, <3>7, <3>8, <1>10
  <2>2. CASE ~(q < i)
    <3>1. i < q  BY <2>2, <1>10
    <3>2. \A j \in 1..n :
              u[j] = IF j < i \/ j > q THEN t[j]
                     ELSE IF j = q THEN t[i] ELSE t[j + 1]
      BY <2>2, <1>19 DEF Shifted
    <3>3. CASE k < i - 1
      <4>1. u[k] = t[k] /\ u[k + 1] = t[k + 1] /\ k # n
        BY <3>2, <3>3, <1>10
      <4>2. now[t[k]] = t[k + 1]  BY <3>1, <3>3, <1>10, <1>15
      <4> QED BY <4>1, <4>2, <1>23
    <3>4. CASE k = i - 1
      <4>1. u[k] = t[i - 1] /\ u[k + 1] = t[i + 1] /\ k # n
        BY <3>1, <3>2, <3>4, <1>10
      <4>2. now[t[i - 1]] = next /\ next = t[i + 1]
        BY <3>1, <1>10, <1>15, <1>24
      <4> QED BY <4>1, <4>2, <1>23
    <3>5. CASE i <= k /\ k < q - 1
      <4>1. u[k] = t[k + 1] /\ u[k + 1] = t[(k + 1) + 1] /\ k # n
        BY <3>1, <3>2, <3>5, <1>10
      <4>2. k + 1 \in 1..n /\ now[t[k + 1]] = t[(k + 1) + 1]
        BY <3>1, <3>5, <1>10, <1>15
      <4> QED BY <4>1, <4>2, <1>23
    <3>6. CASE k = q - 1
      <4>1. u[k] = t[q] /\ u[k + 1] = c /\ k # n
        BY <3>1, <3>2, <3>6, <1>4, <1>10
      <4>2. now[t[q]] = c  BY <3>1, <1>10, <1>15
      <4> QED BY <4>1, <4>2, <1>23
    <3>7. CASE k = q
      <4>1. u[k] = t[i] /\ (k # n => u[k + 1] = t[q + 1])
        BY <3>1, <3>2, <3>7, <1>10
      <4>2. now[t[i]] = after  BY <3>1, <1>10, <1>15
      <4> QED BY <4>1, <4>2, <3>7, <1>23, <1>24, <1>25
    <3>8. CASE k > q
      <4>1. u[k] = t[k] /\ (k # n => u[k + 1] = t[k + 1])
        BY <3>1, <3>2, <3>8, <1>10
      <4>2. now[t[k]] = IF k = n THEN t[1] ELSE t[k + 1]
        BY <3>1, <3>8, <1>10, <1>15
      <4> QED BY <4>1, <4>2, <1>23, <1>25
    <3> QED BY <3>1, <3>3, <3>4, <3>5, <3>6, <3>7, <3>8, <1>10
  <2> QED BY <2>1, <2>2
<1>27. Leads(now, u)  BY <1>17, <1>22, <1>26 DEF Leads
<1> QED BY <1>27, <1>4, <1>5, <1>6, <1>7, <1>8, <1>9, <1>18

(* What the six edges say is what the tour gains.                          *)
LEMMA RelocateGains ==
    ASSUME NEW d \in Grid, NEW t, ClosedTour(t), NEW c \in Nodes, c # t[1],
           NEW other \in Nodes \ {c}, After(t, PositionOf(t, other)) # c
    PROVE  TourLength(d, Relocate(t, c, other))
              = TourLength(d, t) - RelocateGain(d, t, c, other)
<1>1. PICK n \in Nat \ {0} : n = Len(t) /\ DOMAIN t = 1..n
            /\ \A k \in 1..n : t[k] \in Nodes
  BY TourIs
<1>2. t \in Seq(Nodes) /\ IsInjective(t) /\ ToSet(t) = Nodes  BY DEF ClosedTour
<1>3. PICK i : i = PositionOf(t, c)  OBVIOUS
<1>4. PICK q : q = PositionOf(t, other)  OBVIOUS
<1>5. i \in 1..n /\ t[i] = c /\ q \in 1..n /\ t[q] = other
  BY <1>1, <1>2, <1>3, <1>4, PositionIs
<1>6. i # 1 /\ i # q  BY <1>5
<1>7. i \in 2..n /\ i - 1 \in 1..n  BY <1>5, <1>6
<1>8. PICK prev : prev = t[i - 1]  OBVIOUS
<1>9. PICK next : next = After(t, i)  OBVIOUS
<1>10. PICK after : after = After(t, q)  OBVIOUS
<1>11. /\ prev \in Nodes /\ next \in Nodes /\ after \in Nodes
       /\ c \in Nodes /\ other \in Nodes
  BY <1>1, <1>5, <1>7, <1>8, <1>9, <1>10, AfterIs
<1>12. PICK to : Leads(to, t)  BY TourLeads
<1>13. to[prev] = c /\ to[other] = after /\ to[c] = next
  <2>1. After(t, i - 1) = c
    <3>1. i - 1 \in 1..Len(t) /\ i - 1 # Len(t) /\ (i - 1) + 1 = i
      BY <1>1, <1>7
    <3> QED BY <3>1, <1>5, AfterSteps
  <2> QED BY <2>1, <1>1, <1>5, <1>7, <1>8, <1>9, <1>10, <1>12 DEF Leads
<1>14. prev # other /\ prev # c /\ other # c
  <2>1. prev # other  BY <1>4, <1>10, <1>13
  <2>2. prev # c  BY <1>1, <1>2, <1>5, <1>7, <1>8 DEF IsInjective
  <2> QED BY <2>1, <2>2
<1>15. PICK now : now = Moved(to, prev, next, other, c, after)  OBVIOUS
<1>16. PICK u : u = Relocate(t, c, other)  OBVIOUS
<1>17. Leads(now, u)
  <2>1. i \in 2..Len(t) /\ q \in 1..Len(t) /\ i # q /\ After(t, q) # t[i]
    BY <1>1, <1>4, <1>5, <1>6, <1>7
  <2>2. Leads(Moved(to, t[i - 1], After(t, i), t[q], t[i], After(t, q)),
              Relocate(t, t[i], t[q]))
    BY <2>1, <1>12, RelocateLeads
  <2> QED BY <2>2, <1>5, <1>8, <1>9, <1>10, <1>15, <1>16
<1>18. ClosedTour(u)  BY <1>16, RelocateIsTour
<1>19. PICK f : f = [x \in Nodes |-> d[x][to[x]]]  OBVIOUS
<1>20. PICK g : g = [x \in Nodes |-> d[x][now[x]]]  OBVIOUS
<1>21. TourLength(d, t) = SumFunctionOnSet(f, Nodes)
  BY <1>12, <1>19, LengthOfLeads
<1>22. TourLength(d, u) = SumFunctionOnSet(g, Nodes)
  BY <1>17, <1>18, <1>20, LengthOfLeads
<1>23. \A x \in Nodes : f[x] \in Int /\ g[x] \in Int
  <2>1. \A x \in Nodes : to[x] \in Nodes /\ now[x] \in Nodes
    BY <1>12, <1>17 DEF Leads
  <2> QED BY <2>1, <1>19, <1>20, DistanceIsInt
<1>24. \A x \in Nodes \ {prev, other, c} : g[x] = f[x]
  BY <1>15, <1>19, <1>20 DEF Moved
<1>25. SumFunctionOnSet(g, Nodes)
         = SumFunctionOnSet(f, Nodes) + (g[prev] - f[prev])
             + (g[other] - f[other]) + (g[c] - f[c])
  <2>1. prev \in Nodes /\ other \in Nodes \ {prev} /\ c \in Nodes \ {prev, other}
    BY <1>11, <1>14
  <2>2. (\A x \in Nodes : f[x] \in Int) /\ (\A x \in Nodes : g[x] \in Int)
    BY <1>23
  <2>3. IsFiniteSet(Nodes)  BY SearchedNodes
  <2> QED BY <2>1, <2>2, <2>3, <1>24, SumThreeChange
<1>26. now[prev] = next /\ now[other] = c /\ now[c] = after
  BY <1>11, <1>14, <1>15 DEF Moved
<1>27. /\ f[prev] = d[prev][c] /\ f[other] = d[other][after]
       /\ f[c] = d[c][next]
       /\ g[prev] = d[prev][next] /\ g[other] = d[other][c]
       /\ g[c] = d[c][after]
  BY <1>11, <1>13, <1>19, <1>20, <1>26
<1>28. RelocateGain(d, t, c, other)
         = (d[prev][c] + d[c][next] - d[prev][next])
             - (d[other][c] + d[c][after] - d[other][after])
  BY <1>3, <1>4, <1>8, <1>9, <1>10 DEF RelocateGain
<1>29. SumFunctionOnSet(f, Nodes) \in Int  BY <1>23, SearchedNodes, SumIsInt
<1>30. /\ d[prev][c] \in Int /\ d[other][after] \in Int /\ d[c][next] \in Int
       /\ d[prev][next] \in Int /\ d[other][c] \in Int /\ d[c][after] \in Int
  BY <1>11, <1>23, <1>27
<1> QED BY <1>16, <1>21, <1>22, <1>25, <1>27, <1>28, <1>29, <1>30

(* A table that says the same both ways.                                   *)
Symmetric(d) == \A a, b \in Nodes : d[a][b] = d[b][a]

(* A reversal walks the legs within the segment the other way.             *)
ReversedLeg(l, r, k) == IF l <= k /\ k <= r - 2 THEN (l + r - 2) - k ELSE k

LEMMA ReverseGains ==
    ASSUME NEW d \in Grid, Symmetric(d), NEW t, ClosedTour(t),
           NEW l \in 2..Len(t), NEW r \in 1..Len(t), r - l >= 2
    PROVE  TourLength(d, Reversed(t, l, r))
              = TourLength(d, t) - TwoOptGain(d, t, l, r)
<1>1. PICK n \in Nat \ {0} : n = Len(t) /\ DOMAIN t = 1..n
            /\ \A k \in 1..n : t[k] \in Nodes
  BY TourIs
<1>2. l \in 2..n /\ r \in 1..n /\ l + 2 <= r  BY <1>1
<1>3. PICK u : u = Reversed(t, l, r)  OBVIOUS
<1>4. ClosedTour(u)
  <2>1. l \in 1..Len(t) /\ l <= r  BY <1>1, <1>2
  <2> QED BY <2>1, <1>3, ReversedIsTour
<1>5. Len(u) = n  BY <1>1, <1>4, TourIs
<1>6. \A k \in 1..n : u[k] = IF l <= k /\ k < r THEN t[(l + r - 1) - k] ELSE t[k]
  BY <1>1, <1>2, <1>3 DEF Reversed
<1>7. PICK f : f = Legs(d, t)  OBVIOUS
<1>8. PICK g : g = Legs(d, u)  OBVIOUS
<1>9. \A k \in 1..n : f[k] = IF k = n THEN d[t[k]][t[1]] ELSE d[t[k]][t[k + 1]]
  BY <1>1, <1>7, AfterSteps DEF Legs
<1>10. \A k \in 1..n : g[k] = IF k = n THEN d[u[k]][u[1]] ELSE d[u[k]][u[k + 1]]
  <2>1. DOMAIN u = 1..n  BY <1>4, <1>5, TourIs
  <2> QED BY <2>1, <1>4, <1>5, <1>8, AfterSteps DEF Legs
<1>11. \A k \in 1..n : f[k] \in Int
  BY <1>1, <1>7, LegIsInt DEF Legs
<1>12. PICK h : h = [k \in 1..n |-> IF k = l - 1 THEN d[t[l - 1]][t[r - 1]]
                                    ELSE IF k = r - 1 THEN d[t[l]][t[r]]
                                    ELSE f[k]]
  OBVIOUS
<1>13. PICK m : m = [k \in 1..n |-> ReversedLeg(l, r, k)]  OBVIOUS
<1>14. l - 1 \in 1..n /\ r - 1 \in 1..n /\ l \in 1..n /\ l - 1 # r - 1
       /\ l - 1 # n /\ r - 1 # n
  BY <1>2
<1>15. \A k \in 1..n : h[k] \in Int
  <2>1. d[t[l - 1]][t[r - 1]] \in Int /\ d[t[l]][t[r]] \in Int
    BY <1>1, <1>2, <1>14, DistanceIsInt
  <2> QED BY <2>1, <1>11, <1>12
<1>16. Renumbers(m, 1..n, 1..n)
  <2>1. \A k \in 1..n : ReversedLeg(l, r, k) \in 1..n
    BY <1>2 DEF ReversedLeg
  <2>2. \A k \in 1..n : ReversedLeg(l, r, ReversedLeg(l, r, k)) = k
    BY <1>2 DEF ReversedLeg
  <2>3. m \in [1..n -> 1..n] /\ \A k \in 1..n : m[m[k]] = k
    BY <2>1, <2>2, <1>13
  <2> QED BY <2>3 DEF Renumbers
<1>17. ASSUME NEW k \in 1..n PROVE g[k] = h[m[k]]
  <2>1. CASE k < l - 1
    <3>1. m[k] = k /\ h[k] = f[k]
      BY <2>1, <1>2, <1>12, <1>13 DEF ReversedLeg
    <3>2. u[k] = t[k] /\ u[k + 1] = t[k + 1] /\ k # n
      <4>1. k + 1 \in 1..n /\ k # n /\ ~(l <= k) /\ ~(l <= k + 1)
        BY <2>1, <1>2
      <4> QED BY <4>1, <1>6
    <3> QED BY <3>1, <3>2, <1>9, <1>10
  <2>2. CASE k = l - 1
    <3>1. m[k] = k /\ h[k] = d[t[l - 1]][t[r - 1]]
      <4>1. ReversedLeg(l, r, k) = k  BY <2>2, <1>2 DEF ReversedLeg
      <4>2. m[k] = k  BY <4>1, <1>13
      <4> QED BY <4>2, <2>2, <1>12
    <3>2. u[k] = t[l - 1] /\ u[k + 1] = t[(l + r - 1) - l] /\ k # n
      BY <2>2, <1>2, <1>6
    <3>3. (l + r - 1) - l = r - 1  BY <1>2
    <3>4. g[k] = d[u[k]][u[k + 1]]  BY <3>2, <1>10
    <3>5. u[k + 1] = t[r - 1]  BY <3>2, <3>3, Zenon
    <3>6. g[k] = d[t[l - 1]][t[r - 1]]  BY <3>2, <3>4, <3>5, Zenon
    <3>7. h[m[k]] = h[k]  BY <3>1, Zenon
    <3> QED BY <3>1, <3>6, <3>7, Zenon
  <2>3. CASE l <= k /\ k <= r - 2
    <3>1. PICK b : b = (l + r - 2) - k  OBVIOUS
    <3>2. b \in 1..n /\ b + 1 \in 1..n /\ b # n /\ b # l - 1 /\ b # r - 1
          /\ b + 1 = (l + r - 1) - k /\ b = (l + r - 1) - (k + 1)
      BY <2>3, <3>1, <1>2
    <3>3. m[k] = b  BY <2>3, <3>1, <1>13 DEF ReversedLeg
    <3>4. h[b] = f[b]  BY <3>2, <1>12
    <3>5. f[b] = d[t[b]][t[b + 1]]  BY <3>2, <1>9
    <3>6. u[k] = t[b + 1] /\ u[k + 1] = t[b] /\ k # n
      <4>1. k + 1 \in 1..n /\ k # n /\ k < r /\ k + 1 < r /\ l <= k + 1
        BY <2>3, <1>2
      <4> QED BY <4>1, <2>3, <3>2, <1>6
    <3>7. g[k] = d[t[b + 1]][t[b]]  BY <3>6, <1>10
    <3>8. t[b] \in Nodes /\ t[b + 1] \in Nodes  BY <3>2, <1>1
    <3>9. d[t[b + 1]][t[b]] = d[t[b]][t[b + 1]]  BY <3>8 DEF Symmetric
    <3> QED BY <3>3, <3>4, <3>5, <3>7, <3>9
  <2>4. CASE k = r - 1
    <3>1. m[k] = k /\ h[k] = d[t[l]][t[r]]
      <4>1. ReversedLeg(l, r, k) = k  BY <2>4, <1>2 DEF ReversedLeg
      <4>2. m[k] = k  BY <4>1, <1>13
      <4>3. k # l - 1  BY <2>4, <1>14
      <4> QED BY <4>2, <4>3, <2>4, <1>12
    <3>2. u[k] = t[(l + r - 1) - k] /\ u[k + 1] = t[k + 1] /\ k # n
      BY <2>4, <1>2, <1>6
    <3>3. (l + r - 1) - k = l /\ k + 1 = r  BY <2>4, <1>2
    <3>4. g[k] = d[u[k]][u[k + 1]]  BY <3>2, <1>10
    <3>5. u[k] = t[l] /\ u[k + 1] = t[r]  BY <3>2, <3>3, Zenon
    <3>6. g[k] = d[t[l]][t[r]]  BY <3>4, <3>5, Zenon
    <3>7. h[m[k]] = h[k]  BY <3>1, Zenon
    <3> QED BY <3>1, <3>6, <3>7, Zenon
  <2>5. CASE k >= r
    <3>1. m[k] = k /\ h[k] = f[k]
      BY <2>5, <1>2, <1>12, <1>13 DEF ReversedLeg
    <3>2. u[k] = t[k] /\ u[1] = t[1] /\ (k # n => u[k + 1] = t[k + 1])
      <4>1. 1 \in 1..n /\ ~(l <= 1) /\ ~(k < r)  BY <2>5, <1>2
      <4>2. k # n => k + 1 \in 1..n /\ ~(k + 1 < r)  BY <2>5, <1>2
      <4> QED BY <4>1, <4>2, <1>6
    <3> QED BY <3>1, <3>2, <1>9, <1>10
  <2> QED BY <2>1, <2>2, <2>3, <2>4, <2>5, <1>2
<1>18. IsFiniteSet(1..n)  BY FS_Interval
<1>19. SumFunctionOnSet(g, 1..n) = SumFunctionOnSet(h, 1..n)
  BY <1>15, <1>16, <1>17, <1>18, SumRenumbered
<1>20. SumFunctionOnSet(h, 1..n)
         = SumFunctionOnSet(f, 1..n) + (h[l - 1] - f[l - 1])
             + (h[r - 1] - f[r - 1])
  <2>1. PICK S : S = 1..n  OBVIOUS
  <2>2. l - 1 \in S /\ r - 1 \in S \ {l - 1}  BY <2>1, <1>14
  <2>3. \A k \in S \ {l - 1, r - 1} : h[k] = f[k]  BY <2>1, <1>12
  <2>4. IsFiniteSet(S)  BY <2>1, <1>18
  <2>5. (\A k \in S : f[k] \in Int) /\ (\A k \in S : h[k] \in Int)
    BY <2>1, <1>11, <1>15
  <2>6. PICK a : a = l - 1  OBVIOUS
  <2>7. PICK b : b = r - 1  OBVIOUS
  <2>8. a \in S /\ b \in S \ {a} /\ \A k \in S \ {a, b} : h[k] = f[k]
    BY <2>2, <2>3, <2>6, <2>7
  <2>9. SumFunctionOnSet(h, S)
          = SumFunctionOnSet(f, S) + (h[a] - f[a]) + (h[b] - f[b])
    BY <2>4, <2>5, <2>8, SumTwoChange
  <2> QED BY <2>1, <2>6, <2>7, <2>9
<1>21. /\ f[l - 1] = d[t[l - 1]][t[l]] /\ f[r - 1] = d[t[r - 1]][t[r]]
       /\ h[l - 1] = d[t[l - 1]][t[r - 1]] /\ h[r - 1] = d[t[l]][t[r]]
  <2>1. (l - 1) + 1 = l /\ (r - 1) + 1 = r  BY <1>2
  <2> QED BY <2>1, <1>9, <1>12, <1>14
<1>22. TwoOptGain(d, t, l, r)
         = d[t[l - 1]][t[l]] + d[t[r - 1]][t[r]]
             - d[t[l - 1]][t[r - 1]] - d[t[l]][t[r]]
  BY DEF TwoOptGain
<1>23. /\ f[l - 1] \in Int /\ f[r - 1] \in Int
       /\ h[l - 1] \in Int /\ h[r - 1] \in Int
  BY <1>11, <1>14, <1>15
<1>24. SumFunctionOnSet(f, 1..n) \in Int  BY <1>11, <1>18, SumIsInt
<1>25. TourLength(d, t) = SumFunctionOnSet(f, 1..n)
       /\ TourLength(d, u) = SumFunctionOnSet(g, 1..n)
  BY <1>1, <1>4, <1>5, <1>7, <1>8, LengthOfLegs
<1>26. PICK before : before = TourLength(d, t)  OBVIOUS
<1>27. PICK cut : cut = f[l - 1]  OBVIOUS
<1>28. PICK freed : freed = f[r - 1]  OBVIOUS
<1>29. PICK made : made = h[l - 1]  OBVIOUS
<1>30. PICK joined : joined = h[r - 1]  OBVIOUS
<1>31. /\ before \in Int /\ cut \in Int /\ freed \in Int /\ made \in Int
       /\ joined \in Int
  BY <1>23, <1>24, <1>25, <1>26, <1>27, <1>28, <1>29, <1>30
<1>32. TourLength(d, u) = before + (made - cut) + (joined - freed)
  BY <1>19, <1>20, <1>25, <1>26, <1>27, <1>28, <1>29, <1>30, Zenon
<1>33. TwoOptGain(d, t, l, r) = cut + freed - made - joined
  BY <1>21, <1>22, <1>27, <1>28, <1>29, <1>30, Zenon
<1>34. before + (made - cut) + (joined - freed)
         = before - (cut + freed - made - joined)
  BY ONLY <1>31
<1> QED BY <1>3, <1>26, <1>32, <1>33, <1>34, Zenon

LEMMA LengthIsInt ==
    ASSUME NEW d \in Grid, NEW t, ClosedTour(t) PROVE TourLength(d, t) \in Int
<1>1. PICK n \in Nat \ {0} : n = Len(t) /\ DOMAIN t = 1..n  BY TourIs
<1>2. \A k \in 1..n : Legs(d, t)[k] \in Int  BY <1>1, LegIsInt DEF Legs
<1>3. SumFunctionOnSet(Legs(d, t), 1..n) \in Int  BY <1>2, FS_Interval, SumIsInt
<1> QED BY <1>1, <1>3, LengthOfLegs

LEMMA RelocateGainIsInt ==
    ASSUME NEW d \in Grid, NEW t, ClosedTour(t), NEW c \in Nodes, c # t[1],
           NEW other \in Nodes
    PROVE  RelocateGain(d, t, c, other) \in Int
<1>1. t \in Seq(Nodes) /\ ToSet(t) = Nodes  BY DEF ClosedTour
<1>2. PICK n \in Nat \ {0} : n = Len(t) /\ DOMAIN t = 1..n
            /\ \A k \in 1..n : t[k] \in Nodes
  BY TourIs
<1>3. PICK i : i = PositionOf(t, c)  OBVIOUS
<1>4. PICK q : q = PositionOf(t, other)  OBVIOUS
<1>5. i \in 1..n /\ t[i] = c /\ q \in 1..n  BY <1>1, <1>2, <1>3, <1>4, PositionIs
<1>6. i - 1 \in 1..n  BY <1>5
<1>7. PICK prev : prev = t[i - 1]  OBVIOUS
<1>8. PICK next : next = After(t, i)  OBVIOUS
<1>9. PICK after : after = After(t, q)  OBVIOUS
<1>10. prev \in Nodes /\ next \in Nodes /\ after \in Nodes
  BY <1>2, <1>5, <1>6, <1>7, <1>8, <1>9, AfterIs
<1>11. RelocateGain(d, t, c, other)
         = (d[prev][c] + d[c][next] - d[prev][next])
             - (d[other][c] + d[c][after] - d[other][after])
  BY <1>3, <1>4, <1>7, <1>8, <1>9 DEF RelocateGain
<1> QED BY <1>10, <1>11, DistanceIsInt

LEMMA ImprovingMoveIs ==
    ASSUME NEW d \in Grid, NEW t, ClosedTour(t), NEW c \in Nodes, c # t[1],
           NEW m \in ImprovingMove(d, t, c)
    PROVE  /\ ClosedTour(m.tour) /\ m.wake \in Seq(Nodes)
           /\ Symmetric(d) => TourLength(d, m.tour) < TourLength(d, t)
<1>1. PICK i : i = PositionOf(t, c)  OBVIOUS
<1>2. PICK near : near = Kept(Neighbours(d, c), Nodes \ {c})  OBVIOUS
<1> DEFINE Target(n) == PositionOf(t, near[n])
           L(n) == Min({i, Target(n)})
           R(n) == Max({i, Target(n)})
           CanRelocate(n) == /\ After(t, Target(n)) # c
                             /\ RelocateGain(d, t, c, near[n]) > 0
           CanReverse(n) == /\ R(n) - L(n) >= 2 /\ L(n) >= 2
                            /\ TwoOptGain(d, t, L(n), R(n)) > 0
           able == {n \in DOMAIN near : CanRelocate(n) \/ CanReverse(n)}
           n0 == Min(able)
<1>3. able # {} /\ m \in
        IF CanRelocate(n0)
        THEN {[tour |-> Relocate(t, c, near[n0]),
               wake |-> <<t[i - 1], After(t, i), c, near[n0],
                          After(t, Target(n0))>>]}
        ELSE {[tour |-> Reversed(t, L(n0), R(n0)),
               wake |-> <<t[L(n0) - 1], t[L(n0)], t[R(n0) - 1], t[R(n0)], c>>]}
  BY <1>1, <1>2 DEF ImprovingMove
<1>4. near \in Seq(Nodes) /\ ToSet(near) \subseteq Nodes \ {c}
  BY <1>2, NeighboursAreNodes, KeptSelects
<1>5. n0 \in able
  <2>1. able \subseteq Nat  BY <1>4
  <2> HIDE DEF able
  <2> QED BY <1>3, <2>1, MinOf
<1>6. PICK n : n = n0  OBVIOUS
<1>7. n \in DOMAIN near /\ (CanRelocate(n) \/ CanReverse(n))
  BY <1>5, <1>6
<1>8. PICK other : other = near[n]  OBVIOUS
<1>9. other \in Nodes \ {c}  BY <1>4, <1>7, <1>8 DEF ToSet
<1>10. PICK size \in Nat \ {0} : size = Len(t) /\ DOMAIN t = 1..size
                /\ \A k \in 1..size : t[k] \in Nodes
  BY TourIs
<1>11. t \in Seq(Nodes) /\ ToSet(t) = Nodes  BY DEF ClosedTour
<1>12. i \in 1..size /\ t[i] = c /\ i # 1
  BY <1>1, <1>10, <1>11, PositionIs
<1>13. PICK j : j = Target(n)  OBVIOUS
<1>14. j \in 1..size
  <2>1. other \in ToSet(t) /\ j = PositionOf(t, other)
    BY <1>8, <1>9, <1>11, <1>13
  <2> QED BY <2>1, <1>10, <1>11, PositionIs
<1>15. PICK l : l = L(n)  OBVIOUS
<1>16. PICK r : r = R(n)  OBVIOUS
<1>17. l \in {i, j} /\ r \in {i, j} /\ l \in 1..size /\ r \in 1..size
  <2>1. i \in Int /\ j \in Int  BY <1>12, <1>14
  <2>2. l = Min({i, j}) /\ r = Max({i, j})  BY <1>13, <1>15, <1>16
  <2>3. l \in {i, j} /\ r \in {i, j}  BY <2>1, <2>2, MinOfTwo, MaxOfTwo
  <2> QED BY <2>3, <1>12, <1>14
<1>18. m = IF CanRelocate(n)
        THEN [tour |-> Relocate(t, c, other),
              wake |-> <<t[i - 1], After(t, i), c, other, After(t, j)>>]
        ELSE [tour |-> Reversed(t, l, r),
              wake |-> <<t[l - 1], t[l], t[r - 1], t[r], c>>]
  <2> HIDE DEF Target, L, R, CanRelocate, CanReverse, able, n0
  <2> QED BY <1>3, <1>6, <1>8, <1>13, <1>15, <1>16
<1>19. CASE CanRelocate(n)
  <2>1. m.tour = Relocate(t, c, other)
        /\ m.wake = <<t[i - 1], After(t, i), c, other, After(t, j)>>
    <3> HIDE DEF CanRelocate
    <3> QED BY <1>18, <1>19
  <2>2. ClosedTour(m.tour)  BY <2>1, <1>9, RelocateIsTour
  <2>3. /\ t[i - 1] \in Nodes /\ After(t, i) \in Nodes /\ other \in Nodes
        /\ After(t, j) \in Nodes
    <3>1. i - 1 \in 1..size  BY <1>12
    <3> QED BY <3>1, <1>9, <1>10, <1>12, <1>14, AfterIs
  <2>4. TourLength(d, m.tour) < TourLength(d, t)
    <3>1. After(t, PositionOf(t, other)) # c
          /\ RelocateGain(d, t, c, other) > 0
      BY <1>8, <1>19
    <3>2. TourLength(d, m.tour)
            = TourLength(d, t) - RelocateGain(d, t, c, other)
      BY <2>1, <3>1, <1>9, RelocateGains
    <3>3. RelocateGain(d, t, c, other) \in Int  BY <1>9, RelocateGainIsInt
    <3> QED BY <3>1, <3>2, <3>3, LengthIsInt
  <2> QED BY <2>1, <2>2, <2>3, <2>4
<1>20. CASE ~CanRelocate(n)
  <2>1. m.tour = Reversed(t, l, r)
        /\ m.wake = <<t[l - 1], t[l], t[r - 1], t[r], c>>
    <3> HIDE DEF CanRelocate
    <3> QED BY <1>18, <1>20
  <2>2. CanReverse(n)  BY <1>7, <1>20
  <2>3. r - l >= 2 /\ l >= 2  BY <2>2, <1>15, <1>16
  <2>4. ClosedTour(m.tour)
    <3>1. l \in 1..Len(t) /\ r \in 1..Len(t) /\ l <= r
      BY <2>3, <1>10, <1>17
    <3> QED BY <3>1, <2>1, ReversedIsTour
  <2>5. l - 1 \in 1..size /\ r - 1 \in 1..size  BY <2>3, <1>17
  <2>6. t[l - 1] \in Nodes /\ t[l] \in Nodes /\ t[r - 1] \in Nodes /\ t[r] \in Nodes
    BY <2>5, <1>10, <1>17
  <2>7. ASSUME Symmetric(d) PROVE TourLength(d, m.tour) < TourLength(d, t)
    <3>1. l \in 2..Len(t) /\ r \in 1..Len(t)  BY <2>3, <1>10, <1>17
    <3>2. TourLength(d, m.tour) = TourLength(d, t) - TwoOptGain(d, t, l, r)
      BY <2>1, <2>3, <2>7, <3>1, ReverseGains
    <3>3. TwoOptGain(d, t, l, r) > 0  BY <2>2, <1>15, <1>16
    <3>4. TwoOptGain(d, t, l, r) \in Int
      BY <2>6, DistanceIsInt DEF TwoOptGain
    <3> QED BY <3>2, <3>3, <3>4, LengthIsInt
  <2> QED BY <2>1, <2>4, <2>6, <2>7
<1> QED BY <1>19, <1>20

WakeIs(g, q, nodes) ==
    g = [n \in 0..Len(nodes) |->
            IF n = 0 THEN q
            ELSE IF nodes[n] \in Range(g[n - 1]) THEN g[n - 1]
            ELSE Append(g[n - 1], nodes[n])]

LEMMA WakeQueues ==
    ASSUME NEW q \in Seq(Nodes), NEW nodes \in Seq(Nodes)
    PROVE  Wake(q, nodes) \in Seq(Nodes)
<1>1. PICK A : A = Seq(Nodes)  OBVIOUS
<1>2. PICK k \in Nat : k = Len(nodes)  OBVIOUS
<1> DEFINE woken(was, n) == IF nodes[n] \in Range(was) THEN was
                            ELSE Append(was, nodes[n])
           s == [n \in 1..k |-> [was \in A |-> woken(was, n)]]
<1>3. \A n \in 1..k : \A was \in A : woken(was, n) \in A
  BY <1>1, <1>2
<1> HIDE DEF woken
<1>4. \E g : WakeIs(g, q, nodes)
  <2>1. \A n \in 1..k : s[n] \in [A -> A]  BY <1>3
  <2>2. \A n \in 1..k : \A was \in A : s[n][was] = woken(was, n)  OBVIOUS
  <2> HIDE DEF s
  <2>3. PICK g : Loops(g, q, s, k) /\ \A n \in 0..k : g[n] \in A
    BY <1>1, <2>1, LoopStaysIn
  <2>4. \A n \in 0..k : n # 0 => s[n][g[n - 1]] = woken(g[n - 1], n)
    <3>1. \A n \in 0..k : n # 0 => n \in 1..k /\ n - 1 \in 0..k  OBVIOUS
    <3> QED BY <3>1, <2>2, <2>3
  <2>5. g = [n \in 0..k |-> IF n = 0 THEN q ELSE s[n][g[n - 1]]]
    BY <2>3 DEF Loops
  <2>6. g = [n \in 0..k |-> IF n = 0 THEN q ELSE woken(g[n - 1], n)]
    BY <2>4, <2>5
  <2> QED BY <2>6, <1>2 DEF WakeIs, woken
<1> HIDE DEF s
<1>5. PICK g : WakeIs(g, q, nodes) /\ Wake(q, nodes) = g[Len(nodes)]
  BY <1>4, Zenon DEF Wake, WakeIs
<1>6. g = [n \in 0..k |-> IF n = 0 THEN q ELSE woken(g[n - 1], n)]
  BY <1>2, <1>5 DEF WakeIs, woken
<1>7. g[0] \in A /\ \A n \in 1..k : g[n - 1] \in A => g[n] \in A
  <2>1. 0 \in 0..k /\ \A n \in 1..k : n \in 0..k /\ n # 0  OBVIOUS
  <2>2. g[0] = q /\ \A n \in 1..k : g[n] = woken(g[n - 1], n)
    BY <1>6, <2>1
  <2> QED BY <2>2, <1>1, <1>3
<1>8. \A n \in 0..k : g[n] \in A  BY <1>7, LoopKeepsIn
<1> QED BY <1>1, <1>2, <1>5, <1>8

LEMMA NaiveStepIsTour ==
    ASSUME NEW d, NEW t, ClosedTour(t), NEW u \in NaiveStep(d, t)
    PROVE  ClosedTour(u)
<1>1. PICK m \in NaiveMoves(t) : u = m.tour  BY DEF NaiveStep
<1>2. PICK size \in Nat \ {0} : size = Len(t) /\ DOMAIN t = 1..size
                /\ \A k \in 1..size : t[k] \in Nodes
  BY TourIs
<1>3. CASE \E x \in {y \in (2..Len(t)) \X (2..Len(t)) : y[1] # y[2]} :
            m = [key |-> <<1, x[1], x[2]>>,
                 tour |-> InsertAt(Without(t, t[x[1]]), x[2], t[x[1]])]
  <2>1. PICK x \in (2..size) \X (2..size) :
            m.tour = InsertAt(Without(t, t[x[1]]), x[2], t[x[1]])
    BY <1>2, <1>3
  <2>2. t[x[1]] \in Nodes /\ x[2] \in 1..Len(t)  BY <1>2, <2>1
  <2> QED BY <1>1, <2>1, <2>2, PutBackIsTour
<1>4. CASE \E x \in {y \in (2..Len(t)) \X (2..Len(t)) : y[2] >= y[1] + 2} :
            m = [key |-> <<2, x[1], x[2]>>, tour |-> Reversed(t, x[1], x[2])]
  <2>1. PICK x \in (2..size) \X (2..size) :
            x[2] >= x[1] + 2 /\ m.tour = Reversed(t, x[1], x[2])
    BY <1>2, <1>4
  <2>2. x[1] \in 1..Len(t) /\ x[2] \in 1..Len(t) /\ x[1] <= x[2]
    BY <1>2, <2>1
  <2> QED BY <1>1, <2>1, <2>2, ReversedIsTour
<1> QED BY <1>1, <1>3, <1>4 DEF NaiveMoves

LocalHolds ==
    /\ dist \in Grid /\ queue \in Seq(Nodes)
    /\ \E t : ClosedTour(t) /\ plan = <<t>>
    /\ \E t : ClosedTour(t) /\ best = <<t>>

LEMMA VisitNodeHolds ==
    ASSUME LocalHolds, VisitNode PROVE LocalHolds'
<1>1. PICK t : ClosedTour(t) /\ plan = <<t>>  BY DEF LocalHolds
<1>2. PICK c : c = Head(queue)  OBVIOUS
<1>3. PICK moves : moves = IF c = plan[1][1] THEN {}
                           ELSE ImprovingMove(dist, plan[1], c)
  OBVIOUS
<1>4. /\ queue # <<>> /\ dist' = dist /\ best' = best
      /\ IF moves = {} THEN plan' = plan /\ queue' = Tail(queue)
         ELSE \E m \in moves : /\ plan' = <<m.tour>>
                               /\ queue' = Wake(Tail(queue), m.wake)
  BY <1>2, <1>3 DEF VisitNode
<1>5. queue \in Seq(Nodes) /\ dist \in Grid
      /\ \E u : ClosedTour(u) /\ best = <<u>>
  BY DEF LocalHolds
<1>6. c \in Nodes /\ Tail(queue) \in Seq(Nodes)  BY <1>2, <1>4, <1>5
<1>7. CASE moves = {}
  <2>1. plan' = <<t>> /\ queue' \in Seq(Nodes)  BY <1>1, <1>4, <1>6, <1>7
  <2> QED BY <2>1, <1>1, <1>4, <1>5 DEF LocalHolds
<1>8. CASE moves # {}
  <2>1. PICK m \in moves : plan' = <<m.tour>>
                           /\ queue' = Wake(Tail(queue), m.wake)
    BY <1>4, <1>8
  <2>2. plan[1] = t  BY <1>1
  <2>3. c # t[1] /\ m \in ImprovingMove(dist, t, c)  BY <2>1, <2>2, <1>3, <1>8
  <2>4. ClosedTour(m.tour) /\ m.wake \in Seq(Nodes)
    BY <2>3, <1>1, <1>5, <1>6, ImprovingMoveIs
  <2>5. queue' \in Seq(Nodes)  BY <2>1, <2>4, <1>6, WakeQueues
  <2> QED BY <2>1, <2>4, <2>5, <1>4, <1>5 DEF LocalHolds
<1> QED BY <1>7, <1>8

LEMMA NaiveSweepHolds ==
    ASSUME LocalHolds, NaiveSweep PROVE LocalHolds'
<1>1. PICK t : ClosedTour(t) /\ plan = <<t>>  BY DEF LocalHolds
<1>2. PICK u \in NaiveStep(dist, plan[1]) : plan' = <<u>>  BY DEF NaiveSweep
<1>3. plan[1] = t  BY <1>1
<1>4. ClosedTour(u)  BY <1>1, <1>2, <1>3, NaiveStepIsTour
<1>5. dist' = dist /\ best' = best /\ queue' = queue  BY DEF NaiveSweep
<1> QED BY <1>2, <1>4, <1>5 DEF LocalHolds

(* Each move of either local search shortens the tour.                     *)
LEMMA MoveShortens ==
    ASSUME LocalHolds, Symmetric(dist), VisitNode \/ NaiveSweep, plan' # plan
    PROVE  TourLength(dist, plan'[1]) < TourLength(dist, plan[1])
<1>1. PICK t : ClosedTour(t) /\ plan = <<t>>  BY DEF LocalHolds
<1>2. plan[1] = t  BY <1>1
<1>3. CASE VisitNode
  <2>1. PICK c : c = Head(queue)  OBVIOUS
  <2>2. PICK moves : moves = IF c = plan[1][1] THEN {}
                             ELSE ImprovingMove(dist, plan[1], c)
    OBVIOUS
  <2>3. /\ queue # <<>>
        /\ IF moves = {} THEN plan' = plan
           ELSE \E m \in moves : plan' = <<m.tour>>
    BY <1>3, <2>1, <2>2 DEF VisitNode
  <2>4. PICK m \in moves : plan' = <<m.tour>>  BY <2>3
  <2>5. c # t[1] /\ m \in ImprovingMove(dist, t, c)  BY <1>2, <2>2, <2>4
  <2>6. c \in Nodes /\ dist \in Grid  BY <2>1, <2>3 DEF LocalHolds
  <2>7. TourLength(dist, m.tour) < TourLength(dist, t)
    BY <1>1, <2>5, <2>6, ImprovingMoveIs
  <2>8. plan'[1] = m.tour  BY <2>4
  <2> QED BY <1>2, <2>7, <2>8
<1>4. CASE NaiveSweep
  <2>1. PICK u \in NaiveStep(dist, plan[1]) : plan' = <<u>>
    BY <1>4 DEF NaiveSweep
  <2>2. TourLength(dist, u) < TourLength(dist, plan[1])
    BY <2>1 DEF NaiveStep
  <2>3. plan'[1] = u  BY <2>1
  <2> QED BY <2>2, <2>3
<1> QED BY <1>3, <1>4

-----------------------------------------------------------------------------
(* The search: whichever runs, what it holds.                              *)

SearchHolds ==
    /\ search \in {"lns", "fleet", "accelerated", "naive"}
    /\ start \in Seq(Seq(Customers)) /\ dist \in Grids
    /\ search = "lns" => LnsHolds
    /\ search = "fleet" => FleetHolds
    /\ search \in {"accelerated", "naive"} => LocalHolds

LEMMA BusyIs ==
    ASSUME NEW p \in Seq(Seq(Customers)), OnceEach(p, Customers)
    PROVE  /\ Busy(p) \in Seq(Seq(Customers)) /\ ServesAll(Busy(p))
           /\ Len(Busy(p)) \in Int
           /\ \A i \in DOMAIN Busy(p) :
                    Busy(p)[i] # <<>> /\ Busy(p)[i] \in Range(p)
<1>1. PICK q : q = Busy(p)  OBVIOUS
<1>2. /\ q \in Seq(Seq(Customers)) /\ OnceEach(q, Customers)
      /\ \A i \in DOMAIN q : q[i] # <<>> /\ q[i] \in Range(p)
  <2>1. q = Kept(p, Range(p) \ {<<>>})  BY <1>1 DEF Busy
  <2> QED BY <2>1, OnceWithoutEmpty
<1>3. ServesAll(q)  BY <1>2, OnceIsSome DEF ServesAll
<1>4. Len(q) \in Int  BY <1>2
<1> QED BY <1>1, <1>2, <1>3, <1>4

LEMMA TourOfPlan ==
    ASSUME NEW p \in Seq(Seq(Customers)), OnceEach(p, Customers)
    PROVE  ClosedTour(Tour(p))
<1>1. PICK flat : flat = FlattenSeq(p)  OBVIOUS
<1>2. flat \in Seq(Customers) /\ ToSet(flat) = Customers /\ IsInjective(flat)
  BY <1>1, OnceFlat
<1>3. flat \in Seq(Nodes)  BY <1>2, CustomersAreNodes
<1>4. PICK depot : depot = <<0>>  OBVIOUS
<1>5. depot \in Seq(Nodes) /\ ToSet(depot) = {0} /\ IsInjective(depot)
  BY <1>4, SearchedNodes, Single
<1>6. PICK t : t = depot \o flat  OBVIOUS
<1>7. ToSet(depot) \cap ToSet(flat) = {}  BY <1>2, <1>5, SearchedNodes
<1>8. /\ t \in Seq(Nodes) /\ ToSet(t) = ToSet(depot) \cup ToSet(flat)
      /\ IsInjective(t)
  BY <1>2, <1>3, <1>5, <1>6, <1>7, ConcatSets
<1>9. ToSet(t) = Nodes  BY <1>2, <1>5, <1>8, SearchedNodes
<1>10. ClosedTour(t)  BY <1>8, <1>9 DEF ClosedTour
<1> QED BY <1>1, <1>4, <1>6, <1>10 DEF Tour

LEMMA SearchStarts == ASSUME SearchInit PROVE SearchHolds
<1>1. /\ search \in {"lns", "fleet", "accelerated", "naive"}
      /\ dist \in Grids /\ start \in Starts /\ best = plan
      /\ absence = [c \in Customers |-> 0]
      /\ search = "lns" => plan = start
      /\ search = "fleet" => plan = Busy(start)
      /\ search \in {"accelerated", "naive"} => plan = <<Tour(start)>>
      /\ queue = IF search = "accelerated" THEN Tour(start) ELSE <<>>
  BY DEF SearchInit
<1>2. dist \in Grid  BY <1>1, SearchIsKnown DEF Grid
<1>3. /\ start \in Seq(Seq(Customers))
      /\ IsInjective(FlattenSeq(start)) /\ Range(FlattenSeq(start)) = Customers
  BY <1>1, SearchIsKnown
<1>4. ToSet(FlattenSeq(start)) = Customers  BY <1>3, RangeIsSet
<1>5. OnceEach(start, Customers)
  <2>1. OnceEach(start, ToSet(FlattenSeq(start)))  BY <1>3, FlatIsOnce
  <2> QED BY <2>1, <1>4
<1>6. ServesAll(start)  BY <1>3, <1>5, OnceIsSome DEF ServesAll
<1>7. ASSUME search = "lns" PROVE LnsHolds
  <2>1. plan = start /\ best = start  BY <1>1, <1>7
  <2>2. PlanCost(dist, start) \in Int  BY <1>2, <1>3, PlanCostIsInt
  <2>3. PlanCost(dist, start) <= PlanCost(dist, start)  BY <2>2
  <2> QED BY <2>1, <2>3, <1>2, <1>3, <1>6 DEF LnsHolds
<1>8. ASSUME search = "fleet" PROVE FleetHolds
  <2>1. plan = Busy(start) /\ best = plan  BY <1>1, <1>8
  <2>2. /\ ServesAll(Busy(start)) /\ Len(Busy(start)) \in Int
        /\ \A i \in DOMAIN Busy(start) :
                Busy(start)[i] # <<>> /\ Busy(start)[i] \in Range(start)
    BY <1>3, <1>5, BusyIs
  <2>3. AllFilled(dist, Range(start), plan)
    BY <2>1, <2>2 DEF AllFilled, Filled
  <2>4. Len(plan) <= Len(Busy(start))  BY <2>1, <2>2
  <2>5. absence \in [Customers -> Int]  BY <1>1
  <2> QED BY <2>1, <2>2, <2>3, <2>4, <2>5, <1>2 DEF FleetHolds
<1>9. ASSUME search \in {"accelerated", "naive"} PROVE LocalHolds
  <2>1. plan = <<Tour(start)>> /\ best = plan  BY <1>1, <1>9
  <2>2. ClosedTour(Tour(start))  BY <1>3, <1>5, TourOfPlan
  <2>3. queue \in Seq(Nodes)  BY <1>1, <2>2 DEF ClosedTour
  <2> QED BY <2>1, <2>2, <2>3, <1>2 DEF LocalHolds
<1> QED BY <1>1, <1>3, <1>7, <1>8, <1>9 DEF SearchHolds

LEMMA SearchStutters ==
    ASSUME SearchHolds, UNCHANGED searchVars PROVE SearchHolds'
BY DEF SearchHolds, LnsHolds, FleetHolds, LocalHolds, searchVars

LEMMA SearchPersists == ASSUME SearchHolds, SearchNext PROVE SearchHolds'
<1>1. start \in Seq(Seq(Customers)) /\ dist \in Grids  BY DEF SearchHolds
<1>2. CASE LnsIterate
  <2>1. search = "lns" /\ search' = search /\ start' = start /\ dist' = dist
    BY <1>2 DEF LnsIterate
  <2>2. LnsHolds  BY <2>1 DEF SearchHolds
  <2>3. LnsHolds'  BY <2>2, <1>2, LnsIterateHolds
  <2> QED BY <2>1, <2>3, <1>1 DEF SearchHolds
<1>3. CASE FleetAttempt
  <2>1. search = "fleet" /\ search' = search /\ start' = start /\ dist' = dist
    BY <1>3 DEF FleetAttempt
  <2>2. FleetHolds  BY <2>1 DEF SearchHolds
  <2>3. Len(Busy(start)) \in Int
    <3>1. Busy(start) \in Seq(Seq(Customers))  BY <1>1, KeptSelects DEF Busy
    <3> QED BY <3>1
  <2>4. FleetHolds'  BY <2>2, <2>3, <1>3, FleetAttemptHolds
  <2> QED BY <2>1, <2>4, <1>1 DEF SearchHolds
<1>4. CASE VisitNode
  <2>1. search = "accelerated" /\ search' = search /\ start' = start /\ dist' = dist
    BY <1>4 DEF VisitNode
  <2>2. LocalHolds  BY <2>1 DEF SearchHolds
  <2>3. LocalHolds'  BY <2>2, <1>4, VisitNodeHolds
  <2> QED BY <2>1, <2>3, <1>1 DEF SearchHolds
<1>5. CASE NaiveSweep
  <2>1. search = "naive" /\ search' = search /\ start' = start /\ dist' = dist
    BY <1>5 DEF NaiveSweep
  <2>2. LocalHolds  BY <2>1 DEF SearchHolds
  <2>3. LocalHolds'  BY <2>2, <1>5, NaiveSweepHolds
  <2> QED BY <2>1, <2>3, <1>1 DEF SearchHolds
<1>6. CASE Returned
  <2>1. UNCHANGED searchVars  BY <1>6 DEF Returned
  <2> QED BY <2>1, SearchStutters
<1> QED BY <1>2, <1>3, <1>4, <1>5, <1>6 DEF SearchNext

(* Nobody is lost.                                                         *)
LEMMA AllAreServed ==
    ASSUME NEW p \in Seq(Seq(Nodes)), NEW S \in SUBSET Nodes, OnceEach(p, S),
           Customers \subseteq S
    PROVE  /\ Len(Kept(FlattenSeq(p), Customers)) = N
           /\ Range(Kept(FlattenSeq(p), Customers)) = Customers
<1>1. PICK flat : flat = FlattenSeq(p)  OBVIOUS
<1>2. flat \in Seq(Nodes) /\ ToSet(flat) = S /\ IsInjective(flat)
  BY <1>1, OnceFlat
<1>3. PICK served : served = Kept(flat, Customers)  OBVIOUS
<1>4. /\ served \in Seq(Nodes) /\ ToSet(served) = ToSet(flat) \cap Customers
      /\ IsInjective(served)
  BY <1>2, <1>3, KeptSelects
<1>5. ToSet(served) = Customers  BY <1>2, <1>4
<1>6. served \in Seq(Customers)
  <2>1. \A i \in 1..Len(served) : served[i] \in Customers
    BY <1>4, <1>5 DEF ToSet
  <2> QED BY <2>1, <1>4
<1>7. Len(served) = N  BY <1>4, <1>5, <1>6, SearchedNodes, LengthOfOnce
<1> QED BY <1>1, <1>3, <1>5, <1>7, RangeIsSet

LEMMA SearchIsFaithful ==
    ASSUME SearchHolds
    PROVE  NobodyLost /\ IncumbentIsCheapest /\ FleetOnlyShrinks
<1>1. ASSUME NEW p, ServesAll(p)
      PROVE  LET flat == Kept(FlattenSeq(p), Customers)
             IN  Len(flat) = N /\ Range(flat) = Customers
  <2>1. p \in Seq(Seq(Nodes))  BY <1>1, SearchedNodes DEF ServesAll
  <2>2. OnceEach(p, Customers) /\ Customers \in SUBSET Nodes
    BY <1>1, SearchedNodes DEF ServesAll
  <2> QED BY <2>1, <2>2, AllAreServed
<1>2. ASSUME NEW p, NEW t, ClosedTour(t), p = <<t>>
      PROVE  LET flat == Kept(FlattenSeq(p), Customers)
             IN  Len(flat) = N /\ Range(flat) = Customers
  <2>1. t \in Seq(Nodes) /\ IsInjective(t) /\ ToSet(t) = Nodes
    BY <1>2 DEF ClosedTour
  <2>2. p \in Seq(Seq(Nodes)) /\ DOMAIN p = {1} /\ p[1] = t  BY <1>2, <2>1
  <2>3. OnceEach(p, Nodes)  BY <2>1, <2>2 DEF OnceEach
  <2> QED BY <2>2, <2>3, SearchedNodes, AllAreServed
<1>3. NobodyLost
  <2>1. search \in {"lns", "fleet"} => ServesAll(plan) /\ ServesAll(best)
    BY DEF SearchHolds, LnsHolds, FleetHolds
  <2>2. search \in {"accelerated", "naive"} =>
            /\ \E t : ClosedTour(t) /\ plan = <<t>>
            /\ \E t : ClosedTour(t) /\ best = <<t>>
    BY DEF SearchHolds, LocalHolds
  <2>3. search \in {"lns", "fleet"} \/ search \in {"accelerated", "naive"}
    BY DEF SearchHolds
  <2> QED BY <2>1, <2>2, <2>3, <1>1, <1>2 DEF NobodyLost
<1>4. IncumbentIsCheapest
  BY DEF SearchHolds, LnsHolds, IncumbentIsCheapest
<1>5. FleetOnlyShrinks
  BY DEF SearchHolds, FleetHolds, AllFilled, Filled, FleetOnlyShrinks
<1> QED BY <1>3, <1>4, <1>5

-----------------------------------------------------------------------------
(* The parts together.                                                     *)

\* One part is at work, and of that one its invariant holds.
PartsInv ==
    /\ work = "matrix" => MatrixInv
    /\ work = "race" => RaceInv
    /\ work = "load" => LoadInv
    /\ work = "record" => RunInv
    /\ work = "search" => SearchHolds

LEMMA PartsStart == PartsInit => PartsInv
<1> USE PartsAssumption
<1>1. CASE StartMatrix  BY <1>1, MatrixInit DEF StartMatrix, PartsInv
<1>2. CASE StartRace  BY <1>2, RaceInit DEF StartRace, PartsInv
<1>3. CASE StartCapacity  BY <1>3, LoadInit DEF StartCapacity, PartsInv
<1>4. CASE StartRun  BY <1>4, RunInit DEF StartRun, PartsInv
<1>5. CASE StartSearch  BY <1>5, SearchStarts DEF StartSearch, PartsInv
<1>6. CASE work \notin PARTS  BY <1>6 DEF PARTS, PartsInv
<1> QED BY <1>1, <1>2, <1>3, <1>4, <1>5, <1>6 DEF PartsInit, StartPart

LEMMA PartsPersist == PartsInv /\ [PartsNext]_partVars => PartsInv'
<1> USE PartsAssumption
<1> SUFFICES ASSUME PartsInv, [PartsNext]_partVars PROVE PartsInv'  OBVIOUS
<1>1. CASE MatrixStep  BY <1>1, MatrixNext DEF MatrixStep, PartsInv
<1>2. CASE RaceStep  BY <1>2, RaceNext DEF RaceStep, PartsInv
<1>3. CASE CapacityStep  BY <1>3, LoadNext DEF CapacityStep, PartsInv
<1>4. CASE RunStep  BY <1>4, RunNext DEF RunStep, PartsInv
<1>5. CASE SearchStep  BY <1>5, SearchPersists DEF SearchStep, PartsInv
<1>6. CASE work \notin PARTS /\ UNCHANGED work  BY <1>6 DEF PARTS, PartsInv
<1>7. CASE UNCHANGED partVars
  <2>1. work' = work  BY <1>7 DEF partVars
  <2>2. UNCHANGED Matrix!vars  BY <1>7 DEF partVars, matrixVars, Matrix!vars
  <2>3. UNCHANGED Race!vars
    BY <1>7 DEF partVars, raceVars, Race!vars, Race!given
  <2>4. UNCHANGED Capacity!vars  BY <1>7 DEF partVars, loadVars, Capacity!vars
  <2>5. UNCHANGED Run!vars  BY <1>7 DEF partVars, recordVars, Run!vars
  <2>6. SearchHolds => SearchHolds'
    <3>1. UNCHANGED searchVars  BY <1>7 DEF partVars
    <3> QED BY <3>1, SearchStutters
  <2> QED
    BY <2>1, <2>2, <2>3, <2>4, <2>5, <2>6, MatrixNext, RaceNext, LoadNext,
       RunNext DEF PartsInv
<1> QED BY <1>1, <1>2, <1>3, <1>4, <1>5, <1>6, <1>7 DEF PartsNext, PartStep

\* Whatever part is at work, its state stays what its actions make it.
THEOREM PartsAreKept == PartsSpec => []PartsInv
BY PartsStart, PartsPersist, PTL DEF PartsSpec

\* matrix.build_large_matrix: for every map, cell cap, cache size and list of
\* locations, and whatever is refused or evicted on the way: the tiles cover
\* each cell once within the cap, the pair cache stays within its size, with
\* one entry per pair and nothing in it a gateway never said, and a cell of a
\* finished matrix is the unchunked build's or unknown and owned up to.
THEOREM CellsAreTrueOrOwnedUp == PartsSpec => []EveryCellIsTrueOrOwnedUp
<1>1. PartsInv => EveryCellIsTrueOrOwnedUp
  BY PartsAssumption, MatrixSays DEF PartsInv, EveryCellIsTrueOrOwnedUp
<1> QED BY <1>1, PartsAreKept, PTL

\* portfolio.run_portfolio: for every instance, number of engines and of
\* workers, kind of pool and set of answers, no member is run twice or more
\* than `workers` at once, and the outcome is the cheapest legal answer, the
\* first name of those, in whatever order the members end.
THEOREM TimingNeverDecides == PartsSpec => []TimingDecidesNothing
<1>1. PartsInv => TimingDecidesNothing
  BY PartsAssumption, RaceDecided, RaceOnce DEF PartsInv, TimingDecidesNothing
<1> QED BY <1>1, PartsAreKept, PTL

\* loadtest: for every list of phases, schedule and reading of the probe, at
\* most one launch follows a breach, and a phase that is over has nothing in
\* flight and was ended early by nothing but the guard.
THEOREM GuardIsAlwaysKept == PartsSpec => []GuardIsKept
<1>1. PartsInv => GuardIsKept  BY LoadGuard DEF PartsInv, GuardIsKept
<1> QED BY <1>1, PartsAreKept, PTL

\* snapshot and observe: for every planner that is a function of what was
\* sealed, every clock and every edit of the file, a replay that is accepted
\* under the run's digest has the run's replayable record, an incumbent's
\* trajectory falls in time to the best that was found, and a rate is one.
THEOREM ReplaysAgree == PartsSpec => []ReplayAgrees
<1>1. PartsInv => ReplayAgrees
  BY PartsAssumption, PPTAssumption, RunAgrees DEF PartsInv, ReplayAgrees
<1> QED BY <1>1, PartsAreKept, PTL

\* lns, fleet and localsearch: for every number of customers, table of costs,
\* capacity, windows, starting plan and draw of the seeds, the plan and the
\* incumbent serve each customer once after every iteration, attempt and move;
\* the incumbent is never dearer than the plan given nor than the current one;
\* and a fleet attempt adds no route and fills none beyond capacity or windows.
THEOREM SearchKeepsTheFaith == PartsSpec => []SearchKeepsFaith
<1>1. PartsInv => SearchKeepsFaith
  BY SearchIsFaithful DEF PartsInv, SearchKeepsFaith
<1> QED BY <1>1, PartsAreKept, PTL

\* localsearch: where going is as far as coming back, every move of either
\* search makes the tour shorter by exactly what the edges it changes say,
\* for every number of customers, table of distances, neighbourhood and
\* starting tour.  Of a table that is not symmetric a reversal is priced wrong.
THEOREM ToursOnlyShorten ==
    ASSUME GridsAreSymmetric
    PROVE  PartsSpec => TourOnlyShortens
<1>1. ASSUME PartsInv, [PartsNext]_partVars, work = "search",
             search \in {"accelerated", "naive"}, plan' # plan
      PROVE  TourLength(dist, plan'[1]) < TourLength(dist, plan[1])
  <2>1. SearchHolds  BY <1>1 DEF PartsInv
  <2>2. SearchNext
    <3>1. ~UNCHANGED partVars  BY <1>1 DEF partVars, searchVars
    <3>2. work \in PARTS /\ work # "matrix" /\ work # "race" /\ work # "load"
          /\ work # "record"
      BY <1>1 DEF PARTS
    <3> QED BY <1>1, <3>1, <3>2
            DEF PartsNext, PartStep, SearchStep, MatrixStep, RaceStep,
                CapacityStep, RunStep
  <2>3. ~LnsIterate /\ ~FleetAttempt  BY <1>1 DEF LnsIterate, FleetAttempt
  <2>4. ~Returned  BY <1>1 DEF Returned, searchVars
  <2>5. VisitNode \/ NaiveSweep  BY <2>2, <2>3, <2>4 DEF SearchNext
  <2>6. LocalHolds /\ dist \in Grids  BY <1>1, <2>1 DEF SearchHolds
  <2>7. Symmetric(dist)  BY <2>6 DEF GridsAreSymmetric, Symmetric
  <2> QED BY <1>1, <2>5, <2>6, <2>7, MoveShortens
<1> QED BY <1>1, PartsAreKept, PTL DEF PartsSpec, TourOnlyShortens

=============================================================================
