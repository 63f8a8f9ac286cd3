------------------------------ MODULE RunRecord ------------------------------
(***************************************************************************)
(* What is kept of a run: the snapshot it can be replayed from, and the    *)
(* record of how it went.                                                  *)
(*                                                                         *)
(* A problem and a configuration are sealed and the plan is made; the file *)
(* may be edited and the caller's objects may change; then the file is     *)
(* read back and the run replayed, at other times and with a cache as warm *)
(* as the days before it left it.                                          *)
(***************************************************************************)
EXTENDS VrpDomain, FiniteSetsExt

CONSTANTS Inputs,               \* [problem, config] that may be planned
          Search(_, _),         \* the (iteration, objective) pairs a solve of
                                \* a problem under a configuration goes through
          Report(_, _),         \* what the verifier finds broken in its plan
          Ticks,                \* instants the clock of a run may read
          Hits                  \* cache counters a run may end with

VARIABLES caller,       \* the objects in the caller's hands
          held,         \* the Snapshot in memory
          file,         \* what is on disk, if anything
          stage,
          step,         \* how far the search has got
          clock, began,
          trajectory,   \* Recorder._trajectory
          records       \* the run's record, then the replay's

vars == <<caller, held, file, stage, step, clock, began, trajectory, records>>

\* sha256 over the canonical encoding: as good as the contents.
Digest(payload) == <<"sha256", payload>>
Sealed(input) == [payload |-> input, digest |-> Digest(input)]

Snapshot == held.payload
Trail == Search(Snapshot.problem, Snapshot.config)

\* A solve tries something, and its counters are counts.
Trial == Nat \X Int
RunsAreKnown ==
    /\ Ticks \subseteq Nat
    /\ \A i \in Inputs : /\ Search(i.problem, i.config) \in Seq(Trial)
                         /\ Search(i.problem, i.config) # <<>>
    /\ \A h \in Hits : h.hits \in Nat /\ h.misses \in Nat

Start(next) ==
    /\ stage' = next /\ step' = 1 /\ trajectory' = <<>>
    /\ began' = clock

Init == /\ caller \in Inputs /\ held = <<>> /\ file = {} /\ stage = "planned"
        /\ step = 1 /\ clock \in Ticks /\ began = clock /\ trajectory = <<>>
        /\ records = <<>>

\* capture copies: what the caller does with its objects afterwards is its own.
Capture ==
    /\ stage = "planned"
    /\ held' = Sealed(caller) /\ Start("running")
    /\ UNCHANGED <<caller, file, clock, records>>

Mutate ==
    /\ stage = "written" /\ caller' \in Inputs
    /\ UNCHANGED <<held, file, stage, step, clock, began, trajectory, records>>

\* Recorder.improved: only what is better than the incumbent is an incumbent.
Better(objective) ==
    trajectory = <<>> \/ objective < trajectory[Len(trajectory)].objective

Improved ==
    /\ stage \in {"running", "replaying"} /\ step <= Len(Trail)
    /\ clock' \in {t \in Ticks : t >= clock}
    /\ trajectory' = IF Better(Trail[step][2])
                     THEN Append(trajectory, [ iteration |-> Trail[step][1],
                                               elapsed |-> clock' - began,
                                               objective |-> Trail[step][2] ])
                     ELSE trajectory
    /\ step' = step + 1
    /\ UNCHANGED <<caller, held, file, stage, began, records>>

\* violations_of: counts by invariant.
ViolationsOf(report) == [i \in ToSet(report) |->
                            Quantify(DOMAIN report, LAMBDA k : report[k] = i)]

Finish(hits) ==
    /\ stage \in {"running", "replaying"} /\ step > Len(Trail)
    /\ records' = Append(records,
            [ of |-> held.digest, config |-> Snapshot.config,
              iterations |-> Len(Trail),
              trajectory |-> trajectory,
              violations |-> ViolationsOf(Report(Snapshot.problem,
                                                 Snapshot.config)),
              hits |-> hits.hits, lookups |-> hits.hits + hits.misses ])
    /\ stage' = IF stage = "running" THEN "recorded" ELSE "replayed"
    /\ UNCHANGED <<caller, held, file, step, clock, began, trajectory>>

Write ==
    /\ stage = "recorded" /\ stage' = "written" /\ file' = {held}
    /\ UNCHANGED <<caller, held, step, clock, began, trajectory, records>>

\* The file is edited by hand: its contents, or the digest beside them.
Edit ==
    /\ stage = "written"
    /\ \E was \in file, other \in Inputs :
            \/ file' = {[was EXCEPT !.payload = other]}
            \/ file' = {[was EXCEPT !.digest = Digest(other)]}
    /\ UNCHANGED <<caller, held, stage, step, clock, began, trajectory, records>>

\* Mutant: the digest is not compared with the contents.
ReadUnchecked ==
    /\ stage = "written" /\ held' \in file /\ Start("replaying")
    /\ UNCHANGED <<caller, file, clock, records>>

\* read refuses what does not hash to the digest recorded with it.
Read ==
    /\ stage = "written"
    /\ \E found \in file :
        IF Digest(found.payload) # found.digest
        THEN /\ stage' = "tampered"
             /\ UNCHANGED <<held, step, began, trajectory>>
        ELSE held' = found /\ Start("replaying")
    /\ UNCHANGED <<caller, file, clock, records>>

Ended == stage \in {"replayed", "tampered"} /\ UNCHANGED vars

Next == \/ Capture \/ Mutate \/ Improved \/ Write \/ Edit \/ Read \/ Ended
        \/ \E hits \in Hits : Finish(hits)

-----------------------------------------------------------------------------

\* replayable: the half of a record that is a function of the seed.
Replayable(record) ==
    [ config |-> record.config, iterations |-> record.iterations,
      trajectory |-> [i \in DOMAIN record.trajectory |->
                        <<record.trajectory[i].iteration,
                          record.trajectory[i].objective>>],
      violations |-> record.violations ]

CacheHitRatePpt(record) ==
    IF record.lookups <= 0 THEN 0 ELSE (record.hits * PPT) \div record.lookups

\* snapshot and observe: a replay that is not refused agrees with the run
\* that was sealed under its digest in all that is said to be replayable,
\* whatever was edited, whatever became of the caller's objects and whenever
\* it ran; every trajectory falls, in time, to the best that was found; and a
\* rate is one.
ReplayAgrees ==
    /\ stage = "replayed" /\ records[1].of = records[2].of
            => Replayable(records[1]) = Replayable(records[2])
    /\ stage \in {"recorded", "replayed"} =>
            Last(trajectory).objective
                = Min({Trail[i][2] : i \in DOMAIN Trail})
    /\ \A k \in 2..Len(trajectory) :
            /\ trajectory[k].objective < trajectory[k - 1].objective
            /\ trajectory[k].elapsed >= trajectory[k - 1].elapsed
    /\ \A i \in DOMAIN records : CacheHitRatePpt(records[i]) \in 0..PPT
=============================================================================
