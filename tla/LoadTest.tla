------------------------------ MODULE LoadTest ------------------------------
(***************************************************************************)
(* The capacity assessment: phases of open-loop load, under a guard that   *)
(* watches the memory of the host.                                         *)
(*                                                                         *)
(* The generator, the requests in flight and the watcher share one event   *)
(* loop, so only a step that awaits lets the others run: the sleep before  *)
(* a launch, the gather after the last, and the end of a phase.  Requests  *)
(* are counted by how they ended; a phase's figures are what becomes of it *)
(* in the envelope.                                                        *)
(***************************************************************************)
EXTENDS Integers, Sequences

CONSTANTS Phases,       \* the plans in order: kinds among Kinds
          MaxLaunches,  \* requests the schedule has room for in a phase
          Readings      \* what a probe may find: "low", "fair", "ample"

Kinds == {"smoke", "leak", "ramp", "vrp", "matrix"}
PhasesAreKnown ==
    /\ \A i \in DOMAIN Phases : Phases[i] \in Kinds
    /\ MaxLaunches \in Nat \ {0}

\* How a request ends: in time, late, throttled (429), or failed (another
\* status, or none).
Endings == {"fine", "slow", "throttled", "failed"}

VARIABLES phase,        \* the phase that runs
          pc,           \* where the generator or the assessment is
          issued,       \* requests launched in this phase
          inFlight,     \* of them, those without an answer
          ended,        \* of them, how many ended how
          enabled,      \* whether there is a probe
          watcher,      \* the task: watching, sampling, returned
          last,         \* MemoryProbe._last
          breached,     \* MemoryProbe.breached
          broken,       \* a smoke result with hard errors
          envelope,     \* the last good ramp step, the largest payloads
          exit,         \* the exit code, once there is one
          late          \* launches of this phase since the guard tripped

vars == <<phase, pc, issued, inFlight, ended, enabled, watcher, last, breached,
          broken, envelope, exit, late>>

Nothing == [e \in Endings |-> 0]
Samples == ended["fine"] + ended["slow"] + ended["throttled"] + ended["failed"]

\* hard_error_rate is above a percentage; a 429 is the limiter at its job.
Countable == Samples - ended["throttled"]
HardErrorsAbove(percent) == ended["failed"] * 100 > percent * Countable

\* percentile: the nearest rank, halves to even; its 95th here is late.
Rank(n, percent) ==
    LET scaled == percent * (n - 1)
        whole == scaled \div 100
        part == scaled % 100
    IN  whole + (IF part > 50 \/ (part = 50 /\ whole % 2 = 1) THEN 1 ELSE 0)
P95IsSlow == Samples > 0 /\ Rank(Samples, 95) >= Samples - ended["slow"]

Running == pc \in {"asleep", "drain"}

Init ==
    /\ phase = 1 /\ pc = "guard" /\ issued = 0 /\ inFlight = 0 /\ ended = Nothing
    /\ enabled \in BOOLEAN /\ watcher = "watching"
    \* _assess samples once before the phases; a probe that fails keeps the
    \* reading before it, and the first of all is Memory(), which is 0 MB
    /\ last \in (IF enabled THEN Readings \cup {"none"} ELSE {"none"})
    /\ breached = FALSE /\ broken = FALSE /\ exit = {}
    /\ envelope = [k \in {"ramp", "vrp", "matrix"} |-> {}]
    /\ late = 0

-----------------------------------------------------------------------------
(* generate: the schedule does not wait for answers.                       *)

Launched ==
    /\ issued' = issued + 1 /\ inFlight' = inFlight + 1
    /\ late' = IF breached THEN late + 1 ELSE late

\* The guard is asked, and then the generator sleeps until the next launch is
\* due; a generator behind its schedule launches without sleeping.
Guard(behind) ==
    /\ pc = "guard" /\ ~breached /\ issued < MaxLaunches
    /\ IF behind \/ issued = 0 THEN Launched /\ pc' = "guard"
       ELSE pc' = "asleep" /\ UNCHANGED <<issued, inFlight, late>>
    /\ UNCHANGED <<phase, ended, enabled, watcher, last, breached, broken,
                   envelope, exit>>

Wake ==
    /\ pc = "asleep" /\ pc' = "guard" /\ Launched
    /\ UNCHANGED <<phase, ended, enabled, watcher, last, breached, broken,
                   envelope, exit>>

\* The duration is over: every request is waited for.
TimeUp ==
    /\ pc = "guard" /\ issued > 0 /\ pc' = "drain"
    /\ UNCHANGED <<phase, issued, inFlight, ended, enabled, watcher, last,
                   breached, broken, envelope, exit, late>>

\* Mutant: what is in flight is left to end by itself.
AbortAlone ==
    /\ pc = "guard" /\ breached /\ pc' = "aborted"
    /\ UNCHANGED <<phase, issued, inFlight, ended, enabled, watcher, last,
                   breached, broken, envelope, exit, late>>

\* The guard has tripped: what is in flight is cancelled and leaves no sample.
Abort ==
    /\ pc = "guard" /\ breached
    /\ pc' = "aborted" /\ inFlight' = 0
    /\ UNCHANGED <<phase, issued, ended, enabled, watcher, last, breached,
                   broken, envelope, exit, late>>

\* _fire: whatever becomes of a request is a sample.
Fire(ending) ==
    /\ Running /\ inFlight > 0
    /\ inFlight' = inFlight - 1 /\ ended' = [ended EXCEPT ![ending] = @ + 1]
    /\ UNCHANGED <<phase, pc, issued, enabled, watcher, last, breached, broken,
                   envelope, exit, late>>

\* watch samples in a process of its own, and acts on what it reads when that
\* ends, though the phase may have ended before it.
StartSample ==
    /\ Running /\ enabled /\ watcher = "watching" /\ watcher' = "sampling"
    /\ UNCHANGED <<phase, pc, issued, inFlight, ended, enabled, last, breached,
                   broken, envelope, exit, late>>

Watch(reading) ==
    /\ pc \in {"asleep", "drain", "drained", "aborted"} /\ watcher = "sampling"
    /\ last' = reading
    /\ breached' = (breached \/ reading \in {"low", "none"})
    /\ watcher' = IF reading \in {"low", "none"} THEN "returned" ELSE "watching"
    /\ UNCHANGED <<phase, pc, issued, inFlight, ended, enabled, broken,
                   envelope, exit, late>>

Drained ==
    /\ pc = "drain" /\ inFlight = 0 /\ pc' = "drained"
    /\ UNCHANGED <<phase, issued, inFlight, ended, enabled, watcher, last,
                   breached, broken, envelope, exit, late>>

-----------------------------------------------------------------------------
(* run_phase and the phases: what a result does to the assessment.         *)

PhaseIsOver == pc \in {"drained", "aborted"} /\ watcher # "sampling"
Aborted == pc = "aborted"
First(kind) == CHOOSE i \in DOMAIN Phases :
                    Phases[i] = kind /\ \A j \in 1..(i - 1) : Phases[j] # kind
NextPhase == IF phase = Len(Phases) THEN {} ELSE {phase + 1}
Begin(next) ==
    /\ issued' = 0 /\ inFlight' = 0 /\ ended' = Nothing /\ watcher' = "watching"
    /\ late' = 0
    /\ IF next = {} THEN pc' = "done" /\ exit' = {0} /\ UNCHANGED phase
       ELSE pc' = "guard" /\ UNCHANGED exit /\ \E n \in next : phase' = n

\* phase_smoke: the assessment stops after it if an endpoint fails.
Smoke ==
    /\ PhaseIsOver /\ Phases[phase] = "smoke"
    /\ broken' = (broken \/ HardErrorsAbove(0))
    /\ IF broken' /\ Phases[phase + 1] # "smoke"
       THEN /\ exit' = {1} /\ pc' = "done"
            /\ UNCHANGED <<phase, issued, inFlight, ended, watcher, late>>
       ELSE Begin(NextPhase)
    /\ UNCHANGED <<enabled, last, breached, envelope>>

\* phase_leak: one more reading, for the comparison.
Leak(reading) ==
    /\ PhaseIsOver /\ Phases[phase] = "leak"
    /\ last' = IF enabled THEN reading ELSE last
    /\ Begin(NextPhase)
    /\ UNCHANGED <<enabled, breached, broken, envelope>>

\* phase_ramp: the knee ends the ramp.
GoodStep == ~Aborted /\ ~HardErrorsAbove(2)
Knee == Aborted \/ P95IsSlow \/ HardErrorsAbove(2)
Ramp ==
    /\ PhaseIsOver /\ Phases[phase] = "ramp"
    /\ envelope' = IF GoodStep THEN [envelope EXCEPT !["ramp"] = {phase}]
                   ELSE envelope
    /\ Begin(IF Knee THEN {First("vrp")} ELSE NextPhase)
    /\ UNCHANGED <<enabled, last, breached, broken>>

\* phase_payloads: a ladder stops at the size the host does not survive, and
\* the next begins once memory is back.
Ladder ==
    /\ PhaseIsOver /\ Phases[phase] \in {"vrp", "matrix"}
    /\ IF Aborted
       THEN /\ pc' = "recovering" /\ breached' = FALSE
            /\ UNCHANGED <<phase, issued, inFlight, ended, watcher, envelope,
                           exit, late>>
       ELSE /\ envelope' = [envelope EXCEPT ![Phases[phase]] = {phase}]
            /\ Begin(NextPhase) /\ UNCHANGED breached
    /\ UNCHANGED <<enabled, last, broken>>

\* recover: until memory is back above the floor and a margin, or for 45 s.
Recovered(reading) ==
    /\ pc = "recovering" /\ last' = reading /\ reading = "ample"
    /\ Begin(IF Phases[phase] = "vrp" THEN {First("matrix")} ELSE {})
    /\ UNCHANGED <<enabled, breached, broken, envelope>>

NotRecovered(reading) ==
    /\ pc = "recovering" /\ reading # "ample"
    /\ last' = reading /\ pc' = "done" /\ exit' = {0}
    /\ UNCHANGED <<phase, issued, inFlight, ended, enabled, watcher, breached,
                   broken, envelope, late>>

Done == pc = "done" /\ UNCHANGED vars

\* sample: what is read, or the reading before it if the probe fails.
Sampled == Readings \cup {last}

Next ==
    \/ \E behind \in BOOLEAN : Guard(behind)
    \/ Wake \/ TimeUp \/ Abort \/ StartSample \/ Drained
    \/ \E e \in Endings : Fire(e)
    \/ \E reading \in Sampled : Watch(reading) \/ Leak(reading)
                                \/ Recovered(reading) \/ NotRecovered(reading)
    \/ Smoke \/ Ramp \/ Ladder
    \/ Done

-----------------------------------------------------------------------------

\* generate and watch: whatever the interleaving, at most the one launch the
\* generator was asleep for follows a breach; a phase ends with nothing in
\* flight and, unless it was stopped, a sample for every launch; only a phase
\* some memory reading could have stopped is stopped; and an assessment that
\* found an endpoint failing goes no further.
GuardIsKept ==
    /\ late <= 1
    /\ PhaseIsOver => inFlight = 0
    /\ pc = "drained" => Samples = issued
    /\ Samples + inFlight <= issued
    /\ pc = "aborted" => enabled
    /\ broken => Phases[phase] = "smoke"
=============================================================================
