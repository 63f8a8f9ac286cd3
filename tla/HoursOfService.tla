--------------------------- MODULE HoursOfService ---------------------------
(***************************************************************************)
(* The hours-of-service rules of vrp/hos/rules.py, the break scheduler of  *)
(* vrp/hos/schedule.py and the tachograph reader of vrp/hos/tachograph.py. *)
(*                                                                         *)
(* A driver's state is what one duty has consumed so far, and a timeline a *)
(* sequence of steps as in vrp/model.py.                                   *)
(***************************************************************************)
EXTENDS VrpDomain

Rested == [drive |-> 0, duty |-> 0, block |-> 0, week |-> 0]

\* The shipped rule sets, in seconds.
RULES ==
    LET hour == 3600
    IN  [ EU_561 |-> [maxDrive |-> 9 * hour, maxDuty |-> 13 * hour,
                      block |-> 16200, pause |-> 2700, rest |-> 11 * hour],
          US_HOS |-> [maxDrive |-> 11 * hour, maxDuty |-> 14 * hour,
                      block |-> 8 * hour, pause |-> 1800, rest |-> 10 * hour] ]

\* advance: a break restores the driving block and nothing else; work and
\* waiting consume the duty only.
Advance(state, activity, seconds) ==
    LET driven == IF activity = "DRIVE" THEN seconds ELSE 0
    IN  [state EXCEPT !.duty = @ + seconds, !.drive = @ + driven,
                      !.week = @ + driven,
                      !.block = IF activity \in {"BREAK", "REST"} THEN 0
                                ELSE @ + driven]

RemainingDrive(r, state) ==
    Max({0, Min({r.maxDrive - state.drive, r.maxDuty - state.duty})})

DriveUntilBreak(r, state) ==
    Min({RemainingDrive(r, state), Max({0, r.block - state.block})})

CanDrive(r, state, seconds) == seconds <= DriveUntilBreak(r, state)

\* Whether a break is due, and would help.
RequiredBreak(r, state) ==
    /\ state.block >= r.block
    /\ state.drive < r.maxDrive /\ state.duty < r.maxDuty

-----------------------------------------------------------------------------
(* A step of a timeline.  serves is the order of a stop, soc the charge it *)
(* leaves with; both are empty where the code has None.                    *)

Step(type, at, arrival, start, departure, serves, load) ==
    [type |-> type, at |-> at, arrival |-> arrival, start |-> start,
     departure |-> departure, serves |-> serves, load |-> load, soc |-> {}]

\* What is aboard: everything the route delivers, before the first stop; less
\* or more by a stop's quantities after it.
Laden(p, seq) ==
    [d \in UNION {DOMAIN p.orders[seq[i]].qty : i \in DOMAIN seq} |->
        SumOver({i \in DOMAIN seq : p.orders[seq[i]].delivery # {}},
                LAMBDA i : Get(p.orders[seq[i]].qty, d))]

LoadAfter(load, o) ==
    [d \in DOMAIN load |-> IF o.delivery # {} THEN load[d] - Get(o.qty, d)
                           ELSE load[d] + Get(o.qty, d)]

\* The scheduler's state: the clock, the driver, the driving left of a leg,
\* whether the duty is over its hours, and the steps so far.
Begin(clock, driver, first) ==
    [clock |-> clock, driver |-> driver, left |-> 0, over |-> FALSE,
     steps |-> <<first>>]

\* One round of the loop of _drive: a chunk of driving as long as the rules
\* allow, or a break where one is due.  Once the duty is exhausted the leg is
\* driven without accounting.
DriveChunk(r, s, chunk, destination) ==
    CASE chunk > 0 /\ ~s.over ->
            [s EXCEPT !.clock = @ + chunk, !.left = @ - chunk,
                      !.driver = Advance(@, "DRIVE", chunk)]
      [] chunk = 0 /\ ~s.over /\ RequiredBreak(r, s.driver) ->
            [s EXCEPT !.clock = @ + r.pause,
                      !.steps = Append(@, Step("BREAK", destination, s.clock,
                                               s.clock, s.clock + r.pause, {},
                                               Last(@).load)),
                      !.driver = Advance(@, "BREAK", r.pause)]
      [] OTHER -> [s EXCEPT !.clock = @ + s.left, !.left = 0, !.over = TRUE]

DriveOn(r, s, destination) ==
    IF s.left = 0 THEN s
    ELSE DriveChunk(r, s, Min({DriveUntilBreak(r, s.driver), s.left}),
                    destination)

\* _drive: breaks as late as the rules allow.  A block is at most r.block
\* long, so the loop has ended after these many rounds.
Drive(rules, s, leg, destination) ==
    IF rules = {} THEN [s EXCEPT !.clock = @ + leg]
    ELSE LET r == CHOOSE x \in rules : TRUE
             round[n \in Nat] ==
                IF n = 0 THEN [s EXCEPT !.left = leg]
                ELSE DriveOn(r, round[n - 1], destination)
         IN  round[2 * (leg \div r.block) + 4]

\* Waiting for the stop's first window, then service, on the duty clock.
ServeFrom(p, rules, s, o, begin, service) ==
    LET order == p.orders[o]
        type == IF order.delivery # {} THEN "DELIVERY" ELSE "PICKUP"
    IN  [s EXCEPT !.clock = begin + service,
                  !.steps = Append(@, Step(type, StopOf(order).at, s.clock,
                                           begin, begin + service, {o},
                                           LoadAfter(Last(@).load, order))),
                  !.driver = IF rules = {} THEN @
                             ELSE Advance(Advance(@, "WAIT", begin - s.clock),
                                          "WORK", service)]

ServeStop(p, v, rules, s, o) ==
    LET stop == StopOf(p.orders[o])
    IN  ServeFrom(p, rules, s, o,
                  IF stop.windows = <<>> THEN s.clock
                  ELSE Max({s.clock, stop.windows[1].start}),
                  ServiceTime(p, p.orders[o], v, stop.at))

\* schedule_route: the timeline with its breaks, and whether it is legal:
\* inside the hours, and back inside the shift.
ScheduleRoute(p, vid, seq, rules, start) ==
    LET v == p.vehicles[vid]
        Place(i) == IF i = 0 THEN v.start ELSE StopOf(p.orders[seq[i]]).at
        after[i \in 0..Len(seq)] ==
            IF i = 0
            THEN Begin(start, Or(v.carry, Rested),
                       Step("START", v.start, start, start, start, {},
                            Laden(p, seq)))
            ELSE ServeStop(p, v, rules,
                    Drive(rules, after[i - 1],
                          p.dur[Place(i - 1)][Place(i)], Place(i)),
                    seq[i])
        Ended(back) ==
            [ steps |-> Append(back.steps,
                               Step("END", EndsAt(v), back.clock, back.clock,
                                    back.clock, {}, Last(back.steps).load)),
              legal |-> ~back.over /\ back.clock <= v.shift.end,
              driver |-> back.driver ]
    IN  Ended(Drive(rules, after[Len(seq)],
                    p.dur[Place(Len(seq))][EndsAt(v)], EndsAt(v)))

-----------------------------------------------------------------------------
(* The tachograph.                                                         *)

Activities == {"DRIVE", "WORK", "BREAK", "REST", "WAIT"}

\* _validate: in order, not overlapping, none ending before it starts.
ReadableFeed(records) ==
    /\ \A i \in DOMAIN records :
            /\ records[i].activity \in Activities
            /\ records[i].end >= records[i].start
    /\ \A i \in 1..(Len(records) - 1) :
            /\ records[i + 1].start >= records[i].start
            /\ records[i + 1].start >= records[i].end

\* read_duty: a qualifying rest ends the duty, but not the week.
ReadDuty(records, r) ==
    LET after[i \in 0..Len(records)] ==
        IF i = 0 THEN Rested
        ELSE LET e == records[i]
                 seconds == e.end - e.start
             IN  IF e.activity \in {"REST", "BREAK"} /\ seconds >= r.rest
                 THEN [Rested EXCEPT !.week = after[i - 1].week]
                 ELSE Advance(after[i - 1], e.activity, seconds)
    IN  after[Len(records)]

\* resume_from: a vehicle that carries the recorded hours.
ResumeFrom(v, records) ==
    [v EXCEPT !.carry = {ReadDuty(records, RULES[CHOOSE h \in v.hos : TRUE])}]
=============================================================================
