------------------------- MODULE ScheduleContract -------------------------
(***************************************************************************)
(* What scheduled rules promise, without dispatches, jobs, timers or       *)
(* invocations: a rule with a schedule in force waits for one fire time,   *)
(* is executed for it at most once and not before it has come, and waits   *)
(* for the time one interval later when that execution has ended.  Every   *)
(* start_at is in whole microseconds.                                      *)
(***************************************************************************)
EXTENDS ScheduleTime

CONSTANTS Rules, Triggers, NoTrigger,
          Times  \* the times that a rule may wait for

VARIABLES clock,     \* the time
          rule,      \* "absent", "active" or "deleted"
          schedule,  \* the schedule of an enabled rule, or NoTrigger
          next,      \* the time a rule waits for
          open,      \* <<r, t>>: rule r is being executed for the time t
          ended      \* <<r, t>>: it was executed for t

vars == <<clock, rule, schedule, next, open, ended>>

Schedules == {u \in Triggers : u.kind = "schedule"}

Interval(u) == u.interval_seconds * Second

\* The times that a start_at and an interval make, by their definition.
Recurs(u, t) == t >= u.start_at /\ (t - u.start_at) % Interval(u) = 0

\* What a rule waits for when a schedule comes into force: a whole interval
\* from now, or the first recurrence that is still to come.
FirstAfter(u, now, t) ==
    IF u.start_at = NoTime
    THEN t = PgTime(now + Interval(u))
    ELSE /\ t > now
         /\ Recurs(u, t)
         /\ \A s \in (now + 1)..(t - 1) : ~ Recurs(u, s)

Init ==
    /\ clock = 0
    /\ rule = [r \in Rules |-> "absent"]
    /\ schedule = [r \in Rules |-> NoTrigger]
    /\ next = [r \in Rules |-> NoTime]
    /\ open = {}
    /\ ended = {}

Tick ==
    /\ clock' = clock + 1
    /\ UNCHANGED <<rule, schedule, next, open, ended>>

\* A rule command.  It brings a schedule into force or leaves the rule
\* without one; a deleted rule has none and cannot be changed any more.
Command(r) ==
    /\ rule[r] # "deleted"
    /\ \E state \in {"active", "deleted"}, u \in Schedules \cup {NoTrigger} :
        /\ state = "deleted" => u = NoTrigger
        /\ rule' = [rule EXCEPT ![r] = state]
        /\ schedule' = [schedule EXCEPT ![r] = u]
        /\ \/ u = NoTrigger /\ next' = [next EXCEPT ![r] = NoTime]
           \/ /\ u \in Schedules
              /\ \E t \in Times : FirstAfter(u, clock, t) /\ next' = [next EXCEPT ![r] = t]
    /\ UNCHANGED <<clock, open, ended>>

\* The time has come: the rule is executed, for the first time at this time.
Fire(r) ==
    /\ next[r] # NoTime
    /\ clock >= next[r]
    /\ <<r, next[r]>> \notin open \cup ended
    /\ open' = open \cup {<<r, next[r]>>}
    /\ UNCHANGED <<clock, rule, schedule, next, ended>>

\* An execution ends.  The rule moves on, unless a command has been faster.
End(r, t) ==
    /\ <<r, t>> \in open
    /\ open' = open \ {<<r, t>>}
    /\ ended' = ended \cup {<<r, t>>}
    /\ next' = IF next[r] = t THEN [next EXCEPT ![r] = t + Interval(schedule[r])] ELSE next
    /\ UNCHANGED <<clock, rule, schedule>>

Next ==
    \/ Tick
    \/ \E r \in Rules : Command(r) \/ Fire(r)
    \/ \E x \in open : End(x[1], x[2])

Spec == Init /\ [][Next]_vars
===========================================================================
