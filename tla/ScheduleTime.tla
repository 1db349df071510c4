--------------------------- MODULE ScheduleTime ---------------------------
(***************************************************************************)
(* The times of a schedule: initial_next_fire and schedule_key, and the    *)
(* precision of the database.                                              *)
(*                                                                         *)
(* A time is a number of units of the clock of the program, which counts   *)
(* nanoseconds.  TIMESTAMPTZ columns count microseconds, of Micro units    *)
(* each, and interval_seconds counts seconds, of Second units each.  What  *)
(* matters is only that a second is a whole number of microseconds; with   *)
(* Micro = 1 the clock is no finer than the database.                      *)
(***************************************************************************)
EXTENDS Integers

CONSTANTS Second,  \* units of time in a second
          Micro,   \* units of time in a microsecond
          NoTime   \* Option::None and SQL NULL

ASSUME TimeAssumption ==
    /\ Micro \in Nat \ {0}
    /\ Second \in Nat \ {0}
    /\ Second % Micro = 0
    /\ NoTime \notin Int

\* What a TIMESTAMPTZ column keeps of a bound OffsetDateTime.
PgTime(t) == t - (t % Micro)

\* Mutant of initial_next_fire: the interval that has begun counts as next.
initial_next_fire_begun(trigger, enabled, now) ==
    IF ~ enabled \/ trigger.kind # "schedule"
    THEN NoTime
    ELSE IF trigger.start_at = NoTime
         THEN now + trigger.interval_seconds * Second
    ELSE IF trigger.start_at > now
         THEN trigger.start_at
    ELSE trigger.start_at
            + trigger.interval_seconds * Second
                * (((now - trigger.start_at) \div Second) \div trigger.interval_seconds)

\* Mutant of initial_next_fire: one interval too many.
initial_next_fire_beyond(trigger, enabled, now) ==
    IF enabled /\ trigger.kind = "schedule"
    THEN initial_next_fire_begun(trigger, enabled, now) + 2 * trigger.interval_seconds * Second
    ELSE NoTime

\* Mutant of initial_next_fire: a start in the past is forgotten.
initial_next_fire_from_now(trigger, enabled, now) ==
    IF ~ enabled \/ trigger.kind # "schedule"
    THEN NoTime
    ELSE IF trigger.start_at # NoTime /\ trigger.start_at > now
         THEN trigger.start_at
    ELSE now + trigger.interval_seconds * Second

\* initial_next_fire.  interval_seconds is at least 1, a start in the past
\* is moved to the next multiple of the interval after now.
initial_next_fire(trigger, enabled, now) ==
    IF ~ enabled \/ trigger.kind # "schedule"
    THEN NoTime
    ELSE IF trigger.start_at = NoTime
         THEN now + trigger.interval_seconds * Second
    ELSE IF trigger.start_at > now
         THEN trigger.start_at
    ELSE LET elapsed_intervals ==
                ((now - trigger.start_at) \div Second) \div trigger.interval_seconds
         IN  trigger.start_at
                + trigger.interval_seconds * (elapsed_intervals + 1) * Second

\* schedule_key: a name-based UUID of the rule and the time in nanoseconds,
\* equal exactly when both are.
schedule_key(rule_id, scheduled_for) == <<rule_id, scheduled_for>>
===========================================================================
