---------------------------- MODULE MCSchedules ----------------------------
(***************************************************************************)
(* Instances of Schedules for TLC: which triggers the commands may set.    *)
(***************************************************************************)
EXTENDS Schedules

MCEvent == [kind |-> "event"]
MCEvery(interval, start) ==
    [kind |-> "schedule", interval_seconds |-> interval, start_at |-> start]

\* A schedule that starts on a whole microsecond, where the clock counts half
\* ones, and an event trigger to change to and from.
MCAnchored == {MCEvent, MCEvery(1, 2)}
\* A schedule that counts from the command that sets it.
MCFloating == {MCEvery(2, NoTime)}
\* A schedule whose interval is changed from two units to one.
MCTwoIntervals == {MCEvery(2, 0), MCEvery(1, 0)}
MCOneRule == {1}
MCTwoRules == {1, 2}
===========================================================================
