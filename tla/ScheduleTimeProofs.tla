------------------------ MODULE ScheduleTimeProofs ------------------------
(***************************************************************************)
(* What initial_next_fire returns, for every trigger and time, and what    *)
(* the precision of the database does to it.                               *)
(***************************************************************************)
EXTENDS ScheduleTime, TLAPS

\* Multiplication by a natural number is monotone.
LEMMA ProductGrows ==
    ASSUME NEW a \in Nat, NEW b \in Nat, NEW c \in Nat, a <= b
    PROVE  a * c <= b * c /\ c * a <= c * b /\ a * c \in Nat
OBVIOUS

\* Quotient and remainder.
LEMMA Division ==
    ASSUME NEW x \in Nat, NEW d \in Nat \ {0}
    PROVE  /\ x \div d \in Nat
           /\ d * (x \div d) <= x
           /\ x < d * (x \div d) + d
           /\ x % d \in 0..(d - 1)
           /\ x = d * (x \div d) + (x % d)
OBVIOUS

\* A multiple has no remainder.
LEMMA MultipleOf ==
    ASSUME NEW d \in Nat \ {0}, NEW q \in Nat
    PROVE  (d * q) % d = 0
OBVIOUS

\* What the database keeps of a time is at most a microsecond less.
LEMMA PgTimeFacts ==
    ASSUME NEW t \in Nat
    PROVE  /\ PgTime(t) \in Nat
           /\ PgTime(t) = Micro * (t \div Micro)
           /\ PgTime(t) <= t
           /\ t < PgTime(t) + Micro
BY TimeAssumption, Division DEF PgTime
\* And of a later time it keeps no less.
LEMMA PgTimeGrows ==
    ASSUME NEW s \in Nat, NEW t \in Nat, s <= t
    PROVE  PgTime(s) <= PgTime(t)
<1>1. s \div Micro <= t \div Micro
    <2> SUFFICES ASSUME (t \div Micro) + 1 <= s \div Micro PROVE FALSE
        BY TimeAssumption, Division
    <2>1. Micro * ((t \div Micro) + 1) <= Micro * (s \div Micro)
        BY TimeAssumption, Division, ProductGrows
    <2>2. Micro * (s \div Micro) <= s /\ t < Micro * (t \div Micro) + Micro
        BY TimeAssumption, Division
    <2>3. Micro * ((t \div Micro) + 1) = Micro * (t \div Micro) + Micro
        BY TimeAssumption, Division
    <2>4. Micro * (t \div Micro) \in Nat /\ Micro * (s \div Micro) \in Nat
        BY TimeAssumption, Division, ProductGrows
    <2> QED
        BY <2>1, <2>2, <2>3, <2>4, TimeAssumption
<1>2. s \div Micro \in Nat /\ t \div Micro \in Nat
    BY TimeAssumption, Division
<1>3. Micro * (s \div Micro) <= Micro * (t \div Micro)
    BY <1>1, <1>2, TimeAssumption, ProductGrows
<1> QED
    BY <1>3, PgTimeFacts

\* A time that the database keeps as it is.
Whole(t) == t % Micro = 0

\* The database keeps all of a time exactly if it is whole.
LEMMA WholeFacts ==
    ASSUME NEW t \in Nat
    PROVE  /\ Whole(t) <=> PgTime(t) = t
           /\ Whole(t) <=> \E q \in Nat : t = Micro * q
           /\ Micro = 1 => Whole(t)
           /\ Whole(PgTime(t))
<1>1. Whole(t) <=> PgTime(t) = t
    BY TimeAssumption, Division DEF Whole, PgTime
<1>2. Whole(t) => \E q \in Nat : t = Micro * q
    <2>1. t \div Micro \in Nat /\ PgTime(t) = Micro * (t \div Micro)
        BY TimeAssumption, Division, PgTimeFacts
    <2> QED
        BY <1>1, <2>1
<1>3. (\E q \in Nat : t = Micro * q) => Whole(t)
    BY TimeAssumption, MultipleOf DEF Whole
<1>4. Whole(PgTime(t))
    BY TimeAssumption, PgTimeFacts, Division, MultipleOf DEF Whole
<1>5. Micro = 1 => Whole(t)
    BY Division DEF Whole
<1> QED
    BY <1>1, <1>2, <1>3, <1>4, <1>5

\* Sums and products of whole times are whole.
LEMMA WholeSum ==
    ASSUME NEW s \in Nat, NEW t \in Nat, Whole(s), Whole(t)
    PROVE  Whole(s + t)
<1>1. PICK p \in Nat : s = Micro * p
    BY WholeFacts
<1>2. PICK q \in Nat : t = Micro * q
    BY WholeFacts
<1>3. s + t = Micro * (p + q)
    BY <1>1, <1>2, TimeAssumption
<1> QED
    BY <1>3, WholeFacts

LEMMA WholeProduct ==
    ASSUME NEW k \in Nat, NEW t \in Nat, Whole(t)
    PROVE  Whole(k * t)
<1>1. PICK q \in Nat : t = Micro * q
    BY WholeFacts
<1>2. k * t = Micro * (k * q) /\ k * q \in Nat /\ k * t \in Nat
    BY <1>1, TimeAssumption
<1> QED
    BY <1>2, WholeFacts

---------------------------------------------------------------------------
(* initial_next_fire of an enabled rule.                                   *)

\* The interval of a schedule, in units of time.
Period(trigger) == trigger.interval_seconds * Second

IsSchedule(trigger) ==
    /\ trigger.kind = "schedule"
    /\ trigger.interval_seconds \in Nat \ {0}
    /\ trigger.start_at \in Nat \cup {NoTime}

\* The number of intervals that have elapsed after a time x.
LEMMA Elapsed ==
    ASSUME NEW x \in Nat, NEW i \in Nat \ {0}
    PROVE  LET e == (x \div Second) \div i
           IN  e \in Nat /\ e * (i * Second) <= x /\ x < (e + 1) * (i * Second)
<1> DEFINE a == x \div Second
           e == a \div i
<1>1. a \in Nat /\ Second * a <= x /\ x < Second * a + Second
    BY TimeAssumption, Division
<1> HIDE DEF a
<1>2. e \in Nat /\ i * e <= a /\ a < i * e + i
    BY <1>1, Division
<1> HIDE DEF e
<1>3. i * e \in Nat /\ i * e + i \in Nat
    BY <1>2
<1>4. (i * e) * Second <= a * Second /\ (a + 1) * Second <= (i * e + i) * Second
    BY <1>1, <1>2, <1>3, TimeAssumption, ProductGrows
<1>5. /\ (i * e) * Second = e * (i * Second)
      /\ (i * e + i) * Second = (e + 1) * (i * Second)
      /\ a * Second = Second * a /\ (a + 1) * Second = Second * a + Second
    BY <1>1, <1>2, TimeAssumption
<1>6. e * (i * Second) \in Nat /\ (e + 1) * (i * Second) \in Nat /\ Second * a \in Nat
    BY <1>1, <1>2, TimeAssumption
<1>7. e * (i * Second) <= x /\ x < (e + 1) * (i * Second)
    BY <1>1, <1>4, <1>5, <1>6, TimeAssumption
<1> QED
    BY <1>2, <1>7 DEF e, a

\* A period is positive and whole.
LEMMA PeriodFacts ==
    ASSUME NEW trigger, IsSchedule(trigger)
    PROVE  Period(trigger) \in Nat \ {0} /\ Whole(Period(trigger)) /\ Micro <= Period(trigger)
<1>1. trigger.interval_seconds \in Nat \ {0} /\ Second \in Nat \ {0} /\ Whole(Second)
    BY TimeAssumption DEF IsSchedule, Whole
<1>2. Period(trigger) \in Nat \ {0} /\ Whole(Period(trigger))
    BY <1>1, WholeProduct DEF Period
<1>3. PICK q \in Nat : Period(trigger) = Micro * q
    BY <1>2, WholeFacts
<1>4. q # 0
    BY <1>2, <1>3, TimeAssumption
<1>5. Micro * 1 <= Micro * q
    BY <1>4, TimeAssumption, ProductGrows
<1> QED
    BY <1>2, <1>3, <1>5, TimeAssumption

\* A schedule fires after now: an interval later, at its start, or at the
\* first multiple of the interval from its start.
LEMMA FireFacts ==
    ASSUME NEW trigger, IsSchedule(trigger), NEW now \in Nat
    PROVE  LET fire == initial_next_fire(trigger, TRUE, now)
           IN  /\ fire \in Nat /\ now < fire
               /\ trigger.start_at = NoTime => fire = now + Period(trigger)
               /\ trigger.start_at # NoTime /\ now < trigger.start_at => fire = trigger.start_at
               /\ trigger.start_at # NoTime /\ trigger.start_at <= now =>
                    \E k \in Nat : /\ fire = trigger.start_at + (k + 1) * Period(trigger)
                                   /\ trigger.start_at + k * Period(trigger) <= now
<1> DEFINE fire == initial_next_fire(trigger, TRUE, now)
           i == trigger.interval_seconds
           start == trigger.start_at
<1> SUFFICES /\ fire \in Nat /\ now < fire
             /\ start = NoTime => fire = now + Period(trigger)
             /\ start # NoTime /\ now < start => fire = start
             /\ start # NoTime /\ start <= now =>
                    \E k \in Nat : /\ fire = start + (k + 1) * Period(trigger)
                                   /\ start + k * Period(trigger) <= now
    OBVIOUS
<1>1. Period(trigger) \in Nat \ {0} /\ NoTime \notin Int /\ i \in Nat \ {0} /\ Second \in Nat \ {0}
    BY TimeAssumption, PeriodFacts DEF IsSchedule
<1>2. CASE start = NoTime
    <2>1. fire = now + Period(trigger)
        BY <1>2 DEF initial_next_fire, IsSchedule, Period
    <2> HIDE DEF fire, start
    <2> QED
        BY <1>1, <1>2, <2>1
<1>3. CASE start # NoTime /\ now < start
    <2>1. start \in Nat /\ start > now
        BY <1>3 DEF IsSchedule
    <2>2. fire = start
        BY <1>3, <2>1 DEF initial_next_fire, IsSchedule
    <2> HIDE DEF fire, start
    <2> QED
        BY <1>1, <1>3, <2>1, <2>2
<1>4. CASE start # NoTime /\ ~ (now < start)
    <2> DEFINE e == ((now - start) \div Second) \div i
    <2>1. start \in Nat /\ ~ (start > now) /\ now - start \in Nat
        BY <1>4 DEF IsSchedule
    <2>2. fire = start + i * (e + 1) * Second
        BY <1>4, <2>1 DEF initial_next_fire, IsSchedule
    <2>3. e \in Nat /\ e * Period(trigger) <= now - start /\ now - start < (e + 1) * Period(trigger)
        BY <1>1, <2>1, Elapsed DEF Period
    <2> HIDE DEF e, start, fire
    <2>4. i * (e + 1) * Second = (e + 1) * Period(trigger)
        BY <1>1, <2>3 DEF Period
    <2>5. (e + 1) * Period(trigger) \in Nat /\ e * Period(trigger) \in Nat
        BY <1>1, <2>3
    <2>6. fire = start + (e + 1) * Period(trigger) /\ start + e * Period(trigger) <= now
          /\ fire \in Nat /\ now < fire
        BY <2>1, <2>2, <2>3, <2>4, <2>5
    <2> QED
        BY <1>4, <2>1, <2>3, <2>6
<1> QED
    BY <1>2, <1>3, <1>4

\* The start of a schedule, if it has one, is a time of the database.
WholeStart(trigger) == trigger.start_at # NoTime => Whole(trigger.start_at)

\* A schedule with a whole start only fires at whole times.
LEMMA FireIsWhole ==
    ASSUME NEW trigger, IsSchedule(trigger), NEW now \in Nat,
           trigger.start_at # NoTime, WholeStart(trigger)
    PROVE  Whole(initial_next_fire(trigger, TRUE, now))
<1> DEFINE fire == initial_next_fire(trigger, TRUE, now)
           start == trigger.start_at
           P == Period(trigger)
<1>1. start \in Nat /\ Whole(start) /\ P \in Nat /\ Whole(P)
    BY PeriodFacts DEF IsSchedule, WholeStart
<1>2. \/ fire = start
      \/ \E k \in Nat : fire = start + (k + 1) * P
    <2>1. /\ now < start => fire = start
          /\ start <= now => \E k \in Nat : fire = start + (k + 1) * P
        BY FireFacts
    <2> HIDE DEF fire, start, P
    <2> QED
        BY <1>1, <2>1
<1> HIDE DEF fire, start, P
<1>3. ASSUME NEW k \in Nat PROVE Whole(start + (k + 1) * P)
    <2>1. \A j \in Nat : Whole(j * P)
        BY <1>1, WholeProduct
    <2>2. k + 1 \in Nat /\ (k + 1) * P \in Nat
        BY <1>1
    <2>3. Whole((k + 1) * P)
        BY <2>1, <2>2
    <2> QED
        BY <1>1, <2>2, <2>3, WholeSum
<1> QED
    BY <1>1, <1>2, <1>3 DEF fire

\* What the column keeps of the fire time is later than now as well, unless
\* the start is a fraction of a microsecond away.
LEMMA FireIsLater ==
    ASSUME NEW trigger, IsSchedule(trigger), NEW now \in Nat, WholeStart(trigger)
    PROVE  now < PgTime(initial_next_fire(trigger, TRUE, now))
<1> DEFINE fire == initial_next_fire(trigger, TRUE, now)
<1>1. fire \in Nat /\ now < fire /\ (trigger.start_at = NoTime => fire = now + Period(trigger))
    BY FireFacts
<1>2. Period(trigger) \in Nat /\ Micro <= Period(trigger)
    BY PeriodFacts
<1>3. trigger.start_at # NoTime => Whole(fire)
    BY FireIsWhole
<1> HIDE DEF fire
<1>4. PgTime(fire) \in Nat /\ fire < PgTime(fire) + Micro /\ (Whole(fire) => PgTime(fire) = fire)
    BY <1>1, PgTimeFacts, WholeFacts
<1>5. now < PgTime(fire)
    BY <1>1, <1>2, <1>3, <1>4, TimeAssumption
<1> QED
    BY <1>5 DEF fire

\* The times at which the schedule may fire: its start, and multiples of its
\* interval from there.
OnGrid(trigger, t) ==
    trigger.start_at # NoTime => \E k \in Nat : t = trigger.start_at + k * Period(trigger)

\* The next fire time is a start plus a number of periods.
LEMMA FireIsOnGrid ==
    ASSUME NEW trigger, IsSchedule(trigger), NEW now \in Nat
    PROVE  OnGrid(trigger, initial_next_fire(trigger, TRUE, now))
<1> DEFINE fire == initial_next_fire(trigger, TRUE, now)
           start == trigger.start_at
           P == Period(trigger)
<1> SUFFICES ASSUME start # NoTime PROVE \E k \in Nat : fire = start + k * P
    BY DEF OnGrid
<1>1. start \in Nat /\ P \in Nat
    BY PeriodFacts DEF IsSchedule
<1>2. \/ fire = start
      \/ \E k \in Nat : fire = start + (k + 1) * P
    <2>1. /\ now < start => fire = start
          /\ start <= now => \E k \in Nat : fire = start + (k + 1) * P
        BY FireFacts
    <2> HIDE DEF fire, start, P
    <2> QED
        BY <1>1, <2>1
<1> HIDE DEF fire, start, P
<1>3. start = start + 0 * P
    BY <1>1
<1> QED
    BY <1>2, <1>3

\* No fire time is left out: after one that has come, the next is at least an
\* interval away.
LEMMA FireIsBeyond ==
    ASSUME NEW trigger, IsSchedule(trigger), NEW now \in Nat,
           NEW t \in 0..now, OnGrid(trigger, t)
    PROVE  t + Period(trigger) <= initial_next_fire(trigger, TRUE, now)
<1> DEFINE fire == initial_next_fire(trigger, TRUE, now)
           start == trigger.start_at
           P == Period(trigger)
<1> SUFFICES t + P <= fire
    OBVIOUS
<1>1. P \in Nat \ {0} /\ NoTime \notin Int /\ (start # NoTime => start \in Nat)
    BY PeriodFacts, TimeAssumption DEF IsSchedule
<1>2. /\ start = NoTime => fire = now + P
      /\ start # NoTime /\ start <= now => \E k \in Nat : fire = start + (k + 1) * P
      /\ fire \in Nat /\ now < fire
    BY FireFacts
<1>3. start # NoTime => \E k \in Nat : t = start + k * P
    BY DEF OnGrid
<1> HIDE DEF fire, start, P
<1>4. CASE start = NoTime
    BY <1>1, <1>2, <1>4
<1>5. CASE start # NoTime
    <2>1. PICK j \in Nat : t = start + j * P
        BY <1>3, <1>5
    <2>2. j * P \in Nat /\ start \in Nat
        BY <1>1, <1>5
    <2>3. start <= now
        BY <2>1, <2>2
    <2>4. PICK k \in Nat : fire = start + (k + 1) * P
        BY <1>2, <1>5, <2>3
    <2>5. j <= k
        <3> SUFFICES ASSUME k + 1 <= j PROVE FALSE
            OBVIOUS
        <3>1. (k + 1) * P <= j * P /\ (k + 1) * P \in Nat
            BY <1>1, ProductGrows
        <3> QED
            BY <1>2, <2>1, <2>2, <2>4, <3>1
    <2>6. (j + 1) * P <= (k + 1) * P /\ (k + 1) * P \in Nat /\ (j + 1) * P = j * P + P
        BY <1>1, <2>5, ProductGrows
    <2> QED
        BY <1>1, <2>1, <2>2, <2>4, <2>6
<1> QED
    BY <1>4, <1>5

\* The later it is asked, the later is the next fire time.
LEMMA FireGrows ==
    ASSUME NEW trigger, IsSchedule(trigger), NEW now \in Nat, NEW s \in 0..now
    PROVE  initial_next_fire(trigger, TRUE, s) <= initial_next_fire(trigger, TRUE, now)
<1> DEFINE early == initial_next_fire(trigger, TRUE, s)
           late == initial_next_fire(trigger, TRUE, now)
           start == trigger.start_at
           P == Period(trigger)
<1> SUFFICES early <= late
    OBVIOUS
<1>1. P \in Nat \ {0} /\ NoTime \notin Int /\ (start # NoTime => start \in Nat)
    BY PeriodFacts, TimeAssumption DEF IsSchedule
<1>2. /\ early \in Nat /\ s < early
      /\ start = NoTime => early = s + P
      /\ start # NoTime /\ s < start => early = start
      /\ start # NoTime /\ start <= s =>
            \E k \in Nat : early = start + (k + 1) * P /\ start + k * P <= s
    <2>1. s \in Nat
        OBVIOUS
    <2> QED
        BY <2>1, FireFacts
<1>3. /\ late \in Nat /\ now < late
      /\ start = NoTime => late = now + P
      /\ start # NoTime /\ now < start => late = start
    BY FireFacts
<1>4. ASSUME NEW k \in Nat, start # NoTime, start + k * P <= s
      PROVE  start + k * P + P <= late
    <2>1. start + k * P \in 0..now
        BY <1>1, <1>4
    <2>2. OnGrid(trigger, start + k * P)
        BY DEF OnGrid
    <2> QED
        BY <2>1, <2>2, FireIsBeyond
<1> HIDE DEF early, late, start, P
<1>5. CASE start = NoTime
    BY <1>1, <1>2, <1>3, <1>5
<1>6. CASE start # NoTime /\ s < start
    BY <1>1, <1>2, <1>3, <1>6
<1>7. CASE start # NoTime /\ ~ (s < start)
    <2>1. start \in Nat /\ start <= s
        BY <1>1, <1>7
    <2>2. PICK k \in Nat : early = start + (k + 1) * P /\ start + k * P <= s
        BY <1>2, <1>7, <2>1
    <2>3. start + k * P + P <= late
        BY <1>4, <1>7, <2>2
    <2>4. (k + 1) * P = k * P + P /\ k * P \in Nat
        BY <1>1
    <2> QED
        BY <1>1, <1>3, <2>1, <2>2, <2>3, <2>4
<1> QED
    BY <1>5, <1>6, <1>7
===========================================================================
