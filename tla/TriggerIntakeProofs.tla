------------------------ MODULE TriggerIntakeProofs ------------------------
(***************************************************************************)
(* Proofs about TriggerIntake, for any rules, deliveries, keys and number  *)
(* of overlapping deliveries, commands and faults.  IInv is the inductive  *)
(* invariant; its parts say how the keys of stored and uncommitted         *)
(* triggers are kept apart, what a locked row is, and which rules a        *)
(* delivery still has before it.                                           *)
(***************************************************************************)
EXTENDS TriggerIntake, TLAPS

\* The local variables are functions on the processes.
Shapes ==
    /\ DOMAIN delivery = Processes
    /\ trigger_id \in [Processes -> 0..calls]
    /\ DOMAIN found = Processes
    /\ DOMAIN rows = Processes
    /\ DOMAIN answer = Processes
    /\ DOMAIN stable = Processes

\* A delivery in progress has an id of its own, that no stored trigger has.
IdInv ==
    /\ \A p \in Processes : pc[p] # "idle" =>
        /\ trigger_id[p] # 0
        /\ \A t \in triggers : t.id # trigger_id[p]
    /\ \A p, q \in Processes : trigger_id[p] = trigger_id[q] /\ trigger_id[p] # 0 => p = q
    /\ \A t \in triggers : t.id \in 1..calls
    /\ \A t, u \in triggers : t.id = u.id => t = u

\* A key is stored once, and held by one transaction, if it is not stored.
KeyInv ==
    /\ \A t, u \in triggers : t.source = u.source /\ t.dedupe_key = u.dedupe_key => t = u
    /\ \A p \in Processes : Inside(p) => Stored(delivery[p]) = {}
    /\ \A p \in Processes : pc[p] = "duplicate" => Stored(delivery[p]) # {}
    /\ \A p, q \in Processes :
        /\ Inside(p) /\ Inside(q)
        /\ SameTrigger(delivery[p], delivery[q].source, delivery[q].request.dedupe_key)
        => p = q

\* A locked row is the row as it is, and still one that the SELECT finds.
LockInv ==
    \A p \in Processes : \A r \in DOMAIN rows[p] :
        rows[p][r] = rules[r] /\ Selects(delivery[p], r)

\* A trigger has one execution per rule.
ExecutionInv ==
    \A e, f \in executions : e.rule = f.rule /\ e.trigger = f.trigger => e = f

\* An answer is about a stored trigger.
AnswerInv ==
    \A p \in Processes : answer[p].result = "ok" => Stored(delivery[p]) # {}

\* A rule that meets the trigger all the time is found and then locked.
StableInv ==
    \A p \in Processes :
        /\ ~ Inside(p) => stable[p] = {}
        /\ \A r \in stable[p] : r \in RuleIds /\ Meets(delivery[p], r, rules)
        /\ pc[p] = "lock" => stable[p] \subseteq found[p] \cup DOMAIN rows[p]
        /\ pc[p] = "commit" => stable[p] \subseteq DOMAIN rows[p]

\* What is past the checks of the plugin is an allowed and valid delivery.
AdmitInv ==
    \A p \in Processes : pc[p] \notin {"idle", "admit"} =>
        AllowedCaller(delivery[p]) /\ ValidRequest(delivery[p])

\* A timer's rule is there since the INSERT, and locked once it is looked at.
TimerInv ==
    \A p \in Processes : delivery[p].source = "timer" =>
        LET r == delivery[p].request.rule_id
        IN  /\ pc[p] = "lock" /\ Selects(delivery[p], r) => r \in found[p] \cup DOMAIN rows[p]
            /\ pc[p] = "commit" /\ Selects(delivery[p], r) => r \in DOMAIN rows[p]

IInv ==
    /\ TypeOK /\ Shapes
    /\ IdInv /\ KeyInv /\ LockInv /\ ExecutionInv
    /\ AnswerInv /\ AnswerNamesExecutions
    /\ StableInv
    /\ AdmitInv /\ TimerInv

---------------------------------------------------------------------------
(* Lemmas on the operators.                                                *)

\* A rule that meets a delivery is one that its SELECT finds.
LEMMA MeetsSelects ==
    ASSUME NEW d, NEW r, Meets(d, r, rules)
    PROVE  Selects(d, r)
BY DEF Meets, Selects

\* Whether a rule meets a delivery depends on its row only.
LEMMA MeetsFrame ==
    ASSUME NEW d, NEW r, NEW s, NEW t, s[r] = t[r], Meets(d, r, s)
    PROVE  Meets(d, r, t)
BY DEF Meets

\* A locked row that gets an execution meets the delivery.
LEMMA FiresMeets ==
    ASSUME LockInv, NEW p \in Processes, NEW r \in Fires(p)
    PROVE  r \in DOMAIN rows[p] /\ Meets(delivery[p], r, rules)
BY DEF LockInv, Fires, Meets, Selects

\* A locked row that meets the delivery gets an execution.
LEMMA MeetsFires ==
    ASSUME LockInv, NEW p \in Processes, NEW r \in DOMAIN rows[p],
           Meets(delivery[p], r, rules)
    PROVE  r \in Fires(p)
BY DEF LockInv, Fires, Meets

\* The executions that a delivery creates.
LEMMA CreatedFacts ==
    ASSUME NEW p
    PROVE  /\ \A e \in Created(p) :
                /\ e.trigger = trigger_id[p] /\ e.rule \in Fires(p)
                /\ e.revision = rows[p][e.rule].revision
           /\ \A r \in Fires(p) : \E e \in Created(p) : e.rule = r
           /\ \A e, f \in Created(p) : e.rule = f.rule => e = f
<1> DEFINE Of(r) == [trigger |-> trigger_id[p], rule |-> r, revision |-> rows[p][r].revision]
<1>1. Created(p) = {Of(r) : r \in Fires(p)}
    BY DEF Created
<1>2. \A r : /\ Of(r).trigger = trigger_id[p] /\ Of(r).rule = r
             /\ Of(r).revision = rows[p][r].revision
    OBVIOUS
<1> HIDE DEF Of
<1> QED
    BY <1>1, <1>2

\* The trigger that a delivery stores.
LEMMA PublishFacts ==
    ASSUME NEW p, Publish(p)
    PROVE  /\ rules' = rules /\ executions' = executions \cup Created(p)
           /\ \E t : /\ triggers' = triggers \cup {t}
                     /\ t.id = trigger_id[p] /\ t.source = delivery[p].source
                     /\ t.dedupe_key = delivery[p].request.dedupe_key
<1> DEFINE t == [id |-> trigger_id[p], source |-> delivery[p].source,
                 dedupe_key |-> delivery[p].request.dedupe_key]
<1>1. /\ t.id = trigger_id[p] /\ t.source = delivery[p].source
      /\ t.dedupe_key = delivery[p].request.dedupe_key
    OBVIOUS
<1>2. /\ rules' = rules /\ executions' = executions \cup Created(p)
      /\ triggers' = triggers \cup {t}
    BY DEF Publish
<1> HIDE DEF t
<1> QED
    BY <1>1, <1>2

---------------------------------------------------------------------------
(* Preservation, one lemma per part of IInv.                               *)

\* Types, in two halves.
TableType ==
    /\ rules \in [RuleIds -> Rows \cup {NoRow}]
    /\ \A t \in triggers : t.id \in 1..MaxCalls /\ t.source \in {"event", "timer"}
    /\ \A e \in executions : e.rule \in RuleIds /\ \E t \in triggers : t.id = e.trigger

LocalType ==
    /\ pc \in [Processes -> Labels]
    /\ \A p \in Processes :
        /\ pc[p] = "idle" \/ delivery[p] \in Deliveries
        /\ found[p] \subseteq RuleIds
        /\ DOMAIN rows[p] \subseteq RuleIds
        /\ pc[p] \notin {"lock", "commit"} => DOMAIN rows[p] = {}
    /\ calls \in 0..MaxCalls /\ commands \in 0..MaxCommands /\ faults \in 0..MaxFaults

LEMMA TypeHalves == TypeOK <=> TableType /\ LocalType
BY DEF TypeOK, TableType, LocalType

\* Statements that end their delivery without a change of the tables.
Ends(p, result) ==
    /\ pc[p] # "idle"
    /\ Return(p, result)
    /\ result.result = "ok" =>
        /\ pc[p] = "duplicate"
        /\ result.execution_ids = Ids(ExecutionsOf(delivery[p]))
    /\ UNCHANGED <<rules, triggers, executions, calls, commands>>
    /\ faults' \in {faults, faults + 1} /\ faults' <= MaxFaults

\* Statements that commit; the answer may be lost.
Commits(p, result) ==
    /\ pc[p] = "commit"
    /\ Publish(p)
    /\ Return(p, result)
    /\ result.result = "ok" => result.execution_ids = Ids(Created(p))
    /\ UNCHANGED <<calls, commands>>
    /\ faults' \in {faults, faults + 1} /\ faults' <= MaxFaults

\* Statements after which the delivery goes on, and that leave its rows alone.
GoesOn(p) ==
    /\ UNCHANGED <<rules, triggers, executions, delivery, trigger_id, rows, answer,
                   calls, commands, faults>>
    /\ \/ /\ pc[p] = "admit" /\ Goto(p, "insert") /\ UNCHANGED <<found, stable>>
          /\ AllowedCaller(delivery[p]) /\ ValidRequest(delivery[p])
       \/ /\ pc[p] = "insert" /\ ~ InsertWaits(p) /\ UNCHANGED found
          /\ Goto(p, IF Stored(delivery[p]) = {} THEN "select" ELSE "duplicate")
          /\ stable' = [stable EXCEPT ![p] =
                {r \in RuleIds : Stored(delivery[p]) = {} /\ Meets(delivery[p], r, rules)}]
       \/ SelectRules(p)
       \/ RowsLocked(p)

LEMMA Kinds ==
    ASSUME TypeOK, Next
    PROVE  \/ \E p \in Processes : Deliver(p) \/ GoesOn(p)
           \/ \E p \in Processes, r \in RuleIds : LockRow(p, r)
           \/ \E p \in Processes : \E result : Ends(p, result) \/ Commits(p, result)
           \/ \E r \in RuleIds : ChangeRule(r)
<1> DEFINE Goal == \/ \E p \in Processes : Deliver(p) \/ GoesOn(p)
                   \/ \E p \in Processes, r \in RuleIds : LockRow(p, r)
                   \/ \E p \in Processes : \E result : Ends(p, result) \/ Commits(p, result)
                   \/ \E r \in RuleIds : ChangeRule(r)
<1>0. faults \in Nat /\ faults <= MaxFaults /\ MaxFaults \in Nat
    BY IntakeAssumption DEF TypeOK
<1>1. ASSUME NEW p \in Processes, Admit(p) PROVE Goal
    <2>1. ASSUME NEW result, Return(p, result), result.result # "ok" PROVE Ends(p, result)
        BY <1>0, <1>1, <2>1 DEF Admit, Ends, tables
    <2>2. [result |-> "forbidden"].result # "ok" /\ [result |-> "invalid_request"].result # "ok"
        OBVIOUS
    <2>3. ASSUME Goto(p, "insert"), UNCHANGED <<delivery, trigger_id, found, rows, answer, stable>>,
                 AllowedCaller(delivery[p]), ValidRequest(delivery[p])
          PROVE  GoesOn(p)
        BY <1>1, <2>3 DEF Admit, GoesOn, tables
    <2> QED
        BY <1>1, <2>1, <2>2, <2>3 DEF Admit
<1>2. ASSUME NEW p \in Processes, InsertTrigger(p) PROVE Goal
    <2>1. ASSUME NEW result, Return(p, result), result.result # "ok" PROVE Ends(p, result)
        BY <1>0, <1>2, <2>1 DEF InsertTrigger, Ends, tables
    <2>2. [result |-> "runtime"].result # "ok"
        OBVIOUS
    <2>3. CASE delivery[p].source = "timer" /\ rules[delivery[p].request.rule_id] = NoRow
        BY <1>2, <2>1, <2>2, <2>3 DEF InsertTrigger
    <2>4. CASE ~ (delivery[p].source = "timer" /\ rules[delivery[p].request.rule_id] = NoRow)
        BY <1>2, <2>4 DEF InsertTrigger, GoesOn, tables
    <2> QED
        BY <2>3, <2>4
<1>3. ASSUME NEW p \in Processes, ReadDuplicate(p) PROVE Goal
    <2> DEFINE result == Receipt(TRUE, TRUE, Ids(DuplicateOf(delivery[p])))
    <2>1. result.execution_ids = Ids(DuplicateOf(delivery[p]))
        BY DEF Receipt
    <2>2. DuplicateOf(delivery[p]) = ExecutionsOf(delivery[p])
        BY DEF DuplicateOf, ExecutionsOf, Stored, SameTrigger
    <2>3. pc[p] = "duplicate" /\ Return(p, result) /\ UNCHANGED <<tables, calls, commands, faults>>
        BY <1>3 DEF ReadDuplicate
    <2> HIDE DEF result
    <2>4. Ends(p, result)
        BY <1>0, <2>1, <2>2, <2>3 DEF Ends, tables
    <2> QED
        BY <2>4
<1>4. ASSUME NEW p \in Processes, Commit(p) PROVE Goal
    <2> DEFINE result == Receipt(delivery[p].source = "event" \/ Fires(p) # {}, FALSE,
                                 Ids(Created(p)))
    <2>1. result.execution_ids = Ids(Created(p))
        BY DEF Receipt
    <2>2. /\ pc[p] = "commit" /\ Publish(p) /\ Return(p, result)
          /\ UNCHANGED <<calls, commands, faults>>
        BY <1>4 DEF Commit
    <2> HIDE DEF result
    <2>3. Commits(p, result)
        BY <1>0, <2>1, <2>2 DEF Commits
    <2> QED
        BY <2>3
<1>5. ASSUME NEW p \in Processes, Fail(p) PROVE Goal
    <2> DEFINE result == [result |-> "runtime"]
    <2>1. result.result # "ok"
        OBVIOUS
    <2>2. /\ pc[p] # "idle" /\ Return(p, result) /\ UNCHANGED <<calls, commands>>
          /\ faults < MaxFaults /\ faults' = faults + 1
          /\ UNCHANGED tables \/ (pc[p] = "commit" /\ Publish(p))
        BY <1>5 DEF Fail
    <2> HIDE DEF result
    <2>3. Ends(p, result) \/ Commits(p, result)
        BY <1>0, <2>1, <2>2 DEF Ends, Commits, tables
    <2> QED
        BY <2>3
<1>6. ASSUME NEW p \in Processes, SelectRules(p) \/ RowsLocked(p) PROVE GoesOn(p)
    BY <1>6 DEF SelectRules, RowsLocked, GoesOn, tables
<1> QED
    BY <1>1, <1>2, <1>3, <1>4, <1>5, <1>6 DEF Next, Statement

---------------------------------------------------------------------------
(* Preservation, one lemma per part of IInv.                               *)

\* What a command or the advance of a schedule makes of a row.
LEMMA ChangesFacts ==
    ASSUME NEW old \in Rows \cup {NoRow}, NEW new \in Changes(old)
    PROVE  /\ old.state # "deleted"
           /\ new \in Rows
           /\ old.state = "active" =>
                /\ new.revision >= old.revision
                /\ new.revision = old.revision =>
                    /\ new.state = "active"
                    /\ new.enabled = old.enabled
                    /\ new.definition = old.definition
<1> DEFINE Goal == /\ old.state # "deleted"
                   /\ new \in Rows
                   /\ old.state = "active" =>
                        /\ new.revision >= old.revision
                        /\ new.revision = old.revision =>
                            /\ new.state = "active"
                            /\ new.enabled = old.enabled
                            /\ new.definition = old.definition
<1>0. \A b, d : FireTimes(b, d) \subseteq Times \cup {None}
    BY DEF FireTimes
<1>1. CASE old = NoRow
    <2>1. new \in Inserted
        BY <1>1 DEF Changes, NoRow
    <2> QED
        BY <1>1, <2>1 DEF Inserted, Row, Rows, NoRow
<1>2. CASE old \in Rows
    <2>1. old.state = "active" /\ old.revision \in Nat /\ old.definition \in Definitions
        BY <1>2 DEF Changes, Rows
    <2>2. new \in Edited(old) \cup Switched(old) \cup {Removed(old)} \cup Advanced(old)
        BY <2>1 DEF Changes
    <2>3. CASE new \in Edited(old)
        <3>1. PICK d \in Definitions : \E t \in FireTimes(old.enabled, d) :
                    new = Row(old.enabled, d, t, old.revision + 1)
            BY <2>3, Zenon DEF Edited
        <3> QED
            BY <1>0, <1>2, <2>1, <3>1 DEF Row, Rows
    <2>4. CASE new \in Switched(old)
        <3>1. PICK b \in BOOLEAN : \E t \in FireTimes(b, old.definition) :
                    new = Row(b, old.definition, t, old.revision + 1)
            BY <2>4, Zenon DEF Switched
        <3> QED
            BY <1>0, <1>2, <2>1, <3>1 DEF Row, Rows
    <2>5. CASE new = Removed(old)
        <3>1. new = [state |-> "deleted", enabled |-> FALSE, definition |-> old.definition,
                     next_fire_at |-> None, revision |-> old.revision + 1]
            BY <1>2, <2>5 DEF Rows, Removed
        <3>2. new \in Rows
            BY <2>1, <3>1 DEF Rows
        <3> QED
            BY <2>1, <3>1, <3>2
    <2>6. CASE new \in Advanced(old)
        <3>1. PICK t \in Times : new = [old EXCEPT !.next_fire_at = t]
            BY <2>6 DEF Advanced
        <3> QED
            BY <1>2, <2>1, <3>1 DEF Rows
    <2> QED
        BY <2>2, <2>3, <2>4, <2>5, <2>6
<1> QED
    BY <1>1, <1>2

LEMMA TableStep == TypeOK /\ Shapes /\ IdInv /\ Next => TableType'
<1> SUFFICES ASSUME TypeOK, Shapes, IdInv, Next PROVE TableType'
    OBVIOUS
<1> USE IntakeAssumption DEF TypeOK, TableType
<1>1. ASSUME NEW p \in Processes, Deliver(p) \/ GoesOn(p) PROVE TableType'
    BY <1>1 DEF Deliver, GoesOn, tables
<1>2. ASSUME NEW p \in Processes, NEW r \in RuleIds, LockRow(p, r) PROVE TableType'
    BY <1>2 DEF LockRow, tables
<1>3. ASSUME NEW p \in Processes, NEW result, Ends(p, result) PROVE TableType'
    BY <1>3 DEF Ends
<1>4. ASSUME NEW p \in Processes, NEW result, Commits(p, result) PROVE TableType'
    <2>1. trigger_id[p] \in 1..MaxCalls /\ delivery[p].source \in {"event", "timer"}
        BY <1>4 DEF IdInv, Commits, Shapes
    <2>2. \A r \in Fires(p) : r \in RuleIds
        BY DEF Fires
    <2>3. PICK t : /\ triggers' = triggers \cup {t}
                   /\ t.id = trigger_id[p] /\ t.source = delivery[p].source
        BY <1>4, PublishFacts DEF Commits
    <2>4. executions' = executions \cup Created(p) /\ rules' = rules
        BY <1>4, PublishFacts DEF Commits
    <2>5. \A e \in Created(p) : e.trigger = trigger_id[p] /\ e.rule \in RuleIds
        BY <2>2, CreatedFacts
    <2> QED
        BY <2>1, <2>3, <2>4, <2>5
<1>5. ASSUME NEW r \in RuleIds, ChangeRule(r) PROVE TableType'
    <2>1. PICK new \in Changes(rules[r]) : rules' = [rules EXCEPT ![r] = new]
        BY <1>5 DEF ChangeRule
    <2>2. new \in Rows
        BY <2>1, ChangesFacts
    <2> QED
        BY <1>5, <2>1, <2>2 DEF ChangeRule
<1> QED
    BY <1>1, <1>2, <1>3, <1>4, <1>5, Kinds

LEMMA LocalStep == TypeOK /\ Shapes /\ Next => LocalType' /\ Shapes'
<1> SUFFICES ASSUME TypeOK, Shapes, Next PROVE LocalType' /\ Shapes'
    OBVIOUS
<1> USE IntakeAssumption DEF TypeOK, LocalType, Shapes, Labels
<1>1. ASSUME NEW p \in Processes, Deliver(p) PROVE LocalType' /\ Shapes'
    BY <1>1 DEF Deliver, Goto
<1>2. ASSUME NEW p \in Processes, GoesOn(p) PROVE LocalType' /\ Shapes'
    BY <1>2 DEF GoesOn, SelectRules, RowsLocked, Goto
<1>3. ASSUME NEW p \in Processes, NEW r \in RuleIds, LockRow(p, r)
      PROVE  LocalType' /\ Shapes'
    BY <1>3 DEF LockRow
<1>4. ASSUME NEW p \in Processes, NEW result, Ends(p, result) \/ Commits(p, result)
      PROVE  LocalType' /\ Shapes'
    <2>1. Return(p, result) /\ calls' = calls /\ commands' = commands /\ faults' \in 0..MaxFaults
        BY <1>4 DEF Ends, Commits
    <2> QED
        BY <2>1 DEF Return, Goto
<1>5. ASSUME NEW r \in RuleIds, ChangeRule(r) PROVE LocalType' /\ Shapes'
    BY <1>5 DEF ChangeRule
<1> QED
    BY <1>1, <1>2, <1>3, <1>4, <1>5, Kinds

LEMMA IdStep == TypeOK /\ Shapes /\ IdInv /\ Next => IdInv'
<1> SUFFICES ASSUME TypeOK, Shapes, IdInv, Next PROVE IdInv'
    OBVIOUS
<1> USE IntakeAssumption DEF TypeOK, Shapes, IdInv, Labels
<1>1. ASSUME NEW p \in Processes, Deliver(p) PROVE IdInv'
    BY <1>1 DEF Deliver, Goto, tables
<1>2. ASSUME NEW p \in Processes, GoesOn(p) PROVE IdInv'
    BY <1>2 DEF GoesOn, SelectRules, RowsLocked, Goto
<1>3. ASSUME NEW p \in Processes, NEW r \in RuleIds, LockRow(p, r) PROVE IdInv'
    BY <1>3 DEF LockRow, tables
<1>4. ASSUME NEW p \in Processes, NEW result, Ends(p, result) PROVE IdInv'
    BY <1>4 DEF Ends, Return, Goto
<1>5. ASSUME NEW p \in Processes, NEW result, Commits(p, result) PROVE IdInv'
    <2>1. PICK t : triggers' = triggers \cup {t} /\ t.id = trigger_id[p]
        BY <1>5, PublishFacts DEF Commits
    <2>2. /\ pc[p] = "commit" /\ pc' = [pc EXCEPT ![p] = "idle"]
          /\ trigger_id' = trigger_id /\ calls' = calls
        BY <1>5 DEF Commits, Return, Goto
    <2> QED
        BY <2>1, <2>2
<1>6. ASSUME NEW r \in RuleIds, ChangeRule(r) PROVE IdInv'
    BY <1>6 DEF ChangeRule
<1> QED
    BY <1>1, <1>2, <1>3, <1>4, <1>5, <1>6, Kinds

LEMMA KeyStep == TypeOK /\ Shapes /\ KeyInv /\ Next => KeyInv'
<1> SUFFICES ASSUME TypeOK, Shapes, KeyInv, Next PROVE KeyInv'
    OBVIOUS
<1> USE DEF TypeOK, Shapes, KeyInv, Labels, Inside
<1>1. ASSUME NEW p \in Processes, Deliver(p) PROVE KeyInv'
    BY <1>1 DEF Deliver, Goto, tables, Stored, SameTrigger
<1>2. ASSUME NEW p \in Processes, GoesOn(p) PROVE KeyInv'
    <2>1. delivery' = delivery /\ triggers' = triggers
        BY <1>2 DEF GoesOn
    <2>2. \A q \in Processes : Stored(delivery[q])' = Stored(delivery[q])
        BY <2>1 DEF Stored, SameTrigger
    <2>3. CASE pc[p] = "insert" /\ ~ InsertWaits(p)
                /\ Goto(p, IF Stored(delivery[p]) = {} THEN "select" ELSE "duplicate")
        BY <2>1, <2>2, <2>3 DEF Goto, InsertWaits, SameTrigger
    <2>4. CASE \/ pc[p] = "admit" /\ Goto(p, "insert")
               \/ SelectRules(p) \/ RowsLocked(p)
        BY <2>1, <2>2, <2>4 DEF Goto, SelectRules, RowsLocked, SameTrigger
    <2> QED
        BY <1>2, <2>3, <2>4 DEF GoesOn
<1>3. ASSUME NEW p \in Processes, NEW r \in RuleIds, LockRow(p, r) PROVE KeyInv'
    BY <1>3 DEF LockRow, tables, Stored, SameTrigger
<1>4. ASSUME NEW p \in Processes, NEW result, Ends(p, result) PROVE KeyInv'
    BY <1>4 DEF Ends, Return, Goto, Stored, SameTrigger
<1>5. ASSUME NEW p \in Processes, NEW result, Commits(p, result) PROVE KeyInv'
    <2>1. PICK t : /\ triggers' = triggers \cup {t}
                   /\ t.source = delivery[p].source
                   /\ t.dedupe_key = delivery[p].request.dedupe_key
        BY <1>5, PublishFacts DEF Commits
    <2>2. pc[p] = "commit" /\ pc' = [pc EXCEPT ![p] = "idle"] /\ delivery' = delivery
        BY <1>5 DEF Commits, Return, Goto
    <2> QED
        BY <2>1, <2>2 DEF Stored, SameTrigger
<1>6. ASSUME NEW r \in RuleIds, ChangeRule(r) PROVE KeyInv'
    BY <1>6 DEF ChangeRule, Stored, SameTrigger
<1> QED
    BY <1>1, <1>2, <1>3, <1>4, <1>5, <1>6, Kinds

LEMMA LockStep == TypeOK /\ Shapes /\ LockInv /\ Next => LockInv'
<1> SUFFICES ASSUME TypeOK, Shapes, LockInv, Next PROVE LockInv'
    OBVIOUS
<1> USE DEF TypeOK, Shapes, LockInv, Labels
<1>1. ASSUME NEW p \in Processes, Deliver(p) PROVE LockInv'
    BY <1>1 DEF Deliver, tables, Selects
<1>2. ASSUME NEW p \in Processes, GoesOn(p) PROVE LockInv'
    BY <1>2 DEF GoesOn, Selects
<1>3. ASSUME NEW p \in Processes, NEW r \in RuleIds, LockRow(p, r) PROVE LockInv'
    BY <1>3 DEF LockRow, tables, Requalifies, Selects
<1>4. ASSUME NEW p \in Processes, NEW result, Ends(p, result) \/ Commits(p, result)
      PROVE  LockInv'
    <2>1. rules' = rules /\ delivery' = delivery /\ rows' = [rows EXCEPT ![p] = <<>>]
        BY <1>4 DEF Ends, Commits, Publish, Return
    <2>2. DOMAIN rows'[p] = {}
        BY <2>1
    <2> QED
        BY <2>1, <2>2 DEF Selects
<1>5. ASSUME NEW r \in RuleIds, ChangeRule(r) PROVE LockInv'
    <2>1. \A p \in Processes : \A q \in DOMAIN rows[p] : q # r /\ rules'[q] = rules[q]
        BY <1>5 DEF ChangeRule, SharedLock
    <2>2. rows' = rows /\ delivery' = delivery
        BY <1>5 DEF ChangeRule
    <2> QED
        BY <2>1, <2>2 DEF Selects
<1> QED
    BY <1>1, <1>2, <1>3, <1>4, <1>5, Kinds

LEMMA ExecutionStep == TypeOK /\ Shapes /\ IdInv /\ ExecutionInv /\ Next => ExecutionInv'
<1> SUFFICES ASSUME TypeOK, Shapes, IdInv, ExecutionInv, Next PROVE ExecutionInv'
    OBVIOUS
<1> USE DEF ExecutionInv
<1>1. ASSUME executions' = executions PROVE ExecutionInv'
    BY <1>1
<1>2. ASSUME NEW p \in Processes, NEW result, Commits(p, result) PROVE ExecutionInv'
    <2>1. executions' = executions \cup Created(p) /\ pc[p] = "commit"
        BY <1>2, PublishFacts DEF Commits
    <2>2. \A e \in executions : e.trigger # trigger_id[p]
        BY <2>1 DEF TypeOK, IdInv
    <2> QED
        BY <2>1, <2>2, CreatedFacts
<1> QED
    BY <1>1, <1>2, Kinds DEF Deliver, GoesOn, LockRow, Ends, ChangeRule, tables

LEMMA AnswerStep ==
    TypeOK /\ Shapes /\ IdInv /\ KeyInv /\ AnswerInv /\ AnswerNamesExecutions /\ Next
        => AnswerInv' /\ AnswerNamesExecutions'
<1> SUFFICES ASSUME TypeOK, Shapes, IdInv, KeyInv, AnswerInv, AnswerNamesExecutions, Next
             PROVE  AnswerInv' /\ AnswerNamesExecutions'
    OBVIOUS
<1> USE DEF Shapes, AnswerInv, AnswerNamesExecutions
<1>1. ASSUME NEW p \in Processes, Deliver(p) PROVE AnswerInv' /\ AnswerNamesExecutions'
    <2>1. NoAnswer.result # "ok"
        BY DEF NoAnswer
    <2> HIDE DEF NoAnswer
    <2> QED
        BY <1>1, <2>1 DEF Deliver, tables, Stored, ExecutionsOf, SameTrigger
<1>2. ASSUME triggers' = triggers, executions' = executions, delivery' = delivery,
             answer' = answer
      PROVE  AnswerInv' /\ AnswerNamesExecutions'
    BY <1>2 DEF Stored, ExecutionsOf, SameTrigger
<1>3. ASSUME NEW p \in Processes, NEW result, Ends(p, result)
      PROVE  AnswerInv' /\ AnswerNamesExecutions'
    <2>1. /\ triggers' = triggers /\ executions' = executions /\ delivery' = delivery
          /\ answer' = [answer EXCEPT ![p] = result]
        BY <1>3 DEF Ends, Return
    <2>2. \A q : Stored(delivery[q])' = Stored(delivery[q])
               /\ ExecutionsOf(delivery[q])' = ExecutionsOf(delivery[q])
        BY <2>1 DEF Stored, ExecutionsOf, SameTrigger
    <2>3. result.result = "ok" => /\ Stored(delivery[p]) # {}
                                  /\ result.execution_ids = Ids(ExecutionsOf(delivery[p]))
        BY <1>3 DEF Ends, KeyInv
    <2> HIDE DEF Stored
    <2> QED
        BY <2>1, <2>2, <2>3
<1>4. ASSUME NEW p \in Processes, NEW result, Commits(p, result)
      PROVE  AnswerInv' /\ AnswerNamesExecutions'
    <2>1. PICK t : /\ triggers' = triggers \cup {t}
                   /\ t.id = trigger_id[p] /\ t.source = delivery[p].source
                   /\ t.dedupe_key = delivery[p].request.dedupe_key
        BY <1>4, PublishFacts DEF Commits
    <2>2. /\ executions' = executions \cup Created(p) /\ pc[p] = "commit"
          /\ delivery' = delivery /\ answer' = [answer EXCEPT ![p] = result]
          /\ result.result = "ok" => result.execution_ids = Ids(Created(p))
        BY <1>4, PublishFacts DEF Commits, Return
    <2>3. Stored(delivery[p]) = {} /\ \A u \in triggers : u.id # trigger_id[p]
        BY <2>2 DEF KeyInv, Inside, IdInv
    <2>4. ExecutionsOf(delivery[p])' = Created(p)
        <3>1. \A e \in executions : e.trigger # t.id
            BY <2>1, <2>3 DEF TypeOK
        <3> QED
            BY <2>1, <2>2, <2>3, <3>1, CreatedFacts DEF ExecutionsOf, Stored, SameTrigger
    <2>5. t \in Stored(delivery[p])'
        BY <2>1, <2>2 DEF Stored, SameTrigger
    <2>6. ASSUME NEW q \in Processes, Stored(delivery[q]) # {}
          PROVE  /\ Stored(delivery[q])' # {}
                 /\ ExecutionsOf(delivery[q])' = ExecutionsOf(delivery[q])
        <3>1. ~ SameTrigger(delivery[q], t.source, t.dedupe_key)
            BY <2>1, <2>3, <2>6 DEF Stored, SameTrigger
        <3>2. \A e \in Created(p) : \A u \in triggers : u.id # e.trigger
            BY <2>3, CreatedFacts
        <3>3. \A e \in executions : e.trigger # t.id
            BY <2>1, <2>3 DEF TypeOK
        <3>4. \A e \in ExecutionsOf(delivery[q])' : e \in ExecutionsOf(delivery[q])
            BY <2>1, <2>2, <3>1, <3>2, <3>3 DEF ExecutionsOf, SameTrigger
        <3>5. \A e \in ExecutionsOf(delivery[q]) : e \in ExecutionsOf(delivery[q])'
            BY <2>1, <2>2 DEF ExecutionsOf
        <3>6. Stored(delivery[q])' # {}
            BY <2>1, <2>2, <2>6 DEF Stored, SameTrigger
        <3> QED
            BY <3>4, <3>5, <3>6
    <2>7. ASSUME NEW q \in Processes, answer'[q].result = "ok"
          PROVE  /\ Stored(delivery[q])' # {}
                 /\ answer'[q].execution_ids = Ids(ExecutionsOf(delivery[q]))'
        <3>1. CASE q = p
            BY <2>2, <2>4, <2>5, <2>7, <3>1 DEF Ids
        <3>2. CASE q # p
            BY <2>2, <2>6, <2>7, <3>2 DEF Ids
        <3> QED
            BY <3>1, <3>2
    <2> QED
        BY <2>7, <2>2
<1> QED
    BY <1>1, <1>2, <1>3, <1>4, Kinds DEF GoesOn, LockRow, ChangeRule, tables

LEMMA StableStep == TypeOK /\ Shapes /\ LockInv /\ StableInv /\ Next => StableInv'
<1> SUFFICES ASSUME TypeOK, Shapes, LockInv, StableInv, Next PROVE StableInv'
    OBVIOUS
<1> USE DEF Shapes, StableInv, Inside
<1>1. ASSUME NEW p \in Processes, Deliver(p) PROVE StableInv'
    <2>1. /\ pc[p] = "idle" /\ pc' = [pc EXCEPT ![p] = "admit"] /\ stable' = stable
          /\ rules' = rules /\ found' = found /\ rows' = rows
          /\ \A q \in Processes : q # p => delivery'[q] = delivery[q]
        BY <1>1 DEF Deliver, Goto, tables
    <2> QED
        BY <2>1, MeetsFrame DEF TypeOK
<1>2. ASSUME NEW p \in Processes, GoesOn(p) PROVE StableInv'
    <2>1. rules' = rules /\ delivery' = delivery /\ rows' = rows
        BY <1>2 DEF GoesOn
    <2>2. CASE pc[p] = "admit" /\ Goto(p, "insert") /\ UNCHANGED <<found, stable>>
        BY <2>1, <2>2 DEF Goto, TypeOK
    <2>3. CASE /\ pc[p] = "insert" /\ UNCHANGED found
               /\ Goto(p, IF Stored(delivery[p]) = {} THEN "select" ELSE "duplicate")
               /\ stable' = [stable EXCEPT ![p] =
                    {r \in RuleIds : Stored(delivery[p]) = {} /\ Meets(delivery[p], r, rules)}]
        BY <2>1, <2>3 DEF Goto, TypeOK
    <2>4. CASE SelectRules(p)
        <3>1. \A r \in stable[p] : r \in RuleIds /\ Selects(delivery[p], r)
            BY MeetsSelects
        <3> QED
            BY <2>1, <2>4, <3>1 DEF SelectRules, Goto, TypeOK
    <2>5. CASE RowsLocked(p)
        BY <2>1, <2>5 DEF RowsLocked, Goto, TypeOK
    <2> QED
        BY <1>2, <2>2, <2>3, <2>4, <2>5 DEF GoesOn
<1>3. ASSUME NEW p \in Processes, NEW r \in RuleIds, LockRow(p, r) PROVE StableInv'
    <2>1. /\ rules' = rules /\ delivery' = delivery /\ stable' = stable /\ pc' = pc
          /\ pc[p] = "lock" /\ found' = [found EXCEPT ![p] = found[p] \ {r}]
          /\ \A q \in Processes : q # p => rows'[q] = rows[q]
          /\ DOMAIN rows[p] \subseteq DOMAIN rows'[p]
          /\ Selects(delivery[p], r) => r \in DOMAIN rows'[p]
        BY <1>3 DEF LockRow, tables, Requalifies
    <2>2. r \in stable[p] => Selects(delivery[p], r)
        BY MeetsSelects
    <2> QED
        BY <2>1, <2>2
<1>4. ASSUME NEW p \in Processes, NEW result, Ends(p, result) \/ Commits(p, result)
      PROVE  StableInv'
    <2>1. /\ rules' = rules /\ delivery' = delivery
          /\ stable' = [stable EXCEPT ![p] = {}] /\ pc' = [pc EXCEPT ![p] = "idle"]
          /\ \A q \in Processes : q # p => rows'[q] = rows[q] /\ found'[q] = found[q]
        BY <1>4 DEF Ends, Commits, Publish, Return, Goto
    <2> QED
        BY <2>1 DEF TypeOK
<1>5. ASSUME NEW r \in RuleIds, ChangeRule(r) PROVE StableInv'
    BY <1>5 DEF ChangeRule
<1> QED
    BY <1>1, <1>2, <1>3, <1>4, <1>5, Kinds

LEMMA AdmitStep == TypeOK /\ Shapes /\ AdmitInv /\ Next => AdmitInv'
<1> SUFFICES ASSUME TypeOK, Shapes, AdmitInv, Next PROVE AdmitInv'
    OBVIOUS
<1> USE DEF TypeOK, Shapes, AdmitInv, AllowedCaller, ValidRequest
<1>1. ASSUME NEW p \in Processes, Deliver(p) PROVE AdmitInv'
    BY <1>1 DEF Deliver, Goto
<1>2. ASSUME NEW p \in Processes, GoesOn(p) PROVE AdmitInv'
    BY <1>2 DEF GoesOn, SelectRules, RowsLocked, Goto
<1>3. ASSUME NEW p \in Processes, NEW r \in RuleIds, LockRow(p, r) PROVE AdmitInv'
    BY <1>3 DEF LockRow
<1>4. ASSUME NEW p \in Processes, NEW result, Ends(p, result) \/ Commits(p, result)
      PROVE  AdmitInv'
    BY <1>4 DEF Ends, Commits, Return, Goto
<1>5. ASSUME NEW r \in RuleIds, ChangeRule(r) PROVE AdmitInv'
    BY <1>5 DEF ChangeRule
<1> QED
    BY <1>1, <1>2, <1>3, <1>4, <1>5, Kinds

LEMMA TimerStep == TypeOK /\ Shapes /\ TimerInv /\ Next => TimerInv'
<1> SUFFICES ASSUME TypeOK, Shapes, TimerInv, Next PROVE TimerInv'
    OBVIOUS
<1> USE DEF Shapes, TimerInv
<1>1. ASSUME NEW p \in Processes, Deliver(p) PROVE TimerInv'
    <2>1. /\ pc[p] = "idle" /\ pc' = [pc EXCEPT ![p] = "admit"]
          /\ rules' = rules /\ found' = found /\ rows' = rows
          /\ \A q \in Processes : q # p => delivery'[q] = delivery[q]
        BY <1>1 DEF Deliver, Goto, tables
    <2> QED
        BY <2>1 DEF TypeOK, Selects
<1>2. ASSUME NEW p \in Processes, GoesOn(p) PROVE TimerInv'
    <2>1. rules' = rules /\ delivery' = delivery /\ rows' = rows
        BY <1>2 DEF GoesOn
    <2>2. CASE SelectRules(p)
        <3>1. delivery[p].source = "timer" => delivery[p].request.rule_id \in RuleIds
            BY <2>2, IntakeAssumption DEF SelectRules, TypeOK
        <3> QED
            BY <2>1, <2>2, <3>1 DEF SelectRules, Goto, TypeOK, Selects
    <2>3. CASE RowsLocked(p)
        BY <2>1, <2>3 DEF RowsLocked, Goto, TypeOK, Selects
    <2>4. CASE /\ found' = found /\ pc[p] \in {"admit", "insert"}
               /\ \E l \in {"insert", "select", "duplicate"} : Goto(p, l)
        BY <2>1, <2>4 DEF Goto, TypeOK, Selects
    <2> QED
        BY <1>2, <2>2, <2>3, <2>4 DEF GoesOn
<1>3. ASSUME NEW p \in Processes, NEW r \in RuleIds, LockRow(p, r) PROVE TimerInv'
    <2>1. /\ rules' = rules /\ delivery' = delivery /\ pc' = pc
          /\ pc[p] = "lock" /\ found' = [found EXCEPT ![p] = found[p] \ {r}]
          /\ \A q \in Processes : q # p => rows'[q] = rows[q]
          /\ DOMAIN rows[p] \subseteq DOMAIN rows'[p]
          /\ Selects(delivery[p], r) => r \in DOMAIN rows'[p]
        BY <1>3 DEF LockRow, tables, Requalifies
    <2> QED
        BY <2>1 DEF Selects
<1>4. ASSUME NEW p \in Processes, NEW result, Ends(p, result) \/ Commits(p, result)
      PROVE  TimerInv'
    <2>1. /\ rules' = rules /\ delivery' = delivery /\ pc' = [pc EXCEPT ![p] = "idle"]
          /\ \A q \in Processes : q # p => rows'[q] = rows[q] /\ found'[q] = found[q]
        BY <1>4 DEF Ends, Commits, Publish, Return, Goto
    <2> QED
        BY <2>1 DEF TypeOK, Selects
<1>5. ASSUME NEW r \in RuleIds, ChangeRule(r) PROVE TimerInv'
    <2>1. /\ pc' = pc /\ delivery' = delivery /\ found' = found /\ rows' = rows
          /\ \A s \in RuleIds : s # r => rules'[s] = rules[s]
        BY <1>5 DEF ChangeRule, TypeOK
    <2>2. ASSUME NEW p \in Processes, pc[p] \in {"lock", "commit"},
                 delivery[p].source = "timer"
          PROVE  /\ delivery[p].request.rule_id \in RuleIds
                 /\ delivery[p].request.rule_id # r
        BY <1>5, <2>2, IntakeAssumption DEF ChangeRule, SharedLock, Inside, TypeOK
    <2> QED
        BY <2>1, <2>2 DEF Selects
<1> QED
    BY <1>1, <1>2, <1>3, <1>4, <1>5, Kinds

---------------------------------------------------------------------------
(* The invariant and the theorems.                                         *)

LEMMA Start == Init => IInv
<1> SUFFICES ASSUME Init PROVE IInv
    OBVIOUS
<1>1. NoAnswer.result # "ok"
    BY DEF NoAnswer
<1> HIDE DEF NoAnswer
<1>2. TypeOK /\ Shapes
    BY IntakeAssumption DEF Init, TypeOK, Shapes, Labels
<1>3. IdInv /\ KeyInv /\ LockInv /\ ExecutionInv /\ StableInv
    BY DEF Init, IdInv, KeyInv, LockInv, ExecutionInv, StableInv, Inside
<1>4. AnswerInv /\ AnswerNamesExecutions
    BY <1>1 DEF Init, AnswerInv, AnswerNamesExecutions
<1>5. AdmitInv /\ TimerInv
    BY DEF Init, AdmitInv, TimerInv
<1> QED
    BY <1>2, <1>3, <1>4, <1>5 DEF IInv

LEMMA Stutter == IInv /\ UNCHANGED vars => IInv'
<1> SUFFICES ASSUME IInv, UNCHANGED vars PROVE IInv'
    OBVIOUS
<1> USE DEF IInv, vars, tables, local
<1>1. TypeOK' /\ Shapes'
    BY DEF TypeOK, Shapes
<1>2. IdInv' /\ KeyInv' /\ LockInv' /\ ExecutionInv'
    BY DEF IdInv, KeyInv, LockInv, ExecutionInv, Inside, Stored, SameTrigger, Selects
<1>3. AnswerInv' /\ AnswerNamesExecutions'
    BY DEF AnswerInv, AnswerNamesExecutions, Stored, ExecutionsOf, SameTrigger
<1>4. StableInv'
    BY DEF StableInv, Inside
<1>5. AdmitInv' /\ TimerInv'
    BY DEF AdmitInv, TimerInv, Selects
<1> QED
    BY <1>1, <1>2, <1>3, <1>4, <1>5

LEMMA Step == IInv /\ [Next]_vars => IInv'
<1>1. ASSUME IInv, Next PROVE IInv'
    BY <1>1, TypeHalves, TableStep, LocalStep, IdStep, KeyStep, LockStep, ExecutionStep,
       AnswerStep, StableStep, AdmitStep, TimerStep, PTL DEF IInv
<1> QED
    BY <1>1, Stutter

\* Only a commit creates executions.
LEMMA OnlyCommits ==
    ASSUME IInv, Next, triggers' # triggers \/ executions' # executions
    PROVE  \E p \in Processes : \E result : Commits(p, result)
BY Kinds DEF IInv, Deliver, GoesOn, LockRow, Ends, ChangeRule, tables

\* What a commit adds to the executions.
LEMMA Added ==
    ASSUME IInv, NEW p \in Processes, NEW result, Commits(p, result)
    PROVE  executions' \ executions = Created(p)
<1>1. executions' = executions \cup Created(p) /\ pc[p] = "commit"
    BY PublishFacts DEF Commits
<1>2. \A e \in executions : e.trigger # trigger_id[p]
    BY <1>1 DEF IInv, TypeOK, IdInv
<1> QED
    BY <1>1, <1>2, CreatedFacts

\* Types.
THEOREM TypeCorrect == Spec => []TypeOK
<1>1. IInv => TypeOK
    BY DEF IInv
<1> QED
    BY Start, Step, <1>1, PTL DEF Spec

\* OneExecutionPerRule: an event or a timer makes at most one execution of a
\* rule, however often and however concurrently receive_event and
\* receive_timer are called with it.
THEOREM OneExecution == Spec => []OneExecutionPerRule
<1>1. IInv => OneExecutionPerRule
    <2> SUFFICES ASSUME IInv,
                        NEW e \in executions, NEW f \in executions, e.rule = f.rule,
                        NEW t \in triggers, NEW u \in triggers,
                        t.id = e.trigger, u.id = f.trigger,
                        t.source = u.source, t.dedupe_key = u.dedupe_key
                 PROVE  e = f
        BY DEF OneExecutionPerRule
    <2>1. t = u
        BY DEF IInv, KeyInv
    <2> QED
        BY <2>1 DEF IInv, ExecutionInv
<1> QED
    BY Start, Step, <1>1, PTL DEF Spec

\* AnswerNamesExecutions: a first answer and the answer to a duplicate name
\* all the executions of their trigger, and stay true.
THEOREM AnswersNameExecutions == Spec => []AnswerNamesExecutions
<1>1. IInv => AnswerNamesExecutions
    BY DEF IInv
<1> QED
    BY Start, Step, <1>1, PTL DEF Spec

\* The steps that CommitIsCurrent and StableRuleFires allow.
CurrentStep ==
    \A e \in executions' \ executions :
        /\ rules[e.rule].revision = e.revision
        /\ \E p \in Processes :
            trigger_id[p] = e.trigger /\ Meets(delivery[p], e.rule, rules)
StableRulesFire ==
    \A p \in Processes :
        (\E t \in triggers' \ triggers : t.id = trigger_id[p]) =>
            stable[p] \subseteq {e.rule : e \in executions' \ executions}

\* CommitIsCurrent: what is matched under FOR SHARE is still so at the commit.
THEOREM CommitsAreCurrent == Spec => CommitIsCurrent
<1>1. IInv /\ [Next]_vars => [CurrentStep]_vars
    <2> SUFFICES ASSUME IInv, Next, NEW e \in executions' \ executions
                 PROVE  /\ rules[e.rule].revision = e.revision
                        /\ \E p \in Processes :
                            trigger_id[p] = e.trigger /\ Meets(delivery[p], e.rule, rules)
        BY DEF CurrentStep
    <2>1. PICK p \in Processes : \E result : Commits(p, result)
        BY OnlyCommits
    <2>2. e \in Created(p)
        BY <2>1, Added
    <2>3. /\ e.trigger = trigger_id[p] /\ e.rule \in Fires(p)
          /\ e.revision = rows[p][e.rule].revision
        BY <2>2, CreatedFacts
    <2>4. e.rule \in DOMAIN rows[p] /\ Meets(delivery[p], e.rule, rules)
        BY <2>3, FiresMeets DEF IInv
    <2> QED
        BY <2>3, <2>4 DEF IInv, LockInv
<1>2. CommitIsCurrent <=> [][CurrentStep]_vars
    BY DEF CommitIsCurrent, CurrentStep
<1> QED
    BY Start, Step, <1>1, <1>2, PTL DEF Spec

\* StableRuleFires: a rule that meets the trigger all the time is not
\* overlooked by the snapshot and the locks of the SELECT.
THEOREM StableRulesAreFound == Spec => StableRuleFires
<1>1. IInv /\ [Next]_vars => [StableRulesFire]_vars
    <2> SUFFICES ASSUME IInv, Next, NEW p \in Processes,
                        NEW t \in triggers' \ triggers, t.id = trigger_id[p],
                        NEW r \in stable[p]
                 PROVE  \E e \in executions' \ executions : e.rule = r
        BY DEF StableRulesFire
    <2>1. PICK q \in Processes : \E result : Commits(q, result)
        BY OnlyCommits
    <2>2. pc[q] = "commit" /\ \E u : triggers' = triggers \cup {u} /\ u.id = trigger_id[q]
        BY <2>1, PublishFacts DEF Commits
    <2>3. p = q
        BY <2>2 DEF IInv, IdInv
    <2>4. r \in DOMAIN rows[p] /\ Meets(delivery[p], r, rules)
        BY <2>2, <2>3 DEF IInv, StableInv
    <2>5. r \in Fires(p)
        BY <2>4, MeetsFires DEF IInv
    <2> QED
        BY <2>1, <2>3, <2>5, CreatedFacts, Added
<1>2. StableRuleFires <=> [][StableRulesFire]_vars
    BY DEF StableRuleFires, StableRulesFire
<1> QED
    BY Start, Step, <1>1, <1>2, PTL DEF Spec

---------------------------------------------------------------------------
(* The refinement of IntakeContract.                                       *)

\* The contract speaks of deliveries and rules as the component does.
LEMMA SameWords ==
    /\ \A d : Contract!AllowedCaller(d) <=> AllowedCaller(d)
    /\ \A d : Contract!ValidRequest(d) <=> ValidRequest(d)
    /\ \A d, r, table : Contract!Meets(d, r, table) <=> Meets(d, r, table)
    /\ Contract!Rows = Rows
<1>1. \A d : Contract!AllowedCaller(d) <=> AllowedCaller(d)
    BY Zenon DEF Contract!AllowedCaller, AllowedCaller
<1>2. \A e : Contract!valid_event(e) <=> valid_event(e)
    BY Zenon DEF Contract!valid_event, valid_event, Contract!parse_time_is_ok, parse_time_is_ok,
       Contract!valid_id, valid_id, Contract!valid_labels, valid_labels,
       Contract!IssueEvents, IssueEvents
<1>3. \A d : Contract!ValidRequest(d) <=> ValidRequest(d)
    BY <1>2, Zenon DEF Contract!ValidRequest, ValidRequest,
       Contract!parse_time_is_ok, parse_time_is_ok
<1>4. \A e, f, v : Contract!HasValue(e, f, v) = HasValue(e, f, v)
    BY Zenon DEF Contract!HasValue, HasValue
<1>5. \A c, e : Contract!conditions_match(c, e) <=> conditions_match(c, e)
    BY <1>4, Zenon DEF Contract!conditions_match, conditions_match
<1>6. \A t, e : Contract!event_allowed(t, e) <=> event_allowed(t, e)
    BY Zenon DEF Contract!event_allowed, event_allowed
<1>7. \A d, r, table : Contract!Meets(d, r, table) <=> Meets(d, r, table)
    <2>1. \A row : Contract!EventRule(row) <=> EventRule(row)
        BY Zenon DEF Contract!EventRule, EventRule
    <2>2. \A row, e : Contract!EventFires(row, e) <=> EventFires(row, e)
        BY <1>5, <1>6, Zenon DEF Contract!EventFires, EventFires
    <2>3. \A row, e : Contract!TimerFires(row, e) <=> TimerFires(row, e)
        BY Zenon DEF Contract!TimerFires, TimerFires
    <2>4. ASSUME NEW d, NEW r, NEW table
          PROVE  Contract!Meets(d, r, table) <=> Meets(d, r, table)
        <3>1. CASE d.source = "event"
            BY <2>1, <2>2, <3>1, Zenon DEF Contract!Meets, Meets
        <3>2. CASE d.source # "event"
            BY <2>3, <3>2, Zenon DEF Contract!Meets, Meets
        <3> QED
            BY <3>1, <3>2
    <2> QED
        BY <2>4
<1>8. Contract!Rows = Rows
    BY DEF Contract!Rows, Rows
<1> QED
    BY <1>1, <1>3, <1>7, <1>8

\* One entry of the ledger.
Entry(t) == [source |-> t.source, dedupe_key |-> t.dedupe_key, executions |-> ExecutionsByRule(t)]

LEMMA LedgerEntries == Ledger = {Entry(t) : t \in triggers}
BY DEF Ledger, Entry

\* The ledger depends on the triggers and the executions only.
LEMMA LedgerFrame ==
    ASSUME triggers' = triggers, executions' = executions
    PROVE  Ledger' = Ledger
BY DEF Ledger, ExecutionsByRule

\* A commit adds the entry of its trigger to the ledger and leaves the other
\* entries as they are.
LEMMA LedgerCommit ==
    ASSUME IInv, NEW p \in Processes, NEW result, Commits(p, result)
    PROVE  Ledger' = Ledger \cup
            {[source |-> delivery[p].source, dedupe_key |-> delivery[p].request.dedupe_key,
              executions |-> {[rule |-> r, revision |-> rules[r].revision] : r \in Fires(p)}]}
<1> DEFINE es == {[rule |-> r, revision |-> rules[r].revision] : r \in Fires(p)}
           new == [source |-> delivery[p].source, dedupe_key |-> delivery[p].request.dedupe_key,
                   executions |-> es]
<1>1. PICK t : /\ triggers' = triggers \cup {t}
               /\ t.id = trigger_id[p] /\ t.source = delivery[p].source
               /\ t.dedupe_key = delivery[p].request.dedupe_key
    BY PublishFacts DEF Commits
<1>2. executions' = executions \cup Created(p) /\ pc[p] = "commit"
    BY PublishFacts DEF Commits
<1>3. \A u \in triggers : u.id # trigger_id[p]
    BY <1>2 DEF IInv, IdInv
<1>4. \A e \in executions : \E u \in triggers : u.id = e.trigger
    BY DEF IInv, TypeOK
<1>5. ASSUME NEW u \in triggers PROVE ExecutionsByRule(u)' = ExecutionsByRule(u)
    <2>1. \A e \in Created(p) : e.trigger # u.id
        BY <1>3, CreatedFacts
    <2>2. {f \in executions' : f.trigger = u.id} = {f \in executions : f.trigger = u.id}
        BY <1>2, <2>1
    <2> QED
        BY <2>2 DEF ExecutionsByRule
<1>6. ExecutionsByRule(t)' = es
    <2>1. {f \in executions' : f.trigger = t.id} = Created(p)
        BY <1>1, <1>2, <1>3, <1>4, CreatedFacts
    <2>2. \A r \in Fires(p) : rows[p][r].revision = rules[r].revision
        BY DEF Fires, IInv, LockInv
    <2>3. {[rule |-> e.rule, revision |-> e.revision] : e \in Created(p)} = es
        BY <2>2, CreatedFacts
    <2>4. ExecutionsByRule(t)' =
            {[rule |-> e.rule, revision |-> e.revision] : e \in {f \in executions' : f.trigger = t.id}}
        BY DEF ExecutionsByRule
    <2> QED
        BY <2>1, <2>3, <2>4
<1>7. Entry(t)' = new
    BY <1>1, <1>6 DEF Entry
<1>8. \A u \in triggers : Entry(u)' = Entry(u)
    BY <1>5 DEF Entry
<1>9. Ledger' = {Entry(u)' : u \in triggers'}
    BY DEF Ledger, Entry
<1> QED
    BY <1>1, <1>7, <1>8, <1>9, LedgerEntries

\* A commit takes its delivery.
LEMMA CommitTakes ==
    ASSUME IInv, NEW p \in Processes, NEW result, Commits(p, result)
    PROVE  Contract!Take(delivery[p])
<1> DEFINE d == delivery[p]
<1>1. pc[p] = "commit" /\ rules' = rules
    BY PublishFacts DEF Commits
<1>2. Contract!AllowedCaller(d) /\ Contract!ValidRequest(d)
    BY <1>1, SameWords DEF IInv, AdmitInv
<1>3. ~ Contract!Taken(d)
    <2>1. \A t \in triggers : ~ SameTrigger(d, t.source, t.dedupe_key)
        BY <1>1 DEF IInv, KeyInv, Inside, Stored
    <2>2. \A t \in triggers : Entry(t).source = t.source /\ Entry(t).dedupe_key = t.dedupe_key
        BY DEF Entry
    <2> QED
        BY <2>1, <2>2, LedgerEntries DEF Contract!Taken, SameTrigger
<1>4. Contract!Met(d) = {r \in RuleIds : Meets(d, r, rules)}
    BY SameWords DEF Contract!Met
<1>5. \A r \in Fires(p) : r \in DOMAIN rows[p] /\ Meets(d, r, rules)
    BY FiresMeets DEF IInv
<1>6. Fires(p) \in SUBSET Contract!Met(d)
    BY <1>4, <1>5 DEF IInv, TypeOK
<1>7. ASSUME d.source = "timer" PROVE Fires(p) = Contract!Met(d)
    <2> SUFFICES ASSUME NEW r \in RuleIds, Meets(d, r, rules) PROVE r \in Fires(p)
        BY <1>4, <1>6
    <2>1. r = d.request.rule_id /\ Selects(d, r)
        BY <1>7, MeetsSelects DEF Meets
    <2>2. r \in DOMAIN rows[p]
        BY <1>1, <1>7, <2>1 DEF IInv, TimerInv
    <2> QED
        BY <2>2, MeetsFires DEF IInv
<1> QED
    BY <1>1, <1>2, <1>3, <1>6, <1>7, LedgerCommit DEF Contract!Take

\* A command, or the advance of a schedule, is one of the contract.
LEMMA CommandChanges ==
    ASSUME IInv, NEW r \in RuleIds, ChangeRule(r)
    PROVE  Contract!ChangeRule(r)
<1>1. PICK new \in Changes(rules[r]) : rules' = [rules EXCEPT ![r] = new]
    BY DEF ChangeRule
<1>2. rules \in [RuleIds -> Rows \cup {NoRow}]
    BY DEF IInv, TypeOK
<1>3. rules'[r] = new /\ \A s \in RuleIds \ {r} : rules'[s] = rules[s]
    BY <1>1, <1>2
<1>4. Ledger' = Ledger
    BY LedgerFrame DEF ChangeRule
<1> QED
    BY <1>1, <1>2, <1>3, <1>4, ChangesFacts, SameWords DEF Contract!ChangeRule

LEMMA ContractStep == IInv /\ [Next]_vars => [Contract!Next]_(Contract!vars)
<1> SUFFICES ASSUME IInv, [Next]_vars PROVE [Contract!Next]_(Contract!vars)
    OBVIOUS
<1>1. ASSUME triggers' = triggers, executions' = executions, rules' = rules
      PROVE  UNCHANGED Contract!vars
    BY <1>1, LedgerFrame DEF Contract!vars
<1>2. ASSUME NEW p \in Processes, NEW result, Commits(p, result) PROVE Contract!Next
    <2>1. delivery[p] \in Deliveries
        BY <1>2 DEF Commits, IInv, TypeOK
    <2> QED
        BY <1>2, <2>1, CommitTakes DEF Contract!Next
<1>3. ASSUME NEW r \in RuleIds, ChangeRule(r) PROVE Contract!Next
    BY <1>3, CommandChanges DEF Contract!Next
<1>4. ASSUME NEW p \in Processes, Deliver(p) \/ GoesOn(p) PROVE UNCHANGED Contract!vars
    BY <1>1, <1>4 DEF Deliver, GoesOn, tables
<1>5. ASSUME NEW p \in Processes, NEW r \in RuleIds, LockRow(p, r)
      PROVE  UNCHANGED Contract!vars
    BY <1>1, <1>5 DEF LockRow, tables
<1>6. ASSUME NEW p \in Processes, NEW result, Ends(p, result) PROVE UNCHANGED Contract!vars
    BY <1>1, <1>6 DEF Ends
<1>7. CASE Next
    BY <1>2, <1>3, <1>4, <1>5, <1>6, <1>7, Kinds DEF IInv
<1>8. CASE UNCHANGED vars
    BY <1>1, <1>8 DEF vars, tables
<1> QED
    BY <1>7, <1>8

\* ImplementsContract: however deliveries, redeliveries, commands and faults
\* interleave, the tables behave like a ledger that takes a trigger and all
\* its executions at once.
THEOREM Refinement == Spec => ImplementsContract
<1>1. Init => Contract!Init
    <2> SUFFICES ASSUME Init PROVE Contract!Init
        OBVIOUS
    <2>1. Ledger = {}
        BY DEF Init, Ledger
    <2> QED
        BY <2>1 DEF Init, Contract!Init
<1> QED
    BY Start, Step, ContractStep, <1>1, PTL DEF Spec, ImplementsContract, Contract!Spec
=============================================================================
