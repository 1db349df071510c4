------------------------ MODULE RuleCommandsProofs ------------------------
(***************************************************************************)
(* Proofs about RuleCommands, for any requests, rules, keys and number of  *)
(* invocations.  IInv is the inductive invariant: what a transaction has   *)
(* read, checked and written stays valid until it commits, because of what *)
(* it makes others wait for.                                               *)
(***************************************************************************)
EXTENDS RuleCommands, FiniteSetTheorems, TLAPS

InTransaction(p) == pc[p] \in {"lock", "write", "name", "inspect", "commit"}

\* An invocation that runs has a request.
Calling == \A p \in Processes : pc[p] # "idle" => request[p] \in Requests

\* The key that a transaction has reserved is unused, and it alone holds it.
KeyInv ==
    \A p \in Processes : InTransaction(p) =>
        /\ commands[request[p].key] = NoCommand
        /\ \A o \in Processes : o # p => ~ Reserved(o, request[p].key)

\* A rule is held by one transaction.
HoldInv ==
    \A p, o \in Processes, r \in RuleIds : Holds(p, r) /\ Holds(o, r) => p = o

\* The row that SELECT ... FOR UPDATE has returned is still the row.
SeenInv ==
    \A p \in Processes :
        pc[p] = "write" /\ request[p].op \in {"update", "set_enabled"} =>
            seen[p] = rules[request[p].rule] /\ seen[p].state = "active"

\* A rule that does not exist has no columns.
AbsentInv == \A r \in RuleIds : rules[r].state = "absent" => rules[r] = NoRule

\* A name that a transaction has taken is its own, among the committed rules
\* and among the names that others have taken.
NameInv ==
    \A p \in Processes : pc[p] = "commit" /\ row[p].state = "active" =>
        /\ ~ NameTaken(request[p].rule, row[p].name)
        /\ \A o \in Processes :
            o # p /\ pc[o] = "commit" /\ row[o].state = "active" =>
                row[o].name # row[p].name

\* What the register asks of a request, but for the name.
Fits(q) ==
    /\ commands[q.key] = NoCommand
    /\ IF q.op = "create" THEN rules[q.rule].state = "absent" ELSE RevisionIs(q)

\* A row that is written is what the register would make of the request now.
RowInv ==
    \A p \in Processes : pc[p] \in {"name", "commit"} =>
        /\ Fits(request[p])
        /\ row[p] = Register!Effect(request[p])

IInv ==
    /\ TypeOK
    /\ Calling
    /\ KeyInv
    /\ HoldInv
    /\ SeenInv
    /\ AbsentInv
    /\ NameInv
    /\ RowInv
    /\ NamesUnique

---------------------------------------------------------------------------
(* Lemmas.                                                                 *)

\* What is known of a request.
LEMMA RequestType ==
    ASSUME NEW q \in Requests
    PROVE  /\ q.key \in Keys /\ q.rule \in RuleIds
           /\ q.op \in {"create", "update", "set_enabled", "delete"}
           /\ q.op \in {"create", "update"} =>
                q.trigger \in {"event", "schedule"} /\ q.name \in Names
           /\ q.op \in {"create", "set_enabled"} => q.enabled \in BOOLEAN
           /\ q # NoRequest
<1>1. /\ q.key \in Keys /\ q.rule \in RuleIds
      /\ q.op \in {"create", "update", "set_enabled", "delete"}
      /\ q.op \in {"create", "update"} => q.trigger \in {"event", "schedule"}
      /\ q.op \in {"create", "set_enabled"} => q.enabled \in BOOLEAN
    BY RequestsAssumption
<1>2. q # NoRequest
    BY <1>1 DEF NoRequest
<1>3. q.op \in {"create", "update"} => q.name \in Names
    BY DEF Named, Names
<1> QED
    BY <1>1, <1>2, <1>3

\* A row whose columns have their types.
LEMMA RowType ==
    ASSUME NEW state \in {"active", "deleted"}, NEW name \in Names, NEW enabled \in BOOLEAN,
           NEW trigger \in {"event", "schedule"}, NEW armed \in BOOLEAN, NEW revision \in Nat
    PROVE  Row(state, name, enabled, trigger, armed, revision) \in Rows
BY DEF Row, Rows

\* The rows that the commands write.
LEMMA CreatedRow ==
    ASSUME NEW q \in Requests, q.op = "create"
    PROVE  Row("active", q.name, q.enabled, q.trigger, Armed(q.trigger, q.enabled), 1) \in Rows
<1>1. Armed(q.trigger, q.enabled) \in BOOLEAN
    BY RequestType DEF Armed
<1> QED
    BY <1>1, RequestType, RowType

LEMMA UpdatedRow ==
    ASSUME NEW q \in Requests, q.op = "update", NEW old \in Rows, NEW on \in BOOLEAN
    PROVE  Row("active", q.name, old.enabled, q.trigger, Armed(q.trigger, on),
               old.revision + 1) \in Rows
<1>1. Armed(q.trigger, on) \in BOOLEAN
    BY DEF Armed
<1>2. old.enabled \in BOOLEAN /\ old.revision + 1 \in Nat
    BY DEF Rows
<1> QED
    BY <1>1, <1>2, RequestType, RowType

LEMMA EnabledRow ==
    ASSUME NEW q \in Requests, q.op = "set_enabled", NEW old \in Rows,
           NEW t \in {"event", "schedule"}
    PROVE  Row("active", old.name, q.enabled, old.trigger, Armed(t, q.enabled),
               old.revision + 1) \in Rows
<1>1. Armed(t, q.enabled) \in BOOLEAN
    BY RequestType DEF Armed
<1>2. /\ old.name \in Names /\ old.trigger \in {"event", "schedule"}
      /\ old.revision + 1 \in Nat
    BY DEF Rows
<1> QED
    BY <1>1, <1>2, RequestType, RowType

LEMMA DeletedRow ==
    ASSUME NEW old \in Rows
    PROVE  Row("deleted", old.name, FALSE, old.trigger, FALSE, old.revision + 1) \in Rows
<1>1. /\ old.name \in Names /\ old.trigger \in {"event", "schedule"}
      /\ old.revision + 1 \in Nat
    BY DEF Rows
<1> QED
    BY <1>1, RowType

\* An invocation that returns, succeeds or has written keeps its shape.
LEMMA ReturnType ==
    ASSUME LocalType, NEW p \in Processes, NEW result \in Answers, Return(p, result)
    PROVE  LocalType'
<1>1. NoRule \in Rows
    BY DEF NoRule, Row, Rows, Names
<1> QED
    BY <1>1 DEF Return, Goto, LocalType

LEMMA RejectType ==
    ASSUME LocalType, NEW p \in Processes, NEW error \in Errors, Reject(p, error)
    PROVE  LocalType'
<1>1. [result |-> error] \in Answers
    BY DEF Answers
<1> QED
    BY <1>1, ReturnType DEF Reject

LEMMA SucceedType ==
    ASSUME LocalType, NEW p \in Processes, NEW response \in Responses, Succeed(p, response)
    PROVE  LocalType'
<1>1. NoRule \in Rows
    BY DEF NoRule, Row, Rows, Names
<1>2. [result |-> "ok", body |-> response] \in Answers
    BY DEF Answers
<1> QED
    BY <1>1, <1>2 DEF Succeed, Goto, LocalType

LEMMA SaveType ==
    ASSUME LocalType, NEW p \in Processes, NEW new \in Rows, Save(p, new)
    PROVE  LocalType'
BY DEF Save, Goto, LocalType

\* Every step keeps the types.
Move(p) == Call(p) \/ Statement(p) \/ AbortDeadlock(p) \/ Fail(p)

LEMMA ResponseType ==
    ASSUME LocalType, NEW p \in Processes
    PROVE  Response(p) \in Responses
BY DEF Response, Responses, LocalType

LEMMA PublishType ==
    ASSUME TypeOK, NEW p \in Processes, request[p] \in Requests, Publish(p)
    PROVE  TableType'
<1>1. Response(p) \in Responses
    BY ResponseType DEF TypeOK
<1>2. [request |-> request[p], response |-> Response(p)]
        \in [request : Requests, response : Responses]
    BY <1>1
<1>3. rules' \in [RuleIds -> Rows]
    BY RequestType DEF Publish, TypeOK, TableType, LocalType
<1>4. commands' \in [Keys -> [request : Requests, response : Responses] \cup {NoCommand}]
    BY <1>2, RequestType DEF Publish, TypeOK, TableType
<1> QED
    BY <1>3, <1>4 DEF TableType

LEMMA TypeStep == ASSUME TypeOK, Calling, NEW p \in Processes, Move(p) PROVE TypeOK'
<1> DEFINE q == request[p]
<1> USE DEF TypeOK
<1>0. pc[p] # "idle" => q \in Requests
    BY DEF Calling
<1>1. CASE Call(p)
  <2>1. NoAnswer \in Answers
      BY DEF NoAnswer, Answers, Errors
  <2>2. LocalType'
      BY <1>1, <2>1 DEF Call, Goto, LocalType
  <2>3. calls' \in 0..MaxCalls
      BY <1>1, RequestsAssumption DEF Call
  <2> QED
      BY <1>1, <2>2, <2>3 DEF Call, tables, TableType
<1>2. CASE ReserveCommand(p)
  <2>1. LocalType'
    <3>1. CASE /\ CommandStart(q) = "new"
               /\ Goto(p, IF q.op \in {"update", "set_enabled"} THEN "lock" ELSE "write")
               /\ UNCHANGED <<request, seen, row, answer>>
        BY <3>1 DEF Goto, LocalType
    <3>2. CASE CommandStart(q) = "replay" /\ Succeed(p, commands[q.key].response)
      <4>1. q \in Requests /\ q.key \in Keys /\ commands[q.key] # NoCommand
          BY <1>0, <1>2, <3>2, RequestType DEF ReserveCommand, CommandStart
      <4>2. commands[q.key].response \in Responses
          BY <4>1 DEF TableType
      <4> QED
          BY <3>2, <4>2, SucceedType
    <3>3. CASE Reject(p, "idempotency_conflict")
        BY <3>3, RejectType DEF Errors
    <3> QED
        BY <1>2, <3>1, <3>2, <3>3 DEF ReserveCommand
  <2> QED
      BY <1>2, <2>1 DEF ReserveCommand, tables, TableType
<1>3. CASE LockRule(p)
  <2>1. LocalType'
    <3>1. CASE Reject(p, "not_found")
        BY <3>1, RejectType DEF Errors
    <3>2. CASE /\ seen' = [seen EXCEPT ![p] = rules[q.rule]]
               /\ Goto(p, "write")
               /\ UNCHANGED <<request, row, answer>>
      <4>1. rules[q.rule] \in Rows
          BY <1>0, <1>3, RequestType DEF LockRule, TableType
      <4> QED
          BY <3>2, <4>1 DEF Goto, LocalType
    <3> QED
        BY <1>3, <3>1, <3>2 DEF LockRule
  <2> QED
      BY <1>3, <2>1 DEF LockRule, tables, TableType
<1>4. CASE InsertRule(p)
  <2>1. LocalType'
    <3>1. CASE Reject(p, "rule_id_conflict")
        BY <3>1, RejectType DEF Errors
    <3>2. CASE Save(p, Row("active", q.name, q.enabled, q.trigger,
                            Armed(q.trigger, q.enabled), 1))
        BY <1>0, <1>4, <3>2, CreatedRow, SaveType DEF InsertRule
    <3> QED
        BY <1>4, <3>1, <3>2 DEF InsertRule
  <2> QED
      BY <1>4, <2>1 DEF InsertRule, tables, TableType
<1>5. CASE UpdateRule(p)
  <2>1. q \in Requests /\ rules[q.rule] \in Rows /\ seen[p].enabled \in BOOLEAN
      BY <1>0, <1>5, RequestType DEF UpdateRule, TableType, LocalType, Rows
  <2>2. LocalType'
    <3>1. CASE Reject(p, "revision_conflict")
        BY <3>1, RejectType DEF Errors
    <3>2. CASE Save(p, Row("active", q.name, rules[q.rule].enabled, q.trigger,
                            Armed(q.trigger, seen[p].enabled), rules[q.rule].revision + 1))
        BY <1>5, <2>1, <3>2, UpdatedRow, SaveType DEF UpdateRule
    <3> QED
        BY <1>5, <3>1, <3>2 DEF UpdateRule
  <2> QED
      BY <1>5, <2>2 DEF UpdateRule, tables, TableType
<1>6. CASE SetEnabled(p)
  <2>1. /\ q \in Requests /\ rules[q.rule] \in Rows
        /\ seen[p].trigger \in {"event", "schedule"}
      BY <1>0, <1>6, RequestType DEF SetEnabled, TableType, LocalType, Rows
  <2>2. LocalType'
    <3>1. CASE Reject(p, "revision_conflict")
        BY <3>1, RejectType DEF Errors
    <3>2. CASE Save(p, Row("active", rules[q.rule].name, q.enabled, rules[q.rule].trigger,
                            Armed(seen[p].trigger, q.enabled), rules[q.rule].revision + 1))
        BY <1>6, <2>1, <3>2, EnabledRow, SaveType DEF SetEnabled
    <3> QED
        BY <1>6, <3>1, <3>2 DEF SetEnabled
  <2> QED
      BY <1>6, <2>2 DEF SetEnabled, tables, TableType
<1>7. CASE DeleteRule(p)
  <2>1. rules[q.rule] \in Rows
      BY <1>0, <1>7, RequestType DEF DeleteRule, TableType
  <2>2. Row("deleted", rules[q.rule].name, FALSE, rules[q.rule].trigger, FALSE,
            rules[q.rule].revision + 1) \in Rows
      BY <2>1, DeletedRow
  <2>3. LocalType'
      BY <1>7, <2>2 DEF DeleteRule, Goto, LocalType
  <2> QED
      BY <1>7, <2>3 DEF DeleteRule, tables, TableType
<1>8. CASE InspectDeleteConflict(p)
  <2>1. LocalType'
      BY <1>8, RejectType DEF InspectDeleteConflict, Errors
  <2> QED
      BY <1>8, <2>1 DEF InspectDeleteConflict, tables, TableType
<1>9. CASE Commit(p)
  <2>1. LocalType'
      BY <1>9, ResponseType, SucceedType DEF Commit
  <2>2. TableType'
      BY <1>0, <1>9, PublishType DEF Commit
  <2> QED
      BY <1>9, <2>1, <2>2 DEF Commit
<1>10. CASE Flush(p)
    BY <1>10 DEF Flush, Goto, tables, TableType, LocalType
<1>11. CASE Fail(p)
  <2>1. Runtime \in Answers
      BY DEF Runtime, Answers, Errors
  <2>2. LocalType'
      BY <1>11, <2>1, ReturnType DEF Fail
  <2>3. TableType'
      BY <1>0, <1>11, PublishType DEF Fail, tables, TableType
  <2>4. faults' \in 0..MaxFaults
      BY <1>11, RequestsAssumption DEF Fail
  <2> QED
      BY <1>11, <2>2, <2>3, <2>4 DEF Fail
<1>12. CASE TakeName(p)
  <2>1. LocalType'
    <3>1. CASE Reject(p, "rule_name_conflict")
        BY <3>1, RejectType DEF Errors
    <3>2. CASE Goto(p, "commit") /\ UNCHANGED <<request, seen, row, answer>>
        BY <3>2 DEF Goto, LocalType
    <3> QED
        BY <1>12, <3>1, <3>2 DEF TakeName
  <2> QED
      BY <1>12, <2>1 DEF TakeName, tables, TableType
<1>13. CASE AbortDeadlock(p)
  <2>1. Runtime \in Answers
      BY DEF Runtime, Answers, Errors
  <2>2. LocalType'
      BY <1>13, <2>1, ReturnType DEF AbortDeadlock
  <2> QED
      BY <1>13, <2>2 DEF AbortDeadlock, tables, TableType
<1> QED
    BY <1>1, <1>2, <1>3, <1>4, <1>5, <1>6, <1>7, <1>8, <1>9, <1>10, <1>11, <1>12, <1>13
    DEF Move, Statement

---------------------------------------------------------------------------
(* What a step of p is to the other processes.                             *)

\* p leaves the locals of all others alone.
Frame(p) ==
    \A o \in Processes : o # p =>
        /\ pc'[o] = pc[o] /\ request'[o] = request[o]
        /\ seen'[o] = seen[o] /\ row'[o] = row[o] /\ answer'[o] = answer[o]

\* p is in no transaction after the step, and commits one at most.
Leaves(p) ==
    /\ pc'[p] \in {"idle", "reserve", "flush"}
    /\ UNCHANGED tables \/ (pc[p] = "commit" /\ Publish(p))

\* p has reserved its key.
Enters(p) ==
    /\ pc[p] = "reserve"
    /\ pc'[p] = "lock" \/ (pc'[p] = "write" /\ request[p].op \notin {"update", "set_enabled"})
    /\ \A o \in Processes : o # p => ~ Reserved(o, request[p].key)
    /\ commands[request[p].key] = NoCommand
    /\ request'[p] = request[p] /\ UNCHANGED tables

\* p has read its rule FOR UPDATE.
Locks(p) ==
    /\ pc[p] = "lock" /\ pc'[p] = "write"
    /\ \A o \in Processes : o # p => ~ Holds(o, request[p].rule)
    /\ seen'[p] = rules[request[p].rule] /\ seen'[p].state = "active"
    /\ request'[p] = request[p] /\ UNCHANGED tables

\* p has written its row; if its rule is not deleted the name comes next.
Writes(p) ==
    /\ pc[p] = "write"
    /\ pc'[p] = "name" \/ (pc'[p] = "commit" /\ row'[p].state = "deleted")
    /\ \A o \in Processes : o # p => ~ Holds(o, request[p].rule)
    /\ Fits(request[p])
    /\ row'[p] = Register!Effect(request[p])
    /\ request'[p] = request[p] /\ UNCHANGED tables

\* p has taken the name of its row.
TakesName(p) ==
    /\ pc[p] = "name" /\ pc'[p] = "commit"
    /\ ~ NameTaken(request[p].rule, row[p].name)
    /\ \A o \in Processes : o # p => ~ NameHeld(o, row[p].name)
    /\ request'[p] = request[p] /\ row'[p] = row[p] /\ UNCHANGED tables

\* p has found nothing to delete.
Inspects(p) ==
    /\ pc[p] = "write" /\ pc'[p] = "inspect"
    /\ request'[p] = request[p] /\ UNCHANGED tables

LEMMA FrameStep == ASSUME TypeOK, NEW p \in Processes, Move(p) PROVE Frame(p)
<1> USE DEF TypeOK, LocalType, Frame
<1>1. CASE Call(p)
    BY <1>1 DEF Call, Goto
<1>2. ASSUME NEW result, Return(p, result) PROVE Frame(p)
    BY <1>2 DEF Return, Goto
<1>3. ASSUME NEW response, Succeed(p, response) PROVE Frame(p)
    BY <1>3 DEF Succeed, Goto
<1>4. ASSUME NEW error, Reject(p, error) PROVE Frame(p)
    BY <1>2, <1>4 DEF Reject
<1>5. ASSUME NEW new, Save(p, new) PROVE Frame(p)
    BY <1>5 DEF Save, Goto
<1>6. CASE ReserveCommand(p)
    BY <1>3, <1>4, <1>6 DEF ReserveCommand, Goto
<1>7. CASE LockRule(p)
    BY <1>4, <1>7 DEF LockRule, Goto
<1>8. CASE InsertRule(p)
    BY <1>4, <1>5, <1>8 DEF InsertRule
<1>9. CASE UpdateRule(p)
    BY <1>4, <1>5, <1>9 DEF UpdateRule
<1>10. CASE SetEnabled(p)
    BY <1>4, <1>5, <1>10 DEF SetEnabled
<1>11. CASE DeleteRule(p)
    BY <1>11 DEF DeleteRule, Goto
<1>12. CASE InspectDeleteConflict(p)
    BY <1>4, <1>12 DEF InspectDeleteConflict
<1>13. CASE Commit(p)
    BY <1>3, <1>13 DEF Commit
<1>14. CASE Flush(p)
    BY <1>14 DEF Flush, Goto
<1>15. CASE Fail(p)
    BY <1>2, <1>15 DEF Fail
<1>16. CASE TakeName(p)
    BY <1>4, <1>16 DEF TakeName, Goto
<1>17. CASE AbortDeadlock(p)
    BY <1>2, <1>17 DEF AbortDeadlock
<1> QED
    BY <1>1, <1>6, <1>7, <1>8, <1>9, <1>10, <1>11, <1>12, <1>13, <1>14, <1>15, <1>16, <1>17
    DEF Move, Statement

\* An INSERT or UPDATE that p has executed, up to the name.
LEMMA SaveStep ==
    ASSUME IInv, NEW p \in Processes, NEW new, Save(p, new), pc[p] = "write",
           UNCHANGED tables,
           \A o \in Processes : o # p => ~ Holds(o, request[p].rule),
           Fits(request[p]), new = Register!Effect(request[p])
    PROVE  Writes(p)
<1>1. row'[p] = new /\ pc'[p] = "name" /\ request'[p] = request[p]
    BY DEF Save, Goto, IInv, TypeOK, LocalType
<1> QED
    BY <1>1 DEF Writes

\* The rows that the commands write are what the register makes of them.
LEMMA CreatedMeant ==
    ASSUME NEW q \in Requests, q.op = "create", rules[q.rule] = NoRule
    PROVE  Register!Effect(q) = Row("active", q.name, q.enabled, q.trigger,
                                    Armed(q.trigger, q.enabled), 1)
<1>1. q.enabled \in BOOLEAN
    BY RequestType
<1> QED
    BY <1>1 DEF Register!Effect, NoRule, Row, Armed

LEMMA UpdatedMeant ==
    ASSUME NEW q \in Requests, q.op = "update", NEW on, on = rules[q.rule].enabled
    PROVE  Register!Effect(q) = Row("active", q.name, rules[q.rule].enabled, q.trigger,
                                    Armed(q.trigger, on), rules[q.rule].revision + 1)
BY DEF Register!Effect, Armed, Row

LEMMA EnabledMeant ==
    ASSUME NEW q \in Requests, q.op = "set_enabled", NEW t, t = rules[q.rule].trigger
    PROVE  Register!Effect(q) = Row("active", rules[q.rule].name, q.enabled,
                                    rules[q.rule].trigger, Armed(t, q.enabled),
                                    rules[q.rule].revision + 1)
BY DEF Register!Effect, Armed, Row

LEMMA DeletedMeant ==
    ASSUME NEW q \in Requests, q.op = "delete"
    PROVE  /\ Register!Effect(q) = Row("deleted", rules[q.rule].name, FALSE,
                                       rules[q.rule].trigger, FALSE,
                                       rules[q.rule].revision + 1)
           /\ Register!Effect(q).state = "deleted"
BY DEF Register!Effect, Row

\* Every step is of one of these kinds.
LEMMA Kinds ==
    ASSUME IInv, NEW p \in Processes, Move(p)
    PROVE  Leaves(p) \/ Enters(p) \/ Locks(p) \/ Writes(p) \/ TakesName(p) \/ Inspects(p)
<1> DEFINE q == request[p]
<1> USE DEF IInv, TypeOK
<1>0. pc[p] # "idle" => q \in Requests /\ q.rule \in RuleIds /\ q.key \in Keys
    BY RequestType DEF Calling
<1>1. ASSUME NEW result, Return(p, result) PROVE pc'[p] = "idle"
    BY <1>1 DEF Return, Goto, LocalType
<1>2. ASSUME NEW response, Succeed(p, response) PROVE pc'[p] \in {"idle", "flush"}
    BY <1>2 DEF Succeed, Goto, LocalType
<1>3. CASE Call(p)
    BY <1>3 DEF Call, Goto, LocalType, Leaves
<1>4. CASE ReserveCommand(p)
  <2>1. CASE CommandStart(q) = "new"
    <3>1. commands[q.key] = NoCommand
        BY <2>1 DEF CommandStart
    <3>2. Goto(p, IF q.op \in {"update", "set_enabled"} THEN "lock" ELSE "write")
          /\ UNCHANGED <<request, seen, row, answer>>
        BY <1>4, <2>1 DEF ReserveCommand
    <3>3. \A o \in Processes : o # p => ~ Reserved(o, q.key)
        BY <1>4 DEF ReserveCommand, Ready, WaitsFor
    <3> QED
        BY <1>4, <3>1, <3>2, <3>3 DEF ReserveCommand, Goto, LocalType, Enters
  <2>2. CASE CommandStart(q) # "new"
      BY <1>1, <1>2, <1>4, <2>2 DEF ReserveCommand, Reject, Leaves
  <2> QED
      BY <2>1, <2>2
<1>5. CASE LockRule(p)
  <2>1. CASE rules[q.rule].state = "active"
    <3>1. \A o \in Processes : o # p => ~ Holds(o, q.rule)
        BY <1>5, <2>1 DEF LockRule, Ready, WaitsFor, RowWaits, Locked
    <3> QED
        BY <1>5, <2>1, <3>1 DEF LockRule, Goto, LocalType, Locks
  <2>2. CASE rules[q.rule].state # "active"
      BY <1>1, <1>5, <2>2 DEF LockRule, Reject, Leaves
  <2> QED
      BY <2>1, <2>2
<1>6. CASE InspectDeleteConflict(p)
    BY <1>1, <1>6 DEF InspectDeleteConflict, Reject, Leaves
<1>7. CASE Commit(p)
    BY <1>2, <1>7 DEF Commit, Leaves
<1>8. CASE Flush(p)
    BY <1>8 DEF Flush, Goto, LocalType, Leaves
<1>9. CASE Fail(p)
    BY <1>1, <1>9 DEF Fail, Leaves
<1>10. CASE AbortDeadlock(p)
    BY <1>1, <1>10 DEF AbortDeadlock, Leaves
<1>11. CASE InsertRule(p)
  <2> DEFINE new == Row("active", q.name, q.enabled, q.trigger,
                         Armed(q.trigger, q.enabled), 1)
  <2>1. CASE rules[q.rule].state # "absent"
      BY <1>1, <1>11, <2>1 DEF InsertRule, Reject, Leaves
  <2>2. CASE rules[q.rule].state = "absent"
    <3>1. \A o \in Processes : o # p => ~ Holds(o, q.rule)
        BY <1>11, <2>2 DEF InsertRule, Ready, WaitsFor, Holds, SeenInv
    <3>2. q \in Requests /\ Fits(q) /\ rules[q.rule] = NoRule
        BY <1>0, <1>11, <2>2 DEF InsertRule, KeyInv, InTransaction, AbsentInv, Fits
    <3>3. Save(p, new) /\ new = Register!Effect(q)
        BY <1>11, <2>2, <3>2, CreatedMeant DEF InsertRule
    <3> QED
        BY <1>11, <3>1, <3>2, <3>3, SaveStep DEF InsertRule
  <2> QED
      BY <2>1, <2>2
<1>12. CASE UpdateRule(p)
  <2> DEFINE new == Row("active", q.name, rules[q.rule].enabled, q.trigger,
                         Armed(q.trigger, seen[p].enabled), rules[q.rule].revision + 1)
  <2>1. CASE ~ RevisionIs(q)
      BY <1>1, <1>12, <2>1 DEF UpdateRule, Reject, Leaves
  <2>2. CASE RevisionIs(q)
    <3>1. Holds(p, q.rule)
        BY <1>12 DEF UpdateRule, Holds
    <3>2. \A o \in Processes : o # p => ~ Holds(o, q.rule)
        BY <1>0, <1>12, <3>1 DEF UpdateRule, HoldInv
    <3>3. /\ q \in Requests /\ Fits(q)
          /\ seen[p].enabled = rules[q.rule].enabled
        BY <1>0, <1>12, <2>2 DEF UpdateRule, KeyInv, InTransaction, SeenInv, Fits
    <3>4. Save(p, new) /\ new = Register!Effect(q)
        BY <1>12, <2>2, <3>3, UpdatedMeant DEF UpdateRule
    <3> QED
        BY <1>12, <3>2, <3>3, <3>4, SaveStep DEF UpdateRule
  <2> QED
      BY <2>1, <2>2
<1>13. CASE SetEnabled(p)
  <2> DEFINE new == Row("active", rules[q.rule].name, q.enabled, rules[q.rule].trigger,
                         Armed(seen[p].trigger, q.enabled), rules[q.rule].revision + 1)
  <2>1. CASE ~ RevisionIs(q)
      BY <1>1, <1>13, <2>1 DEF SetEnabled, Reject, Leaves
  <2>2. CASE RevisionIs(q)
    <3>1. Holds(p, q.rule)
        BY <1>13 DEF SetEnabled, Holds
    <3>2. \A o \in Processes : o # p => ~ Holds(o, q.rule)
        BY <1>0, <1>13, <3>1 DEF SetEnabled, HoldInv
    <3>3. /\ q \in Requests /\ Fits(q)
          /\ seen[p].trigger = rules[q.rule].trigger
        BY <1>0, <1>13, <2>2 DEF SetEnabled, KeyInv, InTransaction, SeenInv, Fits
    <3>4. Save(p, new) /\ new = Register!Effect(q)
        BY <1>13, <2>2, <3>3, EnabledMeant DEF SetEnabled
    <3> QED
        BY <1>13, <3>2, <3>3, <3>4, SaveStep DEF SetEnabled
  <2> QED
      BY <2>1, <2>2
<1>14. CASE DeleteRule(p)
  <2> DEFINE new == Row("deleted", rules[q.rule].name, FALSE, rules[q.rule].trigger, FALSE,
                         rules[q.rule].revision + 1)
  <2>1. CASE ~ RevisionIs(q)
      BY <1>14, <2>1 DEF DeleteRule, Goto, LocalType, Inspects
  <2>2. CASE RevisionIs(q)
    <3>1. \A o \in Processes : o # p => ~ Holds(o, q.rule)
        BY <1>14, <2>2 DEF DeleteRule, Ready, WaitsFor, RowWaits, Locked
    <3>2. q \in Requests /\ Fits(q)
        BY <1>0, <1>14, <2>2 DEF DeleteRule, KeyInv, InTransaction, Fits
    <3>3. new = Register!Effect(q) /\ new.state = "deleted"
        BY <1>14, <3>2, DeletedMeant DEF DeleteRule
    <3>4. row'[p] = new /\ pc'[p] = "commit"
        BY <1>14, <2>2 DEF DeleteRule, Goto, LocalType
    <3> QED
        BY <1>14, <3>1, <3>2, <3>3, <3>4 DEF DeleteRule, Writes
  <2> QED
      BY <2>1, <2>2
<1>15. CASE TakeName(p)
  <2>1. CASE NameTaken(q.rule, row[p].name)
      BY <1>1, <1>15, <2>1 DEF TakeName, Reject, Leaves
  <2>2. CASE ~ NameTaken(q.rule, row[p].name)
    <3>1. \A o \in Processes : o # p => ~ NameHeld(o, row[p].name)
        BY <1>15 DEF TakeName, Ready, WaitsFor
    <3> QED
        BY <1>15, <2>2, <3>1 DEF TakeName, Goto, LocalType, TakesName
  <2> QED
      BY <2>1, <2>2
<1> QED
    BY <1>3, <1>4, <1>5, <1>6, <1>7, <1>8, <1>9, <1>10, <1>11, <1>12, <1>13, <1>14, <1>15
    DEF Move, Statement

---------------------------------------------------------------------------
(* The invariant, part by part.  p is the process that moves.              *)

LEMMA CallingStep ==
    ASSUME TypeOK, Calling, NEW p \in Processes, Move(p), Frame(p) PROVE Calling'
<1>1. pc'[p] # "idle" => request'[p] \in Requests
  <2> USE DEF TypeOK, LocalType, Calling
  <2>1. CASE Call(p)
      BY <2>1 DEF Call
  <2>2. CASE AbortDeadlock(p)
      BY <2>2 DEF AbortDeadlock, Return, Goto
  <2>3. CASE ~ Call(p) /\ ~ AbortDeadlock(p)
    <3>1. request' = request /\ pc[p] # "idle"
        BY <2>3 DEF Move, Statement, ReserveCommand, LockRule, InsertRule, UpdateRule, SetEnabled,
                    DeleteRule, TakeName, InspectDeleteConflict, Commit, Flush, Fail,
                    Save, Succeed, Reject, Return
    <3> QED
        BY <3>1
  <2> QED
      BY <2>1, <2>2, <2>3
<1> QED
    BY <1>1 DEF Calling, Frame

LEMMA KeyStep ==
    ASSUME IInv, NEW p \in Processes, Frame(p),
           Leaves(p) \/ Enters(p) \/ Locks(p) \/ Writes(p) \/ TakesName(p) \/ Inspects(p)
    PROVE  KeyInv'
<1> SUFFICES ASSUME NEW o \in Processes, InTransaction(o)'
             PROVE  /\ commands'[request'[o].key] = NoCommand
                    /\ \A x \in Processes : x # o => ~ Reserved(x, request[o].key)'
    BY DEF KeyInv
<1> USE DEF IInv, KeyInv, InTransaction, Reserved, Frame
<1>1. CASE Leaves(p)
  <2>1. o # p
      BY <1>1 DEF Leaves
  <2>2. commands'[request[o].key] = NoCommand
    <3>1. CASE UNCHANGED tables
        BY <2>1, <3>1 DEF tables
    <3>2. CASE pc[p] = "commit" /\ Publish(p)
      <4>1. request[o].key # request[p].key
          BY <2>1, <3>2
      <4> QED
          BY <2>1, <3>2, <4>1 DEF Publish, TypeOK, TableType
    <3> QED
        BY <1>1, <3>1, <3>2 DEF Leaves
  <2> QED
      BY <1>1, <2>1, <2>2 DEF Leaves
<1>2. CASE Enters(p)
    BY <1>2 DEF Enters, tables
<1>3. CASE Locks(p)
    BY <1>3 DEF Locks, tables
<1>4. CASE Writes(p)
    BY <1>4 DEF Writes, tables
<1>5. CASE Inspects(p)
    BY <1>5 DEF Inspects, tables
<1>6. CASE TakesName(p)
    BY <1>6 DEF TakesName, tables
<1> QED
    BY <1>1, <1>2, <1>3, <1>4, <1>5, <1>6

LEMMA HoldStep ==
    ASSUME IInv, NEW p \in Processes, Frame(p),
           Leaves(p) \/ Enters(p) \/ Locks(p) \/ Writes(p) \/ TakesName(p) \/ Inspects(p)
    PROVE  HoldInv'
<1>1. \A o \in Processes, r \in RuleIds : o # p => (Holds(o, r)' <=> Holds(o, r))
    BY DEF Holds, Changed, Frame
<1>2. CASE Leaves(p) \/ Enters(p) \/ Inspects(p)
  <2>1. \A r \in RuleIds : ~ Holds(p, r)'
      BY <1>2 DEF Leaves, Enters, Inspects, Holds, Changed
  <2> QED
      BY <1>1, <2>1 DEF IInv, HoldInv
<1>3. CASE Locks(p) \/ Writes(p)
  <2>1. \A o \in Processes, r \in RuleIds : o # p /\ Holds(p, r)' => ~ Holds(o, r)
      BY <1>3 DEF Locks, Writes, Holds, Changed
  <2> QED
      BY <1>1, <2>1 DEF IInv, HoldInv
<1>4. CASE TakesName(p)
  <2>1. \A r \in RuleIds : Holds(p, r)' => Holds(p, r)
      BY <1>4 DEF TakesName, Holds, Changed
  <2> QED
      BY <1>1, <2>1 DEF IInv, HoldInv
<1> QED
    BY <1>2, <1>3, <1>4

\* What a commit changes.
LEMMA Published ==
    ASSUME IInv, NEW p \in Processes, pc[p] = "commit", Publish(p)
    PROVE  /\ request[p] \in Requests
           /\ rules' = [rules EXCEPT ![request[p].rule] = row[p]]
           /\ rules'[request[p].rule] = row[p]
           /\ row[p].state \in {"active", "deleted"}
           /\ \A r \in RuleIds : r # request[p].rule => rules'[r] = rules[r]
           /\ \A o \in Processes, r \in RuleIds : o # p /\ Holds(o, r) => rules'[r] = rules[r]
<1>1. request[p] \in Requests /\ request[p].rule \in RuleIds
    BY RequestType DEF IInv, Calling
<1>2. row[p].state \in {"active", "deleted"}
  <2>1. row[p] = Register!Effect(request[p])
      BY DEF IInv, RowInv
  <2>2. Register!Effect(request[p]).state \in {"active", "deleted"}
      BY DEF Register!Effect
  <2> QED
      BY <2>1, <2>2
<1>3. Holds(p, request[p].rule)
    BY DEF Holds, Changed
<1> QED
    BY <1>1, <1>2, <1>3 DEF Publish, IInv, TypeOK, TableType, HoldInv

LEMMA SeenStep ==
    ASSUME IInv, NEW p \in Processes, Frame(p),
           Leaves(p) \/ Enters(p) \/ Locks(p) \/ Writes(p) \/ TakesName(p) \/ Inspects(p)
    PROVE  SeenInv'
<1> SUFFICES ASSUME NEW o \in Processes,
                    pc'[o] = "write", request'[o].op \in {"update", "set_enabled"}
             PROVE  seen'[o] = rules'[request'[o].rule] /\ seen'[o].state = "active"
    BY DEF SeenInv
<1>1. CASE o = p
    BY <1>1 DEF Leaves, Enters, Locks, Writes, TakesName, Inspects, tables
<1>2. CASE o # p
  <2>1. /\ pc[o] = "write" /\ request[o].op \in {"update", "set_enabled"}
        /\ request'[o] = request[o] /\ seen'[o] = seen[o]
      BY <1>2 DEF Frame
  <2>2. /\ seen[o] = rules[request[o].rule] /\ seen[o].state = "active"
        /\ Holds(o, request[o].rule) /\ request[o].rule \in RuleIds
      BY <2>1, RequestType DEF IInv, SeenInv, Holds, Calling
  <2>3. rules'[request[o].rule] = rules[request[o].rule]
    <3>1. CASE UNCHANGED tables
        BY <3>1 DEF tables
    <3>2. CASE pc[p] = "commit" /\ Publish(p)
        BY <1>2, <2>2, <3>2, Published
    <3> QED
        BY <3>1, <3>2 DEF Leaves, Enters, Locks, Writes, TakesName, Inspects
  <2> QED
      BY <2>1, <2>2, <2>3
<1> QED
    BY <1>1, <1>2

LEMMA AbsentStep ==
    ASSUME IInv, NEW p \in Processes, UNCHANGED tables \/ (pc[p] = "commit" /\ Publish(p))
    PROVE  AbsentInv'
<1>1. CASE UNCHANGED tables
    BY <1>1 DEF tables, IInv, AbsentInv
<1>2. CASE pc[p] = "commit" /\ Publish(p)
    BY <1>2, Published DEF IInv, AbsentInv
<1> QED
    BY <1>1, <1>2

LEMMA UniqueStep ==
    ASSUME IInv, NEW p \in Processes, UNCHANGED tables \/ (pc[p] = "commit" /\ Publish(p))
    PROVE  NamesUnique'
<1>1. CASE UNCHANGED tables
    BY <1>1 DEF tables, IInv, NamesUnique
<1>2. CASE pc[p] = "commit" /\ Publish(p)
  <2>1. \A s \in RuleIds : s # request[p].rule /\ rules[s].state = "active"
                /\ row[p].state = "active" => rules[s].name # row[p].name
      BY <1>2 DEF IInv, NameInv, NameTaken
  <2> QED
      BY <1>2, <2>1, Published DEF IInv, NamesUnique
<1> QED
    BY <1>1, <1>2

LEMMA NameStep ==
    ASSUME IInv, NEW p \in Processes, Frame(p),
           Leaves(p) \/ Enters(p) \/ Locks(p) \/ Writes(p) \/ TakesName(p) \/ Inspects(p)
    PROVE  NameInv'
<1>1. CASE Leaves(p)
  <2> SUFFICES ASSUME NEW o \in Processes, o # p, pc[o] = "commit", row[o].state = "active"
               PROVE  ~ NameTaken(request[o].rule, row[o].name)'
      BY <1>1 DEF Leaves, Frame, NameInv, IInv
  <2>1. request'[o] = request[o] /\ row'[o] = row[o] /\ ~ NameTaken(request[o].rule, row[o].name)
      BY DEF Frame, IInv, NameInv
  <2>2. CASE UNCHANGED tables
      BY <2>1, <2>2 DEF tables, NameTaken
  <2>3. CASE pc[p] = "commit" /\ Publish(p)
    <3>1. row[p].state = "active" => row[p].name # row[o].name
        BY <2>3 DEF IInv, NameInv
    <3> QED
        BY <2>1, <2>3, <3>1, Published DEF NameTaken
  <2> QED
      BY <1>1, <2>2, <2>3 DEF Leaves
<1>2. CASE TakesName(p)
  <2>1. /\ rules' = rules /\ request'[p] = request[p] /\ row'[p] = row[p]
        /\ ~ NameTaken(request[p].rule, row[p].name)
      BY <1>2 DEF TakesName, tables
  <2>2. ASSUME NEW o \in Processes, o # p, pc[o] = "commit", row[o].state = "active"
        PROVE  row[o].name # row[p].name
    <3>1. Changed(o, request[o].rule) /\ request[o].rule \in RuleIds
        BY <2>2, RequestType DEF IInv, Calling, Changed
    <3>2. ~ NameHeld(o, row[p].name)
        BY <1>2, <2>2 DEF TakesName
    <3> QED
        BY <2>2, <3>1, <3>2 DEF NameHeld
  <2>3. \A o \in Processes : o # p /\ pc'[o] = "commit" /\ row'[o].state = "active" =>
            /\ ~ NameTaken(request[o].rule, row[o].name)'
            /\ row'[o].name # row'[p].name
            /\ \A x \in Processes : x # o /\ x # p /\ pc'[x] = "commit"
                  /\ row'[x].state = "active" => row'[x].name # row'[o].name
      BY <2>1, <2>2 DEF Frame, IInv, NameInv, NameTaken
  <2>4. ~ NameTaken(request[p].rule, row[p].name)'
      BY <2>1 DEF NameTaken
  <2> QED
      BY <2>3, <2>4 DEF NameInv
<1>3. CASE Enters(p) \/ Locks(p) \/ Writes(p) \/ Inspects(p)
    BY <1>3 DEF Enters, Locks, Writes, Inspects, tables, Frame, IInv, NameInv, NameTaken
<1> QED
    BY <1>1, <1>2, <1>3

\* The register's view of a request depends on its key and its rule, which
\* its transaction holds.
LEMMA RowStep ==
    ASSUME IInv, NEW p \in Processes, Frame(p),
           Leaves(p) \/ Enters(p) \/ Locks(p) \/ Writes(p) \/ TakesName(p) \/ Inspects(p)
    PROVE  RowInv'
<1> SUFFICES ASSUME NEW o \in Processes, pc'[o] \in {"name", "commit"}
             PROVE  Fits(request[o])' /\ row'[o] = Register!Effect(request[o])'
    BY DEF RowInv
<1>1. CASE UNCHANGED tables
  <2>1. /\ request'[o] = request[o] /\ Fits(request[o])
        /\ row'[o] = Register!Effect(request[o])
      BY DEF Leaves, Enters, Locks, Writes, TakesName, Inspects, Frame, IInv, RowInv
  <2> QED
      BY <1>1, <2>1 DEF tables, Fits, RevisionIs, Register!Effect
<1>2. CASE pc[p] = "commit" /\ Publish(p) /\ Leaves(p)
  <2> DEFINE q == request[o]
  <2>1. /\ o # p /\ pc[o] \in {"name", "commit"} /\ request'[o] = q /\ row'[o] = row[o]
        /\ q \in Requests /\ Fits(q) /\ row[o] = Register!Effect(q)
      BY <1>2 DEF Leaves, Frame, IInv, RowInv, Calling
  <2>2. Holds(o, q.rule) /\ q.rule \in RuleIds /\ q.key \in Keys
      BY <2>1, RequestType DEF Holds, Changed
  <2>3. rules'[q.rule] = rules[q.rule]
      BY <1>2, <2>1, <2>2, Published
  <2>4. commands'[q.key] = commands[q.key]
    <3>1. request[p].key # q.key
        BY <1>2, <2>1 DEF IInv, KeyInv, InTransaction, Reserved
    <3> QED
        BY <1>2, <2>2, <3>1 DEF Publish, IInv, TypeOK, TableType
  <2>5. Fits(q)'
      BY <2>1, <2>3, <2>4 DEF Fits, RevisionIs
  <2>6. Register!Effect(q)' = Register!Effect(q)
      BY <2>1, <2>3 DEF Register!Effect
  <2> QED
      BY <2>1, <2>5, <2>6
<1> QED
    BY <1>1, <1>2 DEF Leaves, Enters, Locks, Writes, TakesName, Inspects

---------------------------------------------------------------------------
(* The theorems.                                                           *)

LEMMA Initial == Init => IInv
<1> SUFFICES ASSUME Init PROVE IInv
    OBVIOUS
<1>1. NoRule \in Rows /\ NoAnswer \in Answers
    BY DEF NoRule, Row, Rows, Names, NoAnswer, Answers, Errors
<1>2. TypeOK
    BY <1>1, RequestsAssumption DEF Init, TypeOK, TableType, LocalType
<1>3. \A p \in Processes : pc[p] = "idle"
    BY DEF Init
<1>4. \A r \in RuleIds : rules[r] = NoRule /\ rules[r].state = "absent"
    BY DEF Init, NoRule, Row
<1> QED
    BY <1>2, <1>3, <1>4
    DEF IInv, Calling, KeyInv, InTransaction, HoldInv, Holds, Changed, SeenInv, AbsentInv,
        NameInv, RowInv, NamesUnique

\* A step in terms of the process that moves.
LEMMA Moves ==
    ASSUME IInv, NEW p \in Processes, Move(p)
    PROVE  /\ Frame(p)
           /\ Leaves(p) \/ Enters(p) \/ Locks(p) \/ Writes(p) \/ TakesName(p) \/ Inspects(p)
           /\ UNCHANGED tables \/ (pc[p] = "commit" /\ Publish(p))
<1>1. Frame(p)
    BY FrameStep DEF IInv
<1>2. Leaves(p) \/ Enters(p) \/ Locks(p) \/ Writes(p) \/ TakesName(p) \/ Inspects(p)
    BY Kinds
<1> QED
    BY <1>1, <1>2 DEF Leaves, Enters, Locks, Writes, TakesName, Inspects

LEMMA Step == IInv /\ [Next]_vars => IInv'
<1>1. ASSUME IInv, NEW p \in Processes, Move(p) PROVE IInv'
  <2>1. /\ Frame(p)
        /\ Leaves(p) \/ Enters(p) \/ Locks(p) \/ Writes(p) \/ TakesName(p) \/ Inspects(p)
        /\ UNCHANGED tables \/ (pc[p] = "commit" /\ Publish(p))
      BY <1>1, Moves
  <2>2. TypeOK' /\ Calling'
      BY <1>1, <2>1, TypeStep, CallingStep DEF IInv
  <2>3. KeyInv' /\ HoldInv' /\ SeenInv'
      BY <1>1, <2>1, KeyStep, HoldStep, SeenStep
  <2>4. AbsentInv' /\ NamesUnique' /\ NameInv'
      BY <1>1, <2>1, AbsentStep, UniqueStep, NameStep
  <2>5. RowInv'
      BY <1>1, <2>1, RowStep
  <2> QED
      BY <2>2, <2>3, <2>4, <2>5 DEF IInv
<1>2. CASE UNCHANGED vars
  <2> SUFFICES ASSUME IInv PROVE IInv'
      BY <1>2
  <2> USE <1>2 DEF vars, tables, local
  <2>1. TypeOK' /\ Calling'
      BY DEF IInv, TypeOK, TableType, LocalType, Calling
  <2>2. KeyInv' /\ HoldInv' /\ SeenInv'
      BY DEF IInv, KeyInv, InTransaction, Reserved, HoldInv, Holds, Changed, SeenInv
  <2>3. AbsentInv' /\ NamesUnique' /\ NameInv'
      BY DEF IInv, AbsentInv, NamesUnique, NameInv, NameTaken
  <2>4. RowInv'
    <3> SUFFICES ASSUME NEW p \in Processes, pc'[p] \in {"name", "commit"}
                 PROVE  Fits(request[p])' /\ row'[p] = Register!Effect(request[p])'
        BY DEF RowInv
    <3>1. Fits(request[p]) /\ row[p] = Register!Effect(request[p])
        BY DEF IInv, RowInv
    <3>2. Fits(request[p])' /\ Register!Effect(request[p])' = Register!Effect(request[p])
        BY <3>1 DEF Fits, RevisionIs, Register!Effect
    <3> QED
        BY <3>1, <3>2
  <2> QED
      BY <2>1, <2>2, <2>3, <2>4 DEF IInv
<1> QED
    BY <1>1, <1>2 DEF Next, Move

\* IInv holds in every reachable state.
THEOREM Invariance == Spec => []IInv
    BY Initial, Step, PTL DEF Spec

\* Rows, ledger entries and answers have their shape, for any number of
\* invocations, retries and faults.
THEOREM TypeCorrect == Spec => []TypeOK
<1>1. IInv => TypeOK
    BY DEF IInv
<1> QED
    BY <1>1, Invariance, PTL

\* Rules that are not deleted have different names, although create_rule and
\* update_rule do not look the name up before they write it.
THEOREM NamesStayUnique == Spec => []NamesUnique
<1>1. IInv => NamesUnique
    BY DEF IInv
<1> QED
    BY <1>1, Invariance, PTL

---------------------------------------------------------------------------
(* Deadlocks.                                                              *)

\* A member of a ring waits for another, and another waits for it.
LEMMA RingMember ==
    ASSUME NEW C \in SUBSET Processes, Ring(C), NEW p \in C
    PROVE  /\ \E o \in C : o # p /\ WaitsFor(p, o)
           /\ \E o \in C : o # p /\ WaitsFor(o, p)
<1>1. {p} \notin {{}, C} /\ C \ {p} \notin {{}, C}
    BY DEF Ring
<1>2. \E x \in {p}, o \in C \ {p} : WaitsFor(x, o)
    BY <1>1 DEF Ring
<1>3. \E x \in C \ {p}, o \in C \ (C \ {p}) : WaitsFor(x, o)
  <2>1. C \ {p} \in SUBSET C
      OBVIOUS
  <2> QED
      BY <1>1, <2>1 DEF Ring
<1> QED
    BY <1>2, <1>3

\* A row that is being written keeps the name that its rule has, unless the
\* rule is created or renamed.
LEMMA KeptName ==
    ASSUME IInv, NEW p \in Processes, pc[p] = "name",
           request[p].op # "create", row[p].name = rules[request[p].rule].name,
           NEW o \in Processes, o # p
    PROVE  ~ NameHeld(o, row[p].name)
<1> DEFINE s == request[p].rule
<1>1. s \in RuleIds /\ rules[s].state = "active" /\ Holds(p, s)
    BY RequestType DEF IInv, Calling, RowInv, Fits, RevisionIs, Holds, Changed
<1> SUFFICES ASSUME NEW r \in RuleIds, Changed(o, r),
                    \/ pc[o] = "commit" /\ row[o].state = "active" /\ row[o].name = rules[s].name
                    \/ rules[r].state = "active" /\ rules[r].name = rules[s].name
             PROVE  FALSE
    BY DEF NameHeld
<1>2. r # s
    BY <1>1 DEF IInv, HoldInv, Holds
<1>3. CASE pc[o] = "commit" /\ row[o].state = "active" /\ row[o].name = rules[s].name
  <2>1. ~ NameTaken(r, rules[s].name)
      BY <1>3 DEF IInv, NameInv, Changed
  <2> QED
      BY <1>1, <1>2, <2>1 DEF NameTaken
<1>4. CASE rules[r].state = "active" /\ rules[r].name = rules[s].name
    BY <1>1, <1>2, <1>4 DEF IInv, NamesUnique
<1> QED
    BY <1>3, <1>4

\* An invocation in a ring has written a row and waits for its name: what
\* reserves a key or locks a row is never waited for by one that it waits for.
LEMMA RingAtName ==
    ASSUME IInv, NEW C \in SUBSET Processes, Ring(C), NEW p \in C
    PROVE  pc[p] = "name" /\ request[p].op # "create"
<1>1. ASSUME NEW x \in C PROVE x \in Processes /\ pc[x] \in {"lock", "write", "name"}
  <2>1. PICK o \in C : o # x /\ WaitsFor(x, o)
      BY RingMember
  <2>2. PICK y \in C : y # x /\ WaitsFor(y, x)
      BY RingMember
  <2>3. pc[x] \in {"reserve", "lock", "write", "name"}
      BY <2>1 DEF WaitsFor
  <2>4. pc[x] # "reserve"
      BY <2>2 DEF WaitsFor, Reserved, RowWaits, Locked, Holds, NameHeld, Changed
  <2> QED
      BY <2>3, <2>4
\* A member that has not written is waited for only by one that reserves its key.
<1>2. ASSUME NEW x \in C PROVE \E r \in RuleIds : Holds(x, r) /\ r = request[x].rule
  <2>1. PICK y \in C : y # x /\ WaitsFor(y, x)
      BY RingMember
  <2>2. pc[y] \in {"lock", "write", "name"} /\ y \in Processes /\ x \in Processes
      BY <1>1
  <2>3. request[y].rule \in RuleIds /\ request[x].rule \in RuleIds
      BY <1>1, <2>2, RequestType DEF IInv, Calling
  <2>4. Holds(x, request[y].rule) \/ NameHeld(x, row[y].name)
      BY <2>1, <2>2 DEF WaitsFor, RowWaits, Locked, Holds
  <2> QED
      BY <2>3, <2>4 DEF NameHeld, Holds, Changed
<1>3. pc[p] \in {"write", "name"}
    BY <1>1, <1>2 DEF Holds, Changed
<1>4. pc[p] # "write"
  <2> SUFFICES ASSUME pc[p] = "write" PROVE FALSE
      OBVIOUS
  <2>1. request[p].op \in {"update", "set_enabled"}
      BY <1>2 DEF Holds, Changed
  <2>2. PICK o \in C : o # p /\ WaitsFor(p, o)
      BY RingMember
  <2>3. Holds(o, request[p].rule)
      BY <2>1, <2>2 DEF WaitsFor, RowWaits, Locked
  <2> QED
      BY <1>2, <2>2, <2>3 DEF IInv, HoldInv
<1>5. request[p].op # "create"
  <2> SUFFICES ASSUME request[p].op = "create" PROVE FALSE
      OBVIOUS
  <2>1. pc[p] = "name" /\ rules[request[p].rule].state = "absent"
      BY <1>3, <1>4 DEF IInv, RowInv, Fits
  <2>2. PICK y \in C : y # p /\ WaitsFor(y, p)
      BY RingMember
  <2>3. pc[y] = "name"
    <3>1. pc[y] \in {"lock", "write", "name"}
        BY <1>1
    <3>2. pc[y] # "lock"
        BY <1>2 DEF Holds, Changed
    <3>3. pc[y] = "write" => request[y].op \in {"update", "set_enabled"}
        BY <1>2 DEF Holds, Changed
    <3>4. pc[y] = "write" => Holds(p, request[y].rule)
        BY <2>2, <3>3 DEF WaitsFor, RowWaits, Locked
    <3>5. pc[y] # "write"
        BY <1>2, <2>2, <3>4 DEF IInv, HoldInv
    <3> QED
        BY <3>1, <3>2, <3>5
  <2>4. NameHeld(p, row[y].name)
      BY <2>2, <2>3 DEF WaitsFor
  <2> QED
      BY <2>1, <2>4 DEF NameHeld, Changed
<1> QED
    BY <1>3, <1>4, <1>5

LEMMA RingIsOfRenames == IInv => OnlyRenamesDeadlock
<1> SUFFICES ASSUME IInv, NEW C \in SUBSET Processes, Ring(C), NEW p \in C
             PROVE  /\ pc[p] = "name" /\ request[p].op = "update"
                    /\ row[p].name # rules[request[p].rule].name
                    /\ \E o \in C : rules[request[o].rule].name = row[p].name
    BY DEF OnlyRenamesDeadlock
<1> DEFINE q == request[p]
<1>1. pc[p] = "name" /\ q.op # "create"
    BY RingAtName
<1>2. PICK o \in C : o # p /\ WaitsFor(p, o)
    BY RingMember
<1>3. pc[o] = "name" /\ NameHeld(o, row[p].name)
    BY <1>1, <1>2, RingAtName DEF WaitsFor
<1>4. rules[request[o].rule].name = row[p].name
    BY <1>3 DEF NameHeld, Changed
<1>5. row[p].name # rules[q.rule].name
    BY <1>1, <1>2, <1>3, KeptName
<1>6. q.op = "update"
  <2>1. row[p] = Register!Effect(q) /\ q \in Requests
      BY <1>1 DEF IInv, RowInv, Calling
  <2>2. q.op \in {"update", "set_enabled", "delete"}
      BY <1>1, <2>1, RequestType
  <2>3. q.op # "update" => row[p].name = rules[q.rule].name
      BY <1>1, <2>1, <2>2 DEF Register!Effect
  <2> QED
      BY <1>5, <2>2, <2>3
<1> QED
    BY <1>1, <1>4, <1>5, <1>6

\* However many invocations there are, keys and rows never make them wait for
\* each other in a ring; a deadlock consists of renames that exchange names.
THEOREM OnlyRenamesCanDeadlock == Spec => []OnlyRenamesDeadlock
BY RingIsOfRenames, Invariance, PTL

---------------------------------------------------------------------------
(* Answers and the ledger.                                                 *)

\* A success is in the ledger as soon as it is an answer, and stays there.
DurableInv ==
    \A p \in Processes : answer[p].result = "ok" =>
        /\ pc[p] \in {"idle", "flush"} /\ request[p] \in Requests
        /\ commands[request[p].key] = [request |-> request[p], response |-> answer[p].body]

\* No step changes an entry of the ledger that has a command.
LEMMA LedgerStep ==
    ASSUME IInv, NEW p \in Processes, Move(p), NEW k \in Keys, commands[k] # NoCommand
    PROVE  commands'[k] = commands[k]
<1>1. CASE UNCHANGED tables
    BY <1>1 DEF tables
<1>2. CASE pc[p] = "commit" /\ Publish(p)
  <2>1. commands[request[p].key] = NoCommand
      BY <1>2 DEF IInv, KeyInv, InTransaction
  <2> QED
      BY <1>2, <2>1 DEF Publish, IInv, TypeOK, TableType
<1> QED
    BY <1>1, <1>2, Moves

\* p's answer is a success after its step only if it was one, if a retry has
\* found the command, or if the command has just been committed.
LEMMA AnswerStep ==
    ASSUME IInv, NEW p \in Processes, Move(p), answer'[p].result = "ok"
    PROVE  /\ request'[p] = request[p]
           /\ \/ /\ answer'[p] = answer[p]
                 /\ pc[p] \in {"idle", "flush"} => pc'[p] \in {"idle", "flush"}
              \/ /\ pc'[p] \in {"idle", "flush"} /\ request[p] \in Requests
                 /\ commands'[request[p].key] =
                        [request |-> request[p], response |-> answer'[p].body]
<1> DEFINE q == request[p]
<1> USE DEF IInv, TypeOK, LocalType
<1>1. ASSUME NEW result, Return(p, result) PROVE answer'[p] = result /\ UNCHANGED request
    BY <1>1 DEF Return
<1>3. ASSUME NEW error, error # "ok" PROVE ~ Reject(p, error)
    BY <1>1, <1>3 DEF Reject
<1>4. ASSUME NEW new, Save(p, new)
      PROVE  UNCHANGED <<request, answer>>
    BY <1>4 DEF Save
<1>5. CASE Call(p)
    BY <1>5 DEF Call, NoAnswer
<1>6. CASE ReserveCommand(p)
  <2>1. q \in Requests /\ q.key \in Keys
      BY <1>6, RequestType DEF ReserveCommand, Calling
  <2>2. CASE CommandStart(q) = "new"
      BY <1>6, <2>2 DEF ReserveCommand
  <2>3. CASE CommandStart(q) = "replay"
    <3>1. Succeed(p, commands[q.key].response) /\ UNCHANGED tables
        BY <1>6, <2>3 DEF ReserveCommand
    <3>2. commands[q.key] # NoCommand /\ commands[q.key].request = q
        BY <2>3 DEF CommandStart
    <3>3. commands[q.key] = [request |-> q, response |-> commands[q.key].response]
        BY <2>1, <3>2 DEF TableType
    <3>4. /\ pc'[p] \in {"idle", "flush"} /\ UNCHANGED request
          /\ answer'[p].body = commands[q.key].response
        BY <3>1 DEF Succeed, Goto
    <3>5. commands'[q.key] = [request |-> q, response |-> answer'[p].body]
        BY <3>1, <3>3, <3>4 DEF tables
    <3> QED
        BY <2>1, <3>4, <3>5
  <2>4. CASE CommandStart(q) = "conflict"
      BY <1>3, <1>6, <2>4 DEF ReserveCommand
  <2> QED
      BY <2>2, <2>3, <2>4 DEF CommandStart
<1>7. CASE \/ LockRule(p) \/ InsertRule(p) \/ UpdateRule(p) \/ SetEnabled(p)
          \/ DeleteRule(p) \/ TakeName(p)
  <2>1. pc[p] \in {"lock", "write", "name"}
      BY <1>7 DEF LockRule, InsertRule, UpdateRule, SetEnabled, DeleteRule, TakeName
  <2>2. UNCHANGED <<request, answer>>
      BY <1>3, <1>4, <1>7
      DEF LockRule, InsertRule, UpdateRule, SetEnabled, DeleteRule, TakeName
  <2> QED
      BY <2>1, <2>2
<1>8. CASE InspectDeleteConflict(p)
    BY <1>3, <1>8 DEF InspectDeleteConflict
<1>9. CASE Commit(p)
  <2>1. Publish(p) /\ Succeed(p, Response(p)) /\ q.key \in Keys /\ q \in Requests
      BY <1>9, RequestType DEF Commit, Calling
  <2>2. commands'[q.key] = [request |-> q, response |-> Response(p)]
      BY <2>1 DEF Publish, TableType
  <2>3. /\ pc'[p] \in {"idle", "flush"} /\ UNCHANGED request
        /\ answer'[p].body = Response(p)
      BY <2>1 DEF Succeed, Goto
  <2> QED
      BY <2>1, <2>2, <2>3
<1>10. CASE Flush(p)
    BY <1>10 DEF Flush, Goto
<1>11. CASE Fail(p) \/ AbortDeadlock(p)
    BY <1>1, <1>11 DEF Fail, AbortDeadlock, Runtime
<1> QED
    BY <1>5, <1>6, <1>7, <1>8, <1>9, <1>10, <1>11 DEF Move, Statement

LEMMA DurableStep == IInv /\ DurableInv /\ [Next]_vars => DurableInv'
<1>1. ASSUME IInv, DurableInv, NEW p \in Processes, Move(p), NEW o \in Processes,
             answer'[o].result = "ok"
      PROVE  /\ pc'[o] \in {"idle", "flush"} /\ request'[o] \in Requests
             /\ commands'[request'[o].key] = [request |-> request'[o], response |-> answer'[o].body]
  <2>1. CASE answer'[o] = answer[o] /\ request'[o] = request[o]
             /\ (pc[o] \in {"idle", "flush"} => pc'[o] \in {"idle", "flush"})
    <3>1. /\ commands[request[o].key] = [request |-> request[o], response |-> answer[o].body]
          /\ pc[o] \in {"idle", "flush"} /\ request[o] \in Requests
        BY <1>1, <2>1 DEF DurableInv
    <3>2. commands[request[o].key] # NoCommand
        BY <3>1 DEF NoCommand
    <3>3. commands'[request[o].key] = commands[request[o].key]
        BY <1>1, <3>1, <3>2, LedgerStep, RequestType
    <3> QED
        BY <2>1, <3>1, <3>3
  <2>2. CASE o # p
      BY <1>1, <2>1, <2>2, Moves DEF Frame
  <2>3. CASE o = p
      BY <1>1, <2>1, <2>3, AnswerStep
  <2> QED
      BY <2>2, <2>3
<1>2. CASE UNCHANGED vars
    BY <1>2 DEF vars, tables, local, DurableInv
<1> QED
    BY <1>1, <1>2 DEF Next, Move, DurableInv

\* A success that a caller has been told is in the ledger with its own request
\* and response, whatever was lost, repeated or rejected.
THEOREM AnswersAreDurable == Spec => []AnswerIsDurable
<1>1. Init => DurableInv
    BY DEF Init, NoAnswer, DurableInv
<1>2. IInv /\ DurableInv /\ [Next]_vars => DurableInv'
    BY DurableStep
<1>3. DurableInv => AnswerIsDurable
    BY DEF DurableInv, AnswerIsDurable
<1> QED
    BY <1>1, <1>2, <1>3, Invariance, PTL DEF Spec

\* p ends with a Domain error.
Rejected(p) ==
    answer'[p] # answer[p] /\ answer'[p].result \notin {"none", "ok", "runtime"}

\* Only a request that the ledger does not have ends with a Domain error.
RejectsUnknown ==
    \A p \in Processes : Rejected(p) => commands[request[p].key].request # request[p]

\* An invocation ends with a Domain error only if the ledger does not have its
\* request: a retry of what was committed is never rejected.
THEOREM RetriesFindTheirResponse == Spec => RetryFindsResponse
<1>1. ASSUME IInv, NEW p \in Processes, Move(p), NEW o \in Processes, Rejected(o)
      PROVE  commands[request[o].key].request # request[o]
  <2> USE DEF IInv, TypeOK, LocalType, Rejected
  <2>1. o = p
      BY <1>1, Moves DEF Frame
  <2>2. CASE InTransaction(p)
    <3>1. commands[request[p].key] = NoCommand /\ request[p] \in Requests
        BY <1>1, <2>2 DEF KeyInv, InTransaction, Calling
    <3> QED
        BY <2>1, <3>1, RequestType DEF NoCommand
  <2>3. CASE ReserveCommand(p)
    <3>1. CommandStart(request[p]) # "new"
        BY <1>1, <2>1, <2>3 DEF ReserveCommand
    <3>2. CommandStart(request[p]) # "replay"
        BY <1>1, <2>1, <2>3 DEF ReserveCommand, Succeed
    <3> QED
        BY <2>1, <3>1, <3>2 DEF CommandStart
  <2>4. CASE Call(p) \/ Flush(p) \/ Fail(p) \/ AbortDeadlock(p)
      BY <1>1, <2>1, <2>4 DEF Call, Flush, Fail, AbortDeadlock, Return, Runtime, NoAnswer
  <2> QED
      BY <1>1, <2>2, <2>3, <2>4
      DEF Move, Statement, InTransaction, LockRule, InsertRule, UpdateRule, SetEnabled,
          DeleteRule, TakeName, InspectDeleteConflict, Commit
<1>2. IInv /\ [Next]_vars => [RejectsUnknown]_vars
    BY <1>1 DEF Next, Move, RejectsUnknown
<1>3. [][RejectsUnknown]_vars <=> RetryFindsResponse
    BY DEF RejectsUnknown, Rejected, RetryFindsResponse
<1> QED
    BY <1>2, <1>3, Invariance, PTL DEF Spec

---------------------------------------------------------------------------
(* Revisions.                                                              *)

\* The keys of the commands that have changed rule r.
KeysOf(r) == {k \in Keys : commands[k] # NoCommand /\ commands[k].request.rule = r}

LEMMA CountStep == IInv /\ RevisionCountsCommands /\ [Next]_vars => RevisionCountsCommands'
<1> USE DEF IInv, TypeOK
<1>1. ASSUME IInv, RevisionCountsCommands, NEW p \in Processes, pc[p] = "commit", Publish(p),
             NEW r \in RuleIds
      PROVE  rules'[r].revision = Cardinality(KeysOf(r)')
  <2> DEFINE q == request[p]
  <2>1. q \in Requests /\ q.key \in Keys /\ q.rule \in RuleIds
      BY <1>1, RequestType DEF Calling
  <2>2. commands[q.key] = NoCommand
      BY <1>1 DEF KeyInv, InTransaction
  <2>3. commands' = [commands EXCEPT ![q.key] = [request |-> q, response |-> Response(p)]]
      BY <1>1 DEF Publish
  <2>4. [request |-> q, response |-> Response(p)] # NoCommand
      BY <2>1, RequestType DEF NoCommand
  <2>5. rules[r].revision = Cardinality(KeysOf(r))
      BY <1>1 DEF RevisionCountsCommands, KeysOf
  <2>6. CASE r # q.rule
    <3>1. rules'[r] = rules[r]
        BY <1>1, <2>6, Published
    <3>2. KeysOf(r)' = KeysOf(r)
        BY <2>1, <2>2, <2>3, <2>6 DEF KeysOf, TableType
    <3> QED
        BY <2>5, <3>1, <3>2
  <2>7. CASE r = q.rule
    <3>1. rules'[r].revision = rules[r].revision + 1
      <4>1. row[p] = Register!Effect(q)
          BY <1>1 DEF RowInv
      <4>2. Register!Effect(q).revision = rules[r].revision + 1
          BY <2>7 DEF Register!Effect
      <4>3. rules'[r] = row[p]
          BY <1>1, <2>7, Published
      <4> QED
          BY <4>1, <4>2, <4>3
    <3>2. KeysOf(r)' = KeysOf(r) \cup {q.key} /\ q.key \notin KeysOf(r)
      <4>0. commands'[q.key] = [request |-> q, response |-> Response(p)]
          BY <1>1, <2>1, <2>3 DEF TableType
      <4>1. commands'[q.key] # NoCommand /\ commands'[q.key].request.rule = r
          BY <2>4, <2>7, <4>0
      <4>2. \A k \in Keys : k # q.key => commands'[k] = commands[k]
          BY <2>1, <2>3 DEF TableType
      <4> QED
          BY <2>1, <2>2, <4>1, <4>2 DEF KeysOf
    <3>3. IsFiniteSet(KeysOf(r))
        BY RequestsAssumption, FS_Subset DEF KeysOf
    <3>4. Cardinality(KeysOf(r) \cup {q.key}) = Cardinality(KeysOf(r)) + 1
        BY <3>2, <3>3, FS_AddElement
    <3> QED
        BY <2>5, <3>1, <3>2, <3>4
  <2> QED
      BY <2>6, <2>7
<1>2. ASSUME IInv, RevisionCountsCommands, NEW p \in Processes, Move(p)
      PROVE  RevisionCountsCommands'
  <2>1. CASE UNCHANGED tables
      BY <1>2, <2>1 DEF tables, RevisionCountsCommands
  <2>2. CASE pc[p] = "commit" /\ Publish(p)
      BY <1>1, <1>2, <2>2 DEF RevisionCountsCommands, KeysOf
  <2> QED
      BY <1>2, <2>1, <2>2, Moves
<1> QED
    BY <1>2 DEF Next, Move, vars, tables, RevisionCountsCommands

\* No update of a rule is lost and none happens twice: its revision is the
\* number of commands in the ledger that have changed it.
THEOREM RevisionsCountCommands == Spec => []RevisionCountsCommands
<1>1. Init => RevisionCountsCommands
  <2> SUFFICES ASSUME Init, NEW r \in RuleIds
               PROVE  rules[r].revision = Cardinality(KeysOf(r))
      BY DEF RevisionCountsCommands, KeysOf
  <2>1. rules[r].revision = 0
      BY DEF Init, NoRule, Row
  <2>2. KeysOf(r) = {}
      BY DEF Init, KeysOf
  <2> QED
      BY <2>1, <2>2, FS_EmptySet
<1> QED
    BY <1>1, CountStep, Invariance, PTL DEF Spec

---------------------------------------------------------------------------
(* Refinement.                                                             *)

\* What a transaction commits is admitted by the register: its name is taken.
LEMMA Admits ==
    ASSUME IInv, NEW p \in Processes, pc[p] = "commit"
    PROVE  Register!Admitted(request[p])
<1> DEFINE q == request[p]
<1>1. Fits(q) /\ row[p] = Register!Effect(q)
    BY DEF IInv, RowInv
<1>2. ASSUME q.op \in {"create", "update"} PROVE Register!NameFree(q)
  <2>1. row[p].state = "active" /\ row[p].name = q.name
      BY <1>1, <1>2 DEF Register!Effect
  <2>2. ~ NameTaken(q.rule, q.name)
      BY <2>1 DEF IInv, NameInv
  <2> QED
      BY <2>2 DEF NameTaken, Register!NameFree
<1> QED
    BY <1>1, <1>2
    DEF Fits, RevisionIs, Register!Admitted, Register!NoCommand, Register!NoRequest,
        NoCommand, NoRequest

\* The transactions implement the register: a COMMIT, also one whose answer is
\* lost, is one command that happens at once; nothing else changes a table.
THEOREM Refinement == Spec => ImplementsRegister
<1>1. Init => Register!Init
    BY DEF Init, Register!Init, NoRule, Row, Register!NoRule, NoCommand, NoRequest,
           Register!NoCommand, Register!NoRequest
<1>2. ASSUME IInv, NEW p \in Processes, pc[p] = "commit", Publish(p)
      PROVE  Register!Next
  <2>1. request[p] \in Requests
      BY <1>2 DEF IInv, Calling
  <2>2. Register!Admitted(request[p]) /\ row[p] = Register!Effect(request[p])
      BY <1>2, Admits DEF IInv, RowInv
  <2>3. Register!Execute(request[p])
      BY <1>2, <2>2 DEF Publish, Response, Register!Execute
  <2> QED
      BY <2>1, <2>3 DEF Register!Next
<1>3. IInv /\ [Next]_vars => [Register!Next]_(Register!vars)
  <2>1. ASSUME IInv, NEW p \in Processes, Move(p) PROVE [Register!Next]_(Register!vars)
      BY <1>2, <2>1, Moves DEF tables, Register!vars
  <2> QED
      BY <2>1 DEF Next, Move, vars, tables, Register!vars
<1> QED
    BY <1>1, <1>3, Invariance, PTL DEF Spec, ImplementsRegister, Register!Spec
===========================================================================
