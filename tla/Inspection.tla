---------------------------- MODULE Inspection ----------------------------
(***************************************************************************)
(* inspect_execution beside the workers of module Executions.  One call    *)
(* reads the execution, a page of its attempts and its action receipts     *)
(* with three statements and no transaction around them, so that workers   *)
(* go on in between.  A reader follows next_attempt_cursor to the end and  *)
(* joins the pages.  One inspection is made in a behaviour.                *)
(***************************************************************************)
EXTENDS Executions, Sequences

CONSTANTS AttemptLimit,  \* attempt_limit of the request
          Targets,       \* the executions that are inspected
          NoCursor       \* null in next_attempt_cursor, no attempt_after

ASSUME InspectionAssumption == 
    /\ AttemptLimit \in Nat \ {0}
    /\ Targets \subseteq Executions
    /\ NoCursor \notin AttemptNumbers

VARIABLES
    step,    \* the statement of the call, 4 after the last one
    target,  \* the inspected execution
    cursor,  \* attempt_after of the call, then next_attempt_cursor of its answer
    row,     \* the execution as its first page shows it
    pages,   \* the attempt_receipts of the pages so far
    shown    \* the action receipts that the last page shows

reader == <<step, target, cursor, row, pages, shown>>

\* Mutant of Statements: the attempts are read before the execution.
StatementsAttemptsFirst == <<"attempts", "row", "actions">>

\* The order of the statements of inspect_execution.
Statements == <<"row", "attempts", "actions">>

At(statement) == step \in 1..3 /\ Statements[step] = statement

NoRow == [status |-> "none", attempts |-> 0]

InspectionInit ==
    /\ Init
    /\ step = 1
    /\ target \in Targets
    /\ cursor = NoCursor
    /\ row = NoRow
    /\ pages = <<>>
    /\ shown = [i \in Indexes |-> "none"]

\* SELECT ... FROM automation_executions; every page reads it again.
InspectRow ==
    /\ At("row")
    /\ step' = IF status[target] = "absent" THEN 4 ELSE step + 1
    /\ row' = IF row = NoRow /\ status[target] # "absent"
              THEN [status |-> status[target], attempts |-> attempts[target]]
              ELSE row
    /\ UNCHANGED <<target, cursor, pages, shown>>

\* parse_revision of attempt_after, or 0.
After == IF cursor = NoCursor THEN 0 ELSE cursor

\* attempt > $2
AttemptRows == {k \in AttemptNumbers : k > After /\ ledger[target][k] # "none"}

\* ORDER BY attempt LIMIT attempt_limit + 1, and the rows that truncate keeps.
Place(k) == Cardinality({j \in AttemptRows : j <= k})
Kept == {k \in AttemptRows : Place(k) <= AttemptLimit}
has_more == Cardinality(AttemptRows) > AttemptLimit

\* Mutant of CursorRow: the cursor is the row that was read beyond the page.
CursorRowBeyond == CHOOSE k \in AttemptRows : Place(k) = AttemptLimit + 1

\* The cursor is the last row of the page.
CursorRow == CHOOSE k \in Kept : Place(k) = AttemptLimit

\* SELECT ... FROM automation_attempts.
InspectAttempts ==
    /\ At("attempts")
    /\ step' = step + 1
    /\ cursor' = IF has_more THEN CursorRow ELSE NoCursor
    /\ pages' = pages \o [n \in 1..Cardinality(Kept) |->
            LET k == CHOOSE k \in Kept : Place(k) = n
            IN  [attempt |-> k, status |-> ledger[target][k]]]
    /\ UNCHANGED <<target, row, shown>>

\* SELECT ... FROM automation_action_receipts; the reader asks for the next
\* page if there is one.
InspectActions ==
    /\ At("actions")
    /\ step' = IF cursor = NoCursor THEN 4 ELSE 1
    /\ shown' = IF cursor = NoCursor THEN receipt[target] ELSE shown
    /\ UNCHANGED <<target, cursor, row, pages>>

Reader == InspectRow \/ InspectAttempts \/ InspectActions

InspectionNext ==
    \/ Next /\ UNCHANGED reader
    \/ Reader /\ UNCHANGED vars

InspectionSpec == InspectionInit /\ [][InspectionNext]_<<vars, reader>>

---------------------------------------------------------------------------
(* Properties.                                                             *)

Inspected == step = 4 /\ row # NoRow

\* The pages of an execution that goes on meanwhile are its attempts from the
\* first on, each of them once, at least as many as its first page counts.
PagesComplete ==
    /\ \A n \in DOMAIN pages : pages[n].attempt = n
    /\ Inspected => Len(pages) >= row.attempts

\* What a reader is told of an execution that has ended is one story, although
\* it is read piece by piece: the number of attempts, the outcome of the last
\* one and the status of the execution agree, and no action is shown as
\* succeeded that Projects has not applied.
InspectionAgrees ==
    Inspected =>
        /\ row.status \in Terminal =>
            /\ Len(pages) = row.attempts
            /\ \A n \in DOMAIN pages : pages[n].status =
                IF n = row.attempts THEN row.status ELSE "retryable"
        /\ \A i \in Indexes : shown[i] = "succeeded" => i \in applied[target]
===========================================================================
