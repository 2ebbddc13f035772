-------------------------- MODULE ArchiveOldCalls ---------------------------
(***************************************************************************)
(* mor_archive_old_calls: moves rows older than N days from calls to       *)
(* calls_old, then their rows of call_details to call_details_old.  There  *)
(* is no transaction around a move: the program SELECTs a batch of ids,    *)
(* LOADs the rows into the destination, compares the destination's row     *)
(* count with what it expects, and DELETEs the ids from the source in      *)
(* smaller batches.  The program may be killed between any two statements, *)
(* signalled, stopped by its time limit, or refused by the server.         *)
(*                                                                         *)
(* A row of call_details is named by the id of its call.                   *)
(***************************************************************************)
EXTENDS Naturals, FiniteSets

CONSTANTS
    Ids,          \* ids of the calls
    Limit,        \* SQL_LIMIT: rows read per round
    DeleteBatch,  \* BATCH_SIZE: ids per DELETE
    FaultKinds    \* the faults the environment may inject, any number of times

\* sql     the server refuses a statement
\* crash   SIGKILL, power loss
\* skip    the server takes some rows of a LOAD only
\* early   SIGTERM or SIGINT before the task is marked IN PROGRESS
\* signal  SIGTERM or SIGINT after that
\* late    SIGTERM or SIGINT between task_failed = 0 and the tests of the flags
\* config  the task's configuration is withdrawn after it was created
\* limit   the task carries an Archive_till time, and it has come
Kinds == {"sql", "crash", "skip", "early", "signal", "late", "config", "limit"}

ASSUME ConstAssumption ==
    /\ IsFiniteSet(Ids)
    /\ Limit \in Nat \ {0}
    /\ DeleteBatch \in Nat \ {0}
    /\ FaultKinds \subseteq Kinds

VARIABLES
    src,          \* [Tables -> SUBSET Ids]: rows of calls and call_details
    dst,          \* the rows of calls_old and call_details_old
    old,          \* ids whose calldate < NOW() - older_than days
    task,         \* status of the background_tasks row being worked on
    pc,           \* the statement the program executes next
    tab,          \* db_from of the transfer_records call in progress
    batch,        \* ids[]: the rows read this round and not yet deleted
    records,      \* how many rows this round read
    total1,       \* records_old_total1
    forced_stop,
    finished,
    task_failed,
    marked,       \* error_handle's static flag
    faults,       \* history: the kinds of faults this run has met
    target        \* history: the calls that were old when this run began

dbVars   == <<src, dst, old>>
flagVars == <<forced_stop, finished, task_failed, marked>>
runVars  == <<faults, target>>
vars == <<dbVars, task, pc, tab, batch, records, total1, flagVars, runVars>>

Tables == {"calls", "call_details"}
Status == {"WAITING", "IN PROGRESS", "DONE", "FAILED"}
PC == {"off", "get", "config", "count", "select", "load", "verify", "delete",
       "end", "test", "finish", "retest", "unlock"}

\* Points from the task lock to the end of the transfers.
Transferring == {"count", "select", "load", "verify", "delete"}

\* Mutations of Eligible: the JOIN with calls_old forgotten; rows already
\* copied left out; the age condition forgotten.
EligibleWithoutJoin(t) == src[t] \cap old
EligibleUncopied(t) ==
    IF t = "calls" THEN (src[t] \cap old) \ dst[t]
    ELSE {c \in src[t] \ dst[t] : c \in dst["calls"] /\ c \in old}
EligibleAnyAge(t) == IF t = "calls" THEN src[t] ELSE src[t] \cap dst["calls"]

\* The rows a transfer's WHERE condition selects.
Eligible(t) ==
    IF t = "calls" THEN src[t] \cap old
    ELSE {c \in src[t] : c \in dst["calls"] /\ c \in old}

-----------------------------------------------------------------------------
Init ==
    /\ src = [t \in Tables |-> Ids]
    /\ dst = [t \in Tables |-> {}]
    /\ old \in SUBSET Ids
    /\ task = "DONE"
    /\ pc = "off" /\ tab = "calls" /\ batch = {} /\ records = 0 /\ total1 = 0
    /\ forced_stop = FALSE /\ finished = TRUE
    /\ task_failed = FALSE /\ marked = FALSE
    /\ faults = {}
    /\ target = {}

\* A day passes: one more call falls behind the limit.
GrowOld ==
    /\ \E c \in Ids \ old : old' = old \cup {c}
    /\ UNCHANGED <<src, dst, task, pc, tab, batch, records, total1, flagVars,
                   runVars>>

\* The launcher finds or inserts a WAITING task and starts the program, whose
\* variables have their initial values.
Launch ==
    /\ pc = "off"
    /\ task' = "WAITING"
    /\ pc' = "get"
    /\ tab' = "calls" /\ batch' = {} /\ records' = 0 /\ total1' = 0
    /\ forced_stop' = FALSE /\ finished' = TRUE
    /\ task_failed' = FALSE /\ marked' = FALSE
    /\ faults' = {}
    /\ target' = old
    /\ UNCHANGED dbVars

\* mor_task_get found the task: from here on a failure marks it FAILED.
GetTask ==
    /\ pc = "get"
    /\ task_failed' = TRUE
    /\ pc' = "config"
    /\ UNCHANGED <<dbVars, task, tab, batch, records, total1, forced_stop,
                   finished, marked, runVars>>

\* error_handle as it runs when the program exits, the server answering.
Exit ==
    /\ pc' = "off"
    /\ task' = IF task_failed /\ ~marked THEN "FAILED" ELSE task
    /\ marked' = TRUE
    /\ forced_stop' = TRUE
    /\ finished' = FALSE

Fault(K) ==
    /\ K \subseteq FaultKinds
    /\ faults' = faults \cup K
    /\ UNCHANGED target

\* Move_to_old_calls_older_than was set to 0 after the task was created.
NothingToDo ==
    /\ pc = "config"
    /\ Fault({"config"})
    /\ Exit
    /\ UNCHANGED <<dbVars, tab, batch, records, total1, task_failed>>

\* The configuration is read and the task marked IN PROGRESS.
LockTask ==
    /\ pc = "config"
    /\ task' = "IN PROGRESS"
    /\ pc' = "count"
    /\ UNCHANGED <<dbVars, tab, batch, records, total1, flagVars, runVars>>

\* After the transfer of calls comes that of call_details, then the end.
NextTransfer ==
    IF tab = "calls" THEN tab' = "call_details" /\ pc' = "count"
    ELSE tab' = tab /\ pc' = "end"

\* transfer_records: nothing to move returns at once, otherwise the rows of
\* the destination are counted.
CountRows ==
    /\ pc = "count"
    /\ \/ /\ Eligible(tab) = {}
          /\ NextTransfer
          /\ UNCHANGED total1
       \/ /\ Eligible(tab) # {}
          /\ total1' = Cardinality(dst[tab])
          /\ pc' = "select"
          /\ UNCHANGED tab
    /\ UNCHANGED <<dbVars, task, batch, records, flagVars, runVars>>

\* while (done == 0 && forced_stop == 0): SELECT ... LIMIT, in no stated order.
SelectBatch ==
    /\ pc = "select"
    /\ \/ /\ forced_stop \/ Eligible(tab) = {}
          /\ NextTransfer
          /\ UNCHANGED <<batch, records>>
       \/ /\ ~forced_stop
          /\ \E B \in SUBSET Eligible(tab) :
                /\ B # {}
                /\ \/ Cardinality(B) = Limit
                   \/ Cardinality(B) < Limit /\ B = Eligible(tab)
                /\ batch' = B
                /\ records' = Cardinality(B)
          /\ pc' = "load"
          /\ UNCHANGED tab
    /\ UNCHANGED <<dbVars, task, total1, flagVars, runVars>>

\* The server takes the rows whose key is new.
LoadBatch ==
    /\ pc = "load"
    /\ dst' = [dst EXCEPT ![tab] = @ \cup batch]
    /\ pc' = "verify"
    /\ UNCHANGED <<src, old, task, tab, batch, records, total1, flagVars, runVars>>

\* It takes some of them.
LoadSkips ==
    /\ pc = "load"
    /\ Fault({"skip"})
    /\ \E taken \in SUBSET batch : dst' = [dst EXCEPT ![tab] = @ \cup taken]
    /\ pc' = "verify"
    /\ UNCHANGED <<src, old, task, tab, batch, records, total1, flagVars>>

\* Mutation: the counts are not compared.
NothingCompared == TRUE

\* records_old_total2 - records_old_total1 != records_diff, negated.
CopyComplete == Cardinality(dst[tab]) - total1 = records

\* The destination must have grown by the rows read, or the program exits.
VerifyCount ==
    /\ pc = "verify"
    /\ \/ /\ CopyComplete
          /\ total1' = Cardinality(dst[tab])
          /\ pc' = "delete"
          /\ UNCHANGED <<task, flagVars>>
       \/ /\ ~CopyComplete
          /\ Exit
          /\ UNCHANGED <<total1, task_failed>>
    /\ UNCHANGED <<dbVars, tab, batch, records, runVars>>

\* Mutation: only full batches are deleted.
DeleteFullBatches ==
    /\ pc = "delete"
    /\ \E D \in SUBSET batch :
          /\ \/ Cardinality(D) = DeleteBatch
             \/ Cardinality(batch) < DeleteBatch /\ D = {}
          /\ src' = [src EXCEPT ![tab] = @ \ D]
          /\ batch' = batch \ D
          /\ pc' = IF Cardinality(batch) < 2 * DeleteBatch THEN "select" ELSE "delete"
    /\ UNCHANGED <<dst, old, task, tab, records, total1, flagVars, runVars>>

\* One DELETE: a full batch of ids, or those that are left.
DeleteRows ==
    /\ pc = "delete"
    /\ \E D \in SUBSET batch :
          /\ \/ Cardinality(D) = DeleteBatch
             \/ Cardinality(D) < DeleteBatch /\ D = batch
          /\ src' = [src EXCEPT ![tab] = @ \ D]
          /\ batch' = batch \ D
          /\ pc' = IF batch = D THEN "select" ELSE "delete"
    /\ UNCHANGED <<dst, old, task, tab, records, total1, flagVars, runVars>>

\* main, after the transfers: from here on no handler marks the task.
EndTransfers ==
    /\ pc = "end"
    /\ task_failed' = FALSE
    /\ pc' = "test"
    /\ UNCHANGED <<dbVars, task, tab, batch, records, total1, forced_stop,
                   finished, marked, runVars>>

\* if (finished && forced_stop == 0): a run that nothing has stopped.
TestFinished ==
    /\ pc = "test"
    /\ pc' = IF finished /\ ~forced_stop THEN "finish" ELSE "retest"
    /\ UNCHANGED <<dbVars, task, tab, batch, records, total1, flagVars, runVars>>

\* Mutation: a run stopped by its time limit settles nothing.
TestForgotten ==
    /\ pc = "retest"
    /\ pc' = "off"
    /\ UNCHANGED <<dbVars, task, tab, batch, records, total1, flagVars, runVars>>

\* if (finished && forced_stop == 1): one that its time limit has stopped.
TestStopped ==
    /\ pc = "retest"
    /\ pc' = IF finished /\ forced_stop THEN "unlock" ELSE "off"
    /\ UNCHANGED <<dbVars, task, tab, batch, records, total1, flagVars, runVars>>

\* mor_task_finish: status = 2 and 100 percent, then mor_task_unlock(3).
FinishTask ==
    /\ pc = "finish"
    /\ task' = "IN PROGRESS"
    /\ pc' = "unlock"
    /\ UNCHANGED <<dbVars, tab, batch, records, total1, flagVars, runVars>>

\* mor_task_unlock(3), then the exit handler finds nothing to mark.  After
\* mor_task_finish the second test can at most repeat the UPDATE.
UnlockTask ==
    /\ pc = "unlock"
    /\ task' = "DONE"
    /\ pc' = "off"
    /\ UNCHANGED <<dbVars, tab, batch, records, total1, flagVars, runVars>>
-----------------------------------------------------------------------------
\* check_time_limit, in the timer thread, finds that it is Archive_till.  The
\* thread is cancelled after the transfers, but sees that only when it sleeps.
TimeLimit ==
    /\ pc \notin {"off", "get", "config"}
    /\ ~forced_stop
    /\ Fault({"limit"})
    /\ forced_stop' = TRUE
    /\ UNCHANGED <<dbVars, task, pc, tab, batch, records, total1, finished,
                   task_failed, marked>>

SignalKind ==
    IF pc \in {"get", "config"} THEN "early"
    ELSE IF pc \in {"test", "retest"} THEN "late" ELSE "signal"

\* Mutation: the handler forgets finished = 0.
SignalKeepsFinished ==
    /\ pc # "off"
    /\ Fault({SignalKind})
    /\ task' = IF task_failed /\ ~marked THEN "FAILED" ELSE task
    /\ marked' = TRUE
    /\ forced_stop' = TRUE
    /\ UNCHANGED <<dbVars, pc, tab, batch, records, total1, finished, task_failed>>

\* SIGTERM or SIGINT: error_handle runs and the program carries on.
Signal ==
    /\ pc # "off"
    /\ Fault({SignalKind})
    /\ task' = IF task_failed /\ ~marked THEN "FAILED" ELSE task
    /\ marked' = TRUE
    /\ forced_stop' = TRUE
    /\ finished' = FALSE
    /\ UNCHANGED <<dbVars, pc, tab, batch, records, total1, task_failed>>

\* The handler's own UPDATE is refused: mor_task_unlock exits, and the handler,
\* which has not got to marked = 1, runs once more.
SignalRefused ==
    /\ pc # "off" /\ task_failed /\ ~marked
    /\ Fault({SignalKind, "sql"})
    /\ \/ Exit
       \/ /\ pc' = "off"
          /\ UNCHANGED <<task, marked, forced_stop, finished>>
    /\ UNCHANGED <<dbVars, tab, batch, records, total1, task_failed>>

\* The statement at pc is refused and the program exits; the UPDATE that
\* marks the task FAILED may be refused too.
SqlError ==
    /\ pc \notin {"off", "end", "test", "retest"}
    /\ Fault({"sql"})
    /\ \/ Exit
       \/ /\ pc' = "off"
          /\ UNCHANGED <<task, marked, forced_stop, finished>>
    /\ UNCHANGED <<dbVars, tab, batch, records, total1, task_failed>>

\* SIGKILL, power loss: no handler runs.
Crash ==
    /\ pc # "off"
    /\ Fault({"crash"})
    /\ pc' = "off"
    /\ UNCHANGED <<dbVars, task, tab, batch, records, total1, flagVars>>

Program ==
    \/ GetTask \/ LockTask \/ CountRows \/ SelectBatch \/ LoadBatch
    \/ VerifyCount \/ DeleteRows \/ EndTransfers \/ TestFinished \/ TestStopped
    \/ FinishTask \/ UnlockTask

\* What the program is not asked to cope with for ever.
Disturbance ==
    \/ NothingToDo \/ LoadSkips \/ Signal \/ SignalRefused \/ SqlError \/ Crash
    \/ TimeLimit

Environment == GrowOld \/ Disturbance

Next == Launch \/ Program \/ Environment

Spec == Init /\ [][Next]_vars

\* The program keeps running while it is alive, and cron keeps launching it.
FairSpec == Spec /\ WF_vars(Program) /\ WF_vars(Launch)
-----------------------------------------------------------------------------
\* The variables have their types.
TypeOK ==
    /\ src \in [Tables -> SUBSET Ids]
    /\ dst \in [Tables -> SUBSET Ids]
    /\ old \in SUBSET Ids
    /\ task \in Status
    /\ pc \in PC
    /\ tab \in Tables
    /\ batch \in SUBSET Ids
    /\ records \in Nat /\ total1 \in Nat
    /\ forced_stop \in BOOLEAN /\ finished \in BOOLEAN
    /\ task_failed \in BOOLEAN /\ marked \in BOOLEAN
    /\ faults \subseteq Kinds
    /\ target \in SUBSET Ids

\* At no point between the LOAD and the DELETEs, whatever the server skips
\* and wherever the program dies, is a row in neither table: the DELETE of
\* delete_records_from_database only ever names rows whose copy was counted.
NoRowLost == \A t \in Tables : src[t] \cup dst[t] = Ids

\* The details of a call are archived only after the call itself: reports
\* that JOIN calls_old with call_details_old never meet an orphan.
DetailsFollowCall == dst["call_details"] \subseteq dst["calls"]

\* A run that ends on its own has left no row in both tables, not even one
\* an earlier, killed run had copied and not deleted: reports that add calls
\* and calls_old count every call once.
FinishedRunLeavesNoDuplicate ==
    pc = "finish" => \A t \in Tables : src[t] \cap dst[t] = {}

\* A run that is going to report DONE has moved every call that was old when
\* it began, and its details, unless the task's time limit stopped it: a
\* signalled program, which runs on to the end of main, does not get there.
DoneRunMovedTarget ==
    pc = "finish" \/ (pc = "unlock" /\ "limit" \notin faults) =>
        \A t \in Tables : target \subseteq dst[t] \ src[t]

\* The program does not leave its task IN PROGRESS, whatever ends its run: the
\* handlers it installs for SIGTERM, SIGINT and exit see to that.  Not so when no
\* handler runs or the server refuses its UPDATE, when the signal comes before the
\* program itself marks the task IN PROGRESS, and when it comes after task_failed
\* was cleared and before the flags are looked at: then nobody marks the task.
TaskSettled ==
    pc = "off" /\ task = "IN PROGRESS" =>
        faults \cap {"early", "late", "crash", "sql"} # {}

\* Every old call is moved in the end, with its details, once the program is
\* left in peace and cron keeps launching it, whatever happened before.
EventuallyMoved ==
    <>[][~Disturbance]_vars =>
        \A c \in Ids : c \in old ~> \A t \in Tables : c \in dst[t] \ src[t]

\* Unless a statement fails, rows are skipped or the program is killed in some
\* run, every old call is moved in the end, with its details, once signals,
\* edits and time limits stop.
MovedUnlessDamaged ==
    [](faults \cap {"sql", "skip", "crash"} = {}) => EventuallyMoved

\* A reader sees a call in calls until its row is deleted there.
Where == [c \in Ids |-> IF c \in src["calls"] THEN "live"
                        ELSE IF c \in dst["calls"] THEN "archived" ELSE "lost"]

Archive == INSTANCE CallArchive WITH where <- Where

\* The statements of the program add up to indivisible moves of old calls.
ImplementsCallArchive == Archive!Spec
=============================================================================
