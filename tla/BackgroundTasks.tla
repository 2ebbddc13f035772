-------------------------- MODULE BackgroundTasks ---------------------------
(***************************************************************************)
(* The table background_tasks, the launcher mor_background_tasks that cron *)
(* starts every minute, and the life of a task in the three programs the   *)
(* launcher runs: mor_archive_old_calls, mor_cdr_rerate and mor_invoices.  *)
(*                                                                         *)
(* The launcher waits for the program it has started (system()), and every *)
(* program looks in the process list for another one of its own path.  The *)
(* programs find and settle their task by separate statements, so what     *)
(* keeps two of them from one task, and what a kill, a signal, a refused   *)
(* statement or a lost connection leaves behind, depends on all four       *)
(* sources together.                                                       *)
(*                                                                         *)
(* One tick is one start of cron.  Ages are counted in ticks up to OneHour.*)
(***************************************************************************)
EXTENDS Naturals, Sequences, FiniteSets

CONSTANTS
    GuiKinds,     \* the kinds of task the GUI creates
    MaxTasks,     \* bound: how many tasks there will be
    MaxFaults,    \* bound: how many faults there will be
    FaultKinds,   \* which ones
    Processes,    \* room for running programs
    FiveMinutes,  \* ticks the archiving window lasts, and "recently" means
    OneHour,      \* ticks after which an IN PROGRESS task is not active
    Day           \* ticks of a day; it begins with Archive_at

TaskKinds == {"archive", "rerate", "invoices", "recalculate"}

\* kill      SIGKILL of a program
\* signal    SIGTERM, SIGINT or SIGSEGV of a program
\* sql       the server refuses a statement of a program
\* lost      a program loses its connection to the server
\* launcher  the launcher is killed, its program lives on
Faults == {"kill", "signal", "sql", "lost", "launcher"}

ASSUME ConstAssumption ==
    /\ GuiKinds \subseteq TaskKinds
    /\ MaxTasks \in Nat /\ MaxFaults \in Nat
    /\ FaultKinds \subseteq Faults
    /\ IsFiniteSet(Processes)
    /\ FiveMinutes \in Nat /\ OneHour \in Nat /\ FiveMinutes < OneHour
    /\ Day \in Nat /\ FiveMinutes < Day

VARIABLES
    tasks,     \* the rows of background_tasks, in the order they were created
    clock,     \* the time of the day
    due,       \* cron has yet to start the launcher in this tick
    launcher,  \* what the launcher does next
    procs,     \* the running programs
    left,      \* how many faults may still happen
    met        \* history: the kinds of faults met so far

vars == <<tasks, clock, due, launcher, procs, left, met>>

history == <<left, met>>

Status == {"WAITING", "IN PROGRESS", "DONE", "FAILED"}

\* The path of a kind's program: invoices and recalculation share it.
Path(kind) == IF kind = "recalculate" THEN "invoices" ELSE kind

Off == [kind |-> "none", pc |-> "off", id |-> 0,
        task_failed |-> FALSE, marked |-> FALSE, finished |-> TRUE]

Running == {p \in Processes : procs[p].pc # "off"}

\* Past the process lock.
Admitted == {p \in Running : procs[p].pc # "start"}

\* Mutation of IsActive: without the hour an abandoned task stays active.
IsInProgress(t) == tasks[t].status = "IN PROGRESS"

\* status = 'IN PROGRESS' AND created_at > NOW() - 1 hour
IsActive(t) == tasks[t].status = "IN PROGRESS" /\ tasks[t].age < OneHour

Active(kinds) == \E t \in DOMAIN tasks : tasks[t].kind \in kinds /\ IsActive(t)

WaitingTasks(kind) ==
    {t \in DOMAIN tasks : tasks[t].kind = kind /\ tasks[t].status = "WAITING"}

NewTask(kind) == [kind |-> kind, status |-> "WAITING", age |-> 0, starts |-> 0]

-----------------------------------------------------------------------------
Init ==
    /\ tasks = <<>>
    /\ clock \in 0 .. Day - 1
    /\ due = FALSE
    /\ launcher = [pc |-> "off", child |-> {}]
    /\ procs = [p \in Processes |-> Off]
    /\ left = MaxFaults /\ met = {}

\* A minute passes.  The launcher's checks take less than that.
Tick ==
    /\ launcher.pc \in {"off", "wait"}
    /\ ~due
    /\ due' = TRUE
    /\ clock' = (clock + 1) % Day
    /\ tasks' = [t \in DOMAIN tasks |->
                   [tasks[t] EXCEPT !.age = IF @ < OneHour THEN @ + 1 ELSE @]]
    /\ UNCHANGED <<launcher, procs, history>>

\* The GUI inserts a task.
GuiCreates(kind) ==
    /\ kind \in GuiKinds
    /\ Len(tasks) < MaxTasks
    /\ tasks' = Append(tasks, NewTask(kind))
    /\ UNCHANGED <<clock, due, launcher, procs, history>>

-----------------------------------------------------------------------------
(***************************************************************************)
(* The launcher.                                                           *)
(***************************************************************************)
Goto(pc) == launcher' = [launcher EXCEPT !.pc = pc]

\* cron starts a launcher; it ends at once if an earlier one is still there.
Cron ==
    /\ due
    /\ due' = FALSE
    /\ IF launcher.pc = "off" THEN Goto("active") ELSE UNCHANGED launcher
    /\ UNCHANGED <<tasks, clock, procs, history>>

\* Mutation of Launch: the program is started in the background.
LaunchDetached(kind) ==
    \E p \in Processes \ Running :
        /\ procs' = [procs EXCEPT ![p] = [Off EXCEPT !.kind = kind, !.pc = "start",
                                !.task_failed = Path(kind) = "invoices"]]
        /\ launcher' = [pc |-> "off", child |-> {}]

\* system(): the launcher waits for the program, whose variables have their
\* initial values; task_failed is 1 from the start in mor_invoices only.
Launch(kind) ==
    LET p == CHOOSE q \in Processes \ Running : TRUE
    IN  /\ Processes \ Running # {}
        /\ procs' = [procs EXCEPT ![p] = [Off EXCEPT !.kind = kind, !.pc = "start",
                                !.task_failed = Path(kind) = "invoices"]]
        /\ launcher' = [pc |-> "wait", child |-> {p}]

\* check_background_tasks
CheckActive ==
    /\ launcher.pc = "active"
    /\ Goto(IF Active(TaskKinds) THEN "off" ELSE "archive")
    /\ UNCHANGED <<tasks, clock, due, procs, history>>

\* check_archive_old_calls up to the count of WAITING tasks.
CheckArchive ==
    /\ launcher.pc = "archive"
    /\ IF clock > FiveMinutes \/ Active({"archive"})
       THEN Goto("rerate") /\ UNCHANGED procs
       ELSE IF WaitingTasks("archive") = {}
       THEN Goto("recent") /\ UNCHANGED procs
       ELSE Launch("archive")
    /\ UNCHANGED <<tasks, clock, due, history>>

\* check_archive_old_calls creates the task, unless there was one recently.
\* At the bound MaxTasks no more is created.
CreateArchive ==
    /\ launcher.pc = "recent"
    /\ IF \/ \E t \in DOMAIN tasks : /\ tasks[t].kind = "archive"
                                     /\ tasks[t].age < FiveMinutes
          \/ Len(tasks) >= MaxTasks
       THEN Goto("rerate") /\ UNCHANGED <<tasks, procs>>
       ELSE /\ tasks' = Append(tasks, NewTask("archive"))
            /\ Launch("archive")
    /\ UNCHANGED <<clock, due, history>>

\* check_cdr_rerate
CheckRerate ==
    /\ launcher.pc = "rerate"
    /\ IF Active({"rerate"}) \/ WaitingTasks("rerate") = {}
       THEN Goto("invoices") /\ UNCHANGED procs
       ELSE Launch("rerate")
    /\ UNCHANGED <<tasks, clock, due, history>>

\* check_invoices: new invoices come before recalculated ones.
CheckInvoices ==
    /\ launcher.pc = "invoices"
    /\ LET idle == ~Active({"invoices", "recalculate"})
       IN  \/ /\ idle /\ WaitingTasks("invoices") # {}
              /\ Launch("invoices")
           \/ /\ idle /\ WaitingTasks("invoices") = {}
              /\ WaitingTasks("recalculate") # {}
              /\ Launch("recalculate")
           \/ /\ ~idle \/ WaitingTasks("invoices") \cup
                          WaitingTasks("recalculate") = {}
              /\ Goto("off") /\ UNCHANGED procs
    /\ UNCHANGED <<tasks, clock, due, history>>

\* system() returns and the launcher ends.
ChildEnded ==
    /\ launcher.pc = "wait"
    /\ launcher.child \cap Running = {}
    /\ launcher' = [pc |-> "off", child |-> {}]
    /\ UNCHANGED <<tasks, clock, due, procs, history>>

Launcher ==
    CheckActive \/ CheckArchive \/ CreateArchive \/ CheckRerate \/ CheckInvoices
        \/ ChildEnded

-----------------------------------------------------------------------------
(***************************************************************************)
(* The programs.  Step(p, pc, u) is process p going on at pc with its      *)
(* variables otherwise as in the record u.                                 *)
(***************************************************************************)
Step(p, pc, u) == procs' = [procs EXCEPT ![p] = [u EXCEPT !.pc = pc]]

Ends(p) == procs' = [procs EXCEPT ![p] = Off]

SetStatus(id, status) == tasks' = [tasks EXCEPT ![id].status = status]

StartWork(id, status) ==
    tasks' = [tasks EXCEPT ![id].status = status, ![id].starts = @ + 1]

\* error_handle: the task is marked FAILED once, if it was not completed.
ErrorHandle(u) ==
    IF u.task_failed /\ ~u.marked /\ u.id # 0
    THEN SetStatus(u.id, "FAILED")
    ELSE UNCHANGED tasks

\* Mutation of ProcessLock: nothing is looked for.
NoProcessLock(p) ==
    /\ procs[p].pc = "start"
    /\ Step(p, "get", procs[p])
    /\ UNCHANGED tasks

\* mor_init: another process of the same path ends this one.
ProcessLock(p) ==
    /\ procs[p].pc = "start"
    /\ IF \E q \in Running \ {p} : Path(procs[q].kind) = Path(procs[p].kind)
       THEN Ends(p)
       ELSE Step(p, "get", procs[p])
    /\ UNCHANGED tasks

\* mor_task_get: an oldest WAITING task; without one the program ends.  What
\* fails before task_failed is set next has the effect of failing before this.
TaskGet(p) ==
    LET ids == WaitingTasks(procs[p].kind)
    IN  /\ procs[p].pc = "get"
        /\ \/ ids = {} /\ Ends(p)
           \/ \E t \in ids :
                /\ \A other \in ids : tasks[other].age <= tasks[t].age
                /\ Step(p, "prepare",
                        [procs[p] EXCEPT !.task_failed = TRUE, !.id = t])
        /\ UNCHANGED tasks

\* What comes before the work: settings and, in mor_cdr_rerate, the count of
\* calls.  mor_invoices goes to work without mor_task_lock.
Prepare(p) ==
    LET u == procs[p]
    IN  /\ u.pc = "prepare"
        /\ \/ /\ u.kind \in {"archive", "rerate"}
              /\ Step(p, "lock", u)
              /\ UNCHANGED tasks
           \/ /\ u.kind = "rerate"           \* there are no calls
              /\ Step(p, "finish", [u EXCEPT !.task_failed = FALSE])
              /\ UNCHANGED tasks
           \/ /\ Path(u.kind) = "invoices"
              /\ Step(p, "work", u)
              /\ StartWork(u.id, tasks[u.id].status)

\* Archiving was switched off since, or an invoice task has bad data.
GiveUp(p) ==
    /\ procs[p].pc = "prepare"
    /\ procs[p].kind # "rerate"
    /\ ErrorHandle(procs[p])
    /\ Ends(p)

\* Mutation of TaskLock: the row is not updated.
TaskLockLate(p) ==
    /\ procs[p].pc = "lock"
    /\ Step(p, "work", procs[p])
    /\ StartWork(procs[p].id, tasks[procs[p].id].status)

\* mor_task_lock
TaskLock(p) ==
    /\ procs[p].pc = "lock"
    /\ Step(p, "work", procs[p])
    /\ StartWork(procs[p].id, "IN PROGRESS")

\* Mutation of Work: every program clears task_failed before it finishes.
WorkClearsFailed(p) ==
    /\ procs[p].pc = "work"
    /\ Step(p, "finish", [procs[p] EXCEPT !.task_failed = FALSE])
    /\ UNCHANGED tasks

\* The work is done.  mor_archive_old_calls clears task_failed now, the others
\* when they exit.
Work(p) ==
    /\ procs[p].pc = "work"
    /\ IF procs[p].kind = "archive"
       THEN Step(p, "test", [procs[p] EXCEPT !.task_failed = FALSE])
       ELSE Step(p, "finish", procs[p])
    /\ UNCHANGED tasks

\* finished and forced_stop: at its time limit mor_archive_old_calls skips the
\* first UPDATE, and after a signal both.
TestStopped(p) ==
    /\ procs[p].pc = "test"
    /\ \E pc \in IF procs[p].finished THEN {"finish", "unlock"} ELSE {"close"} :
         Step(p, pc, procs[p])
    /\ UNCHANGED tasks

\* mor_task_finish writes IN PROGRESS once more,
TaskFinish(p) ==
    /\ procs[p].pc = "finish"
    /\ SetStatus(procs[p].id, "IN PROGRESS")
    /\ Step(p, "unlock", procs[p])

\* and then calls mor_task_unlock(3).
TaskUnlock(p) ==
    /\ procs[p].pc = "unlock"
    /\ SetStatus(procs[p].id, "DONE")
    /\ Step(p, "close", procs[p])

\* Mutation of Close: task_failed is never cleared.
CloseAsFailed(p) ==
    /\ procs[p].pc = "close"
    /\ ErrorHandle(procs[p])
    /\ Ends(p)

\* task_failed = 0 and the program ends.
Close(p) ==
    /\ procs[p].pc = "close"
    /\ Ends(p)
    /\ UNCHANGED tasks

Program(p) ==
    /\ \/ ProcessLock(p) \/ TaskGet(p) \/ Prepare(p) \/ GiveUp(p) \/ TaskLock(p)
       \/ Work(p) \/ TestStopped(p) \/ TaskFinish(p) \/ TaskUnlock(p) \/ Close(p)
    /\ UNCHANGED <<clock, due, launcher, history>>

-----------------------------------------------------------------------------
Fault(kind) ==
    /\ kind \in FaultKinds
    /\ left > 0
    /\ left' = left - 1
    /\ met' = met \cup {kind}
    /\ UNCHANGED <<clock, due>>

Kill(p) ==
    /\ Fault("kill")
    /\ Ends(p)
    /\ UNCHANGED <<tasks, launcher>>

\* The handlers of mor_cdr_rerate and mor_invoices exit; the one of
\* mor_archive_old_calls sets its flags and returns to the program.
Signal(p) ==
    /\ Fault("signal")
    /\ ErrorHandle(procs[p])
    /\ IF procs[p].kind = "archive"
       THEN Step(p, procs[p].pc, [procs[p] EXCEPT !.marked = TRUE, !.finished = FALSE])
       ELSE Ends(p)
    /\ UNCHANGED launcher

\* exit(1) or return 1: the exit handler runs, over a connection that works.
Refused(p) ==
    /\ Fault("sql")
    /\ procs[p].pc \notin {"start", "close"}
    /\ ErrorHandle(procs[p])
    /\ Ends(p)
    /\ UNCHANGED launcher

\* Nothing connects again: the statement fails, and the UPDATE of the exit handler
\* with it.  One that fails in a signal handler comes to the same.
Disconnected(p) ==
    /\ Fault("lost")
    /\ procs[p].pc \notin {"start", "close"}
    /\ Ends(p)
    /\ UNCHANGED <<tasks, launcher>>

KillLauncher ==
    /\ Fault("launcher")
    /\ launcher.pc # "off"
    /\ launcher' = [pc |-> "off", child |-> {}]
    /\ UNCHANGED <<tasks, procs>>

Next ==
    \/ Tick \/ Cron \/ Launcher
    \/ \E kind \in TaskKinds : GuiCreates(kind)
    \/ \E p \in Processes : Program(p)
    \/ \E p \in Running : Kill(p) \/ Signal(p) \/ Refused(p) \/ Disconnected(p)
    \/ KillLauncher

Spec == Init /\ [][Next]_vars

\* Time passes, cron works, and a program that was started runs to its end.
FairSpec ==
    /\ Spec
    /\ WF_vars(Tick) /\ WF_vars(Cron) /\ WF_vars(Launcher)
    /\ \A p \in Processes : WF_vars(Program(p))

-----------------------------------------------------------------------------
IsWaiting(t) == t \in DOMAIN tasks /\ tasks[t].status = "WAITING"
\* Rows, launcher and programs have the values their sources allow; a program
\* past mor_task_get has a task of its kind (mor_functions.c 522-571).
TypeOK ==
    /\ tasks \in Seq([kind : TaskKinds, status : Status, age : 0 .. OneHour,
                      starts : 0 .. MaxFaults + 1])
    /\ Len(tasks) <= MaxTasks
    /\ clock \in 0 .. Day - 1 /\ due \in BOOLEAN
    /\ launcher \in [pc : {"off", "active", "archive", "recent", "rerate",
                           "invoices", "wait"}, child : SUBSET Processes]
    /\ \A p \in Processes :
         \/ procs[p] = Off
         \/ procs[p].pc \in {"start", "get"} /\ procs[p].id = 0
         \/ /\ procs[p].pc \in {"prepare", "lock", "work", "test", "finish", "unlock",
                               "close"}
            /\ procs[p].id \in DOMAIN tasks
            /\ tasks[procs[p].id].kind = procs[p].kind
    /\ left \in 0 .. MaxFaults /\ met \subseteq Faults

\* No task is in the hands of two programs.  mor_invoices never marks its task,
\* so a launcher that takes over from a killed one starts it for the same task;
\* only the process list stands between them (mor_functions.c 183-215).
OneProgramPerTask ==
    \A p, q \in Admitted : p # q => procs[p].id # procs[q].id \/ procs[p].id = 0

\* The programs change the same tables and are meant to run one at a time: that
\* holds as long as the launcher that started the first one lives
\* (mor_background_tasks.c 27-62).
ProgramsRunAlone ==
    Cardinality(Running) > 1 => "launcher" \in met

\* A task is worked on once: rerating adjusts balances, and archiving moves
\* rows.  Invoices are begun again when nothing could be marked: after a kill, or
\* when the connection was lost, and only then
\* (mor_cdr_rerate.c 89, mor_archive_old_calls.c 172, mor_functions.c 613).
WorkedOnce ==
    \A t \in DOMAIN tasks :
        tasks[t].starts > 1 =>
            /\ Path(tasks[t].kind) = "invoices"
            /\ "kill" \in met \/ "lost" \in met

\* A task that stays IN PROGRESS with nobody working on it is explained by a
\* kill or a lost connection or, in archiving and rerating, by a signal or a
\* refused statement: those two may have cleared task_failed before
\* mor_task_finish, mor_invoices has not
\* (mor_archive_old_calls.c 190, mor_cdr_rerate.c 80, mor_invoices.c 118-128).
LeftInProgressIsExplained ==
    \A t \in DOMAIN tasks :
        (tasks[t].status = "IN PROGRESS" /\ \A p \in Running : procs[p].id # t) =>
            \/ "kill" \in met \/ "lost" \in met
            \/ /\ "sql" \in met \/ "signal" \in met
               /\ tasks[t].kind \in {"archive", "rerate"}

\* What the GUI shows as DONE or FAILED changes only when a signal strikes a
\* program that has settled its task and not yet cleared task_failed, or one
\* that goes on after its handler (mor_cdr_rerate.c 201, mor_invoices.c 128).
AnswersAreFinal ==
    [][\A t \in DOMAIN tasks :
         (tasks[t].status \in {"DONE", "FAILED"} /\ tasks'[t].status # tasks[t].status)
            => "signal" \in met']_vars

\* Every task is taken up in the end, whatever abandoned task was in its way:
\* an IN PROGRESS one counts for an hour after its creation, a launcher waits
\* for a program that ends, an archive task waits for the next day's window.
EventuallyTaken ==
    \A t \in 1 .. MaxTasks : IsWaiting(t) ~> ~IsWaiting(t)
=============================================================================
