----------------------- MODULE BackgroundTasks_proofs -----------------------
(***************************************************************************)
(* For any number of tasks, processes and faults: no task is in the hands  *)
(* of two programs.  Nothing in the table says so, because mor_invoices    *)
(* does not mark its task.  The argument is the process list: two admitted *)
(* programs have different paths, a program's task is of its own kind, and *)
(* a kind belongs to one path.  That a task is worked on once, that        *)
(* programs run one at a time, that a task left IN PROGRESS is explained   *)
(* and that answers remain are built on this, each with an invariant of    *)
(* its own (WorkInv, AloneInv, LeftInv).                                   *)
(***************************************************************************)
EXTENDS BackgroundTasks, FiniteSetTheorems, TLAPS

PCs == {"off", "start", "get", "prepare", "lock", "work", "test", "finish", "unlock",
        "close"}

Rows == [kind : TaskKinds, status : Status, age : Nat, starts : Nat]

Programs == [kind : TaskKinds \cup {"none"}, pc : PCs, id : Nat,
             task_failed : BOOLEAN, marked : BOOLEAN, finished : BOOLEAN]

\* A program has no task before mor_task_get, and one of its kind after it.
Holds(u) ==
    /\ u.pc \in {"off", "start", "get"} <=> u.id = 0
    /\ u.id # 0 => u.id \in DOMAIN tasks /\ tasks[u.id].kind = u.kind

IsAdmitted(u) == u.pc \notin {"off", "start"}

LockInv ==
    /\ tasks \in Seq(Rows)
    /\ procs \in [Processes -> Programs]
    /\ \A p \in Processes : Holds(procs[p])
    /\ \A p, q \in Processes :
         p # q /\ IsAdmitted(procs[p]) /\ IsAdmitted(procs[q]) =>
            Path(procs[p].kind) # Path(procs[q].kind)

\* What every step leaves of the table: rows stay and keep their kind.
RowsStay ==
    /\ tasks' \in Seq(Rows)
    /\ DOMAIN tasks \subseteq DOMAIN tasks'
    /\ \A t \in DOMAIN tasks : tasks'[t].kind = tasks[t].kind

\* What every step that touches a program makes of it.
MayBecome(p, u) ==
    /\ u \in Programs
    /\ Holds(u)
    /\ IsAdmitted(u) => \A q \in Processes \ {p} :
         IsAdmitted(procs[q]) => Path(procs[q].kind) # Path(u.kind)

OneProgramMoves == \E p \in Processes : \E u :
    MayBecome(p, u) /\ procs' = [procs EXCEPT ![p] = u]

-----------------------------------------------------------------------------
LEMMA SameRows == LockInv /\ UNCHANGED tasks => RowsStay
  BY DEF LockInv, RowsStay

LEMMA NewRow ==
  ASSUME LockInv, NEW k \in TaskKinds, tasks' = Append(tasks, NewTask(k))
  PROVE  RowsStay
<1>1. NewTask(k) \in Rows
  BY DEF NewTask, Rows, Status
<1>2. tasks \in Seq(Rows)
  BY DEF LockInv
<1>3. tasks' \in Seq(Rows) /\ Len(tasks') = Len(tasks) + 1
  BY <1>1, <1>2
<1>4. \A t \in 1 .. Len(tasks) : tasks'[t] = tasks[t]
  BY <1>1, <1>2
<1> QED
  BY <1>2, <1>3, <1>4 DEF RowsStay

LEMMA UpdatedRow ==
  ASSUME LockInv, NEW id \in DOMAIN tasks, NEW r \in Rows,
         r.kind = tasks[id].kind, tasks' = [tasks EXCEPT ![id] = r]
  PROVE  RowsStay
<1>1. tasks \in Seq(Rows) /\ DOMAIN tasks = 1 .. Len(tasks) /\ Len(tasks) \in Nat
  BY DEF LockInv
<1>2. DOMAIN tasks' = DOMAIN tasks
  OBVIOUS
<1>3. tasks' \in [1 .. Len(tasks) -> Rows]
  BY <1>1
<1>4. tasks' \in Seq(Rows)
  BY <1>1, <1>3
<1> QED
  BY <1>1, <1>2, <1>4 DEF RowsStay

LEMMA StatusRow ==
  ASSUME LockInv, NEW id \in DOMAIN tasks, NEW s \in Status, SetStatus(id, s)
  PROVE  RowsStay
<1> DEFINE r == [tasks[id] EXCEPT !.status = s]
<1>1. tasks[id] \in Rows
  BY DEF LockInv
<1>2. r \in Rows /\ r.kind = tasks[id].kind
  BY <1>1 DEF Rows
<1>3. tasks' = [tasks EXCEPT ![id] = r]
  BY DEF SetStatus
<1> QED
  BY <1>2, <1>3, UpdatedRow

LEMMA WorkedRow ==
  ASSUME LockInv, NEW id \in DOMAIN tasks, NEW s \in Status, StartWork(id, s)
  PROVE  RowsStay
<1> DEFINE old == tasks[id]
           r == [old EXCEPT !.status = s, !.starts = old.starts + 1]
<1>1. old \in Rows
  BY DEF LockInv
<1>2. old.starts + 1 \in Nat
  BY <1>1 DEF Rows
<1>3. r \in Rows /\ r.kind = old.kind
  BY <1>1, <1>2 DEF Rows
<1>4. tasks' = [tasks EXCEPT ![id] = r]
  BY <1>1 DEF StartWork, Rows
<1> QED
  BY <1>3, <1>4, UpdatedRow

LEMMA OlderRows == LockInv /\ Tick => RowsStay
<1> SUFFICES ASSUME LockInv, Tick PROVE RowsStay
  OBVIOUS
<1>1. tasks \in Seq(Rows) /\ DOMAIN tasks = 1 .. Len(tasks) /\ Len(tasks) \in Nat
  BY DEF LockInv
<1>2. OneHour \in Nat
  BY ConstAssumption
<1>3. ASSUME NEW t \in DOMAIN tasks
      PROVE  tasks'[t] \in Rows /\ tasks'[t].kind = tasks[t].kind
  <2>1. tasks[t] \in Rows
    BY <1>1
  <2>2. tasks'[t] = [tasks[t] EXCEPT !.age = IF @ < OneHour THEN @ + 1 ELSE @]
    BY DEF Tick
  <2> QED
    BY <2>1, <2>2, <1>2 DEF Rows
<1>4. DOMAIN tasks' = DOMAIN tasks /\ tasks' = [t \in DOMAIN tasks |-> tasks'[t]]
  BY DEF Tick
<1>5. tasks' \in [1 .. Len(tasks) -> Rows]
  BY <1>1, <1>3, <1>4
<1> QED
  BY <1>1, <1>3, <1>4, <1>5 DEF RowsStay

\* The keeper of the lock invariant: one program moves as it may, or none does.
LEMMA LockKept ==
  ASSUME LockInv, RowsStay, UNCHANGED procs \/ OneProgramMoves
  PROVE  LockInv'
<1>1. ASSUME NEW u \in Programs, Holds(u)
      PROVE  Holds(u)'
  BY <1>1 DEF Holds, RowsStay
<1>2. CASE UNCHANGED procs
  <2>1. \A p \in Processes : Holds(procs[p])' /\ procs'[p] = procs[p]
    BY <1>1, <1>2 DEF LockInv, Holds
  <2> QED
    BY <1>2, <2>1 DEF LockInv, RowsStay, Holds
<1>3. CASE OneProgramMoves
  <2>0. PICK p \in Processes :
          \E u : MayBecome(p, u) /\ procs' = [procs EXCEPT ![p] = u]
    BY <1>3 DEF OneProgramMoves
  <2>1. PICK u : MayBecome(p, u) /\ procs' = [procs EXCEPT ![p] = u]
    BY <2>0
  <2>2. /\ procs' \in [Processes -> Programs]
        /\ procs'[p] = u
        /\ \A q \in Processes \ {p} : procs'[q] = procs[q]
    BY <2>1 DEF LockInv, MayBecome
  <2>3. \A q \in Processes : Holds(procs'[q])
    BY <2>1, <2>2 DEF LockInv, MayBecome
  <2>4. \A q \in Processes : Holds(procs[q])'
    BY <2>2, <2>3 DEF Holds, RowsStay, LockInv
  <2>5. ASSUME NEW q \in Processes, NEW r \in Processes, q # r,
               IsAdmitted(procs'[q]), IsAdmitted(procs'[r])
        PROVE  Path(procs'[q].kind) # Path(procs'[r].kind)
    BY <2>1, <2>2, <2>5 DEF LockInv, MayBecome
  <2> QED
    BY <2>2, <2>4, <2>5 DEF LockInv, RowsStay, IsAdmitted, Path
<1> QED
  BY <1>2, <1>3

\* A program that has been admitted goes on, its task and kind as they are.
LEMMA GoesOn ==
  ASSUME LockInv, NEW p \in Processes, IsAdmitted(procs[p]), NEW u \in Programs,
         u.kind = procs[p].kind, u.id = procs[p].id,
         u.pc \in {"off", "start", "get"} <=> u.id = 0,
         procs' = [procs EXCEPT ![p] = u]
  PROVE  OneProgramMoves
<1>1. Holds(u)
  BY DEF LockInv, Holds
<1>2. \A q \in Processes \ {p} :
        IsAdmitted(procs[q]) => Path(procs[q].kind) # Path(u.kind)
  BY DEF LockInv
<1> QED
  BY <1>1, <1>2 DEF OneProgramMoves, MayBecome

LEMMA ProgramEnds ==
  ASSUME NEW p \in Processes, Ends(p)
  PROVE  OneProgramMoves
<1>1. Off \in Programs /\ Holds(Off) /\ ~IsAdmitted(Off)
  BY DEF Off, Programs, PCs, Holds, IsAdmitted
<1> QED
  BY <1>1 DEF Ends, OneProgramMoves, MayBecome

LEMMA ProgramStarts ==
  ASSUME NEW kind \in TaskKinds, Launch(kind)
  PROVE  OneProgramMoves
<1> DEFINE u == [Off EXCEPT !.kind = kind, !.pc = "start",
                            !.task_failed = Path(kind) = "invoices"]
<1>1. PICK p \in Processes : procs' = [procs EXCEPT ![p] = u]
  BY DEF Launch
<1>2. u \in Programs /\ Holds(u) /\ ~IsAdmitted(u)
  BY DEF Off, Programs, PCs, Holds, IsAdmitted
<1> QED
  BY <1>1, <1>2 DEF OneProgramMoves, MayBecome

-----------------------------------------------------------------------------
\* error_handle changes at most a status.
LEMMA HandledRow ==
  ASSUME LockInv, NEW p \in Processes, ErrorHandle(procs[p])
  PROVE  RowsStay
<1>1. CASE UNCHANGED tasks
  BY <1>1, SameRows
<1>2. CASE procs[p].id # 0 /\ SetStatus(procs[p].id, "FAILED")
  <2>1. procs[p].id \in DOMAIN tasks
    BY <1>2 DEF LockInv, Holds
  <2> QED
    BY <1>2, <2>1, StatusRow DEF Status
<1> QED
  BY <1>1, <1>2 DEF ErrorHandle

LEMMA ProgramKeeps ==
  ASSUME LockInv, NEW p \in Processes, Program(p)
  PROVE  RowsStay /\ OneProgramMoves
<1> DEFINE u == procs[p]
<1>0. u \in Programs /\ Holds(u)
  BY DEF LockInv
<1>1. CASE ProcessLock(p)
  <2>1. RowsStay
    BY <1>1, SameRows DEF ProcessLock
  <2>2. CASE Ends(p)
    BY <2>1, <2>2, ProgramEnds
  <2>3. CASE /\ u.pc = "start" /\ Step(p, "get", u)
             /\ \A q \in Running \ {p} : Path(procs[q].kind) # Path(u.kind)
    <3> DEFINE v == [u EXCEPT !.pc = "get"]
    <3>1. v \in Programs /\ v.kind = u.kind /\ v.id = 0 /\ v.pc = "get"
      BY <1>0, <2>3 DEF Programs, PCs, Holds
    <3>2. Holds(v)
      BY <3>1 DEF Holds
    <3>3. \A q \in Processes \ {p} :
            IsAdmitted(procs[q]) => Path(procs[q].kind) # Path(v.kind)
      BY <2>3, <3>1 DEF IsAdmitted, Running
    <3>4. procs' = [procs EXCEPT ![p] = v]
      BY <2>3 DEF Step
    <3> QED
      BY <2>1, <3>1, <3>2, <3>3, <3>4 DEF OneProgramMoves, MayBecome
  <2> QED
    BY <1>1, <2>2, <2>3 DEF ProcessLock
<1>2. CASE TaskGet(p)
  <2>1. RowsStay
    BY <1>2, SameRows DEF TaskGet
  <2>2. CASE Ends(p)
    BY <2>1, <2>2, ProgramEnds
  <2>3. ASSUME NEW t \in WaitingTasks(u.kind), u.pc = "get",
               Step(p, "prepare", [u EXCEPT !.task_failed = TRUE, !.id = t])
        PROVE  OneProgramMoves
    <3> DEFINE v == [u EXCEPT !.task_failed = TRUE, !.id = t, !.pc = "prepare"]
    <3>1. t \in DOMAIN tasks /\ tasks[t].kind = u.kind /\ t \in Nat /\ t # 0
      BY DEF WaitingTasks, LockInv
    <3>2. v \in Programs /\ v.kind = u.kind /\ v.id = t /\ v.pc = "prepare"
      BY <1>0, <3>1 DEF Programs, PCs
    <3>3. Holds(v)
      BY <3>1, <3>2 DEF Holds
    <3>4. \A q \in Processes \ {p} :
            IsAdmitted(procs[q]) => Path(procs[q].kind) # Path(v.kind)
      BY <2>3, <3>2 DEF LockInv, IsAdmitted
    <3>5. procs' = [procs EXCEPT ![p] = v]
      BY <2>3, <1>0 DEF Step, Programs
    <3> QED
      BY <3>2, <3>3, <3>4, <3>5 DEF OneProgramMoves, MayBecome
  <2> QED
    BY <1>2, <2>1, <2>2, <2>3 DEF TaskGet
<1>3. ASSUME NEW pc \in {"prepare", "lock", "work", "test", "finish", "unlock", "close"},
             NEW f \in BOOLEAN, u.pc \notin {"off", "start", "get"},
             Step(p, pc, [u EXCEPT !.task_failed = f])
      PROVE  OneProgramMoves
  <2> DEFINE v == [u EXCEPT !.task_failed = f, !.pc = pc]
  <2>1. v \in Programs /\ v.kind = u.kind /\ v.id = u.id /\ v.pc = pc
    BY <1>0 DEF Programs, PCs
  <2>2. procs' = [procs EXCEPT ![p] = v]
    BY <1>3, <1>0 DEF Step, Programs
  <2>3. IsAdmitted(u) /\ u.id # 0
    BY <1>0, <1>3 DEF IsAdmitted, Holds
  <2> QED
    BY <2>1, <2>2, <2>3, GoesOn
<1>4. ASSUME NEW pc \in {"prepare", "lock", "work", "test", "finish", "unlock", "close"},
             u.pc \notin {"off", "start", "get"}, Step(p, pc, u)
      PROVE  OneProgramMoves
  <2>1. u = [u EXCEPT !.task_failed = u.task_failed] /\ u.task_failed \in BOOLEAN
    BY <1>0 DEF Programs
  <2>2. Step(p, pc, [u EXCEPT !.task_failed = u.task_failed])
    BY <1>4, <2>1
  <2> QED
    BY <1>3, <1>4, <2>1, <2>2
<1>5. ASSUME u.pc \notin {"off", "start", "get"}
      PROVE  u.id \in DOMAIN tasks /\ tasks[u.id] \in Rows /\ tasks[u.id].status \in Status
  <2>1. u.id \in DOMAIN tasks
    BY <1>0, <1>5 DEF Holds
  <2>2. tasks[u.id] \in Rows
    BY <2>1 DEF LockInv
  <2> QED
    BY <2>1, <2>2 DEF Rows
<1>6. CASE Prepare(p)
  <2>1. CASE Step(p, "lock", u) /\ UNCHANGED tasks
    BY <1>4, <1>6, <2>1, SameRows DEF Prepare
  <2>2. CASE Step(p, "finish", [u EXCEPT !.task_failed = FALSE]) /\ UNCHANGED tasks
    BY <1>3, <1>6, <2>2, SameRows DEF Prepare
  <2>3. CASE Step(p, "work", u) /\ StartWork(u.id, tasks[u.id].status)
    BY <1>4, <1>5, <1>6, <2>3, WorkedRow DEF Prepare
  <2> QED
    BY <1>6, <2>1, <2>2, <2>3 DEF Prepare
<1>7. CASE GiveUp(p)
  BY <1>7, HandledRow, ProgramEnds DEF GiveUp
<1>8. CASE TaskLock(p)
  BY <1>4, <1>5, <1>8, WorkedRow DEF TaskLock, Status
<1>9. CASE Work(p)
  <2>1. RowsStay
    BY <1>9, SameRows DEF Work
  <2>2. CASE Step(p, "finish", u)
    BY <1>4, <1>9, <2>1, <2>2 DEF Work
  <2>3. CASE Step(p, "test", [u EXCEPT !.task_failed = FALSE])
    BY <1>3, <1>9, <2>1, <2>3 DEF Work
  <2> QED
    BY <1>9, <2>2, <2>3 DEF Work
<1>9a. CASE TestStopped(p)
  <2>1. RowsStay
    BY <1>9a, SameRows DEF TestStopped
  <2>2. PICK pc \in {"finish", "unlock", "close"} : Step(p, pc, u)
    BY <1>9a DEF TestStopped
  <2> QED
    BY <1>4, <1>9a, <2>1, <2>2 DEF TestStopped
<1>10. CASE TaskFinish(p)
  BY <1>4, <1>5, <1>10, StatusRow DEF TaskFinish, Status
<1>11. CASE TaskUnlock(p)
  BY <1>4, <1>5, <1>11, StatusRow DEF TaskUnlock, Status
<1>12. CASE Close(p)
  BY <1>12, SameRows, ProgramEnds DEF Close
<1> QED
  BY <1>1, <1>2, <1>6, <1>7, <1>8, <1>9, <1>9a, <1>10, <1>11, <1>12 DEF Program

LEMMA LauncherKeeps ==
  ASSUME LockInv, Launcher
  PROVE  RowsStay /\ (UNCHANGED procs \/ OneProgramMoves)
<1>1. CASE CheckActive \/ ChildEnded
  BY <1>1, SameRows DEF CheckActive, ChildEnded
<1>2. CASE CheckArchive
  BY <1>2, SameRows, ProgramStarts DEF CheckArchive, TaskKinds
<1>3. CASE CreateArchive
  BY <1>3, SameRows, NewRow, ProgramStarts DEF CreateArchive, TaskKinds
<1>4. CASE CheckRerate
  BY <1>4, SameRows, ProgramStarts DEF CheckRerate, TaskKinds
<1>5. CASE CheckInvoices
  BY <1>5, SameRows, ProgramStarts DEF CheckInvoices, TaskKinds
<1> QED
  BY <1>1, <1>2, <1>3, <1>4, <1>5 DEF Launcher

LEMMA FaultKeeps ==
  ASSUME LockInv, NEW p \in Running, Kill(p) \/ Signal(p) \/ Refused(p) \/ Disconnected(p)
  PROVE  RowsStay /\ OneProgramMoves
<1> DEFINE u == procs[p]
<1>0. p \in Processes /\ u \in Programs /\ Holds(u) /\ u.pc # "off"
  BY DEF Running, LockInv
<1>1. CASE Kill(p) \/ Disconnected(p)
  BY <1>0, <1>1, SameRows, ProgramEnds DEF Kill, Disconnected
<1>2. CASE Refused(p)
  BY <1>0, <1>2, HandledRow, ProgramEnds DEF Refused
<1>3. CASE Signal(p)
  <2>1. RowsStay
    BY <1>0, <1>3, HandledRow DEF Signal
  <2>2. CASE Ends(p)
    BY <1>0, <2>1, <2>2, ProgramEnds
  <2>3. CASE Step(p, u.pc, [u EXCEPT !.marked = TRUE, !.finished = FALSE])
    <3> DEFINE v == [u EXCEPT !.marked = TRUE, !.finished = FALSE]
    <3>1. v \in Programs /\ v.kind = u.kind /\ v.id = u.id /\ v.pc = u.pc
      BY <1>0 DEF Programs
    <3>2. [v EXCEPT !.pc = u.pc] = v
      BY <3>1, <1>0 DEF Programs
    <3>3. procs' = [procs EXCEPT ![p] = v]
      BY <2>3, <3>2 DEF Step
    <3>4. Holds(v)
      BY <1>0, <3>1 DEF Holds
    <3>5. IsAdmitted(v) => \A q \in Processes \ {p} :
            IsAdmitted(procs[q]) => Path(procs[q].kind) # Path(v.kind)
      BY <1>0, <3>1 DEF LockInv, IsAdmitted
    <3> QED
      BY <1>0, <2>1, <3>1, <3>3, <3>4, <3>5 DEF OneProgramMoves, MayBecome
  <2> QED
    BY <1>3, <2>2, <2>3 DEF Signal
<1> QED
  BY <1>1, <1>2, <1>3

-----------------------------------------------------------------------------
LEMMA LockInit == Init => LockInv
<1> SUFFICES ASSUME Init PROVE LockInv
  OBVIOUS
<1>1. Off \in Programs /\ Off.pc = "off" /\ Off.id = 0
  BY DEF Off, Programs, PCs
<1>2. tasks \in Seq(Rows)
  BY DEF Init
<1> QED
  BY <1>1, <1>2 DEF Init, LockInv, Holds, IsAdmitted

LEMMA LockNext == LockInv /\ [Next]_vars => LockInv'
<1> SUFFICES ASSUME LockInv, [Next]_vars
             PROVE  RowsStay /\ (UNCHANGED procs \/ OneProgramMoves)
  BY LockKept
<1>1. CASE Tick
  BY <1>1, OlderRows DEF Tick
<1>2. CASE Cron \/ KillLauncher \/ UNCHANGED vars
  BY <1>2, SameRows DEF Cron, KillLauncher, vars
<1>3. CASE Launcher
  BY <1>3, LauncherKeeps
<1>4. ASSUME NEW kind \in TaskKinds, GuiCreates(kind)
      PROVE  RowsStay /\ UNCHANGED procs
  BY <1>4, NewRow DEF GuiCreates
<1>5. ASSUME NEW p \in Processes, Program(p)
      PROVE  RowsStay /\ OneProgramMoves
  BY <1>5, ProgramKeeps
<1>6. ASSUME NEW p \in Running, Kill(p) \/ Signal(p) \/ Refused(p) \/ Disconnected(p)
      PROVE  RowsStay /\ OneProgramMoves
  BY <1>6, FaultKeeps
<1> QED
  BY <1>1, <1>2, <1>3, <1>4, <1>5, <1>6 DEF Next

\* Two programs that have passed the process lock have different paths, so the
\* tasks they hold are of different kinds.
LEMMA LockSuffices == LockInv => OneProgramPerTask
  BY DEF LockInv, OneProgramPerTask, Admitted, Running, IsAdmitted, Holds

\* The invariant behind the next theorem holds: admitted programs have different
\* paths, and each works on a task of its own kind (mor_functions.c 183-215).
THEOREM LockInvariant == Spec => []LockInv
  BY LockInit, LockNext, PTL DEF Spec

\* However many tasks, processes and faults there are, no task is in the hands of
\* two programs, though mor_invoices never marks its own as taken.
THEOREM TasksAreNotShared == Spec => []OneProgramPerTask
  BY LockInvariant, LockSuffices, PTL

-----------------------------------------------------------------------------
(***************************************************************************)
(* A task is worked on once.  A WAITING task has not been begun, unless it *)
(* is an invoice task: then a program has it in hand and will settle it    *)
(* itself, or a kill or a lost connection has taken that program away.     *)
(***************************************************************************)
Excused(t) ==
    /\ Path(tasks[t].kind) = "invoices"
    /\ "kill" \in met \/ "lost" \in met

Fresh(t) == tasks[t].starts = 0 \/ Excused(t)

\* Program u is making invoices for task t.
Has(u, t) == u.id = t /\ u.pc \in {"work", "finish"} /\ Path(u.kind) = "invoices"

\* A program about to work has a fresh task, and one that makes invoices will
\* mark its task if it has to exit.
Ready(u) ==
    /\ u.pc \in {"prepare", "lock"} => Fresh(u.id)
    /\ Path(u.kind) = "invoices" /\ u.pc # "off" => u.task_failed /\ ~u.marked

RowInv(t) ==
    /\ tasks[t].status = "WAITING" =>
         Fresh(t) \/ \E p \in Processes : Has(procs[p], t)
    /\ tasks[t].starts <= 1 \/ Excused(t)

WorkInv ==
    /\ \A p \in Processes : Ready(procs[p])
    /\ \A t \in DOMAIN tasks : RowInv(t)

\* No task is begun, none is made WAITING again, and no fault is forgotten.
Tame ==
    /\ \A t \in DOMAIN tasks :
         /\ tasks'[t].starts = tasks[t].starts
         /\ tasks'[t].status # tasks[t].status => tasks'[t].status # "WAITING"
    /\ \A t \in DOMAIN tasks' \ DOMAIN tasks : tasks'[t].starts = 0
    /\ met \subseteq met'

LEMMA FreshStays ==
  ASSUME RowsStay, Tame, NEW t \in DOMAIN tasks
  PROVE  (Fresh(t) => Fresh(t)') /\ (Excused(t) => Excused(t)')
  BY DEF RowsStay, Tame, Fresh, Excused

\* The keeper of the work invariant, for steps that begin no task.
LEMMA WorkKept ==
  ASSUME LockInv, WorkInv, RowsStay, Tame,
         NEW p \in Processes, NEW v, procs' = [procs EXCEPT ![p] = v],
         Ready(v)',
         \A t \in DOMAIN tasks : Has(procs[p], t) =>
            Has(v, t) \/ tasks'[t].status # "WAITING" \/ Excused(t)'
  PROVE  WorkInv'
<1>1. procs'[p] = v /\ \A q \in Processes \ {p} : procs'[q] = procs[q]
  BY DEF LockInv
<1>2. ASSUME NEW q \in Processes
      PROVE  Ready(procs[q])'
  <2>1. CASE q = p
    BY <1>1, <2>1 DEF Ready, Fresh, Excused
  <2>2. CASE q # p
    <3>1. procs'[q] = procs[q] /\ Ready(procs[q])
      BY <1>1, <2>2 DEF WorkInv
    <3>2. procs[q].pc \in {"prepare", "lock"} => procs[q].id \in DOMAIN tasks
      BY DEF LockInv, Holds
    <3> QED
      BY <3>1, <3>2, FreshStays DEF Ready, Fresh, Excused
  <2> QED
    BY <2>1, <2>2
<1>3. ASSUME NEW t \in DOMAIN tasks'
      PROVE  RowInv(t)'
  <2>1. CASE t \notin DOMAIN tasks
    BY <1>3, <2>1 DEF Tame, RowInv, Fresh
  <2>2. CASE t \in DOMAIN tasks
    <3>1. RowInv(t) /\ tasks'[t].starts = tasks[t].starts
      BY <2>2 DEF WorkInv, Tame
    <3>2. tasks'[t].starts <= 1 \/ Excused(t)'
      BY <2>2, <3>1, FreshStays DEF RowInv
    <3>3. ASSUME tasks'[t].status = "WAITING"
          PROVE  Fresh(t)' \/ \E q \in Processes : Has(procs'[q], t)
      <4>1. tasks[t].status = "WAITING"
        BY <2>2, <3>3 DEF Tame
      <4>2. CASE Fresh(t)
        BY <2>2, <4>2, FreshStays
      <4>3. CASE \E q \in Processes : Has(procs[q], t)
        <5>1. PICK q \in Processes : Has(procs[q], t)
          BY <4>3
        <5>2. CASE q # p
          BY <1>1, <5>1, <5>2
        <5>3. CASE q = p
          BY <1>1, <2>2, <3>3, <5>1, <5>3 DEF Fresh
        <5> QED
          BY <5>2, <5>3
      <4> QED
        BY <3>1, <4>1, <4>2, <4>3 DEF RowInv
    <3> QED
      BY <3>2, <3>3 DEF RowInv, Has
  <2> QED
    BY <2>1, <2>2
<1> QED
  BY <1>2, <1>3 DEF WorkInv

\* The same when no program changes.
LEMMA WorkIdle ==
  ASSUME LockInv, WorkInv, RowsStay, Tame, UNCHANGED procs
  PROVE  WorkInv'
<1>1. ASSUME NEW p \in Processes
      PROVE  Ready(procs[p])'
  <2>1. Ready(procs[p])
    BY DEF WorkInv
  <2>2. procs[p].pc \in {"prepare", "lock"} => procs[p].id \in DOMAIN tasks
    BY DEF LockInv, Holds
  <2> QED
    BY <2>1, <2>2, FreshStays DEF Ready, Fresh, Excused
<1>2. ASSUME NEW t \in DOMAIN tasks'
      PROVE  RowInv(t)'
  <2>1. CASE t \notin DOMAIN tasks
    BY <1>2, <2>1 DEF Tame, RowInv, Fresh
  <2>2. CASE t \in DOMAIN tasks
    <3>1. RowInv(t) /\ tasks'[t].starts = tasks[t].starts
      BY <2>2 DEF WorkInv, Tame
    <3>2. tasks'[t].status = "WAITING" => tasks[t].status = "WAITING"
      BY <2>2 DEF Tame
    <3> QED
      BY <2>2, <3>1, <3>2, FreshStays DEF RowInv, Has
  <2> QED
    BY <2>1, <2>2
<1> QED
  BY <1>1, <1>2 DEF WorkInv

\* Program p begins its task, which was fresh and is in no other's hands.
LEMMA WorkStarts ==
  ASSUME LockInv, WorkInv, RowsStay, UNCHANGED met,
         NEW p \in Processes, NEW s \in Status,
         procs[p].pc \in {"prepare", "lock"},
         Step(p, "work", procs[p]), StartWork(procs[p].id, s),
         Path(procs[p].kind) # "invoices" => s # "WAITING"
  PROVE  WorkInv'
<1> DEFINE u == procs[p]
           id == u.id
           v == [u EXCEPT !.pc = "work"]
<1>0. u \in Programs /\ Holds(u) /\ Ready(u)
  BY DEF LockInv, WorkInv
<1>1. v.pc = "work" /\ v.kind = u.kind /\ v.id = id
         /\ v.task_failed = u.task_failed /\ v.marked = u.marked
  BY <1>0 DEF Programs
<1>2. procs'[p] = v /\ \A q \in Processes \ {p} : procs'[q] = procs[q]
  BY DEF LockInv, Step
<1>3. id \in DOMAIN tasks /\ tasks[id] \in Rows /\ tasks[id].kind = u.kind
  BY <1>0 DEF Holds, LockInv
<1>4. DOMAIN tasks' = DOMAIN tasks /\ \A t \in DOMAIN tasks \ {id} : tasks'[t] = tasks[t]
  BY DEF StartWork
<1>5. tasks'[id].starts = tasks[id].starts + 1 /\ tasks'[id].status = s
         /\ tasks'[id].kind = u.kind
  BY <1>3 DEF StartWork, Rows
<1>6. Fresh(id)
  BY <1>0 DEF Ready
<1>7. \A t \in DOMAIN tasks : t # id =>
        (Fresh(t) => Fresh(t)') /\ (Excused(t) => Excused(t)')
  BY <1>4 DEF Fresh, Excused
<1>8. \A q \in Processes \ {p} : IsAdmitted(procs[q]) => procs[q].id # id
  BY <1>0, <1>3 DEF LockInv, IsAdmitted, Holds
<1>9. ASSUME NEW q \in Processes
      PROVE  Ready(procs[q])'
  <2>1. CASE q = p
    BY <1>0, <1>1, <1>2, <2>1 DEF Ready
  <2>2. CASE q # p
    <3>1. procs'[q] = procs[q] /\ Ready(procs[q])
      BY <1>2, <2>2 DEF WorkInv
    <3>2. procs[q].pc \in {"prepare", "lock"} =>
             procs[q].id \in DOMAIN tasks /\ procs[q].id # id
      BY <1>8, <2>2 DEF LockInv, Holds, IsAdmitted
    <3> QED
      BY <1>7, <3>1, <3>2 DEF Ready, Fresh, Excused
  <2> QED
    BY <2>1, <2>2
<1>10. ASSUME NEW t \in DOMAIN tasks'
       PROVE  RowInv(t)'
  <2>1. CASE t = id
    <3>1. tasks'[t].starts <= 1 \/ Excused(t)'
      BY <1>3, <1>5, <1>6, <2>1 DEF Fresh, Excused, Rows
    <3>2. tasks'[t].status = "WAITING" => Has(procs'[p], t)
      BY <1>1, <1>2, <1>5, <2>1 DEF Has
    <3> QED
      BY <3>1, <3>2 DEF RowInv, Has
  <2>2. CASE t # id
    <3>1. t \in DOMAIN tasks /\ RowInv(t) /\ tasks'[t] = tasks[t]
      BY <1>4, <2>2 DEF WorkInv
    <3>2. \A q \in Processes : Has(procs[q], t) => Has(procs'[q], t)
      BY <1>2, <2>2 DEF Has
    <3> QED
      BY <1>7, <2>2, <3>1, <3>2 DEF RowInv, Has
  <2> QED
    BY <2>1, <2>2
<1> QED
  BY <1>9, <1>10 DEF WorkInv

-----------------------------------------------------------------------------
\* Writing another status than WAITING, or nothing, is tame.
LEMMA TameStatus ==
  ASSUME LockInv, NEW id \in DOMAIN tasks, NEW s \in Status \ {"WAITING"},
         SetStatus(id, s), met \subseteq met'
  PROVE  Tame /\ tasks'[id].status = s
<1>1. tasks \in Seq(Rows) /\ tasks[id] \in Rows
  BY DEF LockInv
<1>2. DOMAIN tasks' = DOMAIN tasks /\ \A t \in DOMAIN tasks \ {id} : tasks'[t] = tasks[t]
  BY DEF SetStatus
<1>3. tasks'[id].starts = tasks[id].starts /\ tasks'[id].status = s
  BY <1>1 DEF SetStatus, Rows
<1> QED
  BY <1>2, <1>3 DEF Tame

LEMMA TameIdle == UNCHANGED tasks /\ met \subseteq met' => Tame
  BY DEF Tame

\* error_handle is tame; it settles a task that the program still answers for.
LEMMA TameHandler ==
  ASSUME LockInv, NEW p \in Processes, ErrorHandle(procs[p]), met \subseteq met'
  PROVE  /\ Tame
         /\ procs[p].task_failed /\ ~procs[p].marked /\ procs[p].id # 0 =>
              tasks'[procs[p].id].status = "FAILED"
<1> DEFINE u == procs[p]
<1>1. CASE u.task_failed /\ ~u.marked /\ u.id # 0
  <2>1. u.id \in DOMAIN tasks
    BY <1>1 DEF LockInv, Holds
  <2>2. SetStatus(u.id, "FAILED")
    BY <1>1 DEF ErrorHandle
  <2> QED
    BY <1>1, <2>1, <2>2, TameStatus DEF Status
<1>2. CASE ~(u.task_failed /\ ~u.marked /\ u.id # 0)
  BY <1>2, TameIdle DEF ErrorHandle
<1> QED
  BY <1>1, <1>2

LEMMA TameOlder == LockInv /\ Tick => Tame
<1> SUFFICES ASSUME LockInv, Tick PROVE Tame
  OBVIOUS
<1>1. ASSUME NEW t \in DOMAIN tasks
      PROVE  tasks'[t].starts = tasks[t].starts /\ tasks'[t].status = tasks[t].status
  <2>1. tasks[t] \in Rows
    BY DEF LockInv
  <2>2. tasks'[t] = [tasks[t] EXCEPT !.age = IF @ < OneHour THEN @ + 1 ELSE @]
    BY DEF Tick
  <2> QED
    BY <2>1, <2>2 DEF Rows
<1> QED
  BY <1>1 DEF Tame, Tick, history

LEMMA TameNew ==
  ASSUME LockInv, NEW k \in TaskKinds, tasks' = Append(tasks, NewTask(k)),
         UNCHANGED met
  PROVE  Tame
<1>1. NewTask(k) \in Rows /\ NewTask(k).starts = 0
  BY DEF NewTask, Rows, Status
<1>2. tasks \in Seq(Rows)
  BY DEF LockInv
<1>3. \A t \in 1 .. Len(tasks) : tasks'[t] = tasks[t]
  BY <1>1, <1>2
<1>4. DOMAIN tasks = 1 .. Len(tasks) /\ DOMAIN tasks' = 1 .. Len(tasks) + 1
         /\ tasks'[Len(tasks) + 1] = NewTask(k) /\ Len(tasks) \in Nat
  BY <1>1, <1>2
<1> QED
  BY <1>1, <1>3, <1>4 DEF Tame

\* A program ends without a task of invoices left in its hands: it holds none,
\* it has just settled it, or it was killed or cut off.
LEMMA WorkEnds ==
  ASSUME LockInv, WorkInv, RowsStay, Tame, NEW p \in Processes, Ends(p),
         \/ procs[p].pc \notin {"work", "finish"}
         \/ "kill" \in met' \/ "lost" \in met'
         \/ procs[p].task_failed /\ ~procs[p].marked /\ procs[p].id # 0 =>
               tasks'[procs[p].id].status = "FAILED"
  PROVE  WorkInv'
<1>1. Ready(Off)'
  BY DEF Ready, Off, Path
<1>2. ASSUME NEW t \in DOMAIN tasks, Has(procs[p], t)
      PROVE  tasks'[t].status # "WAITING" \/ Excused(t)'
  <2>1. CASE "kill" \in met' \/ "lost" \in met'
    BY <1>2, <2>1 DEF Has, Excused, RowsStay, LockInv, Holds
  <2>2. CASE procs[p].task_failed /\ ~procs[p].marked /\ procs[p].id # 0 =>
               tasks'[procs[p].id].status = "FAILED"
    BY <1>2, <2>2 DEF Has, WorkInv, Ready, LockInv, Holds
  <2> QED
    BY <1>2, <2>1, <2>2 DEF Has
<1> QED
  BY <1>1, <1>2, WorkKept DEF Ends

\* A program goes on with the same task and kind, as ready as it was.
LEMMA WorkGoesOn ==
  ASSUME LockInv, WorkInv, RowsStay, Tame, NEW p \in Processes, NEW v \in Programs,
         procs' = [procs EXCEPT ![p] = v], procs[p].pc # "off",
         v.kind = procs[p].kind, v.id = procs[p].id,
         Path(v.kind) = "invoices" =>
            v.task_failed = procs[p].task_failed /\ v.marked = procs[p].marked,
         v.pc \in {"prepare", "lock"} => procs[p].pc \in {"prepare", "lock"},
         Path(v.kind) = "invoices" /\ procs[p].pc \in {"work", "finish"} =>
            v.pc \in {"work", "finish"} \/ tasks'[v.id].status # "WAITING"
  PROVE  WorkInv'
<1>1. Ready(procs[p]) /\ Holds(procs[p])
  BY DEF WorkInv, LockInv
<1>2. procs[p].pc \in {"prepare", "lock"} => procs[p].id \in DOMAIN tasks
  BY <1>1 DEF Holds
<1>3. Ready(v)'
  BY <1>1, <1>2, FreshStays DEF Ready, Fresh, Excused
<1>4. \A t \in DOMAIN tasks : Has(procs[p], t) =>
         Has(v, t) \/ tasks'[t].status # "WAITING"
  BY DEF Has
<1> QED
  BY <1>3, <1>4, WorkKept

LEMMA ProgramWorks ==
  ASSUME LockInv, WorkInv, NEW p \in Processes, Program(p)
  PROVE  WorkInv'
<1> DEFINE u == procs[p]
<1>0. u \in Programs /\ Holds(u) /\ Ready(u) /\ RowsStay /\ UNCHANGED met
  BY ProgramKeeps DEF LockInv, WorkInv, Program, history
<1>1. CASE ProcessLock(p)
  <2>1. Tame
    BY <1>0, <1>1, TameIdle DEF ProcessLock
  <2>2. CASE Ends(p)
    BY <1>0, <1>1, <2>1, <2>2, WorkEnds DEF ProcessLock
  <2>3. CASE Step(p, "get", u)
    <3> DEFINE v == [u EXCEPT !.pc = "get"]
    <3>1. /\ v \in Programs /\ v.kind = u.kind /\ v.id = u.id /\ v.pc = "get"
          /\ v.task_failed = u.task_failed /\ v.marked = u.marked
          /\ procs' = [procs EXCEPT ![p] = v] /\ u.pc = "start"
      BY <1>0, <1>1, <2>3 DEF Programs, PCs, Step, ProcessLock
    <3> QED
      BY <1>0, <2>1, <3>1, WorkGoesOn
  <2> QED
    BY <1>1, <2>2, <2>3 DEF ProcessLock
<1>2. CASE TaskGet(p)
  <2>1. Tame /\ UNCHANGED tasks /\ u.pc = "get"
    BY <1>0, <1>2, TameIdle DEF TaskGet
  <2>2. CASE Ends(p)
    BY <1>0, <2>1, <2>2, WorkEnds
  <2>3. ASSUME NEW t \in WaitingTasks(u.kind),
               Step(p, "prepare", [u EXCEPT !.task_failed = TRUE, !.id = t])
        PROVE  WorkInv'
    <3>0. PICK v : v = [u EXCEPT !.task_failed = TRUE, !.id = t, !.pc = "prepare"]
      OBVIOUS
    <3>1. /\ v.kind = u.kind /\ v.id = t /\ v.pc = "prepare"
          /\ v.task_failed = TRUE /\ v.marked = u.marked
          /\ procs' = [procs EXCEPT ![p] = v]
      BY <1>0, <2>3, <3>0 DEF Programs, Step
    <3>2. t \in DOMAIN tasks /\ tasks[t].kind = u.kind /\ tasks[t].status = "WAITING"
      BY DEF WaitingTasks
    <3>3. \A q \in Processes : ~Has(procs[q], t)
      <4>1. SUFFICES ASSUME NEW q \in Processes, Has(procs[q], t) PROVE FALSE
        OBVIOUS
      <4>2. q # p /\ IsAdmitted(procs[q]) /\ IsAdmitted(u)
        BY <2>1, <4>1 DEF Has, IsAdmitted
      <4>3. procs[q].kind = u.kind
        BY <3>2, <4>1, <4>2 DEF Has, LockInv, Holds
      <4> QED
        BY <4>2, <4>3 DEF LockInv
    <3>4. Fresh(t)'
      BY <2>1, <3>2, <3>3, FreshStays, <1>0 DEF WorkInv, RowInv
    <3>5. Ready(v)'
      BY <1>0, <2>1, <3>1, <3>4 DEF Ready, Fresh, Excused
    <3>6. \A o \in DOMAIN tasks : Has(procs[p], o) =>
             Has(v, o) \/ tasks'[o].status # "WAITING" \/ Excused(o)'
      BY <2>1 DEF Has
    <3> QED
      BY <1>0, <2>1, <3>1, <3>5, <3>6, WorkKept
  <2> QED
    BY <1>2, <2>2, <2>3 DEF TaskGet
<1>3. ASSUME NEW pc \in PCs, NEW f \in BOOLEAN, Tame, u.pc # "off",
             Step(p, pc, [u EXCEPT !.task_failed = f]),
             Path(u.kind) = "invoices" => f = u.task_failed,
             pc \in {"prepare", "lock"} => u.pc \in {"prepare", "lock"},
             Path(u.kind) = "invoices" /\ u.pc \in {"work", "finish"} =>
               pc \in {"work", "finish"} \/ tasks'[u.id].status # "WAITING"
      PROVE  WorkInv'
  <2> DEFINE v == [u EXCEPT !.task_failed = f, !.pc = pc]
  <2>1. /\ v \in Programs /\ v.kind = u.kind /\ v.id = u.id /\ v.pc = pc
        /\ v.task_failed = f /\ v.marked = u.marked
        /\ procs' = [procs EXCEPT ![p] = v]
    BY <1>0, <1>3 DEF Programs, Step
  <2> QED
    BY <1>0, <1>3, <2>1, WorkGoesOn
<1>4. u = [u EXCEPT !.task_failed = u.task_failed] /\ u.task_failed \in BOOLEAN
  BY <1>0 DEF Programs
<1>5. CASE Prepare(p)
  <2>1. CASE Step(p, "lock", u) /\ UNCHANGED tasks
    BY <1>0, <1>3, <1>4, <1>5, <2>1, TameIdle DEF Prepare, PCs
  <2>2. CASE /\ u.kind = "rerate" /\ UNCHANGED tasks
             /\ Step(p, "finish", [u EXCEPT !.task_failed = FALSE])
    BY <1>0, <1>3, <1>5, <2>2, TameIdle DEF Prepare, PCs, Path
  <2>3. CASE /\ Path(u.kind) = "invoices" /\ Step(p, "work", u)
             /\ StartWork(u.id, tasks[u.id].status)
    <3>1. u.id \in DOMAIN tasks
      BY <1>0, <1>5 DEF Prepare, Holds
    <3>2. tasks[u.id] \in Rows
      BY <3>1 DEF LockInv
    <3>3. tasks[u.id].status \in Status
      BY <3>2 DEF Rows
    <3> QED
      BY <1>0, <1>5, <2>3, <3>3, WorkStarts DEF Prepare
  <2> QED
    BY <1>5, <2>1, <2>2, <2>3 DEF Prepare
<1>6. CASE GiveUp(p)
  BY <1>0, <1>6, TameHandler, WorkEnds DEF GiveUp
<1>7. CASE TaskLock(p)
  BY <1>0, <1>7, WorkStarts DEF TaskLock, Status
<1>8. CASE Work(p)
  <2>1. Tame /\ u.pc = "work"
    BY <1>0, <1>8, TameIdle DEF Work
  <2>2. CASE Step(p, "finish", u)
    BY <1>3, <1>4, <2>1, <2>2 DEF PCs
  <2>3. CASE u.kind = "archive" /\ Step(p, "test", [u EXCEPT !.task_failed = FALSE])
    BY <1>3, <2>1, <2>3 DEF PCs, Path
  <2> QED
    BY <1>8, <2>2, <2>3 DEF Work
<1>8a. CASE TestStopped(p)
  <2>1. Tame /\ u.pc = "test"
    BY <1>0, <1>8a, TameIdle DEF TestStopped
  <2>2. PICK pc \in {"finish", "unlock", "close"} : Step(p, pc, u)
    BY <1>8a DEF TestStopped
  <2> QED
    BY <1>3, <1>4, <2>1, <2>2 DEF PCs
<1>9. CASE TaskFinish(p) \/ TaskUnlock(p)
  <2>1. PICK s \in {"IN PROGRESS", "DONE"}, pc \in {"unlock", "close"} :
          SetStatus(u.id, s) /\ Step(p, pc, u) /\ u.pc \in {"finish", "unlock"}
    BY <1>9 DEF TaskFinish, TaskUnlock
  <2>2. u.id \in DOMAIN tasks
    BY <1>0, <2>1 DEF Holds
  <2>3. Tame /\ tasks'[u.id].status = s
    BY <1>0, <2>1, <2>2, TameStatus DEF Status
  <2> QED
    BY <1>3, <1>4, <2>1, <2>3 DEF PCs
<1>10. CASE Close(p)
  BY <1>0, <1>10, TameIdle, WorkEnds DEF Close
<1> QED
  BY <1>1, <1>2, <1>5, <1>6, <1>7, <1>8, <1>8a, <1>9, <1>10 DEF Program

LEMMA FaultWorks ==
  ASSUME LockInv, WorkInv, NEW p \in Running, Kill(p) \/ Signal(p) \/ Refused(p) \/ Disconnected(p)
  PROVE  WorkInv'
<1> DEFINE u == procs[p]
<1>0. /\ p \in Processes /\ u \in Programs /\ u.pc # "off"
      /\ RowsStay /\ met \subseteq met'
  BY FaultKeeps DEF Running, LockInv, Kill, Signal, Refused, Disconnected, Fault
<1>1. CASE Kill(p) \/ Disconnected(p)
  BY <1>0, <1>1, TameIdle, WorkEnds DEF Kill, Disconnected, Fault
<1>2. CASE Refused(p)
  BY <1>0, <1>2, TameHandler, WorkEnds DEF Refused
<1>3. CASE Signal(p)
  <2>1. Tame /\ (u.task_failed /\ ~u.marked /\ u.id # 0 =>
                    tasks'[u.id].status = "FAILED")
    BY <1>0, <1>3, TameHandler DEF Signal
  <2>2. CASE Ends(p)
    BY <1>0, <2>1, <2>2, WorkEnds
  <2>3. CASE /\ u.kind = "archive"
             /\ Step(p, u.pc, [u EXCEPT !.marked = TRUE, !.finished = FALSE])
    <3> DEFINE v == [u EXCEPT !.marked = TRUE, !.finished = FALSE]
    <3>1. v \in Programs /\ v.kind = u.kind /\ v.id = u.id /\ v.pc = u.pc
      BY <1>0 DEF Programs
    <3>2. [v EXCEPT !.pc = u.pc] = v
      BY <3>1, <1>0 DEF Programs
    <3>3. procs' = [procs EXCEPT ![p] = v]
      BY <2>3, <3>2 DEF Step
    <3> QED
      BY <1>0, <2>1, <2>3, <3>1, <3>3, WorkGoesOn DEF Path
  <2> QED
    BY <1>3, <2>2, <2>3 DEF Signal
<1> QED
  BY <1>1, <1>2, <1>3

LEMMA LaunchWorks ==
  ASSUME LockInv, WorkInv, RowsStay, Tame, NEW kind \in TaskKinds, Launch(kind)
  PROVE  WorkInv'
<1> DEFINE u == [Off EXCEPT !.kind = kind, !.pc = "start",
                            !.task_failed = Path(kind) = "invoices"]
<1>1. PICK p \in Processes \ Running : procs' = [procs EXCEPT ![p] = u]
  BY DEF Launch
<1>2. Ready(u)' /\ \A t \in DOMAIN tasks : ~Has(procs[p], t)
  BY <1>1 DEF Ready, Off, Running, Has
<1> QED
  BY <1>1, <1>2, WorkKept

LEMMA LauncherWorks ==
  ASSUME LockInv, WorkInv, Launcher
  PROVE  WorkInv'
<1>1. RowsStay /\ UNCHANGED met
  BY LauncherKeeps DEF Launcher, CheckActive, CheckArchive, CreateArchive,
       CheckRerate, CheckInvoices, ChildEnded, history
<1>2. Tame
  <2>1. CASE UNCHANGED tasks
    BY <1>1, <2>1, TameIdle
  <2>2. CASE tasks' = Append(tasks, NewTask("archive"))
    BY <1>1, <2>2, TameNew DEF TaskKinds
  <2> QED
    BY <2>1, <2>2 DEF Launcher, CheckActive, CheckArchive, CreateArchive,
         CheckRerate, CheckInvoices, ChildEnded
<1>3. UNCHANGED procs \/ \E kind \in TaskKinds : Launch(kind)
  BY DEF Launcher, CheckActive, CheckArchive, CreateArchive, CheckRerate,
       CheckInvoices, ChildEnded, TaskKinds
<1> QED
  BY <1>1, <1>2, <1>3, WorkIdle, LaunchWorks

LEMMA WorkInit == Init => WorkInv
  BY DEF Init, WorkInv, Ready, Off, Path

LEMMA WorkNext == LockInv /\ WorkInv /\ [Next]_vars => WorkInv'
<1> SUFFICES ASSUME LockInv, WorkInv, [Next]_vars PROVE WorkInv'
  OBVIOUS
<1>1. CASE Tick
  BY <1>1, OlderRows, TameOlder, WorkIdle DEF Tick
<1>2. CASE Cron \/ KillLauncher \/ UNCHANGED vars
  BY <1>2, SameRows, TameIdle, WorkIdle DEF Cron, KillLauncher, vars, history, Fault
<1>3. CASE Launcher
  BY <1>3, LauncherWorks
<1>4. ASSUME NEW kind \in TaskKinds, GuiCreates(kind)
      PROVE  WorkInv'
  BY <1>4, NewRow, TameNew, WorkIdle DEF GuiCreates, history
<1>5. ASSUME NEW p \in Processes, Program(p)
      PROVE  WorkInv'
  BY <1>5, ProgramWorks
<1>6. ASSUME NEW p \in Running, Kill(p) \/ Signal(p) \/ Refused(p) \/ Disconnected(p)
      PROVE  WorkInv'
  BY <1>6, FaultWorks
<1> QED
  BY <1>1, <1>2, <1>3, <1>4, <1>5, <1>6 DEF Next

LEMMA WorkSuffices == LockInv /\ WorkInv => WorkedOnce
<1> SUFFICES ASSUME LockInv, WorkInv, NEW t \in DOMAIN tasks, tasks[t].starts > 1
             PROVE  Path(tasks[t].kind) = "invoices" /\ ("kill" \in met \/ "lost" \in met)
  BY DEF WorkedOnce
<1>1. tasks[t] \in Rows
  BY DEF LockInv
<1>2. ~(tasks[t].starts <= 1)
  BY <1>1 DEF Rows
<1> QED
  BY <1>2 DEF WorkInv, RowInv, Excused

\* However many tasks and faults there are, archiving and rerating begin a task
\* once, and invoices begin one again only after a kill or a
\* lost connection.
THEOREM TasksAreWorkedOnce == Spec => []WorkedOnce
<1>1. Spec => []WorkInv
  BY LockInvariant, WorkInit, WorkNext, PTL DEF Spec
<1> QED
  BY <1>1, LockInvariant, WorkSuffices, PTL

-----------------------------------------------------------------------------
(***************************************************************************)
(* The programs run alone: as long as no launcher has been killed, what    *)
(* runs is the program the launcher waits for.                             *)
(***************************************************************************)
Awaited ==
    /\ \E p : launcher.child \subseteq {p}
    /\ launcher.pc # "wait" => launcher.child = {}
    /\ Running \subseteq launcher.child

LauncherPCs == {"off", "active", "archive", "recent", "rerate", "invoices", "wait"}

AloneInv ==
    /\ launcher \in [pc : LauncherPCs, child : SUBSET Processes]
    /\ "launcher" \in met \/ Awaited

\* A launcher that is not waiting starts a program when none runs.
LEMMA LaunchAlone ==
  ASSUME LockInv, AloneInv, NEW kind \in TaskKinds, Launch(kind), launcher.pc # "wait",
         UNCHANGED met
  PROVE  AloneInv'
<1>1. PICK p \in Processes : /\ launcher' = [pc |-> "wait", child |-> {p}]
                             /\ \A q \in Processes \ {p} : procs'[q] = procs[q]
  BY DEF Launch, LockInv
<1>2. launcher' \in [pc : LauncherPCs, child : SUBSET Processes]
  BY <1>1 DEF LauncherPCs
<1>3. CASE Awaited
  <2>1. \A q \in Processes : procs[q].pc = "off"
    BY <1>3 DEF Awaited, Running
  <2>2. Running' \subseteq {p}
    BY <1>1, <2>1 DEF Running
  <2> QED
    BY <1>1, <1>2, <2>2 DEF AloneInv, Awaited
<1> QED
  BY <1>1, <1>2, <1>3 DEF AloneInv

\* A launcher that does not wait goes on or ends, and programs end or go on.
LEMMA OthersAlone ==
  ASSUME AloneInv, met \subseteq met',
         \/ UNCHANGED launcher
         \/ /\ launcher.pc # "wait"
            /\ \E pc \in LauncherPCs : pc # "wait" /\ Goto(pc),
         \A q \in Processes : procs'[q].pc # "off" => procs[q].pc # "off"
  PROVE  AloneInv'
<1>1. launcher'.child = launcher.child /\ launcher' \in [pc : LauncherPCs, child : SUBSET Processes]
  BY DEF Goto, AloneInv
<1>2. Running' \subseteq Running
  BY DEF Running
<1>3. launcher'.pc # "wait" => launcher.pc # "wait"
  BY DEF Goto, AloneInv
<1> QED
  BY <1>1, <1>2, <1>3 DEF AloneInv, Awaited

LEMMA LauncherAlone == LockInv /\ AloneInv /\ Launcher => AloneInv'
<1> SUFFICES ASSUME LockInv, AloneInv, Launcher PROVE AloneInv'
  OBVIOUS
<1>1. CASE ChildEnded
  <2>1. UNCHANGED <<procs, met>> /\ launcher' = [pc |-> "off", child |-> {}]
          /\ launcher.child \cap Running = {}
    BY <1>1 DEF ChildEnded, history
  <2>2. Awaited => Awaited'
    BY <2>1 DEF Awaited, Running
  <2> QED
    BY <2>1, <2>2 DEF AloneInv, LauncherPCs
<1>2. CASE ~ChildEnded
  <2>1. launcher.pc # "wait" /\ UNCHANGED met
    BY <1>2 DEF Launcher, CheckActive, CheckArchive, CreateArchive, CheckRerate,
         CheckInvoices, history
  <2> DEFINE Started == \E kind \in TaskKinds : Launch(kind)
             Idle == UNCHANGED procs /\ \E pc \in LauncherPCs : pc # "wait" /\ Goto(pc)
  <2>2. ASSUME CheckActive PROVE Started \/ Idle
    BY <2>2 DEF CheckActive, LauncherPCs
  <2>3. ASSUME CheckArchive PROVE Started \/ Idle
    BY <2>3 DEF CheckArchive, TaskKinds, LauncherPCs
  <2>4. ASSUME CreateArchive PROVE Started \/ Idle
    BY <2>4 DEF CreateArchive, TaskKinds, LauncherPCs
  <2>5. ASSUME CheckRerate PROVE Started \/ Idle
    BY <2>5 DEF CheckRerate, TaskKinds, LauncherPCs
  <2>6. ASSUME CheckInvoices PROVE Started \/ Idle
    BY <2>6 DEF CheckInvoices, TaskKinds, LauncherPCs
  <2>7. Started \/ Idle
    BY <1>2, <2>2, <2>3, <2>4, <2>5, <2>6 DEF Launcher
  <2>8. CASE Started
    BY <2>1, <2>8, LaunchAlone
  <2>9. CASE Idle
    BY <2>1, <2>9, OthersAlone
  <2> QED
    BY <2>7, <2>8, <2>9
<1> QED
  BY <1>1, <1>2

LEMMA AloneInit == Init => AloneInv
  BY DEF Init, AloneInv, Awaited, Running, Off, LauncherPCs

LEMMA AloneNext == LockInv /\ AloneInv /\ [Next]_vars => AloneInv'
<1> SUFFICES ASSUME LockInv, AloneInv, [Next]_vars PROVE AloneInv'
  OBVIOUS
<1>1. CASE Launcher
  BY <1>1, LauncherAlone
<1>2. CASE Tick \/ UNCHANGED vars \/ \E kind \in TaskKinds : GuiCreates(kind)
  BY <1>2, OthersAlone DEF Tick, GuiCreates, vars, history
<1>3. CASE Cron
  <2>1. UNCHANGED <<procs, met>>
    BY <1>3 DEF Cron, history
  <2>2. UNCHANGED launcher \/ (launcher.pc = "off" /\ Goto("active"))
    BY <1>3 DEF Cron
  <2> QED
    BY <2>1, <2>2, OthersAlone DEF LauncherPCs
<1>4. CASE KillLauncher
  BY <1>4 DEF KillLauncher, Fault, AloneInv, LauncherPCs
<1>5. ASSUME NEW p \in Processes, Program(p)
      PROVE  AloneInv'
  <2>1. UNCHANGED <<launcher, met>>
    BY <1>5 DEF Program, history
  <2>2. procs[p].pc # "off"
    BY <1>5 DEF Program, ProcessLock, TaskGet, Prepare, GiveUp, TaskLock, Work,
         TestStopped, TaskFinish, TaskUnlock, Close
  <2>3. \A q \in Processes \ {p} : procs'[q] = procs[q]
    BY <1>5 DEF Program, ProcessLock, TaskGet, Prepare, GiveUp, TaskLock, Work,
         TestStopped, TaskFinish, TaskUnlock, Close, Step, Ends, LockInv
  <2> QED
    BY <2>1, <2>2, <2>3, OthersAlone
<1>6. ASSUME NEW p \in Running, Kill(p) \/ Signal(p) \/ Refused(p) \/ Disconnected(p)
      PROVE  AloneInv'
  <2>1. UNCHANGED launcher /\ met \subseteq met'
    BY <1>6 DEF Kill, Signal, Refused, Disconnected, Fault
  <2>2. p \in Processes /\ procs[p].pc # "off"
    BY DEF Running
  <2>3. \A q \in Processes \ {p} : procs'[q] = procs[q]
    BY <1>6 DEF Kill, Signal, Refused, Disconnected, Step, Ends, LockInv
  <2> QED
    BY <2>1, <2>2, <2>3, OthersAlone
<1> QED
  BY <1>1, <1>2, <1>3, <1>4, <1>5, <1>6 DEF Next

LEMMA AloneSuffices == AloneInv => ProgramsRunAlone
<1> SUFFICES ASSUME AloneInv, Cardinality(Running) > 1, "launcher" \notin met PROVE FALSE
  BY DEF ProgramsRunAlone
<1>1. PICK p : Running \subseteq {p}
  BY DEF AloneInv, Awaited
<1>3. IsFiniteSet({p}) /\ Cardinality({p}) = 1
  BY FS_Singleton
<1>4. IsFiniteSet(Running) /\ Cardinality(Running) <= 1
  BY <1>1, <1>3, FS_Subset
<1>5. Cardinality(Running) \in Nat
  BY <1>4, FS_CardinalityType
<1> QED
  BY <1>4, <1>5

\* Two programs run at a time only after a launcher has been killed, for any number
\* of tasks and processes.
THEOREM ProgramsAreAlone == Spec => []ProgramsRunAlone
<1>1. Spec => []AloneInv
  BY LockInvariant, AloneInit, AloneNext, PTL DEF Spec
<1> QED
  BY <1>1, AloneSuffices, PTL

-----------------------------------------------------------------------------
(***************************************************************************)
(* What a program leaves.  Only the program that has a task in hand        *)
(* changes its status; the invariant says what the status may be at each   *)
(* of its statements, and that a signal is on record where the handler has *)
(* settled the task already.                                               *)
(***************************************************************************)
Explained(t) ==
    \/ "kill" \in met \/ "lost" \in met
    \/ /\ "sql" \in met \/ "signal" \in met
       /\ tasks[t].kind \in {"archive", "rerate"}

\* The status of the task that program u has in hand.
Tidy(u) ==
    /\ u.pc \in {"prepare", "lock", "close"} =>
         tasks[u.id].status # "IN PROGRESS" \/ Explained(u.id)
    /\ u.pc \in {"prepare", "lock", "work", "test", "finish", "unlock"} =>
         tasks[u.id].status \in {"WAITING", "IN PROGRESS"} \/ "signal" \in met
    /\ ~u.finished => "signal" \in met /\ u.kind = "archive"

InHand(t) == \E p \in Processes : procs[p].id = t

LeftInv ==
    /\ \A p \in Processes : Tidy(procs[p])
    /\ \A t \in DOMAIN tasks :
         tasks[t].status = "IN PROGRESS" => InHand(t) \/ Explained(t)

\* Every row but that of task id keeps its status, and rows are WAITING at first.
OnlyTouches(id) ==
    /\ \A t \in DOMAIN tasks : tasks'[t].status = tasks[t].status \/ t = id
    /\ \A t \in DOMAIN tasks' \ DOMAIN tasks : tasks'[t].status = "WAITING"
    /\ met \subseteq met'

LEMMA TouchesNone == UNCHANGED tasks /\ met \subseteq met' => \A id : OnlyTouches(id)
  BY DEF OnlyTouches

LEMMA ExplainedStays ==
  ASSUME RowsStay, met \subseteq met', NEW t \in DOMAIN tasks, Explained(t)
  PROVE  Explained(t)'
  BY DEF RowsStay, Explained

\* Ids begin with 1.
LEMMA RowIds ==
  ASSUME LockInv
  PROVE  \A t \in DOMAIN tasks : t # 0
  BY DEF LockInv

\* A task is in one program's hands.
LEMMA OneHolder ==
  ASSUME LockInv, NEW p \in Processes, NEW q \in Processes, p # q, procs[p].id # 0
  PROVE  procs[q].id # procs[p].id
  BY DEF LockInv, Holds, IsAdmitted

\* The keeper: program p becomes v, and what it lets go of is settled or explained.
LEMMA LeftKept ==
  ASSUME LockInv, LeftInv, RowsStay, NEW p \in Processes, NEW id, procs[p].id = id, OnlyTouches(id),
         NEW v, procs' = [procs EXCEPT ![p] = v], Tidy(v)',
         v.id = id \/ id = 0 \/ tasks'[id].status # "IN PROGRESS" \/ Explained(id)'
  PROVE  LeftInv'
<1>1. procs'[p] = v /\ \A q \in Processes \ {p} : procs'[q] = procs[q]
  BY DEF LockInv
<1>2. ASSUME NEW q \in Processes
      PROVE  Tidy(procs[q])'
  <2>1. CASE q = p
    BY <1>1, <2>1 DEF Tidy, Explained
  <2>2. CASE q # p
    <3>1. procs'[q] = procs[q] /\ Tidy(procs[q]) /\ met \subseteq met'
      BY <1>1, <2>2 DEF LeftInv, OnlyTouches
    <3>2. CASE procs[q].id = 0
      <4>1. procs[q].pc \in {"off", "start", "get"}
        BY <3>2 DEF LockInv, Holds
      <4> QED
        BY <3>1, <4>1 DEF Tidy
    <3>3. CASE procs[q].id # 0
      <4>1. procs[q].id \in DOMAIN tasks /\ procs[q].id # id
        BY <2>2, <3>3, OneHolder DEF LockInv, Holds
      <4>2. tasks'[procs[q].id].status = tasks[procs[q].id].status
        BY <4>1 DEF OnlyTouches
      <4> QED
        BY <3>1, <4>1, <4>2, ExplainedStays DEF Tidy, Explained
    <3> QED
      BY <3>2, <3>3
  <2> QED
    BY <2>1, <2>2
<1>3. ASSUME NEW t \in DOMAIN tasks', tasks'[t].status = "IN PROGRESS"
      PROVE  InHand(t)' \/ Explained(t)'
  <2>1. t \in DOMAIN tasks
    BY <1>3 DEF OnlyTouches
  <2>2. CASE t = id
    <3>1. t # 0
      BY <2>1, RowIds
    <3> QED
      BY <1>1, <1>3, <2>1, <2>2, <3>1, ExplainedStays DEF InHand, OnlyTouches
  <2>3. CASE t # id
    <3>1. tasks[t].status = "IN PROGRESS"
      BY <1>3, <2>1, <2>3 DEF OnlyTouches
    <3>2. Explained(t) \/ \E q \in Processes \ {p} : procs[q].id = t
      BY <2>1, <2>3, <3>1 DEF LeftInv, InHand
    <3> QED
      BY <1>1, <2>1, <3>2, ExplainedStays DEF InHand, OnlyTouches
  <2> QED
    BY <2>2, <2>3
<1> QED
  BY <1>2, <1>3 DEF LeftInv, InHand, Explained

\* The same when no program changes.
LEMMA LeftIdle ==
  ASSUME LockInv, LeftInv, RowsStay, OnlyTouches(0), UNCHANGED procs
  PROVE  LeftInv'
<1>1. \A t \in DOMAIN tasks : t # 0 /\ tasks'[t].status = tasks[t].status
  BY DEF LockInv, OnlyTouches
<1>2. ASSUME NEW p \in Processes
      PROVE  Tidy(procs[p])'
  <2>1. procs'[p] = procs[p] /\ Tidy(procs[p]) /\ met \subseteq met'
    BY DEF LeftInv, OnlyTouches
  <2>2. procs[p].id \in DOMAIN tasks \/ procs[p].pc \in {"off", "start", "get"}
    BY DEF LockInv, Holds
  <2> QED
    BY <1>1, <2>1, <2>2, ExplainedStays DEF Tidy, Explained
<1>3. ASSUME NEW t \in DOMAIN tasks', tasks'[t].status = "IN PROGRESS"
      PROVE  InHand(t)' \/ Explained(t)'
  <2>1. t \in DOMAIN tasks /\ tasks[t].status = "IN PROGRESS"
    BY <1>1, <1>3 DEF OnlyTouches
  <2> QED
    BY <2>1, ExplainedStays DEF LeftInv, InHand, OnlyTouches
<1> QED
  BY <1>2, <1>3 DEF LeftInv, InHand, Explained

\* Statements that write a status.
LEMMA StatusTouches ==
  ASSUME LockInv, NEW id \in DOMAIN tasks, NEW s \in Status,
         SetStatus(id, s) \/ StartWork(id, s), met \subseteq met'
  PROVE  OnlyTouches(id) /\ tasks'[id].status = s
<1>1. tasks[id] \in Rows
  BY DEF LockInv
<1>2. DOMAIN tasks' = DOMAIN tasks /\ \A t \in DOMAIN tasks \ {id} : tasks'[t] = tasks[t]
  BY DEF SetStatus, StartWork
<1>3. tasks'[id].status = s
  BY <1>1 DEF SetStatus, StartWork, Rows
<1> QED
  BY <1>2, <1>3 DEF OnlyTouches

\* error_handle: it writes FAILED, or nothing.
LEMMA HandlerTouches ==
  ASSUME LockInv, NEW p \in Processes, ErrorHandle(procs[p]), met \subseteq met'
  PROVE  /\ OnlyTouches(procs[p].id)
         /\ IF procs[p].task_failed /\ ~procs[p].marked /\ procs[p].id # 0
              THEN tasks'[procs[p].id].status = "FAILED"
              ELSE UNCHANGED tasks
<1> DEFINE u == procs[p]
<1>1. CASE u.task_failed /\ ~u.marked /\ u.id # 0
  <2>1. u.id \in DOMAIN tasks /\ SetStatus(u.id, "FAILED")
    BY <1>1 DEF LockInv, Holds, ErrorHandle
  <2> QED
    BY <1>1, <2>1, StatusTouches DEF Status
<1>2. CASE ~(u.task_failed /\ ~u.marked /\ u.id # 0)
  BY <1>2, TouchesNone DEF ErrorHandle
<1> QED
  BY <1>1, <1>2

\* A new row is WAITING, and age is not a status.
LEMMA NewTouches ==
  ASSUME LockInv, NEW k \in TaskKinds, tasks' = Append(tasks, NewTask(k)), met \subseteq met'
  PROVE  OnlyTouches(0)
<1>1. NewTask(k) \in Rows /\ NewTask(k).status = "WAITING"
  BY DEF NewTask, Rows, Status
<1>2. tasks \in Seq(Rows)
  BY DEF LockInv
<1>3. \A t \in 1 .. Len(tasks) : tasks'[t] = tasks[t]
  BY <1>1, <1>2
<1>4. DOMAIN tasks = 1 .. Len(tasks) /\ DOMAIN tasks' = 1 .. Len(tasks) + 1
         /\ tasks'[Len(tasks) + 1] = NewTask(k) /\ Len(tasks) \in Nat
  BY <1>1, <1>2
<1> QED
  BY <1>1, <1>3, <1>4 DEF OnlyTouches

LEMMA OlderTouches == LockInv /\ Tick => OnlyTouches(0)
<1> SUFFICES ASSUME LockInv, Tick PROVE OnlyTouches(0)
  OBVIOUS
<1>1. ASSUME NEW t \in DOMAIN tasks
      PROVE  tasks'[t].status = tasks[t].status
  <2>1. tasks[t] \in Rows
    BY DEF LockInv
  <2>2. tasks'[t] = [tasks[t] EXCEPT !.age = IF @ < OneHour THEN @ + 1 ELSE @]
    BY DEF Tick
  <2> QED
    BY <2>1, <2>2 DEF Rows
<1> QED
  BY <1>1 DEF OnlyTouches, Tick, history

\* A program ends, and so lets its task go.
LEMMA LeftEnds ==
  ASSUME LockInv, LeftInv, RowsStay, NEW p \in Processes, NEW id, procs[p].id = id,
         OnlyTouches(id), Ends(p),
         id = 0 \/ tasks'[id].status # "IN PROGRESS" \/ Explained(id)'
  PROVE  LeftInv'
<1>1. Tidy(Off)'
  BY DEF Tidy, Off
<1> QED
  BY <1>1, LeftKept DEF Ends

\* A program goes on to pc with its task.
LEMMA LeftGoesOn ==
  ASSUME LockInv, LeftInv, RowsStay, NEW p \in Processes, NEW id, procs[p].id = id,
         OnlyTouches(id), NEW pc, NEW w \in Programs, Step(p, pc, w),
         w.kind = procs[p].kind, w.id = id, w.finished = procs[p].finished,
         pc \in {"prepare", "lock", "close"} =>
            tasks'[id].status # "IN PROGRESS" \/ Explained(id)',
         pc \in {"prepare", "lock", "work", "test", "finish", "unlock"} =>
            tasks'[id].status \in {"WAITING", "IN PROGRESS"} \/ "signal" \in met'
  PROVE  LeftInv'
<1>0. Tidy(procs[p]) /\ met \subseteq met'
  BY DEF LeftInv, OnlyTouches
<1>1. PICK v : v = [w EXCEPT !.pc = pc]
  OBVIOUS
<1>2. /\ v.kind = procs[p].kind /\ v.id = id /\ v.pc = pc /\ v.finished = procs[p].finished
      /\ procs' = [procs EXCEPT ![p] = v]
  BY <1>0, <1>1 DEF Programs, Step
<1>3. Tidy(v)'
  BY <1>0, <1>2 DEF Tidy, Explained
<1> QED
  BY <1>2, <1>3, LeftKept

\* The same at the statements where the task may be IN PROGRESS, and before
\* mor_task_get.
LEMMA LeftWorks ==
  ASSUME LockInv, LeftInv, RowsStay, NEW p \in Processes, NEW id, procs[p].id = id,
         OnlyTouches(id), NEW pc \in {"get", "work", "test", "finish", "unlock"},
         NEW w \in Programs, Step(p, pc, w),
         w.kind = procs[p].kind, w.id = id, w.finished = procs[p].finished,
         pc = "get" \/ tasks'[id].status = "WAITING" \/ tasks'[id].status = "IN PROGRESS"
           \/ "signal" \in met'
  PROVE  LeftInv'
<1>2. pc \notin {"prepare", "lock", "close"}
  OBVIOUS
<1>3. pc \in {"prepare", "lock", "work", "test", "finish", "unlock"} =>
        tasks'[id].status \in {"WAITING", "IN PROGRESS"} \/ "signal" \in met'
  OBVIOUS
<1> QED
  BY <1>2, <1>3, LeftGoesOn

\* The same before mor_task_lock.
LEMMA LeftLocks ==
  ASSUME LockInv, LeftInv, RowsStay, NEW p \in Processes, NEW id, procs[p].id = id,
         OnlyTouches(id), Step(p, "lock", procs[p]),
         tasks'[id].status # "IN PROGRESS" \/ Explained(id)',
         tasks'[id].status \in {"WAITING", "IN PROGRESS"} \/ "signal" \in met'
  PROVE  LeftInv'
<1>1. procs[p] \in Programs
  BY DEF LockInv
<1>2. PICK pc : pc = "lock"
  OBVIOUS
<1>3. pc \in {"prepare", "lock", "close"} =>
        tasks'[id].status # "IN PROGRESS" \/ Explained(id)'
  OBVIOUS
<1>4. pc \in {"prepare", "lock", "work", "test", "finish", "unlock"} =>
        tasks'[id].status \in {"WAITING", "IN PROGRESS"} \/ "signal" \in met'
  OBVIOUS
<1>5. Step(p, pc, procs[p])
  BY <1>2
<1> QED
  BY <1>1, <1>3, <1>4, <1>5, LeftGoesOn

LEMMA ProgramLeaves ==
  ASSUME LockInv, LeftInv, NEW p \in Processes, Program(p)
  PROVE  LeftInv'
<1> DEFINE u == procs[p]
<1>1. PICK id : id = u.id
  OBVIOUS
<1>2. /\ u \in Programs /\ Holds(u) /\ Tidy(u) /\ RowsStay /\ UNCHANGED met
  BY ProgramKeeps DEF LockInv, LeftInv, Program, history, Programs
<1>3. UNCHANGED tasks => OnlyTouches(id)
  BY <1>2, TouchesNone
<1>4. id # 0 => id \in DOMAIN tasks /\ tasks[id] \in Rows /\ tasks[id].status \in Status
  <2>1. id # 0 => id \in DOMAIN tasks
    BY <1>1, <1>2 DEF Holds
  <2>2. id # 0 => tasks[id] \in Rows
    BY <2>1 DEF LockInv
  <2> QED
    BY <2>1, <2>2 DEF Rows
<1>5. \A t \in DOMAIN tasks : Explained(t) => Explained(t)'
  BY <1>2, ExplainedStays
<1>6. PICK w : w = [u EXCEPT !.task_failed = FALSE]
  OBVIOUS
<1>6a. w \in Programs /\ w.kind = u.kind /\ w.id = id /\ w.finished = u.finished
  BY <1>1, <1>2, <1>6 DEF Programs
<1>7. CASE ProcessLock(p)
  <2>1. id = 0 /\ UNCHANGED tasks
    BY <1>1, <1>2, <1>7 DEF ProcessLock, Holds
  <2>2. CASE Ends(p)
    BY <1>1, <1>2, <1>3, <2>1, <2>2, LeftEnds
  <2>3. CASE Step(p, "get", u)
    BY <1>1, <1>2, <1>3, <2>1, <2>3, LeftWorks
  <2> QED
    BY <1>7, <2>2, <2>3 DEF ProcessLock
<1>8. CASE TaskGet(p)
  <2>1. id = 0 /\ UNCHANGED tasks
    BY <1>1, <1>2, <1>8 DEF TaskGet, Holds
  <2>2. CASE Ends(p)
    BY <1>1, <1>2, <1>3, <2>1, <2>2, LeftEnds
  <2>3. ASSUME NEW t \in WaitingTasks(u.kind),
               Step(p, "prepare", [u EXCEPT !.task_failed = TRUE, !.id = t])
        PROVE  LeftInv'
    <3>1. PICK v : v = [u EXCEPT !.task_failed = TRUE, !.id = t, !.pc = "prepare"]
      OBVIOUS
    <3>2. /\ v.kind = u.kind /\ v.id = t /\ v.pc = "prepare" /\ v.finished = u.finished
          /\ procs' = [procs EXCEPT ![p] = v]
      BY <1>2, <2>3, <3>1 DEF Programs, Step
    <3>3. tasks'[t].status = "WAITING"
      BY <2>1 DEF WaitingTasks
    <3>4. Tidy(v)'
      BY <1>2, <3>2, <3>3 DEF Tidy
    <3> QED
      BY <1>1, <1>2, <1>3, <2>1, <3>2, <3>4, LeftKept
  <2> QED
    BY <1>8, <2>2, <2>3 DEF TaskGet
<1>9. CASE Prepare(p)
  <2>1. u.pc = "prepare" /\ id # 0
    BY <1>1, <1>2, <1>9 DEF Prepare, Holds
  <2>2. /\ tasks[id].status # "IN PROGRESS" \/ Explained(id)
        /\ tasks[id].status \in {"WAITING", "IN PROGRESS"} \/ "signal" \in met
    BY <1>1, <1>2, <2>1 DEF Tidy
  <2>3. CASE UNCHANGED tasks /\ Step(p, "lock", u)
    <3>1. tasks'[id].status # "IN PROGRESS" \/ Explained(id)'
      BY <1>4, <1>5, <2>1, <2>2, <2>3
    <3>2. tasks'[id].status \in {"WAITING", "IN PROGRESS"} \/ "signal" \in met'
      BY <1>2, <2>2, <2>3
    <3>3. procs[p].id = id /\ RowsStay /\ OnlyTouches(id) /\ Step(p, "lock", procs[p])
      BY <1>1, <1>2, <1>3, <2>3
    <3> QED
      BY <3>1, <3>2, <3>3, LeftLocks
  <2>4. CASE UNCHANGED tasks /\ Step(p, "finish", [u EXCEPT !.task_failed = FALSE])
    BY <1>1, <1>2, <1>3, <1>6, <1>6a, <2>2, <2>4, LeftWorks
  <2>5. CASE Step(p, "work", u) /\ StartWork(u.id, tasks[u.id].status)
    <3>1. OnlyTouches(id) /\ tasks'[id].status = tasks[id].status
      BY <1>1, <1>2, <1>4, <2>1, <2>5, StatusTouches
    <3> QED
      BY <1>1, <1>2, <2>2, <2>5, <3>1, LeftGoesOn
  <2> QED
    BY <1>9, <2>3, <2>4, <2>5 DEF Prepare
<1>10. CASE GiveUp(p)
  <2>1. u.pc = "prepare" /\ id # 0 /\ ErrorHandle(u) /\ Ends(p)
    BY <1>1, <1>2, <1>10 DEF GiveUp, Holds
  <2>2. tasks[id].status # "IN PROGRESS" \/ Explained(id)
    BY <1>1, <1>2, <2>1 DEF Tidy
  <2>3. OnlyTouches(id) /\ (tasks'[id].status = "FAILED" \/ UNCHANGED tasks)
    BY <1>1, <1>2, <2>1, HandlerTouches
  <2> QED
    BY <1>1, <1>2, <1>4, <1>5, <2>1, <2>2, <2>3, LeftEnds
<1>11. CASE TaskLock(p)
  <2>1. id # 0 /\ Step(p, "work", u) /\ StartWork(u.id, "IN PROGRESS")
    BY <1>1, <1>2, <1>11 DEF TaskLock, Holds
  <2>2. OnlyTouches(id) /\ tasks'[id].status = "IN PROGRESS"
    BY <1>1, <1>2, <1>4, <2>1, StatusTouches DEF Status
  <2> QED
    BY <1>1, <1>2, <2>1, <2>2, LeftWorks
<1>12. CASE Work(p)
  <2>1. u.pc = "work" /\ id # 0 /\ UNCHANGED tasks
    BY <1>1, <1>2, <1>12 DEF Work, Holds
  <2>2. tasks[id].status \in {"WAITING", "IN PROGRESS"} \/ "signal" \in met
    BY <1>1, <1>2, <2>1 DEF Tidy
  <2>3. CASE Step(p, "finish", u)
    BY <1>1, <1>2, <1>3, <2>1, <2>2, <2>3, LeftWorks
  <2>4. CASE Step(p, "test", [u EXCEPT !.task_failed = FALSE])
    BY <1>1, <1>2, <1>3, <1>6, <1>6a, <2>1, <2>2, <2>4, LeftWorks
  <2> QED
    BY <1>12, <2>3, <2>4 DEF Work
<1>12a. CASE TestStopped(p)
  <2>1. u.pc = "test" /\ id # 0 /\ UNCHANGED tasks
    BY <1>1, <1>2, <1>12a DEF TestStopped, Holds
  <2>2. tasks[id].status \in {"WAITING", "IN PROGRESS"} \/ "signal" \in met
    BY <1>1, <1>2, <2>1 DEF Tidy
  <2>3. ASSUME u.finished, NEW pc \in {"finish", "unlock"}, Step(p, pc, u)
        PROVE  LeftInv'
    BY <1>1, <1>2, <1>3, <2>1, <2>2, <2>3, LeftWorks
  <2>4. CASE ~u.finished /\ Step(p, "close", u)
    <3>1. Explained(id)
      BY <1>1, <1>2, <2>1, <2>4 DEF Tidy, Explained, Holds
    <3> QED
      BY <1>1, <1>2, <1>3, <1>4, <1>5, <2>1, <2>4, <3>1, LeftGoesOn
  <2>5. \/ u.finished /\ \E pc \in {"finish", "unlock"} : Step(p, pc, u)
        \/ ~u.finished /\ Step(p, "close", u)
    BY <1>12a DEF TestStopped
  <2> QED
    BY <2>3, <2>4, <2>5
<1>13. CASE TaskFinish(p)
  <2>1. id # 0 /\ Step(p, "unlock", u) /\ SetStatus(u.id, "IN PROGRESS")
    BY <1>1, <1>2, <1>13 DEF TaskFinish, Holds
  <2>2. OnlyTouches(id) /\ tasks'[id].status = "IN PROGRESS"
    BY <1>1, <1>2, <1>4, <2>1, StatusTouches DEF Status
  <2> QED
    BY <1>1, <1>2, <2>1, <2>2, LeftWorks
<1>14. CASE TaskUnlock(p)
  <2>1. id # 0 /\ Step(p, "close", u) /\ SetStatus(u.id, "DONE")
    BY <1>1, <1>2, <1>14 DEF TaskUnlock, Holds
  <2>2. OnlyTouches(id) /\ tasks'[id].status = "DONE"
    BY <1>1, <1>2, <1>4, <2>1, StatusTouches DEF Status
  <2> QED
    BY <1>1, <1>2, <2>1, <2>2, LeftGoesOn
<1>15. CASE Close(p)
  <2>1. u.pc = "close" /\ id # 0 /\ UNCHANGED tasks /\ Ends(p)
    BY <1>1, <1>2, <1>15 DEF Close, Holds
  <2>2. tasks[id].status # "IN PROGRESS" \/ Explained(id)
    BY <1>1, <1>2, <2>1 DEF Tidy
  <2> QED
    BY <1>1, <1>2, <1>3, <1>4, <1>5, <2>1, <2>2, LeftEnds
<1> QED
  BY <1>7, <1>8, <1>9, <1>10, <1>11, <1>12, <1>12a, <1>13,
     <1>14, <1>15 DEF Program

\* A fault leaves the task settled, or is on record.
LEMMA FaultLeaves ==
  ASSUME LockInv, WorkInv, LeftInv, NEW p \in Running, Kill(p) \/ Signal(p) \/ Refused(p) \/ Disconnected(p)
  PROVE  LeftInv'
<1> DEFINE u == procs[p]
<1>1. PICK id : id = u.id
  OBVIOUS
<1>2. /\ p \in Processes /\ u \in Programs /\ Holds(u) /\ Tidy(u) /\ Ready(u) /\ u.pc # "off"
      /\ RowsStay /\ met \subseteq met'
  BY FaultKeeps DEF Running, LockInv, LeftInv, WorkInv, Kill, Signal, Refused,
       Disconnected, Fault
<1>3. id # 0 => id \in DOMAIN tasks /\ tasks'[id].kind = u.kind /\ u.kind \in TaskKinds
  <2>1. id # 0 => id \in DOMAIN tasks /\ tasks[id].kind = u.kind
    BY <1>1, <1>2 DEF Holds
  <2>2. id # 0 => tasks[id] \in Rows
    BY <2>1 DEF LockInv
  <2> QED
    BY <1>2, <2>1, <2>2 DEF RowsStay, Rows
<1>4. ASSUME ErrorHandle(u), "signal" \in met' \/ "sql" \in met'
      PROVE  OnlyTouches(id) /\ (id = 0 \/ tasks'[id].status = "FAILED" \/ Explained(id)')
  <2>1. /\ OnlyTouches(id)
        /\ u.task_failed /\ ~u.marked /\ id # 0 => tasks'[id].status = "FAILED"
    BY <1>1, <1>2, <1>4, HandlerTouches
  <2>2. CASE u.kind \in {"archive", "rerate"}
    BY <1>3, <1>4, <2>1, <2>2 DEF Explained
  <2>3. CASE Path(u.kind) = "invoices"
    BY <1>2, <2>1, <2>3 DEF Ready
  <2> QED
    BY <1>3, <2>1, <2>2, <2>3 DEF TaskKinds, Path
<1>5. CASE Kill(p) \/ Disconnected(p)
  <2>1. OnlyTouches(id) /\ Ends(p) /\ Explained(id)'
    BY <1>5, TouchesNone, <1>2 DEF Kill, Disconnected, Fault, Explained
  <2> QED
    BY <1>1, <1>2, <2>1, LeftEnds
<1>6. CASE Refused(p)
  BY <1>1, <1>2, <1>4, <1>6, LeftEnds DEF Refused, Fault
<1>7. CASE Signal(p)
  <2>1. ErrorHandle(u) /\ "signal" \in met'
    BY <1>7 DEF Signal, Fault
  <2>2. CASE Ends(p)
    BY <1>1, <1>2, <1>4, <2>1, <2>2, LeftEnds
  <2>3. CASE /\ u.kind = "archive"
             /\ Step(p, u.pc, [u EXCEPT !.marked = TRUE, !.finished = FALSE])
    <3>1. PICK v : v = [u EXCEPT !.marked = TRUE, !.finished = FALSE]
      OBVIOUS
    <3>2. v.kind = "archive" /\ v.id = id /\ v.pc = u.pc /\ procs' = [procs EXCEPT ![p] = v]
      BY <1>1, <1>2, <2>3, <3>1 DEF Programs, Step
    <3>3. v.pc \in {"prepare", "lock", "close"} => Explained(id)'
      BY <1>1, <1>2, <1>3, <2>1, <2>3, <3>2 DEF Explained, Holds
    <3>4. Tidy(v)'
      BY <2>1, <3>2, <3>3 DEF Tidy
    <3> QED
      BY <1>1, <1>2, <1>4, <2>1, <3>2, <3>4, LeftKept
  <2> QED
    BY <1>7, <2>2, <2>3 DEF Signal
<1> QED
  BY <1>5, <1>6, <1>7

LEMMA LauncherLeaves ==
  ASSUME LockInv, LeftInv, Launcher
  PROVE  LeftInv'
<1>1. RowsStay /\ UNCHANGED met
  BY LauncherKeeps DEF Launcher, CheckActive, CheckArchive, CreateArchive,
       CheckRerate, CheckInvoices, ChildEnded, history
<1>2. OnlyTouches(0)
  <2>1. UNCHANGED tasks \/ tasks' = Append(tasks, NewTask("archive"))
    BY DEF Launcher, CheckActive, CheckArchive, CreateArchive, CheckRerate,
         CheckInvoices, ChildEnded
  <2> QED
    BY <1>1, <2>1, TouchesNone, NewTouches DEF TaskKinds
<1>3. UNCHANGED procs \/ \E kind \in TaskKinds : Launch(kind)
  BY DEF Launcher, CheckActive, CheckArchive, CreateArchive, CheckRerate,
       CheckInvoices, ChildEnded, TaskKinds
<1>4. ASSUME NEW kind \in TaskKinds, Launch(kind)
      PROVE  LeftInv'
  <2>1. PICK v : v = [Off EXCEPT !.kind = kind, !.pc = "start",
                                 !.task_failed = Path(kind) = "invoices"]
    OBVIOUS
  <2>2. PICK p \in Processes \ Running : procs' = [procs EXCEPT ![p] = v]
    BY <1>4, <2>1 DEF Launch
  <2>3. procs[p].id = 0 /\ v.pc = "start" /\ v.finished
    BY <2>1, <2>2 DEF Running, LockInv, Holds, Off
  <2>4. Tidy(v)'
    BY <2>3 DEF Tidy
  <2> QED
    BY <1>1, <1>2, <2>2, <2>3, <2>4, LeftKept
<1>5. CASE UNCHANGED procs
  <2>1. met \subseteq met'
    BY <1>1
  <2> QED
    BY <1>1, <1>2, <1>5, <2>1, LeftIdle
<1> QED
  BY <1>3, <1>4, <1>5

LEMMA LeftInit == Init => LeftInv
<1> SUFFICES ASSUME Init PROVE LeftInv
  OBVIOUS
<1>1. tasks = <<>> /\ DOMAIN tasks = {}
  BY DEF Init
<1>2. \A p \in Processes : procs[p].pc = "off" /\ procs[p].finished
  BY DEF Init, Off
<1>3. QED
  BY <1>1, <1>2 DEF LeftInv, Tidy

LEMMA LeftNext == LockInv /\ WorkInv /\ LeftInv /\ [Next]_vars => LeftInv'
<1> SUFFICES ASSUME LockInv, WorkInv, LeftInv, [Next]_vars PROVE LeftInv'
  OBVIOUS
<1>1. CASE Tick
  BY <1>1, OlderRows, OlderTouches, LeftIdle DEF Tick
<1>2. CASE Cron \/ KillLauncher \/ UNCHANGED vars
  <2>1. UNCHANGED <<tasks, procs>> /\ met \subseteq met'
    BY <1>2 DEF Cron, KillLauncher, vars, history, Fault
  <2> QED
    BY <2>1, SameRows, TouchesNone, LeftIdle
<1>3. CASE Launcher
  BY <1>3, LauncherLeaves
<1>4. ASSUME NEW kind \in TaskKinds, GuiCreates(kind)
      PROVE  LeftInv'
  BY <1>4, NewRow, NewTouches, LeftIdle DEF GuiCreates, history
<1>5. ASSUME NEW p \in Processes, Program(p)
      PROVE  LeftInv'
  BY <1>5, ProgramLeaves
<1>6. ASSUME NEW p \in Running, Kill(p) \/ Signal(p) \/ Refused(p) \/ Disconnected(p)
      PROVE  LeftInv'
  BY <1>6, FaultLeaves
<1> QED
  BY <1>1, <1>2, <1>3, <1>4, <1>5, <1>6 DEF Next

LEMMA LeftSuffices == LockInv /\ LeftInv => LeftInProgressIsExplained
<1> SUFFICES ASSUME LockInv, LeftInv, NEW t \in DOMAIN tasks, tasks[t].status = "IN PROGRESS",
                    \A p \in Running : procs[p].id # t
             PROVE  Explained(t)
  BY DEF LeftInProgressIsExplained, Explained
<1>1. \A p \in Processes \ Running : procs[p].id = 0
  BY DEF LockInv, Holds, Running
<1>2. ~InHand(t)
  BY <1>1, RowIds DEF InHand
<1> QED
  BY <1>2 DEF LeftInv

LEMMA WorkInvariant == Spec => []WorkInv
  BY LockInvariant, WorkInit, WorkNext, PTL DEF Spec

LEMMA LeftInvariant == Spec => []LeftInv
  BY LockInvariant, WorkInvariant, LeftInit, LeftNext, PTL DEF Spec

\* A task stays IN PROGRESS with nobody working on it only after a kill or a lost
\* connection or, in archiving and rerating, a signal or a refused statement.
THEOREM LeftTasksAreExplained == Spec => []LeftInProgressIsExplained
  BY LockInvariant, LeftInvariant, LeftSuffices, PTL

-----------------------------------------------------------------------------
Answered(t) == tasks[t].status \in {"DONE", "FAILED"}

\* Who writes a status has the task in hand; without a signal on record it was
\* neither DONE nor FAILED.
LEMMA AnswersStand ==
  ASSUME LockInv, LeftInv, [Next]_vars, NEW t \in DOMAIN tasks, Answered(t),
         tasks'[t].status # tasks[t].status
  PROVE  "signal" \in met'
<1>1. CASE Tick
  BY <1>1, OlderTouches, RowIds DEF OnlyTouches
<1>2. CASE Cron \/ KillLauncher \/ UNCHANGED vars
  BY <1>2 DEF Cron, KillLauncher, vars
<1>3. CASE Launcher \/ \E kind \in TaskKinds : GuiCreates(kind)
  <2>1. met' = met
    BY <1>3 DEF Launcher, CheckActive, CheckArchive, CreateArchive, CheckRerate,
         CheckInvoices, ChildEnded, GuiCreates, history
  <2>2. UNCHANGED tasks \/ \E kind \in TaskKinds : tasks' = Append(tasks, NewTask(kind))
    BY <1>3 DEF Launcher, CheckActive, CheckArchive, CreateArchive, CheckRerate,
         CheckInvoices, ChildEnded, GuiCreates, TaskKinds
  <2> QED
    BY <2>1, <2>2, NewTouches, RowIds DEF OnlyTouches
<1>4. ASSUME NEW p \in Processes, tasks' # tasks,
             procs[p].pc \in {"prepare", "lock", "work", "test", "finish", "unlock"},
             NEW s \in Status,
             SetStatus(procs[p].id, s) \/ StartWork(procs[p].id, s), met \subseteq met'
      PROVE  "signal" \in met'
  <2>1. PICK id : id = procs[p].id
    OBVIOUS
  <2>2. id \in DOMAIN tasks /\ Tidy(procs[p])
    BY <1>4, <2>1 DEF LockInv, Holds, LeftInv
  <2>3. OnlyTouches(id)
    BY <1>4, <2>1, <2>2, StatusTouches
  <2>4. t = id
    BY <2>3 DEF OnlyTouches
  <2>5. "signal" \in met
    BY <1>4, <2>1, <2>2, <2>4 DEF Tidy, Answered
  <2> QED
    BY <1>4, <2>5
<1>5. ASSUME NEW p \in Processes, ErrorHandle(procs[p]), met \subseteq met',
             procs[p].pc \notin {"start", "close"}
      PROVE  "signal" \in met'
  <2>1. procs[p].id # 0 /\ SetStatus(procs[p].id, "FAILED")
    BY <1>5 DEF ErrorHandle
  <2>2. procs[p].pc \in {"prepare", "lock", "work", "test", "finish", "unlock"}
    BY <1>5, <2>1 DEF LockInv, Holds, Programs, PCs
  <2> QED
    BY <1>4, <1>5, <2>1, <2>2 DEF Status
<1>6. ASSUME NEW p \in Processes, Program(p)
      PROVE  "signal" \in met'
  <2>1. UNCHANGED met
    BY <1>6 DEF Program, history
  <2>2. CASE Prepare(p)
    <3>1. procs[p].pc = "prepare" /\ StartWork(procs[p].id, tasks[procs[p].id].status)
      BY <2>2 DEF Prepare
    <3>2. procs[p].id \in DOMAIN tasks
      BY <3>1 DEF LockInv, Holds
    <3>3. tasks[procs[p].id] \in Rows
      BY <3>2 DEF LockInv
    <3>4. tasks[procs[p].id].status \in Status
      BY <3>3 DEF Rows
    <3> QED
      BY <1>4, <2>1, <3>1, <3>4
  <2>3. CASE GiveUp(p)
    BY <1>5, <2>1, <2>3 DEF GiveUp
  <2>4. CASE TaskLock(p) \/ TaskFinish(p) \/ TaskUnlock(p)
    BY <1>4, <2>1, <2>4 DEF TaskLock, TaskFinish, TaskUnlock, Status
  <2>5. CASE ProcessLock(p) \/ TaskGet(p) \/ Work(p) \/ TestStopped(p) \/ Close(p)
    BY <2>5 DEF ProcessLock, TaskGet, Work, TestStopped, Close
  <2> QED
    BY <1>6, <2>2, <2>3, <2>4, <2>5 DEF Program
<1>7. ASSUME NEW p \in Running, Kill(p) \/ Signal(p) \/ Refused(p) \/ Disconnected(p)
      PROVE  "signal" \in met'
  <2>1. p \in Processes
    BY DEF Running
  <2>2. CASE Kill(p) \/ Disconnected(p)
    BY <2>2 DEF Kill, Disconnected
  <2>3. CASE Signal(p)
    BY <2>3 DEF Signal, Fault
  <2>4. CASE Refused(p)
    BY <1>5, <2>1, <2>4 DEF Refused, Fault
  <2> QED
    BY <1>7, <2>2, <2>3, <2>4
<1> QED
  BY <1>1, <1>2, <1>3, <1>6, <1>7 DEF Next

\* What the GUI shows as DONE or FAILED changes only after a signal, for any number
\* of tasks, programs and faults.
THEOREM AnswersRemain == Spec => AnswersAreFinal
<1>1. LockInv /\ LeftInv /\ [Next]_vars =>
        [\A t \in DOMAIN tasks :
           (tasks[t].status \in {"DONE", "FAILED"} /\ tasks'[t].status # tasks[t].status)
              => "signal" \in met']_vars
  BY AnswersStand DEF Answered
<1> QED
  BY <1>1, LockInvariant, LeftInvariant, PTL DEF Spec, AnswersAreFinal
=============================================================================
