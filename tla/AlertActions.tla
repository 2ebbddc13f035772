---------------------------- MODULE AlertActions ----------------------------
(***************************************************************************)
(* What the alerts daemon mor_alerts does when an alert is raised and when *)
(* it is cleared: it blocks users, changes the LCR by which their calls    *)
(* are routed, and raises the alert of a group when enough of its members  *)
(* are set on an object.                                                   *)
(*                                                                         *)
(* An alert watches all users or all devices and has a data node for each  *)
(* one it has seen a call of.  Raising it on a node overwrites columns of  *)
(* the row in users; the former LCR is kept in the node, in memory, and    *)
(* written back when the alert is cleared.  Several alerts and the GUI     *)
(* write the same columns, and users and devices are numbered apart.       *)
(*                                                                         *)
(* Whether a sum has reached its bound is the subject of AlertWindow; here *)
(* any alert but the group's may be raised and cleared at any tick.        *)
(***************************************************************************)
EXTENDS Integers, Sequences, FiniteSets, SequencesExt

CONSTANTS
    Users,       \* the ids of users
    Devices,     \* the ids of devices
    Owner,       \* the user of each device
    Config,      \* the alerts, in the order in which they are checked; the
                 \* last one is the group's, the others are its members
    more_than,   \* the group is raised when more members than that are set ...
    less_than,   \* ... and cleared when fewer than that are
    OwnLcr,      \* the LCR each user has at first
    NewLcrs,     \* the LCRs the GUI gives to users later
    MayIgnore,   \* the users for whom alerts may be switched off
    MaxEvents,   \* bound: how often the GUI changes an LCR, switches alerts off
                 \* or on or changes alerts, a statement fails or the daemon dies
    MaxRemoved   \* bound: how many alerts the GUI removes at once

Alerts == DOMAIN Config

Group == Len(Config)

Members == Alerts \ {Group}

Objects == Users \cup Devices

\* check    "user" or "device"
\* lcr      action_alert_change_lcr_id, 0 for none
\* back     action_clear_change_lcr_id: -1 to restore, 0 for none
\* block    action_alert_disable_object and action_clear_enable_object
\* timed    cleared by a clear period rather than by its sum
AlertType == [check : {"user", "device"}, lcr : Nat, back : {-1} \cup Nat,
              block : BOOLEAN, timed : BOOLEAN]

ASSUME ConstAssumption ==
    /\ Users \subseteq Nat \ {0} /\ Devices \subseteq Nat \ {0}
    /\ IsFiniteSet(Users) /\ IsFiniteSet(Devices)
    /\ Cardinality(Users \cup Devices) <= 500  \* a group remembers 500 objects
    /\ Owner \in [Devices -> Users]
    /\ Config \in Seq(AlertType) \ {<<>>}
    /\ more_than \in Nat /\ less_than \in 0 .. more_than + 1
    /\ OwnLcr \in [Users -> Nat \ {0}] /\ NewLcrs \subseteq Nat \ {0}
    /\ MayIgnore \subseteq Users
    /\ MaxEvents \in Nat /\ MaxRemoved \in Nat

VARIABLES
    lcr,       \* users.lcr_id
    blocked,   \* users.blocked
    ignores,   \* users.ignore_global_alerts
    pc,        \* rest, check, group, clear, or off
    todo,      \* the nodes the daemon has yet to look at in this pass
    job,       \* the report it is working on
    place,     \* the list of data nodes of each alert: where an object's node is,
               \* 0 if the object has none
    node,      \* their contents
    changed,   \* global_alert_is_changed
    left,      \* how many of these events may still happen
    own,       \* history: the LCR the GUI gave each user last
    raised,    \* history: the nodes that hold the LCR of a user, in their order
    spoilt,    \* history: the users for whom that order was not kept
    quiet,     \* history: users of whom a call left a period or for whom alerts
               \* were switched off or on, and no call came since
    untold     \* history: objects on which the group was cleared and nobody told

users == <<lcr, blocked, ignores>>
memory == <<place, node, changed>>
history == <<own, raised, spoilt, quiet, untold>>
vars == <<users, pc, todo, job, memory, left, history>>

NoJob == [a |-> 0, o |-> 0, report |-> FALSE, step |-> "none"]

\* A node of the group knows whether its sum was high when it was counted.
NoNode == [user |-> 0, saved |-> 0, ignore |-> FALSE, set |-> FALSE, high |-> FALSE]

\* The user a node of alert a belongs to.
UserOf(a, o) == IF Config[a].check = "user" \/ o \notin Devices THEN o ELSE Owner[o]

\* The objects of which an alert has a node.
Nodes(a) == {o \in Objects : place[a][o] > 0}

\* The order in which the daemon goes through the nodes.
Before(m, n) ==
    m[1] < n[1] \/ (m[1] = n[1] /\ place[m[1]][m[2]] < place[n[1]][n[2]])

\* Whether a pass may report on a node: "check" raises alerts and clears those
\* that are cleared by their sum, "clear" clears those that are cleared by time.
Due(pass, n) ==
    LET set == node[n[1]][n[2]].set timed == Config[n[1]].timed IN
    IF pass = "check" THEN ~(set /\ timed) ELSE set /\ timed

\* The members of the group that are set on an object.
SetOn(o) == {a \in Members : o \in Nodes(a) /\ node[a][o].set}

-----------------------------------------------------------------------------
Init ==
    /\ lcr = OwnLcr
    /\ blocked = [u \in Users |-> FALSE]
    /\ \E S \in SUBSET MayIgnore : ignores = [u \in Users |-> u \in S]
    /\ pc = "off" /\ todo = {} /\ job = NoJob
    /\ place = [a \in Alerts |-> [o \in Objects |-> 0]]
    /\ node = [a \in Alerts |-> [o \in Objects |-> NoNode]]
    /\ changed = TRUE
    /\ left = MaxEvents
    /\ own = lcr
    /\ raised = [u \in Users |-> <<>>]
    /\ spoilt = {} /\ quiet = {} /\ untold = {}

Start ==
    /\ pc = "off"
    /\ pc' = "rest"
    /\ UNCHANGED <<users, todo, job, memory, left, history>>

Event == left > 0 /\ left' = left - 1

\* The orders of the users in S are given up, the others are r from here on.
Spoil(S, r) ==
    /\ spoilt' = spoilt \cup (S \cap Users)
    /\ raised' = [u \in Users |-> IF u \in spoilt \cup S THEN <<>> ELSE r[u]]

\* The GUI gives a user another LCR.
SetLcr(u, l) ==
    /\ lcr[u] # l /\ Event
    /\ lcr' = [lcr EXCEPT ![u] = l] /\ own' = [own EXCEPT ![u] = l]
    /\ Spoil(IF raised[u] # <<>> \/ job.step \in {"read", "write"} THEN {u} ELSE {}, raised)
    /\ UNCHANGED <<blocked, ignores, pc, todo, job, memory, quiet, untold>>

\* The GUI switches alerts off or on for a user.
SwitchIgnore(u) ==
    /\ Event
    /\ ignores' = [ignores EXCEPT ![u] = ~@] /\ quiet' = quiet \cup {u}
    /\ UNCHANGED <<lcr, blocked, pc, todo, job, memory, own, raised, spoilt, untold>>

-----------------------------------------------------------------------------
(***************************************************************************)
(* The sums are updated: a call is of a device and of its user.            *)
(***************************************************************************)
\* The object of an alert in a call of device d, and those in some calls.
ObjectOf(a, d) == IF Config[a].check = "user" THEN Owner[d] ELSE d

Of(a, D) == {ObjectOf(a, d) : d \in D}

\* get_data_address: the calls come in the order of s, and an object that is
\* new goes to the end of the list.
Placed(a, s) ==
    [o \in Objects |->
       LET at == {i \in DOMAIN s : ObjectOf(a, s[i]) = o} IN
       IF o \in Nodes(a) \/ at = {} THEN place[a][o]
       ELSE Cardinality(Nodes(a) \cup {ObjectOf(a, s[i]) : i \in 1 .. Min(at)})]

\* Mutation of Touched: a new node is not asked whether it is to be ignored.
TouchedTwice(a, o, update) ==
    [node[a][o] EXCEPT
        !.user = IF Config[a].check = "device" /\ o \in Nodes(a) THEN Owner[o] ELSE o,
        !.ignore = update /\ Config[a].check = "user" /\ o \in Nodes(a) /\ ignores[o]]

\* get_data_address: a node that is found gets the user of the call; a new one
\* gets the number of the object, which is the user's only for user alerts.
\* Only alerts on users, and only calls that are added, say who is to be
\* ignored.
Touched(a, o, update) ==
    [node[a][o] EXCEPT
        !.user = IF Config[a].check = "device" /\ o \in Nodes(a) THEN Owner[o] ELSE o,
        !.ignore = update /\ Config[a].check = "user" /\ ignores[o]]

\* update_data(0), get_calls_data and update_data(1), with a call of each device
\* in Out leaving the periods and one of each device in the sequence In coming.
\* What leaves has come before.  Calls are not counted for the group.
Update(Out, In) ==
    LET came == ToSet(In) IN
    /\ pc = "rest"
    /\ \A a \in Members : Of(a, Out) \subseteq Nodes(a)
    /\ place' = [a \in Alerts |-> IF a = Group THEN place[a] ELSE Placed(a, In)]
    /\ node' = [a \in Alerts |-> [o \in Objects |->
         IF a = Group THEN node[a][o]
         ELSE IF o \in Of(a, came) THEN Touched(a, o, TRUE)
         ELSE IF o \in Of(a, Out) THEN Touched(a, o, FALSE) ELSE node[a][o]]]
    /\ quiet' = (quiet \cup {Owner[d] : d \in Out}) \ {Owner[d] : d \in came}
    /\ pc' = "check"
    /\ todo' = {n \in Members \X Objects : place'[n[1]][n[2]] > 0 /\ Due("check", n)}
    /\ UNCHANGED <<users, job, changed, left, own, raised, spoilt, untold>>

-----------------------------------------------------------------------------
(***************************************************************************)
(* report_alert, one statement of it at a time.                            *)
(***************************************************************************)
\* Whether the report blocks, or gives back, a user.
Blocks(a) == Config[a].block /\ Config[a].check = "user"

\* Whether it changes an LCR: not of a node that does not know its user.
Routes(a, o, report) ==
    /\ node[a][o].user # 0
    /\ IF report THEN Config[a].lcr > 0 ELSE Config[a].back # 0

AfterBlock(a, o, report) ==
    IF ~Routes(a, o, report) THEN "record" ELSE IF report THEN "read" ELSE "write"

\* The next statement of report j, with the nodes n; before the last one, which
\* writes down the report, the node is set or cleared.
Advance(j, n, next) ==
    /\ node' = IF next = "record" THEN [n EXCEPT ![j.a][j.o].set = j.report] ELSE n
    /\ job' = [j EXCEPT !.step = next]
    /\ UNCHANGED changed

\* An ignored user's alert is set and cleared, and nothing is done.
Report(a, o, report) ==
    IF node[a][o].ignore
      THEN /\ node' = [node EXCEPT ![a][o].set = report]
           /\ changed' = TRUE
           /\ Spoil({u \in Users : ~report /\ <<a, o>> \in ToSet(raised[u])}, raised)
           /\ UNCHANGED job
      ELSE /\ Advance([a |-> a, o |-> o, report |-> report, step |-> "none"], node,
                      IF Blocks(a) THEN "block" ELSE AfterBlock(a, o, report))
           /\ UNCHANGED <<raised, spoilt>>

\* action_alert_disable_object
Block ==
    /\ job.step = "block"
    /\ blocked' = [u \in Users |-> IF u = job.o THEN job.report ELSE blocked[u]]
    /\ Advance(job, node, AfterBlock(job.a, job.o, job.report))
    /\ UNCHANGED <<lcr, ignores, pc, todo, place, left, history>>

\* The node the daemon is reporting on.
This == node[job.a][job.o]

\* Mutation of ReadLcr: an LCR that is known is not read again.
ReadLcrOnce ==
    /\ job.step = "read"
    /\ LET saved == IF This.saved = 0 /\ This.user \in Users
                      THEN lcr[This.user] ELSE This.saved IN
         Advance(job, [node EXCEPT ![job.a][job.o].saved = saved],
                 IF saved < 1 /\ Config[job.a].back = -1 THEN "record" ELSE "write")
    /\ UNCHANGED <<users, pc, todo, place, left, history>>

\* action_alert_change_lcr: the SELECT, when an alert is raised
ReadLcr ==
    /\ job.step = "read"
    /\ LET saved == IF This.user \in Users THEN lcr[This.user] ELSE This.saved IN
         Advance(job, [node EXCEPT ![job.a][job.o].saved = saved],
                 IF saved < 1 /\ Config[job.a].back = -1 THEN "record" ELSE "write")
    /\ UNCHANGED <<users, pc, todo, place, left, history>>

\* The LCR a user is given: a saved LCR of 0 is not restored.
Target(a, o, report) ==
    IF report THEN Config[a].lcr
    ELSE IF Config[a].back = -1 THEN node[a][o].saved ELSE Config[a].back

\* The history of user u when node n, which belongs to user v, is raised or
\* cleared: its LCR is restored in the end only if nodes are cleared in the
\* opposite order.
Spoils(u, v, n, report) ==
    (IF u # v \/ (report /\ Config[n[1]].back # -1) THEN {u, v} ELSE {})
      \cup (IF ~report /\ (raised[u] = <<>> \/ Last(raised[u]) # n) THEN {u} ELSE {})

\* action_alert_change_lcr: the UPDATE
WriteLcr ==
    LET target == Target(job.a, job.o, job.report) n == <<job.a, job.o>> IN
    /\ job.step = "write"
    /\ Advance(job, node, "record")
    /\ IF target > 0 /\ This.user \in Users
         THEN /\ lcr' = [lcr EXCEPT ![This.user] = target]
              /\ Spoil(Spoils(This.user, UserOf(job.a, job.o), n, job.report),
                       [raised EXCEPT ![This.user] =
                          IF job.report THEN Append(@, n) ELSE Front(@)])
         ELSE UNCHANGED <<lcr, raised, spoilt>>
    /\ UNCHANGED <<blocked, ignores, pc, todo, place, left, own, quiet, untold>>

\* Mutation of Record: the group is not told.
RecordUnnoticed ==
    /\ job.step = "record"
    /\ job' = NoJob
    /\ UNCHANGED <<users, pc, todo, memory, left, history>>

\* report_alert: the UPDATE of the alert
Record ==
    /\ job.step = "record"
    /\ job' = NoJob /\ changed' = TRUE
    /\ UNCHANGED <<users, pc, todo, place, node, left, history>>

-----------------------------------------------------------------------------
(***************************************************************************)
(* A pass of the daemon.                                                   *)
(***************************************************************************)
\* check_current_alert, increment_clear_period and check_clear_date: the daemon
\* reports on the next node in line, or its sum or clock does not ask for it.
\* Of the group only nodes that ask for it are in line.  Bounds by which a node
\* is cleared and raised in one visit are left out.
Look ==
    /\ job = NoJob
    /\ \E n \in todo :
         /\ \A m \in todo \ {n} : Before(n, m)
         /\ todo' = todo \ {n}
         /\ \/ Report(n[1], n[2], ~node[n[1]][n[2]].set)
            \/ pc # "group" /\ UNCHANGED <<job, node, changed, spoilt, raised>>
    /\ UNCHANGED <<users, pc, place, left, own, quiet, untold>>

\* check_current_alert_group: an object is counted with the first member that
\* has seen it ...
CountedWith(a, o) == o \in Nodes(a) /\ \A b \in Members : b < a => o \notin Nodes(b)

Counted == {o \in Objects : \E a \in Members : CountedWith(a, o)}

CountedBefore(p, o) ==
    \E a, b \in Members : /\ CountedWith(a, p) /\ CountedWith(b, o)
                          /\ a < b \/ (a = b /\ place[a][p] <= place[a][o])

\* ... and has the sum of the members that are set on it and on the objects
\* that were counted before it with the same member.
GroupSum(o) ==
    Cardinality({n \in Objects \X Members :
                   /\ n[2] \in SetOn(n[1])
                   /\ \E a \in Members : /\ CountedWith(a, o) /\ CountedWith(a, n[1])
                                         /\ place[a][n[1]] <= place[a][o]})

\* Whether the sum asks for the group to be raised or cleared.
Asks(o) ==
    IF node[Group][o].set THEN ~Config[Group].timed /\ GroupSum(o) < less_than
    ELSE GroupSum(o) > more_than

\* A node that is not counted any more keeps its sum: cleared by time, it is
\* raised again.
Stale == {o \in Nodes(Group) \ Counted : node[Group][o].high /\ ~node[Group][o].set}

\* check_alerts: the group is looked at after its members, if any has changed.
\* Its nodes get no user and are not ignored: an LCR that one holds is not going
\* to be given back.  The node of an object that is new to the group has the
\* object's number as its user until the next count.
CountGroup ==
    /\ pc = "check" /\ job = NoJob /\ todo = {} /\ changed
    /\ place' = [place EXCEPT ![Group] = [o \in Objects |->
         IF o \in Nodes(Group) \/ o \notin Counted THEN place[Group][o]
         ELSE Cardinality(Nodes(Group) \cup {p \in Counted : CountedBefore(p, o)})]]
    /\ node' = [node EXCEPT ![Group] = [o \in Objects |->
         IF o \notin Counted THEN node[Group][o]
         ELSE [node[Group][o] EXCEPT !.user = IF o \in Nodes(Group) THEN 0 ELSE o,
                                     !.ignore = FALSE, !.high = GroupSum(o) > more_than]]]
    /\ pc' = "group"
    /\ todo' = {Group} \X ({o \in Counted : Asks(o)} \cup Stale)
    /\ Spoil({u \in Users : \E o \in Counted : <<Group, o>> \in ToSet(raised[u])}, raised)
    /\ UNCHANGED <<users, job, changed, left, own, quiet, untold>>

\* check_alerts is done, with a look at the group or without.
EndChecks ==
    /\ pc = "group" \/ (pc = "check" /\ ~changed)
    /\ job = NoJob /\ todo = {}
    /\ changed' = FALSE
    /\ untold' = IF pc = "group" THEN {} ELSE untold
    /\ pc' = "clear"
    /\ todo' = {n \in Alerts \X Objects : n[2] \in Nodes(n[1]) /\ Due("clear", n)}
    /\ UNCHANGED <<users, job, place, node, left, own, raised, spoilt, quiet>>

EndTick ==
    /\ pc = "clear" /\ job = NoJob /\ todo = {}
    /\ pc' = "rest"
    /\ UNCHANGED <<users, todo, job, memory, left, history>>

-----------------------------------------------------------------------------
\* Users whose LCR is held, or about to be, by an alert in A.
Held(A) ==
    {u \in Users : \E n \in ToSet(raised[u]) : n[1] \in A}
      \cup (IF job.step \in {"read", "write"} THEN {UserOf(job.a, job.o)} ELSE {})

\* The data nodes of the alerts A are freed.
Free(A) ==
    /\ place' = [a \in Alerts |-> IF a \in A THEN [o \in Objects |-> 0] ELSE place[a]]
    /\ node' = [a \in Alerts |-> IF a \in A THEN [o \in Objects |-> NoNode] ELSE node[a]]
    /\ Spoil(Held(A), raised)
    /\ changed' = TRUE

\* A statement fails while alerts are checked, or the daemon is killed.
Die ==
    /\ pc # "off"
    /\ Event
    /\ Free(Alerts)
    /\ pc' = "off" /\ todo' = {} /\ job' = NoJob
    /\ UNCHANGED <<users, own, quiet, untold>>

\* A statement fails while alerts are cleared by time: the result is ignored.
\* The node stays set, or it is cleared and the group is not told.
ReportFails ==
    /\ pc = "clear" /\ job # NoJob
    /\ Event
    /\ job' = NoJob
    /\ untold' = IF job.a = Group /\ ~node[Group][job.o].set THEN untold \cup {job.o} ELSE untold
    /\ UNCHANGED <<users, pc, todo, memory, own, raised, spoilt, quiet>>

\* get_alerts finds that the GUI has changed alerts, and that it has removed those
\* in A, which it later finds back.
Reload(A) ==
    /\ pc = "rest" /\ Cardinality(A) <= MaxRemoved
    /\ Event
    /\ Free(A)
    /\ UNCHANGED <<users, pc, todo, job, own, quiet, untold>>

Daemon ==
    \/ Start
    \/ \E Out \in SUBSET Devices, In \in SetToAllKPermutations(Devices) : Update(Out, In)
    \/ Look \/ CountGroup \/ EndChecks \/ EndTick
    \/ Block \/ ReadLcr \/ WriteLcr \/ Record

Next ==
    \/ Daemon
    \/ \E u \in Users, l \in NewLcrs : SetLcr(u, l)
    \/ \E u \in MayIgnore : SwitchIgnore(u)
    \/ Die \/ ReportFails \/ \E A \in SUBSET {a \in Alerts : Nodes(a) # {}} : Reload(A)

Spec == Init /\ [][Next]_vars

-----------------------------------------------------------------------------
(***************************************************************************)
(* Properties.                                                             *)
(***************************************************************************)
Node == [user : Nat, saved : Nat, ignore : BOOLEAN, set : BOOLEAN, high : BOOLEAN]

Job == [a : Nat, o : Nat, report : BOOLEAN,
        step : {"none", "block", "read", "write", "record"}]

\* The types of the variables.
TypeOK ==
    /\ lcr \in [Users -> Nat] /\ own \in [Users -> Nat]
    /\ blocked \in [Users -> BOOLEAN] /\ ignores \in [Users -> BOOLEAN]
    /\ pc \in {"off", "rest", "check", "group", "clear"}
    /\ todo \subseteq Alerts \X Objects
    /\ job \in Job
    /\ place \in [Alerts -> [Objects -> Nat]]
    /\ node \in [Alerts -> [Objects -> Node]]
    /\ changed \in BOOLEAN
    /\ left \in Nat
    /\ raised \in [Users -> Seq(Alerts \X Objects)]
    /\ spoilt \subseteq Users /\ quiet \subseteq Users /\ untold \subseteq Objects

\* The LCR beneath the i-th node that holds the LCR of u.
Beneath(u, i) == IF i = 1 THEN own[u] ELSE Config[raised[u][i - 1][1]].lcr

\* Each alert on a user, the group's too, keeps the LCR that was there before
\* it, and the user has the LCR of the last one: cleared in the opposite order,
\* they give the user back what the GUI had given.  It is so unless they are
\* cleared in another order, the daemon forgets a node, or the user of the
\* group's as it does with the next count, the GUI changes the LCR meanwhile, or
\* a new node is raised that has the number of a device for a user.
LcrsAreStacked ==
    \A u \in Users \ spoilt :
      /\ lcr[u] = IF raised[u] = <<>> THEN own[u] ELSE Config[Last(raised[u])[1]].lcr
      /\ \A i \in DOMAIN raised[u] :
           LET n == raised[u][i] IN
           node[n[1]][n[2]].set /\ node[n[1]][n[2]].saved = Beneath(u, i)

\* When the daemon has looked at its alerts the group is raised on every object
\* on which more than more_than of its members are set, unless it was cleared
\* by time and the statement that should tell so failed.
GroupIsNotSilent ==
    ~changed /\ job = NoJob =>
      \A o \in Objects \ untold : Cardinality(SetOn(o)) > more_than => node[Group][o].set

\* No alert on users but the group's blocks or routes a user for whom alerts are
\* switched off, unless a call of the user has left a period, which clears the
\* mark in the node, or the switch was moved, and no call has come since.
IgnoredUsersAreSpared ==
    [][\A u \in Users :
         /\ job # NoJob /\ job.a # Group /\ Config[job.a].check = "user"
         /\ job' # job
         /\ lcr'[u] # lcr[u] \/ blocked'[u] # blocked[u]
         => ~ignores[u] \/ u \in quiet]_vars

=============================================================================
