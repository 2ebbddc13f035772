---------------------------- MODULE AlertWindow -----------------------------
(***************************************************************************)
(* The moving sums of the alerts daemon mor_alerts.                        *)
(*                                                                         *)
(* Every tick of 15 seconds the daemon subtracts from each alert's sum the *)
(* packet of calls that is about to leave the alert's period, reads the    *)
(* new calls into a packet, shifts the ring of packets, and adds the new   *)
(* packet.  Nothing compares the sum with the calls of the period: it is   *)
(* right only if every packet is added once and subtracted once.  What may *)
(* get in the way: the GUI adds, edits or removes an alert while the       *)
(* daemon runs, a query fails, the file of a packet cannot be opened, an   *)
(* alert is cleared and its sum zeroed.                                    *)
(*                                                                         *)
(* A sum is kept call by call here: how often the call has been added,     *)
(* less how often it has been subtracted.  An alert watches one object, of *)
(* which its type says what calls it counts.  Times are in ticks.          *)
(***************************************************************************)
EXTENDS Integers, FiniteSets, Functions

CONSTANTS
    Alerts,      \* the alerts the GUI may define
    Packets,     \* DATA_PACKETS: the length of the ring
    Minute,      \* ticks of a minute, 60 / DATA_TICK_TIME
    Settings,    \* what each alert can be set to, see Setting
    MaxCalls,    \* bound: how many calls there will be
    MaxEdits,    \* bound: how often the GUI changes an alert
    MaxFaults    \* bound: how many queries and reads fail, and daemons die

Ids == 1 .. MaxCalls

\* raw_period in minutes (0: the whole ring), the calls that check_data and
\* alert_type make it count, the sum that raises the alert, the ticks after which
\* it is cleared (0: it is cleared by its sum), whether it is to be cleared on a
\* date, and whether it is not to be cleared at all.
Setting == [raw : Nat, of : SUBSET Ids, more : Nat, clear_period : Nat,
            clear_date : BOOLEAN, disable_clear : BOOLEAN]

Off == [raw |-> -1, of |-> {}, more |-> 0, clear_period |-> 0,
        clear_date |-> FALSE, disable_clear |-> FALSE]

ASSUME ConstAssumption ==
    /\ Packets \in Nat \ {0} /\ Minute \in Nat \ {0}
    /\ MaxCalls \in Nat /\ MaxEdits \in Nat /\ MaxFaults \in Nat
    /\ Settings \in [Alerts -> SUBSET Setting]
    /\ \A a \in Alerts : \A s \in Settings[a] : s.raw * Minute <= Packets

VARIABLES
    calls,    \* the ids of the calls that can be read
    table,    \* the table alerts
    flag,     \* the setting alerts_need_update
    pc,       \* what the daemon does next
    odd,      \* whether this tick looks at the flag is counted by its parity
    forced,   \* forced_update
    fetched,  \* the result of the SELECT on alerts, until it is put to use
    alerts,   \* the alerts in memory
    node,     \* their data: the sum, whether it is set, and the two clocks
    ring,     \* calls[]: the packets, the newest at 0
    last,     \* last_call_id
    left,     \* how many faults, and edits, may still happen
    upset,    \* history: what has happened to an alert since it was loaded
    surplus,  \* history: calls whose subtraction was skipped after a clear
    missed    \* history: a change of the GUI fell into a reload, or the first
              \* load failed

daemon == <<pc, odd, forced, fetched, alerts, node, ring, last>>
history == <<upset, surplus, missed>>
vars == <<calls, table, flag, daemon, left, history>>

\* late    loaded when calls of its period were already in the ring
\* edit    its period or calls were changed and its data kept, or its clear period
\*         or disable_clear while it counted down
\* unread  the file of a packet was not opened, and the packet left out
\* reread  a failed query left the ring as it was
\* day     cleared while its period is the whole ring
\* date    cleared by date while it is not cleared by time
Upsets == {"late", "edit", "unread", "reread", "day", "date"}

Loaded == {a \in Alerts : alerts[a] # Off}

\* calculate_period: the index of the last packet of the period
Period(s) == IF s.raw > 0 THEN s.raw * Minute - 1 ELSE Packets - 1

\* increment_clear_period looks at an alert with this setting.
ClearsByTime(s) == s.clear_period > 0 /\ ~s.disable_clear

Between(i, j) == UNION {ring[k] : k \in {k \in i .. j : k < Packets}}

NoData == [sum |-> [c \in Ids |-> 0], set |-> FALSE, countdown |-> 0, counter |-> 0]

NoAlerts == [a \in Alerts |-> Off]

EmptyRing == [k \in 0 .. Packets - 1 |-> {}]

\* Adds n for every call of a packet.
Plus(sum, packet, n) == [c \in Ids |-> IF c \in packet THEN sum[c] + n ELSE sum[c]]

\* data_sum
Total(sum) == FoldFunction(+, 0, sum)

-----------------------------------------------------------------------------
Init ==
    /\ calls = {}
    /\ table \in [Alerts -> UNION {Settings[a] \cup {Off} : a \in Alerts}]
    /\ \A a \in Alerts : table[a] \in Settings[a] \cup {Off}
    /\ flag \in BOOLEAN
    /\ pc = "off" /\ odd = FALSE /\ forced = TRUE
    /\ fetched = NoAlerts /\ alerts = NoAlerts
    /\ node = [a \in Alerts |-> NoData]
    /\ ring = EmptyRing
    /\ last = 0
    /\ left = [edits |-> MaxEdits, faults |-> MaxFaults]
    /\ upset = [a \in Alerts |-> {}]
    /\ surplus = [a \in Alerts |-> {}]
    /\ missed = FALSE

-----------------------------------------------------------------------------
(***************************************************************************)
(* The core and the GUI.                                                   *)
(***************************************************************************)
\* A call becomes visible.  Ids need not become visible in their order.
InsertCall(c) ==
    /\ c \notin calls
    /\ calls' = calls \cup {c}
    /\ UNCHANGED <<table, flag, daemon, left, history>>

\* The GUI adds, changes or removes an alert and says so.
Edit(a, s) ==
    /\ left.edits > 0 /\ table[a] # s
    /\ table' = [table EXCEPT ![a] = s]
    /\ flag' = TRUE
    /\ missed' = (missed \/ pc = "reload")
    /\ left' = [left EXCEPT !.edits = @ - 1]
    /\ UNCHANGED <<calls, daemon, upset, surplus>>

Fault == left.faults > 0 /\ left' = [left EXCEPT !.faults = @ - 1]

-----------------------------------------------------------------------------
(***************************************************************************)
(* The daemon.  It begins behind the call with the latest date, which need *)
(* not be the one with the highest id.                                     *)
(***************************************************************************)
Start ==
    /\ pc = "off"
    /\ pc' = "get"
    /\ last' \in IF calls = {} THEN {0} ELSE calls
    /\ UNCHANGED <<calls, table, flag, odd, forced, fetched, alerts, node, ring,
                   left, history>>

\* The query of the last call fails: it is 0, and every call is a new one.
StartBlind ==
    /\ pc = "off"
    /\ Fault
    /\ pc' = "get" /\ last' = 0
    /\ UNCHANGED <<calls, table, flag, odd, forced, fetched, alerts, node, ring,
                   history>>

\* Where the tick goes on with these alerts in memory.
Proceed(loaded) ==
    IF loaded # {} THEN pc' = "subtract" /\ UNCHANGED odd
                   ELSE pc' = "get" /\ odd' = ~odd

\* Mutation of KeepAlerts: the flag is looked at only now and then.
KeepAlertsUnasked ==
    /\ pc = "get"
    /\ odd \/ ~forced
    /\ Proceed(Loaded)
    /\ UNCHANGED <<calls, table, flag, forced, fetched, alerts, node, ring, last,
                   left, history>>

\* get_alerts, when there is nothing to load
KeepAlerts ==
    /\ pc = "get"
    /\ odd \/ (~forced /\ ~flag)
    /\ Proceed(Loaded)
    /\ UNCHANGED <<calls, table, flag, forced, fetched, alerts, node, ring, last,
                   left, history>>

\* get_alerts: the SELECT on alerts
SelectAlerts ==
    /\ pc = "get"
    /\ ~odd /\ (forced \/ flag)
    /\ forced' = FALSE
    /\ fetched' = table
    /\ missed' = FALSE
    /\ pc' = "reload"
    /\ UNCHANGED <<calls, table, flag, odd, alerts, node, ring, last, left,
                   upset, surplus>>

\* Mutation of SelectFails: the flag is taken down all the same.
SelectFailsFlagDown ==
    /\ pc = "get"
    /\ ~odd /\ (forced \/ flag)
    /\ Fault
    /\ forced' = FALSE /\ flag' = FALSE
    /\ missed' = (missed \/ ~flag)
    /\ Proceed(Loaded)
    /\ UNCHANGED <<calls, table, fetched, alerts, node, ring, last, upset, surplus>>

\* get_alerts: the SELECT fails.  The daemon goes on with the alerts it has,
\* but will not be forced again.
SelectFails ==
    /\ pc = "get"
    /\ ~odd /\ (forced \/ flag)
    /\ Fault
    /\ forced' = FALSE
    /\ missed' = (missed \/ ~flag)
    /\ Proceed(Loaded)
    /\ UNCHANGED <<calls, table, flag, fetched, alerts, node, ring, last,
                   upset, surplus>>

\* What reloading does to the sum of alert a.
UpsetByReload(a) ==
    CASE fetched[a] = Off -> {}
      [] alerts[a] = Off  -> IF Between(0, Period(fetched[a])) = {}
                               THEN {} ELSE {"late"}
      [] OTHER            -> IF /\ fetched[a].raw = alerts[a].raw
                                /\ fetched[a].of = alerts[a].of
                                /\ node[a].countdown > 0 => ClearsByTime(fetched[a])
                               THEN upset[a] ELSE upset[a] \cup {"edit"}

Keeps(a) == fetched[a] # Off /\ alerts[a] # Off

\* get_alerts, after the SELECTs on contacts and schedules: data nodes go to
\* the alerts with their ids, the flag is taken down.
FinishReload ==
    /\ pc = "reload"
    /\ alerts' = fetched /\ fetched' = NoAlerts
    /\ node' = [a \in Alerts |-> IF Keeps(a) THEN node[a] ELSE NoData]
    /\ upset' = [a \in Alerts |-> UpsetByReload(a)]
    /\ surplus' = [a \in Alerts |-> IF Keeps(a) THEN surplus[a] ELSE {}]
    /\ flag' = FALSE
    /\ Proceed({a \in Alerts : fetched[a] # Off})
    /\ UNCHANGED <<calls, table, forced, ring, last, left, missed>>

\* Mutation of Leaving: the packet that left a tick ago.
LeavingLate(a) == Between(Period(alerts[a]) + 1, Period(alerts[a]) + 1)

\* The packet that leaves the period of a.
Leaving(a) == Between(Period(alerts[a]), Period(alerts[a]))

Unread(U) == [a \in Alerts |-> IF a \in U THEN upset[a] \cup {"unread"} ELSE upset[a]]

\* update_data(0), where the alerts U cannot open the file of their packet: it is
\* not subtracted, nor while an alert that was cleared counts down.
Subtracts(U) ==
    /\ pc = "subtract"
    /\ node' = [a \in Alerts |->
         IF a \in Loaded \ U /\ node[a].countdown <= 0
           THEN [node[a] EXCEPT !.sum = Plus(@, Leaving(a) \cap alerts[a].of, -1)]
           ELSE node[a]]
    /\ surplus' = [a \in Alerts |->
         IF a \in Loaded \ U /\ node[a].countdown > 0
           THEN surplus[a] \cup {c \in Leaving(a) : node[a].sum[c] > 0}
           ELSE surplus[a]]
    /\ upset' = Unread(U)
    /\ pc' = "read"
    /\ UNCHANGED <<calls, table, flag, odd, forced, fetched, alerts, ring, last,
                   missed>>

Subtract == Subtracts({}) /\ UNCHANGED left

SubtractUnread == \E a \in Loaded : Fault /\ Subtracts({a})

NewCalls == {c \in calls : c > last}

\* get_calls_data.  The id of the last row is kept; rows come in the order of
\* the primary key.
ReadCalls ==
    /\ pc = "read"
    /\ ring' = [k \in 0 .. Packets - 1 |-> IF k = 0 THEN NewCalls ELSE ring[k - 1]]
    /\ last' = IF NewCalls = {} THEN last
               ELSE CHOOSE c \in NewCalls : \A d \in NewCalls : d <= c
    /\ pc' = "add"
    /\ UNCHANGED <<calls, table, flag, odd, forced, fetched, alerts, node, left,
                   history>>

\* get_calls_data: the SELECT fails, the daemon connects again and goes on.
ReadFails ==
    /\ pc = "read"
    /\ Fault
    /\ upset' = [a \in Alerts |-> IF a \in Loaded THEN upset[a] \cup {"reread"} ELSE {}]
    /\ pc' = "add"
    /\ UNCHANGED <<calls, table, flag, odd, forced, fetched, alerts, node, ring,
                   last, surplus, missed>>

\* update_data(1), where the alerts U cannot open the file of the packet.
Adds(U) ==
    /\ pc = "add"
    /\ node' = [a \in Alerts |->
         IF a \in Loaded \ U
           THEN [node[a] EXCEPT !.sum = Plus(@, ring[0] \cap alerts[a].of, 1)]
           ELSE node[a]]
    /\ upset' = Unread(U)
    /\ pc' = "check"
    /\ UNCHANGED <<calls, table, flag, odd, forced, fetched, alerts, ring, last,
                   surplus, missed>>

Add == Adds({}) /\ UNCHANGED left

AddUnread == \E a \in Loaded : Fault /\ Adds({a})

\* check_current_alert: an alert that has no clear period is cleared by its sum,
\* unless it is not to be cleared; raising it starts the clock of the clear period.
Checked(a) ==
    LET hot == Total(node[a].sum) >= alerts[a].more IN
    CASE ~node[a].set /\ hot -> [node[a] EXCEPT !.set = TRUE, !.counter = 0]
      [] /\ node[a].set /\ ~hot
         /\ alerts[a].clear_period = 0 /\ ~alerts[a].disable_clear ->
              [node[a] EXCEPT !.set = FALSE, !.counter = 0]
      [] OTHER -> node[a]

\* check_alerts
Check ==
    /\ pc = "check"
    /\ node' = [a \in Alerts |-> IF a \in Loaded THEN Checked(a) ELSE node[a]]
    /\ pc' = "clear"
    /\ UNCHANGED <<calls, table, flag, odd, forced, fetched, alerts, ring, last,
                   left, history>>

\* Mutation of Countdown: two minutes more.
CountdownLong(a) == alerts[a].raw * Minute + 2 * Minute

\* The countdown an alert gets when it is cleared: its period and a minute.
Countdown(a) == alerts[a].raw * Minute + Minute

TimeToClear(a) ==
    /\ ClearsByTime(alerts[a])
    /\ node[a].set /\ node[a].counter >= alerts[a].clear_period

\* The sum is zeroed whether or not the report succeeds.
Zeroed(a, reported) ==
    [node[a] EXCEPT !.sum = NoData.sum, !.countdown = Countdown(a),
                    !.set = ~reported, !.counter = 0]

\* increment_clear_period: where it does not look, the countdown stands still.
Ticked(a, reported) ==
    LET n == node[a] IN
    CASE ~ClearsByTime(alerts[a]) -> n
      [] TimeToClear(a) -> [Zeroed(a, reported) EXCEPT !.counter = 1]
      [] OTHER -> [n EXCEPT !.countdown = IF @ > 0 THEN @ - 1 ELSE @,
                            !.counter = IF n.set THEN @ + 1 ELSE @]

\* check_clear_date, in a tick in which the dates of the alerts D have come
Dated(a, D) == a \in D /\ node[a].set /\ ~TimeToClear(a)

ClearUpsets(a, D) ==
    (IF alerts[a].raw = 0 THEN {"day"} ELSE {})
       \cup (IF Dated(a, D) /\ alerts[a].clear_period = 0 THEN {"date"} ELSE {})

\* Both, where the reports of the alerts R succeed.
Clears(D, R) ==
    LET cleared == {a \in Loaded : TimeToClear(a) \/ Dated(a, D)} IN
    /\ pc = "clear"
    /\ node' = [a \in Alerts |->
         CASE a \notin Loaded -> node[a]
           [] Dated(a, D)     -> Zeroed(a, a \in R)
           [] OTHER           -> Ticked(a, a \in R)]
    /\ surplus' = [a \in Alerts |-> IF a \in cleared THEN {} ELSE surplus[a]]
    /\ upset' = [a \in Alerts |->
         IF a \in cleared THEN upset[a] \cup ClearUpsets(a, D) ELSE upset[a]]
    /\ alerts' = [a \in Alerts |->
         IF a \in D THEN [alerts[a] EXCEPT !.clear_date = FALSE] ELSE alerts[a]]
    /\ table' = [a \in Alerts |->
         IF a \in D /\ table[a] # Off
           THEN [table[a] EXCEPT !.clear_date = FALSE] ELSE table[a]]
    /\ pc' = "get" /\ odd' = ~odd
    /\ UNCHANGED <<calls, flag, forced, fetched, ring, last, missed>>

WithDate == {a \in Loaded : alerts[a].clear_date /\ ~alerts[a].disable_clear}

Clear == \E D \in SUBSET WithDate : Clears(D, Alerts) /\ UNCHANGED left

\* A report fails, and its result is ignored.
ClearUnreported ==
    \E D \in SUBSET WithDate, a \in Loaded : Fault /\ Clears(D, Alerts \ {a})

\* A query fails where the daemon gives up, or it is killed.  All it knew was
\* in its memory.
Die ==
    /\ pc # "off"
    /\ Fault
    /\ pc' = "off" /\ odd' = FALSE /\ forced' = TRUE
    /\ fetched' = NoAlerts /\ alerts' = NoAlerts
    /\ node' = [a \in Alerts |-> NoData]
    /\ ring' = EmptyRing
    /\ last' = 0
    /\ upset' = [a \in Alerts |-> {}]
    /\ surplus' = [a \in Alerts |-> {}]
    /\ missed' = FALSE
    /\ UNCHANGED <<calls, table, flag>>

-----------------------------------------------------------------------------
Daemon ==
    \/ Start \/ KeepAlerts \/ SelectAlerts \/ FinishReload
    \/ Subtract \/ ReadCalls \/ Add \/ Check \/ Clear

Next ==
    \/ Daemon
    \/ \E c \in Ids : InsertCall(c)
    \/ \E a \in Alerts : \E s \in Settings[a] \cup {Off} : Edit(a, s)
    \/ StartBlind \/ SelectFails \/ SubtractUnread \/ ReadFails \/ AddUnread
    \/ ClearUnreported \/ Die

Spec == Init /\ [][Next]_vars

\* The daemon goes on, and is started again.
FairSpec == Spec /\ WF_vars(Daemon)

-----------------------------------------------------------------------------
(***************************************************************************)
(* Properties.                                                             *)
(***************************************************************************)
Data == [sum : [Ids -> Int], set : BOOLEAN, countdown : Nat, counter : Nat]

\* The types of the variables.
TypeOK ==
    /\ calls \subseteq Ids
    /\ table \in [Alerts -> Setting \cup {Off}]
    /\ flag \in BOOLEAN /\ odd \in BOOLEAN /\ forced \in BOOLEAN /\ missed \in BOOLEAN
    /\ pc \in {"off", "get", "reload", "subtract", "read", "add", "check", "clear"}
    /\ fetched \in [Alerts -> Setting \cup {Off}]
    /\ alerts \in [Alerts -> Setting \cup {Off}]
    /\ node \in [Alerts -> Data]
    /\ ring \in [0 .. Packets - 1 -> SUBSET Ids]
    /\ last \in Nat
    /\ left \in [edits : Nat, faults : Nat]
    /\ upset \in [Alerts -> SUBSET Upsets]
    /\ surplus \in [Alerts -> SUBSET Ids]

\* How many packets of the ring, and from which on, are in the sum of a: the
\* one that leaves is subtracted before the new one is added.
Summed(a) == IF pc \in {"read", "add"} THEN Period(alerts[a]) ELSE Period(alerts[a]) + 1

Newest == IF pc = "add" THEN 1 ELSE 0

\* How many packets have been added since a was cleared, while it counts down.
SinceClear(a) ==
    Countdown(a) - node[a].countdown + (IF pc \in {"check", "clear"} THEN 1 ELSE 0)

\* The packets of the period of a that have been added since it was cleared.
FreshPackets(a) ==
    IF node[a].countdown > 0 /\ SinceClear(a) < Summed(a)
      THEN SinceClear(a) ELSE Summed(a)

Fresh(a) == Between(Newest, Newest + FreshPackets(a) - 1)

\* At every step of the daemon the sum of an alert is that of the calls in its
\* period, each counted once, but for the calls a clear has left behind in it;
\* unless one of the upsets has happened.
SumIsWindow ==
    \A a \in Loaded : upset[a] = {} =>
      \A c \in Ids : node[a].sum[c] =
         IF c \in alerts[a].of /\ c \in Fresh(a) \cup surplus[a] THEN 1 ELSE 0

\* A clear leaves the calls of one minute behind: only in the last minute of
\* the countdown, which is a minute longer than the period, does the program
\* skip the subtraction of calls that are in the sum.
ClearLeavesAMinute ==
    [][\A a \in Alerts : ~(surplus'[a] \subseteq surplus[a]) /\ upset[a] = {} =>
         node[a].countdown <= Minute]_vars

Same(a) == /\ alerts[a].raw = table[a].raw /\ alerts[a].of = table[a].of
           /\ alerts[a].more = table[a].more
           /\ alerts[a].clear_period = table[a].clear_period
           /\ alerts[a].disable_clear = table[a].disable_clear

\* What the GUI changed is in the daemon's memory, or the daemon will look: an
\* edit is forgotten only if it fell between the SELECT and the UPDATE that
\* takes the flag down, or if the first load failed with the flag down.
EditsAreNotForgotten ==
    pc \notin {"off", "reload"} /\ ~forced /\ ~flag /\ ~missed
      => \A a \in Alerts : Same(a)

\* Then every edit takes effect.
EditsTakeEffect == <>[](missed \/ \A a \in Alerts : Same(a))

=============================================================================
