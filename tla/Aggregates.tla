----------------------------- MODULE Aggregates ------------------------------
(***************************************************************************)
(* mor_aggregates and mor_aggregates_control add the rows of table calls   *)
(* to the statistics of table aggregates, each once.  What was added is    *)
(* not recorded per call: the daemon keeps the highest id it has read in   *)
(* memory and, for a restart, in the row of the current hour of            *)
(* time_periods, which it marks as finished (xx:59:59) when the hour ends. *)
(* The control program, run by cron, looks for hours that nobody finished  *)
(* and adds what their rows say is missing.  Nothing is in a transaction.  *)
(*                                                                         *)
(* Hours stand for dates.  The thirteen variations of a call and its hour, *)
(* day and month tuples are added by the same statements and are one count *)
(* here.                                                                   *)
(***************************************************************************)
EXTENDS Integers, FiniteSets, Sequences, FiniteSetsExt, Bags

CONSTANTS
    MaxHour,      \* the last hour of a behaviour
    MaxCalls,     \* bound on the number of calls
    FlushSize,    \* calls per statement (INSERT_UPDATE_SIZE)
    Events,       \* the irregular events that may occur
    MaxEvents     \* bound on their number in a behaviour

\* late      a call is stored in a later hour than it was made in
\* gap       the same, and that hour is one for the control program to aggregate
\* skip      a late call, but no gap, while the daemon starts
\* sharp     a call is made at the first second of an hour
\* overlap   two INSERTs commit in the other order than their ids
\* boundary  the hour changes while the daemon polls
\* startup   the hour changes, or a gap arises, while the daemon starts
\* race      the control program runs before the daemon's first poll of an hour
\* stop      the daemon is killed in its sleep
\* kill      the daemon is killed between any two of its statements
\* abort     so is the control program
\* sql       the server refuses a statement, or the connection is lost
Kinds == {"late", "gap", "skip", "sharp", "overlap", "boundary", "startup",
          "race", "stop", "kill", "abort", "sql"}

ASSUME ConstAssumption ==
    /\ MaxHour \in Nat /\ MaxCalls \in Nat /\ FlushSize \in Nat \ {0}
    /\ Events \subseteq Kinds
    /\ MaxEvents \in Nat

VARIABLES
    now,          \* the hour it is
    calls,        \* the calls in the order of their ids
    committed,    \* ids of the calls other sessions see
    period,       \* the hour rows of time_periods
    counted,      \* how often each call was added to aggregates
    events,       \* history: the bag of the irregular events so far
    \* the daemon
    dpc,          \* the statement it executes next
    last_hour, time_period_hour_id, last_call_id, first_run,
    stopped,      \* aggregate_stopped_at_calldate and _callid
    batch,        \* calls_data: what is read and not yet written
    broken,       \* insert_update_query holds a statement that failed
    \* the control program
    cpc, phase,
    todo,         \* missing_time_periods, or the older hours of phase 2
    chour,        \* the hour being aggregated
    cfrom,        \* its last_call_id, 0 for a full aggregate
    cbatch, cbroken

db      == <<calls, committed>>
daemon  == <<dpc, last_hour, time_period_hour_id, last_call_id, first_run,
             stopped, batch, broken>>
control == <<cpc, phase, todo, chour, cfrom, cbatch, cbroken>>
vars == <<now, db, period, counted, events, daemon, control>>

Hours == 0..MaxHour
Ids   == 1..MaxCalls
Row   == [st : {"absent", "open", "finished"}, last : 0..MaxCalls]

\* Something irregular happens.
Event(k) ==
    /\ k \in Events
    /\ BagCardinality(events) < MaxEvents
    /\ events' = events (+) SetToBag({k})

Regular == events' = events

Happened == BagToSet(events)

NoRows == [h \in Hours |-> [st |-> "absent", last |-> 0]]

MaxId(S) == IF S = {} THEN 0 ELSE Max(S)

\* mor_get_time_period_id(1, h): the row of hour h, inserted if there is none.
WithRows(p, H) ==
    [h \in Hours |-> IF h \in H /\ p[h].st = "absent"
                     THEN [st |-> "open", last |-> 0] ELSE p[h]]

\* mor_mark_finished_time_period.
Finished(p, h) == [p EXCEPT ![h].st = "finished"]

\* One more time in aggregates for each call of S.
Add(S) == [c \in Ids |-> counted[c] + IF c \in S THEN 1 ELSE 0]

\* The calls of one statement: a full buffer, or what is left.
Statements(B) == {S \in SUBSET B : \/ Cardinality(S) = FlushSize
                                   \/ Cardinality(S) < FlushSize /\ S = B}
-----------------------------------------------------------------------------
\* The tables are empty; the daemon has not been started yet, or runs and has
\* the row of this hour.
Init ==
    /\ now = 0 /\ calls = <<>> /\ committed = {} /\ events = EmptyBag
    /\ counted = [c \in Ids |-> 0]
    /\ \/ dpc = "off" /\ first_run = TRUE /\ period = NoRows
       \/ dpc = "top" /\ first_run = FALSE /\ period = WithRows(NoRows, {0})
    /\ last_hour = 0 /\ time_period_hour_id = 0 /\ last_call_id = 0
    /\ stopped = [hour |-> 0, id |-> 0]
    /\ batch = {} /\ broken = FALSE
    /\ cpc = "off" /\ phase = 1 /\ todo = {} /\ chour = 0 /\ cfrom = 0
    /\ cbatch = {} /\ cbroken = FALSE

\* The hour changes; regularly, while no daemon runs or it sleeps and has
\* polled in this hour, for it polls every ten seconds.
Tick ==
    /\ now < MaxHour
    /\ now' = now + 1
    /\ \/ Regular /\ (dpc = "off" \/ (dpc = "top" /\ ~first_run /\ last_hour = now))
       \/ /\ Event("boundary")
          /\ dpc \in {"read", "bookmark", "write"} /\ last_hour = now
       \/ /\ Event("startup")
          /\ \/ dpc \in {"period", "clock"}
             \/ dpc = "top" /\ first_run /\ last_hour = now
    /\ UNCHANGED <<db, period, counted, daemon, control>>

\* Nobody has finished hour h, and the daemon is not going to.
LeftToControl(h) ==
    period[h].st # "finished" /\ ~(dpc \notin {"off", "period"} /\ time_period_hour_id = h)

\* The first poll, which looks in the current hour only, is still to come.
Starting == dpc # "off" /\ first_run

\* What a late call meets.
Late(h) == IF LeftToControl(h) THEN (IF Starting THEN "startup" ELSE "gap")
           ELSE IF Starting THEN "skip" ELSE "late"

\* The billing core stores the record of a call that has ended.
StoreCall ==
    /\ Len(calls) < MaxCalls
    /\ \E h \in 0..now, sharp \in BOOLEAN :
          /\ calls' = Append(calls, [hour |-> h, sharp |-> sharp])
          /\ \/ h = now /\ ~sharp /\ Regular
             \/ h < now /\ ~sharp /\ Event(Late(h))
             \/ h = now /\ sharp /\ Event("sharp")
    /\ committed' = committed \cup {Len(calls')}
    /\ UNCHANGED <<now, period, counted, daemon, control>>

\* Two sessions store calls; the one whose id is higher commits first.
StoreOverlapping ==
    /\ Len(calls) < MaxCalls
    /\ Event("overlap")
    /\ calls' = Append(calls, [hour |-> now, sharp |-> FALSE])
    /\ UNCHANGED <<now, committed, period, counted, daemon, control>>

Commit ==
    /\ committed' = 1..Len(calls)
    /\ committed # committed'
    /\ UNCHANGED <<now, calls, period, counted, events, daemon, control>>
-----------------------------------------------------------------------------
\* The daemon's part of a step, field by field; what is not named stays.
DaemonGoes(pc) == dpc' = pc

\* It has started and read MAX(id); a failure of the query yields 0.  The
\* process lock greps for a path that is a prefix of the control program's,
\* so that the daemon does not start beside it.
StartDaemon ==
    /\ dpc = "off" /\ cpc = "off"
    /\ DaemonGoes("period")
    /\ \/ last_call_id' = MaxId(committed) /\ Regular
       \/ last_call_id' = 0 /\ Event("sql")
    /\ first_run' = TRUE /\ batch' = {} /\ broken' = FALSE
    /\ stopped' = [hour |-> 0, id |-> 0]
    /\ UNCHANGED <<now, db, period, counted, last_hour, time_period_hour_id, control>>

\* aggregate_stopped_at as mor_get_time_period_id leaves it: a NULL
\* last_call_id does not replace the one it has.
StoppedAt(p) == [hour |-> now, id |-> IF p[now].last = 0 THEN stopped.id
                                      ELSE p[now].last]

\* main: time_period_hour_id = mor_get_time_period_id(1, NULL).
InitialPeriod ==
    /\ dpc = "period"
    /\ period' = WithRows(period, {now})
    /\ time_period_hour_id' = now
    /\ stopped' = StoppedAt(period')
    /\ DaemonGoes("clock")
    /\ UNCHANGED <<now, db, counted, events, last_hour, last_call_id, first_run,
                   batch, broken, control>>

\* main: last_hour = tmm.tm_hour.
InitialClock ==
    /\ dpc = "clock"
    /\ last_hour' = now
    /\ DaemonGoes("top")
    /\ UNCHANGED <<now, db, period, counted, events, time_period_hour_id,
                   last_call_id, first_run, stopped, batch, broken, control>>

\* Mutation: the row of the new hour is taken before the old one is marked.
MarkNewHour(p) == Finished(WithRows(p, {now}), now)

\* An hour change marks the old row, then takes the row of the new hour.
ChangeHour(p) == WithRows(Finished(p, time_period_hour_id), {now})

\* The top of the loop: has the hour changed?  A mark that fails is ignored.
Poll ==
    /\ dpc = "top"
    /\ last_hour' = now
    /\ \/ /\ now = last_hour
          /\ UNCHANGED <<period, time_period_hour_id, stopped>> /\ Regular
       \/ /\ now # last_hour
          /\ \/ period' = ChangeHour(period) /\ Regular
             \/ period' = WithRows(period, {now}) /\ Event("sql")
          /\ time_period_hour_id' = now
          /\ stopped' = StoppedAt(period')
    /\ DaemonGoes("read")
    /\ UNCHANGED <<now, db, counted, last_call_id, first_run, batch, broken, control>>

\* Mutation: the first poll continues after MAX(id) like every other one.
NewCallsOnly == {c \in committed : c > last_call_id}

\* The calls of one poll; the first poll looks in the current hour only.
NewCalls ==
    IF first_run
    THEN {c \in committed : /\ c > stopped.id
                            /\ \/ calls[c].hour > stopped.hour
                               \/ calls[c].hour = stopped.hour /\ ~calls[c].sharp}
    ELSE {c \in committed : c > last_call_id}

\* get_calls_data up to the end of the result; the rows of the hours of the
\* calls are looked up, and inserted, on the way.
ReadCalls ==
    /\ dpc = "read"
    /\ batch' = NewCalls
    /\ last_call_id' = MaxId({last_call_id} \cup batch')
    /\ period' = WithRows(period, {calls[c].hour : c \in batch'})
    /\ first_run' = FALSE
    /\ DaemonGoes("bookmark")
    /\ UNCHANGED <<now, db, counted, events, last_hour, time_period_hour_id, stopped,
                   broken, control>>

\* The SELECT fails: mor_mysql_reconnect exits if the server answers, and
\* otherwise connects again; the poll then has no calls.
ReadFails ==
    /\ dpc = "read"
    /\ Event("sql")
    /\ first_run' = FALSE
    /\ \E pc \in {"off", "top"} : DaemonGoes(pc)
    /\ UNCHANGED <<now, db, period, counted, last_hour, time_period_hour_id,
                   last_call_id, stopped, batch, broken, control>>

\* Mutation: the bookmark is the last call of this poll.
BookmarkOfBatch == [period EXCEPT ![time_period_hour_id].last = MaxId(batch)]
\* UPDATE time_periods SET last_call_id, unless it is 0.
Bookmark ==
    IF last_call_id = 0 THEN period
    ELSE [period EXCEPT ![time_period_hour_id].last = last_call_id]

\* The end of get_calls_data.
WriteBookmark ==
    /\ dpc = "bookmark"
    /\ \/ /\ period' = Bookmark /\ Regular
          /\ DaemonGoes(IF batch = {} THEN "top" ELSE "write")
          /\ UNCHANGED batch
       \/ /\ Event("sql") /\ UNCHANGED period
          /\ \/ DaemonGoes(IF batch = {} THEN "top" ELSE "write") /\ UNCHANGED batch
             \/ DaemonGoes("off") /\ batch' = {}
    /\ UNCHANGED <<now, db, counted, last_hour, time_period_hour_id, last_call_id,
                   first_run, stopped, broken, control>>

\* The thirteen threads fill the buffer and send it whenever it is full; main
\* sends the rest.
WriteCalls ==
    /\ dpc = "write" /\ ~broken
    /\ \E S \in Statements(batch) :
          /\ counted' = Add(S)
          /\ batch' = batch \ S
    /\ DaemonGoes(IF batch' = {} THEN "top" ELSE "write")
    /\ UNCHANGED <<now, db, period, events, last_hour, time_period_hour_id,
                   last_call_id, first_run, stopped, broken, control>>

\* A statement fails.  A thread exits; main does not look, and the failed
\* statement stays in front of every later one, none of which can succeed.
WriteFails ==
    /\ dpc = "write"
    /\ IF broken THEN Regular ELSE Event("sql")
    /\ batch' = {}
    /\ IF Cardinality(batch) >= FlushSize
       THEN DaemonGoes("off") /\ UNCHANGED broken
       ELSE DaemonGoes("top") /\ broken' = TRUE
    /\ UNCHANGED <<now, db, period, counted, last_hour, time_period_hour_id,
                   last_call_id, first_run, stopped, control>>

\* killall -9, from the init script or the installer.
KillDaemon ==
    /\ dpc # "off"
    /\ \/ Event("kill")
       \/ dpc = "top" /\ Event("stop")
    /\ DaemonGoes("off")
    /\ batch' = {}
    /\ UNCHANGED <<now, db, period, counted, last_hour, time_period_hour_id,
                   last_call_id, first_run, stopped, broken, control>>
-----------------------------------------------------------------------------
Rows(H) == {h \in H : period[h].st # "absent"}

\* Mutation: every unfinished hour is aggregated in full.
MissingInFull ==
    IF Rows(0..(now - 1)) = {} THEN {}
    ELSE {[hour |-> h, from |-> 0] :
            h \in {k \in Min(Rows(0..(now - 1)))..(now - 1) : period[k].st # "finished"}}

\* mor_get_missing_periods: from the oldest row to the hour before this one,
\* the hours without a row and those whose row is not finished.
Missing ==
    IF Rows(0..(now - 1)) = {} THEN {}
    ELSE {[hour |-> h, from |-> period[h].last] :
            h \in {k \in Min(Rows(0..(now - 1)))..(now - 1) : period[k].st # "finished"}}

\* The daemon has looked at the clock in this hour; last_hour is -1 before.
HasPolled == dpc \notin {"period", "clock"} /\ last_hour = now

\* cron starts the program at a minute past the hour, when a daemon that is
\* alive has polled; it needs at least one row of time_periods.
StartControl ==
    /\ cpc = "off"
    /\ Rows(Hours) # {}
    /\ \/ Regular /\ (dpc = "off" \/ HasPolled)
       \/ Event("race") /\ dpc # "off" /\ ~HasPolled
    /\ todo' = Missing
    /\ cpc' = "pick" /\ phase' = 1 /\ cbroken' = FALSE
    /\ UNCHANGED <<now, db, period, counted, daemon, chour, cfrom, cbatch>>

\* The next missing hour gets a row if it has none.
NextHour ==
    /\ cpc = "pick"
    /\ \E t \in todo :
          /\ phase = 2 => \A u \in todo : u.hour <= t.hour
          /\ todo' = todo \ {t}
          /\ chour' = t.hour
          /\ cfrom' = t.from
          /\ period' = WithRows(period, {t.hour})
    /\ cpc' = "read"
    /\ UNCHANGED <<now, db, counted, events, daemon, phase, cbatch, cbroken>>

\* The gaps are filled: the hours before the oldest row, back to the oldest
\* call, are next.
OlderHours ==
    /\ cpc = "pick" /\ todo = {} /\ phase = 1
    /\ IF committed = {} THEN todo' = {} /\ cpc' = "off"
       ELSE /\ todo' = {[hour |-> h, from |-> 0] :
                  h \in Min({calls[c].hour : c \in committed})..(Min(Rows(Hours)) - 1)}
            /\ cpc' = IF todo' = {} THEN "off" ELSE "pick"
    /\ phase' = 2
    /\ UNCHANGED <<now, db, period, counted, events, daemon, chour, cfrom, cbatch,
                   cbroken>>

ControlEnds ==
    /\ cpc = "pick" /\ todo = {} /\ phase = 2
    /\ cpc' = "off"
    /\ UNCHANGED <<now, db, period, counted, events, daemon, phase, todo, chour,
                   cfrom, cbatch, cbroken>>

\* mor_get_calls_data: the calls of the hour, after the bookmark if partial.
ReadHour ==
    /\ cpc = "read"
    /\ cbatch' = {c \in committed : calls[c].hour = chour /\ c > cfrom}
    /\ cpc' = IF cbatch' = {} THEN "mark" ELSE "write"
    /\ UNCHANGED <<now, db, period, counted, events, daemon, phase, todo, chour, cfrom,
                   cbroken>>

WriteHour ==
    /\ cpc = "write" /\ ~cbroken
    /\ \E S \in Statements(cbatch) :
          /\ counted' = Add(S)
          /\ cbatch' = cbatch \ S
    /\ cpc' = IF cbatch' = {} THEN "mark" ELSE "write"
    /\ UNCHANGED <<now, db, period, events, daemon, phase, todo, chour, cfrom, cbroken>>

\* As in the daemon; the hour is then marked as finished all the same.
WriteHourFails ==
    /\ cpc = "write"
    /\ IF cbroken THEN Regular ELSE Event("sql")
    /\ cbatch' = {}
    /\ IF Cardinality(cbatch) >= FlushSize
       THEN cpc' = "off" /\ UNCHANGED cbroken
       ELSE cpc' = "mark" /\ cbroken' = TRUE
    /\ UNCHANGED <<now, db, period, counted, daemon, phase, todo, chour, cfrom>>

MarkHour ==
    /\ cpc = "mark"
    /\ \/ period' = Finished(period, chour) /\ Regular
       \/ UNCHANGED period /\ Event("sql")
    /\ cpc' = "pick"
    /\ UNCHANGED <<now, db, counted, daemon, phase, todo, chour, cfrom, cbatch, cbroken>>

\* The program is killed, or its SELECT is refused and it exits.
StopControl ==
    /\ cpc # "off"
    /\ \/ Event("abort")
       \/ cpc = "read" /\ Event("sql")
    /\ cpc' = "off"
    /\ cbatch' = {}
    /\ UNCHANGED <<now, db, period, counted, daemon, phase, todo, chour, cfrom, cbroken>>
-----------------------------------------------------------------------------
Daemon ==
    \/ InitialPeriod \/ InitialClock \/ Poll \/ ReadCalls \/ WriteBookmark
    \/ WriteCalls \/ WriteFails

Control ==
    \/ NextHour \/ OlderHours \/ ControlEnds \/ ReadHour \/ WriteHour
    \/ WriteHourFails \/ MarkHour

Environment ==
    \/ Tick \/ StoreCall \/ StoreOverlapping \/ Commit \/ ReadFails
    \/ KillDaemon \/ StopControl

Next == StartDaemon \/ StartControl \/ Daemon \/ Control \/ Environment

Spec == Init /\ [][Next]_vars

\* A program that runs goes on, cron runs the control program, and time passes.
\* Nothing is assumed of starts of the daemon.
FairSpec ==
    /\ Spec
    /\ WF_vars(Daemon) /\ WF_vars(Control) /\ WF_vars(Tick)
    /\ SF_vars(StartControl)
-----------------------------------------------------------------------------
\* The variables have their types; what a program holds has been committed.
TypeOK ==
    /\ now \in Hours
    /\ calls \in Seq([hour : Hours, sharp : BOOLEAN]) /\ Len(calls) <= MaxCalls
    /\ committed \subseteq 1..Len(calls)
    /\ period \in [Hours -> Row]
    /\ counted \in [Ids -> Nat]
    /\ IsABag(events) /\ Happened \subseteq Events
    /\ dpc \in {"off", "period", "clock", "top", "read", "bookmark", "write"}
    /\ last_hour \in Hours /\ time_period_hour_id \in Hours
    /\ last_call_id \in 0..MaxCalls /\ first_run \in BOOLEAN
    /\ stopped \in [hour : Hours, id : 0..MaxCalls]
    /\ batch \subseteq committed /\ broken \in BOOLEAN
    /\ cpc \in {"off", "pick", "read", "write", "mark"} /\ phase \in {1, 2}
    /\ todo \subseteq [hour : Hours, from : 0..MaxCalls]
    /\ chour \in Hours /\ cfrom \in 0..MaxCalls
    /\ cbatch \subseteq committed /\ cbroken \in BOOLEAN

NobodyCountedTwice == \A c \in Ids : counted[c] <= 1

\* No call is added to the statistics twice, whichever of the two programs
\* adds it: neither when calls are stored late while the daemon runs, nor when
\* the hour changes during a poll, nor when the daemon is killed at any point.
CountedAtMostOnce ==
    \/ Happened \subseteq {"late", "skip", "sharp", "boundary"}
    \/ Happened \subseteq {"late", "skip", "sharp", "stop", "kill"}
    => NobodyCountedTwice

\* No call of an hour that is marked as finished is missing in the statistics,
\* unless a program that runs is going to add it.
FinishedHoursAreCounted ==
    \A c \in committed :
        period[calls[c].hour].st = "finished" =>
            \/ counted[c] >= 1
            \/ dpc # "off" /\ c > last_call_id
            \/ c \in batch \cup cbatch

\* Nobody comes back to an hour that is marked as finished, so its calls are
\* in the statistics by then, or in the hands of a program that runs: as long
\* as the daemon is up, whatever becomes of the control program, and when the
\* daemon is stopped in its sleep and no call is late.
FinishedHourIsComplete ==
    \/ Happened \subseteq {"late", "gap", "boundary", "race", "abort"}
    \/ Happened \subseteq {"stop", "boundary", "race", "abort"}
    => FinishedHoursAreCounted

\* The bookmark of an unfinished hour separates its calls that are in the
\* statistics from those that are not, when the daemon sleeps or is down and
\* the control program is not at this hour.
BookmarksSeparate ==
    dpc \in {"off", "top"} =>
        \A c \in committed :
            LET p == period[calls[c].hour] IN
            p.st = "open" /\ ~(chour = calls[c].hour /\ cpc \in {"read", "write", "mark"}) =>
                (counted[c] >= 1 <=> c <= p.last)

\* The bookmarks separate as long as no event but these has happened: whoever
\* resumes in an unfinished hour neither skips nor repeats a call.
OpenHourResumesExactly ==
    Happened \subseteq {"stop", "late", "skip", "race"} => BookmarksSeparate

\* Whatever happens, the bookmark of an hour never moves back: a restart does
\* not read again what an earlier poll of the hour had read.
BookmarkNeverMovesBack ==
    [][\A h \in Hours : period'[h].last >= period[h].last]_vars

Lost == {"late", "stop"} \subseteq Happened

\* Every call that is stored is added to the statistics in the end, though the
\* daemon is stopped in its sleep or either program is disturbed by the clock:
\* unless the call is late and the daemon does not live to read it.  That the
\* daemon is started again is not assumed, since the watchdog starts another one.
\* If it stays down, the control program adds the calls of the hours that end, as
\* long as the daemon has run at all; if not, those of the last hour as well.
EventuallyCounted ==
    /\ \A c \in Ids :
          c \in committed /\ calls[c].hour < MaxHour /\ Rows(Hours) # {}
              ~> counted[c] >= 1 \/ Lost
    /\ []<>(dpc # "off") => \A c \in Ids : c \in committed ~> counted[c] >= 1 \/ Lost
=============================================================================
