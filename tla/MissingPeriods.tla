--------------------------- MODULE MissingPeriods ----------------------------
(***************************************************************************)
(* How mor_aggregates_control finds the hours it has to aggregate.  Module *)
(* Aggregates takes the set of these hours as given; here are the loops    *)
(* that compute it: the rows of time_periods are read and sorted once, the *)
(* hours from the last full one down to the oldest row are looked up in    *)
(* them, what is missing is aggregated in the order in which it was found, *)
(* and then the hours before the oldest row, down to the oldest call.  A   *)
(* setting or an argument may name an hour to stop at.                     *)
(*                                                                         *)
(* Hours are counted from the first one of a behaviour; the server clock   *)
(* has no daylight saving time.                                            *)
(***************************************************************************)
EXTENDS Integers, FiniteSets, Sequences, Functions

CONSTANTS
    MaxHour,      \* the last hour of a behaviour
    MaxBack,      \* hours looked back at most (two years: 17520)
    DaysBack,     \* the values of aggregate_days, in hours
    NoHour        \* an empty date

ASSUME ConstAssumption ==
    /\ MaxHour \in Nat /\ MaxBack \in Nat \ {0} /\ DaysBack \subseteq Nat
    /\ NoHour \notin Int

VARIABLES
    now,              \* the hour it is
    period,           \* time_periods: what is known of each hour
    held,             \* the daemon's time_period_hour_id; NoHour if it is down
    pc,               \* the statement executed next
    till,             \* aggregate_till
    time_periods,     \* the rows read, in the order of their dates
    t1,               \* the hour the search, or phase 2, counts from
    hour_diff,        \* and how many hours it counts
    i,                \* the loops' counter (j in phase 2)
    missing,          \* missing_time_periods
    hour,             \* the hour being aggregated
    oldest_calldate,
    late,             \* history: hours the daemon marked after the rows were read
    markFailed        \* history: an hour of this run could not be marked

search == <<time_periods, t1, hour_diff, missing>>
run == <<pc, till, search, i, hour, oldest_calldate, markFailed>>
vars == <<now, period, held, late, run>>

Hours  == 0..MaxHour
States == {"absent", "open", "finished"}
Rows(H) == {h \in H : period[h] # "absent"}

\* qsort: the elements of H in increasing order.
Sortings(H) == {s \in Bijection(1..Cardinality(H), H) :
                   \A a, b \in DOMAIN s : a < b => s[a] < s[b]}

Init ==
    /\ now = 0 /\ period = [h \in Hours |-> "absent"] /\ held = NoHour
    /\ pc = "off" /\ till = NoHour
    /\ time_periods = <<>> /\ t1 = 0 /\ hour_diff = 0 /\ i = 0 /\ missing = <<>>
    /\ hour = NoHour /\ oldest_calldate = NoHour /\ late = {} /\ markFailed = FALSE
-----------------------------------------------------------------------------
HourPasses ==
    /\ now < MaxHour
    /\ now' = now + 1
    /\ UNCHANGED <<period, held, late, run>>

\* mor_get_time_period_id(1, h) on table p.
Inserted(p, h) == IF p[h] = "absent" THEN [p EXCEPT ![h] = "open"] ELSE p

\* The daemon takes the row of this hour.  It is not started beside the control
\* program, whose path its process lock matches.
StartDaemon ==
    /\ held = NoHour /\ pc \in {"off", "done"}
    /\ period' = Inserted(period, now)
    /\ held' = now
    /\ UNCHANGED <<now, late, run>>

\* The first poll after the end of its hour, be it a batch later or hours: the
\* daemon marks the row it has, whether or not the server does it, and takes
\* the row of this hour, or exits if it gets none.
DaemonPolls ==
    /\ held # NoHour /\ held < now
    /\ \E p \in {period, [period EXCEPT ![held] = "finished"]} :
          /\ late' = IF p # period /\ pc \in {"clock", "search", "repair"}
                     THEN late \cup {held} ELSE late
          /\ \/ period' = Inserted(p, now) /\ held' = now
             \/ period' = p /\ held' = NoHour
    /\ UNCHANGED <<now, run>>

\* The daemon takes the row of the hour of a late call.
DaemonInserts ==
    /\ held # NoHour
    /\ \E h \in 0..now : period[h] = "absent" /\ period' = Inserted(period, h)
    /\ UNCHANGED <<now, held, late, run>>

KillDaemon ==
    /\ held # NoHour
    /\ held' = NoHour
    /\ UNCHANGED <<now, period, late, run>>
-----------------------------------------------------------------------------
\* The variables of a process that has just been started, or of none.
NewProcess ==
    /\ time_periods' = <<>> /\ t1' = 0 /\ hour_diff' = 0 /\ i' = 0 /\ missing' = <<>>
    /\ hour' = NoHour /\ oldest_calldate' = NoHour
    /\ late' = {} /\ markFailed' = FALSE

\* main: cron or a user starts the program, which reads where to stop.
Start ==
    /\ pc \in {"off", "done"}
    /\ Rows(Hours) # {}
    /\ till' \in {NoHour} \cup {now - d : d \in DaysBack}
    /\ pc' = "select"
    /\ NewProcess
    /\ UNCHANGED <<now, period, held>>

\* mor_get_missing_periods: the rows of the hours before this one.
SelectRows ==
    /\ pc = "select"
    /\ \E s \in Sortings(Rows(0..(now - 1))) :
          time_periods' = [j \in DOMAIN s |->
                              [hour |-> s[j], finished |-> period[s[j]] = "finished"]]
    /\ pc' = IF Rows(0..(now - 1)) = {} THEN "oldest_call" ELSE "clock"
    /\ UNCHANGED <<now, period, held, till, t1, hour_diff, i, missing, hour,
                   oldest_calldate, late, markFailed>>

\* ceil(difftime / 3600).  Mutation: as if it were the number in between.
HoursInside(a, b)  == a - b - 1
HoursBetween(a, b) == a - b

\* The clock is read again, and says how many hours there are to look at.
CountHours ==
    /\ pc = "clock"
    /\ t1' = now
    /\ LET d == HoursBetween(now, time_periods[1].hour) IN
       hour_diff' = IF d > MaxBack THEN MaxBack ELSE d
    /\ i' = 0
    /\ pc' = "search"
    /\ UNCHANGED <<now, period, held, till, time_periods, missing, hour,
                   oldest_calldate, late, markFailed>>

\* Mutation: the search for the row is not reset, and ends at the last one.
CounterpartLast(j) == Len(time_periods)

\* The row that is looked at when row j has the hour.
Counterpart(j) == Len(time_periods) - j + 1

\* Mutation: an hour without a row is left to the daemon.
FoundRowsOnly(h) ==
    LET R == {j \in DOMAIN time_periods :
                 time_periods[j].hour = h /\ ~time_periods[j].finished} IN
    IF R = {} THEN <<>> ELSE <<[hour |-> h, full |-> FALSE]>>

\* What the loop adds to missing_time_periods for hour h.
Found(h) ==
    IF \E j \in DOMAIN time_periods : time_periods[j].hour = h
    THEN LET r == time_periods[Counterpart(
                      CHOOSE j \in DOMAIN time_periods : time_periods[j].hour = h)] IN
         IF r.finished THEN <<>> ELSE <<[hour |-> r.hour, full |-> FALSE]>>
    ELSE <<[hour |-> h, full |-> TRUE]>>

\* Both loops go back by an hour before they use it.
HourBack == t1 - 1 - i

\* One hour of the search.
LookUp ==
    /\ pc = "search" /\ i < hour_diff
    /\ missing' = missing \o Found(HourBack)
    /\ i' = i + 1
    /\ UNCHANGED <<now, period, held, pc, till, time_periods, t1, hour_diff, hour,
                   oldest_calldate, late, markFailed>>

SearchEnds ==
    /\ pc = "search" /\ i = hour_diff
    /\ i' = 0
    /\ pc' = IF missing = <<>> THEN "oldest_call" ELSE "repair"
    /\ UNCHANGED <<now, period, held, till, search, hour, oldest_calldate, late,
                   markFailed>>
-----------------------------------------------------------------------------
\* Phase 1: the next missing hour has a row, and its calls are aggregated.
Repair ==
    /\ pc = "repair" /\ hour = NoHour
    /\ hour' = missing[i + 1].hour
    /\ period' = Inserted(period, hour')
    /\ UNCHANGED <<now, held, pc, till, search, i, oldest_calldate, late, markFailed>>

\* mor_mark_finished_time_period, whose failure nobody looks at.
Marked ==
    \/ period' = [period EXCEPT ![hour] = "finished"] /\ UNCHANGED markFailed
    \/ UNCHANGED period /\ markFailed' = TRUE

\* The hour is marked; the loop ends at the last one or at the hour to stop at.
MarkRepaired ==
    /\ pc = "repair" /\ hour # NoHour
    /\ Marked
    /\ IF i + 1 = Len(missing) \/ hour = till
       THEN i' = 0 /\ pc' = "oldest_call"
       ELSE i' = i + 1 /\ UNCHANGED pc
    /\ hour' = NoHour
    /\ UNCHANGED <<now, held, till, search, oldest_calldate, late>>

\* get_oldest_calldate; without calls the program exits.
ReadOldestCall ==
    /\ pc = "oldest_call"
    /\ oldest_calldate' \in {NoHour} \cup 0..now
    /\ pc' = IF oldest_calldate' = NoHour THEN "done" ELSE "oldest_row"
    /\ UNCHANGED <<now, period, held, till, search, i, hour, late, markFailed>>

OldestRow == CHOOSE h \in Rows(Hours) : \A g \in Rows(Hours) : h <= g

\* get_oldest_time_period and what there is between the two.
ReadOldestRow ==
    /\ pc = "oldest_row"
    /\ t1' = OldestRow
    /\ hour_diff' = HoursBetween(t1', oldest_calldate)
    /\ pc' = IF hour_diff' < 1 THEN "done" ELSE "back"
    /\ UNCHANGED <<now, period, held, till, time_periods, i, missing, hour,
                   oldest_calldate, late, markFailed>>

\* Phase 2: the same for the hours before the oldest row.
Back ==
    /\ pc = "back" /\ hour = NoHour
    /\ hour' = HourBack
    /\ period' = Inserted(period, hour')
    /\ UNCHANGED <<now, held, pc, till, search, i, oldest_calldate, late, markFailed>>

MarkBack ==
    /\ pc = "back" /\ hour # NoHour
    /\ Marked
    /\ i' = i + 1
    /\ pc' = IF i' = hour_diff \/ hour = till THEN "done" ELSE "back"
    /\ hour' = NoHour
    /\ UNCHANGED <<now, held, till, search, oldest_calldate, late>>

\* The program is killed, or exits at a statement the server refuses.
Abort ==
    /\ pc \notin {"off", "done"}
    /\ pc' = "off" /\ till' = NoHour
    /\ NewProcess
    /\ UNCHANGED <<now, period, held>>
-----------------------------------------------------------------------------
Control ==
    \/ SelectRows \/ CountHours \/ LookUp \/ SearchEnds \/ Repair \/ MarkRepaired
    \/ ReadOldestCall \/ ReadOldestRow \/ Back \/ MarkBack

Daemon == StartDaemon \/ DaemonPolls \/ DaemonInserts \/ KillDaemon

Next == HourPasses \/ Daemon \/ Start \/ Control \/ Abort

Spec == Init /\ [][Next]_vars

\* Cron starts the program every day, and a program that runs goes on.
FairSpec == Spec /\ WF_vars(Control) /\ WF_vars(Start)
-----------------------------------------------------------------------------
\* The variables have their types, and all hours that are listed have ended.
TypeOK ==
    /\ now \in Hours /\ period \in [Hours -> States]
    /\ pc \in {"off", "select", "clock", "search", "repair", "oldest_call",
               "oldest_row", "back", "done"}
    /\ till \in Int \cup {NoHour}
    /\ time_periods \in Seq([hour : 0..(now - 1), finished : BOOLEAN])
    /\ t1 \in 0..now /\ hour_diff \in Int /\ i \in Nat
    /\ missing \in Seq([hour : 0..(now - 1), full : BOOLEAN])
    /\ hour \in {NoHour} \cup 0..(now - 1)
    /\ oldest_calldate \in {NoHour} \cup 0..now
    /\ held \in {NoHour} \cup 0..now
    /\ late \subseteq Hours /\ markFailed \in BOOLEAN

RowsRead   == {time_periods[j].hour : j \in DOMAIN time_periods}
HoursRead  == IF time_periods = <<>> THEN {} ELSE time_periods[1].hour..(t1 - 1)
Unfinished == HoursRead \ {time_periods[j].hour :
                  j \in {k \in DOMAIN time_periods : time_periods[k].finished}}
Listed     == {missing[a].hour : a \in DOMAIN missing}

ListedOnce == \A a, b \in DOMAIN missing : missing[a].hour = missing[b].hour => a = b

\* The search looks at another row than the one it has found.  It lists each
\* hour that has no row or an unfinished one, and no other, exactly once all
\* the same, and as a whole hour only if it has no row: provided that all the
\* rows are within the hours looked at.
SearchIsExact ==
    pc = "search" /\ i = hour_diff /\ t1 - time_periods[1].hour <= MaxBack =>
        /\ Listed = Unfinished
        /\ ListedOnce
        /\ \A a \in DOMAIN missing : missing[a].full <=> missing[a].hour \notin RowsRead

\* An hour that is finished, by either program, is never aggregated again, and
\* none is aggregated twice by one run.  It may be only if the daemon, whose
\* mark comes up to a batch late, has marked it since this run read its row, or
\* found none: the hour may change between the two looks at the clock.
FinishedHoursAreLeftAlone ==
    [][hour' \notin {hour, NoHour} =>
          period[hour'] # "finished" \/ hour' \in late]_vars

\* A run that comes to its end with no hour to stop at, and whose marks did not
\* fail, has finished all the hours it listed and all those between the oldest
\* call and the oldest row.
FinishedRunLeavesNoGap ==
    pc = "done" /\ till = NoHour /\ ~markFailed /\ oldest_calldate # NoHour =>
        \A h \in Listed \cup oldest_calldate..(t1 - 1) : period[h] = "finished"

\* An hour after the oldest row that the daemon has left unfinished, or slept
\* through, is finished in the end, whatever hours the runs are told to stop
\* at: unless runs are disturbed for ever or the rows exceed what is looked at.
EventuallyRepaired ==
    <>[][~Abort /\ ~markFailed']_vars =>
        \A h \in Hours :
            (h < now /\ Rows(0..h) # {} /\ period[h] # "finished")
                ~> (period[h] = "finished" \/ \E g \in Rows(Hours) : now - g > MaxBack)
=============================================================================
