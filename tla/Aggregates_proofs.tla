--------------------------- MODULE Aggregates_proofs ---------------------------
(***************************************************************************)
(* For any number of hours, calls and irregular events:                    *)
(*                                                                         *)
(*   - the bookmark of an hour never moves back (BaseInv: what the rows,   *)
(*     the clock and the programs' hands are at every step);               *)
(*   - no call is counted twice (CalmInv: a call beyond the bookmark of an *)
(*     open hour is not counted yet; OnceInv: the two programs are at      *)
(*     different hours and hold different calls);                          *)
(*   - no call of a finished hour is missing (SoundInv: what a bookmark    *)
(*     covers is done; UpInv, DownInv: every other call of a finished hour *)
(*     waits for a daemon that is going to read it);                       *)
(*   - the bookmark of an open hour separates exactly (CalmInv for what is *)
(*     beyond it, SoundInv for what it covers).                            *)
(*                                                                         *)
(* Each invariant says under which irregular events it holds; those events *)
(* only accumulate, so that an event that breaks an invariant also voids   *)
(* its condition, and the other steps may use it.                          *)
(***************************************************************************)
EXTENDS Aggregates, FiniteSetTheorems, SequenceTheorems, WellFoundedInduction, TLAPS

\* The smallest and the largest of a set of natural numbers.
LEMMA MinOfNumbers ==
    ASSUME NEW S \in SUBSET Nat, S # {}
    PROVE  Min(S) \in S /\ \A n \in S : Min(S) <= n
<1>1. PICK m \in S : \A n \in S : ~(<<n, m>> \in OpToRel(<, Nat))
  BY WFMin, NatLessThanWellFounded
<1>2. \A n \in S : ~(n < m)
  BY <1>1 DEF OpToRel
<1>3. \A n \in S : m <= n
  BY <1>2
<1> QED
  BY <1>3 DEF Min

\* The largest of a bounded set of numbers.
LEMMA MaxOfNumbers ==
    ASSUME NEW N \in Nat, NEW S \in SUBSET (0..N), S # {}
    PROVE  Max(S) \in S /\ \A n \in S : n <= Max(S)
<1> DEFINE D == {N - n : n \in S}
<1>a. PICK s \in S : TRUE
  OBVIOUS
<1>b. N - s \in D
  OBVIOUS
<1>c. \A n \in S : N - n \in Nat
  OBVIOUS
<1>1. D \in SUBSET Nat /\ D # {}
  BY <1>b, <1>c
<1>2. Min(D) \in D /\ \A d \in D : Min(D) <= d
  BY <1>1, MinOfNumbers
<1>3. PICK m \in S : Min(D) = N - m
  BY <1>2
<1>4. \A n \in S : N - m <= N - n
  BY <1>2, <1>3
<1>5. \A n \in S : n <= m
  BY <1>4
<1> QED
  BY <1>5 DEF Max

\* MAX(id) of a set of ids.
LEMMA MaxIdOf ==
    ASSUME NEW S \in SUBSET (0..MaxCalls)
    PROVE  /\ MaxId(S) \in 0..MaxCalls
           /\ MaxId(S) \in S \cup {0}
           /\ \A n \in S : n <= MaxId(S)
<1>1. CASE S = {}
  BY <1>1, ConstAssumption DEF MaxId
<1>2. CASE S # {}
  BY <1>2, MaxOfNumbers, ConstAssumption DEF MaxId
<1> QED
  BY <1>1, <1>2

\* The history only grows, and by the event that happens.
LEMMA EventHappens ==
    ASSUME NEW k, Event(k)
    PROVE  Happened' = Happened \cup {k}
  BY DEF Event, Happened, BagToSet, SetToBag, (+)

\* A regular step leaves the history of irregular events alone.
LEMMA NothingHappens ==
    ASSUME Regular
    PROVE  Happened' = Happened
  BY DEF Regular, Happened

\* An event that happens is one of those that may.
LEMMA BagStays ==
    ASSUME IsABag(events), Happened \subseteq Events, NEW k, Event(k)
    PROVE  IsABag(events') /\ Happened' \subseteq Events
<1>1. Happened' \subseteq Events
  BY EventHappens DEF Event
<1>2. DOMAIN events' = DOMAIN events \cup {k}
  BY DEF Event, SetToBag, (+)
<1>3. \A e \in DOMAIN events' :
         events'[e] = (IF e \in DOMAIN events THEN events[e] ELSE 0)
                      + (IF e \in {k} THEN 1 ELSE 0)
  BY DEF Event, SetToBag, (+)
<1>4. \A e \in DOMAIN events : events[e] \in Nat /\ events[e] > 0
  BY DEF IsABag
<1>5. \A e \in DOMAIN events' : events'[e] \in {n \in Nat : n > 0}
  BY <1>2, <1>3, <1>4
<1>6. events' = [e \in DOMAIN events' |-> events'[e]]
  BY DEF Event, (+)
<1> QED
  BY <1>1, <1>5, <1>6 DEF IsABag

-----------------------------------------------------------------------------
\* Whatever a step does, the history has grown by what happened.
LEMMA HistoryGrows ==
    ASSUME IsABag(events), Happened \subseteq Events, [Next]_vars
    PROVE  /\ IsABag(events') /\ Happened' \subseteq Events
           /\ Happened \subseteq Happened'
<1>1. CASE \E k \in Kinds : Event(k)
  BY <1>1, BagStays, EventHappens
<1>2. CASE events' = events
  BY <1>2 DEF Happened
<1>3. Next => events' = events \/ \E k \in Kinds : Event(k)
  BY DEF Next, StartDaemon, StartControl, Daemon, Control, Environment,
         InitialPeriod, InitialClock, Poll, ReadCalls, WriteBookmark, WriteCalls,
         WriteFails, NextHour, OlderHours, ControlEnds, ReadHour, WriteHour,
         WriteHourFails, MarkHour, Tick, StoreCall, StoreOverlapping, Commit,
         ReadFails, KillDaemon, StopControl, Regular, Late, Kinds
<1>4. UNCHANGED vars => events' = events
  BY DEF vars
<1> QED
  BY <1>1, <1>2, <1>3, <1>4

\* Rows that are inserted and marked are rows.
LEMMA RowsTyped ==
    ASSUME NEW p \in [Hours -> Row], NEW H
    PROVE  /\ WithRows(p, H) \in [Hours -> Row]
           /\ \A h \in Hours : Finished(p, h) \in [Hours -> Row]
  BY ConstAssumption DEF WithRows, Finished, Row

\* Counts stay numbers.
LEMMA AddTyped ==
    ASSUME counted \in [Ids -> Nat], NEW S
    PROVE  Add(S) \in [Ids -> Nat]
  BY DEF Add

\* What the types say of the calls and of the rows.
LEMMA Known ==
    ASSUME TypeOK
    PROVE  /\ Len(calls) \in Nat /\ Len(calls) <= MaxCalls
           /\ \A c \in 1..Len(calls) : calls[c].hour \in Hours /\ calls[c].sharp \in BOOLEAN
           /\ committed \in SUBSET (0..MaxCalls) /\ committed \in SUBSET (1..Len(calls))
           /\ committed \in SUBSET Ids /\ 1..Len(calls) \in SUBSET Ids
           /\ \A h \in Hours : /\ period[h] \in Row /\ period[h].last \in 0..MaxCalls
                                 /\ period[h].st \in {"absent", "open", "finished"}
           /\ now \in Hours /\ now \in Nat /\ \A h \in Hours : h \in Nat
           /\ \A h \in 0..now : h \in Hours
           /\ last_hour \in Hours /\ time_period_hour_id \in Hours /\ chour \in Hours
           /\ last_call_id \in 0..MaxCalls /\ stopped.id \in 0..MaxCalls
           /\ stopped.hour \in Hours
           /\ \A t \in todo : t.hour \in Hours /\ t.from \in 0..MaxCalls
<1>1. Len(calls) \in Nat /\ Len(calls) <= MaxCalls
  BY DEF TypeOK
<1>2. calls \in [1..Len(calls) -> [hour : Hours, sharp : BOOLEAN]]
  BY LenProperties DEF TypeOK
<1>3. \A c \in 1..Len(calls) : calls[c].hour \in Hours /\ calls[c].sharp \in BOOLEAN
  BY <1>2
<1>4. committed \in SUBSET (1..Len(calls))
  BY DEF TypeOK
<1>5. /\ committed \in SUBSET (0..MaxCalls) /\ committed \in SUBSET Ids
      /\ 1..Len(calls) \in SUBSET Ids
  BY <1>1, <1>4, ConstAssumption DEF Ids
<1>6. now \in Hours /\ now \in Nat /\ \A h \in Hours : h \in Nat
  BY DEF TypeOK, Hours
<1>7. \A h \in 0..now : h \in Hours
  BY <1>6, ConstAssumption DEF Hours
<1>8. \A h \in Hours : /\ period[h] \in Row /\ period[h].last \in 0..MaxCalls
                        /\ period[h].st \in {"absent", "open", "finished"}
  BY DEF TypeOK, Row
<1>9. /\ last_hour \in Hours /\ time_period_hour_id \in Hours /\ chour \in Hours
      /\ last_call_id \in 0..MaxCalls /\ stopped.id \in 0..MaxCalls
      /\ stopped.hour \in Hours
      /\ \A t \in todo : t.hour \in Hours /\ t.from \in 0..MaxCalls
  BY DEF TypeOK
<1> QED
  BY <1>1, <1>3, <1>4, <1>5, <1>6, <1>7, <1>8, <1>9

\* The variables have their types when everything starts.
LEMMA TypeInit == Init => TypeOK
<1> SUFFICES ASSUME Init PROVE TypeOK
  OBVIOUS
<1>1. IsABag(events) /\ Happened \subseteq Events
  BY DEF Init, IsABag, EmptyBag, SetToBag, Happened, BagToSet
<1>2. NoRows \in [Hours -> Row]
  BY ConstAssumption DEF NoRows, Row
<1>3. period \in [Hours -> Row]
  BY <1>2, RowsTyped DEF Init
<1>4. calls \in Seq([hour : Hours, sharp : BOOLEAN]) /\ Len(calls) = 0
  BY DEF Init
<1>5. counted \in [Ids -> Nat] /\ now \in Hours /\ 0 \in Hours /\ 0 \in 0..MaxCalls
  BY ConstAssumption DEF Init, Hours, Ids
<1>6. stopped \in [hour : Hours, id : 0..MaxCalls]
  BY <1>5 DEF Init
<1>7. first_run \in BOOLEAN /\ dpc \in {"off", "top"}
  BY DEF Init
<1>8. /\ committed = {} /\ last_hour = 0 /\ time_period_hour_id = 0 /\ last_call_id = 0
      /\ batch = {} /\ broken = FALSE /\ cpc = "off" /\ phase = 1 /\ todo = {}
      /\ chour = 0 /\ cfrom = 0 /\ cbatch = {} /\ cbroken = FALSE
  BY DEF Init
<1> QED
  BY <1>1, <1>3, <1>4, <1>5, <1>6, <1>7, <1>8, ConstAssumption DEF TypeOK

\* A step keeps the types; OlderHours needs a row to start from.
LEMMA TypeNext ==
    ASSUME TypeOK, cpc # "off" => Rows(Hours) # {}, [Next]_vars
    PROVE  TypeOK'
<1>h. IsABag(events') /\ Happened' \subseteq Events
  BY HistoryGrows DEF TypeOK
<1>0. CASE UNCHANGED vars
  BY <1>0, <1>h DEF vars, db, daemon, control, TypeOK
<1>1. CASE StartDaemon
  <2>1. MaxId(committed) \in 0..MaxCalls
    BY MaxIdOf, Known
  <2>2. last_call_id' \in 0..MaxCalls /\ 0 \in Hours
    BY <1>1, <2>1, ConstAssumption DEF StartDaemon, Hours
  <2>3. stopped' \in [hour : Hours, id : 0..MaxCalls]
    BY <1>1, <2>2, ConstAssumption DEF StartDaemon
  <2> QED
    BY <1>1, <1>h, <2>2, <2>3 DEF StartDaemon, DaemonGoes, TypeOK, db, control
<1>2. CASE InitialPeriod
  <2>1. period' \in [Hours -> Row]
    BY <1>2, RowsTyped DEF InitialPeriod, TypeOK
  <2>2. period'[now].last \in 0..MaxCalls
    BY <2>1, Known DEF Row
  <2>3. stopped' \in [hour : Hours, id : 0..MaxCalls]
    BY <1>2, <2>2, Known DEF InitialPeriod, StoppedAt, TypeOK
  <2> QED
    BY <1>2, <1>h, <2>1, <2>3 DEF InitialPeriod, DaemonGoes, TypeOK, db, control
<1>3. CASE InitialClock
  BY <1>3, <1>h DEF InitialClock, DaemonGoes, TypeOK, db, control
<1>4. CASE Poll
  <2>1. period' \in [Hours -> Row]
    <3>1. Finished(period, time_period_hour_id) \in [Hours -> Row]
      BY RowsTyped DEF TypeOK
    <3>2. ChangeHour(period) \in [Hours -> Row]
      BY <3>1, RowsTyped DEF ChangeHour
    <3>3. WithRows(period, {now}) \in [Hours -> Row]
      BY RowsTyped DEF TypeOK
    <3> QED
      BY <1>4, <3>2, <3>3 DEF Poll, TypeOK
  <2>2. stopped' \in [hour : Hours, id : 0..MaxCalls]
    <3>1. period'[now].last \in 0..MaxCalls
      BY <2>1, Known DEF Row
    <3> QED
      BY <1>4, <3>1, Known DEF Poll, StoppedAt, TypeOK
  <2> QED
    BY <1>4, <1>h, <2>1, <2>2 DEF Poll, DaemonGoes, TypeOK, db, control
<1>5. CASE ReadCalls
  <2>1. batch' \subseteq committed
    BY <1>5 DEF ReadCalls, NewCalls
  <2>2. {last_call_id} \cup batch' \in SUBSET (0..MaxCalls)
    BY <2>1, Known DEF TypeOK
  <2>3. last_call_id' \in 0..MaxCalls
    BY <1>5, <2>2, MaxIdOf DEF ReadCalls
  <2> QED
    BY <1>5, <1>h, <2>1, <2>3, RowsTyped DEF ReadCalls, DaemonGoes, TypeOK, db, control
<1>6. CASE WriteBookmark
  <2>1. period' \in [Hours -> Row]
    <3>1. Bookmark \in [Hours -> Row]
      BY DEF Bookmark, TypeOK, Row
    <3> QED
      BY <1>6, <3>1 DEF WriteBookmark, TypeOK
  <2> QED
    BY <1>6, <1>h, <2>1 DEF WriteBookmark, DaemonGoes, TypeOK, db, control
<1>7. CASE WriteCalls
  BY <1>7, <1>h, AddTyped DEF WriteCalls, DaemonGoes, TypeOK, db, control
<1>8. CASE WriteFails
  BY <1>8, <1>h DEF WriteFails, DaemonGoes, TypeOK, db, control
<1>9. CASE StartControl
  <2>1. Missing \subseteq [hour : Hours, from : 0..MaxCalls]
    <3> DEFINE R == Rows(0..(now - 1))
    <3>1. CASE R = {}
      BY <3>1 DEF Missing
    <3>2. CASE R # {}
      <4>0. R \in SUBSET Nat
        BY Known DEF Rows
      <4>1. Min(R) \in Nat
        BY <3>2, <4>0, MinOfNumbers
      <4>2. \A h \in Min(R)..(now - 1) : h \in Hours
        BY <4>1, ConstAssumption DEF TypeOK, Hours
      <4>3. \A h \in Hours : period[h].last \in 0..MaxCalls
        BY DEF TypeOK, Row
      <4>4. \A h \in Min(R)..(now - 1) :
               [hour |-> h, from |-> period[h].last] \in [hour : Hours, from : 0..MaxCalls]
        BY <4>2, <4>3
      <4> QED
        BY <3>2, <4>4 DEF Missing
    <3> QED
      BY <3>1, <3>2
  <2> QED
    BY <1>9, <1>h, <2>1 DEF StartControl, TypeOK, db, daemon
<1>10. CASE NextHour
  <2>1. PICK t \in todo : /\ todo' = todo \ {t} /\ chour' = t.hour /\ cfrom' = t.from
                          /\ period' = WithRows(period, {t.hour})
    BY <1>10 DEF NextHour
  <2>2. t.hour \in Hours /\ t.from \in 0..MaxCalls
    BY DEF TypeOK
  <2>3. period' \in [Hours -> Row]
    BY <2>1, RowsTyped DEF TypeOK
  <2> QED
    BY <1>10, <1>h, <2>1, <2>2, <2>3 DEF NextHour, TypeOK, db, daemon
<1>11. CASE OlderHours
  <2>1. todo' \subseteq [hour : Hours, from : 0..MaxCalls]
    <3> DEFINE C == {calls[c].hour : c \in committed}
    <3>1. CASE committed = {}
      BY <1>11, <3>1 DEF OlderHours
    <3>2. CASE committed # {}
      <4>1. C \subseteq Hours /\ C # {}
        BY <3>2, Known
      <4>2. Min(C) \in Nat
        BY <4>1, MinOfNumbers, Known
      <4>3. Min(Rows(Hours)) \in Hours
        <5>1. Rows(Hours) \in SUBSET Nat /\ Rows(Hours) # {} /\ Rows(Hours) \subseteq Hours
          BY <1>11, Known DEF OlderHours, Rows
        <5> QED
          BY <5>1, MinOfNumbers
      <4>4. \A h \in Min(C)..(Min(Rows(Hours)) - 1) : h \in Hours
        BY <4>2, <4>3, ConstAssumption DEF Hours
      <4>5. 0 \in 0..MaxCalls
        BY ConstAssumption
      <4>6. todo' = {[hour |-> h, from |-> 0] : h \in Min(C)..(Min(Rows(Hours)) - 1)}
        BY <1>11, <3>2 DEF OlderHours
      <4>7. \A h \in Min(C)..(Min(Rows(Hours)) - 1) :
               [hour |-> h, from |-> 0] \in [hour : Hours, from : 0..MaxCalls]
        BY <4>4, <4>5
      <4> QED
        BY <4>6, <4>7, Zenon
    <3> QED
      BY <3>1, <3>2
  <2> QED
    BY <1>11, <1>h, <2>1 DEF OlderHours, TypeOK, db, daemon
<1>12. CASE ControlEnds
  BY <1>12, <1>h DEF ControlEnds, TypeOK, db, daemon
<1>13. CASE ReadHour
  BY <1>13, <1>h DEF ReadHour, TypeOK, db, daemon
<1>14. CASE WriteHour
  BY <1>14, <1>h, AddTyped DEF WriteHour, TypeOK, db, daemon
<1>15. CASE WriteHourFails
  BY <1>15, <1>h DEF WriteHourFails, TypeOK, db, daemon
<1>16. CASE MarkHour
  <2>1. Finished(period, chour) \in [Hours -> Row]
    BY RowsTyped DEF TypeOK
  <2> QED
    BY <1>16, <1>h, <2>1 DEF MarkHour, TypeOK, db, daemon
<1>17. CASE Tick
  BY <1>17, <1>h, ConstAssumption DEF Tick, TypeOK, db, daemon, control, Hours
<1>18. CASE StoreCall
  <2>1. PICK h \in 0..now, sharp \in BOOLEAN :
           calls' = Append(calls, [hour |-> h, sharp |-> sharp])
    BY <1>18 DEF StoreCall
  <2>2. /\ calls' \in Seq([hour : Hours, sharp : BOOLEAN])
        /\ Len(calls') = Len(calls) + 1
    BY <2>1, ConstAssumption DEF TypeOK, Hours
  <2>3. Len(calls) \in Nat
    BY DEF TypeOK
  <2>4. committed' \subseteq 1..Len(calls')
    <3>1. committed' = committed \cup {Len(calls')}
      BY <1>18 DEF StoreCall
    <3>2. \A c \in committed : c \in 1..(Len(calls) + 1)
      BY <2>3 DEF TypeOK
    <3> QED
      BY <3>1, <3>2, <2>2, <2>3
  <2> QED
    BY <1>18, <1>h, <2>2, <2>3, <2>4, ConstAssumption DEF StoreCall, TypeOK, daemon, control
<1>19. CASE StoreOverlapping
  <2>1. calls' = Append(calls, [hour |-> now, sharp |-> FALSE])
    BY <1>19 DEF StoreOverlapping
  <2>2. /\ calls' \in Seq([hour : Hours, sharp : BOOLEAN])
        /\ Len(calls') = Len(calls) + 1
    BY <2>1 DEF TypeOK
  <2>3. Len(calls) \in Nat
    BY DEF TypeOK
  <2> QED
    BY <1>19, <1>h, <2>2, <2>3, ConstAssumption DEF StoreOverlapping, TypeOK, daemon, control
<1>20. CASE Commit
  BY <1>20, <1>h DEF Commit, TypeOK, daemon, control
<1>21. CASE ReadFails
  BY <1>21, <1>h DEF ReadFails, DaemonGoes, TypeOK, db, control
<1>22. CASE KillDaemon
  BY <1>22, <1>h DEF KillDaemon, DaemonGoes, TypeOK, db, control
<1>23. CASE StopControl
  BY <1>23, <1>h DEF StopControl, TypeOK, db, daemon
<1> QED
  BY <1>0, <1>1, <1>2, <1>3, <1>4, <1>5, <1>6, <1>7, <1>8, <1>9, <1>10, <1>11, <1>12,
     <1>13, <1>14, <1>15, <1>16, <1>17, <1>18, <1>19, <1>20, <1>21, <1>22, <1>23
     DEF Next, Daemon, Control, Environment

\* Nothing is ahead of the clock: no call, no row, no mark, no hour that a
\* program is at.
ClockInv ==
    /\ \A c \in 1..Len(calls) : calls[c].hour <= now
    /\ \A h \in Hours : h > now => period[h].st = "absent"
    /\ \A h \in Hours : h >= now => period[h].st # "finished"
    /\ dpc \notin {"off", "period"} => time_period_hour_id <= now
    /\ dpc \notin {"off", "period", "clock"} =>
          time_period_hour_id <= last_hour /\ last_hour <= now
    /\ cpc # "off" => \A t \in todo : t.hour < now
    /\ cpc \in {"read", "write", "mark"} => chour < now

\* There are rows while the control program runs, and one for the hour of
\* the daemon.
RowsInv ==
    /\ cpc # "off" => \E h \in Hours : period[h].st # "absent"
    /\ dpc \notin {"off", "period"} => period[time_period_hour_id].st # "absent"

\* Hours and ids are numbers.
LEMMA Times ==
    ASSUME TypeOK
    PROVE  /\ now \in Nat /\ last_hour \in Nat /\ time_period_hour_id \in Nat
           /\ chour \in Nat /\ stopped.hour \in Nat
           /\ last_call_id \in Nat /\ stopped.id \in Nat
<1>1. /\ now \in Hours /\ last_hour \in Hours /\ time_period_hour_id \in Hours
      /\ chour \in Hours /\ stopped.hour \in Hours
      /\ last_call_id \in 0..MaxCalls /\ stopped.id \in 0..MaxCalls
  BY Known
<1> QED
  BY <1>1 DEF Hours

\* The rows after an INSERT of missing rows and after a mark.
LEMMA RowsAfter ==
    ASSUME NEW p \in [Hours -> Row], NEW H, NEW h \in Hours
    PROVE  /\ WithRows(p, H)[h].st = IF h \in H /\ p[h].st = "absent" THEN "open" ELSE p[h].st
           /\ WithRows(p, H)[h].last = IF h \in H /\ p[h].st = "absent" THEN 0 ELSE p[h].last
  BY DEF WithRows, Row

\* The rows after a mark.
LEMMA FinishedAfter ==
    ASSUME NEW p \in [Hours -> Row], NEW g \in Hours, NEW h \in Hours
    PROVE  /\ Finished(p, g)[h].st = IF h = g THEN "finished" ELSE p[h].st
           /\ Finished(p, g)[h].last = p[h].last
  BY DEF Finished, Row

\* What a step does to the row of an hour.
RowTaken(h) ==
    /\ period'[h].st = IF period[h].st = "absent" THEN "open" ELSE period[h].st
    /\ period'[h].last = IF period[h].st = "absent" THEN 0 ELSE period[h].last

\* The row is marked as finished.
RowMarked(h) == period'[h].st = "finished" /\ period'[h].last = period[h].last

\* The row stays.
RowKept(h) == period'[h].st = period[h].st /\ period'[h].last = period[h].last

\* The daemon that starts takes the row of the current hour.
LEMMA InitialPeriodRow ==
    ASSUME TypeOK, InitialPeriod, NEW h \in Hours
    PROVE  IF h = now THEN RowTaken(h) ELSE RowKept(h)
  BY RowsAfter DEF TypeOK, InitialPeriod, RowTaken, RowKept

\* A change of hour marks the old row and takes the new one.
LEMMA PollRow ==
    ASSUME TypeOK, ClockInv, Poll, NEW h \in Hours
    PROVE  IF now = last_hour THEN RowKept(h)
           ELSE /\ time_period_hour_id < now
                /\ h = time_period_hour_id =>
                      RowMarked(h) \/ (RowKept(h) /\ "sql" \in Happened')
                /\ h = now => RowTaken(h)
                /\ h \notin {time_period_hour_id, now} => RowKept(h)
<1>1. CASE now = last_hour
  BY <1>1 DEF Poll, RowKept
<1>2. CASE now # last_hour
  <2>0. time_period_hour_id <= last_hour /\ last_hour <= now
    BY DEF Poll, ClockInv
  <2>1. time_period_hour_id < now
    BY <1>2, <2>0, Times
  <2>2. period' = ChangeHour(period) \/ (period' = WithRows(period, {now}) /\ Event("sql"))
    BY <1>2 DEF Poll
  <2>3. CASE period' = ChangeHour(period)
    <3> DEFINE p == Finished(period, time_period_hour_id)
    <3>0. period' = WithRows(p, {now})
      BY <2>3 DEF ChangeHour
    <3>1. p \in [Hours -> Row]
      BY RowsTyped DEF TypeOK
    <3>2. /\ p[h].st = IF h = time_period_hour_id THEN "finished" ELSE period[h].st
          /\ p[h].last = period[h].last
      <4>1. period \in [Hours -> Row] /\ time_period_hour_id \in Hours
        BY DEF TypeOK
      <4> QED
        BY <4>1, FinishedAfter
    <3> HIDE DEF p
    <3>3. /\ period'[h].st = IF h \in {now} /\ p[h].st = "absent" THEN "open" ELSE p[h].st
          /\ period'[h].last = IF h \in {now} /\ p[h].st = "absent" THEN 0 ELSE p[h].last
      BY <3>0, <3>1, RowsAfter
    <3> QED
      BY <1>2, <2>1, <3>2, <3>3, Times DEF RowTaken, RowMarked, RowKept
  <2>4. CASE period' = WithRows(period, {now}) /\ Event("sql")
    <3>1. "sql" \in Happened'
      BY <2>4, EventHappens
    <3>2. IF h = now THEN RowTaken(h) ELSE RowKept(h)
      BY <2>4, RowsAfter DEF TypeOK, RowTaken, RowKept
    <3> QED
      BY <1>2, <2>1, <3>1, <3>2, Times
  <2> QED
    BY <2>2, <2>3, <2>4
<1> QED
  BY <1>1, <1>2

\* Reading calls takes the rows of their hours.
LEMMA ReadCallsRow ==
    ASSUME TypeOK, ReadCalls, NEW h \in Hours
    PROVE  /\ RowTaken(h) \/ RowKept(h)
           /\ ~RowKept(h) => \E c \in batch' : c \in committed /\ h = calls[c].hour
  BY RowsAfter DEF TypeOK, ReadCalls, NewCalls, RowTaken, RowKept

\* The bookmark of the daemon's hour becomes the last id it has read.
LEMMA BookmarkRow ==
    ASSUME TypeOK, WriteBookmark, NEW h \in Hours
    PROVE  \/ RowKept(h) /\ (h = time_period_hour_id /\ last_call_id # 0 => "sql" \in Happened')
           \/ /\ h = time_period_hour_id /\ last_call_id # 0
              /\ period'[h].st = period[h].st /\ period'[h].last = last_call_id
<1>1. CASE UNCHANGED period /\ Event("sql")
  BY <1>1, EventHappens DEF RowKept
<1>2. CASE period' = Bookmark
  BY <1>2 DEF Bookmark, TypeOK, Row, RowKept
<1> QED
  BY <1>1, <1>2 DEF WriteBookmark

\* The control program takes the row of the hour it goes to.
LEMMA NextHourRow ==
    ASSUME TypeOK, NextHour
    PROVE  \E t \in todo : /\ todo' = todo \ {t} /\ chour' = t.hour /\ cfrom' = t.from
                           /\ t.hour \in Hours
                           /\ \A h \in Hours : IF h = t.hour THEN RowTaken(h) ELSE RowKept(h)
<1>1. PICK t \in todo : /\ todo' = todo \ {t} /\ chour' = t.hour /\ cfrom' = t.from
                        /\ period' = WithRows(period, {t.hour})
  BY DEF NextHour
<1>2. \A h \in Hours : IF h = t.hour THEN RowTaken(h) ELSE RowKept(h)
  BY <1>1, RowsAfter DEF TypeOK, RowTaken, RowKept
<1> QED
  BY <1>1, <1>2, Known

\* The control program marks the row of its hour.
LEMMA MarkHourRow ==
    ASSUME TypeOK, MarkHour, NEW h \in Hours
    PROVE  IF h = chour THEN RowMarked(h) \/ (RowKept(h) /\ "sql" \in Happened') ELSE RowKept(h)
<1>1. CASE UNCHANGED period /\ Event("sql")
  BY <1>1, EventHappens DEF RowKept
<1>2. CASE period' = Finished(period, chour)
  <2>1. period \in [Hours -> Row] /\ chour \in Hours
    BY DEF TypeOK
  <2>2. /\ period'[h].st = IF h = chour THEN "finished" ELSE period[h].st
        /\ period'[h].last = period[h].last
    BY <1>2, <2>1, FinishedAfter
  <2> QED
    BY <2>2 DEF RowKept, RowMarked
<1> QED
  BY <1>1, <1>2 DEF MarkHour

\* A call that is stored has the next id; the others stay.
Stored(c) ==
    /\ calls'[c].hour \in 0..now /\ calls'[c].sharp \in BOOLEAN
    /\ calls'[c].hour < now => ~calls'[c].sharp /\ Event(Late(calls'[c].hour))
    /\ ~calls'[c].sharp /\ calls'[c].hour = now => Regular \/ Event("overlap")
    /\ calls'[c].sharp => Event("sharp")

\* What storing a call does.
LEMMA CallsGrow ==
    ASSUME TypeOK, StoreCall \/ StoreOverlapping
    PROVE  /\ Len(calls') = Len(calls) + 1 /\ Len(calls) \in Nat
           /\ Len(calls) + 1 \in Ids
           /\ \A c \in 1..Len(calls) : calls'[c] = calls[c]
           /\ Stored(Len(calls) + 1)
<1>1. PICK h \in 0..now, sharp \in BOOLEAN :
         /\ calls' = Append(calls, [hour |-> h, sharp |-> sharp])
         /\ h < now => ~sharp /\ Event(Late(h))
         /\ h = now /\ ~sharp => Regular \/ Event("overlap")
         /\ sharp => Event("sharp")
  <2>1. CASE StoreCall
    <3>1. PICK h \in 0..now, sharp \in BOOLEAN :
             /\ calls' = Append(calls, [hour |-> h, sharp |-> sharp])
             /\ \/ h = now /\ ~sharp /\ Regular
                \/ h < now /\ ~sharp /\ Event(Late(h))
                \/ h = now /\ sharp /\ Event("sharp")
      BY <2>1 DEF StoreCall
    <3>2. now \in Nat /\ h \in Nat
      BY Known
    <3>3. /\ h < now => ~sharp /\ Event(Late(h))
          /\ h = now /\ ~sharp => Regular \/ Event("overlap")
          /\ sharp => Event("sharp")
      BY <3>1, <3>2
    <3> QED
      BY <3>1, <3>3
  <2>2. CASE StoreOverlapping
    <3>1. now \in 0..now /\ FALSE \in BOOLEAN /\ ~(now < now)
      BY Known
    <3>2. /\ calls' = Append(calls, [hour |-> now, sharp |-> FALSE])
          /\ Event("overlap")
      BY <2>2 DEF StoreOverlapping
    <3> QED
      BY <3>1, <3>2
  <2> QED
    BY <2>1, <2>2
<1>2. Len(calls) \in Nat /\ Len(calls) < MaxCalls /\ Len(calls) + 1 \in Ids
  BY Known, ConstAssumption DEF StoreCall, StoreOverlapping, Ids
<1>3. /\ Len(calls') = Len(calls) + 1
      /\ \A c \in 1..Len(calls) : calls'[c] = calls[c]
      /\ calls'[Len(calls) + 1] = [hour |-> h, sharp |-> sharp]
  BY <1>1, <1>2 DEF TypeOK
<1>4. PICK c \in Nat : c = Len(calls) + 1
  BY <1>2
<1>5. calls'[c].hour = h /\ calls'[c].sharp = sharp
  BY <1>3, <1>4
<1>6. Stored(c)
  BY <1>1, <1>5 DEF Stored
<1> QED
  BY <1>2, <1>3, <1>4, <1>6

\* Nothing is ahead of the clock at first.
LEMMA ClockInit == Init => ClockInv
<1> SUFFICES ASSUME Init PROVE ClockInv
  OBVIOUS
<1>1. \A h \in Hours : h >= 0 => period[h].st # "finished"
  BY DEF Init, NoRows, WithRows
<1>2. \A h \in Hours : h > 0 => period[h].st = "absent"
  BY DEF Init, NoRows, WithRows
<1>3. Len(calls) = 0
  BY DEF Init
<1> QED
  BY <1>1, <1>2, <1>3, ConstAssumption DEF Init, ClockInv

\* The steps that leave the rows alone.
OtherSteps ==
    \/ UNCHANGED vars \/ StartDaemon \/ InitialClock \/ WriteCalls \/ WriteFails
    \/ StartControl \/ OlderHours \/ ControlEnds \/ ReadHour \/ WriteHour
    \/ WriteHourFails \/ Tick \/ StoreCall \/ StoreOverlapping \/ Commit
    \/ ReadFails \/ KillDaemon \/ StopControl

\* They do leave the rows alone.
LEMMA OtherRows ==
    ASSUME OtherSteps
    PROVE  UNCHANGED period
  BY DEF OtherSteps, vars, StartDaemon, InitialClock, WriteCalls, WriteFails,
         StartControl, OlderHours, ControlEnds, ReadHour, WriteHour, WriteHourFails,
         Tick, StoreCall, StoreOverlapping, Commit, ReadFails, KillDaemon, StopControl

\* The steps that touch the rows, and the others.
LEMMA Steps ==
    ASSUME [Next]_vars
    PROVE  \/ InitialPeriod \/ Poll \/ ReadCalls \/ WriteBookmark \/ NextHour
           \/ MarkHour \/ OtherSteps
  BY DEF Next, Daemon, Control, Environment, OtherSteps

\* Rows are taken and marked, nothing else; only the hour that the daemon
\* leaves and the hour that the control program is at are marked.
LEMMA RowsOnlyGrow ==
    ASSUME TypeOK, ClockInv, [Next]_vars, NEW h \in Hours
    PROVE  /\ period[h].st # "absent" => period'[h].st # "absent"
           /\ period[h].st = "finished" => period'[h].st = "finished"
           /\ period'[h].st = "finished" => \/ period[h].st = "finished"
                                           \/ (MarkHour /\ h = chour)
                                           \/ (Poll /\ now # last_hour /\ h = time_period_hour_id)
<1>0. period[h].st \in {"absent", "open", "finished"}
  BY Known
<1>1. CASE InitialPeriod
  BY <1>0, <1>1, InitialPeriodRow DEF RowTaken, RowKept
<1>2. CASE Poll
  BY <1>0, <1>2, PollRow DEF RowTaken, RowKept, RowMarked
<1>3. CASE ReadCalls
  BY <1>0, <1>3, ReadCallsRow DEF RowTaken, RowKept
<1>4. CASE WriteBookmark
  BY <1>0, <1>4, BookmarkRow DEF RowKept
<1>5. CASE NextHour
  BY <1>0, <1>5, NextHourRow DEF RowTaken, RowKept
<1>6. CASE MarkHour
  BY <1>0, <1>6, MarkHourRow DEF RowMarked, RowKept
<1>7. CASE OtherSteps
  BY <1>0, <1>7, OtherRows
<1> QED
  BY <1>1, <1>2, <1>3, <1>4, <1>5, <1>6, <1>7, Steps

\* Rows are taken for hours up to now.
LEMMA RowsAreTaken ==
    ASSUME TypeOK, ClockInv, [Next]_vars, NEW h \in Hours,
           period[h].st = "absent", period'[h].st # "absent"
    PROVE  h <= now
<1>1. CASE InitialPeriod
  BY <1>1, InitialPeriodRow, Times DEF RowKept
<1>2. CASE Poll
  BY <1>2, PollRow, Times DEF RowKept, RowMarked, ClockInv
<1>3. CASE ReadCalls
  <2>1. PICK c \in committed : h = calls[c].hour
    BY <1>3, ReadCallsRow DEF RowKept
  <2>2. c \in 1..Len(calls)
    BY Known
  <2> QED
    BY <2>1, <2>2 DEF ClockInv
<1>4. CASE WriteBookmark
  BY <1>4, BookmarkRow DEF RowKept
<1>5. CASE NextHour
  <2>1. PICK t \in todo : h = t.hour
    BY <1>5, NextHourRow DEF RowKept
  <2>2. t.hour < now /\ t.hour \in Hours
    BY <1>5, Known DEF ClockInv, NextHour
  <2> QED
    BY <2>1, <2>2, Times DEF Hours
<1>6. CASE MarkHour
  <2>1. h = chour
    BY <1>6, MarkHourRow DEF RowKept
  <2>2. chour < now
    BY <1>6 DEF ClockInv, MarkHour
  <2> QED
    BY <2>1, <2>2, Times
<1>7. CASE OtherSteps
  BY <1>7, OtherRows
<1> QED
  BY <1>1, <1>2, <1>3, <1>4, <1>5, <1>6, <1>7, Steps

\* Time passes only with Tick, and calls come only with the two StoreCalls.
LEMMA TimePasses ==
    ASSUME [Next]_vars
    PROVE  Tick \/ UNCHANGED now
  BY DEF Next, Daemon, Control, Environment, vars, StartDaemon, StartControl,
         InitialPeriod, InitialClock, Poll, ReadCalls, WriteBookmark, WriteCalls,
         WriteFails, NextHour, OlderHours, ControlEnds, ReadHour, WriteHour,
         WriteHourFails, MarkHour, StoreCall, StoreOverlapping, Commit,
         ReadFails, KillDaemon, StopControl

\* Time does not go back.
LEMMA NowGrows ==
    ASSUME TypeOK, [Next]_vars
    PROVE  now' \in Nat /\ now' >= now
  BY TimePasses, Times DEF Tick

\* Calls come with StoreCall and StoreOverlapping only.
LEMMA CallsCome ==
    ASSUME [Next]_vars
    PROVE  StoreCall \/ StoreOverlapping \/ UNCHANGED calls
  BY DEF Next, Daemon, Control, Environment, vars, db, StartDaemon, StartControl,
         InitialPeriod, InitialClock, Poll, ReadCalls, WriteBookmark, WriteCalls,
         WriteFails, NextHour, OlderHours, ControlEnds, ReadHour, WriteHour,
         WriteHourFails, MarkHour, Tick, Commit, ReadFails, KillDaemon, StopControl

\* A call stays what it is; one that comes has the next id.
LEMMA CallsStay ==
    ASSUME TypeOK, [Next]_vars
    PROVE  /\ Len(calls) \in Nat /\ Len(calls') \in Nat /\ Len(calls) <= Len(calls')
           /\ \A c \in 1..Len(calls) : c \in 1..Len(calls') /\ calls'[c] = calls[c]
           /\ \A c \in 1..Len(calls') :
                 \/ c \in 1..Len(calls)
                 \/ c = Len(calls) + 1 /\ Stored(c) /\ (StoreCall \/ StoreOverlapping)
<1>1. CASE UNCHANGED calls
  BY <1>1, Known
<1>2. CASE StoreCall \/ StoreOverlapping
  BY <1>2, CallsGrow
<1> QED
  BY <1>1, <1>2, CallsCome

\* No step gets ahead of the clock.
LEMMA ClockNext ==
    ASSUME TypeOK, TypeOK', ClockInv, RowsInv, [Next]_vars
    PROVE  ClockInv'
<1>t. now \in Nat /\ now' \in Nat /\ now' >= now
  BY NowGrows, Times
<1>n. \A h \in Hours : h \in Nat
  BY Known
<1>1. ASSUME NEW c \in 1..Len(calls')
      PROVE  calls'[c].hour <= now'
  <2>1. CASE c \in 1..Len(calls)
    <3>1. calls'[c].hour = calls[c].hour /\ calls[c].hour <= now /\ calls[c].hour \in Hours
      BY <2>1, CallsStay, Known DEF ClockInv
    <3> QED
      BY <3>1, <1>t, <1>n
  <2>2. CASE c \notin 1..Len(calls)
    <3>1. calls'[c].hour \in 0..now
      BY <2>2, CallsStay DEF Stored
    <3> QED
      BY <3>1, <1>t
  <2> QED
    BY <2>1, <2>2
<1>2. ASSUME NEW h \in Hours, h > now'
      PROVE  period'[h].st = "absent"
  <2>1. h > now
    BY <1>2, <1>t, <1>n
  <2>2. period[h].st = "absent" /\ ~(h <= now)
    BY <2>1, <1>t, <1>n DEF ClockInv
  <2> QED
    BY <2>2, RowsAreTaken
<1>3. ASSUME NEW h \in Hours, h >= now'
      PROVE  period'[h].st # "finished"
  <2>1. h >= now
    BY <1>3, <1>t, <1>n
  <2>2. period[h].st # "finished"
    BY <2>1 DEF ClockInv
  <2>3. MarkHour => h # chour
    BY <2>1, Times, <1>n DEF MarkHour, ClockInv
  <2>4. Poll /\ now # last_hour => h # time_period_hour_id
    <3>1. ASSUME Poll, now # last_hour PROVE h # time_period_hour_id
      <4>1. time_period_hour_id < now
        BY <3>1, PollRow
      <4> QED
        BY <4>1, <2>1, Times, <1>n
    <3> QED
      BY <3>1
  <2> QED
    BY <2>2, <2>3, <2>4, RowsOnlyGrow
<1>4. /\ dpc' \notin {"off", "period"} => time_period_hour_id' <= now'
      /\ dpc' \notin {"off", "period", "clock"} =>
            time_period_hour_id' <= last_hour' /\ last_hour' <= now'
  <2>1. /\ dpc \notin {"off", "period"} => time_period_hour_id <= now
        /\ dpc \notin {"off", "period", "clock"} =>
              time_period_hour_id <= last_hour /\ last_hour <= now
    BY DEF ClockInv
  <2>2. CASE InitialPeriod
    BY <2>2, <1>t DEF InitialPeriod, DaemonGoes
  <2>3. CASE InitialClock
    BY <2>3, <2>1, <1>t DEF InitialClock, DaemonGoes
  <2>4. CASE Poll
    BY <2>4, <2>1, <1>t DEF Poll, DaemonGoes
  <2>5. CASE StartDaemon
    BY <2>5 DEF StartDaemon, DaemonGoes
  <2>6. CASE /\ UNCHANGED <<last_hour, time_period_hour_id>>
             /\ dpc' \notin {"off", "period", "clock"} => dpc \notin {"off", "period", "clock"}
             /\ dpc' \notin {"off", "period"} => dpc \notin {"off", "period"}
    BY <2>6, <2>1, <1>t, Times
  <2>7. [Next]_vars => \/ InitialPeriod \/ InitialClock \/ Poll \/ StartDaemon
                       \/ /\ UNCHANGED <<last_hour, time_period_hour_id>>
                          /\ dpc' \notin {"off", "period", "clock"} => dpc \notin {"off", "period", "clock"}
                          /\ dpc' \notin {"off", "period"} => dpc \notin {"off", "period"}
    BY DEF Next, Daemon, Control, Environment, vars, daemon, DaemonGoes, StartControl,
         ReadCalls, WriteBookmark, WriteCalls,
         WriteFails, NextHour, OlderHours, ControlEnds, ReadHour, WriteHour,
         WriteHourFails, MarkHour, StoreCall, StoreOverlapping, Commit, Tick,
         ReadFails, KillDaemon, StopControl
  <2> QED
    BY <2>2, <2>3, <2>4, <2>5, <2>6, <2>7
<1>5. /\ cpc' # "off" => \A t \in todo' : t.hour < now'
      /\ cpc' \in {"read", "write", "mark"} => chour' < now'
  <2>0. /\ cpc # "off" => \A t \in todo : t.hour < now
        /\ cpc \in {"read", "write", "mark"} => chour < now
    BY DEF ClockInv
  <2>1. CASE StartControl
    <3> DEFINE R == Rows(0..(now - 1))
    <3>1. CASE R = {}
      BY <3>1, <2>1 DEF StartControl, Missing
    <3>2. CASE R # {}
      <4>1. R \in SUBSET Nat
        BY <1>t DEF Rows
      <4>2. Min(R) \in Nat
        BY <3>2, <4>1, MinOfNumbers
      <4>3. \A t \in Missing : t.hour < now
        BY <3>2, <4>2, <1>t DEF Missing
      <4> QED
        BY <2>1, <4>3 DEF StartControl
    <3> QED
      BY <3>1, <3>2
  <2>2. CASE OlderHours
    <3> DEFINE C == {calls[c].hour : c \in committed}
    <3>1. CASE committed = {}
      BY <2>2, <3>1 DEF OlderHours
    <3>2. CASE committed # {}
      <4>1. PICK r \in Rows(Hours) : r <= now
        BY <2>2, <1>t, <1>n DEF OlderHours, ClockInv, RowsInv, Rows
      <4>2. Rows(Hours) \in SUBSET Nat /\ Rows(Hours) # {}
        BY <4>1, Known DEF Rows
      <4>3. Min(Rows(Hours)) <= now /\ Min(Rows(Hours)) \in Nat
        BY <4>1, <4>2, MinOfNumbers, <1>t
      <4>4. C \in SUBSET Nat /\ C # {}
        BY <3>2, Known
      <4>5. Min(C) \in Nat
        BY <4>4, MinOfNumbers
      <4>6. todo' = {[hour |-> h, from |-> 0] : h \in Min(C)..(Min(Rows(Hours)) - 1)}
        BY <2>2, <3>2 DEF OlderHours
      <4>7. \A t \in todo' : t.hour < now
        BY <4>3, <4>5, <4>6, <1>t
      <4> QED
        BY <2>2, <4>7 DEF OlderHours
    <3> QED
      BY <3>1, <3>2
  <2>3. CASE NextHour
    BY <2>3, <2>0 DEF NextHour
  <2>4. CASE Tick
    <3>1. now' = now + 1 /\ UNCHANGED <<cpc, todo, chour>>
      BY <2>4 DEF Tick, control
    <3> QED
      BY <3>1, <2>0, <1>t, Times, Known, <1>n
  <2>5. CASE /\ UNCHANGED <<now, todo, chour>>
             /\ cpc' # "off" => cpc # "off"
             /\ cpc' \in {"read", "write", "mark"} => cpc \in {"read", "write", "mark"}
    BY <2>5, <2>0
  <2>6. \/ StartControl \/ OlderHours \/ NextHour \/ Tick
        \/ /\ UNCHANGED <<now, todo, chour>>
           /\ cpc' # "off" => cpc # "off"
           /\ cpc' \in {"read", "write", "mark"} => cpc \in {"read", "write", "mark"}
    BY DEF Next, Daemon, Control, Environment, vars, control, StartDaemon,
         InitialPeriod, InitialClock, Poll, ReadCalls, WriteBookmark, WriteCalls,
         WriteFails, ControlEnds, ReadHour, WriteHour,
         WriteHourFails, MarkHour, StoreCall, StoreOverlapping, Commit,
         ReadFails, KillDaemon, StopControl
  <2> QED
    BY <2>1, <2>2, <2>3, <2>4, <2>5, <2>6
<1> QED
  BY <1>1, <1>2, <1>3, <1>4, <1>5 DEF ClockInv

\* At first the daemon has its row if it runs.
LEMMA RowsInit == Init => RowsInv
  BY ConstAssumption DEF Init, RowsInv, NoRows, WithRows, Hours

\* Rows never go away.
LEMMA RowsNext ==
    ASSUME TypeOK, TypeOK', ClockInv, RowsInv, [Next]_vars
    PROVE  RowsInv'
<1>1. ASSUME cpc' # "off"
      PROVE  \E h \in Hours : period'[h].st # "absent"
  <2>1. CASE cpc # "off"
    BY <2>1, RowsOnlyGrow DEF RowsInv
  <2>2. CASE StartControl
    BY <2>2 DEF StartControl, Rows
  <2>3. cpc' # "off" => cpc # "off" \/ StartControl
    BY DEF Next, Daemon, Control, Environment, vars, control, StartDaemon,
         InitialPeriod, InitialClock, Poll, ReadCalls, WriteBookmark, WriteCalls,
         WriteFails, NextHour, OlderHours, ControlEnds, ReadHour, WriteHour, Tick,
         WriteHourFails, MarkHour, StoreCall, StoreOverlapping, Commit,
         ReadFails, KillDaemon, StopControl
  <2> QED
    BY <1>1, <2>1, <2>2, <2>3
<1>2. ASSUME dpc' \notin {"off", "period"}
      PROVE  period'[time_period_hour_id'].st # "absent"
  <2>n. now \in Hours /\ time_period_hour_id \in Hours /\ period[now].st \in {"absent", "open", "finished"}
    BY Known
  <2>1. CASE InitialPeriod
    <3>1. time_period_hour_id' = now /\ RowTaken(now)
      BY <2>1, <2>n, InitialPeriodRow DEF InitialPeriod
    <3> QED
      BY <3>1, <2>n DEF RowTaken
  <2>2. CASE Poll /\ now # last_hour
    <3>1. time_period_hour_id' = now /\ RowTaken(now)
      BY <2>2, <2>n, PollRow DEF Poll
    <3> QED
      BY <3>1, <2>n DEF RowTaken
  <2>3. CASE UNCHANGED time_period_hour_id /\ dpc \notin {"off", "period"}
    <3>1. period[time_period_hour_id].st # "absent"
      BY <2>3 DEF RowsInv
    <3>2. period'[time_period_hour_id].st # "absent"
      BY <3>1, <2>n, RowsOnlyGrow
    <3> QED
      BY <3>2, <2>3
  <2>4. \/ InitialPeriod \/ (Poll /\ now # last_hour)
        \/ UNCHANGED time_period_hour_id /\ (dpc' \notin {"off", "period"} => dpc \notin {"off", "period"})
    BY DEF Next, Daemon, Control, Environment, vars, daemon, DaemonGoes, StartDaemon,
         StartControl, InitialClock, Poll, ReadCalls, WriteBookmark, WriteCalls,
         WriteFails, NextHour, OlderHours, ControlEnds, ReadHour, WriteHour, Tick,
         WriteHourFails, MarkHour, StoreCall, StoreOverlapping, Commit,
         ReadFails, KillDaemon, StopControl
  <2> QED
    BY <1>2, <2>1, <2>2, <2>3, <2>4
<1> QED
  BY <1>1, <1>2 DEF RowsInv

\* The programs hold calls only while they are at it; the first poll looks
\* in the hour of the daemon.
HandsInv ==
    /\ dpc \notin {"bookmark", "write"} => batch = {}
    /\ cpc # "write" => cbatch = {}
    /\ \A c \in cbatch : calls[c].hour = chour
    /\ \A c \in batch : c <= last_call_id
    /\ dpc \in {"period", "clock"} => first_run
    /\ dpc \in {"bookmark", "write"} => ~first_run
    /\ dpc \notin {"off", "period"} /\ first_run => stopped.hour = time_period_hour_id

\* A bookmark is the id of a call, the daemon has read as far as the bookmark
\* of its hour, and later hours have none.
LastInv ==
    /\ \A h \in Hours : period[h].st = "absent" => period[h].last = 0
    /\ \A h \in Hours : period[h].last \in committed \cup {0}
    /\ last_call_id \in committed \cup {0}
    /\ dpc = "period" =>
          \A h \in Hours : last_call_id = 0 \/ period[h].last <= last_call_id
    /\ dpc \notin {"off", "period"} =>
          /\ \A h \in Hours : h > time_period_hour_id => period[h].last = 0
          /\ last_call_id = 0 \/ period[time_period_hour_id].last <= last_call_id
          /\ first_run => period[time_period_hour_id].last <= stopped.id

\* At first nobody holds a call.
LEMMA HandsInit == Init => HandsInv
  BY DEF Init, HandsInv

\* No step leaves calls in the hands of a program that is not at it.
LEMMA HandsNext ==
    ASSUME TypeOK, TypeOK', HandsInv, [Next]_vars
    PROVE  HandsInv'
<1>0. CASE UNCHANGED vars
  BY <1>0 DEF vars, db, daemon, control, HandsInv
<1>1. CASE StartDaemon
  BY <1>1 DEF StartDaemon, DaemonGoes, HandsInv, db, control
<1>2. CASE InitialPeriod
  BY <1>2 DEF InitialPeriod, DaemonGoes, HandsInv, db, control, StoppedAt
<1>3. CASE InitialClock
  BY <1>3 DEF InitialClock, DaemonGoes, HandsInv, db, control
<1>4. CASE Poll
  BY <1>4 DEF Poll, DaemonGoes, HandsInv, db, control, StoppedAt
<1>5. CASE ReadCalls
  <2>1. batch' \subseteq committed
    BY <1>5 DEF ReadCalls, NewCalls
  <2>2. {last_call_id} \cup batch' \in SUBSET (0..MaxCalls)
    BY <2>1, Known
  <2>3. \A c \in batch' : c <= last_call_id'
    BY <1>5, <2>2, MaxIdOf DEF ReadCalls
  <2> QED
    BY <1>5, <2>3 DEF ReadCalls, DaemonGoes, HandsInv, db, control
<1>6. CASE WriteBookmark
  BY <1>6 DEF WriteBookmark, DaemonGoes, HandsInv, db, control
<1>7. CASE WriteCalls
  BY <1>7 DEF WriteCalls, DaemonGoes, HandsInv, db, control
<1>8. CASE WriteFails
  BY <1>8 DEF WriteFails, DaemonGoes, HandsInv, db, control
<1>9. CASE StartControl
  BY <1>9 DEF StartControl, HandsInv, db, daemon
<1>10. CASE NextHour
  BY <1>10 DEF NextHour, HandsInv, db, daemon
<1>11. CASE OlderHours
  BY <1>11 DEF OlderHours, HandsInv, db, daemon
<1>12. CASE ControlEnds
  BY <1>12 DEF ControlEnds, HandsInv, db, daemon
<1>13. CASE ReadHour
  BY <1>13 DEF ReadHour, HandsInv, db, daemon
<1>14. CASE WriteHour
  BY <1>14 DEF WriteHour, HandsInv, db, daemon
<1>15. CASE WriteHourFails
  BY <1>15 DEF WriteHourFails, HandsInv, db, daemon
<1>16. CASE MarkHour
  BY <1>16 DEF MarkHour, HandsInv, db, daemon
<1>17. CASE Tick
  BY <1>17 DEF Tick, HandsInv, db, daemon, control
<1>18. CASE StoreCall \/ StoreOverlapping
  <2>1. \A c \in cbatch : calls'[c] = calls[c]
    BY Known, CallsStay DEF TypeOK
  <2> QED
    BY <1>18, <2>1 DEF StoreCall, StoreOverlapping, HandsInv, daemon, control
<1>20. CASE Commit
  BY <1>20 DEF Commit, HandsInv, daemon, control
<1>21. CASE ReadFails
  BY <1>21 DEF ReadFails, DaemonGoes, HandsInv, db, control
<1>22. CASE KillDaemon
  BY <1>22 DEF KillDaemon, DaemonGoes, HandsInv, db, control
<1>23. CASE StopControl
  BY <1>23 DEF StopControl, HandsInv, db, daemon
<1> QED
  BY <1>0, <1>1, <1>2, <1>3, <1>4, <1>5, <1>6, <1>7, <1>8, <1>9, <1>10, <1>11, <1>12,
     <1>13, <1>14, <1>15, <1>16, <1>17, <1>18, <1>20, <1>21, <1>22, <1>23
     DEF Next, Daemon, Control, Environment

\* Only WriteBookmark moves a bookmark, that of the daemon's hour.
LEMMA BookmarksMove ==
    ASSUME TypeOK, ClockInv, LastInv, [Next]_vars, NEW h \in Hours
    PROVE  \/ period'[h].last = period[h].last
           \/ /\ WriteBookmark /\ h = time_period_hour_id /\ last_call_id # 0
              /\ period'[h].last = last_call_id
<1>0. period[h].st = "absent" => period[h].last = 0
  BY DEF LastInv
<1>1. CASE InitialPeriod
  BY <1>0, <1>1, InitialPeriodRow DEF RowTaken, RowKept
<1>2. CASE Poll
  BY <1>0, <1>2, PollRow DEF RowTaken, RowKept, RowMarked
<1>3. CASE ReadCalls
  BY <1>0, <1>3, ReadCallsRow DEF RowTaken, RowKept
<1>4. CASE WriteBookmark
  BY <1>0, <1>4, BookmarkRow DEF RowKept
<1>5. CASE NextHour
  BY <1>0, <1>5, NextHourRow DEF RowTaken, RowKept
<1>6. CASE MarkHour
  BY <1>0, <1>6, MarkHourRow DEF RowMarked, RowKept
<1>7. CASE OtherSteps
  BY <1>7, OtherRows
<1> QED
  BY <1>1, <1>2, <1>3, <1>4, <1>5, <1>6, <1>7, Steps

\* A call that was committed remains so.
LEMMA CommitsStay ==
    ASSUME TypeOK, [Next]_vars
    PROVE  committed \subseteq committed'
<1>1. CASE Commit
  BY <1>1, Known DEF Commit
<1>2. CASE StoreCall
  BY <1>2 DEF StoreCall
<1>3. Commit \/ StoreCall \/ UNCHANGED committed
  BY DEF Next, Daemon, Control, Environment, vars, db, StartDaemon, StartControl,
         InitialPeriod, InitialClock, Poll, ReadCalls, WriteBookmark, WriteCalls,
         WriteFails, NextHour, OlderHours, ControlEnds, ReadHour, WriteHour,
         WriteHourFails, MarkHour, Tick, StoreOverlapping, ReadFails, KillDaemon,
         StopControl
<1> QED
  BY <1>1, <1>2, <1>3

\* At first there is no bookmark.
LEMMA LastInit == Init => LastInv
  BY ConstAssumption DEF Init, LastInv, NoRows, WithRows, Hours

\* Bookmarks stay ids of calls that the daemon has passed.
LEMMA LastNext ==
    ASSUME TypeOK, TypeOK', ClockInv, RowsInv, HandsInv, LastInv, [Next]_vars
    PROVE  LastInv'
<1>n. /\ \A h \in Hours : h \in Nat /\ period[h].last \in Nat
      /\ \A h \in Hours : period'[h].last \in Nat
      /\ now \in Nat /\ time_period_hour_id \in Nat /\ last_call_id \in Nat /\ stopped.id \in Nat
      /\ now \in Hours /\ time_period_hour_id \in Hours
  <2>1. \A h \in Hours : period'[h].last \in 0..MaxCalls
    BY Known DEF TypeOK, Row
  <2> QED
    BY <2>1, Known, Times
<1>c. committed \subseteq committed'
  BY CommitsStay
<1>1. ASSUME NEW h \in Hours, period'[h].st = "absent"
      PROVE  period'[h].last = 0
  <2>1. period[h].st = "absent" /\ period[h].last = 0
    BY <1>1, RowsOnlyGrow DEF LastInv
  <2>2. ~(WriteBookmark /\ h = time_period_hour_id)
    BY <2>1 DEF WriteBookmark, RowsInv
  <2> QED
    BY <2>1, <2>2, BookmarksMove
<1>2. ASSUME NEW h \in Hours
      PROVE  period'[h].last \in committed' \cup {0}
  BY <1>c, BookmarksMove DEF LastInv
<1>3. last_call_id' \in committed' \cup {0}
  <2>1. CASE StartDaemon
    <3>1. MaxId(committed) \in committed \cup {0}
      BY MaxIdOf, Known
    <3> QED
      BY <2>1, <3>1, <1>c DEF StartDaemon
  <2>2. CASE ReadCalls
    <3>1. batch' \subseteq committed
      BY <2>2 DEF ReadCalls, NewCalls
    <3>2. {last_call_id} \cup batch' \in SUBSET (0..MaxCalls)
      BY <3>1, Known
    <3>3. last_call_id' \in ({last_call_id} \cup batch') \cup {0}
      BY <2>2, <3>2, MaxIdOf DEF ReadCalls
    <3> QED
      BY <3>1, <3>3, <1>c DEF LastInv
  <2>3. StartDaemon \/ ReadCalls \/ UNCHANGED last_call_id
    BY DEF Next, Daemon, Control, Environment, vars, daemon, StartControl,
         InitialPeriod, InitialClock, Poll, WriteBookmark, WriteCalls,
         WriteFails, NextHour, OlderHours, ControlEnds, ReadHour, WriteHour,
         WriteHourFails, MarkHour, Tick, StoreCall, StoreOverlapping, Commit, ReadFails,
         KillDaemon, StopControl
  <2> QED
    BY <2>1, <2>2, <2>3, <1>c DEF LastInv
<1>4. ASSUME dpc' = "period", NEW h \in Hours
      PROVE  last_call_id' = 0 \/ period'[h].last <= last_call_id'
  <2>1. CASE StartDaemon
    <3>1. \A c \in committed : c <= MaxId(committed)
      BY MaxIdOf, Known
    <3>2. MaxId(committed) \in Nat
      BY MaxIdOf, Known
    <3>3. period'[h].last = period[h].last /\ period[h].last \in committed \cup {0}
      BY <2>1 DEF StartDaemon, LastInv
    <3>4. last_call_id' = 0 \/ last_call_id' = MaxId(committed)
      BY <2>1 DEF StartDaemon
    <3> QED
      BY <3>1, <3>2, <3>3, <3>4
  <2>2. CASE dpc = "period" /\ UNCHANGED last_call_id
    BY <2>2, BookmarksMove DEF LastInv, WriteBookmark
  <2>3. StartDaemon \/ (dpc' = "period" => dpc = "period" /\ UNCHANGED last_call_id)
    BY DEF Next, Daemon, Control, Environment, vars, daemon, DaemonGoes, StartControl,
         InitialPeriod, InitialClock, Poll, ReadCalls, WriteBookmark, WriteCalls,
         WriteFails, NextHour, OlderHours, ControlEnds, ReadHour, WriteHour,
         WriteHourFails, MarkHour, Tick, StoreCall, StoreOverlapping, Commit, ReadFails,
         KillDaemon, StopControl
  <2> QED
    BY <1>4, <2>1, <2>2, <2>3
<1>5. ASSUME dpc' \notin {"off", "period"}
      PROVE  /\ \A h \in Hours : h > time_period_hour_id' => period'[h].last = 0
             /\ \/ last_call_id' = 0
                \/ period'[time_period_hour_id'].last <= last_call_id'
             /\ first_run' => period'[time_period_hour_id'].last <= stopped'.id
  <2>l. \A h \in Hours : h > now => period[h].last = 0
    BY DEF ClockInv, LastInv
  <2>1. CASE InitialPeriod
    <3>1. \A h \in Hours : period'[h].last = period[h].last
      BY <2>1, BookmarksMove DEF InitialPeriod, WriteBookmark
    <3>2. /\ time_period_hour_id' = now /\ UNCHANGED last_call_id /\ dpc = "period"
          /\ stopped'.id = IF period'[now].last = 0 THEN stopped.id ELSE period'[now].last
      BY <2>1 DEF InitialPeriod, StoppedAt
    <3> QED
      BY <3>1, <3>2, <2>l, <1>n DEF LastInv
  <2>2. CASE Poll
    <3>1. \A h \in Hours : period'[h].last = period[h].last
      BY <2>2, BookmarksMove DEF Poll, WriteBookmark
    <3>2. dpc = "top" /\ UNCHANGED <<last_call_id, first_run>>
      BY <2>2 DEF Poll
    <3>3. CASE now = last_hour
      BY <2>2, <3>1, <3>2, <3>3, <1>n DEF Poll, LastInv
    <3>4. CASE now # last_hour
      <4>1. time_period_hour_id < now /\ time_period_hour_id' = now
        BY <2>2, <3>4, PollRow, <1>n DEF Poll
      <4>2. stopped'.id = IF period'[now].last = 0 THEN stopped.id ELSE period'[now].last
        BY <2>2, <3>4 DEF Poll, StoppedAt
      <4>3. period'[now].last = 0
        BY <3>1, <3>2, <4>1, <1>n DEF LastInv
      <4> QED
        BY <3>1, <3>2, <4>1, <4>2, <4>3, <2>l, <1>n
    <3> QED
      BY <3>3, <3>4
  <2>3. CASE ReadCalls
    <3>1. \A h \in Hours : period'[h].last = period[h].last
      BY <2>3, BookmarksMove DEF ReadCalls, WriteBookmark
    <3>2. dpc = "read" /\ UNCHANGED time_period_hour_id /\ first_run' = FALSE
      BY <2>3 DEF ReadCalls
    <3>3. batch' \subseteq committed
      BY <2>3 DEF ReadCalls, NewCalls
    <3>4. {last_call_id} \cup batch' \in SUBSET (0..MaxCalls)
      BY <3>3, Known
    <3>5. /\ \A n \in {last_call_id} \cup batch' : n <= last_call_id'
          /\ last_call_id' \in {last_call_id} \cup batch' \cup {0} /\ last_call_id' \in Nat
      BY <2>3, <3>4, MaxIdOf DEF ReadCalls
    <3>6. first_run => \A c \in batch' : c > stopped.id
      BY <2>3 DEF ReadCalls, NewCalls
    <3>7. ~first_run => \A c \in batch' : c > last_call_id
      BY <2>3 DEF ReadCalls, NewCalls
    <3>8. last_call_id' = 0 \/ period[time_period_hour_id].last <= last_call_id'
      <4>1. CASE last_call_id # 0
        <5>1. period[time_period_hour_id].last <= last_call_id
          BY <4>1, <3>2 DEF LastInv
        <5>2. last_call_id <= last_call_id'
          BY <3>5
        <5> QED
          BY <5>1, <5>2, <3>5, <1>n
      <4>2. CASE last_call_id = 0 /\ first_run
        <5>1. period[time_period_hour_id].last <= stopped.id
          BY <4>2, <3>2 DEF LastInv
        <5>2. last_call_id' = 0 \/ last_call_id' > stopped.id
          BY <3>5, <3>6, <4>2
        <5> QED
          BY <5>1, <5>2, <3>5, <1>n
      <4>3. CASE last_call_id = 0 /\ ~first_run
        <5>1. \A c \in committed : c \in Nat /\ c > 0
          BY Known
        <5>2. batch' = committed
          BY <2>3, <4>3, <5>1 DEF ReadCalls, NewCalls
        <5>3. period[time_period_hour_id].last \in committed \cup {0}
          BY <1>n DEF LastInv
        <5> QED
          BY <5>2, <5>3, <3>5, <1>n
      <4> QED
        BY <4>1, <4>2, <4>3
    <3> QED
      BY <3>1, <3>2, <3>8, <1>n DEF LastInv
  <2>4. CASE WriteBookmark
    <3>1. \A h \in Hours : \/ period'[h].last = period[h].last
                          \/ /\ h = time_period_hour_id /\ last_call_id # 0
                             /\ period'[h].last = last_call_id
      BY <2>4, BookmarksMove
    <3>2. dpc = "bookmark" /\ UNCHANGED <<time_period_hour_id, first_run, last_call_id>>
      BY <2>4 DEF WriteBookmark
    <3>3. ~first_run
      BY <3>2 DEF HandsInv
    <3> QED
      BY <3>1, <3>2, <3>3, <1>n DEF LastInv
  <2>5. CASE /\ ~WriteBookmark /\ dpc \notin {"off", "period"}
             /\ UNCHANGED <<time_period_hour_id, last_call_id, stopped>>
             /\ first_run' => first_run
    <3>1. \A h \in Hours : period'[h].last = period[h].last
      BY <2>5, BookmarksMove
    <3> QED
      BY <3>1, <2>5, <1>n DEF LastInv
  <2>6. \/ InitialPeriod \/ Poll \/ ReadCalls \/ WriteBookmark
        \/ dpc' \in {"off", "period"}
        \/ /\ dpc \notin {"off", "period"}
           /\ UNCHANGED <<time_period_hour_id, last_call_id, stopped>>
           /\ first_run' => first_run
    BY DEF Next, Daemon, Control, Environment, vars, daemon, DaemonGoes, StartDaemon,
         StartControl, InitialClock, WriteCalls,
         WriteFails, NextHour, OlderHours, ControlEnds, ReadHour, WriteHour,
         WriteHourFails, MarkHour, Tick, StoreCall, StoreOverlapping, Commit, ReadFails,
         KillDaemon, StopControl
  <2> QED
    BY <1>5, <2>1, <2>2, <2>3, <2>4, <2>5, <2>6
<1> QED
  BY <1>1, <1>2, <1>3, <1>4, <1>5 DEF LastInv

\* What holds whatever happens.
BaseInv == TypeOK /\ ClockInv /\ RowsInv /\ HandsInv /\ LastInv

\* The parts of BaseInv are inductive together.
LEMMA BaseNext == BaseInv /\ [Next]_vars => BaseInv'
<1> SUFFICES ASSUME BaseInv, [Next]_vars PROVE BaseInv'
  OBVIOUS
<1>0. TypeOK /\ ClockInv /\ RowsInv /\ HandsInv /\ LastInv
  BY DEF BaseInv
<1>1. cpc # "off" => Rows(Hours) # {}
  BY <1>0 DEF RowsInv, Rows
<1>2. TypeOK'
  BY <1>0, <1>1, TypeNext
<1>3. ClockInv' /\ RowsInv' /\ HandsInv' /\ LastInv'
  BY <1>0, <1>2, ClockNext, RowsNext, HandsNext, LastNext
<1> QED
  BY <1>2, <1>3 DEF BaseInv

\* BaseInv holds whatever happens.
LEMMA Based == Spec => []BaseInv
<1>1. Init => BaseInv
  BY TypeInit, ClockInit, RowsInit, HandsInit, LastInit DEF BaseInv
<1> QED
  BY <1>1, BaseNext, PTL DEF Spec

\* Every variable keeps its type, and what a program holds has been committed,
\* whatever happens.
THEOREM TypeCorrect == Spec => []TypeOK
<1>1. BaseInv => TypeOK
  BY DEF BaseInv
<1> QED
  BY <1>1, Based, PTL

\* Whatever happens, the bookmark of an hour never moves back: a restart does
\* not read again what an earlier poll of the hour had read.
THEOREM BookmarksStay == Spec => BookmarkNeverMovesBack
<1>1. BaseInv /\ [Next]_vars => [\A h \in Hours : period'[h].last >= period[h].last]_vars
  <2> SUFFICES ASSUME BaseInv, [Next]_vars, NEW h \in Hours
               PROVE  period'[h].last >= period[h].last
    OBVIOUS
  <2>0. /\ TypeOK /\ ClockInv /\ LastInv /\ TypeOK'
    BY BaseNext DEF BaseInv
  <2>1. period[h].last \in Nat /\ last_call_id \in Nat
    BY <2>0, Known
  <2>2. CASE period'[h].last = period[h].last
    BY <2>1, <2>2
  <2>3. CASE /\ WriteBookmark /\ h = time_period_hour_id /\ last_call_id # 0
             /\ period'[h].last = last_call_id
    <3>1. dpc = "bookmark"
      BY <2>3 DEF WriteBookmark
    <3>2. period[h].last <= last_call_id
      BY <2>0, <2>3, <3>1 DEF LastInv
    <3> QED
      BY <2>3, <3>2, <2>1
  <2> QED
    BY <2>0, <2>2, <2>3, BookmarksMove
<1> QED
  BY <1>1, Based, PTL DEF Spec, BookmarkNeverMovesBack

\* What holds as long as some events have not happened: ids become visible in
\* their order, no statement fails, no call is made in the first second of an
\* hour.
QuietInv ==
    /\ "overlap" \notin Happened => committed = 1..Len(calls)
    /\ "sql" \notin Happened => ~broken /\ ~cbroken
    /\ "sharp" \notin Happened => \A c \in 1..Len(calls) : ~calls[c].sharp
    /\ \A c \in Ids : c > Len(calls) => counted[c] = 0

\* The daemon polls in every hour it lives in, and the hour changes during a
\* poll only by the event of that name.
PollInv ==
    "startup" \notin Happened =>
        /\ dpc = "clock" => time_period_hour_id = now
        /\ dpc \notin {"off", "period", "clock"} =>
              /\ last_hour = time_period_hour_id
              /\ now \in {last_hour, last_hour + 1}
              /\ dpc = "top" /\ first_run => now = last_hour
              /\ dpc # "top" /\ now # last_hour => "boundary" \in Happened

\* Counts only grow, by what is written.
LEMMA CountsGrow ==
    ASSUME TypeOK, [Next]_vars, NEW c \in Ids
    PROVE  /\ counted[c] \in Nat /\ counted'[c] \in Nat
           /\ \/ counted'[c] = counted[c]
              \/ /\ counted'[c] = counted[c] + 1
                 /\ \/ WriteCalls /\ c \in batch \ batch'
                    \/ WriteHour /\ c \in cbatch \ cbatch'
<1>0. counted[c] \in Nat
  BY DEF TypeOK
<1>1. CASE WriteCalls
  <2>1. PICK S \in Statements(batch) : counted' = Add(S) /\ batch' = batch \ S
    BY <1>1 DEF WriteCalls
  <2>2. S \subseteq batch
    BY DEF Statements
  <2>3. counted'[c] = counted[c] + IF c \in S THEN 1 ELSE 0
    BY <2>1 DEF Add
  <2> QED
    BY <1>0, <1>1, <2>1, <2>2, <2>3
<1>2. CASE WriteHour
  <2>1. PICK S \in Statements(cbatch) : counted' = Add(S) /\ cbatch' = cbatch \ S
    BY <1>2 DEF WriteHour
  <2>2. S \subseteq cbatch
    BY DEF Statements
  <2>3. counted'[c] = counted[c] + IF c \in S THEN 1 ELSE 0
    BY <2>1 DEF Add
  <2> QED
    BY <1>0, <1>2, <2>1, <2>2, <2>3
<1>3. WriteCalls \/ WriteHour \/ UNCHANGED counted
  BY DEF Next, Daemon, Control, Environment, vars, StartDaemon, StartControl,
         InitialPeriod, InitialClock, Poll, ReadCalls, WriteBookmark,
         WriteFails, NextHour, OlderHours, ControlEnds, ReadHour,
         WriteHourFails, MarkHour, Tick, StoreCall, StoreOverlapping, Commit, ReadFails,
         KillDaemon, StopControl
<1> QED
  BY <1>0, <1>1, <1>2, <1>3

\* At first nothing irregular has happened.
LEMMA QuietInit == Init => QuietInv /\ PollInv
<1> SUFFICES ASSUME Init PROVE QuietInv /\ PollInv
  OBVIOUS
<1>1. Len(calls) = 0 /\ committed = {}
  BY DEF Init
<1> QED
  BY <1>1 DEF Init, QuietInv, PollInv

\* QuietInv is inductive.
LEMMA QuietNext ==
    ASSUME BaseInv, QuietInv, [Next]_vars
    PROVE  QuietInv'
<1>0. TypeOK /\ TypeOK' /\ Happened \subseteq Happened'
  BY BaseNext, HistoryGrows DEF BaseInv, TypeOK
<1>1. ASSUME "overlap" \notin Happened'
      PROVE  committed' = 1..Len(calls')
  <2>1. committed = 1..Len(calls)
    BY <1>0, <1>1 DEF QuietInv
  <2>2. CASE StoreCall
    <3>1. committed' = committed \cup {Len(calls')}
      BY <2>2 DEF StoreCall
    <3>2. Len(calls') = Len(calls) + 1 /\ Len(calls) \in Nat
      BY <2>2, <1>0, CallsGrow
    <3> QED
      BY <2>1, <3>1, <3>2
  <2>3. CASE Commit
    BY <2>3 DEF Commit
  <2>4. ~StoreOverlapping
    BY <1>1, EventHappens DEF StoreOverlapping
  <2>5. StoreCall \/ StoreOverlapping \/ Commit \/ UNCHANGED <<calls, committed>>
    BY DEF Next, Daemon, Control, Environment, vars, db, StartDaemon, StartControl,
         InitialPeriod, InitialClock, Poll, ReadCalls, WriteBookmark, WriteCalls,
         WriteFails, NextHour, OlderHours, ControlEnds, ReadHour, WriteHour,
         WriteHourFails, MarkHour, Tick, ReadFails, KillDaemon, StopControl
  <2> QED
    BY <2>1, <2>2, <2>3, <2>4, <2>5
<1>2. ASSUME "sql" \notin Happened'
      PROVE  ~broken' /\ ~cbroken'
  <2>1. ~broken /\ ~cbroken
    BY <1>0, <1>2 DEF QuietInv
  <2>2. ~WriteFails /\ ~WriteHourFails
    BY <2>1, <1>2, EventHappens DEF WriteFails, WriteHourFails
  <2>3. \/ WriteFails \/ WriteHourFails \/ broken' = FALSE \/ UNCHANGED broken
    BY DEF Next, Daemon, Control, Environment, vars, daemon, StartDaemon, StartControl,
         InitialPeriod, InitialClock, Poll, ReadCalls, WriteBookmark, WriteCalls,
         NextHour, OlderHours, ControlEnds, ReadHour, WriteHour, Commit,
         MarkHour, Tick, StoreCall, StoreOverlapping, ReadFails, KillDaemon, StopControl
  <2>4. \/ WriteFails \/ WriteHourFails \/ cbroken' = FALSE \/ UNCHANGED cbroken
    BY DEF Next, Daemon, Control, Environment, vars, control, StartDaemon, StartControl,
         InitialPeriod, InitialClock, Poll, ReadCalls, WriteBookmark, WriteCalls,
         NextHour, OlderHours, ControlEnds, ReadHour, WriteHour, Commit,
         MarkHour, Tick, StoreCall, StoreOverlapping, ReadFails, KillDaemon, StopControl
  <2> QED
    BY <2>1, <2>2, <2>3, <2>4
<1>3. ASSUME "sharp" \notin Happened', NEW c \in 1..Len(calls')
      PROVE  ~calls'[c].sharp
  <2>1. CASE c \in 1..Len(calls)
    BY <2>1, <1>0, <1>3, CallsStay DEF QuietInv
  <2>2. CASE c \notin 1..Len(calls)
    <3>1. Stored(c)
      BY <2>2, <1>0, CallsStay
    <3> QED
      BY <3>1, <1>3, EventHappens DEF Stored
  <2> QED
    BY <2>1, <2>2
<1>4. ASSUME NEW c \in Ids, c > Len(calls')
      PROVE  counted'[c] = 0
  <2>1. Len(calls) <= Len(calls') /\ Len(calls) \in Nat /\ Len(calls') \in Nat
    BY <1>0, CallsStay
  <2>2. c > Len(calls) /\ c \notin 1..Len(calls)
    BY <1>4, <2>1 DEF Ids
  <2>3. counted[c] = 0 /\ c \notin batch /\ c \notin cbatch
    BY <2>2, <1>0 DEF QuietInv, TypeOK
  <2> QED
    BY <2>3, <1>0, CountsGrow
<1> QED
  BY <1>1, <1>2, <1>3, <1>4 DEF QuietInv

\* The daemon goes on polling in every hour.
LEMMA PollNext ==
    ASSUME BaseInv, PollInv, [Next]_vars, "startup" \notin Happened'
    PROVE  PollInv'
<1>0. /\ TypeOK /\ TypeOK' /\ Happened \subseteq Happened' /\ HandsInv
      /\ "startup" \notin Happened
  BY BaseNext, HistoryGrows DEF BaseInv, TypeOK
<1>n. now \in Nat /\ last_hour \in Nat /\ time_period_hour_id \in Nat
  BY <1>0, Times
<1>i. /\ dpc = "clock" => time_period_hour_id = now
      /\ dpc \notin {"off", "period", "clock"} =>
            /\ last_hour = time_period_hour_id
            /\ now \in {last_hour, last_hour + 1}
            /\ dpc = "top" /\ first_run => now = last_hour
            /\ dpc # "top" /\ now # last_hour => "boundary" \in Happened'
  BY <1>0 DEF PollInv
<1>1. CASE StartDaemon
  BY <1>1 DEF StartDaemon, DaemonGoes, PollInv
<1>2. CASE InitialPeriod
  BY <1>2 DEF InitialPeriod, DaemonGoes, PollInv
<1>3. CASE InitialClock
  BY <1>3, <1>i DEF InitialClock, DaemonGoes, PollInv
<1>4. CASE Poll
  BY <1>4, <1>i DEF Poll, DaemonGoes, PollInv
<1>5. CASE Tick
  <2>1. CASE Regular /\ (dpc = "off" \/ (dpc = "top" /\ ~first_run /\ last_hour = now))
    BY <1>5, <2>1, <1>i, <1>n DEF Tick, daemon, PollInv
  <2>2. CASE Event("boundary") /\ dpc \in {"read", "bookmark", "write"} /\ last_hour = now
    <3>1. "boundary" \in Happened'
      BY <2>2, EventHappens
    <3> QED
      BY <1>5, <2>2, <3>1, <1>i, <1>n DEF Tick, daemon, PollInv
  <2>3. ~Event("startup")
    BY <1>0, EventHappens
  <2> QED
    BY <1>5, <2>1, <2>2, <2>3 DEF Tick
<1>6. CASE ReadCalls \/ WriteBookmark \/ WriteCalls \/ WriteFails \/ ReadFails \/ KillDaemon
  <2>1. /\ UNCHANGED <<now, last_hour, time_period_hour_id>>
        /\ dpc \notin {"off", "period", "clock"} \/ dpc' = "off"
        /\ dpc' # "clock"
    BY <1>6 DEF ReadCalls, WriteBookmark, WriteCalls, WriteFails, ReadFails, KillDaemon, DaemonGoes
  <2>2. dpc' = "top" => ~first_run'
    BY <1>6, <1>0 DEF ReadCalls, WriteBookmark, WriteCalls, WriteFails, ReadFails, KillDaemon, DaemonGoes, HandsInv
  <2>3. dpc' \notin {"off", "top"} => dpc # "top"
    BY <1>6 DEF ReadCalls, WriteBookmark, WriteCalls, WriteFails, ReadFails, KillDaemon, DaemonGoes
  <2> QED
    BY <2>1, <2>2, <2>3, <1>i DEF PollInv
<1>7. CASE UNCHANGED <<now, last_hour, time_period_hour_id, dpc, first_run>>
  BY <1>7, <1>i DEF PollInv
<1>8. \/ StartDaemon \/ InitialPeriod \/ InitialClock \/ Poll \/ Tick \/ ReadCalls
      \/ WriteBookmark \/ WriteCalls \/ WriteFails \/ ReadFails \/ KillDaemon
      \/ UNCHANGED <<now, last_hour, time_period_hour_id, dpc, first_run>>
    BY DEF Next, Daemon, Control, Environment, vars, daemon, StartControl,
         NextHour, OlderHours, ControlEnds, ReadHour, WriteHour, WriteHourFails, Commit,
         MarkHour, StoreCall, StoreOverlapping, StopControl
<1> QED
  BY <1>1, <1>2, <1>3, <1>4, <1>5, <1>6, <1>7, <1>8

\* The events under which nobody repeats a call of an open hour.
Calm ==
    \/ Happened \subseteq {"late", "skip", "sharp", "boundary"}
    \/ Happened \subseteq {"late", "skip", "sharp", "stop", "kill", "race"}

\* The hour has changed during a poll.
Boundary == "boundary" \in Happened

\* The control program has read hour h and not yet marked it.
Marking(h) == chour = h /\ cpc \in {"write", "mark"}

\* Calls behind the bookmark of an open hour are not counted, nor in the hands
\* of the daemon unless it is about to move that bookmark.
Ahead ==
    \A c \in committed :
        LET h == calls[c].hour IN
        /\ period[h].st # "finished" /\ ~Marking(h)
        /\ Boundary => h < time_period_hour_id \/ first_run
        /\ c > period[h].last
        => /\ counted[c] = 0
           /\ c \in batch => dpc = "bookmark" /\ time_period_hour_id = h

\* The daemon has read beyond the calls of the open hours before its own.
Before(h) == h < IF dpc = "period" THEN now ELSE time_period_hour_id

\* The daemon has read every call of the hours behind it that are open.
Behind ==
    \A c \in committed :
        dpc # "off" /\ period[calls[c].hour].st # "finished" /\ Before(calls[c].hour)
        => c <= last_call_id

\* What is kept while it is calm.
CalmInv ==
    Calm => /\ Boundary => dpc \notin {"off", "period", "clock"}
            /\ Ahead
            /\ Behind

\* What is kept without any condition.
FirstInv == BaseInv /\ QuietInv /\ PollInv

\* Events that have not happened while it is calm.
LEMMA CalmMeans ==
    ASSUME Calm
    PROVE  /\ {"overlap", "sql", "startup", "gap", "abort"} \cap Happened = {}
           /\ Boundary => {"stop", "kill", "race"} \cap Happened = {}
  BY DEF Calm, Boundary

\* If it is calm after a step then it was before.
LEMMA CalmBefore ==
    ASSUME FirstInv, [Next]_vars
    PROVE  /\ Happened \subseteq Happened' /\ (Calm' => Calm) /\ (Boundary => Boundary')
           /\ BaseInv' /\ TypeOK /\ TypeOK' /\ ClockInv /\ RowsInv /\ HandsInv /\ LastInv
<1>1. BaseInv' /\ TypeOK /\ TypeOK' /\ ClockInv /\ RowsInv /\ HandsInv /\ LastInv
  BY BaseNext DEF FirstInv, BaseInv
<1>2. Happened \subseteq Happened'
  BY <1>1, HistoryGrows DEF TypeOK
<1> QED
  BY <1>1, <1>2 DEF Calm, Boundary

\* What cannot be while it is calm.
LEMMA CalmSteps ==
    ASSUME FirstInv, [Next]_vars, Calm'
    PROVE  /\ ~WriteFails /\ ~WriteHourFails /\ ~ReadFails /\ ~StopControl
           /\ ~StoreOverlapping /\ ~Commit
           /\ committed = 1..Len(calls)
           /\ WriteBookmark => period' = Bookmark /\ batch' = batch /\ dpc' # "off"
           /\ KillDaemon => ~Boundary
           /\ StartDaemon => last_call_id' = MaxId(committed)
           /\ Tick => \/ Regular /\ (dpc = "off" \/ (dpc = "top" /\ ~first_run /\ last_hour = now))
                      \/ Event("boundary") /\ dpc \in {"read", "bookmark", "write"}
<1>1. {"overlap", "sql", "startup", "gap", "abort"} \cap Happened' = {}
  BY DEF Calm
<1>2. \A k \in {"overlap", "sql", "startup", "gap", "abort"} : ~Event(k)
  BY <1>1, EventHappens
<1>3. Happened \subseteq Happened' /\ Calm /\ BaseInv /\ QuietInv
  BY CalmBefore DEF FirstInv
<1>4. ~broken /\ ~cbroken /\ committed = 1..Len(calls)
  BY <1>1, <1>3 DEF QuietInv
<1>5. ~WriteFails /\ ~WriteHourFails /\ ~ReadFails /\ ~StopControl /\ ~StoreOverlapping
  BY <1>2, <1>4 DEF WriteFails, WriteHourFails, ReadFails, StopControl, StoreOverlapping
<1>6. ~Commit
  BY <1>4 DEF Commit
<1>7. WriteBookmark => period' = Bookmark /\ batch' = batch /\ dpc' # "off"
  BY <1>2 DEF WriteBookmark, DaemonGoes
<1>8. KillDaemon => ~Boundary
  <2>1. KillDaemon => "kill" \in Happened' \/ "stop" \in Happened'
    BY EventHappens DEF KillDaemon
  <2> QED
    BY <2>1, <1>3 DEF Calm, Boundary
<1>9. StartDaemon => last_call_id' = MaxId(committed)
  BY <1>2 DEF StartDaemon
<1>10. Tick => \/ Regular /\ (dpc = "off" \/ (dpc = "top" /\ ~first_run /\ last_hour = now))
               \/ Event("boundary") /\ dpc \in {"read", "bookmark", "write"}
  BY <1>2 DEF Tick
<1> QED
  BY <1>4, <1>5, <1>6, <1>7, <1>8, <1>9, <1>10

\* Only the clock makes a boundary.
LEMMA BoundaryComes ==
    ASSUME TypeOK, [Next]_vars, ~Boundary, Boundary'
    PROVE  Tick /\ Event("boundary")
<1>1. ~Regular /\ events' # events
  BY NothingHappens DEF Boundary, Happened
<1>2. \A k \in Kinds \ {"boundary"} : ~Event(k)
  BY EventHappens DEF Boundary
<1>3. ~Event(Late(calls'[Len(calls')].hour))
  BY <1>2 DEF Late, Kinds
<1> QED
  BY <1>1, <1>2 DEF Next, Daemon, Control, Environment, vars, StartDaemon, StartControl,
         InitialPeriod, InitialClock, Poll, ReadCalls, WriteBookmark, WriteCalls,
         WriteFails, NextHour, OlderHours, ControlEnds, ReadHour, WriteHour,
         WriteHourFails, MarkHour, Tick, StoreCall, StoreOverlapping, Commit,
         ReadFails, KillDaemon, StopControl, Late, Kinds

\* What is to be shown of one call in Ahead and in Behind.
AheadOf(c) ==
    LET h == calls[c].hour IN
    /\ period[h].st # "finished" /\ ~Marking(h)
    /\ Boundary => h < time_period_hour_id \/ first_run
    /\ c > period[h].last
    => /\ counted[c] = 0
       /\ c \in batch => dpc = "bookmark" /\ time_period_hour_id = h

\* Once the hour has changed during a poll the daemon stays up while it is
\* calm.
LEMMA BoundaryUpNext ==
    ASSUME FirstInv, CalmInv, [Next]_vars, Calm', Boundary'
    PROVE  dpc' \notin {"off", "period", "clock"}
<1>1. CASE ~Boundary
  <2>1. Tick /\ Event("boundary")
    BY <1>1, BoundaryComes, CalmBefore
  <2>2. ~Regular
    <3>1. Happened' # Happened
      BY <1>1 DEF Boundary
    <3> QED
      BY <3>1, NothingHappens
  <2>3. dpc \in {"read", "bookmark", "write"} /\ dpc' = dpc
    BY <2>1, <2>2, CalmSteps DEF Tick, daemon
  <2> QED
    BY <2>3
<1>2. CASE Boundary
  <2>1. dpc \notin {"off", "period", "clock"}
    BY <1>2, CalmBefore DEF CalmInv
  <2>2. ~KillDaemon /\ ~WriteFails /\ ~ReadFails /\ (WriteBookmark => dpc' # "off")
    BY <1>2, CalmSteps
  <2> QED
    BY <2>1, <2>2 DEF Next, Daemon, Control, Environment, vars, daemon, DaemonGoes,
         StartDaemon, StartControl,
         InitialPeriod, InitialClock, Poll, ReadCalls, WriteBookmark, WriteCalls,
         NextHour, OlderHours, ControlEnds, ReadHour, WriteHour,
         WriteHourFails, MarkHour, Tick, StoreCall, StoreOverlapping, Commit,
         StopControl
<1> QED
  BY <1>1, <1>2

\* The calls of a poll that belong to open hours are of the daemon's hour,
\* unless the hour changes during the poll.
LEMMA PolledCalls ==
    ASSUME FirstInv, CalmInv, Calm, ReadCalls, NEW c \in batch',
           period[calls[c].hour].st # "finished"
    PROVE  /\ c \in committed /\ calls[c].hour >= time_period_hour_id
           /\ ~Boundary => calls[c].hour = time_period_hour_id
<1>0. TypeOK /\ ClockInv /\ HandsInv /\ PollInv
  BY DEF FirstInv, BaseInv
<1>1. /\ dpc = "read" /\ c \in committed
      /\ first_run => \/ calls[c].hour > stopped.hour
                      \/ calls[c].hour = stopped.hour
      /\ ~first_run => c > last_call_id
  BY DEF ReadCalls, NewCalls
<1>2. PICK h \in Nat : h = calls[c].hour /\ h <= now
  BY <1>0, <1>1, Known DEF ClockInv
<1>n. /\ time_period_hour_id \in Nat /\ now \in Nat /\ last_call_id \in Nat
      /\ stopped.hour \in Nat /\ c \in Nat /\ last_hour \in Nat
  BY <1>0, <1>1, Known, Times
<1>3. h >= time_period_hour_id
  <2>1. CASE first_run
    BY <2>1, <1>0, <1>1, <1>2, <1>n DEF HandsInv
  <2>2. CASE ~first_run
    <3>1. ~Before(h)
      BY <2>2, <1>1, <1>2, <1>n DEF CalmInv, Behind
    <3> QED
      BY <3>1, <1>1, <1>2, <1>n DEF Before
  <2> QED
    BY <2>1, <2>2
<1>4. ASSUME ~Boundary
      PROVE  now = time_period_hour_id
  BY <1>4, <1>0, <1>1, CalmMeans DEF PollInv, Boundary
<1> QED
  BY <1>1, <1>2, <1>3, <1>4, <1>n

\* No call beyond the bookmark of an open hour comes to be counted: the daemon
\* moves the bookmark before it writes, and the control program is at the hour
\* while it does.
LEMMA AheadNext ==
    ASSUME FirstInv, CalmInv, [Next]_vars, Calm', NEW c \in committed'
    PROVE  AheadOf(c)'
<1>0. /\ Calm /\ TypeOK /\ TypeOK' /\ ClockInv /\ RowsInv /\ HandsInv /\ LastInv
      /\ BaseInv' /\ QuietInv /\ PollInv /\ Ahead /\ Behind /\ (Boundary => Boundary')
      /\ Boundary => dpc \notin {"off", "period", "clock"}
  BY CalmBefore DEF CalmInv, FirstInv
<1>1. CASE c \notin committed
  <2>1. c \in Ids /\ c > Len(calls)
    <3>1. committed = 1..Len(calls) /\ c \in Ids /\ Len(calls) \in Nat
      <4>1. c \in 1..Len(calls') /\ Len(calls') \in Nat /\ Len(calls') <= MaxCalls
        BY <1>0 DEF TypeOK
      <4>2. c \in Ids
        BY <4>1, ConstAssumption DEF Ids
      <4> QED
        BY <4>2, <1>0, CalmSteps, Known
    <3> QED
      BY <3>1, <1>1 DEF Ids
  <2>2. counted[c] = 0 /\ c \notin batch /\ c \notin cbatch
    BY <2>1, <1>0, <1>1 DEF QuietInv, TypeOK
  <2>3. ~ReadCalls
    BY <1>1 DEF ReadCalls, db
  <2>4. c \notin batch'
    BY <2>2, <2>3 DEF Next, Daemon, Control, Environment, vars, daemon,
         StartDaemon, StartControl,
         InitialPeriod, InitialClock, Poll, WriteBookmark, WriteCalls, WriteFails,
         NextHour, OlderHours, ControlEnds, ReadHour, WriteHour, ReadFails, KillDaemon,
         WriteHourFails, MarkHour, Tick, StoreCall, StoreOverlapping, Commit,
         StopControl
  <2>5. counted'[c] = 0
    BY <2>1, <2>2, <1>0, CountsGrow
  <2> QED
    BY <2>4, <2>5 DEF AheadOf
<1>2. CASE c \in committed
  <2>c. c \in 1..Len(calls) /\ c \in Ids /\ calls'[c] = calls[c]
    BY <1>0, <1>2, Known, CallsStay
  <2> SUFFICES ASSUME NEW h \in Hours, h = calls[c].hour,
                      period'[h].st # "finished", ~Marking(h)',
                      Boundary' => h < time_period_hour_id' \/ first_run',
                      c > period'[h].last
               PROVE  /\ counted'[c] = 0
                      /\ c \in batch' => dpc' = "bookmark" /\ time_period_hour_id' = h
    BY <1>0, <2>c, Known DEF AheadOf, Marking
  <2>n. /\ now \in Nat /\ time_period_hour_id \in Nat /\ last_call_id \in Nat
        /\ h \in Nat /\ c \in Nat /\ period[h].last \in Nat /\ period'[h].last \in Nat
    <3>1. period'[h] \in Row
      BY <1>0 DEF TypeOK
    <3>2. period'[h].last \in 0..MaxCalls
      BY <3>1 DEF Row
    <3>3. period[h].last \in 0..MaxCalls /\ h \in Nat
      BY <1>0, Known
    <3> QED
      BY <1>0, <2>c, <3>2, <3>3, Times
  <2>1. period[h].st # "finished"
    BY <1>0, RowsOnlyGrow
  <2>2. c > period[h].last
    <3>1. CASE period'[h].last = period[h].last
      BY <3>1
    <3>2. CASE WriteBookmark /\ h = time_period_hour_id /\ period'[h].last = last_call_id /\ last_call_id # 0
      <4>1. period[h].last <= last_call_id
        BY <1>0, <3>2 DEF LastInv, WriteBookmark
      <4> QED
        BY <4>1, <3>2, <2>n
    <3> QED
      BY <1>0, <3>1, <3>2, BookmarksMove
  <2>3. ~Marking(h)
    <3>1. ASSUME Marking(h) PROVE FALSE
      <4>1. ~MarkHour
        <5>1. ASSUME MarkHour PROVE FALSE
          <6>1. h = chour /\ "sql" \notin Happened'
            BY <3>1 DEF Marking, Calm
          <6>2. RowMarked(h)
            BY <5>1, <6>1, <1>0, MarkHourRow
          <6> QED
            BY <6>2 DEF RowMarked
        <5> QED
          BY <5>1
      <4>2. ~WriteHourFails /\ ~StopControl
        BY CalmSteps
      <4> QED
        BY <3>1, <4>1, <4>2 DEF Marking, Next, Daemon, Control, Environment, vars, control,
             StartDaemon, StartControl,
             InitialPeriod, InitialClock, Poll, ReadCalls, WriteBookmark, WriteCalls, WriteFails,
             NextHour, OlderHours, ControlEnds, ReadHour, WriteHour, ReadFails, KillDaemon,
             Tick, StoreCall, StoreOverlapping, Commit
    <3> QED
      BY <3>1
  <2>4. Boundary => h < time_period_hour_id \/ first_run
    <3> SUFFICES ASSUME Boundary PROVE h < time_period_hour_id \/ first_run
      OBVIOUS
    <3>1. dpc \notin {"off", "period", "clock"} /\ Boundary'
      BY <1>0
    <3>2. CASE h < time_period_hour_id'
      <4>1. CASE Poll /\ now # last_hour
        <5>1. /\ last_hour = time_period_hour_id /\ now \in {last_hour, last_hour + 1}
              /\ time_period_hour_id' = now
          BY <4>1, <1>0, <3>1, CalmMeans DEF PollInv, Poll
        <5>2. h # time_period_hour_id
          <6>1. "sql" \notin Happened'
            BY DEF Calm
          <6>2. h = time_period_hour_id => RowMarked(h)
            BY <4>1, <6>1, <1>0, PollRow
          <6> QED
            BY <6>2 DEF RowMarked
        <5> QED
          BY <3>2, <5>1, <5>2, <2>n
      <4>2. CASE UNCHANGED time_period_hour_id
        BY <3>2, <4>2
      <4>3. (Poll /\ now # last_hour) \/ UNCHANGED time_period_hour_id
        BY <3>1 DEF Next, Daemon, Control, Environment, vars, daemon,
             StartDaemon, StartControl,
             InitialPeriod, InitialClock, Poll, ReadCalls, WriteBookmark, WriteCalls, WriteFails,
             NextHour, OlderHours, ControlEnds, ReadHour, WriteHour, ReadFails, KillDaemon,
             WriteHourFails, MarkHour, Tick, StoreCall, StoreOverlapping, Commit, StopControl
      <4> QED
        BY <4>1, <4>2, <4>3
    <3>3. CASE first_run'
      BY <3>1, <3>3 DEF Next, Daemon, Control, Environment, vars, daemon,
             StartDaemon, StartControl,
             InitialPeriod, InitialClock, Poll, ReadCalls, WriteBookmark, WriteCalls, WriteFails,
             NextHour, OlderHours, ControlEnds, ReadHour, WriteHour, ReadFails, KillDaemon,
             WriteHourFails, MarkHour, Tick, StoreCall, StoreOverlapping, Commit, StopControl
    <3> QED
      BY <3>1, <3>2, <3>3
  <2>5. counted[c] = 0 /\ (c \in batch => dpc = "bookmark" /\ time_period_hour_id = h)
    BY <1>0, <1>2, <2>1, <2>2, <2>3, <2>4 DEF Ahead
  <2>6. counted'[c] = 0
    <3>1. ~(WriteCalls /\ c \in batch)
      BY <2>5 DEF WriteCalls
    <3>2. ~(WriteHour /\ c \in cbatch)
      <4>1. ASSUME WriteHour, c \in cbatch PROVE FALSE
        <5>1. cpc = "write" /\ h = chour
          BY <4>1, <1>0 DEF WriteHour, HandsInv
        <5> QED
          BY <5>1, <2>3 DEF Marking
      <4> QED
        BY <4>1
    <3> QED
      BY <3>1, <3>2, <2>5, <2>c, <1>0, CountsGrow
  <2>7. ASSUME c \in batch'
        PROVE  dpc' = "bookmark" /\ time_period_hour_id' = h
    <3>1. CASE ReadCalls
      <4>1. h >= time_period_hour_id /\ (~Boundary => h = time_period_hour_id)
        BY <3>1, <2>1, <2>7, <1>0, PolledCalls
      <4>2. dpc' = "bookmark" /\ UNCHANGED time_period_hour_id /\ first_run' = FALSE
        BY <3>1 DEF ReadCalls, DaemonGoes
      <4>3. ~Boundary
        BY <4>1, <4>2, <1>0, <2>n
      <4> QED
        BY <4>1, <4>2, <4>3
    <3>2. CASE WriteBookmark
      <4>1. period' = Bookmark /\ c \in batch
        BY <3>2, <2>7, CalmSteps
      <4>2. c <= last_call_id /\ h = time_period_hour_id
        BY <4>1, <1>0, <2>5 DEF HandsInv
      <4>3. last_call_id # 0
        BY <4>2, <2>c, <2>n
      <4>4. period'[h].last = last_call_id
        BY <4>1, <4>2, <4>3, <1>0 DEF Bookmark, TypeOK, Row
      <4> QED
        BY <4>2, <4>4, <2>n
    <3>3. CASE c \in batch /\ UNCHANGED <<dpc, time_period_hour_id>>
      BY <3>3, <2>5
    <3>4. \/ ReadCalls \/ WriteBookmark
          \/ /\ c \in batch
             /\ dpc = "bookmark" => UNCHANGED <<dpc, time_period_hour_id>>
      BY <2>7 DEF Next, Daemon, Control, Environment, vars, daemon,
             StartDaemon, StartControl,
             InitialPeriod, InitialClock, Poll, WriteCalls, WriteFails,
             NextHour, OlderHours, ControlEnds, ReadHour, WriteHour, ReadFails, KillDaemon,
             WriteHourFails, MarkHour, Tick, StoreCall, StoreOverlapping, Commit, StopControl
    <3> QED
      BY <2>5, <3>1, <3>2, <3>3, <3>4
  <2> QED
    BY <2>6, <2>7
<1> QED
  BY <1>1, <1>2

\* The daemon leaves no unread call behind.
LEMMA BehindNext ==
    ASSUME FirstInv, CalmInv, [Next]_vars, Calm', NEW c \in committed', NEW h \in Hours,
           h = calls'[c].hour, dpc' # "off", period'[h].st # "finished", Before(h)'
    PROVE  c <= last_call_id'
<1>0. /\ Calm /\ TypeOK /\ TypeOK' /\ ClockInv /\ RowsInv /\ HandsInv /\ LastInv
      /\ BaseInv' /\ ClockInv' /\ QuietInv /\ PollInv /\ Ahead /\ Behind
      /\ committed = 1..Len(calls)
  BY CalmBefore, CalmSteps DEF CalmInv, FirstInv, BaseInv
<1>n. /\ now \in Nat /\ time_period_hour_id \in Nat /\ last_call_id \in Nat /\ h \in Nat
      /\ time_period_hour_id' \in Nat /\ last_call_id' \in Nat /\ now' \in Nat /\ c \in Nat
  <2>1. time_period_hour_id' \in Hours /\ last_call_id' \in 0..MaxCalls /\ now' \in Hours
        /\ c \in 1..Len(calls')
    BY <1>0 DEF TypeOK
  <2> QED
    BY <1>0, <2>1, Times, Known
<1>b. h < IF dpc' = "period" THEN now' ELSE time_period_hour_id'
  BY DEF Before
<1>1. CASE c \notin committed
  <2>1. /\ c = Len(calls) + 1 /\ Stored(c) /\ StoreCall
        /\ UNCHANGED <<now, dpc, time_period_hour_id, period, first_run>>
    <3>1. c \in 1..Len(calls')
      BY <1>0 DEF TypeOK
    <3>2. c = Len(calls) + 1 /\ Stored(c) /\ (StoreCall \/ StoreOverlapping)
      BY <3>1, <1>0, <1>1, CallsStay
    <3>3. StoreCall
      BY <3>2, CalmSteps
    <3> QED
      BY <3>2, <3>3 DEF StoreCall, daemon
  <2>2. h <= now /\ (h < now => Event(Late(h))) /\ h \in 0..now
    BY <2>1, <1>n DEF Stored
  <2>3. h < now
    <3>1. dpc # "period" /\ dpc # "off" => time_period_hour_id <= now
      BY <1>0 DEF ClockInv
    <3> QED
      BY <1>b, <2>1, <3>1, <1>n
  <2>4. Late(h) \in Happened'
    BY <2>2, <2>3, EventHappens
  <2>5. ~LeftToControl(h)
    BY <2>4 DEF Late, Calm
  <2>6. time_period_hour_id = h /\ dpc \notin {"off", "period"}
    BY <2>1, <2>5 DEF LeftToControl
  <2> QED
    BY <2>1, <2>6, <1>b, <1>n
<1>2. CASE c \in committed
  <2>c. c \in 1..Len(calls) /\ calls'[c] = calls[c] /\ h = calls[c].hour
    BY <1>0, <1>2, Known, CallsStay
  <2>1. period[h].st # "finished"
    BY <1>0, RowsOnlyGrow
  <2>2. CASE StartDaemon
    <3>1. last_call_id' = MaxId(committed)
      BY <2>2, CalmSteps
    <3> QED
      BY <3>1, <1>2, <1>0, Known, MaxIdOf
  <2>3. CASE ~StartDaemon
    <3>1. dpc # "off"
      BY <2>3 DEF Next, Daemon, Control, Environment, vars, daemon, DaemonGoes,
             StartDaemon, StartControl,
             InitialPeriod, InitialClock, Poll, ReadCalls, WriteBookmark, WriteCalls, WriteFails,
             NextHour, OlderHours, ControlEnds, ReadHour, WriteHour, ReadFails, KillDaemon,
             WriteHourFails, MarkHour, Tick, StoreCall, StoreOverlapping, Commit, StopControl
    <3>2. last_call_id <= last_call_id'
      <4>1. CASE ReadCalls
        <5>1. {last_call_id} \cup batch' \in SUBSET (0..MaxCalls)
          BY <4>1, <1>0, Known DEF ReadCalls, NewCalls
        <5> QED
          BY <4>1, <5>1, MaxIdOf DEF ReadCalls
      <4>2. ReadCalls \/ UNCHANGED last_call_id
        BY <2>3 DEF Next, Daemon, Control, Environment, vars, daemon,
             StartControl,
             InitialPeriod, InitialClock, Poll, WriteBookmark, WriteCalls, WriteFails,
             NextHour, OlderHours, ControlEnds, ReadHour, WriteHour, ReadFails, KillDaemon,
             WriteHourFails, MarkHour, Tick, StoreCall, StoreOverlapping, Commit, StopControl
      <4> QED
        BY <4>1, <4>2, <1>n
    <3>3. Before(h)
      <4>1. CASE InitialPeriod
        BY <4>1, <1>b DEF InitialPeriod, DaemonGoes, Before
      <4>2. CASE Poll
        <5>1. dpc = "top" /\ dpc' = "read"
          BY <4>2 DEF Poll, DaemonGoes
        <5>2. CASE now = last_hour
          BY <4>2, <5>1, <5>2, <1>b DEF Poll, Before
        <5>3. CASE now # last_hour
          <6>1. /\ last_hour = time_period_hour_id /\ now \in {last_hour, last_hour + 1}
                /\ time_period_hour_id' = now
            BY <4>2, <5>3, <5>1, <1>0, CalmMeans DEF PollInv, Poll
          <6>2. h # time_period_hour_id
            <7>1. "sql" \notin Happened'
              BY DEF Calm
            <7>2. h = time_period_hour_id => RowMarked(h)
              BY <4>2, <5>3, <7>1, <1>0, PollRow
            <7> QED
              BY <7>2 DEF RowMarked
          <6> QED
            BY <6>1, <6>2, <5>1, <1>b, <1>n DEF Before
        <5> QED
          BY <5>2, <5>3
      <4>3. CASE Tick
        <5>1. dpc # "period"
          BY <4>3, <3>1, CalmSteps
        <5> QED
          BY <4>3, <5>1, <1>b DEF Tick, daemon, Before
      <4>4. CASE UNCHANGED <<now, time_period_hour_id>> /\ (dpc' = "period" <=> dpc = "period")
        BY <4>4, <1>b DEF Before
      <4>5. \/ InitialPeriod \/ Poll \/ Tick
            \/ UNCHANGED <<now, time_period_hour_id>> /\ (dpc' = "period" <=> dpc = "period")
            \/ dpc' = "off"
        BY <2>3 DEF Next, Daemon, Control, Environment, vars, daemon, DaemonGoes,
             StartControl, InitialClock, ReadCalls, WriteBookmark, WriteCalls, WriteFails,
             NextHour, OlderHours, ControlEnds, ReadHour, WriteHour, ReadFails, KillDaemon,
             WriteHourFails, MarkHour, StoreCall, StoreOverlapping, Commit, StopControl
      <4> QED
        BY <4>1, <4>2, <4>3, <4>4, <4>5
    <3>4. c <= last_call_id
      BY <1>0, <1>2, <2>c, <2>1, <3>1, <3>3 DEF Behind
    <3> QED
      BY <3>2, <3>4, <1>n
  <2> QED
    BY <2>2, <2>3
<1> QED
  BY <1>1, <1>2

\* CalmInv is inductive.
LEMMA CalmNext ==
    ASSUME FirstInv, CalmInv, [Next]_vars
    PROVE  CalmInv'
<1> SUFFICES ASSUME Calm'
             PROVE  /\ Boundary' => dpc' \notin {"off", "period", "clock"}
                    /\ Ahead' /\ Behind'
  BY DEF CalmInv
<1>1. Boundary' => dpc' \notin {"off", "period", "clock"}
  BY BoundaryUpNext
<1>2. Ahead'
  BY AheadNext DEF Ahead, AheadOf
<1>3. Behind'
  <2>1. ASSUME NEW c \in committed', dpc' # "off",
               period'[calls'[c].hour].st # "finished", Before(calls[c].hour)'
        PROVE  c <= last_call_id'
    <3>1. TypeOK'
      BY CalmBefore
    <3>2. calls'[c].hour \in Hours
      <4>1. c \in 1..Len(calls') /\ calls' \in Seq([hour : Hours, sharp : BOOLEAN])
        BY <3>1 DEF TypeOK
      <4>2. calls'[c] \in [hour : Hours, sharp : BOOLEAN]
        BY <4>1, ElementOfSeq
      <4> QED
        BY <4>2
    <3>3. PICK h \in Hours : h = calls'[c].hour
      BY <3>2
    <3>4. Before(h)'
      BY <2>1, <3>3 DEF Before
    <3> QED
      BY <2>1, <3>3, <3>4, BehindNext
  <2> QED
    BY <2>1 DEF Behind
<1> QED
  BY <1>1, <1>2, <1>3

\* CalmInv holds at first.
LEMMA CalmInit == Init => CalmInv
<1> SUFFICES ASSUME Init PROVE CalmInv
  OBVIOUS
<1>1. committed = {}
  BY DEF Init
<1>2. Happened = {}
  BY DEF Init, Happened, BagToSet, EmptyBag, SetToBag
<1> QED
  BY <1>1, <1>2 DEF CalmInv, Ahead, Behind, Boundary

\* The events under which no call at all is counted twice.
Once ==
    \/ Happened \subseteq {"late", "skip", "sharp", "boundary"}
    \/ Happened \subseteq {"late", "skip", "sharp", "stop", "kill"}

\* The hours of the control program are open, lie before the daemon's, and are
\* each taken up once, from their bookmark on.
AloneInv ==
    /\ cpc # "off" => dpc \notin {"period", "clock"}
    /\ dpc \notin {"off", "period"} => period[time_period_hour_id].st # "finished"
    /\ cpc # "off" =>
          \A t \in todo : /\ t.from = period[t.hour].last /\ period[t.hour].st # "finished"
                          /\ dpc # "off" => t.hour < time_period_hour_id
    /\ cpc \in {"read", "write", "mark"} =>
          /\ period[chour].st # "finished"
          /\ dpc # "off" => chour < time_period_hour_id
          /\ \A t \in todo : t.hour # chour
    /\ cpc = "read" => cfrom = period[chour].last

\* A call that is read is not counted, and not in the other program's hands.
ReadOnce ==
    /\ dpc # "off" =>
          \A c \in Ids : c > last_call_id => counted[c] = 0 /\ c \notin cbatch
    /\ \A c \in Ids : counted[c] <= 1
    /\ \A c \in batch \cup cbatch : counted[c] = 0
    /\ batch \cap cbatch = {}

\* What keeps the two programs apart, and the counts at one.
OnceInv == Once => AloneInv /\ ReadOnce

\* What is known before a step after which no call may be counted twice.
LEMMA OnceBefore ==
    ASSUME FirstInv, CalmInv, OnceInv, [Next]_vars, Once'
    PROVE  /\ Calm /\ Calm' /\ Once /\ TypeOK /\ TypeOK' /\ ClockInv /\ RowsInv /\ HandsInv
           /\ LastInv /\ ClockInv' /\ QuietInv /\ PollInv /\ Ahead /\ Behind
           /\ AloneInv /\ ReadOnce
           /\ Boundary => dpc \notin {"off", "period", "clock"}
           /\ ~Event("race") /\ "startup" \notin Happened /\ "sql" \notin Happened'
           /\ committed = 1..Len(calls)
<1>1. Once' => Calm'
  BY DEF Once, Calm
<1>2. /\ Happened \subseteq Happened' /\ Calm /\ TypeOK /\ TypeOK' /\ ClockInv /\ RowsInv
      /\ HandsInv /\ LastInv /\ BaseInv'
  BY <1>1, CalmBefore
<1>3. Once
  BY <1>2 DEF Once
<1>4. ~Event("race") /\ "startup" \notin Happened /\ "sql" \notin Happened'
  BY <1>2, EventHappens DEF Once
<1> QED
  BY <1>1, <1>2, <1>3, <1>4, CalmSteps DEF CalmInv, OnceInv, FirstInv, BaseInv

\* What StartControl and OlderHours put down.
LEMMA MissingHours ==
    ASSUME TypeOK, NEW t \in Missing
    PROVE  /\ t.hour \in Hours /\ t.hour < now /\ t.from = period[t.hour].last
           /\ period[t.hour].st # "finished"
<1> DEFINE R == Rows(0..(now - 1))
<1>1. R \in SUBSET Nat /\ R # {}
  BY Known DEF Rows, Missing
<1>2. Min(R) \in Nat
  BY <1>1, MinOfNumbers
<1>3. PICK h \in {k \in Min(R)..(now - 1) : period[k].st # "finished"} :
         t = [hour |-> h, from |-> period[h].last]
  BY <1>1 DEF Missing
<1>4. h \in Hours /\ h < now
  <2>1. now \in Nat /\ \A k \in 0..now : k \in Hours
    BY Known
  <2>2. h \in Min(R)..(now - 1)
    BY <1>3
  <2> QED
    BY <1>2, <2>1, <2>2
<1> QED
  BY <1>3, <1>4

\* What OlderHours puts down: hours that have no row, in full.
LEMMA OldHours ==
    ASSUME TypeOK, RowsInv, ClockInv, LastInv, OlderHours, NEW t \in todo'
    PROVE  /\ t.hour \in Hours /\ t.hour < now /\ t.from = 0
           /\ period[t.hour].st = "absent" /\ period[t.hour].last = 0
           /\ \A h \in Hours : period[h].st # "absent" => t.hour < h
<1> DEFINE C == {calls[c].hour : c \in committed}
<1>1. committed # {}
  BY DEF OlderHours
<1>2. C \in SUBSET Nat /\ C # {}
  BY <1>1, Known
<1>3. Min(C) \in Nat
  BY <1>2, MinOfNumbers
<1>4. Rows(Hours) \in SUBSET Nat /\ Rows(Hours) # {}
  BY Known DEF Rows, RowsInv, OlderHours
<1>5. Min(Rows(Hours)) \in Rows(Hours) /\ \A h \in Rows(Hours) : Min(Rows(Hours)) <= h
  BY <1>4, MinOfNumbers
<1>6. todo' = {[hour |-> h, from |-> 0] : h \in Min(C)..(Min(Rows(Hours)) - 1)}
  BY <1>1 DEF OlderHours
<1>7. PICK h \in Min(C)..(Min(Rows(Hours)) - 1) : t = [hour |-> h, from |-> 0]
  BY <1>6
<1>a. \A g \in Rows(Hours) : g \in Hours /\ period[g].st # "absent"
  BY DEF Rows
<1>8. PICK r \in Hours : /\ r = Min(Rows(Hours)) /\ r \in Nat /\ period[r].st # "absent"
                         /\ \A g \in Rows(Hours) : r <= g
  BY <1>4, <1>5, <1>a
<1>b. h \in Min(C)..(r - 1)
  BY <1>7, <1>8
<1>c. h \in Nat /\ h < r
  BY <1>3, <1>8, <1>b
<1>9. h \in Nat /\ h < r /\ h \in Hours
  BY <1>c, ConstAssumption DEF Hours
<1>10. ~(r > now)
  BY <1>8 DEF ClockInv
<1>11. h < now
  BY <1>8, <1>9, <1>10, Times
<1>12. \A g \in Hours : period[g].st # "absent" => h < g
  <2>1. \A g \in Hours : g \in Nat
    BY Known
  <2> QED
    <3>1. \A g \in Hours : period[g].st # "absent" => g \in Rows(Hours)
      BY DEF Rows
    <3> QED
      BY <1>8, <1>9, <2>1, <3>1
<1>13. period[h].st = "absent" /\ period[h].last = 0
  BY <1>9, <1>12 DEF LastInv
<1> QED
  BY <1>7, <1>9, <1>11, <1>12, <1>13

\* The daemon's hour moves on with time; it is given up only by a stop.
LEMMA DaemonMoves ==
    ASSUME FirstInv, [Next]_vars
    PROVE  /\ dpc' # "off" => dpc # "off" \/ (StartDaemon /\ cpc = "off" /\ cpc' = "off" /\ dpc' = "period")
           /\ dpc' = "period" => dpc = "period" \/ StartDaemon
           /\ dpc' = "clock" => dpc = "clock" \/ InitialPeriod
           /\ InitialPeriod => dpc = "period" /\ dpc' = "clock" /\ time_period_hour_id' = now
           /\ Poll /\ now # last_hour => time_period_hour_id < now /\ time_period_hour_id' = now
           /\ \/ UNCHANGED time_period_hour_id
              \/ InitialPeriod
              \/ Poll /\ now # last_hour
<1>1. Poll /\ now # last_hour => time_period_hour_id < now /\ time_period_hour_id' = now
  <2>1. ASSUME Poll, now # last_hour PROVE time_period_hour_id < now
    <3>1. \E h \in Hours : TRUE
      BY ConstAssumption DEF Hours
    <3> QED
      BY <2>1, <3>1, PollRow DEF FirstInv, BaseInv
  <2> QED
    BY <2>1 DEF Poll
<1> QED
  BY <1>1 DEF Next, Daemon, Control, Environment, vars, daemon, control, DaemonGoes,
         StartDaemon, StartControl,
         InitialPeriod, InitialClock, Poll, ReadCalls, WriteBookmark, WriteCalls, WriteFails,
         NextHour, OlderHours, ControlEnds, ReadHour, WriteHour, ReadFails, KillDaemon,
         WriteHourFails, MarkHour, Tick, StoreCall, StoreOverlapping, Commit, StopControl

\* The two programs stay at different hours.
LEMMA AloneNext ==
    ASSUME FirstInv, CalmInv, OnceInv, [Next]_vars, Once'
    PROVE  AloneInv'
<1>0. /\ Calm /\ TypeOK /\ TypeOK' /\ ClockInv /\ RowsInv /\ HandsInv /\ LastInv
      /\ ClockInv' /\ QuietInv /\ PollInv /\ AloneInv /\ ReadOnce
      /\ ~Event("race") /\ "startup" \notin Happened /\ "sql" \notin Happened'
  BY OnceBefore
<1>n. /\ now \in Nat /\ time_period_hour_id \in Nat /\ chour \in Nat
      /\ now \in Hours /\ time_period_hour_id \in Hours /\ chour \in Hours
      /\ \A h \in Hours : h \in Nat
      /\ \A t \in todo : t.hour \in Hours
  BY <1>0, Known, Times
<1>1. cpc' # "off" => dpc' \notin {"period", "clock"}
  <2>1. CASE StartControl
    BY <2>1, <1>0 DEF StartControl, HasPolled, daemon
  <2>2. CASE cpc # "off" \/ cpc' = "off"
    <3>1. StartDaemon => cpc = "off" /\ cpc' = "off"
      BY DEF StartDaemon, control
    <3>2. cpc # "off" => dpc \notin {"period", "clock"}
      BY <1>0 DEF AloneInv
    <3> QED
      BY <2>2, <3>1, <3>2, DaemonMoves
  <2>3. StartControl \/ cpc # "off" \/ cpc' = "off"
    BY DEF Next, Daemon, Control, Environment, vars, control,
         StartDaemon,
         InitialPeriod, InitialClock, Poll, ReadCalls, WriteBookmark, WriteCalls, WriteFails,
         NextHour, OlderHours, ControlEnds, ReadHour, WriteHour, ReadFails, KillDaemon,
         WriteHourFails, MarkHour, Tick, StoreCall, StoreOverlapping, Commit, StopControl
  <2> QED
    BY <2>1, <2>2, <2>3
\* What is open stays open, and keeps its bookmark, if it is before the
\* daemon's hour and not the one the control program is at.
<1>2. ASSUME NEW h \in Hours, period[h].st # "finished", MarkHour => h # chour,
             dpc \notin {"off", "period"} => h < time_period_hour_id
      PROVE  /\ period'[h].st # "finished"
             /\ period'[h].last = period[h].last
             /\ dpc' \notin {"off", "period"} /\ dpc \notin {"off", "period"} =>
                   h < time_period_hour_id'
  <2>1. Poll => dpc = "top"
    BY DEF Poll
  <2>2. WriteBookmark => dpc = "bookmark"
    BY DEF WriteBookmark
  <2>3. h # time_period_hour_id \/ dpc \in {"off", "period"}
    BY <1>2, <1>n
  <2>4. period'[h].st # "finished"
    BY <1>0, <1>2, <2>1, <2>3, RowsOnlyGrow
  <2>5. period'[h].last = period[h].last
    BY <1>0, <2>2, <2>3, BookmarksMove
  <2>6. dpc \notin {"off", "period"} => h < time_period_hour_id'
    BY <1>2, <1>n, DaemonMoves
  <2> QED
    BY <2>4, <2>5, <2>6
<1>3. dpc' \notin {"off", "period"} => period'[time_period_hour_id'].st # "finished"
  <2>1. CASE InitialPeriod \/ (Poll /\ now # last_hour)
    <3>1. time_period_hour_id' = now /\ now' = now
      BY <2>1, DaemonMoves DEF InitialPeriod, Poll
    <3>2. period'[now].st # "finished"
      BY <1>0, <1>n, <3>1 DEF ClockInv
    <3> QED
      BY <3>1, <3>2
  <2>2. CASE UNCHANGED time_period_hour_id /\ ~(InitialPeriod \/ (Poll /\ now # last_hour))
    <3> SUFFICES ASSUME dpc' \notin {"off", "period"}
                 PROVE  period'[time_period_hour_id].st # "finished"
      BY <2>2
    <3>1. dpc \notin {"off", "period"}
      BY <2>2 DEF Next, Daemon, Control, Environment, vars, daemon, DaemonGoes,
         StartDaemon, StartControl,
         InitialClock, Poll, ReadCalls, WriteBookmark, WriteCalls, WriteFails,
         NextHour, OlderHours, ControlEnds, ReadHour, WriteHour, ReadFails, KillDaemon,
         WriteHourFails, MarkHour, Tick, StoreCall, StoreOverlapping, Commit, StopControl
    <3>2. period[time_period_hour_id].st # "finished"
      BY <3>1, <1>0 DEF AloneInv
    <3>3. MarkHour => time_period_hour_id # chour
      BY <3>1, <1>0, <1>n DEF AloneInv, MarkHour
    <3> QED
      BY <2>2, <3>2, <3>3, <1>0, <1>n, RowsOnlyGrow
  <2> QED
    BY <2>1, <2>2, DaemonMoves
<1>4. ASSUME cpc' # "off", NEW t \in todo'
      PROVE  /\ t.from = period'[t.hour].last /\ period'[t.hour].st # "finished"
             /\ dpc' # "off" => t.hour < time_period_hour_id'
  <2>1. CASE StartControl
    <3>1. t \in Missing /\ UNCHANGED <<period, dpc, time_period_hour_id>>
      BY <2>1 DEF StartControl, HasPolled, daemon
    <3>2. dpc = "off" \/ (last_hour = now /\ dpc \notin {"period", "clock"})
      BY <2>1, <1>0 DEF StartControl, HasPolled
    <3>3. dpc # "off" => time_period_hour_id = now
      BY <3>2, <1>0 DEF PollInv
    <3> QED
      BY <3>1, <3>3, <1>0, MissingHours
  <2>2. CASE OlderHours
    <3>1. /\ t.hour \in Hours /\ t.from = 0
          /\ period[t.hour].st = "absent" /\ period[t.hour].last = 0
          /\ \A h \in Hours : period[h].st # "absent" => t.hour < h
      BY <2>2, <1>0, OldHours
    <3>2. UNCHANGED <<period, dpc, time_period_hour_id>> /\ cpc # "off"
      BY <2>2 DEF OlderHours, daemon
    <3>3. dpc # "off" => t.hour < time_period_hour_id
      BY <3>1, <3>2, <1>0, <1>n DEF AloneInv, RowsInv
    <3> QED
      BY <3>1, <3>2, <3>3
  <2>3. CASE cpc # "off" /\ t \in todo
    <3>1. /\ t.from = period[t.hour].last /\ period[t.hour].st # "finished"
          /\ dpc # "off" => t.hour < time_period_hour_id
          /\ t.hour \in Hours
      BY <2>3, <1>0, <1>n DEF AloneInv
    <3>2. MarkHour => t.hour # chour
      BY <2>3, <1>0 DEF AloneInv, MarkHour
    <3>3. dpc \notin {"period", "clock"}
      BY <2>3, <1>0 DEF AloneInv
    <3>4. /\ period'[t.hour].st # "finished"
          /\ period'[t.hour].last = period[t.hour].last
          /\ dpc' \notin {"off", "period"} /\ dpc \notin {"off", "period"} =>
                t.hour < time_period_hour_id'
      BY <3>1, <3>2, <1>2
    <3>5. dpc' # "off" => dpc # "off"
      BY <2>3, DaemonMoves
    <3>6. dpc' # "period"
      BY <1>1, <1>4
    <3> QED
      BY <3>1, <3>3, <3>4, <3>5, <3>6
  <2>4. StartControl \/ OlderHours \/ (cpc # "off" /\ t \in todo)
    BY <1>4 DEF Next, Daemon, Control, Environment, vars, control,
         StartDaemon,
         InitialPeriod, InitialClock, Poll, ReadCalls, WriteBookmark, WriteCalls, WriteFails,
         NextHour, ControlEnds, ReadHour, WriteHour, ReadFails, KillDaemon,
         WriteHourFails, MarkHour, Tick, StoreCall, StoreOverlapping, Commit, StopControl
  <2> QED
    BY <2>1, <2>2, <2>3, <2>4
<1>5. ASSUME cpc' \in {"read", "write", "mark"}
      PROVE  /\ period'[chour'].st # "finished"
             /\ dpc' # "off" => chour' < time_period_hour_id'
             /\ \A t \in todo' : t.hour # chour'
             /\ cpc' = "read" => cfrom' = period'[chour'].last
  <2>1. CASE NextHour
    <3>1. PICK t \in todo : /\ todo' = todo \ {t} /\ chour' = t.hour /\ cfrom' = t.from
                            /\ t.hour \in Hours
      BY <2>1, <1>0, NextHourRow
    <3>2. /\ t.from = period[t.hour].last /\ period[t.hour].st # "finished"
          /\ dpc # "off" => t.hour < time_period_hour_id
          /\ UNCHANGED <<dpc, time_period_hour_id>>
      BY <2>1, <3>1, <1>0 DEF AloneInv, NextHour, daemon
    <3>3. ~MarkHour
      BY <2>1 DEF NextHour, MarkHour
    <3>4. period'[t.hour].st # "finished" /\ period'[t.hour].last = period[t.hour].last
      BY <3>1, <3>2, <3>3, <1>2
    <3>5. \A u \in todo : u.hour = t.hour => u = t
      <4>1. \A u \in todo : u.from = period[u.hour].last
        BY <2>1, <1>0 DEF AloneInv, NextHour
      <4>2. \A u \in todo : u = [hour |-> u.hour, from |-> u.from]
        BY <1>0 DEF TypeOK
      <4> QED
        BY <3>1, <4>1, <4>2
    <3> QED
      BY <3>1, <3>2, <3>4, <3>5
  <2>2. CASE /\ cpc \in {"read", "write", "mark"} /\ ~MarkHour
             /\ UNCHANGED <<todo, chour, cfrom>>
             /\ cpc' = "read" => cpc = "read"
    <3>1. /\ period[chour].st # "finished"
          /\ dpc # "off" => chour < time_period_hour_id
          /\ \A t \in todo : t.hour # chour
          /\ cpc = "read" => cfrom = period[chour].last
          /\ dpc \notin {"period", "clock"}
      BY <2>2, <1>0 DEF AloneInv
    <3>2. /\ period'[chour].st # "finished"
          /\ period'[chour].last = period[chour].last
          /\ dpc' \notin {"off", "period"} /\ dpc \notin {"off", "period"} =>
                chour < time_period_hour_id'
      BY <2>2, <3>1, <1>2, <1>n
    <3>3. (dpc' # "off" => dpc # "off") /\ dpc' # "period"
      BY <2>2, <1>1, <1>5, DaemonMoves
    <3> QED
      BY <2>2, <3>1, <3>2, <3>3
  <2>3. \/ NextHour
        \/ /\ cpc \in {"read", "write", "mark"} /\ ~MarkHour
           /\ UNCHANGED <<todo, chour, cfrom>>
           /\ cpc' = "read" => cpc = "read"
    BY <1>5 DEF Next, Daemon, Control, Environment, vars, control,
         StartDaemon, StartControl, OlderHours,
         InitialPeriod, InitialClock, Poll, ReadCalls, WriteBookmark, WriteCalls, WriteFails,
         ControlEnds, ReadHour, WriteHour, ReadFails, KillDaemon,
         WriteHourFails, MarkHour, Tick, StoreCall, StoreOverlapping, Commit, StopControl
  <2> QED
    BY <2>1, <2>2, <2>3
<1> QED
  BY <1>1, <1>3, <1>4, <1>5 DEF AloneInv

\* No call is read that was counted or that is in the other program's hands.
LEMMA ReadOnceNext ==
    ASSUME FirstInv, CalmInv, OnceInv, [Next]_vars, Once'
    PROVE  ReadOnce'
<1>0. /\ Calm /\ TypeOK /\ TypeOK' /\ ClockInv /\ RowsInv /\ HandsInv /\ LastInv
      /\ QuietInv /\ PollInv /\ AloneInv /\ ReadOnce /\ Ahead /\ Behind
      /\ Boundary => dpc \notin {"off", "period", "clock"}
      /\ "startup" \notin Happened /\ committed = 1..Len(calls)
  BY OnceBefore
<1>n. /\ now \in Nat /\ time_period_hour_id \in Nat /\ chour \in Nat /\ last_call_id \in Nat
      /\ now \in Hours /\ time_period_hour_id \in Hours /\ chour \in Hours
      /\ \A h \in Hours : h \in Nat /\ period[h].last \in Nat
      /\ \A c \in Ids : c \in Nat /\ c > 0
      /\ batch \subseteq committed /\ cbatch \subseteq committed /\ committed \subseteq Ids
      /\ \A c \in Ids : c \in committed \/ c > Len(calls)
  <2>1. \A c \in Ids : c \in committed \/ c > Len(calls)
    BY <1>0, Known DEF Ids
  <2>2. batch \subseteq committed /\ cbatch \subseteq committed
    BY <1>0 DEF TypeOK
  <2>3. \A c \in Ids : c \in Nat /\ c > 0
    BY ConstAssumption DEF Ids
  <2> QED
    BY <1>0, <2>1, <2>2, <2>3, Known, Times
<1>i. /\ dpc # "off" =>
            \A c \in Ids : c > last_call_id => counted[c] = 0 /\ c \notin cbatch
      /\ \A c \in Ids : counted[c] <= 1
      /\ \A c \in batch \cup cbatch : counted[c] = 0
      /\ batch \cap cbatch = {}
  BY <1>0 DEF ReadOnce
<1>c. \A c \in committed : calls[c].hour \in Hours /\ calls[c].hour <= now
  BY <1>0, Known DEF ClockInv
\* The calls that the control program reads.
<1>1. ASSUME ReadHour, NEW c \in cbatch'
      PROVE  c \in committed /\ counted[c] = 0 /\ c \notin batch /\ (dpc # "off" => c <= last_call_id)
  <2>1. cpc = "read" /\ c \in committed /\ calls[c].hour = chour /\ c > cfrom
    BY <1>1 DEF ReadHour
  <2>2. /\ period[chour].st # "finished" /\ cfrom = period[chour].last
        /\ dpc # "off" => chour < time_period_hour_id
        /\ dpc \notin {"period", "clock"}
    BY <2>1, <1>0 DEF AloneInv
  <2>3. ~Marking(chour)
    BY <2>1 DEF Marking
  <2>4. Boundary => chour < time_period_hour_id
    BY <1>0, <2>2
  <2>5. counted[c] = 0 /\ (c \in batch => dpc = "bookmark" /\ time_period_hour_id = chour)
    BY <1>0, <2>1, <2>2, <2>3, <2>4 DEF Ahead
  <2>6. c \notin batch
    BY <2>2, <2>5, <1>n
  <2>7. dpc # "off" => Before(chour)
    BY <2>2 DEF Before
  <2>8. dpc # "off" => c <= last_call_id
    BY <1>0, <2>1, <2>2, <2>7 DEF Behind
  <2> QED
    BY <2>1, <2>5, <2>6, <2>8
\* The calls that the daemon reads.
<1>2. ASSUME ReadCalls, NEW c \in batch'
      PROVE  c \in committed /\ counted[c] = 0 /\ c \notin cbatch
  <2>1. /\ dpc = "read" /\ c \in committed
        /\ first_run => /\ c > stopped.id
                        /\ calls[c].hour > stopped.hour \/ calls[c].hour = stopped.hour
        /\ ~first_run => c > last_call_id
    BY <1>2 DEF ReadCalls, NewCalls
  <2>2. CASE ~first_run
    BY <2>1, <2>2, <1>i, <1>n
  <2>3. CASE first_run
    <3>1. PICK h \in Hours : h = calls[c].hour /\ h \in Nat /\ h <= now
      BY <2>1, <1>c, <1>n
    <3>2. h >= time_period_hour_id
      BY <2>1, <2>3, <3>1, <1>0, <1>n DEF HandsInv
    <3>3. h = time_period_hour_id \/ h = now
      <4>1. now \in {last_hour, last_hour + 1} /\ last_hour = time_period_hour_id
        BY <2>1, <1>0 DEF PollInv
      <4> QED
        BY <3>1, <3>2, <4>1, <1>n
    <3>4. period[h].st # "finished"
      <4>1. period[time_period_hour_id].st # "finished"
        BY <2>1, <1>0 DEF AloneInv
      <4>2. period[now].st # "finished"
        BY <1>0, <1>n DEF ClockInv
      <4> QED
        BY <3>3, <4>1, <4>2
    <3>5. c > period[h].last
      <4>1. /\ \A g \in Hours : g > time_period_hour_id => period[g].last = 0
            /\ period[time_period_hour_id].last <= stopped.id
        BY <2>1, <2>3, <1>0 DEF LastInv
      <4>2. stopped.id \in Nat
        BY <1>0, Times
      <4> QED
        BY <2>1, <2>3, <3>1, <3>2, <4>1, <4>2, <1>n
    <3>6. cpc \in {"read", "write", "mark"} => chour < h
      BY <2>1, <3>1, <3>2, <1>0, <1>n DEF AloneInv
    <3>7. ~Marking(h)
      BY <3>1, <3>6, <1>n DEF Marking
    <3>8. counted[c] = 0
      BY <1>0, <2>1, <2>3, <3>1, <3>4, <3>5, <3>7 DEF Ahead
    <3>9. c \notin cbatch
      <4>1. ASSUME c \in cbatch PROVE FALSE
        <5>1. cpc = "write" /\ h = chour
          BY <4>1, <3>1, <1>0 DEF HandsInv
        <5> QED
          BY <5>1, <3>6, <1>n
      <4> QED
        BY <4>1
    <3> QED
      BY <2>1, <3>8, <3>9
  <2> QED
    BY <2>2, <2>3
<1>3. ~ReadCalls => batch' \subseteq batch
  BY <1>0 DEF Next, Daemon, Control, Environment, vars, daemon,
         StartDaemon, StartControl, OlderHours, NextHour,
         InitialPeriod, InitialClock, Poll, WriteBookmark, WriteCalls, WriteFails,
         ControlEnds, ReadHour, WriteHour, ReadFails, KillDaemon,
         WriteHourFails, MarkHour, Tick, StoreCall, StoreOverlapping, Commit, StopControl
<1>4. ~ReadHour => cbatch' \subseteq cbatch
  BY <1>0 DEF Next, Daemon, Control, Environment, vars, control,
         StartDaemon, StartControl, OlderHours, NextHour,
         InitialPeriod, InitialClock, Poll, ReadCalls, WriteBookmark, WriteCalls, WriteFails,
         ControlEnds, WriteHour, ReadFails, KillDaemon,
         WriteHourFails, MarkHour, Tick, StoreCall, StoreOverlapping, Commit, StopControl
<1>5. /\ ReadCalls => UNCHANGED <<counted, cbatch>> /\ ~ReadHour /\ dpc = "read"
      /\ ReadHour => UNCHANGED <<counted, batch, dpc, last_call_id>>
      /\ WriteCalls => cbatch' = cbatch /\ dpc = "write"
      /\ WriteHour => batch' = batch
  BY DEF ReadCalls, ReadHour, WriteCalls, WriteHour, DaemonGoes, daemon, control
<1>6. ASSUME NEW c \in Ids, counted'[c] # counted[c]
      PROVE  /\ counted[c] = 0 /\ counted'[c] = 1 /\ c \notin batch' /\ c \notin cbatch'
             /\ dpc # "off" => c <= last_call_id
             /\ WriteCalls \/ WriteHour
  <2>1. CASE WriteCalls /\ counted'[c] = counted[c] + 1 /\ c \in batch \ batch'
    BY <2>1, <1>0, <1>i, <1>5 DEF HandsInv
  <2>2. CASE WriteHour /\ counted'[c] = counted[c] + 1 /\ c \in cbatch \ cbatch'
    <3>1. dpc # "off" => c <= last_call_id
      BY <2>2, <1>i, <1>n
    <3> QED
      BY <2>2, <3>1, <1>i, <1>5
  <2> QED
    BY <2>1, <2>2, <1>0, <1>6, CountsGrow
<1>7. ASSUME NEW c \in Ids
      PROVE  counted'[c] <= 1
  BY <1>6, <1>i
<1>8. ASSUME NEW c \in batch' \cup cbatch'
      PROVE  counted'[c] = 0
  <2>1. c \in Ids /\ counted[c] = 0
    BY <1>1, <1>2, <1>3, <1>4, <1>i, <1>n
  <2> QED
    BY <2>1, <1>6
<1>9. batch' \cap cbatch' = {}
  BY <1>1, <1>2, <1>3, <1>4, <1>5, <1>i
<1>10. ASSUME dpc' # "off", NEW c \in Ids, c > last_call_id'
       PROVE  counted'[c] = 0 /\ c \notin cbatch'
  <2>1. CASE StartDaemon
    <3>1. last_call_id' = MaxId(committed) /\ UNCHANGED <<counted, cbatch>>
      <4>1. Calm'
        BY <1>0, OnceBefore
      <4>2. last_call_id' = MaxId(committed)
        BY <2>1, <4>1, <1>0, CalmSteps
      <4>3. UNCHANGED <<counted, cbatch>>
        BY <2>1 DEF StartDaemon, control
      <4> QED
        BY <4>2, <4>3
    <3>0. committed \in SUBSET (0..MaxCalls)
      BY <1>0, Known
    <3>2. \A d \in committed : d <= MaxId(committed)
      BY <3>0, MaxIdOf
    <3>3. MaxId(committed) \in Nat
      BY <3>0, MaxIdOf, ConstAssumption
    <3>4. c \notin committed
      BY <1>10, <3>1, <3>2, <3>3, <1>n
    <3>5. counted[c] = 0
      BY <3>4, <1>0, <1>n DEF QuietInv
    <3> QED
      BY <3>1, <3>4, <3>5, <1>n
  <2>2. CASE ~StartDaemon
    <3>1. dpc # "off"
      BY <2>2, <1>10, DaemonMoves
    <3>2. last_call_id <= last_call_id' /\ last_call_id' \in Nat
      <4>1. CASE ReadCalls
        <5>1. {last_call_id} \cup batch' \in SUBSET (0..MaxCalls)
          BY <4>1, <1>0, Known DEF ReadCalls, NewCalls
        <5> QED
          BY <4>1, <5>1, MaxIdOf DEF ReadCalls
      <4>2. ReadCalls \/ UNCHANGED last_call_id
        BY <2>2 DEF Next, Daemon, Control, Environment, vars, daemon,
             StartControl,
             InitialPeriod, InitialClock, Poll, WriteBookmark, WriteCalls, WriteFails,
             NextHour, OlderHours, ControlEnds, ReadHour, WriteHour, ReadFails, KillDaemon,
             WriteHourFails, MarkHour, Tick, StoreCall, StoreOverlapping, Commit, StopControl
      <4> QED
        BY <4>1, <4>2, <1>n
    <3>3. c > last_call_id
      BY <1>10, <3>2, <1>n
    <3>4. counted[c] = 0 /\ c \notin cbatch
      BY <3>1, <3>3, <1>i
    <3>5. counted'[c] = 0
      BY <3>1, <3>3, <3>4, <1>6, <1>n
    <3>6. c \notin cbatch'
      <4>1. CASE ReadHour
        BY <4>1, <1>1, <3>1, <3>3, <1>n
      <4> QED
        BY <4>1, <1>4, <3>4
    <3> QED
      BY <3>5, <3>6
  <2> QED
    BY <2>1, <2>2
<1> QED
  BY <1>7, <1>8, <1>9, <1>10 DEF ReadOnce

\* It holds of the calm invariants as well, step by step.
OnceAll == FirstInv /\ CalmInv /\ OnceInv

\* At first nothing is counted.
LEMMA OnceInit == Init => OnceInv
<1> SUFFICES ASSUME Init PROVE OnceInv
  OBVIOUS
<1>1. /\ cpc = "off" /\ batch = {} /\ cbatch = {} /\ counted = [c \in Ids |-> 0]
      /\ dpc = "off" \/ (dpc = "top" /\ period = WithRows(NoRows, {0}))
      /\ time_period_hour_id = 0
  BY DEF Init
<1>2. ASSUME dpc \notin {"off", "period"}
      PROVE  period[time_period_hour_id].st # "finished"
  <2>1. 0 \in Hours
    BY ConstAssumption DEF Hours
  <2> QED
    BY <1>1, <1>2, <2>1 DEF WithRows, NoRows
<1> QED
  BY <1>1, <1>2 DEF OnceInv, AloneInv, ReadOnce

\* FirstInv is inductive.
LEMMA FirstNext == FirstInv /\ [Next]_vars => FirstInv'
<1> SUFFICES ASSUME FirstInv, [Next]_vars PROVE FirstInv'
  OBVIOUS
<1>1. BaseInv'
  BY BaseNext DEF FirstInv
<1>2. QuietInv'
  BY QuietNext, <1>1 DEF FirstInv, BaseInv
<1>3. PollInv'
  <2>1. CASE "startup" \notin Happened'
    BY <2>1, <1>1, PollNext DEF FirstInv, BaseInv
  <2>2. CASE "startup" \in Happened'
    BY <2>2 DEF PollInv
  <2> QED
    BY <2>1, <2>2
<1> QED
  BY <1>1, <1>2, <1>3 DEF FirstInv

\* OnceInv is inductive together with the calm invariants.
LEMMA OnceNext == OnceAll /\ [Next]_vars => OnceInv'
<1> SUFFICES ASSUME OnceAll, [Next]_vars PROVE OnceInv'
  OBVIOUS
<1>1. FirstInv /\ CalmInv /\ OnceInv
  BY DEF OnceAll
<1>2. ASSUME Once' PROVE AloneInv' /\ ReadOnce'
  BY <1>1, <1>2, AloneNext, ReadOnceNext
<1> QED
  BY <1>2 DEF OnceInv

\* FirstInv holds at first.
LEMMA Starts == Init => FirstInv
BY TypeInit, ClockInit, RowsInit, HandsInit, LastInit, QuietInit DEF FirstInv, BaseInv

\* All of it holds in every behaviour.
LEMMA CountedOnce == Spec => []OnceAll
<1>1. Init => OnceAll
  BY Starts, CalmInit, OnceInit DEF OnceAll
<1>2. OnceAll /\ [Next]_vars => OnceAll'
  BY FirstNext, CalmNext, OnceNext DEF OnceAll
<1> QED
  BY <1>1, <1>2, PTL DEF Spec

\* No call is added to the statistics twice, whichever of the two programs adds
\* it, when calls are late and the hour changes during a poll, nor when the
\* daemon is killed at any point.
THEOREM CallsCountOnce == Spec => []CountedAtMostOnce
<1>1. OnceAll => CountedAtMostOnce
  BY DEF OnceAll, OnceInv, Once, ReadOnce, CountedAtMostOnce, NobodyCountedTwice
<1> QED
  BY <1>1, CountedOnce, PTL

\* No statement fails, ids come in their order, and the daemon is killed in its
\* sleep only.
Sound == Happened \subseteq {"late", "gap", "skip", "stop", "boundary", "race", "abort"}

\* A call is in the statistics or in the hands of the daemon.
Done(c) == counted[c] >= 1 \/ c \in batch

\* The bookmark f of hour h: every call of the hour up to it is done.
From(f, h) ==
    /\ f \in committed \cup {0}
    /\ \A c \in committed : calls[c].hour = h /\ c <= f => Done(c)

\* The daemon that starts knows the last id there is, and the bookmark of its
\* hour; the calls of later hours are stored after that.
StartInv ==
    /\ dpc = "period" => /\ stopped.id = 0
                         /\ \A h \in Hours : period[h].last <= last_call_id
    /\ dpc \notin {"off", "period"} /\ first_run =>
          /\ stopped.id = period[time_period_hour_id].last
          /\ stopped.id <= last_call_id
          /\ \A c \in committed : calls[c].hour > time_period_hour_id => c > last_call_id

\* What was read is done, and so is what a bookmark covers.
ReadInv ==
    /\ dpc # "off" /\ ~first_run =>
          \A c \in committed :
              calls[c].hour >= time_period_hour_id /\ c <= last_call_id => Done(c)
    /\ \A h \in Hours : From(period[h].last, h)
    /\ cpc # "off" => \A t \in todo : From(t.from, t.hour)
    /\ cpc = "read" => From(cfrom, chour)

\* Both hold as long as no statement fails.
SoundInv == Sound => StartInv /\ ReadInv

\* What cannot be while no statement fails.
LEMMA SoundSteps ==
    ASSUME FirstInv, [Next]_vars, Sound'
    PROVE  /\ Sound /\ Happened \subseteq Happened'
           /\ TypeOK /\ TypeOK' /\ ClockInv /\ ClockInv' /\ RowsInv /\ HandsInv /\ HandsInv'
           /\ LastInv /\ LastInv'
           /\ committed = 1..Len(calls) /\ committed' = 1..Len(calls')
           /\ \A c \in committed : ~calls[c].sharp
           /\ ~WriteFails /\ ~WriteHourFails /\ ~ReadFails /\ ~StoreOverlapping
           /\ KillDaemon => dpc = "top"
           /\ StartDaemon => last_call_id' = MaxId(committed)
           /\ WriteBookmark => period' = Bookmark /\ batch' = batch /\ dpc' # "off"
           /\ "startup" \notin Happened
<1>1. {"sharp", "overlap", "startup", "kill", "sql"} \cap Happened' = {}
  BY DEF Sound
<1>2. \A k \in {"sharp", "overlap", "startup", "kill", "sql"} : ~Event(k)
  BY <1>1, EventHappens
<1>3. /\ Happened \subseteq Happened' /\ TypeOK /\ TypeOK' /\ ClockInv /\ RowsInv /\ HandsInv
      /\ LastInv /\ BaseInv'
  BY CalmBefore
<1>4. QuietInv /\ QuietInv'
  BY QuietNext DEF FirstInv
<1>5. /\ committed = 1..Len(calls) /\ committed' = 1..Len(calls') /\ ~broken /\ ~cbroken
      /\ \A c \in 1..Len(calls) : ~calls[c].sharp
  BY <1>1, <1>3, <1>4 DEF QuietInv
<1>6. ~WriteFails /\ ~WriteHourFails /\ ~ReadFails /\ ~StoreOverlapping
  BY <1>2, <1>5 DEF WriteFails, WriteHourFails, ReadFails, StoreOverlapping
<1>7. WriteBookmark => period' = Bookmark /\ batch' = batch /\ dpc' # "off"
  BY <1>2 DEF WriteBookmark, DaemonGoes
<1>8. /\ KillDaemon => dpc = "top"
      /\ StartDaemon => last_call_id' = MaxId(committed)
  BY <1>2 DEF KillDaemon, StartDaemon
<1>9. Sound
  BY <1>3 DEF Sound
<1> QED
  BY <1>1, <1>3, <1>5, <1>6, <1>7, <1>8, <1>9 DEF BaseInv

\* A call that is stored has an id above every other.
LEMMA NewCall ==
    ASSUME FirstInv, [Next]_vars, Sound', NEW c \in committed'
    PROVE  \/ c \in committed /\ calls'[c] = calls[c] /\ c \in 1..Len(calls)
           \/ /\ c = Len(calls) + 1 /\ c \notin committed /\ StoreCall /\ Stored(c)
              /\ c > last_call_id /\ \A d \in committed : c > d
<1>0. /\ TypeOK /\ LastInv /\ committed = 1..Len(calls) /\ committed' = 1..Len(calls')
      /\ ~StoreOverlapping
  BY SoundSteps
<1>1. \/ c \in 1..Len(calls) /\ calls'[c] = calls[c]
      \/ c = Len(calls) + 1 /\ Stored(c) /\ StoreCall
  BY <1>0, CallsStay
<1>2. Len(calls) \in Nat
  BY <1>0, Known
<1>3. c = Len(calls) + 1 => /\ c \notin committed /\ c > last_call_id
                            /\ \A d \in committed : c > d
  BY <1>0, <1>2 DEF LastInv
<1> QED
  BY <1>0, <1>1, <1>3

\* What is done stays done.
LEMMA DoneStays ==
    ASSUME FirstInv, [Next]_vars, Sound', NEW c \in committed, Done(c)
    PROVE  Done(c)'
<1>0. /\ TypeOK /\ HandsInv /\ c \in Ids /\ ~WriteFails /\ ~ReadFails
      /\ KillDaemon => dpc = "top"
      /\ WriteBookmark => batch' = batch
  BY SoundSteps, Known
<1>1. counted[c] \in Nat /\ counted'[c] \in Nat /\ counted'[c] >= counted[c]
  BY <1>0, CountsGrow
<1>2. CASE counted[c] >= 1
  BY <1>1, <1>2 DEF Done
<1>3. CASE c \in batch
  <2>1. dpc \in {"bookmark", "write"}
    BY <1>0, <1>3 DEF HandsInv
  <2>2. CASE WriteCalls
    <3>1. PICK S \in Statements(batch) : counted' = Add(S) /\ batch' = batch \ S
      BY <2>2 DEF WriteCalls
    <3>2. c \in S => counted'[c] = counted[c] + 1
      BY <3>1, <1>0 DEF Add
    <3> QED
      BY <1>1, <1>3, <3>1, <3>2 DEF Done
  <2>3. CASE ~WriteCalls
    <3>1. batch' = batch
      BY <1>0, <2>1, <2>3 DEF Next, Daemon, Control, Environment, vars, daemon,
             StartDaemon, StartControl, InitialPeriod, InitialClock, Poll, ReadCalls,
             NextHour, OlderHours, ControlEnds, ReadHour, WriteHour, WriteHourFails,
             MarkHour, Tick, StoreCall, StoreOverlapping, Commit, KillDaemon, StopControl
    <3> QED
      BY <1>3, <3>1 DEF Done
  <2> QED
    BY <2>2, <2>3
<1> QED
  BY <1>2, <1>3 DEF Done

\* What a bookmark covers it goes on covering.
LEMMA FromStays ==
    ASSUME FirstInv, [Next]_vars, Sound', NEW h \in Hours, NEW f, From(f, h)
    PROVE  From(f, h)'
<1>1. f \in committed' \cup {0}
  BY CommitsStay, SoundSteps DEF From
<1>2. ASSUME NEW c \in committed', calls'[c].hour = h, c <= f
      PROVE  Done(c)'
  <2>1. c \in committed /\ calls'[c] = calls[c]
    <3>1. Len(calls) \in Nat /\ committed = 1..Len(calls)
      BY SoundSteps, Known
    <3> QED
      BY <1>2, <3>1, NewCall DEF From
  <2> QED
    BY <1>2, <2>1, DoneStays DEF From
<1> QED
  BY <1>1, <1>2 DEF From

\* A daemon that starts knows where it stands.
LEMMA StartNext ==
    ASSUME FirstInv, SoundInv, [Next]_vars, Sound'
    PROVE  StartInv'
<1>0. /\ Sound /\ TypeOK /\ TypeOK' /\ ClockInv /\ HandsInv /\ LastInv /\ StartInv /\ PollInv
      /\ "startup" \notin Happened
      /\ StartDaemon => last_call_id' = MaxId(committed)
      /\ ~ReadFails
  BY SoundSteps DEF FirstInv, SoundInv
<1>n. /\ now \in Nat /\ time_period_hour_id \in Nat /\ last_call_id \in Nat
      /\ now \in Hours /\ time_period_hour_id \in Hours
      /\ \A h \in Hours : h \in Nat /\ period[h].last \in Nat
  BY <1>0, Known, Times
<1>m. ASSUME NEW h \in Hours
      PROVE  \/ period'[h].last = period[h].last
             \/ WriteBookmark
  BY <1>0, BookmarksMove
<1>1. ASSUME dpc' = "period"
      PROVE  stopped'.id = 0 /\ \A h \in Hours : period'[h].last <= last_call_id'
  <2>1. CASE StartDaemon
    <3>1. committed \in SUBSET (0..MaxCalls)
      BY <1>0, Known
    <3>2. MaxId(committed) \in Nat /\ \A d \in committed : d <= MaxId(committed)
      BY <3>1, MaxIdOf, ConstAssumption
    <3>3. last_call_id' = MaxId(committed) /\ period' = period /\ stopped'.id = 0
      BY <2>1, <1>0 DEF StartDaemon
    <3>4. \A h \in Hours : period[h].last \in committed \cup {0}
      BY <1>0 DEF LastInv
    <3> QED
      BY <3>2, <3>3, <3>4
  <2>2. CASE ~StartDaemon
    <3>1. dpc = "period"
      BY <1>1, <2>2, DaemonMoves
    <3>2. UNCHANGED <<stopped, last_call_id>> /\ ~WriteBookmark
      BY <3>1, <1>1, <2>2, <1>0 DEF Next, Daemon, Control, Environment, vars, daemon, StartControl,
             InitialPeriod, InitialClock, Poll, ReadCalls, WriteBookmark, WriteCalls,
             WriteFails, NextHour, OlderHours, ControlEnds, ReadHour, WriteHour,
             WriteHourFails, MarkHour, Tick, StoreCall, StoreOverlapping, Commit,
             ReadFails, KillDaemon, StopControl, DaemonGoes
    <3>3. stopped.id = 0 /\ \A h \in Hours : period[h].last <= last_call_id
      BY <3>1, <1>0 DEF StartInv
    <3> QED
      BY <1>m, <3>2, <3>3
  <2> QED
    BY <2>1, <2>2
<1>2. ASSUME dpc' \notin {"off", "period"}, first_run'
      PROVE  /\ stopped'.id = period'[time_period_hour_id'].last
             /\ stopped'.id <= last_call_id'
             /\ \A c \in committed' :
                   calls'[c].hour > time_period_hour_id' => c > last_call_id'
  <2>1. CASE InitialPeriod
    <3>1. /\ time_period_hour_id' = now /\ UNCHANGED <<last_call_id, db>>
          /\ stopped' = StoppedAt(period') /\ dpc = "period"
      BY <2>1 DEF InitialPeriod
    <3>2. stopped'.id = period'[now].last /\ period'[now].last = period[now].last
      <4>1. stopped.id = 0
        BY <3>1, <1>0 DEF StartInv
      <4>2. stopped'.id = IF period'[now].last = 0 THEN stopped.id ELSE period'[now].last
        BY <3>1 DEF StoppedAt
      <4>3. ~WriteBookmark
        BY <3>1 DEF WriteBookmark
      <4> QED
        BY <4>1, <4>2, <4>3, <1>m, <1>n
    <3>3. period[now].last <= last_call_id
      BY <3>1, <1>0, <1>n DEF StartInv
    <3>4. ASSUME NEW c \in committed PROVE ~(calls[c].hour > now)
      <4>1. c \in 1..Len(calls) /\ calls[c].hour \in Hours
        BY <1>0, Known
      <4>2. calls[c].hour <= now /\ calls[c].hour \in Nat
        BY <4>1, <1>0, <1>n DEF ClockInv
      <4> QED
        BY <4>2, <1>n
    <3> QED
      BY <3>1, <3>2, <3>3, <3>4 DEF db
  <2>2. CASE ~InitialPeriod
    <3>1. dpc \notin {"off", "period"} /\ first_run
      BY <1>2, <2>2, <1>0 DEF Next, Daemon, Control, Environment, vars, daemon, StartControl,
             StartDaemon, InitialClock, Poll, ReadCalls, WriteBookmark, WriteCalls,
             WriteFails, NextHour, OlderHours, ControlEnds, ReadHour, WriteHour,
             WriteHourFails, MarkHour, Tick, StoreCall, StoreOverlapping, Commit,
             ReadFails, KillDaemon, StopControl, DaemonGoes
    <3>2. ~WriteBookmark
      BY <3>1, <1>0 DEF WriteBookmark, HandsInv
    <3>3. ~ReadCalls
      BY <1>2 DEF ReadCalls
    <3>4. ~(Poll /\ now # last_hour)
      BY <3>1, <1>0 DEF Poll, PollInv
    <3>5. UNCHANGED <<stopped, last_call_id, time_period_hour_id>>
      BY <3>1, <3>2, <3>3, <3>4, <2>2, <1>0 DEF Next, Daemon, Control, Environment, vars, daemon, StartControl,
             StartDaemon, InitialClock, Poll, WriteCalls,
             WriteFails, NextHour, OlderHours, ControlEnds, ReadHour, WriteHour,
             WriteHourFails, MarkHour, Tick, StoreCall, StoreOverlapping, Commit,
             ReadFails, KillDaemon, StopControl
    <3>6. /\ stopped.id = period[time_period_hour_id].last
          /\ stopped.id <= last_call_id
          /\ \A c \in committed : calls[c].hour > time_period_hour_id => c > last_call_id
      BY <3>1, <1>0 DEF StartInv
    <3>7. period'[time_period_hour_id].last = period[time_period_hour_id].last
      BY <1>m, <1>n, <3>2
    <3>8. ASSUME NEW c \in committed', calls'[c].hour > time_period_hour_id
          PROVE  c > last_call_id
      BY <3>6, <3>8, NewCall
    <3> QED
      BY <3>5, <3>6, <3>7, <3>8
  <2> QED
    BY <2>1, <2>2
<1> QED
  BY <1>1, <1>2 DEF StartInv

\* What was read, or is covered by a bookmark, is done.
LEMMA ReadNext ==
    ASSUME FirstInv, SoundInv, [Next]_vars, Sound'
    PROVE  ReadInv'
<1>0. /\ Sound /\ TypeOK /\ TypeOK' /\ ClockInv /\ HandsInv /\ LastInv /\ StartInv /\ PollInv
      /\ ReadInv /\ LastInv' /\ "startup" \notin Happened
      /\ \A c \in committed : ~calls[c].sharp
      /\ WriteBookmark => period' = Bookmark /\ batch' = batch
      /\ ~ReadFails
  BY SoundSteps DEF FirstInv, SoundInv
<1>n. /\ now \in Nat /\ time_period_hour_id \in Nat /\ last_call_id \in Nat
      /\ now \in Hours /\ time_period_hour_id \in Hours /\ stopped.id \in Nat
      /\ \A h \in Hours : h \in Nat /\ period[h].last \in Nat
      /\ \A c \in committed : c \in Nat /\ c > 0 /\ c \in 1..Len(calls) /\ calls[c].hour \in Hours
      /\ last_call_id' \in Nat
  <2>1. \A c \in 1..Len(calls) : c \in Nat /\ c > 0
    BY <1>0, Known
  <2>2. last_call_id' \in Nat
    BY <1>0 DEF TypeOK
  <2> QED
    BY <1>0, Known, Times, <2>1, <2>2
\* What the daemon has read.
<1>1. ASSUME dpc' # "off", ~first_run', NEW c \in committed',
             calls'[c].hour >= time_period_hour_id', c <= last_call_id'
      PROVE  Done(c)'
  <2>1. dpc # "off" /\ ~StartDaemon
    BY <1>1, DaemonMoves DEF StartDaemon
  <2>2. CASE ReadCalls
    <3>1. /\ batch' = NewCalls /\ UNCHANGED <<db, time_period_hour_id>> /\ dpc = "read"
          /\ last_call_id' = MaxId({last_call_id} \cup batch')
      BY <2>2 DEF ReadCalls
    <3>2. /\ c \in committed /\ calls[c].hour >= time_period_hour_id
      BY <1>1, <3>1 DEF db
    <3>3. CASE first_run
      <4>1. /\ stopped.hour = time_period_hour_id
            /\ stopped.id = period[time_period_hour_id].last /\ stopped.id <= last_call_id
            /\ calls[c].hour > time_period_hour_id => c > last_call_id
        BY <3>1, <3>2, <3>3, <1>0 DEF HandsInv, StartInv
      <4>2. CASE c > stopped.id
        <5>1. /\ \/ calls[c].hour > stopped.hour
                 \/ calls[c].hour = stopped.hour /\ ~calls[c].sharp
          <6>1. calls[c].hour \in Nat /\ ~calls[c].sharp
            BY <3>2, <1>0, <1>n
          <6>2. calls[c].hour > time_period_hour_id \/ calls[c].hour = time_period_hour_id
            BY <6>1, <3>2, <1>n
          <6> QED
            BY <6>1, <6>2, <4>1
        <5>2. c \in NewCalls
          BY <5>1, <4>2, <3>2, <3>3 DEF NewCalls
        <5>3. c \in batch'
          BY <5>2, <3>1
        <5> QED
          BY <5>3 DEF Done
      <4>3. CASE ~(c > stopped.id)
        <5>1. c <= period[time_period_hour_id].last /\ calls[c].hour = time_period_hour_id
          <6>1. c \in Nat /\ calls[c].hour \in Nat /\ calls[c].hour \in Hours
            BY <3>2, <1>n
          <6>2. c <= stopped.id /\ c <= last_call_id
            BY <6>1, <4>1, <4>3, <1>n
          <6>3. ~(c > last_call_id)
            BY <6>1, <6>2, <1>n
          <6> QED
            BY <3>2, <4>1, <6>1, <6>2, <6>3, <1>n
        <5>2. From(period[time_period_hour_id].last, time_period_hour_id)
          BY <1>0, <1>n DEF ReadInv
        <5> QED
          BY <5>1, <5>2, <3>2, DoneStays DEF From
      <4> QED
        BY <4>2, <4>3
    <3>4. CASE ~first_run
      <4>1. CASE c <= last_call_id
        BY <4>1, <3>1, <3>2, <3>4, <1>0, DoneStays DEF ReadInv
      <4>2. CASE ~(c <= last_call_id)
        <5>1. c > last_call_id
          BY <4>2, <3>2, <1>n
        <5> QED
          BY <5>1, <3>1, <3>2, <3>4 DEF NewCalls, Done
      <4> QED
        BY <4>1, <4>2
    <3> QED
      BY <3>3, <3>4
  <2>3. CASE ~ReadCalls
    <3>1. ~first_run /\ last_call_id' = last_call_id
      BY <2>1, <2>3, <1>0, <1>1 DEF Next, Daemon, Control, Environment, vars, daemon, StartControl,
             InitialPeriod, InitialClock, Poll, WriteBookmark, WriteCalls,
             WriteFails, NextHour, OlderHours, ControlEnds, ReadHour, WriteHour,
             WriteHourFails, MarkHour, Tick, StoreCall, StoreOverlapping, Commit,
             KillDaemon, StopControl
    <3>2. c \in committed /\ calls'[c] = calls[c]
      BY <1>1, <3>1, <1>n, NewCall
    <3>3. time_period_hour_id <= time_period_hour_id'
      <4>1. ~InitialPeriod
        BY <3>1, <1>0 DEF InitialPeriod, HandsInv
      <4> QED
        BY <4>1, <1>n, DaemonMoves
    <3>4. time_period_hour_id' \in Nat /\ calls[c].hour \in Nat
      BY <3>2, <1>n, <1>0, Times DEF TypeOK, Hours
    <3>5. calls[c].hour >= time_period_hour_id
      BY <1>1, <3>2, <3>3, <3>4, <1>n
    <3> QED
      BY <1>1, <2>1, <3>1, <3>2, <3>5, <1>0, DoneStays DEF ReadInv
  <2> QED
    BY <2>2, <2>3
\* What the bookmarks cover.
<1>2. ASSUME NEW h \in Hours, NEW f, f = period'[h].last
      PROVE  From(f, h)'
  <2>1. CASE f = period[h].last
    BY <2>1, <1>0, FromStays DEF ReadInv
  <2>2. CASE WriteBookmark /\ h = time_period_hour_id /\ f = last_call_id
    <3>1. dpc # "off" /\ ~first_run
      BY <2>2, <1>0 DEF WriteBookmark, HandsInv
    <3>2. \A c \in committed : calls[c].hour = h /\ c <= f => Done(c)
      BY <2>2, <3>1, <1>0, <1>n DEF ReadInv
    <3>3. f \in committed \cup {0}
      BY <2>2, <1>0 DEF LastInv
    <3>4. From(f, h)
      BY <3>2, <3>3 DEF From
    <3> QED
      BY <3>4, FromStays
  <2> QED
    BY <1>2, <2>1, <2>2, <1>0, BookmarksMove
\* What the control program has taken from them.
<1>3. ASSUME cpc' # "off", NEW t \in todo'
      PROVE  From(t.from, t.hour)'
  <2>1. t.hour \in Hours
    BY <1>0, Known DEF TypeOK
  <2>2. From(t.from, t.hour)
    <3>1. CASE t \in todo /\ cpc # "off"
      BY <3>1, <1>0 DEF ReadInv
    <3>2. CASE StartControl
      <4>1. t \in Missing
        BY <3>2, <1>3 DEF StartControl
      <4>2. t.from = period[t.hour].last
        BY <4>1, <1>0, MissingHours
      <4> QED
        BY <4>2, <2>1, <1>0 DEF ReadInv
    <3>3. CASE OlderHours
      <4>1. t.from = 0
        <5>1. todo' # {}
          BY <1>3
        <5>2. committed # {}
          BY <5>1, <3>3 DEF OlderHours
        <5>3. \E h \in Min({calls[c].hour : c \in committed})..(Min(Rows(Hours)) - 1) :
                 t = [hour |-> h, from |-> 0]
          BY <5>2, <3>3, <1>3 DEF OlderHours
        <5> QED
          BY <5>3
      <4> QED
        BY <4>1, <1>n DEF From
    <3>4. CASE ~StartControl /\ ~OlderHours
      <4>1. cpc # "off" /\ todo' \subseteq todo
        BY <3>4, <1>3 DEF Next, Daemon, Control, Environment, vars, control, StartDaemon,
             InitialPeriod, InitialClock, Poll, ReadCalls, WriteBookmark, WriteCalls,
             WriteFails, NextHour, ControlEnds, ReadHour, WriteHour,
             WriteHourFails, MarkHour, Tick, StoreCall, StoreOverlapping, Commit,
             ReadFails, KillDaemon, StopControl
      <4> QED
        BY <4>1, <1>3, <3>1
    <3> QED
      BY <3>2, <3>3, <3>4
  <2> QED
    BY <2>1, <2>2, FromStays
<1>4. ASSUME cpc' = "read"
      PROVE  From(cfrom, chour)'
  <2>1. chour' \in Hours
    BY <1>0 DEF TypeOK
  <2>2. PICK f, h : f = cfrom' /\ h = chour'
    OBVIOUS
  <2>3. From(f, h)
    <3>1. CASE NextHour
      <4>1. PICK t \in todo : cfrom' = t.from /\ chour' = t.hour
        BY <3>1 DEF NextHour
      <4>2. cpc # "off"
        BY <3>1 DEF NextHour
      <4> QED
        BY <4>1, <4>2, <2>2, <1>0 DEF ReadInv
    <3>2. CASE ~NextHour
      <4>1. cpc = "read" /\ UNCHANGED <<cfrom, chour>>
        BY <3>2, <1>4 DEF Next, Daemon, Control, Environment, vars, control, StartDaemon,
             StartControl, OlderHours,
             InitialPeriod, InitialClock, Poll, ReadCalls, WriteBookmark, WriteCalls,
             WriteFails, ControlEnds, ReadHour, WriteHour,
             WriteHourFails, MarkHour, Tick, StoreCall, StoreOverlapping, Commit,
             ReadFails, KillDaemon, StopControl
      <4> QED
        BY <4>1, <2>2, <1>0 DEF ReadInv
    <3> QED
      BY <3>1, <3>2
  <2>4. From(f, h)'
    BY <2>1, <2>2, <2>3, FromStays
  <2> QED
    BY <2>2, <2>4 DEF From
<1> QED
  <2>1. \A h \in Hours : From(period[h].last, h)'
    BY <1>2 DEF From
  <2> QED
    BY <1>1, <2>1, <1>3, <1>4 DEF ReadInv

\* The daemon is not stopped.
Up   == Happened \subseteq {"late", "gap", "boundary", "race", "abort"}

\* The daemon is stopped in its sleep, and no call is late.
Down == Happened \subseteq {"stop", "boundary", "race", "abort"}

\* The daemon is going to read the call.
Waiting(c) == dpc # "off" /\ ~first_run /\ c > last_call_id

\* The calls of finished hours, and of the hour that the control program is
\* going to mark.
UpInv ==
    Up => /\ dpc = "off" => cpc = "off" /\ \A h \in Hours : period[h].st = "absent"
          /\ \A c \in committed : period[calls[c].hour].st = "finished" => Done(c) \/ Waiting(c)
          /\ cpc \in {"write", "mark"} =>
                \A c \in committed :
                    calls[c].hour = chour => Done(c) \/ Waiting(c) \/ c \in cbatch

\* Without late calls nothing has to wait but what the next SELECT reads.
DownInv ==
    Down => /\ \A c \in committed :
                  period[calls[c].hour].st = "finished" =>
                      Done(c) \/ (Waiting(c) /\ dpc = "read")
            /\ cpc \in {"write", "mark"} =>
                  \A c \in committed : calls[c].hour = chour => Done(c) \/ c \in cbatch

\* A call that waits is read by the next SELECT.
LEMMA WaitingGoesOn ==
    ASSUME FirstInv, [Next]_vars, Sound', NEW c \in committed, Waiting(c), dpc' # "off"
    PROVE  \/ Done(c)'
           \/ Waiting(c)' /\ ~ReadCalls /\ (dpc = "read" => dpc' = "read")
<1>0. /\ HandsInv /\ ~ReadFails /\ ~WriteFails
      /\ KillDaemon => dpc = "top"
  BY SoundSteps
<1>1. CASE ReadCalls
  <2>1. c \in batch'
    BY <1>1 DEF Waiting, ReadCalls, NewCalls
  <2> QED
    BY <2>1 DEF Done
<1>2. CASE ~ReadCalls
  <2>1. UNCHANGED <<last_call_id, first_run>> /\ (dpc = "read" => dpc' = "read")
    BY <1>0, <1>2 DEF Waiting, HandsInv, Next, Daemon, Control, Environment, vars, daemon,
             StartDaemon, StartControl,
             InitialPeriod, InitialClock, Poll, WriteBookmark, WriteCalls,
             WriteFails, NextHour, OlderHours, ControlEnds, ReadHour, WriteHour,
             WriteHourFails, MarkHour, Tick, StoreCall, StoreOverlapping, Commit,
             KillDaemon, StopControl
  <2> QED
    BY <1>2, <2>1 DEF Waiting
<1> QED
  BY <1>1, <1>2

\* The two ways in which an hour comes to be finished.
LEMMA Marked ==
    ASSUME FirstInv, SoundInv, [Next]_vars, Sound', NEW c \in committed',
           period'[calls'[c].hour].st = "finished"
    PROVE  \/ c \in committed /\ period[calls[c].hour].st = "finished"
           \/ MarkHour /\ c \in committed /\ calls[c].hour = chour
           \/ Poll /\ c \in committed /\ Done(c)'
           \/ Poll /\ c \in committed /\ Waiting(c) /\ dpc' = "read"
           \/ /\ StoreCall /\ c \notin committed /\ c > last_call_id
              /\ period[calls'[c].hour].st = "finished" /\ Event(Late(calls'[c].hour))
<1>0. /\ TypeOK /\ TypeOK' /\ ClockInv /\ PollInv /\ Sound /\ ReadInv
      /\ "startup" \notin Happened
      /\ committed' = 1..Len(calls')
  BY SoundSteps DEF FirstInv, SoundInv
<1>n. /\ now \in Nat /\ last_call_id \in Nat
      /\ \A h \in Hours : h \in Nat
  BY <1>0, Known, Times
<1>c. calls'[c].hour \in Hours
  <2>1. CASE c \in committed /\ calls'[c] = calls[c] /\ c \in 1..Len(calls)
    BY <2>1, <1>0, Known
  <2>2. CASE Stored(c)
    BY <2>2, <1>0, Known DEF Stored
  <2> QED
    BY <2>1, <2>2, NewCall
<1>1. CASE c \notin committed
  <2>1. StoreCall /\ Stored(c) /\ c > last_call_id
    BY <1>1, NewCall
  <2>2. period' = period
    BY <2>1 DEF StoreCall
  <2>3. calls'[c].hour <= now /\ calls'[c].hour # now
    BY <1>c, <1>0, <1>n, <2>1, <2>2 DEF ClockInv, Stored
  <2>4. calls'[c].hour < now
    BY <2>3, <1>c, <1>n
  <2> QED
    BY <1>1, <2>1, <2>2, <2>4 DEF Stored
<1>2. CASE c \in committed
  <2>1. calls'[c] = calls[c]
    BY <1>2, NewCall
  <2>2. CASE Poll /\ now # last_hour /\ calls[c].hour = time_period_hour_id
    <3>1. dpc = "top" /\ dpc' = "read" /\ last_call_id' = last_call_id
      BY <2>2 DEF Poll, DaemonGoes
    <3>2. ~first_run
      BY <2>2, <3>1, <1>0 DEF PollInv
    <3>3. CASE c <= last_call_id
      <4>1. calls[c].hour >= time_period_hour_id
        BY <2>2, <1>c, <2>1, <1>n
      <4>2. Done(c)
        BY <4>1, <3>1, <3>2, <3>3, <1>2, <1>0 DEF ReadInv
      <4> QED
        BY <4>2, <1>2, <2>2, DoneStays
    <3>4. CASE ~(c <= last_call_id)
      <4>1. c \in Nat
        BY <1>2, <1>0, Known
      <4>2. c > last_call_id
        BY <4>1, <3>4, <1>n
      <4> QED
        BY <4>2, <3>1, <3>2, <2>2, <1>2 DEF Waiting
    <3> QED
      BY <3>3, <3>4
  <2>3. CASE ~(Poll /\ now # last_hour /\ calls[c].hour = time_period_hour_id)
    BY <2>1, <2>3, <1>2, <1>c, <1>0, RowsOnlyGrow
  <2> QED
    BY <2>2, <2>3
<1> QED
  BY <1>1, <1>2

\* The calls that the control program holds.
LEMMA Held ==
    ASSUME FirstInv, SoundInv, [Next]_vars, Sound', cpc' \in {"write", "mark"},
           NEW c \in committed', calls'[c].hour = chour'
    PROVE  \/ ReadHour /\ c \in committed /\ (c \in cbatch' \/ Done(c)')
           \/ /\ c \in committed /\ cpc \in {"write", "mark"} /\ calls[c].hour = chour
              /\ c \in cbatch => c \in cbatch' \/ Done(c)'
           \/ /\ StoreCall /\ c \notin committed /\ cpc \in {"write", "mark"}
              /\ c > last_call_id /\ calls'[c].hour < now /\ Event(Late(calls'[c].hour))
<1>0. /\ TypeOK /\ TypeOK' /\ ClockInv /\ HandsInv /\ Sound /\ ReadInv
      /\ ~WriteHourFails
  BY SoundSteps DEF SoundInv
<1>1. CASE c \notin committed
  <2>1. StoreCall /\ Stored(c) /\ c > last_call_id
    BY <1>1, NewCall
  <2>2. UNCHANGED <<cpc, chour>>
    BY <2>1 DEF StoreCall, control
  <2>3. calls'[c].hour < now
    BY <2>2, <1>0 DEF ClockInv
  <2> QED
    BY <1>1, <2>1, <2>2, <2>3 DEF Stored
<1>2. CASE c \in committed
  <2>0. calls'[c] = calls[c] /\ c \in Ids /\ c \in Nat
    <3>1. c \in Ids
      BY <1>2, <1>0, Known
    <3> QED
      BY <1>2, <3>1, NewCall DEF Ids
  <2>1. CASE ReadHour
    <3>1. cpc = "read" /\ chour' = chour
          /\ cbatch' = {d \in committed : calls[d].hour = chour /\ d > cfrom}
      BY <2>1 DEF ReadHour
    <3>2. From(cfrom, chour) /\ cfrom \in Nat
      BY <3>1, <1>0 DEF ReadInv, TypeOK
    <3>3. CASE c > cfrom
      BY <3>1, <3>3, <2>0, <2>1, <1>2
    <3>4. CASE ~(c > cfrom)
      <4>1. c <= cfrom
        BY <3>4, <3>2, <2>0
      <4>2. Done(c)
        BY <4>1, <3>1, <3>2, <2>0, <1>2 DEF From
      <4> QED
        BY <4>2, <2>1, <1>2, DoneStays
    <3> QED
      BY <3>3, <3>4
  <2>2. CASE WriteHour
    <3>1. PICK S \in Statements(cbatch) : counted' = Add(S) /\ cbatch' = cbatch \ S
      BY <2>2 DEF WriteHour
    <3>2. cpc = "write" /\ chour' = chour
      BY <2>2 DEF WriteHour
    <3>3. counted[c] \in Nat
      BY <2>0, <1>0 DEF TypeOK
    <3>4. c \in S => counted'[c] >= 1
      BY <3>1, <3>3, <2>0 DEF Add
    <3> QED
      BY <3>1, <3>2, <3>4, <2>0, <1>2 DEF Done
  <2>3. CASE ~ReadHour /\ ~WriteHour
    <3>1. cpc \in {"write", "mark"} /\ UNCHANGED <<chour, cbatch>>
      BY <2>3, <1>0 DEF Next, Daemon, Control, Environment, vars, control,
             StartDaemon, StartControl,
             InitialPeriod, InitialClock, Poll, ReadCalls, WriteBookmark, WriteCalls,
             WriteFails, NextHour, OlderHours, ControlEnds,
             MarkHour, Tick, StoreCall, StoreOverlapping, Commit, ReadFails,
             KillDaemon, StopControl
    <3> QED
      BY <3>1, <2>0, <1>2
  <2> QED
    BY <2>1, <2>2, <2>3
<1> QED
  BY <1>1, <1>2

\* UpInv is inductive.
LEMMA UpNext ==
    ASSUME FirstInv, SoundInv, UpInv, [Next]_vars
    PROVE  UpInv'
<1> SUFFICES ASSUME Up'
             PROVE  /\ dpc' = "off" => cpc' = "off" /\ \A h \in Hours : period'[h].st = "absent"
                    /\ \A c \in committed' :
                          period'[calls'[c].hour].st = "finished" => Done(c)' \/ Waiting(c)'
                    /\ cpc' \in {"write", "mark"} =>
                          \A c \in committed' : calls'[c].hour = chour' =>
                              Done(c)' \/ Waiting(c)' \/ c \in cbatch'
  BY DEF UpInv
<1>1. Sound'
  BY DEF Up, Sound
<1>0. /\ Sound /\ Happened \subseteq Happened' /\ TypeOK /\ TypeOK' /\ ClockInv /\ HandsInv
      /\ ~ReadFails /\ ~WriteFails
      /\ WriteBookmark => dpc' # "off"
  BY <1>1, SoundSteps
<1>2. Up
  BY <1>0 DEF Up
<1>i. /\ dpc = "off" => cpc = "off" /\ \A h \in Hours : period[h].st = "absent"
      /\ \A c \in committed : period[calls[c].hour].st = "finished" => Done(c) \/ Waiting(c)
      /\ cpc \in {"write", "mark"} =>
            \A c \in committed :
                calls[c].hour = chour => Done(c) \/ Waiting(c) \/ c \in cbatch
  BY <1>2 DEF UpInv
<1>3. ~Event("stop") /\ ~Event("kill") /\ ~Event("skip") /\ ~Event("startup")
  BY EventHappens DEF Up
<1>4. ~KillDaemon
  BY <1>3 DEF KillDaemon
<1>5. ASSUME dpc' = "off"
      PROVE  cpc' = "off" /\ \A h \in Hours : period'[h].st = "absent"
  <2>1. dpc = "off"
    BY <1>0, <1>4, <1>5 DEF Next, Daemon, Control, Environment, vars, daemon,
             StartDaemon, StartControl,
             InitialPeriod, InitialClock, Poll, ReadCalls, WriteBookmark, WriteCalls,
             NextHour, OlderHours, ControlEnds, ReadHour, WriteHour,
             WriteHourFails, MarkHour, Tick, StoreCall, StoreOverlapping, Commit,
             StopControl, DaemonGoes
  <2>2. cpc = "off" /\ \A h \in Hours : period[h].st = "absent"
    BY <2>1, <1>i
  <2>3. ~StartControl
    BY <2>2 DEF StartControl, Rows
  <2>4. UNCHANGED <<cpc, period>>
    BY <2>1, <2>2, <2>3, <1>5 DEF Next, Daemon, Control, Environment, vars, control,
             StartDaemon, InitialPeriod, InitialClock, Poll, ReadCalls, WriteBookmark,
             WriteCalls, WriteFails, NextHour, OlderHours, ControlEnds, ReadHour, WriteHour,
             WriteHourFails, MarkHour, Tick, StoreCall, StoreOverlapping, Commit,
             StopControl, ReadFails, KillDaemon, DaemonGoes
  <2> QED
    BY <2>2, <2>4
\* Whoever waited goes on waiting, unless the daemon reads the call.
<1>6. ASSUME NEW c \in committed, Done(c) \/ Waiting(c)
      PROVE  Done(c)' \/ Waiting(c)'
  <2>1. CASE Done(c)
    BY <2>1, <1>1, DoneStays
  <2>2. CASE Waiting(c)
    <3>1. dpc' # "off"
      BY <2>2, <1>0, <1>4 DEF Waiting, Next, Daemon, Control, Environment, vars, daemon,
             StartDaemon, StartControl,
             InitialPeriod, InitialClock, Poll, ReadCalls, WriteBookmark, WriteCalls,
             NextHour, OlderHours, ControlEnds, ReadHour, WriteHour,
             WriteHourFails, MarkHour, Tick, StoreCall, StoreOverlapping, Commit,
             StopControl, DaemonGoes
    <3> QED
      BY <2>2, <3>1, <1>1, WaitingGoesOn
  <2> QED
    BY <1>6, <2>1, <2>2
\* A call that comes late does so while the daemon goes on polling.
<1>7. ASSUME NEW c \in committed', StoreCall, c > last_call_id, dpc # "off",
             Event(Late(calls'[c].hour))
      PROVE  Waiting(c)'
  <2>1. ~Starting
    BY <1>3, <1>7 DEF Late
  <2>2. UNCHANGED <<dpc, first_run, last_call_id>> /\ first_run \in BOOLEAN
    BY <1>7, <1>0 DEF StoreCall, daemon, TypeOK
  <2> QED
    BY <2>1, <2>2, <1>7 DEF Starting, Waiting
<1>8. ASSUME NEW c \in committed', period'[calls'[c].hour].st = "finished"
      PROVE  Done(c)' \/ Waiting(c)'
  <2>1. CASE c \in committed /\ period[calls[c].hour].st = "finished"
    BY <2>1, <1>6, <1>i
  <2>2. CASE MarkHour /\ c \in committed /\ calls[c].hour = chour
    <3>1. cpc = "mark" /\ cbatch = {}
      BY <2>2, <1>0 DEF MarkHour, HandsInv
    <3> QED
      BY <2>2, <3>1, <1>6, <1>i
  <2>3. CASE Poll /\ c \in committed /\ Waiting(c) /\ dpc' = "read"
    BY <2>3, <1>6
  <2>4. CASE /\ StoreCall /\ c \notin committed /\ c > last_call_id
             /\ period[calls'[c].hour].st = "finished" /\ Event(Late(calls'[c].hour))
    <3>1. calls'[c].hour \in Hours
      <4>1. Stored(c)
        BY <2>4, <1>1, NewCall
      <4> QED
        BY <4>1, <1>0, Known DEF Stored
    <3>2. dpc # "off"
      BY <2>4, <3>1, <1>i
    <3> QED
      BY <2>4, <3>2, <1>7
  <2> QED
    BY <2>1, <2>2, <2>3, <2>4, <1>1, <1>8, Marked
<1>9. ASSUME cpc' \in {"write", "mark"}, NEW c \in committed', calls'[c].hour = chour'
      PROVE  Done(c)' \/ Waiting(c)' \/ c \in cbatch'
  <2>1. CASE /\ c \in committed /\ cpc \in {"write", "mark"} /\ calls[c].hour = chour
             /\ c \in cbatch => c \in cbatch' \/ Done(c)'
    BY <2>1, <1>6, <1>i
  <2>2. CASE /\ StoreCall /\ cpc \in {"write", "mark"} /\ c > last_call_id
             /\ Event(Late(calls'[c].hour))
    <3>1. dpc # "off"
      BY <2>2, <1>i
    <3> QED
      BY <2>2, <3>1, <1>7
  <2> QED
    BY <2>1, <2>2, <1>1, <1>9, Held
<1> QED
  BY <1>5, <1>8, <1>9

\* DownInv is inductive.
LEMMA DownNext ==
    ASSUME FirstInv, SoundInv, DownInv, [Next]_vars
    PROVE  DownInv'
<1> SUFFICES ASSUME Down'
             PROVE  /\ \A c \in committed' :
                          period'[calls'[c].hour].st = "finished" =>
                              Done(c)' \/ (Waiting(c)' /\ dpc' = "read")
                    /\ cpc' \in {"write", "mark"} =>
                          \A c \in committed' :
                              calls'[c].hour = chour' => Done(c)' \/ c \in cbatch'
  BY DEF DownInv
<1>1. Sound'
  BY DEF Down, Sound
<1>0. /\ Sound /\ Happened \subseteq Happened' /\ HandsInv
  BY <1>1, SoundSteps
<1>2. Down
  BY <1>0 DEF Down
<1>i. /\ \A c \in committed :
            period[calls[c].hour].st = "finished" => Done(c) \/ (Waiting(c) /\ dpc = "read")
      /\ cpc \in {"write", "mark"} =>
            \A c \in committed : calls[c].hour = chour => Done(c) \/ c \in cbatch
  BY <1>2 DEF DownInv
<1>3. \A h : ~Event(Late(h))
  BY EventHappens DEF Down, Late
<1>4. ASSUME NEW c \in committed, Done(c)
      PROVE  Done(c)'
  BY <1>4, <1>1, DoneStays
<1>5. ASSUME NEW c \in committed', period'[calls'[c].hour].st = "finished"
      PROVE  Done(c)' \/ (Waiting(c)' /\ dpc' = "read")
  <2>1. CASE c \in committed /\ period[calls[c].hour].st = "finished"
    <3>1. CASE Waiting(c) /\ dpc = "read"
      <4>1. CASE dpc' = "off"
        <5>1. /\ ~ReadFails
              /\ KillDaemon => dpc = "top"
          BY <1>1, SoundSteps
        <5> QED
          BY <3>1, <4>1, <5>1 DEF Next, Daemon, Control, Environment, vars, daemon,
             StartDaemon, StartControl,
             InitialPeriod, InitialClock, Poll, ReadCalls, WriteBookmark, WriteCalls,
             WriteFails, NextHour, OlderHours, ControlEnds, ReadHour, WriteHour,
             WriteHourFails, MarkHour, Tick, StoreCall, StoreOverlapping, Commit,
             StopControl, DaemonGoes
      <4> QED
        BY <2>1, <3>1, <4>1, <1>1, WaitingGoesOn
    <3> QED
      BY <2>1, <3>1, <1>4, <1>i
  <2>2. CASE MarkHour /\ c \in committed /\ calls[c].hour = chour
    <3>1. cpc = "mark" /\ cbatch = {}
      BY <2>2, <1>0 DEF MarkHour, HandsInv
    <3> QED
      BY <2>2, <3>1, <1>4, <1>i
  <2>3. CASE Poll /\ c \in committed /\ Waiting(c) /\ dpc' = "read"
    BY <2>3, <1>1, WaitingGoesOn
  <2> QED
    BY <2>1, <2>2, <2>3, <1>1, <1>3, <1>5, Marked
<1>6. ASSUME cpc' \in {"write", "mark"}, NEW c \in committed', calls'[c].hour = chour'
      PROVE  Done(c)' \/ c \in cbatch'
  BY <1>1, <1>3, <1>4, <1>6, <1>i, Held
<1> QED
  BY <1>5, <1>6

\* The three invariants hold at first.
LEMMA SoundInit == Init => SoundInv /\ UpInv /\ DownInv
<1> SUFFICES ASSUME Init PROVE SoundInv /\ UpInv /\ DownInv
  OBVIOUS
<1>1. /\ committed = {} /\ cpc = "off" /\ last_call_id = 0
      /\ \/ dpc = "off" /\ period = NoRows
         \/ dpc = "top" /\ first_run = FALSE /\ period = WithRows(NoRows, {0})
  BY DEF Init
<1>2. \A h \in Hours : period[h].last = 0
  BY <1>1 DEF NoRows, WithRows
<1>3. \A h \in Hours : From(period[h].last, h)
  BY <1>1, <1>2 DEF From
<1>4. dpc = "off" => \A h \in Hours : period[h].st = "absent"
  BY <1>1 DEF NoRows
<1> QED
  BY <1>1, <1>3, <1>4 DEF SoundInv, StartInv, ReadInv, UpInv, DownInv

\* SoundInv is inductive.
LEMMA SoundNext ==
    ASSUME FirstInv, SoundInv, [Next]_vars
    PROVE  SoundInv'
  BY StartNext, ReadNext DEF SoundInv

\* All that holds of the calls and of who has them.
CallsInv == OnceAll /\ SoundInv /\ UpInv /\ DownInv

\* They hold in every behaviour.
LEMMA CallsKept == Spec => []CallsInv
<1>1. Init => CallsInv
  BY Starts, CalmInit, OnceInit, SoundInit DEF CallsInv, OnceAll
<1>2. CallsInv /\ [Next]_vars => CallsInv'
  BY FirstNext, CalmNext, OnceNext, SoundNext, UpNext, DownNext DEF CallsInv, OnceAll
<1> QED
  BY <1>1, <1>2, PTL DEF Spec

\* No call of an hour that is marked as finished is missing in the statistics,
\* unless a program that runs is going to add it: nobody comes back to such an
\* hour.
THEOREM FinishedHoursAreComplete == Spec => []FinishedHourIsComplete
<1>1. ASSUME CallsInv, Up \/ Down
      PROVE  FinishedHoursAreCounted
  <2>1. ASSUME NEW c \in committed, period[calls[c].hour].st = "finished"
        PROVE  Done(c) \/ Waiting(c)
    BY <1>1, <2>1 DEF CallsInv, UpInv, DownInv
  <2> QED
    BY <2>1 DEF Done, Waiting, FinishedHoursAreCounted
<1>2. CallsInv => FinishedHourIsComplete
  BY <1>1 DEF FinishedHourIsComplete, Up, Down
<1> QED
  BY <1>2, CallsKept, PTL

\* The bookmark of an hour that is open separates its calls that are in the
\* statistics from those that are not, when nobody is at the hour: whoever
\* resumes there neither skips nor repeats a call.
THEOREM OpenHoursResumeExactly == Spec => []OpenHourResumesExactly
<1>1. ASSUME CallsInv, Happened \subseteq {"stop", "late", "skip", "race"}, dpc \in {"off", "top"},
             NEW c \in committed, period[calls[c].hour].st = "open",
             ~(chour = calls[c].hour /\ cpc \in {"read", "write", "mark"})
      PROVE  counted[c] >= 1 <=> c <= period[calls[c].hour].last
  <2>0. TypeOK /\ HandsInv /\ Ahead /\ ReadInv /\ ~Boundary
    BY <1>1 DEF CallsInv, OnceAll, FirstInv, BaseInv, CalmInv, Calm, SoundInv, Sound, Boundary
  <2>1. c \in Ids /\ c \in Nat /\ calls[c].hour \in Hours
    <3>1. c \in Ids /\ calls[c].hour \in Hours
      BY <2>0, Known
    <3> QED
      BY <3>1 DEF Ids
  <2>2. period[calls[c].hour].last \in Nat /\ batch = {}
    <3>1. batch = {}
      BY <2>0, <1>1 DEF HandsInv
    <3> QED
      BY <2>0, <2>1, <3>1, Known
  <2>3. c <= period[calls[c].hour].last => counted[c] >= 1
    BY <2>0, <2>1, <2>2 DEF ReadInv, From, Done
  <2>4. ASSUME c > period[calls[c].hour].last
        PROVE  counted[c] = 0
    BY <1>1, <2>0, <2>4 DEF Ahead, Marking
  <2> QED
    BY <2>1, <2>2, <2>3, <2>4
<1>2. CallsInv => OpenHourResumesExactly
  BY <1>1 DEF OpenHourResumesExactly, BookmarksSeparate
<1> QED
  BY <1>2, CallsKept, PTL
===============================================================================
