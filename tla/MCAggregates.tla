---------------------------- MODULE MCAggregates -----------------------------
(* The instances of Aggregates that TLC checks.                             *)
EXTENDS Aggregates

\* What a program leaves in its memory when it ends, and what it has not set
\* yet when it starts, nobody reads: states that differ in that only are one.
DaemonMemory ==
    CASE dpc = "off"    -> <<>>
      [] dpc = "period" -> <<last_call_id>>
      [] dpc = "clock"  -> <<last_call_id, time_period_hour_id, stopped>>
      [] OTHER -> <<last_call_id, time_period_hour_id, last_hour, first_run,
                    IF first_run THEN stopped ELSE <<>>, batch, broken>>

ControlMemory ==
    CASE cpc = "off"  -> <<>>
      [] cpc = "pick" -> <<phase, todo, cbroken>>
      [] cpc = "read" -> <<phase, todo, cbroken, chour, cfrom>>
      [] OTHER -> <<phase, todo, cbroken, chour, cbatch>>

Memory == <<now, db, period, counted, events, dpc, DaemonMemory, cpc, ControlMemory>>
=============================================================================
