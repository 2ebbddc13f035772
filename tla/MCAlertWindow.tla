---------------------------- MODULE MCAlertWindow ----------------------------
(* Constant definitions for the runs of AlertWindow.                          *)
EXTENDS AlertWindow

CONSTANTS a1, a2

\* A minute's period, cleared after three ticks, which the GUI may change to one
\* that is not to be cleared, or counts the calls of another object.
Short == [raw |-> 1, of |-> {1, 2}, more |-> 1, clear_period |-> 3,
          clear_date |-> FALSE, disable_clear |-> FALSE]
Kept == [Short EXCEPT !.disable_clear = TRUE]
Other == [Short EXCEPT !.of = {1}]

\* The whole ring, cleared by its sum or on a date.
Whole == [Short EXCEPT !.raw = 0, !.more = 2, !.clear_period = 0, !.clear_date = TRUE]

TwoAlerts == {a1, a2}

SomeSettings == [a \in TwoAlerts |-> IF a = a1 THEN {Short, Kept, Other} ELSE {Whole}]
=============================================================================
