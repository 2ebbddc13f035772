--------------------------- MODULE MCAlertActions ----------------------------
(* Constant definitions for the runs of AlertActions.                         *)
EXTENDS AlertActions, TLC

Alert(c, l, b, blocks, t) ==
    [check |-> c, lcr |-> l, back |-> b, block |-> blocks, timed |-> t]

\* Device 2 belongs to user 1.
Owners == 2 :> 1

\* Each user has an LCR of its own.
Lcrs == 1 :> 1 @@ 2 :> 2

\* An alert on users that blocks them, changes their LCR and is cleared by time,
\* one that only sends e-mail, one on devices that changes an LCR, and the alert of
\* their group, on users, which does all that the first does.
FourAlerts == <<Alert("user", 11, -1, TRUE, TRUE), Alert("user", 0, 0, FALSE, FALSE),
                Alert("device", 13, -1, FALSE, FALSE), Alert("user", 14, -1, TRUE, TRUE)>>
=============================================================================
