------------------------------ MODULE MCRerate ------------------------------
(* Constant definitions for the run of Rerate.                               *)
EXTENDS Rerate, TLC

CONSTANTS ann, bob, day, night

\* Calls of a user, of a user and the reseller, and of the reseller itself; the
\* last one ends while the program runs.  The second one is older than the first.
PayersOfCalls == <<<<ann>>, <<ann, bob>>, <<bob>>, <<ann>>, <<bob>>>>
Kinds == <<day, night, day, day, night>>
Dates == <<2, 1, 3, 4, 5>>

\* The price of the reseller, bob, does not change by day.
Rates == ann :> (day :> 2 @@ night :> 3) @@ bob :> (day :> 1 @@ night :> 4)
=============================================================================
