----------------------------- MODULE MCPrepaid ------------------------------
(* Constant definitions for the runs of Prepaid.                             *)
EXTENDS Prepaid, TLC

CONSTANTS u1, u2, v1, c1, c2, d1, r1

\* The second user belongs to a reseller.
Owners == u1 :> Nobody @@ u2 :> r1

\* The voucher has the number of the first card.
Numbers == v1 :> c1

\* A distributor has the second card.
Distributes == c1 :> Nobody @@ c2 :> d1

\* The distributor is prepaid.
Debts == d1 :> 0

\* The sessions are interchangeable.
Symmetry == Permutations(Sessions)
=============================================================================
