---------------------------- MODULE MCAutoDialer ----------------------------
(* Constant definitions for the run of AutoDialer.                           *)
EXTENDS AutoDialer, TLC

CONSTANTS a, b, n1, n2

\* Both campaigns have the first number.
NumbersOfCampaigns == {<<a, n1>>, <<a, n2>>, <<b, n1>>}

\* The runs are interchangeable.
Symmetry == Permutations(Crons)
=============================================================================
