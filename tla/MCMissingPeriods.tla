--------------------------- MODULE MCMissingPeriods ---------------------------
\* Instances of MissingPeriods for TLC.
EXTENDS MissingPeriods
=============================================================================
