------------------------------ MODULE MCCases ------------------------------
\* Cases on small sets: at most two cases, one or two analysts.
EXTENDS Cases
=============================================================================
