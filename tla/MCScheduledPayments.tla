------------------------- MODULE MCScheduledPayments -------------------------
EXTENDS ScheduledPayments, TLC

CONSTANTS w1, w2

MCWorkers == Permutations({w1, w2})
=============================================================================
