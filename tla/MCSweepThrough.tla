---------------------------- MODULE MCSweepThrough ----------------------------
EXTENDS SweepThrough, TLC

CONSTANTS a, b

MCAmounts == <<2, 1>>
MCTwoEqual == <<3, 3>>
MCPasses == Permutations({a, b})
=============================================================================
