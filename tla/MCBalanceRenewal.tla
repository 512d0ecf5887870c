-------------------------- MODULE MCBalanceRenewal --------------------------
\* One or two subscription rows, runs and web workers; a period of two days and
\* a day of grace, so that a renewal can be late by less and by more than it.
EXTENDS BalanceRenewal

CONSTANTS s1, s2, r1, r2, w1, w2

MCOneSub  == {s1}
MCTwoSubs == {s1, s2}
MCOneRun  == {r1}
MCTwoRuns == {r1, r2}
MCOneWorker  == {w1}
MCTwoWorkers == {w1, w2}
=============================================================================
