---------------------------- MODULE MCSettlement ----------------------------
\* An order and a top-up, one or both of them in a run; cents scaled so that an
\* invoice is 50: 49 is the least sum that settles, 48 the most that does not, 60
\* an overpayment.
EXTENDS Settlement, TLC

CONSTANTS order1, topup1, w1, w2

MCOrder   == {order1}
MCTopUp   == {topup1}
MCBoth    == {order1, topup1}
MCNone    == {}
MCWorkers == {w1, w2}
MCReports == {48, 49, 60}
MCReports2 == {48, 60}

\* The workers are alike.
WorkerSymmetry == Permutations(MCWorkers)
=============================================================================
