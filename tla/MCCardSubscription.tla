------------------------- MODULE MCCardSubscription -------------------------
\* Two or three invoices, one or two workers.
EXTENDS CardSubscription, TLC

CONSTANTS w1, w2

MCOneWorker  == {w1}
MCTwoWorkers == {w1, w2}
=============================================================================
