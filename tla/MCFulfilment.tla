---------------------------- MODULE MCFulfilment ----------------------------
\* A new order, a second new order and a top-up order; two profiles.
EXTENDS Fulfilment, TLC

CONSTANTS o1, o2, t1, t2, i1, i2, w1, w2

MCOneOrder  == {o1}
MCTwoNew    == {o1, o2}
MCNewAndTop == {o1, t1}
MCTop       == {t1}
MCThree     == {o1, t1, t2}
MCTops      == {t1, t2}
MCOrphan    == {t2}
MCNone      == {}
MCIccids    == {i1, i2}
MCWorkers   == {w1, w2}
MCOneWorker == {w1}
=============================================================================
