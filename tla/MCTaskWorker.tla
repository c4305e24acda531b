--------------------------- MODULE MCTaskWorker ---------------------------
EXTENDS TaskWorker, TLC

CONSTANTS w1, w2, t1, p1, p2, b1, u1, u2, chat
=============================================================================
