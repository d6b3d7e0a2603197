--------------------------- MODULE MCWindowState -----------------------------
\* Instances of WindowState for TLC.
EXTENDS WindowState

CONSTANTS t1, t2, w1, w2

ConstThreads == {t1, t2}
TwoWindows   == {w1, w2}
TwoSizes     == {1, 2}
\* One window is shared, the other the first thread's own.
ConstUsers   == [w \in TwoWindows |-> IF w = w1 THEN ConstThreads ELSE {t1}]
==============================================================================
