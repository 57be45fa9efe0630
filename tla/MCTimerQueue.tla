---------------------------- MODULE MCTimerQueue ----------------------------
EXTENDS TimerQueue

OneShot == [repeat |-> FALSE, interval |-> 0]
Every(n) == [repeat |-> TRUE, interval |-> n]

ShortIntervals == {OneShot, Every(0), Every(1)}

BothWays == {-1, 1}
=============================================================================
