---------------------------- MODULE MCLiveClock ----------------------------
EXTENDS LiveClock, TLC

CONSTANTS m1, m2

TwoStreams == <<m1, m2>>
=============================================================================
