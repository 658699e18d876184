---------------------------- MODULE MCScheduler -----------------------------
EXTENDS Scheduler

CONSTANTS c1, c2, c3

Three == {c1, c2, c3}
==============================================================================
