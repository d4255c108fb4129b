----------------------------- MODULE MCEventQueue -----------------------------
EXTENDS EventQueue

CONSTANTS p1, p2, p3, p4, p5

\* p1, p2 are queue events, p3 a plain event with callback, p4, p5 without.
MCPosting == {p1, p2, p3, p4, p5}
MCWithCallback == {p1, p2, p3}
MCQueueEvents == {p1, p2}
===============================================================================
