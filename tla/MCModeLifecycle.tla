--------------------------- MODULE MCModeLifecycle ---------------------------
EXTENDS ModeLifecycle

CONSTANTS m1, m2, \* modes
          c1, c2  \* callers of stop()
===============================================================================
