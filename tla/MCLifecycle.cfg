\* Three requests against one interrupt; the process ends, so TLC must not
\* take its end for a deadlock.
CONSTANT Request = {r1, r2, r3}
SPECIFICATION Spec
INVARIANT PoolOutlivesListener
PROPERTY InterruptStops
CHECK_DEADLOCK FALSE
