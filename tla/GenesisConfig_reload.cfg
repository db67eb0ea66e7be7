\* The same files and loads, asking whether two loads of a file agree.
\* The harness stops after MaxLoads loads, so deadlock is not checked.
CONSTANTS MaxLoads = 2
          None = None
SPECIFICATION Spec
CHECK_DEADLOCK FALSE
INVARIANT SameFileSameConfig
