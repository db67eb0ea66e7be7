\* Every file of MavkitFiles, loaded twice: the node starting and restarting.
\* The harness stops after MaxLoads loads, so deadlock is not checked.
CONSTANTS MaxLoads = 2
          None = None
SPECIFICATION Spec
CHECK_DEADLOCK FALSE
INVARIANTS GenesisFollowsFile 
