\* Two nodes and no faults at all: one node's probe runs while the other
\* is inside fs::copy.
CONSTANTS Nodes = {n1, n2}
          MaxFaults = 0
SPECIFICATION Spec
INVARIANT OkMeansUsable
