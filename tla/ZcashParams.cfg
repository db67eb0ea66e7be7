\* Two faults: enough for a failed copy followed by a crash on the next start.
CONSTANTS Nodes = {n1, n2}
          MaxFaults = 2
SPECIFICATION Spec
INVARIANT OkMeansPresent
PROPERTY EventuallyReady
