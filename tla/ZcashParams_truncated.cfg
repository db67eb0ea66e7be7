\* One fault: a copy that fails, or a crash, after the destination was created.
CONSTANTS Nodes = {n1}
          MaxFaults = 1
SPECIFICATION Spec
INVARIANT OkMeansUsable
