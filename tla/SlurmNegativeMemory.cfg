CONSTANTS
    MaxJobs = 3
    NodeNames <- MCNodeNames
    Capacity <- MCCapacity
    Partitions <- MCPartitions
    Requests <- MCNegativeRequests
    DefaultPartition = "h100"
    DefaultDuration = 1
    DefaultMemory = 1
SPECIFICATION Spec
INVARIANTS DrainedNodesAreWhole
