CONSTANTS
    MaxJobs = 1
    NodeNames <- MCNodeNames
    Capacity <- MCCapacity
    Partitions <- MCPartitions
    Requests <- MCRequests
    DefaultPartition = "h100"
    DefaultDuration = 1
    DefaultMemory = 1
SPECIFICATION Spec
PROPERTIES OnlyLiveJobsAreCancelled
