CONSTANTS
    MaxJobs = 3
    NodeNames <- MCNodeNames
    Capacity <- MCCapacity
    Partitions <- MCPartitions
    Requests <- MCRequests
    DefaultPartition = "h100"
    DefaultDuration = 1
    DefaultMemory = 1
SPECIFICATION FairSpec
INVARIANTS TypeOK Ledger NoOversubscription NodeStateTracksJobs
    RunningJobsArePlaced PassIsThorough
PROPERTIES Lifecycle ImplementsBroker RunningJobsEnd QueueDrains
