CONSTANTS
    MaxJobs = 1
    NodeNames <- ReaderNodes
    Capacity <- ReaderCapacity
    Partitions <- ReaderPartitions
    Requests <- ReaderRequests
    DefaultPartition = "h100"
    DefaultDuration = 1
    DefaultMemory = 1
SPECIFICATION ReaderSpec
INVARIANTS NodesReplyIsConsistent
