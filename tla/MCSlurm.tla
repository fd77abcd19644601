------------------------------- MODULE MCSlurm -------------------------------
(* Small instances of SlurmCluster for TLC. *)
EXTENDS SlurmRefinesBroker

Box(cpus, memory, gpus) ==
    [r \in Resources |-> CASE r = "cpus" -> cpus
                           [] r = "memory" -> memory
                           [] r = "gpus" -> gpus]

MCNodeNames == {"node-1", "node-2", "node-3"}

\* As in NewClusterStore, the first partition has two nodes; here they differ,
\* so that first fit has something to decide.
MCCapacity ==
    [n \in MCNodeNames |-> CASE n = "node-1" -> Box(2, 3, 2)
                             [] n = "node-2" -> Box(3, 2, 1)
                             [] n = "node-3" -> Box(1, 1, 1)]

MCPartitions == [p \in {"h100", "a100"} |->
                    IF p = "h100" THEN <<"node-1", "node-2">> ELSE <<"node-3">>]

Body(partition, cpus, gpus, memory, timeLimit) ==
    [partition |-> partition, tasks |-> 1, cpusPerTask |-> cpus,
     gpuCount |-> gpus, scriptNamesGpu |-> FALSE, memory |-> memory,
     timeLimit |-> timeLimit]

\* A job that takes node-1 whole, one that fits either node, one that leaves
\* every field to the defaults but is named by its script as a GPU job, one
\* for a partition that does not exist, and one no node of its partition will
\* ever fit.
MCRequests ==
    {Body("h100", 2, 2, 1, 2),
     Body("h100", 1, 0, 2, 1),
     [Body("", 0, 0, 0, 0) EXCEPT !.scriptNamesGpu = TRUE],
     Body("none", 1, 1, 1, 1),
     Body("a100", 1, 2, 1, 1)}

\* Requests whose memory is below zero: the handler only replaces zero.
MCNegativeRequests == {Body("h100", 1, 1, -1, 1), Body("h100", 1, 0, 2, 1)}
=============================================================================
