---------------------------- MODULE MCSlurmReader ----------------------------
(* One node, one kind of job and one reader. *)
EXTENDS SlurmNodesReader

ReaderNodes == {"node-1"}
ReaderCapacity == [n \in ReaderNodes |-> [r \in Resources |-> 2]]
ReaderPartitions == [p \in {"h100"} |-> <<"node-1">>]
ReaderRequests ==
    {[partition |-> "", tasks |-> 1, cpusPerTask |-> 1, gpuCount |-> 1,
      scriptNamesGpu |-> FALSE, memory |-> 1, timeLimit |-> 1]}
=============================================================================
