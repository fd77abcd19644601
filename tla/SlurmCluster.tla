---------------------------- MODULE SlurmCluster ----------------------------
(***************************************************************************)
(* The Slurm simulator: the ClusterStore shared by the REST handlers and   *)
(* the background Scheduler (slurm-simulator/store.go, scheduler.go and    *)
(* the submit and cancel handlers of handlers.go).                         *)
(*                                                                         *)
(* Handlers run to completion under store.mu, so each is one action.  The  *)
(* scheduler's pass also runs under store.mu, but it walks a Go map, whose *)
(* order is random, and changes the store job by job: it is modelled one   *)
(* job per step, and "phase" says where the pass is.  The lock is held by  *)
(* the pass exactly when phase # "idle".                                   *)
(***************************************************************************)
EXTENDS Integers, Sequences, FiniteSets

CONSTANTS
    MaxJobs,            \* bound: how many jobs are ever submitted
    NodeNames,          \* keys of store.Nodes
    Capacity,           \* Capacity[n][r]: what node n has of resource r
    Partitions,         \* Partitions[p]: the node names of p, in order
    Requests,           \* decoded bodies of POST /job/submit
    DefaultPartition, DefaultDuration, DefaultMemory

Resources == {"cpus", "memory", "gpus"}

JobIds == 1 .. MaxJobs     \* k stands for job_id 10000 + k

Empty == ""     \* the zero string: no partition named, no node given

ASSUME MaxJobsAssumption == MaxJobs \in Nat
ASSUME CapacityAssumption == Capacity \in [NodeNames -> [Resources -> Nat]]
ASSUME PartitionsAssumption ==
    \A p \in DOMAIN Partitions : Partitions[p] \in Seq(STRING)
ASSUME RequestsAssumption ==
    Requests \subseteq [partition : STRING, tasks : Int, cpusPerTask : Int,
                        gpuCount : Int, scriptNamesGpu : BOOLEAN,
                        memory : Int, timeLimit : Int]
ASSUME DefaultsAssumption ==
    /\ DefaultPartition \in STRING
    /\ DefaultDuration \in Nat \ {0}
    /\ DefaultMemory \in Nat
ASSUME NodeNamesAssumption == NodeNames \subseteq STRING \ {Empty}

VARIABLES
    jobState,   \* jobState[j]: JobState, or "ABSENT" while j is not in Jobs
    job,        \* job[j]: the fields SubmitJob fixes (NoJob while absent)
    nodeList,   \* nodeList[j]: NodeList, "" before the job is placed
    endTime,    \* endTime[j]: EndTime.Number
    nextJobID,
    used,       \* used[n][r]: CPUsUsed, MemoryUsed, GRESList[gpu].Used
    nodeState,  \* nodeState[n]: State of node n
    clock,      \* time.Now().Unix()
    phase,      \* where the scheduler's pass is; "idle": store.mu is free
    todo,       \* jobs the loop of the pass has still to visit
    passNow     \* "now", read once at the start of the pass

jobVars  == <<jobState, job, nodeList, endTime, nextJobID>>
nodeVars == <<used, nodeState>>
passVars == <<phase, todo, passNow>>
vars == <<jobVars, nodeVars, clock, passVars>>

(***************************************************************************)
(* The submit handler's defaults: a zero field is replaced, any other      *)
(* value, negative ones included, is passed to the store as it is.         *)
(***************************************************************************)
OrDefault(value, default) == IF value = 0 THEN default ELSE value

Admit(req) ==
    [partition |-> IF req.partition = Empty THEN DefaultPartition
                                         ELSE req.partition,
     duration  |-> OrDefault(req.timeLimit, DefaultDuration),
     demand    |-> [r \in Resources |->
        CASE r = "cpus"   -> OrDefault(req.tasks * req.cpusPerTask, 1)
          [] r = "memory" -> OrDefault(req.memory, DefaultMemory)
          [] r = "gpus"   -> OrDefault(req.gpuCount,
                                       IF req.scriptNamesGpu THEN 1 ELSE 0)]]

\* What stands in job[j] for a j that is not in Jobs; nothing reads it.
NoJob == [partition |-> DefaultPartition, duration |-> 0,
          demand |-> [r \in Resources |-> 0]]

\* Memory.Set: a memory demand is only checked and charged when positive.
MemorySet(j) == job[j].demand["memory"] > 0

Charged(j) == IF MemorySet(j) THEN Resources ELSE Resources \ {"memory"}

\* Mutant: a node is called IDLE as soon as its GPUs are free.
GpuOnlyStateOf(n, u) ==
    IF u["gpus"] = 0 THEN "IDLE"
    ELSE IF u["gpus"] = Capacity[n]["gpus"] /\ u["cpus"] = Capacity[n]["cpus"]
         THEN "ALLOCATED"
         ELSE "MIXED"

NodeStateOf(n, u) ==
    IF u["gpus"] = 0 /\ u["cpus"] = 0 THEN "IDLE"
    ELSE IF u["gpus"] = Capacity[n]["gpus"] /\ u["cpus"] = Capacity[n]["cpus"]
         THEN "ALLOCATED"
         ELSE "MIXED"

\* Both callers of recalculateNodeState: new counters, then the new state.
SetUsage(n, u) ==
    /\ used' = [used EXCEPT ![n] = u]
    /\ nodeState' = [nodeState EXCEPT ![n] = NodeStateOf(n, u)]

Floor0(x) == IF x < 0 THEN 0 ELSE x

\* Mutant: the release forgets the GPUs.
AfterReleaseKeepingGpus(n, j) ==
    [r \in Resources |-> IF r = "gpus" THEN used[n][r]
                         ELSE Floor0(used[n][r] - job[j].demand[r])]

\* What node n's counters are once job j has been released: every demand is
\* subtracted, the memory demand whether or not it was charged.
AfterRelease(n, j) ==
    [r \in Resources |-> Floor0(used[n][r] - job[j].demand[r])]

\* A RUNNING job's NodeList always names a node (RunningJobsArePlaced), so
\* the lookup that guards the body of releaseResources succeeds.
ReleaseResources(j) == SetUsage(nodeList[j], AfterRelease(nodeList[j], j))

\* Mutant: the placement charges CPUs and memory, and forgets the GPUs.
AfterAllocateCpus(n, j) ==
    [r \in Resources |->
        used[n][r] + IF r = "gpus" THEN 0 ELSE job[j].demand[r]]

AfterAllocate(n, j) ==
    [r \in Resources |->
        used[n][r] + IF r \in Charged(j) THEN job[j].demand[r] ELSE 0]

Init ==
    /\ jobState = [j \in JobIds |-> "ABSENT"]
    /\ job = [j \in JobIds |-> NoJob]
    /\ nodeList = [j \in JobIds |-> Empty]
    /\ endTime = [j \in JobIds |-> 0]
    /\ nextJobID = 1
    /\ used = [n \in NodeNames |-> [r \in Resources |-> 0]]
    /\ nodeState = [n \in NodeNames |-> "IDLE"]
    /\ clock = 0
    /\ phase = "idle"
    /\ todo = {}
    /\ passNow = 0

-----------------------------------------------------------------------------
(* REST handlers *)

SubmitJob(req) ==
    /\ phase = "idle"
    /\ nextJobID \in JobIds
    /\ jobState' = [jobState EXCEPT ![nextJobID] = "PENDING"]
    /\ job' = [job EXCEPT ![nextJobID] = Admit(req)]
    /\ nextJobID' = nextJobID + 1
    /\ UNCHANGED <<nodeList, endTime, nodeVars, clock, passVars>>

\* Mutant: cancel puts the job back in the queue it was taken from.
CancelRequeues(j) ==
    /\ phase = "idle"
    /\ jobState[j] # "ABSENT"
    /\ IF jobState[j] = "RUNNING" THEN ReleaseResources(j)
                                  ELSE UNCHANGED nodeVars
    /\ jobState' = [jobState EXCEPT ![j] = "PENDING"]
    /\ endTime' = [endTime EXCEPT ![j] = clock]
    /\ UNCHANGED <<job, nodeList, nextJobID, clock, passVars>>

\* An id that is not in Jobs is answered 404 and changes nothing.
CancelJob(j) ==
    /\ phase = "idle"
    /\ jobState[j] # "ABSENT"
    /\ IF jobState[j] = "RUNNING" THEN ReleaseResources(j)
                                  ELSE UNCHANGED nodeVars
    /\ jobState' = [jobState EXCEPT ![j] = "CANCELLED"]
    /\ endTime' = [endTime EXCEPT ![j] = clock]
    /\ UNCHANGED <<job, nodeList, nextJobID, clock, passVars>>

-----------------------------------------------------------------------------
(* The scheduler's pass, reconcileJobs *)

\* Mutant: the reclaimer skips jobs that were given no GPU.
OverdueGpuJobs(j, now) ==
    jobState[j] = "RUNNING" /\ now >= endTime[j] /\ job[j].demand["gpus"] > 0

Overdue(j, now) == jobState[j] = "RUNNING" /\ now >= endTime[j]

BeginPass ==
    /\ phase = "idle"
    /\ phase' = "complete"
    /\ passNow' = clock
    /\ todo' = {j \in JobIds : Overdue(j, clock)}
    /\ UNCHANGED <<jobVars, nodeVars, clock>>

CompleteJob(j) ==
    /\ phase = "complete"
    /\ j \in todo
    /\ jobState' = [jobState EXCEPT ![j] = "COMPLETED"]
    /\ ReleaseResources(j)
    /\ todo' = todo \ {j}
    /\ UNCHANGED <<job, nodeList, endTime, nextJobID, clock, phase, passNow>>

\* Mutant: the second loop visits every job, whatever its state.
BeginPlacementOfAll ==
    /\ phase = "complete"
    /\ todo = {}
    /\ phase' = "place"
    /\ todo' = {j \in JobIds : jobState[j] # "ABSENT"}
    /\ UNCHANGED <<jobVars, nodeVars, clock, passNow>>

BeginPlacement ==
    /\ phase = "complete"
    /\ todo = {}
    /\ phase' = "place"
    /\ todo' = {j \in JobIds : jobState[j] = "PENDING"}
    /\ UNCHANGED <<jobVars, nodeVars, clock, passNow>>

HasPartition(j) == job[j].partition \in DOMAIN Partitions

\* Mutant: memory is charged but never checked.
FitsWithoutMemory(n, j) ==
    \A r \in Resources \ {"memory"} :
        Capacity[n][r] - used[n][r] >= job[j].demand[r]

\* Mutant: an off-by-one that leaves the last unit of a node unused.
FitsStrictly(n, j) ==
    \A r \in Charged(j) : Capacity[n][r] - used[n][r] > job[j].demand[r]

Fits(n, j) ==
    \A r \in Charged(j) : Capacity[n][r] - used[n][r] >= job[j].demand[r]

\* Mutant: only the head of the partition's node list is looked at.
HeadCandidates(j) ==
    LET names == Partitions[job[j].partition]
    IN  {i \in {1} : names[i] \in NodeNames /\ Fits(names[i], j)}

\* The nodes of j's partition, by position, that could take j now.
Candidates(j) ==
    LET names == Partitions[job[j].partition]
    IN  {i \in DOMAIN names : names[i] \in NodeNames /\ Fits(names[i], j)}

RejectJob(j) ==
    /\ ~HasPartition(j)
    /\ jobState' = [jobState EXCEPT ![j] = "FAILED"]
    /\ UNCHANGED <<nodeList, endTime, nodeVars>>

\* Mutant: first fit searches every node of the store.
PlaceAnywhere(j) ==
    /\ HasPartition(j)
    /\ \E n \in NodeNames :
         /\ Fits(n, j)
         /\ SetUsage(n, AfterAllocate(n, j))
         /\ nodeList' = [nodeList EXCEPT ![j] = n]
    /\ jobState' = [jobState EXCEPT ![j] = "RUNNING"]
    /\ endTime' = [endTime EXCEPT ![j] = passNow + job[j].duration]

\* First fit: the earliest candidate of the partition's node list.
PlaceJob(j) ==
    /\ HasPartition(j)
    /\ \E i \in Candidates(j) :
         /\ \A k \in Candidates(j) : i <= k
         /\ LET n == Partitions[job[j].partition][i] IN
              /\ SetUsage(n, AfterAllocate(n, j))
              /\ nodeList' = [nodeList EXCEPT ![j] = n]
    /\ jobState' = [jobState EXCEPT ![j] = "RUNNING"]
    /\ endTime' = [endTime EXCEPT ![j] = passNow + job[j].duration]

SkipJob(j) ==
    /\ HasPartition(j)
    /\ Candidates(j) = {}
    /\ UNCHANGED <<jobState, nodeList, endTime, nodeVars>>

TryScheduleJob(j) ==
    /\ phase = "place"
    /\ j \in todo
    /\ RejectJob(j) \/ PlaceJob(j) \/ SkipJob(j)
    /\ todo' = todo \ {j}
    /\ UNCHANGED <<job, nextJobID, clock, phase, passNow>>

EndPass ==
    /\ phase = "place"
    /\ todo = {}
    /\ phase' = "idle"
    /\ passNow' = 0
    /\ UNCHANGED <<jobVars, nodeVars, clock, todo>>

-----------------------------------------------------------------------------
(* Bound on the clock: time passes only while some RUNNING job waits for it. *)

Tick ==
    /\ \E j \in JobIds : jobState[j] = "RUNNING" /\ endTime[j] > clock
    /\ clock' = clock + 1
    /\ UNCHANGED <<jobVars, nodeVars, passVars>>

Pass ==
    \/ BeginPass
    \/ \E j \in JobIds : CompleteJob(j)
    \/ BeginPlacement
    \/ \E j \in JobIds : TryScheduleJob(j)
    \/ EndPass

Handler ==
    \/ \E req \in Requests : SubmitJob(req)
    \/ \E j \in JobIds : CancelJob(j)

Next == Handler \/ Pass \/ Tick

Spec == Init /\ [][Next]_vars

\* The ticker goroutine keeps running passes (a handler never holds store.mu
\* across two steps, so a pass that wants the lock gets it) and time passes.
FairSpec == Spec /\ WF_vars(Pass) /\ WF_vars(Tick)
-----------------------------------------------------------------------------
(* Properties *)

States == {"ABSENT", "PENDING", "RUNNING", "COMPLETED", "FAILED", "CANCELLED"}

JobRecords == [partition : STRING, duration : Int, demand : [Resources -> Int]]

\* The shape of the store and of the pass: ids are given out in order, the
\* jobs a loop still has to visit are in the state the loop looks for, and no
\* loop is open while the lock is free.
TypeOK ==
    /\ jobState \in [JobIds -> States]
    /\ job \in [JobIds -> JobRecords]
    /\ nodeList \in [JobIds -> NodeNames \cup {Empty}]
    /\ endTime \in [JobIds -> Int]
    /\ nextJobID \in 1 .. MaxJobs + 1
    /\ \A j \in JobIds : jobState[j] = "ABSENT" <=> j >= nextJobID
    /\ used \in [NodeNames -> [Resources -> Int]]
    /\ nodeState \in [NodeNames -> {"IDLE", "MIXED", "ALLOCATED"}]
    /\ clock \in Nat
    /\ passNow \in Nat
    /\ phase \in {"idle", "complete", "place"}
    /\ todo \subseteq JobIds
    /\ phase = "idle" => todo = {}
    /\ phase = "complete" => \A j \in todo : jobState[j] = "RUNNING"
    /\ phase = "place" => \A j \in todo : jobState[j] = "PENDING"

RunningOn(n) == {j \in JobIds : jobState[j] = "RUNNING" /\ nodeList[j] = n}

\* The units of resource r that the jobs running on n were granted, one by one.
Slots(n, r) == UNION {{j} \X (1 .. job[j].demand[r]) : j \in RunningOn(n)}

\* What every request of the REST API is expected to be; the submit handler
\* does not check it, and Ledger does not hold without it.
NonNegativeRequests ==
    \A req \in Requests : /\ req.tasks * req.cpusPerTask >= 0
                          /\ req.gpuCount >= 0
                          /\ req.memory >= 0
                          /\ req.timeLimit >= 0

\* The books balance at every step, also inside a pass and whatever was
\* cancelled, completed or placed before: a node's counters are exactly what
\* the jobs now running on it asked for, so nothing leaks, nothing is returned
\* twice and the clamps at zero of releaseResources never hide a difference.
Ledger ==
    \A n \in NodeNames, r \in Resources : used[n][r] = Cardinality(Slots(n, r))

\* First fit never promises a unit of CPU, memory or GPU to two jobs.
NoOversubscription ==
    \A n \in NodeNames, r \in Resources :
        Cardinality(Slots(n, r)) <= Capacity[n][r]

\* The state shown to users, recomputed from two counters at every change,
\* tells the truth about the jobs: a node is IDLE exactly when no job runs on
\* it, and ALLOCATED exactly when its jobs hold every CPU and every GPU.
NodeStateTracksJobs ==
    \A n \in NodeNames :
        /\ nodeState[n] = "IDLE" <=> RunningOn(n) = {}
        /\ nodeState[n] = "ALLOCATED" <=>
              /\ RunningOn(n) # {}
              /\ \A r \in {"cpus", "gpus"} :
                    Cardinality(Slots(n, r)) = Capacity[n][r]

\* A job runs on a node of the partition it asked for, and only a job that was
\* placed once has a node.
RunningJobsArePlaced ==
    \A j \in JobIds :
        /\ jobState[j] = "RUNNING" =>
              /\ nodeList[j] \in NodeNames
              /\ HasPartition(j)
              /\ \E i \in DOMAIN Partitions[job[j].partition] :
                    Partitions[job[j].partition][i] = nodeList[j]
        /\ jobState[j] \in {"ABSENT", "PENDING", "FAILED"} => nodeList[j] = Empty

\* One pass is enough, whatever order the map is walked in: once the first
\* loop is over no job is past its end time, and a job the second loop has
\* visited and left PENDING has no node that could still take it.  Later steps
\* of the pass only shrink what is free, so this holds to its end.
PassIsThorough ==
    phase = "place" =>
        \A j \in JobIds :
            /\ ~(jobState[j] = "RUNNING" /\ passNow >= endTime[j])
            /\ jobState[j] = "PENDING" /\ j \notin todo =>
                  /\ HasPartition(j)
                  /\ \A i \in DOMAIN Partitions[job[j].partition] :
                        LET n == Partitions[job[j].partition][i] IN
                        n \in NodeNames =>
                            \E r \in Resources :
                                Cardinality(Slots(n, r)) + job[j].demand[r]
                                    > Capacity[n][r]

\* The moves of a job's life.  A job that has ended can only still be marked
\* CANCELLED (the handler does not look at its state).
Moves ==
    {<<"ABSENT", "PENDING">>, <<"PENDING", "RUNNING">>, <<"PENDING", "FAILED">>,
     <<"PENDING", "CANCELLED">>, <<"RUNNING", "COMPLETED">>,
     <<"RUNNING", "CANCELLED">>, <<"COMPLETED", "CANCELLED">>,
     <<"FAILED", "CANCELLED">>}

LifecycleStep ==
    \A j \in JobIds :
        /\ jobState'[j] # jobState[j] => <<jobState[j], jobState'[j]>> \in Moves
        /\ job'[j] # job[j] => jobState[j] = "ABSENT"
        /\ nodeList'[j] # nodeList[j] =>
              jobState[j] = "PENDING" /\ jobState'[j] = "RUNNING"

\* No job is run twice or brought back, what it asked for never changes once
\* it is accepted, and it gets its node in the step that starts it.
Lifecycle == [][LifecycleStep]_vars

\* The reclaimer gets to every running job: its node is not held for ever.
RunningJobsEnd ==
    \A j \in JobIds : jobState[j] = "RUNNING" ~> jobState[j] # "RUNNING"

\* Some node of j's partition could run j if it were empty.
Feasible(j) ==
    \E i \in DOMAIN Partitions[job[j].partition] :
        LET n == Partitions[job[j].partition][i] IN
        n \in NodeNames /\ \A r \in Resources : job[j].demand[r] <= Capacity[n][r]

\* Once submissions stop (there are MaxJobs of them), every job that names an
\* unknown partition or fits some empty node of its own leaves the queue.
QueueDrains ==
    \A j \in JobIds :
        (jobState[j] = "PENDING" /\ (HasPartition(j) => Feasible(j)))
            ~> jobState[j] # "PENDING"

\* README: the reclaimer returns "node resources back to the pool", so a node
\* no job runs on has all of them.
DrainedNodesAreWhole ==
    \A n \in NodeNames :
        RunningOn(n) = {} => \A r \in Resources : used[n][r] = 0

\* README: DELETE /job/{job_id} is for "a pending or running job".
OnlyLiveJobsAreCancelled ==
    [][\A j \in JobIds :
        jobState'[j] = "CANCELLED" /\ jobState[j] # "CANCELLED" =>
            jobState[j] \in {"PENDING", "RUNNING"}]_vars
=============================================================================
