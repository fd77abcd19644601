---------------------------- MODULE SlurmProofs ----------------------------
(***************************************************************************)
(* Theorems about SlurmCluster, for any number of jobs, nodes, partitions  *)
(* and requests: placement, the ledger, the life of a job, the passes, and *)
(* that it implements JobBroker.                                           *)
(***************************************************************************)
EXTENDS SlurmRefinesBroker, FiniteSetTheorems, TLAPS

USE DEF JobIds

-----------------------------------------------------------------------------
(* Types of what the handlers and the pass write *)

LEMMA AdmitType ==
    ASSUME NEW req \in Requests
    PROVE  Admit(req) \in JobRecords
<1>1. /\ req.partition \in STRING
      /\ req.tasks \in Int /\ req.cpusPerTask \in Int
      /\ req.gpuCount \in Int /\ req.memory \in Int /\ req.timeLimit \in Int
  BY RequestsAssumption
<1>2. req.tasks * req.cpusPerTask \in Int
  BY <1>1
<1>3. \A r \in Resources : Admit(req).demand[r] \in Int
  BY <1>1, <1>2, DefaultsAssumption DEF Admit, OrDefault, Resources
<1>4. Admit(req).demand \in [Resources -> Int]
  BY <1>3 DEF Admit
<1>5. Admit(req).partition \in STRING /\ Admit(req).duration \in Int
  BY <1>1, DefaultsAssumption DEF Admit, OrDefault
<1>6. Admit(req) = [partition |-> Admit(req).partition,
                    duration |-> Admit(req).duration,
                    demand |-> Admit(req).demand]
  BY DEF Admit
<1> QED
  BY <1>4, <1>5, <1>6 DEF JobRecords

LEMMA RecordType ==
    ASSUME NEW rec \in JobRecords
    PROVE  /\ rec.partition \in STRING
           /\ rec.duration \in Int
           /\ rec.demand \in [Resources -> Int]
           /\ \A r \in Resources : rec.demand[r] \in Int
  BY DEF JobRecords

LEMMA NodeStateType ==
    ASSUME NEW n, NEW u
    PROVE  NodeStateOf(n, u) \in {"IDLE", "MIXED", "ALLOCATED"}
  BY DEF NodeStateOf

\* Both ways of changing a node keep its counters integers.
LEMMA UsageType ==
    ASSUME TypeOK, NEW j \in JobIds, NEW n \in NodeNames
    PROVE  /\ AfterRelease(n, j) \in [Resources -> Int]
           /\ AfterAllocate(n, j) \in [Resources -> Int]
<1>1. \A r \in Resources : used[n][r] \in Int
  BY DEF TypeOK
<1>2. job[j] \in JobRecords
  BY DEF TypeOK
<1>3. \A r \in Resources : job[j].demand[r] \in Int
  BY <1>2, RecordType
<1>4. \A r \in Resources : Floor0(used[n][r] - job[j].demand[r]) \in Int
  BY <1>1, <1>3 DEF Floor0
<1> QED
  BY <1>1, <1>3, <1>4 DEF AfterRelease, AfterAllocate

LEMMA SetUsageType ==
    ASSUME TypeOK, NEW n, NEW u,
           n \in NodeNames => u \in [Resources -> Int],
           SetUsage(n, u)
    PROVE  /\ used' \in [NodeNames -> [Resources -> Int]]
           /\ nodeState' \in [NodeNames -> {"IDLE", "MIXED", "ALLOCATED"}]
  BY NodeStateType DEF TypeOK, SetUsage

LEMMA ReleaseType ==
    ASSUME TypeOK, NEW j \in JobIds, ReleaseResources(j)
    PROVE  /\ used' \in [NodeNames -> [Resources -> Int]]
           /\ nodeState' \in [NodeNames -> {"IDLE", "MIXED", "ALLOCATED"}]
<1>1. nodeList[j] \in NodeNames
          => AfterRelease(nodeList[j], j) \in [Resources -> Int]
  BY UsageType
<1> QED
  BY <1>1, SetUsageType DEF ReleaseResources

-----------------------------------------------------------------------------
(* Type correctness *)

LEMMA InitType == Init => TypeOK
<1> SUFFICES ASSUME Init PROVE TypeOK
  OBVIOUS
<1>1. NoJob \in JobRecords
  BY DefaultsAssumption DEF NoJob, JobRecords
<1> QED
  BY <1>1, MaxJobsAssumption DEF Init, TypeOK, States

LEMMA NextType == TypeOK /\ [Next]_vars => TypeOK'
<1> SUFFICES ASSUME TypeOK, [Next]_vars PROVE TypeOK'
  OBVIOUS
<1> USE DEF States
<1>1. ASSUME NEW req \in Requests, SubmitJob(req) PROVE TypeOK'
  <2>1. Admit(req) \in JobRecords
    BY AdmitType
  <2>2. job' \in [JobIds -> JobRecords]
    BY <1>1, <2>1 DEF TypeOK, SubmitJob
  <2> QED
    BY <1>1, <2>2, MaxJobsAssumption DEF TypeOK, SubmitJob, nodeVars, passVars
<1>2. ASSUME NEW j \in JobIds, CancelJob(j) PROVE TypeOK'
  <2>1. /\ used' \in [NodeNames -> [Resources -> Int]]
        /\ nodeState' \in [NodeNames -> {"IDLE", "MIXED", "ALLOCATED"}]
    BY <1>2, ReleaseType DEF CancelJob, TypeOK, nodeVars
  <2> QED
    BY <1>2, <2>1 DEF TypeOK, CancelJob, passVars
<1>3. CASE BeginPass
  BY <1>3 DEF TypeOK, BeginPass, Overdue, jobVars, nodeVars
<1>4. ASSUME NEW j \in JobIds, CompleteJob(j) PROVE TypeOK'
  <2>1. /\ used' \in [NodeNames -> [Resources -> Int]]
        /\ nodeState' \in [NodeNames -> {"IDLE", "MIXED", "ALLOCATED"}]
    BY <1>4, ReleaseType DEF CompleteJob
  <2> QED
    BY <1>4, <2>1 DEF TypeOK, CompleteJob
<1>5. CASE BeginPlacement
  BY <1>5 DEF TypeOK, BeginPlacement, jobVars, nodeVars
<1>6. ASSUME NEW j \in JobIds, TryScheduleJob(j) PROVE TypeOK'
  <2>1. CASE RejectJob(j)
    BY <1>6, <2>1 DEF TypeOK, TryScheduleJob, RejectJob, nodeVars
  <2>2. CASE PlaceJob(j)
    <3>1. PICK i \in Candidates(j) :
            LET n == Partitions[job[j].partition][i] IN
              /\ SetUsage(n, AfterAllocate(n, j))
              /\ nodeList' = [nodeList EXCEPT ![j] = n]
      BY <2>2 DEF PlaceJob
    <3> DEFINE n == Partitions[job[j].partition][i]
    <3>2. n \in NodeNames
      BY DEF Candidates
    <3>3. AfterAllocate(n, j) \in [Resources -> Int]
      BY <3>2, UsageType
    <3>4. /\ used' \in [NodeNames -> [Resources -> Int]]
          /\ nodeState' \in [NodeNames -> {"IDLE", "MIXED", "ALLOCATED"}]
      BY <3>1, <3>3, SetUsageType
    <3>5. nodeList' \in [JobIds -> NodeNames \cup {Empty}]
      BY <3>1, <3>2 DEF TypeOK
    <3>6. job[j].duration \in Int
      BY RecordType DEF TypeOK
    <3>7. endTime' \in [JobIds -> Int]
      <4>1. passNow + job[j].duration \in Int
        BY <3>6 DEF TypeOK
      <4> QED
        BY <2>2, <4>1 DEF TypeOK, PlaceJob
    <3> HIDE DEF n
    <3> QED
      BY <1>6, <2>2, <3>4, <3>5, <3>7 DEF TypeOK, TryScheduleJob, PlaceJob
  <2>3. CASE SkipJob(j)
    BY <1>6, <2>3 DEF TypeOK, TryScheduleJob, SkipJob, nodeVars
  <2> QED
    BY <1>6, <2>1, <2>2, <2>3 DEF TryScheduleJob
<1>7. CASE EndPass
  BY <1>7 DEF TypeOK, EndPass, jobVars, nodeVars
<1>8. CASE Tick
  <2>1. clock' \in Nat
    BY <1>8 DEF TypeOK, Tick
  <2> QED
    BY <1>8, <2>1 DEF TypeOK, Tick, jobVars, nodeVars, passVars
<1>9. CASE UNCHANGED vars
  BY <1>9 DEF TypeOK, vars, jobVars, nodeVars, passVars
<1> QED
  BY <1>1, <1>2, <1>3, <1>4, <1>5, <1>6, <1>7, <1>8, <1>9
  DEF Next, Handler, Pass

\* Type correctness: whatever is submitted (negative numbers included) and in
\* whatever order handlers and passes run, the store keeps its shape.
THEOREM TypeCorrect == Spec => []TypeOK
  BY InitType, NextType, PTL DEF Spec

-----------------------------------------------------------------------------
(* Placement *)

LEMMA InitPlaced == Init => RunningJobsArePlaced
  BY DEF Init, RunningJobsArePlaced

LEMMA NextPlaced ==
    TypeOK /\ RunningJobsArePlaced /\ [Next]_vars => RunningJobsArePlaced'
<1> SUFFICES ASSUME TypeOK, RunningJobsArePlaced, [Next]_vars
             PROVE  RunningJobsArePlaced'
  OBVIOUS
<1> USE DEF RunningJobsArePlaced, HasPartition
<1>1. ASSUME NEW req \in Requests, SubmitJob(req)
      PROVE  RunningJobsArePlaced'
  <2>1. jobState[nextJobID] = "ABSENT"
    BY <1>1 DEF TypeOK, SubmitJob
  <2>2. \A j \in JobIds : j # nextJobID =>
            job'[j] = job[j] /\ jobState'[j] = jobState[j]
    BY <1>1 DEF TypeOK, SubmitJob
  <2>3. jobState'[nextJobID] = "PENDING"
    BY <1>1 DEF TypeOK, SubmitJob
  <2> QED
    BY <1>1, <2>1, <2>2, <2>3 DEF SubmitJob
<1>2. ASSUME NEW j \in JobIds, CancelJob(j)
      PROVE  RunningJobsArePlaced'
  BY <1>2 DEF TypeOK, CancelJob
<1>3. CASE BeginPass \/ BeginPlacement \/ EndPass \/ Tick \/ UNCHANGED vars
  BY <1>3 DEF BeginPass, BeginPlacement, EndPass, Tick, vars, jobVars
<1>4. ASSUME NEW j \in JobIds, CompleteJob(j)
      PROVE  RunningJobsArePlaced'
  BY <1>4 DEF TypeOK, CompleteJob
<1>5. ASSUME NEW j \in JobIds, TryScheduleJob(j)
      PROVE  RunningJobsArePlaced'
  <2>1. jobState[j] = "PENDING"
    BY <1>5 DEF TypeOK, TryScheduleJob
  <2>2. CASE RejectJob(j)
    BY <1>5, <2>1, <2>2 DEF TypeOK, TryScheduleJob, RejectJob
  <2>3. CASE SkipJob(j)
    BY <1>5, <2>3 DEF TryScheduleJob, SkipJob
  <2>4. CASE PlaceJob(j)
    <3>1. PICK i \in Candidates(j) :
            nodeList' = [nodeList EXCEPT ![j] = Partitions[job[j].partition][i]]
      BY <2>4 DEF PlaceJob
    <3>2. /\ i \in DOMAIN Partitions[job[j].partition]
          /\ Partitions[job[j].partition][i] \in NodeNames
      BY DEF Candidates
    <3>3. /\ jobState' = [jobState EXCEPT ![j] = "RUNNING"]
          /\ job' = job
          /\ job[j].partition \in DOMAIN Partitions
      BY <1>5, <2>4 DEF TryScheduleJob, PlaceJob
    <3> QED
      BY <3>1, <3>2, <3>3 DEF TypeOK
  <2> QED
    BY <1>5, <2>2, <2>3, <2>4 DEF TryScheduleJob
<1> QED
  BY <1>1, <1>2, <1>3, <1>4, <1>5 DEF Next, Handler, Pass

\* A running job is on a node of the partition it asked for.
THEOREM PlacementCorrect == Spec => []RunningJobsArePlaced
  BY TypeCorrect, InitPlaced, NextPlaced, PTL DEF Spec

-----------------------------------------------------------------------------
(* Counting slots: d[j] slots for each job j of a set *)

SlotsOf(js, d) == UNION {{j} \X (1 .. d[j]) : j \in js}

LEMMA BlockSize ==
    ASSUME NEW j, NEW k \in Nat
    PROVE  /\ IsFiniteSet({j} \X (1 .. k))
           /\ Cardinality({j} \X (1 .. k)) = k
<1>1. IsFiniteSet({j}) /\ Cardinality({j}) = 1
  BY FS_Singleton
<1>2. IsFiniteSet(1 .. k) /\ Cardinality(1 .. k) = k
  BY FS_Interval
<1>3. /\ IsFiniteSet({j} \X (1 .. k))
      /\ Cardinality({j} \X (1 .. k)) = Cardinality({j}) * Cardinality(1 .. k)
  BY <1>1, <1>2, FS_Product
<1>4. Cardinality({j}) * Cardinality(1 .. k) = 1 * k
  BY <1>1, <1>2
<1>5. 1 * k = k
  OBVIOUS
<1> QED
  BY <1>3, <1>4, <1>5

\* One more job adds its own slots to those of the others.
LEMMA SlotsAdd ==
    ASSUME NEW js, NEW d, NEW j, j \notin js, d[j] \in Nat,
           IsFiniteSet(SlotsOf(js, d))
    PROVE  /\ IsFiniteSet(SlotsOf(js \cup {j}, d))
           /\ Cardinality(SlotsOf(js \cup {j}, d))
                  = Cardinality(SlotsOf(js, d)) + d[j]
<1> DEFINE S == SlotsOf(js, d)
           T == {j} \X (1 .. d[j])
<1>1. SlotsOf(js \cup {j}, d) = S \cup T
  BY DEF SlotsOf
<1>2. S \cap T = {}
  BY DEF SlotsOf
<1>3. IsFiniteSet(T) /\ Cardinality(T) = d[j]
  BY BlockSize
<1>4. Cardinality(S \cap T) = 0
  BY <1>2, FS_EmptySet
<1>5. Cardinality(S) \in Nat
  BY FS_CardinalityType
<1> HIDE DEF S, T
<1>6. IsFiniteSet(S)
  BY DEF S
<1>7. IsFiniteSet(S \cup T)
      /\ Cardinality(S \cup T) = Cardinality(S) + Cardinality(T) - Cardinality(S \cap T)
  BY <1>3, <1>6, FS_Union
<1> QED
  BY <1>1, <1>3, <1>4, <1>5, <1>7 DEF S

\* One job less takes its own slots away.
LEMMA SlotsRemove ==
    ASSUME NEW js, NEW d, NEW j \in js, d[j] \in Nat,
           IsFiniteSet(SlotsOf(js, d))
    PROVE  /\ IsFiniteSet(SlotsOf(js \ {j}, d))
           /\ Cardinality(SlotsOf(js \ {j}, d))
                  = Cardinality(SlotsOf(js, d)) - d[j]
           /\ Cardinality(SlotsOf(js \ {j}, d)) \in Nat
<1>1. SlotsOf(js \ {j}, d) \subseteq SlotsOf(js, d)
  BY DEF SlotsOf
<1>2. IsFiniteSet(SlotsOf(js \ {j}, d))
  BY <1>1, FS_Subset
<1>3. SlotsOf((js \ {j}) \cup {j}, d) = SlotsOf(js, d)
  <2>1. (js \ {j}) \cup {j} = js
    OBVIOUS
  <2> QED
    BY <2>1
<1>4. Cardinality(SlotsOf((js \ {j}) \cup {j}, d))
          = Cardinality(SlotsOf(js \ {j}, d)) + d[j]
  <2>1. j \notin js \ {j}
    OBVIOUS
  <2> QED
    BY <1>2, <2>1, SlotsAdd
<1>5. Cardinality(SlotsOf(js \ {j}, d)) \in Nat
  BY <1>2, FS_CardinalityType
<1> QED
  BY <1>2, <1>3, <1>4, <1>5

\* The slots depend on the demands of the jobs of the set only.
LEMMA SlotsSame ==
    ASSUME NEW js, NEW d, NEW e, \A j \in js : d[j] = e[j]
    PROVE  SlotsOf(js, d) = SlotsOf(js, e)
  BY DEF SlotsOf

-----------------------------------------------------------------------------
(* The ledger, for requests that are not negative *)

DemandsAreNat == \A j \in JobIds, r \in Resources : job[j].demand[r] \in Nat

\* Finiteness and the capacity are carried along: the first is what makes the
\* cardinalities mean something, the second is what first fit checks against.
Books ==
    \A n \in NodeNames, r \in Resources :
        /\ IsFiniteSet(Slots(n, r))
        /\ used[n][r] = Cardinality(Slots(n, r))
        /\ used[n][r] <= Capacity[n][r]

LedgerInv == TypeOK /\ RunningJobsArePlaced /\ DemandsAreNat /\ Books

DemandFor(r) == [j \in JobIds |-> job[j].demand[r]]

LEMMA SlotsAre ==
    ASSUME NEW n, NEW r
    PROVE  Slots(n, r) = SlotsOf(RunningOn(n), DemandFor(r))
  BY DEF Slots, SlotsOf, RunningOn, DemandFor

LEMMA AdmitNat ==
    ASSUME NonNegativeRequests, NEW req \in Requests, NEW r \in Resources
    PROVE  Admit(req).demand[r] \in Nat
<1>1. /\ req.gpuCount \in Nat /\ req.memory \in Nat
      /\ req.tasks * req.cpusPerTask \in Nat
  <2>1. /\ req.tasks \in Int /\ req.cpusPerTask \in Int
        /\ req.gpuCount \in Int /\ req.memory \in Int
    BY RequestsAssumption
  <2>2. req.tasks * req.cpusPerTask \in Int
    BY <2>1
  <2> QED
    BY <2>1, <2>2 DEF NonNegativeRequests
<1> QED
  BY <1>1, DefaultsAssumption DEF Admit, OrDefault, Resources

LEMMA CapacityType ==
    \A n \in NodeNames, r \in Resources : Capacity[n][r] \in Nat
  BY CapacityAssumption

LEMMA DemandsStay ==
    ASSUME NonNegativeRequests, TypeOK, DemandsAreNat, [Next]_vars
    PROVE  DemandsAreNat'
<1>1. ASSUME NEW req \in Requests, SubmitJob(req) PROVE DemandsAreNat'
  <2>1. \A r \in Resources : Admit(req).demand[r] \in Nat
    BY AdmitNat
  <2>2. \A j \in JobIds : job'[j] = IF j = nextJobID THEN Admit(req) ELSE job[j]
    BY <1>1 DEF TypeOK, SubmitJob
  <2> QED
    BY <2>1, <2>2 DEF DemandsAreNat
<1>2. CASE job' = job
  BY <1>2 DEF DemandsAreNat
<1>3. [Next]_vars => job' = job \/ \E req \in Requests : SubmitJob(req)
  BY DEF Next, Handler, Pass, CancelJob, BeginPass, CompleteJob,
         BeginPlacement, TryScheduleJob, EndPass, Tick, vars, jobVars
<1> QED
  BY <1>1, <1>2, <1>3

\* A step that neither starts nor ends a run leaves the books as they are.
LEMMA BooksUnchanged ==
    ASSUME Books, used' = used,
           \A n \in NodeNames : RunningOn(n)' = RunningOn(n),
           \A n \in NodeNames : \A j \in RunningOn(n) : job'[j] = job[j]
    PROVE  Books'
<1> SUFFICES ASSUME NEW n \in NodeNames, NEW r \in Resources
             PROVE  Slots(n, r)' = Slots(n, r)
  BY DEF Books
<1>1. RunningOn(n)' = RunningOn(n)
  OBVIOUS
<1>2. \A j \in RunningOn(n) : job'[j] = job[j]
  OBVIOUS
<1> HIDE DEF RunningOn
<1> QED
  BY <1>1, <1>2 DEF Slots

\* Release, whatever made the job stop running: its node gets back what the
\* job was charged, and no clamp at zero takes effect.
LEMMA BooksAfterRelease ==
    ASSUME LedgerInv, NEW j \in JobIds, jobState[j] = "RUNNING",
           ReleaseResources(j), NEW s \in States \ {"RUNNING"},
           jobState' = [jobState EXCEPT ![j] = s],
           job' = job, nodeList' = nodeList
    PROVE  Books'
<1> DEFINE m == nodeList[j]
<1>1. m \in NodeNames
  BY DEF LedgerInv, RunningJobsArePlaced
<1>2. RunningOn(m)' = RunningOn(m) \ {j} /\ j \in RunningOn(m)
  BY DEF RunningOn, LedgerInv, TypeOK
<1>3. \A n \in NodeNames : n # m => RunningOn(n)' = RunningOn(n)
  BY DEF RunningOn, LedgerInv, TypeOK
<1>4. used' = [used EXCEPT ![m] = AfterRelease(m, j)]
  BY DEF ReleaseResources, SetUsage
<1> SUFFICES ASSUME NEW n \in NodeNames, NEW r \in Resources
             PROVE  /\ IsFiniteSet(Slots(n, r)')
                    /\ used'[n][r] = Cardinality(Slots(n, r)')
                    /\ used'[n][r] <= Capacity[n][r]
  BY DEF Books
<1>5. DemandFor(r)' = DemandFor(r) /\ DemandFor(r)[j] = job[j].demand[r]
  BY DEF DemandFor
<1>6. DemandFor(r)[j] \in Nat
  BY <1>5 DEF LedgerInv, DemandsAreNat
<1>7. /\ IsFiniteSet(Slots(n, r))
      /\ used[n][r] = Cardinality(Slots(n, r))
      /\ used[n][r] <= Capacity[n][r]
  BY DEF LedgerInv, Books
<1>8. CASE n # m
  <2>1. Slots(n, r)' = Slots(n, r)
    BY <1>3, <1>8 DEF Slots
  <2>2. used'[n] = used[n]
    BY <1>4, <1>8 DEF LedgerInv, TypeOK
  <2> QED
    BY <1>7, <2>1, <2>2
<1>9. CASE n = m
  <2> DEFINE old == Cardinality(SlotsOf(RunningOn(n), DemandFor(r)))
             new == Cardinality(SlotsOf(RunningOn(n) \ {j}, DemandFor(r)))
  <2>1. Slots(n, r)' = SlotsOf(RunningOn(n) \ {j}, DemandFor(r))
    <3>1. Slots(n, r)' = SlotsOf(RunningOn(n)', DemandFor(r)')
      BY DEF Slots, SlotsOf, RunningOn, DemandFor
    <3>2. RunningOn(n)' = RunningOn(n) \ {j}
      BY <1>2, <1>9
    <3> QED
      BY <1>5, <3>1, <3>2
  <2>2. Slots(n, r) = SlotsOf(RunningOn(n), DemandFor(r))
    BY SlotsAre
  <2>3. j \in RunningOn(n)
    BY <1>2, <1>9
  <2>4. /\ IsFiniteSet(SlotsOf(RunningOn(n) \ {j}, DemandFor(r)))
        /\ new = old - DemandFor(r)[j]
        /\ new \in Nat
    BY <1>6, <1>7, <2>2, <2>3, SlotsRemove
  <2>5. used[n][r] = old
    BY <1>7, <2>2
  <2>6. used'[n][r] = Floor0(used[n][r] - DemandFor(r)[j])
    BY <1>4, <1>5, <1>9 DEF LedgerInv, TypeOK, AfterRelease
  <2> HIDE DEF old, new
  <2>7. used'[n][r] = new
    BY <2>4, <2>5, <2>6 DEF Floor0
  <2>8. old \in Nat /\ old <= Capacity[n][r] /\ Capacity[n][r] \in Nat
    BY <1>7, <2>2, <2>5, FS_CardinalityType, CapacityType DEF old
  <2>9. new <= Capacity[n][r]
    BY <1>6, <2>4, <2>8
  <2> QED
    BY <2>1, <2>4, <2>7, <2>9 DEF new
<1> QED
  BY <1>8, <1>9

\* Placement on a node that fits: the node is charged what the job asks for.
LEMMA BooksAfterPlacement ==
    ASSUME LedgerInv, NEW j \in JobIds, jobState[j] = "PENDING",
           NEW m \in NodeNames, Fits(m, j), SetUsage(m, AfterAllocate(m, j)),
           nodeList' = [nodeList EXCEPT ![j] = m],
           jobState' = [jobState EXCEPT ![j] = "RUNNING"], job' = job
    PROVE  Books'
<1>1. RunningOn(m)' = RunningOn(m) \cup {j} /\ j \notin RunningOn(m)
  BY DEF RunningOn, LedgerInv, TypeOK
<1>2. \A n \in NodeNames : n # m => RunningOn(n)' = RunningOn(n)
  BY DEF RunningOn, LedgerInv, TypeOK
<1>3. used' = [used EXCEPT ![m] = AfterAllocate(m, j)]
  BY DEF SetUsage
<1> SUFFICES ASSUME NEW n \in NodeNames, NEW r \in Resources
             PROVE  /\ IsFiniteSet(Slots(n, r)')
                    /\ used'[n][r] = Cardinality(Slots(n, r)')
                    /\ used'[n][r] <= Capacity[n][r]
  BY DEF Books
<1>4. DemandFor(r)' = DemandFor(r) /\ DemandFor(r)[j] = job[j].demand[r]
  BY DEF DemandFor
<1>5. DemandFor(r)[j] \in Nat
  BY <1>4 DEF LedgerInv, DemandsAreNat
<1>6. /\ IsFiniteSet(Slots(n, r))
      /\ used[n][r] = Cardinality(Slots(n, r))
      /\ used[n][r] <= Capacity[n][r]
  BY DEF LedgerInv, Books
<1>7. CASE n # m
  <2>1. Slots(n, r)' = Slots(n, r)
    BY <1>2, <1>7 DEF Slots
  <2>2. used'[n] = used[n]
    BY <1>3, <1>7 DEF LedgerInv, TypeOK
  <2> QED
    BY <1>6, <2>1, <2>2
<1>8. CASE n = m
  <2> DEFINE old == Cardinality(SlotsOf(RunningOn(n), DemandFor(r)))
             new == Cardinality(SlotsOf(RunningOn(n) \cup {j}, DemandFor(r)))
  <2>1. Slots(n, r)' = SlotsOf(RunningOn(n) \cup {j}, DemandFor(r))
    <3>1. Slots(n, r)' = SlotsOf(RunningOn(n)', DemandFor(r)')
      BY DEF Slots, SlotsOf, RunningOn, DemandFor
    <3>2. RunningOn(n)' = RunningOn(n) \cup {j}
      BY <1>1, <1>8
    <3> QED
      BY <1>4, <3>1, <3>2
  <2>2. Slots(n, r) = SlotsOf(RunningOn(n), DemandFor(r))
    BY SlotsAre
  <2>3. j \notin RunningOn(n)
    BY <1>1, <1>8
  <2>4. /\ IsFiniteSet(SlotsOf(RunningOn(n) \cup {j}, DemandFor(r)))
        /\ new = old + DemandFor(r)[j]
    BY <1>5, <1>6, <2>2, <2>3, SlotsAdd
  <2>5. used[n][r] = old /\ old \in Nat /\ Capacity[n][r] \in Nat
    BY <1>6, <2>2, FS_CardinalityType, CapacityType
  <2>6. used'[n][r] = used[n][r] +
            (IF r \in Charged(j) THEN job[j].demand[r] ELSE 0)
    BY <1>3, <1>8 DEF LedgerInv, TypeOK, AfterAllocate
  <2>7. r \notin Charged(j) => job[j].demand[r] = 0
    <3>1. \A q \in Resources : job[j].demand[q] \in Nat
      BY DEF LedgerInv, DemandsAreNat
    <3>2. "memory" \in Resources
      BY DEF Resources
    <3> QED
      BY <3>1, <3>2 DEF Charged, MemorySet
  <2> HIDE DEF old, new
  <2>8. used'[n][r] = new
    BY <1>4, <1>5, <2>4, <2>5, <2>6, <2>7
  <2>9. new <= Capacity[n][r]
    <3>1. CASE r \in Charged(j)
      <4>1. Capacity[n][r] - used[n][r] >= DemandFor(r)[j]
        BY <1>4, <1>8, <3>1 DEF Fits
      <4> QED
        BY <1>5, <2>4, <2>5, <4>1
    <3>2. CASE r \notin Charged(j)
      BY <1>4, <1>6, <2>4, <2>5, <2>7, <3>2
    <3> QED
      BY <3>1, <3>2
  <2> QED
    BY <2>1, <2>4, <2>8, <2>9 DEF new
<1> QED
  BY <1>7, <1>8

LEMMA InitLedger == Init => LedgerInv
<1> SUFFICES ASSUME Init PROVE LedgerInv
  OBVIOUS
<1>1. DemandsAreNat
  BY DEF Init, DemandsAreNat, NoJob
<1>2. \A n \in NodeNames, r \in Resources : Slots(n, r) = {}
  BY DEF Init, Slots, RunningOn
<1>3. IsFiniteSet({}) /\ Cardinality({}) = 0
  BY FS_EmptySet
<1>4. Books
  <2> SUFFICES ASSUME NEW n \in NodeNames, NEW r \in Resources
               PROVE  /\ IsFiniteSet(Slots(n, r))
                      /\ used[n][r] = Cardinality(Slots(n, r))
                      /\ used[n][r] <= Capacity[n][r]
    BY DEF Books
  <2>1. used[n][r] = 0
    BY DEF Init
  <2>2. Capacity[n][r] \in Nat
    BY CapacityType
  <2>3. 0 <= Capacity[n][r]
    BY <2>2
  <2> QED
    BY <1>2, <1>3, <2>1, <2>3
<1> QED
  BY <1>1, <1>4, InitType, InitPlaced DEF LedgerInv

LEMMA NextLedger ==
    ASSUME NonNegativeRequests
    PROVE  LedgerInv /\ [Next]_vars => LedgerInv'
<1> SUFFICES ASSUME LedgerInv, [Next]_vars PROVE LedgerInv'
  OBVIOUS
<1>1. TypeOK' /\ RunningJobsArePlaced' /\ DemandsAreNat'
  BY NextType, NextPlaced, DemandsStay DEF LedgerInv
<1>2. ASSUME NEW req \in Requests, SubmitJob(req) PROVE Books'
  <2>1. jobState[nextJobID] = "ABSENT"
    BY <1>2 DEF LedgerInv, TypeOK, SubmitJob
  <2>2. \A n \in NodeNames : RunningOn(n)' = RunningOn(n)
    BY <1>2, <2>1 DEF LedgerInv, TypeOK, SubmitJob, RunningOn
  <2>3. \A n \in NodeNames : \A j \in RunningOn(n) : job'[j] = job[j]
    BY <1>2, <2>1 DEF LedgerInv, TypeOK, SubmitJob, RunningOn
  <2>4. used' = used
    BY <1>2 DEF SubmitJob, nodeVars
  <2> QED
    BY <2>2, <2>3, <2>4, BooksUnchanged DEF LedgerInv
<1>3. ASSUME NEW j \in JobIds, CancelJob(j) PROVE Books'
  <2>1. CASE jobState[j] = "RUNNING"
    BY <1>3, <2>1, BooksAfterRelease DEF CancelJob, States
  <2>2. CASE jobState[j] # "RUNNING"
    <3>1. \A n \in NodeNames : RunningOn(n)' = RunningOn(n)
      BY <1>3, <2>2 DEF LedgerInv, TypeOK, CancelJob, RunningOn
    <3>2. used' = used /\ job' = job
      BY <1>3, <2>2 DEF CancelJob, nodeVars
    <3> QED
      BY <3>1, <3>2, BooksUnchanged DEF LedgerInv
  <2> QED
    BY <2>1, <2>2
<1>4. ASSUME BeginPass \/ BeginPlacement \/ EndPass \/ Tick \/ UNCHANGED vars
      PROVE  Books'
  <2>1. UNCHANGED <<jobState, nodeList, job, used>>
    BY <1>4 DEF BeginPass, BeginPlacement, EndPass, Tick, vars, jobVars, nodeVars
  <2>2. \A n \in NodeNames : RunningOn(n)' = RunningOn(n)
    BY <2>1 DEF RunningOn
  <2> QED
    BY <2>1, <2>2, BooksUnchanged DEF LedgerInv
<1>5. ASSUME NEW j \in JobIds, CompleteJob(j) PROVE Books'
  <2>1. jobState[j] = "RUNNING"
    BY <1>5 DEF LedgerInv, TypeOK, CompleteJob
  <2> QED
    BY <1>5, <2>1, BooksAfterRelease DEF CompleteJob, States
<1>6. ASSUME NEW j \in JobIds, TryScheduleJob(j) PROVE Books'
  <2>1. jobState[j] = "PENDING" /\ job' = job
    BY <1>6 DEF LedgerInv, TypeOK, TryScheduleJob
  <2>2. CASE RejectJob(j) \/ SkipJob(j)
    <3>1. \A n \in NodeNames : RunningOn(n)' = RunningOn(n)
      BY <2>1, <2>2 DEF LedgerInv, TypeOK, RejectJob, SkipJob, RunningOn
    <3>2. used' = used
      BY <2>2 DEF RejectJob, SkipJob, nodeVars
    <3> QED
      BY <2>1, <3>1, <3>2, BooksUnchanged DEF LedgerInv
  <2>3. CASE PlaceJob(j)
    <3>1. PICK i \in Candidates(j) :
            LET n == Partitions[job[j].partition][i] IN
              /\ SetUsage(n, AfterAllocate(n, j))
              /\ nodeList' = [nodeList EXCEPT ![j] = n]
      BY <2>3 DEF PlaceJob
    <3> DEFINE n == Partitions[job[j].partition][i]
    <3>2. n \in NodeNames /\ Fits(n, j)
      BY DEF Candidates
    <3>3. jobState' = [jobState EXCEPT ![j] = "RUNNING"]
      BY <2>3 DEF PlaceJob
    <3>4. /\ SetUsage(n, AfterAllocate(n, j))
          /\ nodeList' = [nodeList EXCEPT ![j] = n]
      BY <3>1
    <3> HIDE DEF n
    <3> QED
      BY <2>1, <3>2, <3>3, <3>4, BooksAfterPlacement
  <2> QED
    BY <1>6, <2>2, <2>3 DEF TryScheduleJob
<1>7. Books'
  BY <1>2, <1>3, <1>4, <1>5, <1>6 DEF Next, Handler, Pass
<1> QED
  BY <1>1, <1>7 DEF LedgerInv

LEMMA LedgerInvariant ==
    ASSUME NonNegativeRequests
    PROVE  Spec => []LedgerInv
  BY InitLedger, NextLedger, PTL DEF Spec

\* No sequence of submissions, cancellations and passes leaks a resource or
\* returns one twice, provided no request is negative.
THEOREM LedgerCorrect ==
    ASSUME NonNegativeRequests
    PROVE  Spec => []Ledger
<1>1. LedgerInv => Ledger
  BY DEF LedgerInv, Books, Ledger
<1> QED
  BY <1>1, LedgerInvariant, PTL

\* First fit never grants a unit of a node to two jobs, provided no request
\* is negative.
THEOREM NeverOversubscribed ==
    ASSUME NonNegativeRequests
    PROVE  Spec => []NoOversubscription
<1>1. LedgerInv => NoOversubscription
  BY DEF LedgerInv, Books, NoOversubscription
<1> QED
  BY <1>1, LedgerInvariant, PTL

-----------------------------------------------------------------------------
(* The life of a job *)

LEMMA StepIsOfLife == TypeOK /\ [Next]_vars => [LifecycleStep]_vars
<1> SUFFICES ASSUME TypeOK, Next PROVE LifecycleStep
  BY DEF vars
<1> USE DEF States
<1>1. ASSUME NEW req \in Requests, SubmitJob(req) PROVE LifecycleStep
  <2>1. jobState[nextJobID] = "ABSENT" /\ nextJobID \in JobIds
    BY <1>1 DEF TypeOK, SubmitJob
  <2> QED
    BY <1>1, <2>1 DEF TypeOK, SubmitJob, LifecycleStep, Moves
<1>2. ASSUME NEW j \in JobIds, CancelJob(j) PROVE LifecycleStep
  BY <1>2 DEF TypeOK, CancelJob, LifecycleStep, Moves
<1>3. ASSUME BeginPass \/ BeginPlacement \/ EndPass \/ Tick PROVE LifecycleStep
  BY <1>3 DEF BeginPass, BeginPlacement, EndPass, Tick, jobVars, LifecycleStep
<1>4. ASSUME NEW j \in JobIds, CompleteJob(j) PROVE LifecycleStep
  <2>1. jobState[j] = "RUNNING"
    BY <1>4 DEF TypeOK, CompleteJob
  <2> QED
    BY <1>4, <2>1 DEF TypeOK, CompleteJob, LifecycleStep, Moves
<1>5. ASSUME NEW j \in JobIds, TryScheduleJob(j) PROVE LifecycleStep
  <2>1. jobState[j] = "PENDING" /\ job' = job
    BY <1>5 DEF TypeOK, TryScheduleJob
  <2>2. CASE RejectJob(j)
    BY <2>1, <2>2 DEF TypeOK, RejectJob, LifecycleStep, Moves
  <2>3. CASE SkipJob(j)
    BY <2>1, <2>3 DEF SkipJob, LifecycleStep
  <2>4. CASE PlaceJob(j)
    <3>1. jobState' = [jobState EXCEPT ![j] = "RUNNING"]
      BY <2>4 DEF PlaceJob
    <3>2. \A k \in JobIds : k # j => nodeList'[k] = nodeList[k]
      BY <2>4 DEF PlaceJob, TypeOK
    <3> QED
      BY <2>1, <3>1, <3>2 DEF TypeOK, LifecycleStep, Moves
  <2> QED
    BY <1>5, <2>2, <2>3, <2>4 DEF TryScheduleJob
<1> QED
  BY <1>1, <1>2, <1>3, <1>4, <1>5 DEF Next, Handler, Pass

\* However submissions, cancellations and passes interleave, no job is run
\* twice or brought back, and what it asked for stays what it was.
THEOREM LifecycleCorrect == Spec => Lifecycle
<1>1. Spec => []TypeOK
  BY TypeCorrect
<1> QED
  BY <1>1, StepIsOfLife, PTL DEF Spec, Lifecycle

-----------------------------------------------------------------------------
(* The state of a node *)

\* The cached state is what the counters say, and every job has a CPU, which
\* makes a node without a job the only one whose CPU counter is zero.
NodeStateInv ==
    /\ LedgerInv
    /\ \A n \in NodeNames : nodeState[n] = NodeStateOf(n, used[n])
    /\ \A j \in JobIds : jobState[j] # "ABSENT" => job[j].demand["cpus"] >= 1

LEMMA AdmitCpus ==
    ASSUME NonNegativeRequests, NEW req \in Requests
    PROVE  Admit(req).demand["cpus"] >= 1
<1>1. req.tasks \in Int /\ req.cpusPerTask \in Int
  BY RequestsAssumption
<1>2. req.tasks * req.cpusPerTask \in Int /\ req.tasks * req.cpusPerTask >= 0
  BY <1>1 DEF NonNegativeRequests
<1>3. Admit(req).demand["cpus"] = OrDefault(req.tasks * req.cpusPerTask, 1)
  BY DEF Admit, Resources
<1> QED
  BY <1>2, <1>3 DEF OrDefault

LEMMA StateFollowsUsage ==
    ASSUME TypeOK, \A n \in NodeNames : nodeState[n] = NodeStateOf(n, used[n]),
           NEW m, NEW u, SetUsage(m, u) \/ UNCHANGED nodeVars
    PROVE  \A n \in NodeNames : nodeState'[n] = NodeStateOf(n, used'[n])
<1>1. CASE UNCHANGED nodeVars
  BY <1>1 DEF nodeVars
<1>2. CASE SetUsage(m, u)
  <2>1. \A n \in NodeNames :
            /\ used'[n] = IF n = m THEN u ELSE used[n]
            /\ nodeState'[n] = IF n = m THEN NodeStateOf(m, u) ELSE nodeState[n]
    BY <1>2 DEF SetUsage, TypeOK
  <2> QED
    BY <2>1
<1> QED
  BY <1>1, <1>2

\* The node's counters change by SetUsage or not at all.
LEMMA UsageStep ==
    ASSUME [Next]_vars
    PROVE  (\E m, u : SetUsage(m, u)) \/ UNCHANGED nodeVars
<1>1. ASSUME NEW j \in JobIds, ReleaseResources(j) PROVE \E m, u : SetUsage(m, u)
  BY <1>1 DEF ReleaseResources
<1>2. ASSUME NEW j \in JobIds, PlaceJob(j) PROVE \E m, u : SetUsage(m, u)
  BY <1>2 DEF PlaceJob
<1>3. ASSUME NEW j \in JobIds, TryScheduleJob(j)
      PROVE  PlaceJob(j) \/ UNCHANGED nodeVars
  BY <1>3 DEF TryScheduleJob, RejectJob, SkipJob, nodeVars
<1>4. ASSUME NEW j \in JobIds, CancelJob(j) \/ CompleteJob(j)
      PROVE  ReleaseResources(j) \/ UNCHANGED nodeVars
  BY <1>4 DEF CancelJob, CompleteJob
<1>5. ASSUME \/ \E req \in Requests : SubmitJob(req)
             \/ BeginPass \/ BeginPlacement \/ EndPass \/ Tick \/ UNCHANGED vars
      PROVE  UNCHANGED nodeVars
  BY <1>5 DEF SubmitJob, BeginPass, BeginPlacement, EndPass, Tick, vars
<1> QED
  BY <1>1, <1>2, <1>3, <1>4, <1>5 DEF Next, Handler, Pass

LEMMA InitNodeState == Init => NodeStateInv
  BY InitLedger, CapacityType DEF Init, NodeStateInv, NodeStateOf, Resources

LEMMA NextNodeState ==
    ASSUME NonNegativeRequests
    PROVE  NodeStateInv /\ [Next]_vars => NodeStateInv'
<1> SUFFICES ASSUME NodeStateInv, [Next]_vars PROVE NodeStateInv'
  OBVIOUS
<1>1. LedgerInv /\ LedgerInv' /\ TypeOK
  BY NextLedger DEF NodeStateInv, LedgerInv
<1>2. \A n \in NodeNames : nodeState'[n] = NodeStateOf(n, used'[n])
  BY <1>1, UsageStep, StateFollowsUsage DEF NodeStateInv
<1>3. \A j \in JobIds : jobState'[j] # "ABSENT" => job'[j].demand["cpus"] >= 1
  <2>1. ASSUME NEW req \in Requests, SubmitJob(req),
               NEW j \in JobIds, jobState'[j] # "ABSENT"
        PROVE  job'[j].demand["cpus"] >= 1
    <3>1. nextJobID \in JobIds
      BY <2>1 DEF SubmitJob
    <3>2. CASE j = nextJobID
      <4>1. job'[j] = Admit(req)
        BY <1>1, <2>1, <3>2 DEF SubmitJob, TypeOK
      <4> QED
        BY <4>1, AdmitCpus
    <3>3. CASE j # nextJobID
      BY <1>1, <2>1, <3>3 DEF SubmitJob, TypeOK, NodeStateInv
    <3> QED
      BY <3>2, <3>3
  <2>2. CASE job' = job /\ \A j \in JobIds :
                jobState[j] = "ABSENT" => jobState'[j] = "ABSENT"
    BY <2>2 DEF NodeStateInv
  <2>3. (\E req \in Requests : SubmitJob(req)) \/
            (job' = job /\ \A j \in JobIds :
                jobState[j] = "ABSENT" => jobState'[j] = "ABSENT")
    <3>1. ASSUME NEW k \in JobIds, CancelJob(k)
          PROVE  job' = job /\ \A j \in JobIds :
                     jobState[j] = "ABSENT" => jobState'[j] = "ABSENT"
      BY <1>1, <3>1 DEF CancelJob, TypeOK
    <3>2. ASSUME NEW k \in JobIds, CompleteJob(k)
          PROVE  job' = job /\ \A j \in JobIds :
                     jobState[j] = "ABSENT" => jobState'[j] = "ABSENT"
      BY <1>1, <3>2 DEF CompleteJob, TypeOK
    <3>3. ASSUME NEW k \in JobIds, TryScheduleJob(k)
          PROVE  job' = job /\ \A j \in JobIds :
                     jobState[j] = "ABSENT" => jobState'[j] = "ABSENT"
      BY <1>1, <3>3
         DEF TryScheduleJob, RejectJob, PlaceJob, SkipJob, TypeOK
    <3>4. ASSUME BeginPass \/ BeginPlacement \/ EndPass \/ Tick
                     \/ UNCHANGED vars
          PROVE  job' = job /\ jobState' = jobState
      BY <3>4 DEF BeginPass, BeginPlacement, EndPass, Tick, vars, jobVars
    <3> QED
      BY <3>1, <3>2, <3>3, <3>4 DEF Next, Handler, Pass
  <2> QED
    BY <2>1, <2>2, <2>3
<1> QED
  BY <1>1, <1>2, <1>3 DEF NodeStateInv

\* A node with a job on it holds at least one slot of CPU.
LEMMA BusyNodeHoldsCpu ==
    ASSUME NodeStateInv, NEW n \in NodeNames
    PROVE  used[n]["cpus"] = 0 <=> RunningOn(n) = {}
<1>1. "cpus" \in Resources
  BY DEF Resources
<1>2. /\ IsFiniteSet(Slots(n, "cpus"))
      /\ used[n]["cpus"] = Cardinality(Slots(n, "cpus"))
  BY <1>1 DEF NodeStateInv, LedgerInv, Books
<1>3. used[n]["cpus"] = 0 <=> Slots(n, "cpus") = {}
  BY <1>2, FS_EmptySet
<1>4. ASSUME RunningOn(n) = {} PROVE Slots(n, "cpus") = {}
  BY <1>4 DEF Slots
<1>5. ASSUME NEW j \in RunningOn(n) PROVE Slots(n, "cpus") # {}
  <2>1. j \in JobIds /\ jobState[j] = "RUNNING"
    BY DEF RunningOn
  <2>2. job[j].demand["cpus"] >= 1 /\ job[j].demand["cpus"] \in Nat
    BY <1>1, <2>1 DEF NodeStateInv, LedgerInv, DemandsAreNat
  <2>3. <<j, 1>> \in {j} \X (1 .. job[j].demand["cpus"])
    BY <2>2
  <2> QED
    BY <2>3 DEF Slots
<1> QED
  BY <1>3, <1>4, <1>5

\* The state users see for a node tells the truth about the jobs on it,
\* provided no request is negative.
THEOREM NodeStateCorrect ==
    ASSUME NonNegativeRequests
    PROVE  Spec => []NodeStateTracksJobs
<1>1. ASSUME NodeStateInv PROVE NodeStateTracksJobs
  <2> SUFFICES ASSUME NEW n \in NodeNames
               PROVE /\ nodeState[n] = "IDLE" <=> RunningOn(n) = {}
                     /\ nodeState[n] = "ALLOCATED" <=>
                          /\ RunningOn(n) # {}
                          /\ \A r \in {"cpus", "gpus"} :
                               Cardinality(Slots(n, r)) = Capacity[n][r]
    BY DEF NodeStateTracksJobs
  <2>1. \A r \in {"cpus", "gpus"} : used[n][r] = Cardinality(Slots(n, r))
    BY <1>1 DEF NodeStateInv, LedgerInv, Books, Resources
  <2>2. used[n]["cpus"] = 0 <=> RunningOn(n) = {}
    BY <1>1, BusyNodeHoldsCpu
  <2>3. RunningOn(n) = {} => used[n]["gpus"] = 0
    <3>1. RunningOn(n) = {} => Slots(n, "gpus") = {}
      BY DEF Slots
    <3> QED
      BY <2>1, <3>1, FS_EmptySet
  <2>4. nodeState[n] = NodeStateOf(n, used[n])
    BY <1>1 DEF NodeStateInv
  <2>5. nodeState[n] = "IDLE" <=> RunningOn(n) = {}
    BY <2>2, <2>3, <2>4 DEF NodeStateOf
  <2>6. nodeState[n] = "ALLOCATED" <=>
            /\ RunningOn(n) # {}
            /\ used[n]["gpus"] = Capacity[n]["gpus"]
            /\ used[n]["cpus"] = Capacity[n]["cpus"]
    BY <2>2, <2>3, <2>4 DEF NodeStateOf
  <2> QED
    BY <2>1, <2>5, <2>6
<1> QED
  BY <1>1, InitNodeState, NextNodeState, PTL DEF Spec

-----------------------------------------------------------------------------
(* What one pass achieves *)

\* The first loop still has every overdue job before it; the second leaves no
\* job behind that fits a node, and starts none that is overdue at once.
PassInv ==
    /\ LedgerInv
    /\ \A j \in JobIds : jobState[j] # "ABSENT" => job[j].duration >= 1
    /\ phase = "complete" => \A j \in JobIds : Overdue(j, passNow) => j \in todo
    /\ phase = "place" =>
          \A j \in JobIds :
              /\ ~Overdue(j, passNow)
              /\ jobState[j] = "PENDING" /\ j \notin todo =>
                    HasPartition(j) /\ Candidates(j) = {}

LEMMA AdmitDuration ==
    ASSUME NonNegativeRequests, NEW req \in Requests
    PROVE  Admit(req).duration >= 1
<1>1. req.timeLimit \in Int /\ req.timeLimit >= 0
  BY RequestsAssumption DEF NonNegativeRequests
<1> QED
  BY <1>1, DefaultsAssumption DEF Admit, OrDefault

\* A node that has not gained anything takes no job it could not take before.
LEMMA NoNewCandidates ==
    ASSUME LedgerInv, NEW j \in JobIds, job'[j] = job[j],
           used' \in [NodeNames -> [Resources -> Int]],
           \A n \in NodeNames, r \in Resources : used'[n][r] >= used[n][r],
           HasPartition(j), Candidates(j) = {}
    PROVE  HasPartition(j)' /\ Candidates(j)' = {}
<1>1. ASSUME NEW n \in NodeNames, Fits(n, j)' PROVE Fits(n, j)
  <2> SUFFICES ASSUME NEW r \in Charged(j)
               PROVE  Capacity[n][r] - used[n][r] >= job[j].demand[r]
    BY DEF Fits
  <2>1. r \in Resources
    BY DEF Charged
  <2>2. /\ Capacity[n][r] \in Nat /\ used[n][r] \in Int /\ used'[n][r] \in Int
        /\ job[j].demand[r] \in Nat /\ used'[n][r] >= used[n][r]
    BY <2>1, CapacityType DEF LedgerInv, TypeOK, DemandsAreNat
  <2>3. Charged(j)' = Charged(j)
    BY DEF Charged, MemorySet
  <2>4. Capacity[n][r] - used'[n][r] >= job[j].demand[r]
    BY <1>1, <2>3 DEF Fits
  <2> QED
    BY <2>2, <2>4
<1> QED
  BY <1>1 DEF HasPartition, Candidates

LEMMA InitPass == Init => PassInv
  BY InitLedger DEF Init, PassInv

\* Only SubmitJob brings a job, and its duration is that of the request.
LEMMA DurationsStay ==
    ASSUME NonNegativeRequests, PassInv, [Next]_vars
    PROVE  \A j \in JobIds : jobState'[j] # "ABSENT" => job'[j].duration >= 1
<1>1. TypeOK
  BY DEF PassInv, LedgerInv
<1>2. ASSUME NEW req \in Requests, SubmitJob(req),
             NEW j \in JobIds, jobState'[j] # "ABSENT"
      PROVE  job'[j].duration >= 1
  <2>1. CASE j = nextJobID
    <3>1. job'[j] = Admit(req)
      BY <1>1, <1>2, <2>1 DEF SubmitJob, TypeOK
    <3> QED
      BY <3>1, AdmitDuration
  <2>2. CASE j # nextJobID
    BY <1>1, <1>2, <2>2 DEF SubmitJob, TypeOK, PassInv
  <2> QED
    BY <2>1, <2>2
<1>3. ASSUME NEW k \in JobIds, CancelJob(k) \/ CompleteJob(k) \/ TryScheduleJob(k),
             NEW j \in JobIds, jobState'[j] # "ABSENT"
      PROVE  job'[j].duration >= 1
  <2>1. job' = job /\ jobState[k] # "ABSENT"
    BY <1>1, <1>3 DEF CancelJob, CompleteJob, TryScheduleJob, TypeOK
  <2>2. \A i \in JobIds : i # k => jobState'[i] = jobState[i]
    BY <1>1, <1>3 DEF CancelJob, CompleteJob, TryScheduleJob,
                      RejectJob, PlaceJob, SkipJob, TypeOK
  <2> QED
    BY <1>3, <2>1, <2>2 DEF PassInv
<1>4. ASSUME BeginPass \/ BeginPlacement \/ EndPass \/ Tick \/ UNCHANGED vars
      PROVE  job' = job /\ jobState' = jobState
  BY <1>4 DEF BeginPass, BeginPlacement, EndPass, Tick, vars, jobVars
<1> QED
  BY <1>2, <1>3, <1>4 DEF Next, Handler, Pass, PassInv

\* The visit of one job by the second loop.
LEMMA VisitKeepsPassInv ==
    ASSUME PassInv, LedgerInv', NEW k \in JobIds, TryScheduleJob(k),
           NEW j \in JobIds
    PROVE  /\ ~Overdue(j, passNow)'
           /\ (jobState[j] = "PENDING" /\ j \notin todo)' =>
                  HasPartition(j)' /\ Candidates(j)' = {}
<1>1. /\ phase = "place" /\ k \in todo /\ todo' = todo \ {k}
      /\ job' = job /\ passNow' = passNow
  BY DEF TryScheduleJob
<1>2. TypeOK /\ LedgerInv /\ jobState[k] = "PENDING"
  BY <1>1 DEF PassInv, LedgerInv, TypeOK
<1>3. /\ ~Overdue(j, passNow)
      /\ jobState[j] = "PENDING" /\ j \notin todo =>
             HasPartition(j) /\ Candidates(j) = {}
  BY <1>1 DEF PassInv
<1>4. CASE RejectJob(k) \/ SkipJob(k)
  <2>1. used' = used /\ endTime' = endTime
    BY <1>4 DEF RejectJob, SkipJob, nodeVars
  <2>2. HasPartition(j)' = HasPartition(j) /\ Candidates(j)' = Candidates(j)
    BY <1>1, <2>1
       DEF HasPartition, Candidates, Fits, Charged, MemorySet
  <2>3. jobState'[j] = jobState[j] \/ (j = k /\ jobState'[j] = "FAILED")
    BY <1>2, <1>4 DEF RejectJob, SkipJob, TypeOK
  <2>4. j = k /\ jobState'[j] = "PENDING" =>
            HasPartition(j) /\ Candidates(j) = {}
    BY <1>2, <1>4 DEF RejectJob, SkipJob, TypeOK
  <2> QED
    BY <1>1, <1>3, <2>1, <2>2, <2>3, <2>4 DEF Overdue
<1>5. CASE PlaceJob(k)
  <2>1. /\ jobState' = [jobState EXCEPT ![k] = "RUNNING"]
        /\ endTime' = [endTime EXCEPT ![k] = passNow + job[k].duration]
    BY <1>5 DEF PlaceJob
  <2>2. PICK n : SetUsage(n, AfterAllocate(n, k))
    BY <1>5 DEF PlaceJob
  <2>3. \A m \in NodeNames, r \in Resources : used'[m][r] >= used[m][r]
    <3> SUFFICES ASSUME NEW m \in NodeNames, NEW r \in Resources
                 PROVE  used'[m][r] >= used[m][r]
      OBVIOUS
    <3>1. used[m][r] \in Int /\ job[k].demand[r] \in Nat
      BY <1>2 DEF TypeOK, LedgerInv, DemandsAreNat
    <3>2. used' = [used EXCEPT ![n] = AfterAllocate(n, k)]
      BY <2>2 DEF SetUsage
    <3>3. CASE m = n
      <4>1. used'[m][r] = used[m][r] +
                (IF r \in Charged(k) THEN job[k].demand[r] ELSE 0)
        BY <1>2, <3>2, <3>3 DEF TypeOK, AfterAllocate
      <4> QED
        BY <3>1, <4>1
    <3>4. CASE m # n
      <4>1. used'[m] = used[m]
        BY <1>2, <3>2, <3>4 DEF TypeOK
      <4> QED
        BY <3>1, <4>1
    <3> QED
      BY <3>3, <3>4
  <2>4. used' \in [NodeNames -> [Resources -> Int]]
    BY DEF LedgerInv, TypeOK
  <2>5. j = k => ~Overdue(j, passNow)'
    <3>1. passNow \in Nat /\ job[k].duration >= 1 /\ job[k].duration \in Int
      BY <1>2, RecordType DEF TypeOK, PassInv
    <3>2. j = k => endTime'[j] = passNow + job[k].duration
      BY <1>2, <2>1 DEF TypeOK
    <3> QED
      BY <1>1, <3>1, <3>2 DEF Overdue
  <2>6. j # k => ~Overdue(j, passNow)'
    BY <1>1, <1>2, <1>3, <2>1 DEF Overdue, TypeOK
  <2>7. (jobState[j] = "PENDING" /\ j \notin todo)' =>
            jobState[j] = "PENDING" /\ j \notin todo
    BY <1>1, <1>2, <2>1 DEF TypeOK
  <2>8. jobState[j] = "PENDING" /\ j \notin todo =>
            HasPartition(j)' /\ Candidates(j)' = {}
    BY <1>1, <1>2, <1>3, <2>3, <2>4, NoNewCandidates
  <2> QED
    BY <2>5, <2>6, <2>7, <2>8
<1> QED
  BY <1>4, <1>5 DEF TryScheduleJob

LEMMA NextPass ==
    ASSUME NonNegativeRequests
    PROVE  PassInv /\ [Next]_vars => PassInv'
<1> SUFFICES ASSUME PassInv, [Next]_vars PROVE PassInv'
  OBVIOUS
<1>1. LedgerInv /\ LedgerInv' /\ TypeOK
  BY NextLedger DEF PassInv, LedgerInv
<1>2. \A j \in JobIds : jobState'[j] # "ABSENT" => job'[j].duration >= 1
  BY DurationsStay
<1> DEFINE Here ==
      /\ phase = "complete" => \A j \in JobIds : Overdue(j, passNow) => j \in todo
      /\ phase = "place" =>
            \A j \in JobIds :
                /\ ~Overdue(j, passNow)
                /\ jobState[j] = "PENDING" /\ j \notin todo =>
                      HasPartition(j) /\ Candidates(j) = {}
<1> SUFFICES Here'
  BY <1>1, <1>2 DEF PassInv
<1>3. ASSUME NEW req \in Requests, SubmitJob(req) PROVE Here'
  BY <1>3 DEF SubmitJob, passVars
<1>4. ASSUME NEW k \in JobIds, CancelJob(k) PROVE Here'
  BY <1>4 DEF CancelJob, passVars
<1>5. CASE BeginPass
  BY <1>5 DEF BeginPass, Overdue, jobVars
<1>6. ASSUME NEW k \in JobIds, CompleteJob(k) PROVE Here'
  BY <1>1, <1>6 DEF CompleteJob, Overdue, PassInv, TypeOK
<1>7. CASE BeginPlacement
  <2>1. /\ phase = "complete" /\ todo = {} /\ phase' = "place"
        /\ todo' = {j \in JobIds : jobState[j] = "PENDING"}
        /\ jobState' = jobState /\ endTime' = endTime /\ passNow' = passNow
    BY <1>7 DEF BeginPlacement, jobVars
  <2> QED
    BY <2>1 DEF PassInv, Overdue
<1>8. ASSUME NEW k \in JobIds, TryScheduleJob(k) PROVE Here'
  <2>1. phase' = "place"
    BY <1>8 DEF TryScheduleJob
  <2> QED
    BY <1>1, <1>8, <2>1, VisitKeepsPassInv
<1>9. CASE EndPass
  BY <1>9 DEF EndPass
<1>10. CASE Tick \/ UNCHANGED vars
  <2>1. /\ UNCHANGED <<jobState, endTime, job, used, phase, todo, passNow>>
    BY <1>10 DEF Tick, vars, jobVars, nodeVars, passVars
  <2>2. \A j \in JobIds :
            /\ Overdue(j, passNow)' = Overdue(j, passNow)
            /\ HasPartition(j)' = HasPartition(j)
            /\ Candidates(j)' = Candidates(j)
    BY <2>1 DEF Overdue, HasPartition, Candidates, Fits, Charged, MemorySet
  <2> QED
    BY <2>1, <2>2 DEF PassInv
<1> QED
  BY <1>3, <1>4, <1>5, <1>6, <1>7, <1>8, <1>9, <1>10 DEF Next, Handler, Pass

\* Whatever order the map is walked in, a pass leaves no overdue job running
\* and no pending job that some node could take, provided no request is
\* negative.
THEOREM PassCorrect ==
    ASSUME NonNegativeRequests
    PROVE  Spec => []PassIsThorough
<1>1. ASSUME PassInv, phase = "place", NEW j \in JobIds
      PROVE  ~(jobState[j] = "RUNNING" /\ passNow >= endTime[j])
  BY <1>1 DEF PassInv, Overdue
<1>2. ASSUME PassInv, phase = "place", NEW j \in JobIds,
             jobState[j] = "PENDING", j \notin todo
      PROVE  HasPartition(j) /\ Candidates(j) = {}
  BY <1>2 DEF PassInv
<1>3. ASSUME PassInv, NEW j \in JobIds, NEW n \in NodeNames, ~Fits(n, j)
      PROVE  \E r \in Resources :
                 Cardinality(Slots(n, r)) + job[j].demand[r] > Capacity[n][r]
  <2>1. PICK r \in Charged(j) : ~(Capacity[n][r] - used[n][r] >= job[j].demand[r])
    BY <1>3 DEF Fits
  <2>2. r \in Resources
    BY DEF Charged
  <2>3. /\ Capacity[n][r] \in Nat /\ used[n][r] \in Int
        /\ job[j].demand[r] \in Nat
        /\ used[n][r] = Cardinality(Slots(n, r))
    BY <1>3, <2>2, CapacityType DEF PassInv, LedgerInv, TypeOK, Books, DemandsAreNat
  <2>4. Cardinality(Slots(n, r)) + job[j].demand[r] > Capacity[n][r]
    BY <2>1, <2>3
  <2> QED
    BY <2>2, <2>4
<1>4. PassInv => PassIsThorough
  <2> SUFFICES ASSUME PassInv, phase = "place", NEW j \in JobIds,
                      jobState[j] = "PENDING", j \notin todo,
                      NEW i \in DOMAIN Partitions[job[j].partition],
                      Partitions[job[j].partition][i] \in NodeNames
               PROVE  ~Fits(Partitions[job[j].partition][i], j)
    BY <1>1, <1>2, <1>3 DEF PassIsThorough
  <2> QED
    BY <1>2 DEF Candidates
<1> QED
  BY <1>4, InitPass, NextPass, PTL DEF Spec

-----------------------------------------------------------------------------
(* The store implements the broker *)

\* What the broker's users see of the store.
Seen == <<Status, Seat, Claim>>

LEMMA UnseenStep ==
    ASSUME jobState' = jobState, nodeList' = nodeList, job' = job
    PROVE  Seen' = Seen
  BY DEF Seen, Status, Seat, Claim

\* The broker computes a node's room from the claims of its holders; by the
\* ledger that is what the store's counters leave.
LEMMA RoomIsFree ==
    ASSUME LedgerInv, NEW n \in NodeNames, NEW r \in Resources
    PROVE  Broker!Room(n, r) = Capacity[n][r] - used[n][r]
<1>1. n # Empty
  BY NodeNamesAssumption
<1>2. Broker!Holders(n) = RunningOn(n)
  BY <1>1 DEF Broker!Holders, Seat, RunningOn
<1>3. \A j \in RunningOn(n) : Claim[j][r] = job[j].demand[r]
  BY DEF Claim, RunningOn
<1>4. Broker!Granted(n, r) = Slots(n, r)
  BY <1>2, <1>3 DEF Broker!Granted, Slots
<1>5. Broker!Cardinality(Slots(n, r)) = Cardinality(Slots(n, r))
  BY DEF Broker!Cardinality, Cardinality
<1> QED
  BY <1>4, <1>5 DEF Broker!Room, LedgerInv, Books

LEMMA InitRefines == Init => Broker!Init
<1> SUFFICES ASSUME Init PROVE Broker!Init
  OBVIOUS
<1>1. Status = [j \in JobIds |-> "new"]
  BY DEF Init, Status, BrokerStatus
<1>2. Seat = [j \in JobIds |-> Empty]
  BY DEF Init, Seat
<1>3. Claim = [j \in JobIds |-> [r \in Resources |-> 0]]
  BY DEF Init, Claim, NoJob
<1> QED
  BY <1>1, <1>2, <1>3 DEF Broker!Init

LEMMA SubmitRefines ==
    ASSUME TypeOK, NEW req \in Requests, SubmitJob(req)
    PROVE  Broker!Submit(nextJobID, Admit(req).demand)
<1>1. jobState[nextJobID] = "ABSENT" /\ nextJobID \in JobIds
  BY DEF TypeOK, SubmitJob
<1>2. Status[nextJobID] = "new"
  BY <1>1 DEF Status, BrokerStatus
<1>3. Status' = [Status EXCEPT ![nextJobID] = "waiting"]
  BY <1>1 DEF TypeOK, SubmitJob, Status, BrokerStatus
<1>4. Claim' = [Claim EXCEPT ![nextJobID] = Admit(req).demand]
  BY <1>1 DEF TypeOK, SubmitJob, Claim
<1>5. Seat' = Seat
  BY <1>1 DEF TypeOK, SubmitJob, Seat
<1> QED
  BY <1>2, <1>3, <1>4, <1>5 DEF Broker!Submit

\* Completed, cancelled and failed are one to the broker's users.
LEMMA EndRefines ==
    ASSUME TypeOK, NEW j \in JobIds, jobState[j] \in {"PENDING", "RUNNING"},
           NEW s \in {"COMPLETED", "CANCELLED", "FAILED"},
           jobState' = [jobState EXCEPT ![j] = s],
           nodeList' = nodeList, job' = job
    PROVE  Broker!End(j)
<1>1. Status[j] \in {"waiting", "holding"}
  BY DEF Status, BrokerStatus
<1>2. Status' = [Status EXCEPT ![j] = "over"]
  BY DEF TypeOK, Status, BrokerStatus
<1>3. Seat' = [Seat EXCEPT ![j] = Empty]
  BY DEF TypeOK, Seat
<1>4. Claim' = Claim
  BY DEF Claim
<1> QED
  BY <1>1, <1>2, <1>3, <1>4 DEF Broker!End

LEMMA PlaceRefines ==
    ASSUME LedgerInv, NEW j \in JobIds, jobState[j] = "PENDING",
           NEW n \in NodeNames, Fits(n, j),
           nodeList' = [nodeList EXCEPT ![j] = n],
           jobState' = [jobState EXCEPT ![j] = "RUNNING"], job' = job
    PROVE  Broker!Grant(j, n)
<1>1. Status[j] = "waiting"
  BY DEF Status, BrokerStatus
<1>2. Status' = [Status EXCEPT ![j] = "holding"]
  BY DEF LedgerInv, TypeOK, Status, BrokerStatus
<1>3. Seat' = [Seat EXCEPT ![j] = n]
  BY DEF LedgerInv, TypeOK, Seat
<1>4. Claim' = Claim
  BY DEF Claim
<1>5. ASSUME NEW r \in Resources PROVE Claim[j][r] <= Broker!Room(n, r)
  <2>1. Claim[j][r] = job[j].demand[r]
    BY DEF Claim
  <2>2. job[j].demand[r] \in Nat /\ job[j].demand["memory"] \in Nat
    BY DEF LedgerInv, DemandsAreNat, Resources
  <2>3. /\ used[n][r] \in Int /\ Capacity[n][r] \in Nat
        /\ used[n][r] <= Capacity[n][r]
    BY CapacityType DEF LedgerInv, TypeOK, Books
  <2>4. Broker!Room(n, r) = Capacity[n][r] - used[n][r]
    BY RoomIsFree
  <2>5. CASE r \in Charged(j)
    BY <2>1, <2>4, <2>5 DEF Fits
  <2>6. CASE r \notin Charged(j)
    <3>1. job[j].demand[r] = 0
      BY <2>2, <2>6 DEF Charged, MemorySet
    <3> QED
      BY <2>1, <2>3, <2>4, <3>1
  <2> QED
    BY <2>5, <2>6
<1> QED
  BY <1>1, <1>2, <1>3, <1>4, <1>5 DEF Broker!Grant

LEMMA NextRefines ==
    ASSUME LedgerInv, [Next]_vars
    PROVE  [Broker!Next]_Seen
<1>1. ASSUME NEW req \in Requests, SubmitJob(req) PROVE Broker!Next
  <2>1. nextJobID \in JobIds
    BY <1>1 DEF SubmitJob
  <2> QED
    BY <1>1, <2>1, SubmitRefines DEF Broker!Next, LedgerInv
<1>2. ASSUME NEW j \in JobIds, CancelJob(j) PROVE [Broker!Next]_Seen
  <2>1. /\ jobState' = [jobState EXCEPT ![j] = "CANCELLED"]
        /\ nodeList' = nodeList /\ job' = job
        /\ jobState[j] # "ABSENT"
    BY <1>2 DEF CancelJob
  <2>2. CASE jobState[j] \in {"PENDING", "RUNNING"}
    <3>1. Broker!End(j)
      BY <2>1, <2>2, EndRefines DEF LedgerInv
    <3> QED
      BY <3>1 DEF Broker!Next
  <2>3. CASE jobState[j] \notin {"PENDING", "RUNNING"}
    <3>1. jobState[j] \in {"COMPLETED", "FAILED", "CANCELLED"}
      BY <2>1, <2>3 DEF LedgerInv, TypeOK, States
    <3>2. Status' = Status
      BY <2>1, <3>1 DEF LedgerInv, TypeOK, Status, BrokerStatus
    <3>3. Seat' = Seat /\ Claim' = Claim
      BY <2>1, <3>1 DEF LedgerInv, TypeOK, Seat, Claim
    <3> QED
      BY <3>2, <3>3 DEF Seen
  <2> QED
    BY <2>2, <2>3
<1>3. ASSUME BeginPass \/ BeginPlacement \/ EndPass \/ Tick \/ UNCHANGED vars
      PROVE  Seen' = Seen
  BY <1>3, UnseenStep
     DEF BeginPass, BeginPlacement, EndPass, Tick, vars, jobVars
<1>4. ASSUME NEW j \in JobIds, CompleteJob(j) PROVE Broker!Next
  <2>1. jobState[j] = "RUNNING"
    BY <1>4 DEF LedgerInv, TypeOK, CompleteJob
  <2>2. Broker!End(j)
    BY <1>4, <2>1, EndRefines DEF CompleteJob, LedgerInv
  <2> QED
    BY <2>2 DEF Broker!Next
<1>5. ASSUME NEW j \in JobIds, TryScheduleJob(j) PROVE [Broker!Next]_Seen
  <2>1. jobState[j] = "PENDING" /\ job' = job
    BY <1>5 DEF LedgerInv, TypeOK, TryScheduleJob
  <2>2. CASE RejectJob(j)
    <3>1. Broker!End(j)
      BY <2>1, <2>2, EndRefines DEF RejectJob, LedgerInv
    <3> QED
      BY <3>1 DEF Broker!Next
  <2>3. CASE SkipJob(j)
    BY <2>1, <2>3, UnseenStep DEF SkipJob
  <2>4. CASE PlaceJob(j)
    <3>1. PICK i \in Candidates(j) :
            nodeList' = [nodeList EXCEPT
                            ![j] = Partitions[job[j].partition][i]]
      BY <2>4 DEF PlaceJob
    <3> DEFINE n == Partitions[job[j].partition][i]
    <3>2. n \in NodeNames /\ Fits(n, j)
      BY DEF Candidates
    <3>3. jobState' = [jobState EXCEPT ![j] = "RUNNING"]
      BY <2>4 DEF PlaceJob
    <3>4. nodeList' = [nodeList EXCEPT ![j] = n]
      BY <3>1
    <3> HIDE DEF n
    <3>5. Broker!Grant(j, n)
      BY <2>1, <3>2, <3>3, <3>4, PlaceRefines
    <3> QED
      BY <3>2, <3>5 DEF Broker!Next
  <2> QED
    BY <1>5, <2>2, <2>3, <2>4 DEF TryScheduleJob
<1> QED
  BY <1>1, <1>2, <1>3, <1>4, <1>5 DEF Next, Handler, Pass

\* Every behaviour of the store and its scheduler is one its users could see
\* from a broker that keeps no counters, provided no request is negative.
THEOREM StoreImplementsBroker ==
    ASSUME NonNegativeRequests
    PROVE  Spec => ImplementsBroker
<1>1. LedgerInv /\ [Next]_vars => [Broker!Next]_(Broker!vars)
  BY NextRefines DEF Seen, Broker!vars
<1>2. Spec => []LedgerInv
  BY LedgerInvariant
<1> QED
  BY InitRefines, <1>1, <1>2, PTL DEF Spec, ImplementsBroker, Broker!Spec
=============================================================================
