# A TLA+ verification project for velo-infra-playground

The repository is a set of small infrastructure programs.  Three of them carry
real concurrent logic: the **Slurm simulator** (a store shared by REST handlers
and a background scheduler), the **NCCL visualizer** (two AllReduce engines built
from goroutines and channels) and the **Kubernetes operator** (a reconcile loop
between stale caches and an API server).  The **Redfish simulator** and the **MCP
diagnostics server** are smaller and sequential, with a sequence of requests and a
byte stream to get right.  All five are modelled; the rest is listed below
with the reason why it is not.

## 1. Inventory

| component | state | operations | interacts with | hard behaviour | what makes it correct |
|---|---|---|---|---|---|
| Slurm store (`slurm-simulator/store.go`) | nodes with CPU, memory and GPU counters and a cached state; partitions; jobs; next id; one mutex | `SubmitJob`, `CancelJob`, `releaseResources`, `recalculateNodeState`, reads | handlers and scheduler, by the mutex | cancel against completion; counters charged and returned at different places; clamps that hide errors | the counters are what the running jobs hold; node state follows; nothing oversubscribed |
| Slurm scheduler (`scheduler.go`) | ticker, stop channel | `reconcileJobs`: complete overdue jobs, then first fit for pending ones | the store | random map order; deadline boundary; starvation | a pass is thorough in any order; running jobs end; feasible jobs start |
| Slurm handlers (`handlers.go`) | none | submit (defaults), cancel, reads | the store | values outside the expected range; replies that alias the store | a reply is true of one moment |
| NCCL ring program (`nccl-visualizer/main.go`) | per-GPU data, one channel of capacity 1 per GPU | send and receive of two loops, verification | the neighbour GPU | no barrier, drift, deadlock, index arithmetic | each chunk is summed once from every GPU; all finish |
| NCCL `Simulator` (`simulator.go`) | buffers, GPU channels, start and done channels, display state | `Step`, `Stop`, goroutine loop, ring and tree step, `updateState` | caller, goroutines, display | leftovers across steps, hanging `Step`, display out of date | every step is a barrier; finished means reduced; display is true |
| NCCL renderer (`renderer.go`) | none | draws the display state | `Simulator` | none | formatting only |
| Redfish simulator (`redfish-simulator/`) | power, health, boot override of each system; one mutex | boot PATCH, reset, thermal and power reads | HTTP clients | sequences of resets and overrides | a one-time override is used once; readings follow power |
| Kubernetes operator (`k8s-operator/`) | custom resource and target Deployment at the API server, informer caches, work queue, timers | `Reconcile` | API server, gateway, users, Deployment controller | stale reads, conflicts, one of two updates failing, lost answers, restarts, two resources for one target | nothing overwritten unseen; no resource forgotten; replicas and status follow the queue within the bounds; writes die out |
| MCP diagnostics server (`mcp-server/`) | which clients are live | list and tail tools | Docker, Kubernetes | short reads while demultiplexing logs | the payload is returned whole |
| Metaflow pipeline | flow artifacts | profile, package, deploy, verify | gateway, operator (by manifest) | none: one straight line in one process | the verdict is the test's |
| velo-core, velo-sentinel | manifests only | none | operator | none here | not code |

The hazards, each at its line, are in `PROJECT.json`.

## 2. Modules

| module | models |
|---|---|
| `SlurmCluster` | store, submit and cancel handlers, scheduler |
| `JobBroker` | the abstract promise: a job waits, holds a node with room for it, is over once |
| `SlurmRefinesBroker` | the mapping from `SlurmCluster` to `JobBroker` |
| `SlurmNodesReader` | a `GET /nodes` client beside the store |
| `RingAllReduce` | the free-running ring of `main.go` |
| `Simulator` | the step-by-step ring and tree of `simulator.go` |
| `Operator` | `Reconcile`, its caches, queue and timers, and the world around it |
| `Redfish` | the requests to the Redfish simulator |
| `Diagnostics` | the diagnostics engine, down to the reads of a log stream |
| `SlurmProofs` | placement, ledger, life of a job, what a pass achieves, and that `SlurmCluster` implements `JobBroker` |
| `RingProofs` | the ring for every number of GPUs |
| `SimulatorTopology` | ring and tree of `Simulator`: who sends and who waits fit together, for every number of GPUs |
| `SimulatorProofs` | the barrier, the traffic and the display of `Simulator` for every number of GPUs |
| `SimulatorSums` | what the buffers of `Simulator` hold, for every number of GPUs |
| `OperatorProofs` | the target's bounds; types, no lost update, no forgotten resource |
| `RedfishProofs` | the systems' shape and the fate of a boot override, for any requests |
| `DiagnosticsProofs` | the demultiplexing of a log, for any containers and logs |
| `MCSlurm`, `MCSlurmReader`, `MCOperator`, `MCRedfish`, `MCDiagnostics` | the small instances TLC uses |

Definitions whose comment starts with "Mutant:" are faulty variants of the
definition next to them.  No specification uses them; each replaces its
original in one experiment that shows a property can be broken by a plausible
mistake.

### SlurmCluster

`jobState`, `job`, `nodeList` and `endTime` are the fields of the jobs map,
`used` the three counters of a node, `nodeState` its cached state.  A handler
runs entirely under `store.mu`, so it is one action.  `reconcileJobs` also holds
the mutex, but its result depends on the order in which Go walks the map; it is
modelled one job per step (`BeginPass`, `CompleteJob`, `BeginPlacement`,
`TryScheduleJob`, `EndPass`), in any order, and handlers are disabled while
`phase # "idle"`.  Properties therefore also hold inside a pass.  The loop's
`if job.JobState == ...` is read when the loop reaches a job; since the visit of
one job changes no other job's state, `todo` can be fixed when the loop begins.
`Admit` is the submit handler's defaulting: only zero is replaced, so negative
values reach the store, as in the code.  Job k stands for id 10000 + k.

Abstracted: job names and scripts (only whether the script makes a GPU the
default), submit and start times (nothing reads them), the JSON forms, the
`GRESList` as a list (every node of the store has one GPU entry), and widths of
integers.

### JobBroker

Three variables: a job's status, its seat and its claim.  `Grant` requires room
computed from the claims of the holders, not from counters.  The refinement
says that the counters the code keeps are as good as that.

### SlurmNodesReader

`GetNodes` copies each node struct under the lock, but the copy's `GRESList`
shares its array with the store; the handler encodes the copies after the lock
is released.  `EncodeNode` reads the GPU counter from the store at that moment.
It is a data race; the outcomes of reading one machine word are the values
before and after a write, which the interleaving produces.

### RingAllReduce and Simulator

The programs only add and copy values, so a value is the bag of contributions
summed into it.  That separates "right" from "right by accident" and does not
depend on the seed data.  In `RingAllReduce` a goroutine's iteration is `Send`
then `Receive` (blocked when the channel is full or empty); `Verify` is `main`
after `wg.Wait`.  `Receive` does not look at the chunk index of the message and
accepts any step number, as the code does.

Bags add exactly, float64 does not, and `main` compares for equality two sums it has
added in different orders (`main.go:62` and `:150`, compared at `:215`).  With the
program's seed values the two agree for up to `MaxExact` = 15 GPUs and differ from 16 on,
where the program reports a mismatch although nothing is lost or repeated (both
found by doing the program's additions; nothing else in the project depends on it).
So `Verify` compares bags up to `MaxExact` and may go either way above, and
`VerifiedCorrect` has two parts: what arrived is exact for any N; the comparison agrees
for N up to `MaxExact`.

In `Simulator` the two step functions have one shape: a GPU sends to `Targets`,
in order, then takes `Expected` messages; the tables of who sends and who waits
come from `runRingStep` and `runTreeStep`.  `CallStep`, `Trigger`, `Collect`,
`Advance` and `Publish` are the stages of `Step`; `Advance` is apart from
`Publish` because the code increments the step outside the lock.  `Snapshot` is
`updateState`.  The four functions it calls (`Status`, `LastSentTo`,
`LastReceivedFrom`, `ActiveBlockIdx`) repeat the case analysis of the step functions, and
each is translated by itself, from `simulator.go:251-365`: its own depth tests, its own
search for a child of the active depth (`FirstChildAt`: the code's loop stops at the first),
its own index arithmetic.  None of them uses `Targets`, `Expected`, `ActiveDepth` or
`RingBlock`, so that the display and the step can disagree.  The display names one peer; a
GPU that takes from two children in one step names the first, and one that
sends to two the first, so each transfer must be named at the end that has one
peer: at the sender in a reduction, at the receiver in a broadcast
(`DisplayAnnouncesTraffic`).  Conversely a GPU that names a peer must have sent or received,
and no other (`AnnouncedTrafficHappens`, stated where every GPU has reported).

### Operator

`Reconcile` runs alone (one worker) but not undisturbed, so it is four steps:
`GetResource` (fetch, defaults, queue depth), `GetDeployment` (fetch and compare),
`ScaleDeployment` (the first write) and `UpdateStatus` (the second).  `worker`
holds its local variables.  Its ways out are `Done` (requeue after ten seconds),
`Failed` (requeue, rate limited) and, for a resource that is gone, nothing at all.

Both reads come from informer caches.  A write carries the version that was read
and the server refuses any but the latest.  Instead of version numbers,
`crCurrent` and `depCurrent` say who holds the latest version: a write by anyone
takes it from everyone, a watch event gives it to the cache, a read passes it
on to the worker.  A cache that lags jumps to the latest version in one step: what it
shows in between is a state of the past, which it also shows by staying behind.
A read can fail for a reason other than that the object is gone (`GetResourceFails`,
`GetDeploymentFails`), and a write before it has effect or after it (its answer is
lost); each puts the request back into the queue.  `Restart`
drops the worker, the queue and the timers, and lists everything anew.

`Owns(Deployment)` maps an event of a Deployment to the resource that owns it, and
nothing in the repository sets an owner reference; so `WatchDeployment` refreshes the
cache and calls nobody.

Everything outside the operator is external: `Users` create, edit and delete,
`RollOut` is the Deployment controller, `QueueMoves` the mocked queue, which
cycles through 2, 8 and 18 with the clock.  These, restarts and failed calls are
counted by `disturbances` up to `MaxDisturbances`, so that afterwards things are
still.  `unrecorded` is a history variable: scalings whose time no status write has
recorded.

Abstracted: a gateway address is simulated or not; the Deployment a resource names
is the one there is; a nil `spec.replicas` is the default the server puts
there; `status.replicas` reaches `spec.replicas` in one step; the time in
`LastScaleTime`; int32 as integers (a depth is at most 18).

### Redfish

Each store operation holds the mutex from start to end, so a request is an
action: `PatchSystem` (empty fields keep what the system has), `ResetSystem` with
its three effects and its refusals in the code's order, and the reads.  `reply` is
what the last request was answered.  `onceBoots` is a history variable: how often
the machine booted under the one-time override set last; `On` boots only a machine
that is off.  Of the sensors' and the power readings only what depends on the state is kept
(`ThermalState`, `DrawsBase`), not the numbers.  Left out: the override's mode, names and serial numbers, the
service root and the collections, which are constant.

### Diagnostics

`NewDiagnosticsEngine` decides once which clients there are; `reachable` goes on
changing.  `CallTailLogs`, `OpenLogs`, `ReadHeader`, `ReadPayload` and `EndOfLog` are
the stages of `TailLogs`, with one action per `Read`, because a `Read` returns what
has arrived (`ReadCounts`).  The header buffer is made once and not cleared, and a
payload buffer is written whole, as in the code.  `text` keeps, for each piece, the
bytes read and the number of zeros behind them, and `short` records whether a `Read` of
the running call returned less than was asked for.  `Forget` is the return of a call: its
locals are gone.

## 3. Runs

| run | expects | shows | bounds |
|---|---|---|---|
| `slurm` | pass | the books, oversubscription, node state, placement, thoroughness of a pass, life of a job, implementation of the broker; running jobs end, the queue drains | 3 jobs of 5 kinds, 3 nodes of different shape, 2 partitions |
| `slurm_cancel_ended` | violation | cancel rewrites a job that has ended | 1 job |
| `slurm_negative_memory` | violation | memory that is not charged is released | 3 jobs |
| `slurm_nodes_reader` | violation | a reply mixes two moments | 1 node, 1 job |
| `ring` | pass | no step is ever mixed up, every chunk exact, the ring ends | 5 GPUs |
| `simulator` | pass | barrier, expected traffic, results, termination; the display announces every transfer and no other | 5 GPUs, ring and tree |
| `operator` | pass | no lost update, no forgotten resource; replicas and status converge, writes cease | 1 resource, 2 specs, 3 disturbances |
| `operator_scale_time` | violation | a scaling whose time is never recorded | 1 disturbance |
| `redfish` | pass | a boot override is lost to nobody but its client and the restart that used it; no running system is called offline | 2 systems and an unknown id, 3 patches |
| `redfish_once` | violation | a one-time override boots twice | 2 systems, 3 patches |
| `logs` | pass | where no read is short the log is whole; a call always returns | logs with two frames and with an empty one |
| `log_demux` | violation | a short read garbles the log | a log of two payloads |

**Why the bounds are enough.**  Three jobs let two share a node while the third
waits for what they hold, is rejected, or is cancelled in between.  Node 1 is
filled exactly by one job; node 2 has more CPUs and less memory, so first fit
has to decide in each resource; a job with no GPU makes state and GPUs part
ways; one request fits no node, one names no partition, one is all defaults.
`MaxJobs` bounds submissions, and the clock stops when no running job waits for
it.  Five GPUs give the tree an inner node with two children, a leaf at each of
two depths, and a ring longer than the two halves of a step overlap; bags
distinguish a lost from a repeated contribution for every chunk.  One resource
of the operator and three disturbances put two changes and a failure, or a
failed write, a restart and an edit, inside one reconcile; one spec is all
defaults, the other has an unreachable gateway and a minimum above its
maximum, and an edit moves between them.  Two resources make the liveness
properties too expensive (`Converges` and `StatusCatchesUp` are written for any
number: two resources with different targets share the Deployment's replicas);
the theorems hold for any number.  `MaxBootsCounted` stops a count no property
looks at any further; the three patches set a one-time and a lasting override and change
the target alone.  Two frames put a payload's end before a header, which is where a short
read does its harm, and the empty frame is the payload that needs no byte.

**Fairness.**  `SlurmCluster`: the ticker keeps running passes and the mutex is
never held across a handler, so `WF(Pass)`; time passes, so `WF(Tick)`.  Nothing
makes users submit or cancel.  `QueueDrains` needs submissions to end, which
the bound gives, and leaves out jobs too large for every node of their
partition: those the code keeps PENDING for ever.  `RingAllReduce` and
`Simulator`: each goroutine that can go on does, which is the Go scheduler's
promise; in `Simulator` the caller either steps again or stops, as the tests,
the only callers of `Step` in the repository, do.  `Operator`: the worker
goes on (`WF(Reconcile)`), watches deliver, timers fire and Deployments roll out (weak
fairness); the work queue is first in, first out, so a name that is in it again and
again is taken (`SF(GetResource)`).  Nobody has to disturb anything.  `Diagnostics`: a call
that has begun goes on, as one goroutine does; a `Read` returns at least a byte of what is
left, or the end of the stream.  `Converges` and
`StatusCatchesUp` speak of what happens when the queue is still, which
the mocked one never is for longer than ten seconds: they say where the
operator is heading between two movements.

**Deadlock** is checked in every run but those of the operator, which rests when
its last resource is gone and its Deployment rolled out.  The programs that end
have an explicit stuttering action (`Exited`, `Over`).

## 4. Disagreements with the text of the repository

Runs show all but 4 and 6, which are plain from one function each.

1. `DELETE /job/{id}` is documented for "a pending or running job"; it marks
   jobs that have failed or completed as CANCELLED and moves their end time.
2. `releaseResources` subtracts memory that was never charged when the request
   is negative, so a drained node keeps memory in use.
3. `GET /nodes` replies are not consistent (section 2, SlurmNodesReader), though
   the store is described as thread-safe.
4. The display never shows "Done": `updateState` computes every status before it sets
   `Finished`, and never runs again (`simulator.go:182`; `types.go:16` lists the status).
5. `lastScaleTime` is "Timestamp of the last scaling event"; when the status write
   after a scaling fails, the retry has nothing to scale and the time is lost.
6. The operator's README (line 12) says an unreachable gateway is simulated; the code
   takes its queue for empty and scales down to the minimum
   (`sentineldeployment_controller.go:65`).  The model does as the code does, and its
   properties take the depth the code computes, so no property depends on which is meant.
7. A boot override of "Once" is consumed by a restart but not by a power-on from off, so
   it applies to two boots.
8. `TailLogs` ignores how much a `Read` returned, so a log that arrives in pieces
   comes back garbled and padded with zeros.

## 5. Proofs

Proved for every cluster, request set and number of jobs, for every number of GPUs, for
every set of resources, specs and number of disturbances, for every set of PATCH
bodies, and for every list of containers and their logs.  The last column
names what is assumed beyond the module's own assumptions on its constants:

| theorem | property | module | assumption |
|---|---|---|---|
| `TypeCorrect` | `TypeOK` | `SlurmProofs` | none |
| `PlacementCorrect` | `RunningJobsArePlaced` | `SlurmProofs` | none |
| `LedgerCorrect` | `Ledger` | `SlurmProofs` | `NonNegativeRequests` |
| `NeverOversubscribed` | `NoOversubscription` | `SlurmProofs` | `NonNegativeRequests` |
| `LifecycleCorrect` | `Lifecycle` | `SlurmProofs` | none |
| `NodeStateCorrect` | `NodeStateTracksJobs` | `SlurmProofs` | `NonNegativeRequests` |
| `PassCorrect` | `PassIsThorough` | `SlurmProofs` | `NonNegativeRequests` |
| `StoreImplementsBroker` | `ImplementsBroker` | `SlurmProofs` | `NonNegativeRequests` |
| `RingTypeCorrect` | `TypeOK` | `RingProofs` | none |
| `StepsNeverMix` | `NeverOutOfStep` | `RingProofs` | none |
| `DriftIsBounded` | `BoundedDrift` | `RingProofs` | none |
| `OneChunkIsOwned` | `OwnsOneChunk` | `RingProofs` | none |
| `AllReduceIsCorrect` | `VerifiedCorrect` | `RingProofs` | none; that the comparison agrees is claimed for N up to 15 only |
| `CompleteChunksAreKept` | `CompleteChunksStay` | `RingProofs` | none |
| `ExpectedIsSent` | about `Targets` and `Expected` | `SimulatorTopology` | none |
| `StepsAreBarriers` | `StepIsABarrier` | `SimulatorProofs` | none |
| `TrafficIsExpected` | `MessagesAreExpected` | `SimulatorProofs` | none |
| `TrafficIsAnnounced` | `DisplayAnnouncesTraffic` | `SimulatorProofs` | none |
| `AnnouncementsAreKept` | `AnnouncedTrafficHappens` | `SimulatorProofs` | none |
| `SimulatorTypeCorrect` | `TypeOK` | `SimulatorSums` | none |
| `HalfWayReduced` | `ReducedHalfWay` | `SimulatorSums` | none |
| `FinishedIsReduced` | `FinishedMeansReduced` | `SimulatorSums` | none |
| `TargetWithinBounds` | about `TargetReplicas` | `OperatorProofs` | none |
| `OperatorTypeCorrect` | `TypeOK` | `OperatorProofs` | none |
| `NoResourceForgotten` | `NeverForgotten` | `OperatorProofs` | none |
| `NoUpdateLost` | `NoLostUpdate` | `OperatorProofs` | none |
| `RedfishTypeCorrect` | `TypeOK` | `RedfishProofs` | none |
| `OverrideKept` | `OverrideIsKept` | `RedfishProofs` | none |
| `DemuxIsRight` | `LogIsWholeUnlessShort` | `DiagnosticsProofs` | none |

`TypeOK` is inductive as it stands, because it ties `todo` to the state each loop
looks for.  `RunningJobsArePlaced` is inductive with it.  `Ledger` is not: that
a release never meets its clamp needs demands to be natural numbers, that
it hits the right node needs placement, and a cardinality means something
only for finite sets.  `LedgerInv` adds these: `TypeOK`,
`RunningJobsArePlaced`, `DemandsAreNat` and `Books` (finite slots, counter equal
to their number, at most the capacity).  The lemmas `SlotsAdd` and
`SlotsRemove` say what one job more or less does to the number of slots held;
`BooksAfterPlacement` and `BooksAfterRelease` use them for the two kinds of step
that move resources, and all others leave the books alone (`BooksUnchanged`).

`NodeStateInv` adds to it that the cached state is the one computed from the
counters and that every job has at least one CPU (the handler replaces zero), so
that a CPU counter of zero means an empty node.  `PassInv` adds what each loop
still owes: before the second loop every overdue job is in `todo`; during it no
job is overdue and a pending job already visited has no candidate node.  It is kept
because placements only take from what is free (`NoNewCandidates`) and because a
duration is at least one second, so no job is overdue when it starts.

The refinement maps the ends of a job to one, and a job's seat to its `NodeList`
while it is RUNNING.  The interesting step is `PlaceRefines`: the broker's room,
computed from the claims of the holders, is what the counters leave free
(`RoomIsFree`, by the ledger).  Cancelling a job that has already ended
is a stutter.

`NonNegativeRequests` is a real hypothesis: the handler does not check it, and run
`slurm_negative_memory` shows what happens without it.

**The ring.**  `RingInv` says exactly what the state is.  `Contents`: chunk c of GPU i is
the sum over `Holders(i, c)`, which are GPU i alone until the chunk has come
round, then i and the GPUs upstream as far as c, then all.  `Slots`: a channel is empty
or holds the one message its GPU expects.  `Flow`: what a GPU has sent is what its
neighbour has taken plus what is between them.  From `Flow`, a GPU whose
neighbour's channel is empty is in the same loop and step as the neighbour
(`SameStep`), and then the chunk it sends is the one the neighbour takes
(`ChunksMeet`), which keeps `Slots`.  A receive adds bags with no GPU in common
(`OfUnion`), which keeps `Contents`.  `Drift` is carried along: a GPU that may take a
message has taken no more than the one before it.  The index
arithmetic modulo N is done once (`Wrap`, `Neighbours`, `Distances`, `Chunks`).  Each
property of the run then follows from the invariant alone.

**The simulator.**  `Depth` is recursive, and the principle of induction is out of reach
here; its use is not.  `LeastNumber` (a nonempty set of naturals has a least element, from
the well-foundedness of strict inclusion on finite sets) takes its place: if the equation
of `Depth` had no solution up to some GPU, or a depth were out of range, there would be a
least such GPU, and its parent is smaller.  From the equation follow `SendersAre`, what a
sender and a receiver are to each other, and `ExpectedIsSent`: the count with which
`runTreeStep` waits is the number of GPUs that send.

`StepInv` then counts.  `Tokens`: the done tokens and those collected are the GPUs that have
reported.  `Flow`: what a GPU has taken and what waits in its channel is as much as was
sent to it.  `Phases` puts each goroutine where the caller thinks it is, `Waiting` says
what a message is, `Display` that the display is of the running step.  The interesting
step is the last `Collect` (`LastToken`): N tokens mean that every GPU has reported, so
each has taken what it expects, which is what was sent to it, and the channels are
empty.  The barrier follows from `Phases` and `Flow`, and the bound on a channel from
`Flow` and `ExpectedIsSent`.

The truth of the display compares two case analyses.  `RingDisplay`, `ReduceDisplay` and
`BroadcastDisplay` compute what the display's functions show for each kind of step
(`FirstChild` is what the search for a child finds); `PeersAreNamed` and `EndsAreNamed`
compare that with `Targets` and with what `SendersAre` says of the two ends of a transfer:
the one peer of the one end is named there, and the texts fit together.
`TrafficIsAnnounced` follows for a message that waits.  For the converse, `PeersAreNamed`
says that a peer is named exactly when there is one, and when every GPU has reported
(`StepDone`) it has sent to all of `Targets` and taken all of `Expected`.

**The simulator's buffers.**  `StepInv` counts messages; `SumInv` says what they and the
buffers carry.  `Base` names the GPUs whose contributions a block holds when a step begins:
in the ring a GPU and those upstream of it, as many as have come round; in the tree, once
a GPU has been sent its children's sums, `Below`, its subtree.  `Below` is the intersection
of the sets that hold the GPU and are closed under children, so it needs no recursion, and
`BelowIs` shows it to be the GPU and the subtrees of its children, which `BelowApart` shows to have no
GPU in common.  Inside a step `Contents` says that a block holds `Base` and what the messages
already taken have brought: those of the senders that have sent, without the ones that still wait
(`Distinct` keeps them countable).  `Carried` says that a message holds its sender's `Base`
of the step's beginning, which is so because a GPU takes nothing before it has sent
everything (`Fresh`).  The arithmetic is `StepBrings`: in the first half the
contributions that meet are of different GPUs, and the second half brings whole sums, which replace.
When the last token is collected everything sent has been taken, so `Base` of the
next step holds (`LastCollectSums`).  The properties of the run follow from
what `Base` is after the first half and at the end (`HalfWay`), and `Complete` carries it to
the display that `Publish` computes.

**The operator.**  `OperatorInv` is `TypeOK`, `NeverForgotten` and `Copies`: a cache or worker
marked as holding the latest version has exactly what the server has.  `Copies` is
what makes the marks mean versions, and `NoLostUpdate` is its consequence at
the two writes; `NeverForgotten` needs it where a reconcile finds nothing in the
cache, which then is either true or behind.

**The Redfish simulator.**  `TypeOK` is inductive.  It asks that a system in standby is
off, which holds because each reset writes both fields.  `OverrideKept` needs from
it only that the number of boots is a number: a request changes at most its own system's
override, a `Restart` only one that is `Once`, and its `Boots` has then counted a boot
(`RestartConsumes`).

**The log.**  `FlattenSeq` is recursive; as with `Depth`, `LeastNumber` shows that it
has a value and that each element is appended to those before (`JoinedGrows`).  From
that, what is left of a concatenation begins with the next element (`NextIsLeft`).
`SizeIsDecoded` is the header's arithmetic: the four bytes, put together from the
highest, are the size.  `DemuxInv` says where the loop is as long as no `Read` was short: between
two frames the buffer holds the first m payloads and the stream the frames after them;
behind a header the buffer `hdr` holds that header and the stream goes on with its payload.
`EndIsWhole` has one case to look at: a stream that ends behind a header, which happens
when the last payload is empty and so misses nothing.

**Assumptions on constants** are those the modules name.  `LogsAssumption` says that a
payload's size fits into the four bytes Docker has for it.

**Only model-checked:** the liveness properties, which fairness and ENABLED put beyond the
prover (`StatusCatchesUp`, `Converges` and the others of section 3).  Every
invariant and every safety property over steps of the passing runs is proved.  Nothing
here is proved by induction over data, because the induction theorems take an operator
parameter that the installed provers do not instantiate.

## 6. Plan

Done, in this order: `SlurmCluster` with its abstract specification, reader and
proofs; `RingAllReduce`; `Simulator`; `Operator` and its proofs; `Redfish`;
`Diagnostics`; the proofs of the ring; the proofs of the simulator's barrier and of
its sums; the proofs of `Redfish` and `Diagnostics`.

What is left:

1. An abstract autoscaler (a Deployment that follows a clamped target) and
   the refinement that shows `Operator` implements it while resources do not share a
   Deployment.
2. An abstract all-reduce (a chunk goes from its own value to the whole sum, and stays)
   that both `RingAllReduce` and `Simulator` implement.
3. Integers of a fixed width in `Admit` and `PlaceJob`.

## 7. Not modelled

HTTP and JSON layout, authentication headers, command lines, signal handling,
the terminal renderer, event-log lines, generated code, and manifests: they
hold no state the properties are about.  The Metaflow pipeline: each step of
its one process runs once after the one before it, so there is nothing to
interleave.  Two operators at once (leader election is the library's), reads that
return data together with an error, and transport errors in the middle of a log.  Integer overflow of
`now + Duration` and of `tasks * cpus_per_task`, and the rounding of
float64 above `MaxExact` GPUs, are listed as hazards without a property.  `Step` before `Start` or
after `Stop` is excluded by guards: the tests, the only callers in the repository,
respect that order.
