------------------------------ MODULE Operator ------------------------------
(***************************************************************************)
(* The SentinelDeployment operator: Reconcile beside the API server, the   *)
(* informer caches it reads from, the work queue that calls it, users, and *)
(* the controller that rolls a Deployment out.  One reconcile is four      *)
(* steps, because the world moves between its reads and its two writes.    *)
(* A write succeeds only on the version that was read; instead of version  *)
(* numbers, crCurrent and depCurrent say who holds the latest version.     *)
(***************************************************************************)
EXTENDS Integers

CONSTANTS
    Names,           \* the custom resources of a namespace
    Specs,           \* the specs users give them
    Counts,          \* the replica counts users give the Deployment
    Absent,          \* in place of an object that does not exist
    MaxDisturbances  \* bound on edits, queue movements, crashes and failed calls

SpecType == [simulated: BOOLEAN, minReplicas: Int, maxReplicas: Int,
             scaleThreshold: Int]

ASSUME SpecsAreSpecs == Specs \subseteq SpecType
ASSUME CountsAreNat == Counts \subseteq Nat
ASSUME BoundIsNat == MaxDisturbances \in Nat

VARIABLES
    cr,            \* the custom resources, at the API server
    dep,           \* the target Deployment, at the API server
    crCache,       \* the operator's informer caches of both
    depCache,
    crCurrent,     \* who holds the latest version: "cache", "worker"
    depCurrent,
    depth,         \* the depth a simulated gateway reports
    queue,         \* names waiting for a reconcile
    timers,        \* names whose RequeueAfter runs
    worker,        \* the local variables of Reconcile
    unrecorded,    \* names with a scaling whose time no status has
    disturbances

server == <<cr, dep>>
caches == <<crCache, depCache>>
vars == <<server, caches, crCurrent, depCurrent, depth, queue, timers, worker,
          unrecorded, disturbances>>

-----------------------------------------------------------------------------
(***************************************************************************)
(* The pure part of Reconcile.                                             *)
(***************************************************************************)

MockDepths == {2, 8, 18}

OrDefault(x, default) == IF x <= 0 THEN default ELSE x

\* Mutant: the error of an unreachable gateway is marked by a negative depth.
QueueDepthOrError(spec, now) == IF spec.simulated THEN now ELSE -1

\* An address other than "", "mock" and localhost:9000 is an error, and
\* Reconcile replaces an error by an empty queue.
QueueDepth(spec, now) == IF spec.simulated THEN now ELSE 0

CeilDiv(a, b) == (a + b - 1) \div b

\* The maximum is applied last: it wins when the bounds contradict each other.
TargetReplicas(spec, d) ==
    LET least == OrDefault(spec.minReplicas, 1)
        most == OrDefault(spec.maxReplicas, 10)
        wanted == CeilDiv(d, OrDefault(spec.scaleThreshold, 5))
        raised == IF wanted < least THEN least ELSE wanted
    IN  IF raised > most THEN most ELSE raised

ReadyReplicas(d) == IF d = Absent THEN 0 ELSE d.ready

\* Mutant: scales up only.
NeedsScalingUp(d, target) == d # Absent /\ d.replicas < target

NeedsScaling(d, target) == d # Absent /\ d.replicas # target

Resource == [spec: Specs, replicas: Nat, depth: MockDepths \cup {0}]
Deployment == [replicas: Nat, ready: Nat]

Idle == [pc |-> "idle"]
Reconciling == [pc: {"deployment", "scale", "status"}, name: Names,
                object: Resource, depth: MockDepths \cup {0},
                dep: Deployment \cup {Absent}, scaled: BOOLEAN]

Target == TargetReplicas(worker.object.spec, worker.depth)

\* Mutant: the replicas that became ready are forgotten.
StatusChangedByQueue == worker.object.depth # worker.depth \/ worker.scaled

\* Mutant: the status is written at every reconcile.
StatusAlwaysChanged == TRUE

StatusChanged ==
    \/ worker.object.replicas # ReadyReplicas(worker.dep)
    \/ worker.object.depth # worker.depth
    \/ worker.scaled

-----------------------------------------------------------------------------
(***************************************************************************)
(* The four steps of Reconcile and its three ways out.                     *)
(***************************************************************************)

Disturb == /\ disturbances < MaxDisturbances
           /\ disturbances' = disturbances + 1

DropCopies == /\ crCurrent' = [c \in Names |-> crCurrent[c] \ {"worker"}]
              /\ depCurrent' = depCurrent \ {"worker"}

\* No error: the request comes back when its timer fires.
Done == /\ worker' = Idle
        /\ timers' = timers \cup {worker.name}
        /\ UNCHANGED queue

\* Mutant: the error is logged, and nil returned.
FailedSilently == worker' = Idle /\ UNCHANGED <<queue, timers>>

\* An error: the request goes back to the queue, rate limited.
Failed == /\ worker' = Idle
          /\ queue' = queue \cup {worker.name}
          /\ UNCHANGED timers

GetResource(c) ==
    /\ worker = Idle
    /\ c \in queue
    /\ queue' = queue \ {c}
    /\ IF crCache[c] = Absent
         THEN UNCHANGED <<worker, crCurrent>>
         ELSE /\ worker' = [pc |-> "deployment", name |-> c,
                            object |-> crCache[c],
                            depth |-> QueueDepth(crCache[c].spec, depth),
                            dep |-> Absent, scaled |-> FALSE]
              /\ crCurrent' = IF "cache" \in crCurrent[c]
                                THEN [crCurrent EXCEPT ![c] = @ \cup {"worker"}]
                                ELSE crCurrent
    /\ UNCHANGED <<server, caches, depCurrent, depth, timers, unrecorded,
                   disturbances>>

\* r.Get fails for another reason than NotFound: the request goes back.
GetResourceFails(c) ==
    /\ worker = Idle
    /\ c \in queue
    /\ Disturb
    /\ UNCHANGED <<server, caches, crCurrent, depCurrent, depth, queue, timers,
                   worker, unrecorded>>

GetDeployment ==
    /\ worker.pc = "deployment"
    /\ worker' = [worker EXCEPT
                    !.dep = depCache,
                    !.pc = IF NeedsScaling(depCache, Target) THEN "scale"
                                                             ELSE "status"]
    /\ depCurrent' = IF "cache" \in depCurrent THEN depCurrent \cup {"worker"}
                                               ELSE depCurrent
    /\ UNCHANGED <<server, caches, crCurrent, depth, queue, timers, unrecorded,
                   disturbances>>

\* The same for the Deployment: err is not NotFound.
GetDeploymentFails ==
    /\ worker.pc = "deployment"
    /\ Disturb
    /\ Failed
    /\ DropCopies
    /\ UNCHANGED <<server, caches, depth, unrecorded>>

\* Mutant: the update carries no version, as a patch would not.
DeploymentExists == dep # Absent

\* The API server takes the update of the latest version only.
DeploymentIsCurrent == "worker" \in depCurrent

\* r.Update(ctx, &targetDep) on the version that was read.  Its answer can be
\* lost on the way back.
ScaleDeployment ==
    /\ worker.pc = "scale"
    /\ DeploymentIsCurrent
    /\ dep' = [dep EXCEPT !.replicas = Target]
    /\ depCurrent' = {}
    /\ unrecorded' = unrecorded \cup {worker.name}
    /\ \/ /\ worker' = [worker EXCEPT !.scaled = TRUE, !.pc = "status"]
          /\ UNCHANGED <<crCurrent, queue, timers, disturbances>>
       \/ /\ Disturb
          /\ Failed
          /\ crCurrent' = [c \in Names |-> crCurrent[c] \ {"worker"}]
    /\ UNCHANGED <<cr, caches, depth>>

\* The version is not the latest, the Deployment is gone, or the call fails.
ScaleFails ==
    /\ worker.pc = "scale"
    /\ \/ ~DeploymentIsCurrent /\ UNCHANGED disturbances
       \/ Disturb
    /\ Failed
    /\ DropCopies
    /\ UNCHANGED <<server, caches, depth, unrecorded>>

\* r.Status().Update(ctx, &sentinelDep).  LastScaleTime is part of the write only
\* when this very reconcile scaled.
UpdateStatus ==
    /\ worker.pc = "status"
    /\ StatusChanged
    /\ "worker" \in crCurrent[worker.name]
    /\ cr' = [cr EXCEPT ![worker.name].replicas = ReadyReplicas(worker.dep),
                        ![worker.name].depth = worker.depth]
    /\ crCurrent' = [crCurrent EXCEPT ![worker.name] = {}]
    /\ depCurrent' = depCurrent \ {"worker"}
    /\ unrecorded' = IF worker.scaled THEN unrecorded \ {worker.name}
                                      ELSE unrecorded
    /\ \/ Done /\ UNCHANGED disturbances
       \/ Failed /\ Disturb
    /\ UNCHANGED <<dep, caches, depth>>

StatusFails ==
    /\ worker.pc = "status"
    /\ StatusChanged
    /\ \/ "worker" \notin crCurrent[worker.name] /\ UNCHANGED disturbances
       \/ Disturb
    /\ Failed
    /\ DropCopies
    /\ UNCHANGED <<server, caches, depth, unrecorded>>

StatusUnchanged ==
    /\ worker.pc = "status"
    /\ ~StatusChanged
    /\ Done
    /\ DropCopies
    /\ UNCHANGED <<server, caches, depth, unrecorded, disturbances>>

Reconcile == \/ GetDeployment \/ GetDeploymentFails
             \/ ScaleDeployment \/ ScaleFails
             \/ UpdateStatus \/ StatusFails \/ StatusUnchanged

-----------------------------------------------------------------------------
(***************************************************************************)
(* What calls Reconcile: the watch of the custom resources and the timers. *)
(* Owns(Deployment) calls it for Deployments with an owner reference to a  *)
(* custom resource; nothing in the repository sets one, so an event of the *)
(* Deployment only refreshes the cache.                                    *)
(***************************************************************************)

WatchResource(c) ==
    /\ "cache" \notin crCurrent[c]
    /\ crCache' = [crCache EXCEPT ![c] = cr[c]]
    /\ crCurrent' = [crCurrent EXCEPT ![c] = @ \cup {"cache"}]
    /\ queue' = queue \cup {c}
    /\ UNCHANGED <<server, depCache, depCurrent, depth, timers, worker,
                   unrecorded, disturbances>>

WatchDeployment ==
    /\ "cache" \notin depCurrent
    /\ depCache' = dep
    /\ depCurrent' = depCurrent \cup {"cache"}
    /\ UNCHANGED <<server, crCache, crCurrent, depth, queue, timers, worker,
                   unrecorded, disturbances>>

TimerFires(c) ==
    /\ c \in timers
    /\ timers' = timers \ {c}
    /\ queue' = queue \cup {c}
    /\ UNCHANGED <<server, caches, crCurrent, depCurrent, depth, worker,
                   unrecorded, disturbances>>

\* The process ends, with what it held, and a new one lists every object.
Restart ==
    /\ Disturb
    /\ worker' = Idle
    /\ timers' = {}
    /\ queue' = {c \in Names : cr[c] # Absent}
    /\ crCache' = cr
    /\ depCache' = dep
    /\ crCurrent' = [c \in Names |-> {"cache"}]
    /\ depCurrent' = {"cache"}
    /\ UNCHANGED <<server, depth, unrecorded>>

-----------------------------------------------------------------------------
(***************************************************************************)
(* The world around: users, the Deployment controller, the gateway.        *)
(***************************************************************************)

WriteResource(c, object) ==
    /\ cr[c] # object
    /\ cr' = [cr EXCEPT ![c] = object]
    /\ crCurrent' = [crCurrent EXCEPT ![c] = {}]
    /\ UNCHANGED <<dep, caches, depCurrent, depth, queue, timers, worker>>

WriteDeployment(object) ==
    /\ dep # object
    /\ dep' = object
    /\ depCurrent' = {}
    /\ UNCHANGED <<cr, caches, crCurrent, depth, queue, timers, worker,
                   unrecorded>>

ApplyResource(c, spec) ==
    /\ Disturb
    /\ WriteResource(c, IF cr[c] = Absent
                          THEN [spec |-> spec, replicas |-> 0, depth |-> 0]
                          ELSE [cr[c] EXCEPT !.spec = spec])
    /\ UNCHANGED unrecorded

DeleteResource(c) ==
    /\ Disturb
    /\ WriteResource(c, Absent)
    /\ unrecorded' = unrecorded \ {c}

ApplyDeployment(n) ==
    /\ Disturb
    /\ WriteDeployment(IF dep = Absent THEN [replicas |-> n, ready |-> 0]
                                       ELSE [dep EXCEPT !.replicas = n])

DeleteDeployment == Disturb /\ WriteDeployment(Absent)

RollOut ==
    /\ dep # Absent
    /\ WriteDeployment([dep EXCEPT !.ready = dep.replicas])
    /\ UNCHANGED disturbances

QueueMoves ==
    /\ Disturb
    /\ depth' = CASE depth = 2 -> 8 [] depth = 8 -> 18 [] depth = 18 -> 2
    /\ UNCHANGED <<server, caches, crCurrent, depCurrent, queue, timers, worker,
                   unrecorded>>

Users == \/ \E c \in Names : \/ \E s \in Specs : ApplyResource(c, s)
                             \/ DeleteResource(c)
         \/ \E n \in Counts : ApplyDeployment(n)
         \/ DeleteDeployment

\* An operator that has just started beside some objects.
Init ==
    /\ cr \in [Names -> {[spec |-> s, replicas |-> 0, depth |-> 0] : s \in Specs}]
    /\ dep \in {[replicas |-> n, ready |-> n] : n \in Counts}
    /\ crCache = cr
    /\ depCache = dep
    /\ crCurrent = [c \in Names |-> {"cache"}]
    /\ depCurrent = {"cache"}
    /\ depth = 2
    /\ queue = {c \in Names : cr[c] # Absent}
    /\ timers = {}
    /\ worker = Idle
    /\ unrecorded = {}
    /\ disturbances = 0

Next == \/ \E c \in Names : \/ GetResource(c)
                            \/ GetResourceFails(c)
                            \/ WatchResource(c)
                            \/ TimerFires(c)
        \/ Reconcile
        \/ WatchDeployment
        \/ Restart
        \/ Users
        \/ RollOut
        \/ QueueMoves

Spec == Init /\ [][Next]_vars

\* The worker takes requests in the order they arrived, so none is passed over
\* for ever; watches deliver, timers fire, and a Deployment rolls out.
FairSpec ==
    /\ Spec
    /\ WF_vars(Reconcile)
    /\ WF_vars(WatchDeployment)
    /\ WF_vars(RollOut)
    /\ \A c \in Names : /\ SF_vars(GetResource(c))
                        /\ WF_vars(WatchResource(c))
                        /\ WF_vars(TimerFires(c))

-----------------------------------------------------------------------------
(***************************************************************************)
(* Properties.                                                             *)
(***************************************************************************)

\* Every variable has its shape, and every replica count is a natural number.
TypeOK ==
    /\ cr \in [Names -> Resource \cup {Absent}]
    /\ crCache \in [Names -> Resource \cup {Absent}]
    /\ dep \in Deployment \cup {Absent}
    /\ depCache \in Deployment \cup {Absent}
    /\ crCurrent \in [Names -> SUBSET {"cache", "worker"}]
    /\ depCurrent \subseteq {"cache", "worker"}
    /\ depth \in MockDepths
    /\ queue \subseteq Names
    /\ timers \subseteq Names
    /\ worker \in {Idle} \cup Reconciling
    /\ unrecorded \subseteq Names
    /\ disturbances \in 0..MaxDisturbances

\* No resource is forgotten: whatever fails, crashes or is deleted and created
\* again, a name that exists is waiting in the queue, waiting for its timer, being
\* reconciled, or about to be announced by its watch.
NeverForgotten ==
    \A c \in Names : cr[c] # Absent =>
        \/ c \in queue \cup timers
        \/ worker # Idle /\ worker.name = c
        \/ "cache" \notin crCurrent[c]

\* The operator never undoes a change it has not seen: a write that the API server
\* takes goes from exactly the object that was read, although the read came from
\* a cache and users and the Deployment controller write in between.
WritesWhatItRead ==
    /\ ScaleDeployment => dep = worker.dep
    /\ UpdateStatus => cr[worker.name] = worker.object
NoLostUpdate == [][WritesWhatItRead]_vars

Live == {c \in Names : cr[c] # Absent}
TargetOf(c) == TargetReplicas(cr[c].spec, QueueDepth(cr[c].spec, depth))
Agreed == \A b, c \in Live : TargetOf(b) = TargetOf(c)

\* Once users, queue and faults are still, the Deployment has and keeps a replica
\* count that one of its resources asks for now; with one resource, its count.
Converges ==
    <>[](dep # Absent /\ Live # {} =>
            dep.replicas \in {TargetOf(c) : c \in Live})

\* ... and the status of each resource shows the queue, and the replicas that are
\* there unless resources with different targets share the Deployment.
StatusCatchesUp ==
    <>[](\A c \in Live :
            /\ cr[c].depth = QueueDepth(cr[c].spec, depth)
            /\ Agreed => cr[c].replicas = ReadyReplicas(dep))

\* ... and the operator stops writing: its own status update, which its watch
\* reports back to it, does not keep it going.
WritesCease ==
    <>[]Agreed => <>[][~(ScaleDeployment \/ UpdateStatus)]_vars

\* A resource whose last reconcile ended well and that waits for its timer.
AtRest(c) == c \in timers \ queue /\ worker = Idle

\* k8s-operator/README.md: lastScaleTime is the "Timestamp of the last scaling
\* event".  So no resource at rest has a scaling whose time it never recorded.
ScalingsAreTimed == \A c \in Names : AtRest(c) => c \notin unrecorded
=============================================================================
