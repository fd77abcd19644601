--------------------------- MODULE OperatorProofs ---------------------------
(***************************************************************************)
(* Theorems about Operator, for any resources, specs, replica counts and   *)
(* number of disturbances.                                                 *)
(***************************************************************************)
EXTENDS Operator, TLAPS

USE DEF server, caches

-----------------------------------------------------------------------------
(***************************************************************************)
(* The target.                                                             *)
(***************************************************************************)

\* Enough replicas, and not one too many: ceil(a / b).
LEMMA CeilDivIsCeil ==
    ASSUME NEW a \in Nat, NEW b \in Nat \ {0}
    PROVE  /\ CeilDiv(a, b) \in Nat
           /\ CeilDiv(a, b) * b >= a
           /\ (CeilDiv(a, b) - 1) * b < a
<1> DEFINE n == a + b - 1
           q == n \div b
<1>1. n \in Nat /\ b > 0
    OBVIOUS
<1>2. q \in Int /\ n = b * q + (n % b) /\ n % b \in 0..(b - 1)
    BY <1>1
<1>3. q >= 0
    BY <1>1, <1>2
<1>4. q * b = n - (n % b)
    BY <1>1, <1>2
<1>5. (q - 1) * b = q * b - b
    BY <1>2
<1> QED
    BY <1>1, <1>2, <1>3, <1>4, <1>5 DEF CeilDiv

\* A field with a default is at least one in the end, whatever a spec has.
LEMMA OrDefaultIsPositive ==
    ASSUME NEW x \in Int, NEW d \in Nat \ {0}
    PROVE  OrDefault(x, d) \in Nat \ {0}
BY DEF OrDefault

\* Whatever a spec says, Reconcile asks for at least one replica and never for
\* more than the maximum; for at least the minimum unless the bounds contradict
\* each other; and for enough replicas for the queue unless the maximum forbids.
THEOREM TargetWithinBounds ==
    ASSUME NEW s \in SpecType, NEW d \in Nat
    PROVE  LET least == OrDefault(s.minReplicas, 1)
               most == OrDefault(s.maxReplicas, 10)
               threshold == OrDefault(s.scaleThreshold, 5)
               target == TargetReplicas(s, d)
           IN  /\ target \in 1..most
               /\ least <= most => least <= target
               /\ target < most => target * threshold >= d
<1> DEFINE least == OrDefault(s.minReplicas, 1)
           most == OrDefault(s.maxReplicas, 10)
           threshold == OrDefault(s.scaleThreshold, 5)
           wanted == CeilDiv(d, threshold)
           raised == IF wanted < least THEN least ELSE wanted
           target == TargetReplicas(s, d)
<1>1. least \in Nat \ {0} /\ most \in Nat \ {0} /\ threshold \in Nat \ {0}
    BY OrDefaultIsPositive DEF SpecType
<1>2. wanted \in Nat /\ wanted * threshold >= d
    BY <1>1, CeilDivIsCeil
<1>3. target = IF raised > most THEN most ELSE raised
    BY DEF TargetReplicas
<1>4. target \in 1..most /\ (least <= most => least <= target)
    BY <1>1, <1>2, <1>3
<1>5. ASSUME target < most
      PROVE  target * threshold >= d
    <2>1. target = raised /\ target >= wanted
        BY <1>1, <1>2, <1>3, <1>5
    <2>2. target * threshold >= wanted * threshold
        BY <1>1, <1>2, <1>4, <2>1
    <2> QED
        BY <1>1, <1>2, <1>4, <2>2
<1> HIDE DEF least, most, threshold, wanted, raised, target
<1>6. /\ target \in 1..most
      /\ least <= most => least <= target
      /\ target < most => target * threshold >= d
    BY <1>4, <1>5
<1> QED
    BY <1>6 DEF least, most, threshold, target

-----------------------------------------------------------------------------
(***************************************************************************)
(* Types.                                                                  *)
(***************************************************************************)

\* A worker that is about to scale holds a Deployment, and the copies that count as
\* the latest version are equal to what the API server has.
Copies ==
    /\ \A c \in Names : "cache" \in crCurrent[c] => crCache[c] = cr[c]
    /\ "cache" \in depCurrent => depCache = dep
    /\ \A c \in Names : "worker" \in crCurrent[c] =>
         worker # Idle /\ worker.name = c /\ worker.object = cr[c]
    /\ "worker" \in depCurrent =>
         worker # Idle /\ worker.pc # "deployment" /\ worker.dep = dep
    /\ worker.pc = "scale" => worker.dep # Absent

\* What a busy worker holds, and that what it asks for is a replica count.
LEMMA WorkerCases ==
    ASSUME TypeOK, worker # Idle
    PROVE  /\ worker \in Reconciling
           /\ worker.name \in Names
           /\ worker.object \in Resource
           /\ worker.depth \in MockDepths \cup {0}
           /\ worker.dep \in Deployment \cup {Absent}
           /\ Target \in Nat
<1>1. /\ worker \in Reconciling
      /\ worker.name \in Names
      /\ worker.object \in Resource
      /\ worker.depth \in MockDepths \cup {0}
      /\ worker.dep \in Deployment \cup {Absent}
    BY DEF TypeOK, Reconciling
<1>2. worker.object.spec \in SpecType /\ worker.depth \in Nat
    BY <1>1, SpecsAreSpecs DEF Resource, MockDepths
<1>3. OrDefault(worker.object.spec.maxReplicas, 10) \in Nat \ {0}
    BY <1>2, OrDefaultIsPositive DEF SpecType
<1>4. Target \in 1..OrDefault(worker.object.spec.maxReplicas, 10)
    BY <1>2, TargetWithinBounds DEF Target
<1> QED
    BY <1>1, <1>3, <1>4

\* A worker at one of the steps is not idle.
LEMMA PcMeansBusy == worker.pc # "idle" => worker # Idle
BY DEF Idle

\* An operator that has just listed everything holds the latest versions, and has
\* every resource in its queue.
LEMMA InitInv == Init => TypeOK /\ Copies /\ NeverForgotten
<1> SUFFICES ASSUME Init PROVE TypeOK /\ Copies /\ NeverForgotten
    OBVIOUS
<1> USE DEF Init
<1>1. worker = Idle /\ worker.pc = "idle"
    BY DEF Idle
<1>2. TypeOK
    <2>1. cr \in [Names -> Resource \cup {Absent}]
        BY DEF Resource
    <2>2. dep \in Deployment \cup {Absent}
        BY CountsAreNat DEF Deployment
    <2> QED
        BY <2>1, <2>2, BoundIsNat DEF TypeOK, MockDepths
<1>3. Copies
    BY <1>1 DEF Copies
<1>4. NeverForgotten
    BY DEF NeverForgotten
<1> QED
    BY <1>2, <1>3, <1>4

\* The only arithmetic is the target's; the only objects made anew are a user's.
LEMMA StepKeepsTypes == TypeOK /\ Copies /\ [Next]_vars => TypeOK'
<1> SUFFICES ASSUME TypeOK, Copies, [Next]_vars PROVE TypeOK'
    OBVIOUS
<1>1. ASSUME NEW c \in Names, GetResource(c)
      PROVE  TypeOK'
    <2>1. worker' \in {Idle} \cup Reconciling
        <3>1. CASE crCache[c] = Absent
            BY <1>1, <3>1 DEF GetResource
        <3>2. CASE crCache[c] # Absent
            <4>1. crCache[c] \in Resource
                BY <3>2 DEF TypeOK
            <4>2. QueueDepth(crCache[c].spec, depth) \in MockDepths \cup {0}
                BY DEF QueueDepth, TypeOK
            <4>3. worker' = [pc |-> "deployment", name |-> c, object |-> crCache[c],
                             depth |-> QueueDepth(crCache[c].spec, depth),
                             dep |-> Absent, scaled |-> FALSE]
                BY <1>1, <3>2 DEF GetResource
            <4> QED
                BY <4>1, <4>2, <4>3 DEF Reconciling
        <3> QED
            BY <3>1, <3>2
    <2>2. crCurrent' \in [Names -> SUBSET {"cache", "worker"}]
        BY <1>1 DEF GetResource, TypeOK
    <2> QED
        BY <1>1, <2>1, <2>2 DEF GetResource, TypeOK
<1>2. CASE GetDeployment
    <2>1. worker' \in {Idle} \cup Reconciling
        <3>1. worker \in Reconciling
            BY <1>2, WorkerCases, PcMeansBusy DEF GetDeployment
        <3>2. depCache \in Deployment \cup {Absent}
            BY DEF TypeOK
        <3> QED
            BY <1>2, <3>1, <3>2 DEF GetDeployment, Reconciling
    <2> QED
        BY <1>2, <2>1 DEF GetDeployment, TypeOK
<1>3. CASE ScaleDeployment
    <2>1. dep' \in Deployment \cup {Absent}
        <3>1. Target \in Nat
            BY <1>3, WorkerCases, PcMeansBusy DEF ScaleDeployment
        <3>2. dep \in Deployment
            BY <1>3 DEF ScaleDeployment, DeploymentIsCurrent, Copies, TypeOK
        <3> QED
            BY <1>3, <3>1, <3>2 DEF ScaleDeployment, Deployment
    <2>2. worker' \in {Idle} \cup Reconciling
        <3>1. worker \in Reconciling
            BY <1>3, WorkerCases, PcMeansBusy DEF ScaleDeployment
        <3> QED
            BY <1>3, <3>1 DEF ScaleDeployment, Failed, Reconciling
    <2>3. crCurrent' \in [Names -> SUBSET {"cache", "worker"}]
        BY <1>3 DEF ScaleDeployment, TypeOK
    <2>4. queue' \subseteq Names /\ timers' \subseteq Names
        BY <1>3, WorkerCases, PcMeansBusy DEF ScaleDeployment, Failed, TypeOK
    <2>5. unrecorded' \subseteq Names
        BY <1>3, WorkerCases, PcMeansBusy DEF ScaleDeployment, TypeOK
    <2>6. disturbances' \in 0..MaxDisturbances
        BY <1>3, BoundIsNat DEF ScaleDeployment, Disturb, TypeOK
    <2> QED
        BY <1>3, <2>1, <2>2, <2>3, <2>4, <2>5, <2>6 DEF ScaleDeployment, TypeOK
<1>4. CASE ScaleFails
    <2>1. crCurrent' \in [Names -> SUBSET {"cache", "worker"}]
        BY <1>4 DEF ScaleFails, DropCopies, TypeOK
    <2>2. queue' \subseteq Names /\ timers' \subseteq Names
        BY <1>4, WorkerCases, PcMeansBusy DEF ScaleFails, Failed, DropCopies,
           TypeOK
    <2>3. disturbances' \in 0..MaxDisturbances
        BY <1>4, BoundIsNat DEF ScaleFails, Disturb, DropCopies, TypeOK
    <2> QED
        BY <1>4, <2>1, <2>2, <2>3 DEF ScaleFails, Failed, DropCopies, TypeOK
<1>5. CASE UpdateStatus
    <2>1. cr' \in [Names -> Resource \cup {Absent}]
        <3>1. /\ worker.name \in Names
              /\ worker.depth \in MockDepths \cup {0}
              /\ worker.dep \in Deployment \cup {Absent}
              /\ worker.object \in Resource
            BY <1>5, WorkerCases, PcMeansBusy DEF UpdateStatus
        <3>2. cr[worker.name] \in Resource
            BY <1>5, <3>1 DEF UpdateStatus, Copies
        <3>3. ReadyReplicas(worker.dep) \in Nat
            BY <3>1 DEF ReadyReplicas, Deployment
        <3>4. [cr[worker.name] EXCEPT !.replicas = ReadyReplicas(worker.dep),
                                      !.depth = worker.depth] \in Resource
            BY <3>1, <3>2, <3>3 DEF Resource
        <3>5. cr' = [cr EXCEPT ![worker.name] =
                       [cr[worker.name] EXCEPT !.replicas = ReadyReplicas(worker.dep),
                                               !.depth = worker.depth]]
            BY <1>5, <3>1 DEF UpdateStatus
        <3> QED
            BY <3>1, <3>4, <3>5 DEF TypeOK
    <2>2. crCurrent' \in [Names -> SUBSET {"cache", "worker"}]
        BY <1>5 DEF UpdateStatus, TypeOK
    <2>3. queue' \subseteq Names /\ timers' \subseteq Names
        BY <1>5, WorkerCases, PcMeansBusy DEF UpdateStatus, Failed, Done, TypeOK
    <2>4. disturbances' \in 0..MaxDisturbances
        BY <1>5, BoundIsNat DEF UpdateStatus, Disturb, TypeOK
    <2> QED
        BY <1>5, <2>1, <2>2, <2>3, <2>4 DEF UpdateStatus, Failed, Done, TypeOK
<1>6. CASE StatusFails
    <2>1. crCurrent' \in [Names -> SUBSET {"cache", "worker"}]
        BY <1>6 DEF StatusFails, DropCopies, TypeOK
    <2>2. queue' \subseteq Names /\ timers' \subseteq Names
        BY <1>6, WorkerCases, PcMeansBusy DEF StatusFails, Failed, DropCopies,
           TypeOK
    <2>3. disturbances' \in 0..MaxDisturbances
        BY <1>6, BoundIsNat DEF StatusFails, Disturb, DropCopies, TypeOK
    <2> QED
        BY <1>6, <2>1, <2>2, <2>3 DEF StatusFails, Failed, DropCopies, TypeOK
<1>7. CASE StatusUnchanged
    <2>1. crCurrent' \in [Names -> SUBSET {"cache", "worker"}]
        BY <1>7 DEF StatusUnchanged, DropCopies, TypeOK
    <2>2. queue' \subseteq Names /\ timers' \subseteq Names
        BY <1>7, WorkerCases, PcMeansBusy DEF StatusUnchanged, Done, DropCopies,
           TypeOK
    <2> QED
        BY <1>7, <2>1, <2>2 DEF StatusUnchanged, Done, DropCopies, TypeOK
<1>8. ASSUME NEW c \in Names, WatchResource(c)
      PROVE  TypeOK'
    BY <1>8 DEF WatchResource, TypeOK
<1>9. CASE WatchDeployment
    BY <1>9 DEF WatchDeployment, TypeOK
<1>10. ASSUME NEW c \in Names, TimerFires(c)
      PROVE  TypeOK'
    BY <1>10 DEF TimerFires, TypeOK
<1>11. CASE Restart
    <2>1. crCurrent' \in [Names -> SUBSET {"cache", "worker"}]
        BY <1>11 DEF Restart
    <2>2. disturbances' \in 0..MaxDisturbances
        BY <1>11, BoundIsNat DEF Restart, Disturb, TypeOK
    <2> QED
        BY <1>11, <2>1, <2>2 DEF Restart, TypeOK
<1>12. ASSUME NEW c \in Names, NEW s \in Specs, ApplyResource(c, s)
      PROVE  TypeOK'
    <2>1. cr' \in [Names -> Resource \cup {Absent}]
        <3> DEFINE object == IF cr[c] = Absent
                               THEN [spec |-> s, replicas |-> 0, depth |-> 0]
                               ELSE [cr[c] EXCEPT !.spec = s]
        <3>1. object \in Resource
            BY DEF TypeOK, Resource
        <3>2. cr' = [cr EXCEPT ![c] = object]
            BY <1>12 DEF ApplyResource, WriteResource
        <3> QED
            BY <3>1, <3>2 DEF TypeOK
    <2>2. crCurrent' \in [Names -> SUBSET {"cache", "worker"}]
        BY <1>12 DEF ApplyResource, WriteResource, TypeOK
    <2>3. disturbances' \in 0..MaxDisturbances
        BY <1>12, BoundIsNat DEF ApplyResource, WriteResource, Disturb, TypeOK
    <2> QED
        BY <1>12, <2>1, <2>2, <2>3 DEF ApplyResource, WriteResource, TypeOK
<1>13. ASSUME NEW c \in Names, DeleteResource(c)
      PROVE  TypeOK'
    <2>1. cr' \in [Names -> Resource \cup {Absent}]
        BY <1>13 DEF DeleteResource, WriteResource, TypeOK
    <2>2. crCurrent' \in [Names -> SUBSET {"cache", "worker"}]
        BY <1>13 DEF DeleteResource, WriteResource, TypeOK
    <2>3. disturbances' \in 0..MaxDisturbances
        BY <1>13, BoundIsNat DEF DeleteResource, WriteResource, Disturb, TypeOK
    <2> QED
        BY <1>13, <2>1, <2>2, <2>3 DEF DeleteResource, WriteResource, TypeOK
<1>14. ASSUME NEW n \in Counts, ApplyDeployment(n)
      PROVE  TypeOK'
    <2>1. dep' \in Deployment \cup {Absent}
        <3>1. n \in Nat
            BY CountsAreNat
        <3> QED
            BY <1>14, <3>1 DEF ApplyDeployment, WriteDeployment, TypeOK,
               Deployment
    <2>2. disturbances' \in 0..MaxDisturbances
        BY <1>14, BoundIsNat DEF ApplyDeployment, WriteDeployment, Disturb,
           TypeOK
    <2> QED
        BY <1>14, <2>1, <2>2 DEF ApplyDeployment, WriteDeployment, TypeOK
<1>15. CASE DeleteDeployment
    <2>1. dep' \in Deployment \cup {Absent}
        BY <1>15 DEF DeleteDeployment, WriteDeployment
    <2>2. disturbances' \in 0..MaxDisturbances
        BY <1>15, BoundIsNat DEF DeleteDeployment, WriteDeployment, Disturb,
           TypeOK
    <2> QED
        BY <1>15, <2>1, <2>2 DEF DeleteDeployment, WriteDeployment, TypeOK
<1>16. CASE RollOut
    <2>1. dep' \in Deployment \cup {Absent}
        BY <1>16 DEF RollOut, WriteDeployment, TypeOK, Deployment
    <2> QED
        BY <1>16, <2>1 DEF RollOut, WriteDeployment, TypeOK
<1>17. CASE QueueMoves
    <2>1. depth' \in MockDepths
        <3>1. depth = 2 \/ depth = 8 \/ depth = 18
            BY DEF TypeOK, MockDepths
        <3>2. depth' = IF depth = 2 THEN 8 ELSE IF depth = 8 THEN 18 ELSE 2
            BY <1>17, <3>1 DEF QueueMoves
        <3> QED
            BY <3>2 DEF MockDepths
    <2>2. disturbances' \in 0..MaxDisturbances
        BY <1>17, BoundIsNat DEF QueueMoves, Disturb, TypeOK
    <2> QED
        BY <1>17, <2>1, <2>2 DEF QueueMoves, TypeOK
<1>18. CASE UNCHANGED vars
    BY <1>18 DEF vars, TypeOK
<1>19. ASSUME NEW c \in Names, GetResourceFails(c)
      PROVE  TypeOK'
    <2>1. disturbances' \in 0..MaxDisturbances
        BY <1>19, BoundIsNat DEF GetResourceFails, Disturb, TypeOK
    <2> QED
        BY <1>19, <2>1 DEF GetResourceFails, TypeOK
<1>20. CASE GetDeploymentFails
    <2>1. crCurrent' \in [Names -> SUBSET {"cache", "worker"}]
        BY <1>20 DEF GetDeploymentFails, DropCopies, TypeOK
    <2>2. queue' \subseteq Names /\ timers' \subseteq Names
        BY <1>20, WorkerCases, PcMeansBusy DEF GetDeploymentFails, Failed,
           DropCopies, TypeOK
    <2>3. disturbances' \in 0..MaxDisturbances
        BY <1>20, BoundIsNat DEF GetDeploymentFails, Disturb, DropCopies,
           TypeOK
    <2> QED
        BY <1>20, <2>1, <2>2, <2>3 DEF GetDeploymentFails, Failed, DropCopies,
           TypeOK
<1> QED
    BY <1>1, <1>2, <1>3, <1>4, <1>5, <1>6, <1>7, <1>8, <1>9, <1>10, <1>11,
       <1>12, <1>13, <1>14, <1>15, <1>16, <1>17, <1>18, <1>19, <1>20
    DEF Next, Reconcile,
       Users

\* A write takes the latest version from everyone; a read copies the flag with the
\* value; a worker that is done holds nothing.
LEMMA StepKeepsCopies == TypeOK /\ Copies /\ [Next]_vars => Copies'
<1> SUFFICES ASSUME TypeOK, Copies, [Next]_vars PROVE Copies'
    OBVIOUS
<1>1. ASSUME NEW c \in Names, GetResource(c)
      PROVE  Copies'
    BY <1>1, PcMeansBusy DEF GetResource, TypeOK, Copies
<1>2. CASE GetDeployment
    <2>1. worker # Idle /\ worker \in Reconciling
        BY <1>2, WorkerCases, PcMeansBusy DEF GetDeployment
    <2>2. /\ worker'.name = worker.name /\ worker'.object = worker.object
          /\ worker'.dep = depCache /\ worker'.pc \in {"scale", "status"}
          /\ worker'.pc = "scale" => depCache # Absent
        BY <1>2, <2>1 DEF GetDeployment, NeedsScaling, Reconciling
    <2>3. worker' # Idle
        BY <2>2 DEF Idle
    <2>4. /\ dep' = dep /\ depCache' = depCache /\ cr' = cr
          /\ crCache' = crCache /\ crCurrent' = crCurrent
          /\ "cache" \in depCurrent' => "cache" \in depCurrent
          /\ "worker" \in depCurrent' =>
                "worker" \in depCurrent \/ "cache" \in depCurrent
        BY <1>2 DEF GetDeployment, server, caches
    <2>5. "worker" \notin depCurrent
        BY <1>2 DEF GetDeployment, Copies
    <2> QED
        BY <2>1, <2>2, <2>3, <2>4, <2>5 DEF Copies
<1>3. CASE ScaleDeployment
    <2>1. worker # Idle /\ worker \in Reconciling
        BY <1>3, WorkerCases, PcMeansBusy DEF ScaleDeployment
    <2>2. CASE /\ worker' = [worker EXCEPT !.scaled = TRUE, !.pc = "status"]
             /\ UNCHANGED <<crCurrent, queue, timers, disturbances>>
        <3>1. /\ worker' # Idle /\ worker'.name = worker.name
              /\ worker'.object = worker.object /\ worker'.pc = "status"
            BY <2>1, <2>2 DEF Idle, Reconciling
        <3> QED
            BY <1>3, <2>1, <2>2, <3>1 DEF ScaleDeployment, Copies
    <2>3. CASE /\ Disturb /\ Failed
             /\ crCurrent' = [c \in Names |-> crCurrent[c] \ {"worker"}]
        BY <1>3, <2>1, <2>3 DEF ScaleDeployment, Failed, Idle, Copies
    <2> QED
        BY <1>3, <2>2, <2>3 DEF ScaleDeployment
<1>4. CASE ScaleFails
    BY <1>4 DEF ScaleFails, Failed, DropCopies, Copies, Idle
<1>5. CASE UpdateStatus
    BY <1>5 DEF UpdateStatus, Failed, Done, TypeOK, Copies, Idle
<1>6. CASE StatusFails
    BY <1>6 DEF StatusFails, Failed, DropCopies, Copies, Idle
<1>7. CASE StatusUnchanged
    BY <1>7 DEF StatusUnchanged, Done, DropCopies, Copies, Idle
<1>8. ASSUME NEW c \in Names, WatchResource(c)
      PROVE  Copies'
    BY <1>8 DEF WatchResource, TypeOK, Copies
<1>9. CASE WatchDeployment
    BY <1>9 DEF WatchDeployment, Copies
<1>10. ASSUME NEW c \in Names, TimerFires(c)
      PROVE  Copies'
    BY <1>10 DEF TimerFires, Copies
<1>11. CASE Restart
    BY <1>11 DEF Restart, Copies, Idle
<1>12. ASSUME NEW c \in Names, NEW s \in Specs, ApplyResource(c, s)
      PROVE  Copies'
    BY <1>12 DEF ApplyResource, WriteResource, TypeOK, Copies
<1>13. ASSUME NEW c \in Names, DeleteResource(c)
      PROVE  Copies'
    BY <1>13 DEF DeleteResource, WriteResource, TypeOK, Copies
<1>14. ASSUME NEW n \in Counts, ApplyDeployment(n)
      PROVE  Copies'
    BY <1>14 DEF ApplyDeployment, WriteDeployment, Copies
<1>15. CASE DeleteDeployment
    BY <1>15 DEF DeleteDeployment, WriteDeployment, Copies
<1>16. CASE RollOut
    BY <1>16 DEF RollOut, WriteDeployment, Copies
<1>17. CASE QueueMoves
    BY <1>17 DEF QueueMoves, Copies
<1>18. CASE UNCHANGED vars
    BY <1>18 DEF vars, Copies
<1>19. ASSUME NEW c \in Names, GetResourceFails(c)
      PROVE  Copies'
    BY <1>19 DEF GetResourceFails, Copies
<1>20. CASE GetDeploymentFails
    BY <1>20 DEF GetDeploymentFails, Failed, DropCopies, Copies, Idle
<1> QED
    BY <1>1, <1>2, <1>3, <1>4, <1>5, <1>6, <1>7, <1>8, <1>9, <1>10, <1>11,
       <1>12, <1>13, <1>14, <1>15, <1>16, <1>17, <1>18, <1>19, <1>20
    DEF Next, Reconcile,
       Users

\* A name leaves the queue only for the worker, and the worker only for the queue or
\* a timer.
LEMMA StepForgetsNone ==
    TypeOK /\ Copies /\ NeverForgotten /\ [Next]_vars => NeverForgotten'
<1> SUFFICES ASSUME TypeOK, Copies, NeverForgotten, [Next]_vars PROVE NeverForgotten'
    OBVIOUS
<1>1. ASSUME NEW c \in Names, GetResource(c)
      PROVE  NeverForgotten'
    BY <1>1, PcMeansBusy DEF GetResource, TypeOK, Copies, NeverForgotten
<1>2. CASE GetDeployment
    BY <1>2 DEF GetDeployment, TypeOK, NeverForgotten, Idle, Reconciling
<1>3. CASE ScaleDeployment
    <2>1. worker # Idle /\ worker \in Reconciling
        BY <1>3, WorkerCases, PcMeansBusy DEF ScaleDeployment
    <2>2. CASE /\ worker' = [worker EXCEPT !.scaled = TRUE, !.pc = "status"]
             /\ UNCHANGED <<crCurrent, queue, timers, disturbances>>
        <3>1. /\ worker' # Idle /\ worker'.name = worker.name
              /\ worker'.object = worker.object /\ worker'.pc = "status"
            BY <2>1, <2>2 DEF Idle, Reconciling
        <3> QED
            BY <1>3, <2>1, <2>2, <3>1 DEF ScaleDeployment, NeverForgotten
    <2>3. CASE /\ Disturb /\ Failed
             /\ crCurrent' = [c \in Names |-> crCurrent[c] \ {"worker"}]
        BY <1>3, <2>1, <2>3 DEF ScaleDeployment, Failed, NeverForgotten
    <2> QED
        BY <1>3, <2>2, <2>3 DEF ScaleDeployment
<1>4. CASE ScaleFails
    BY <1>4 DEF ScaleFails, Failed, DropCopies, NeverForgotten
<1>5. CASE UpdateStatus
    BY <1>5 DEF UpdateStatus, Failed, Done, TypeOK, NeverForgotten
<1>6. CASE StatusFails
    BY <1>6 DEF StatusFails, Failed, DropCopies, NeverForgotten
<1>7. CASE StatusUnchanged
    BY <1>7 DEF StatusUnchanged, Done, DropCopies, NeverForgotten
<1>8. ASSUME NEW c \in Names, WatchResource(c)
      PROVE  NeverForgotten'
    BY <1>8 DEF WatchResource, NeverForgotten
<1>9. CASE WatchDeployment
    BY <1>9 DEF WatchDeployment, NeverForgotten
<1>10. ASSUME NEW c \in Names, TimerFires(c)
      PROVE  NeverForgotten'
    BY <1>10 DEF TimerFires, NeverForgotten
<1>11. CASE Restart
    BY <1>11 DEF Restart, NeverForgotten
<1>12. ASSUME NEW c \in Names, NEW s \in Specs, ApplyResource(c, s)
      PROVE  NeverForgotten'
    BY <1>12 DEF ApplyResource, WriteResource, TypeOK, NeverForgotten
<1>13. ASSUME NEW c \in Names, DeleteResource(c)
      PROVE  NeverForgotten'
    BY <1>13 DEF DeleteResource, WriteResource, NeverForgotten
<1>14. ASSUME NEW n \in Counts, ApplyDeployment(n)
      PROVE  NeverForgotten'
    BY <1>14 DEF ApplyDeployment, WriteDeployment, NeverForgotten
<1>15. CASE DeleteDeployment
    BY <1>15 DEF DeleteDeployment, WriteDeployment, NeverForgotten
<1>16. CASE RollOut
    BY <1>16 DEF RollOut, WriteDeployment, NeverForgotten
<1>17. CASE QueueMoves
    BY <1>17 DEF QueueMoves, NeverForgotten
<1>18. CASE UNCHANGED vars
    BY <1>18 DEF vars, NeverForgotten
<1>19. ASSUME NEW c \in Names, GetResourceFails(c)
      PROVE  NeverForgotten'
    BY <1>19 DEF GetResourceFails, NeverForgotten
<1>20. CASE GetDeploymentFails
    BY <1>20 DEF GetDeploymentFails, Failed, DropCopies, NeverForgotten
<1> QED
    BY <1>1, <1>2, <1>3, <1>4, <1>5, <1>6, <1>7, <1>8, <1>9, <1>10, <1>11,
       <1>12, <1>13, <1>14, <1>15, <1>16, <1>17, <1>18, <1>19, <1>20
    DEF Next, Reconcile,
       Users

-----------------------------------------------------------------------------
(***************************************************************************)
(* The theorems.                                                           *)
(***************************************************************************)

\* The inductive invariant.
OperatorInv == TypeOK /\ Copies /\ NeverForgotten

\* It holds in every state the operator reaches.
LEMMA OperatorInvariance == Spec => []OperatorInv
<1>1. Init => OperatorInv
    BY InitInv DEF OperatorInv
<1>2. OperatorInv /\ [Next]_vars => OperatorInv'
    BY StepKeepsTypes, StepKeepsCopies, StepForgetsNone DEF OperatorInv
<1> QED
    BY <1>1, <1>2, PTL DEF Spec

\* The objects, the caches and the worker keep their shape, and every replica count
\* the operator writes is a natural number, whatever integers a spec contains.
THEOREM OperatorTypeCorrect == Spec => []TypeOK
<1>1. OperatorInv => TypeOK
    BY DEF OperatorInv
<1> QED
    BY <1>1, OperatorInvariance, PTL

\* No resource is ever forgotten, for any number of resources, edits and faults.
THEOREM NoResourceForgotten == Spec => []NeverForgotten
<1>1. OperatorInv => NeverForgotten
    BY DEF OperatorInv
<1> QED
    BY <1>1, OperatorInvariance, PTL

\* A write that is accepted goes from the object that was read, so no concurrent
\* change of a user or of the Deployment controller is undone unseen.
THEOREM NoUpdateLost == Spec => NoLostUpdate
<1>1. OperatorInv => WritesWhatItRead
    <2> SUFFICES ASSUME OperatorInv PROVE WritesWhatItRead
        OBVIOUS
    <2>1. ASSUME ScaleDeployment PROVE dep = worker.dep
        BY <2>1 DEF OperatorInv, Copies, ScaleDeployment, DeploymentIsCurrent
    <2>2. ASSUME UpdateStatus PROVE cr[worker.name] = worker.object
        <3>1. worker.name \in Names
            BY <2>2, WorkerCases, PcMeansBusy DEF OperatorInv, UpdateStatus
        <3> QED
            BY <2>2, <3>1 DEF OperatorInv, Copies, UpdateStatus
    <2> QED
        BY <2>1, <2>2 DEF WritesWhatItRead
<1>2. OperatorInv /\ [Next]_vars => [WritesWhatItRead]_vars
    BY <1>1
<1> QED
    BY <1>2, OperatorInvariance, PTL DEF Spec, NoLostUpdate

=============================================================================
