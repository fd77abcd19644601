------------------------- MODULE SlurmRefinesBroker -------------------------
(***************************************************************************)
(* SlurmCluster implements JobBroker: the three ways a job ends are one,   *)
(* the node a job holds is its NodeList while it is RUNNING, and the node  *)
(* counters, the pass and the clock are hidden.                            *)
(***************************************************************************)
EXTENDS SlurmCluster

BrokerStatus(state) ==
    CASE state = "ABSENT"  -> "new"
      [] state = "PENDING" -> "waiting"
      [] state = "RUNNING" -> "holding"
      [] OTHER             -> "over"

Status == [j \in JobIds |-> BrokerStatus(jobState[j])]

Seat == [j \in JobIds |-> IF jobState[j] = "RUNNING" THEN nodeList[j] ELSE Empty]

Claim == [j \in JobIds |-> job[j].demand]

Broker == INSTANCE JobBroker WITH
    Jobs    <- JobIds,
    Nodes   <- NodeNames,
    Claims  <- {Admit(req).demand : req \in Requests},
    Nowhere <- Empty,
    status  <- Status,
    seat    <- Seat,
    claim   <- Claim

\* Every step of the store is a step of the broker, or one its users do not
\* see: in particular a job is only ever started on a node whose other jobs
\* leave room for it, although the code decides from counters that it keeps.
ImplementsBroker == Broker!Spec
=============================================================================
