------------------------------ MODULE JobBroker ------------------------------
(***************************************************************************)
(* What the Slurm simulator promises its users, without store, lock, pass  *)
(* or clock: a job waits, is granted a node that has room for all it       *)
(* claims, and is over exactly once.  SlurmRefinesBroker shows that        *)
(* SlurmCluster implements this.                                           *)
(***************************************************************************)
EXTENDS Integers, FiniteSets

CONSTANTS Jobs, Nodes, Resources, Claims, Capacity, Nowhere

VARIABLES
    status,     \* status[j]: where job j is in its life
    seat,       \* seat[j]: the node j holds, or Nowhere
    claim       \* claim[j]: what j asks for

vars == <<status, seat, claim>>

Holders(n) == {j \in Jobs : seat[j] = n}

Granted(n, r) == UNION {{j} \X (1 .. claim[j][r]) : j \in Holders(n)}

Room(n, r) == Capacity[n][r] - Cardinality(Granted(n, r))

Init ==
    /\ status = [j \in Jobs |-> "new"]
    /\ seat = [j \in Jobs |-> Nowhere]
    /\ claim = [j \in Jobs |-> [r \in Resources |-> 0]]

Submit(j, c) ==
    /\ status[j] = "new"
    /\ status' = [status EXCEPT ![j] = "waiting"]
    /\ claim' = [claim EXCEPT ![j] = c]
    /\ UNCHANGED seat

Grant(j, n) ==
    /\ status[j] = "waiting"
    /\ \A r \in Resources : claim[j][r] <= Room(n, r)
    /\ status' = [status EXCEPT ![j] = "holding"]
    /\ seat' = [seat EXCEPT ![j] = n]
    /\ UNCHANGED claim

End(j) ==
    /\ status[j] \in {"waiting", "holding"}
    /\ status' = [status EXCEPT ![j] = "over"]
    /\ seat' = [seat EXCEPT ![j] = Nowhere]
    /\ UNCHANGED claim

Next ==
    \E j \in Jobs : \/ \E c \in Claims : Submit(j, c)
                    \/ \E n \in Nodes : Grant(j, n)
                    \/ End(j)

Spec == Init /\ [][Next]_vars
=============================================================================
