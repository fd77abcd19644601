----------------------------- MODULE MCOperator -----------------------------
(* A small namespace for Operator. *)
EXTENDS Operator

\* All defaults on a simulated gateway; a gateway that cannot be reached, with a
\* minimum above the maximum.
Defaults == [simulated |-> TRUE, minReplicas |-> 0, maxReplicas |-> 0,
             scaleThreshold |-> 0]
Unreachable == [simulated |-> FALSE, minReplicas |-> 3, maxReplicas |-> 2,
                scaleThreshold |-> 5]
MCSpecs == {Defaults, Unreachable}
=============================================================================
