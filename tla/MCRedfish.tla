------------------------------ MODULE MCRedfish ------------------------------
(* Requests for Redfish: a one-time and a lasting override, the target alone. *)
EXTENDS Redfish

MCIds == Systems \cup {"system-3"}
MCPatches == {[target |-> "Pxe", enabled |-> "Once"],
              [target |-> "Hdd", enabled |-> "Continuous"],
              [target |-> "Pxe", enabled |-> ""]}
=============================================================================
