---------------------------- MODULE MCDiagnostics ----------------------------
(* A container with two lines in its log, and one with an empty frame that    *)
(* also answers to the first one's id. *)
EXTENDS Diagnostics

MCContainers == <<[id |-> "id1", short |-> "1", names |-> {"triton"},
                   log |-> <<<<7>>, <<7, 9>>>>],
                  [id |-> "id2", short |-> "2", names |-> {"id1"}, log |-> <<<<>>, <<5>>>>]>>
MCNames == {"triton", "id1", "gone"}
=============================================================================
