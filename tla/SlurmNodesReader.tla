-------------------------- MODULE SlurmNodesReader --------------------------
(***************************************************************************)
(* A client of GET /nodes beside the running store.  GetNodes copies the   *)
(* nodes under store.mu, but the copy of a node shares the array behind    *)
(* its GRESList with the store; the handler encodes the copies after the   *)
(* lock is released, so the GPU counters it writes are whatever the store  *)
(* holds at that moment.  The unsynchronised read of one int yields the    *)
(* value before or after a concurrent write: interleaving gives both.      *)
(***************************************************************************)
EXTENDS SlurmCluster

VARIABLES
    reading,    \* nodes the encoder has still to write; {} outside a request
    copies,     \* copies[n]: what GetNodes copied
    reply       \* reply[n]: node n in the JSON reply

readerVars == <<reading, copies, reply>>

Blank == [n \in NodeNames |-> [state |-> "IDLE", used |-> used[n]]]

ReaderInit ==
    /\ Init
    /\ reading = {}
    /\ copies = Blank
    /\ reply = Blank

\* store.GetNodes, called at the start of the handler.
GetNodes ==
    /\ phase = "idle"
    /\ reading = {}
    /\ copies' = [n \in NodeNames |-> [state |-> nodeState[n], used |-> used[n]]]
    /\ reading' = NodeNames
    /\ UNCHANGED <<vars, reply>>

\* The encoder reaches node n: every field is the copy's own but the counters
\* of GRESList, which it reads through the shared array.
EncodeNode(n) ==
    /\ n \in reading
    /\ reply' = [reply EXCEPT ![n] =
                    [copies[n] EXCEPT !.used["gpus"] = used[n]["gpus"]]]
    /\ reading' = reading \ {n}
    /\ UNCHANGED <<vars, copies>>

ReaderNext ==
    \/ Next /\ UNCHANGED readerVars
    \/ GetNodes
    \/ \E n \in NodeNames : EncodeNode(n)

ReaderSpec == ReaderInit /\ [][ReaderNext]_<<vars, readerVars>>

\* "ClusterStore is the thread-safe store": what a client is told of a node
\* was true of it at one moment, so its state agrees with its own counters.
NodesReplyIsConsistent ==
    \A n \in NodeNames : reply[n].state = NodeStateOf(n, reply[n].used)
=============================================================================
