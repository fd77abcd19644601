----------------------------- MODULE Diagnostics -----------------------------
(***************************************************************************)
(* The diagnostics engine of the MCP server: the choice between live       *)
(* clients and mock data, made once at start-up, the three tools, and the  *)
(* loop of TailLogs that takes a multiplexed log stream apart.  Docker     *)
(* sends a frame as an 8-byte header (stream type at 0, payload size in    *)
(* bytes 4 to 7) and its payload.  One Read returns what has arrived, at   *)
(* least one byte and at most what fits into the buffer.                   *)
(***************************************************************************)
EXTENDS Integers, Sequences, SequencesExt

CONSTANTS
    Containers, \* sequence of [id, short, names, log]: log is a sequence of payloads
    Names,      \* what clients ask for
    None        \* a call without the name argument, no container, no reply yet

HeaderSize == 8

\* A container's log is a sequence of payloads, each with a size that four bytes hold.
Byte == 0..255
FitsHeader(payload) == Len(payload) \div 16777216 \in Byte
ASSUME LogsAssumption ==
    /\ DOMAIN Containers \subseteq Nat
    /\ \A k \in DOMAIN Containers :
         /\ Containers[k].log \in Seq(Seq(Byte))
         /\ \A i \in DOMAIN Containers[k].log : FitsHeader(Containers[k].log[i])

\* What Docker sends for one payload, and for a log.
SizeBytes(n) == <<n \div 16777216, (n \div 65536) % 256, (n \div 256) % 256, n % 256>>
Frame(payload) == <<1, 0, 0, 0>> \o SizeBytes(Len(payload)) \o payload
Written(k) == FlattenSeq(Containers[k].log)
Stream(k) == FlattenSeq([i \in DOMAIN Containers[k].log |-> Frame(Containers[k].log[i])])

VARIABLES
    reachable, \* which of "docker" and "kube" would answer now
    clients,   \* the clients the engine was given at start-up
    pc,        \* "start", "idle", or where TailLogs is
    target,    \* the container that is read
    rest,      \* what its stream still holds
    hdr,       \* the header buffer, which is never cleared
    text,      \* what was written to buf, one piece per payload
    short,     \* a Read of this log returned less than it could
    reply

vars == <<reachable, clients, pc, target, rest, hdr, text, short, reply>>
tail == <<target, rest, hdr, text, short>>

\* TailLogs has returned, and its local variables are gone.
Forget ==
    /\ target' = None
    /\ rest' = <<>>
    /\ hdr' = <<>>
    /\ text' = <<>>
    /\ short' = FALSE

Init ==
    /\ reachable \in SUBSET {"docker", "kube"}
    /\ clients = {}
    /\ pc = "start"
    /\ target = None
    /\ rest = <<>>
    /\ hdr = <<>>
    /\ text = <<>>
    /\ short = FALSE
    /\ reply = None

-----------------------------------------------------------------------------
\* Forced mock mode takes no client; otherwise each client that answers is kept.
NewDiagnosticsEngine ==
    /\ pc = "start"
    /\ pc' = "idle"
    /\ clients' \in {{}, reachable}
    /\ UNCHANGED <<reachable, tail, reply>>

ReachabilityChanges ==
    /\ reachable' \in SUBSET {"docker", "kube"}
    /\ reachable' # reachable
    /\ UNCHANGED <<clients, pc, tail, reply>>

Answer(kind, body) == reply' = [kind |-> kind, body |-> body]

\* Mock data, the list, or the error of the call.
List(client) ==
    /\ pc = "idle"
    /\ IF client \notin clients THEN Answer("mock", <<>>)
       ELSE IF client \in reachable THEN Answer("list", <<>>)
       ELSE Answer("error", <<>>)
    /\ UNCHANGED <<reachable, clients, pc, tail>>
ListContainers == List("docker")
ListPods == List("kube")

\* A container that has a name answers to its names, its short id and its id; the
\* first one of the list that does is taken.
AnswersTo(container, name) ==
    /\ container.names # {}
    /\ name \in container.names \cup {container.short, container.id}
FindContainer(name) ==
    LET found == {k \in DOMAIN Containers : AnswersTo(Containers[k], name)}
    IN  IF found = {} THEN None
        ELSE CHOOSE k \in found : \A j \in found : k <= j

TailLogs(name) ==
    \/ /\ \/ "docker" \notin clients /\ Answer("mock", <<>>)
          \/ /\ "docker" \in clients
             /\ "docker" \notin reachable \/ FindContainer(name) = None
             /\ Answer("error", <<>>)
       /\ UNCHANGED <<pc, tail>>
    \/ /\ "docker" \in clients \cap reachable
       /\ FindContainer(name) # None
       /\ pc' = "open"
       /\ target' = FindContainer(name)
       /\ reply' = None
       /\ UNCHANGED <<rest, hdr, text, short>>

\* The tool, which wants a name.
CallTailLogs(name) ==
    /\ pc = "idle"
    /\ \/ name = None /\ Answer("error", <<>>) /\ UNCHANGED <<pc, tail>>
       \/ name # None /\ TailLogs(name)
    /\ UNCHANGED <<reachable, clients>>

\* The daemon sends the log, or is gone, as the container can be by now.
OpenLogs ==
    /\ pc = "open"
    /\ \/ /\ "docker" \in reachable
          /\ pc' = "header"
          /\ rest' = Stream(target)
          /\ hdr' = [i \in 1..HeaderSize |-> 0]
          /\ UNCHANGED <<target, text, short, reply>>
       \/ /\ pc' = "idle"
          /\ Answer("error", <<>>)
          /\ Forget
    /\ UNCHANGED <<reachable, clients>>

-----------------------------------------------------------------------------
\* How many bytes one Read into a buffer of n bytes can return: at most what
\* fits and is left, at least one.
MostBytes(n) == IF n < Len(rest) THEN n ELSE Len(rest)
ReadCounts(n) == IF MostBytes(n) = 0 THEN {0} ELSE 1..MostBytes(n)

\* Mutant: the size is decoded with its lowest byte first.
LittleEndianSize(h) == h[5] + h[6] * 256 + h[7] * 65536 + h[8] * 16777216

\* Bytes 4 to 7 of the header, big-endian.
PayloadSize(h) == h[5] * 16777216 + h[6] * 65536 + h[7] * 256 + h[8]

\* A read overwrites the front of the buffer and leaves its rest.
ReadHeader ==
    /\ pc = "header"
    /\ rest # <<>>
    /\ \E k \in ReadCounts(HeaderSize) :
         /\ hdr' = SubSeq(rest, 1, k) \o SubSeq(hdr, k + 1, HeaderSize)
         /\ rest' = SubSeq(rest, k + 1, Len(rest))
         /\ short' = (short \/ k < MostBytes(HeaderSize))
    /\ pc' = "payload"
    /\ UNCHANGED <<reachable, clients, target, text, reply>>

\* The whole buffer is written: what was read, then the zeros behind it.
ReadPayload ==
    /\ pc = "payload"
    /\ rest # <<>>
    /\ \E k \in ReadCounts(PayloadSize(hdr)) :
         /\ text' = Append(text, [bytes |-> SubSeq(rest, 1, k),
                                  zeros |-> PayloadSize(hdr) - k])
         /\ rest' = SubSeq(rest, k + 1, Len(rest))
         /\ short' = (short \/ k < MostBytes(PayloadSize(hdr)))
    /\ pc' = "header"
    /\ UNCHANGED <<reachable, clients, target, hdr, reply>>

\* Mutant: the end of the stream is not taken for an error.
EndOfLogIgnored ==
    /\ pc \in {"header", "payload"}
    /\ rest = <<>>
    /\ UNCHANGED vars

\* The loop ends at the first error of either Read, the end of the stream
\* included; what was gathered is the reply.
EndOfLog ==
    /\ pc \in {"header", "payload"}
    /\ rest = <<>>
    /\ pc' = "idle"
    /\ Answer("log", text)
    /\ Forget
    /\ UNCHANGED <<reachable, clients>>

Next == \/ NewDiagnosticsEngine
        \/ ReachabilityChanges
        \/ ListContainers
        \/ ListPods
        \/ \E n \in Names \cup {None} : CallTailLogs(n)
        \/ OpenLogs
        \/ ReadHeader
        \/ ReadPayload
        \/ EndOfLog

Spec == Init /\ [][Next]_vars

\* The daemon sends the bytes it has, or ends the stream: the log is not followed.
FairSpec ==
    /\ Spec
    /\ WF_vars(NewDiagnosticsEngine)
    /\ WF_vars(OpenLogs)
    /\ WF_vars(ReadHeader \/ ReadPayload \/ EndOfLog)

-----------------------------------------------------------------------------
\* What buf holds is what the container wrote, nothing less and nothing between.
BufferIsWritten ==
    /\ FlattenSeq([i \in DOMAIN text |-> text[i].bytes]) = Written(target)
    /\ \A i \in DOMAIN text : text[i].zeros = 0

\* mcp-server/README.md: `tail_container_logs` "Retrieves log streams" of a
\* container.  So the log that is returned is what the container wrote.
LogIsWhole == [][EndOfLog => BufferIsWritten]_vars

\* The demultiplexing itself is right, for every cut of a log into frames, empty
\* ones included: as long as every Read returns all that fits, the reply is the log.
LogIsWholeUnlessShort == [][EndOfLog /\ ~short => BufferIsWritten]_vars

\* Every call returns, also when the loop has lost the frames and takes payload
\* bytes for headers: each Read but one of an empty payload uses up a byte.
CallsReturn == pc # "idle" ~> pc = "idle"
=============================================================================
