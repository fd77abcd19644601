---------------------------- MODULE RingAllReduce ----------------------------
(***************************************************************************)
(* The Ring-AllReduce of nccl-visualizer/main.go: N free-running goroutines*)
(* joined in a ring by channels of capacity one, 2(N-1) steps each and no  *)
(* barrier.                                                                *)
(*                                                                         *)
(* Addition is all the program does to a value, so a value is the bag of   *)
(* the <<gpu, chunk>> contributions summed into it.  The program's values  *)
(* are float64, and main compares sums that were added in different        *)
(* orders: two values are equal exactly when their bags are only while no  *)
(* addition rounds, which is so up to MaxExact GPUs.                       *)
(***************************************************************************)
EXTENDS Integers, Sequences, Bags

CONSTANT N      \* -nodes

ASSUME NAssumption == N \in Nat /\ N >= 2

GPUs == 0 .. N - 1

VARIABLES
    data,       \* data[i][c]: chunk c on GPU i
    channels,   \* channels[i]: the input channel of GPU i
    phase,      \* phase[i]: which loop the goroutine of GPU i is in
    step,       \* step[i]: that loop's variable
    sent,       \* sent[i]: this step's message is sent, the receive is not done
    verdict     \* what main prints after wg.Wait()

vars == <<data, channels, phase, step, sent, verdict>>

Seed(i, c) == SetToBag({<<i, c>>})
Full(c) == SetToBag({<<i, c>> : i \in GPUs})

\* GPU i seeds chunk c with (c+1) * 10^i, so the largest sum, of chunk N - 1, is N
\* times the number of N ones.  For 15 GPUs it is below 2^53, up to where every
\* whole number is a float64: no sum rounds, in any order.  For 16 it is not.
MaxExact == 15

Next1(i) == (i + 1) % N

\* Mutant: the index arithmetic of the first loop used in both.
ReduceSendChunk(i) == (i - step[i] + N) % N

SendChunk(i) ==
    IF phase[i] = "reduce" THEN (i - step[i] + N) % N
                           ELSE (i + 1 - step[i] + N) % N

\* Mutant: the second loop waits for the chunk it has just sent.
OwnRecvChunk(i) ==
    IF phase[i] = "reduce" THEN (i - step[i] - 1 + N) % N
                           ELSE (i + 1 - step[i] + N) % N

RecvChunk(i) ==
    IF phase[i] = "reduce" THEN (i - step[i] - 1 + N) % N
                           ELSE (i - step[i] + N) % N

Init ==
    /\ data = [i \in GPUs |-> [c \in GPUs |-> Seed(i, c)]]
    /\ channels = [i \in GPUs |-> <<>>]
    /\ phase = [i \in GPUs |-> "reduce"]
    /\ step = [i \in GPUs |-> 0]
    /\ sent = [i \in GPUs |-> FALSE]
    /\ verdict = "none"

\* Mutant: a write that really does not block, and drops what has no room.
SendOrDrop(i) ==
    /\ phase[i] # "done"
    /\ ~sent[i]
    /\ channels' = [channels EXCEPT ![Next1(i)] = IF @ # <<>> THEN @ ELSE Append(@,
          [step |-> step[i], chunk |-> SendChunk(i),
           value |-> data[i][SendChunk(i)]])]
    /\ sent' = [sent EXCEPT ![i] = TRUE]
    /\ UNCHANGED <<data, phase, step, verdict>>

\* Mutant: unbuffered channels, where a write waits for the neighbour's read.
SendUnbuffered(i) ==
    /\ phase[i] # "done"
    /\ ~sent[i]
    /\ sent[Next1(i)]
    /\ Len(channels[Next1(i)]) < 1
    /\ channels' = [channels EXCEPT ![Next1(i)] = Append(@,
          [step |-> step[i], chunk |-> SendChunk(i),
           value |-> data[i][SendChunk(i)]])]
    /\ sent' = [sent EXCEPT ![i] = TRUE]
    /\ UNCHANGED <<data, phase, step, verdict>>

\* Read the chunk to send (only this goroutine writes it, so when it is read
\* does not matter) and put it in the neighbour's channel, which must have room.
Send(i) ==
    /\ phase[i] # "done"
    /\ ~sent[i]
    /\ Len(channels[Next1(i)]) < 1
    /\ channels' = [channels EXCEPT ![Next1(i)] = Append(@,
          [step |-> step[i], chunk |-> SendChunk(i),
           value |-> data[i][SendChunk(i)]])]
    /\ sent' = [sent EXCEPT ![i] = TRUE]
    /\ UNCHANGED <<data, phase, step, verdict>>

\* Mutant: the all-gather loop accumulates, as the reduce-scatter loop does.
AlwaysAdd(i, msg) == data[i][RecvChunk(i)] (+) msg.value

\* What the received chunk becomes: accumulated, then overwritten.
Received(i, msg) ==
    IF phase[i] = "reduce" THEN data[i][RecvChunk(i)] (+) msg.value
                           ELSE msg.value

\* Mutant: the loops make N iterations.
OneStepMore(i) ==
    IF step[i] < N - 1
    THEN step' = [step EXCEPT ![i] = @ + 1] /\ UNCHANGED phase
    ELSE /\ step' = [step EXCEPT ![i] = 0]
         /\ phase' = [phase EXCEPT ![i] = IF @ = "reduce" THEN "gather" ELSE "done"]

\* Mutant: the second loop is entered one iteration early.
OneStepLess(i) ==
    IF step[i] + 2 < N - 1
    THEN step' = [step EXCEPT ![i] = @ + 1] /\ UNCHANGED phase
    ELSE /\ step' = [step EXCEPT ![i] = 0]
         /\ phase' = [phase EXCEPT ![i] = IF @ = "reduce" THEN "gather" ELSE "done"]

\* The end of an iteration of either loop.
Advance(i) ==
    IF step[i] + 1 < N - 1
    THEN step' = [step EXCEPT ![i] = @ + 1] /\ UNCHANGED phase
    ELSE /\ step' = [step EXCEPT ![i] = 0]
         /\ phase' = [phase EXCEPT ![i] = IF @ = "reduce" THEN "gather" ELSE "done"]

\* The second half of an iteration.  A message of another step is reported
\* (the first loop only) but used all the same, and its ChunkIndex is ignored.
Receive(i) ==
    /\ sent[i]
    /\ channels[i] # <<>>
    /\ data' = [data EXCEPT ![i][RecvChunk(i)] = Received(i, Head(channels[i]))]
    /\ channels' = [channels EXCEPT ![i] = Tail(@)]
    /\ sent' = [sent EXCEPT ![i] = FALSE]
    /\ Advance(i)
    /\ UNCHANGED verdict

\* What main can say of the chunks: the truth, unless sums may have rounded.
Verdicts ==
    IF N > MaxExact THEN {"success", "failed"}
    ELSE IF \A i \in GPUs, c \in GPUs : data[i][c] = Full(c) THEN {"success"}
    ELSE {"failed"}

\* main, once every goroutine has called wg.Done().
Verify ==
    /\ verdict = "none"
    /\ \A i \in GPUs : phase[i] = "done"
    /\ verdict' \in Verdicts
    /\ UNCHANGED <<data, channels, phase, step, sent>>

\* The program has exited.
Exited == verdict # "none" /\ UNCHANGED vars

Next == (\E i \in GPUs : Send(i) \/ Receive(i)) \/ Verify \/ Exited

Spec == Init /\ [][Next]_vars

\* Every goroutine that can go on does, and so does main.
FairSpec ==
    /\ Spec
    /\ \A i \in GPUs : WF_vars(Send(i)) /\ WF_vars(Receive(i))
    /\ WF_vars(Verify)

-----------------------------------------------------------------------------
(* Properties *)

\* The shape of the state; a chunk never holds a contribution twice.
TypeOK ==
    /\ phase \in [GPUs -> {"reduce", "gather", "done"}]
    /\ step \in [GPUs -> 0 .. N - 2]
    /\ sent \in [GPUs -> BOOLEAN]
    /\ verdict \in {"none", "success", "failed"}
    /\ \A i, c \in GPUs : /\ DOMAIN data[i][c] \subseteq GPUs \X GPUs
                          /\ \A e \in DOMAIN data[i][c] : data[i][c][e] = 1
    /\ \A i \in GPUs : Len(channels[i]) <= 1

\* How many messages GPU i has taken in, over both loops.
Taken(i) ==
    CASE phase[i] = "reduce" -> step[i]
      [] phase[i] = "gather" -> N - 1 + step[i]
      [] phase[i] = "done"   -> 2 * (N - 1)

\* Nothing keeps the GPUs in step but the channels, yet what a GPU takes next
\* is always its neighbour's message of its own loop and step, carrying the
\* chunk it is about to write: the "Sync issues" line is never printed, and
\* ignoring ChunkIndex and not checking the second loop is harmless.
NeverOutOfStep ==
    \A i \in GPUs :
        channels[i] # <<>> =>
            LET msg == Head(channels[i]) IN
            /\ phase[i] # "done"
            /\ msg.step = step[i]
            /\ msg.chunk = RecvChunk(i)

\* A GPU is never more than its neighbours' messages ahead: what i has sent is
\* what i+1 has taken plus what is in the channel between them.  Around the
\* ring no two GPUs drift further apart than their distance.
BoundedDrift ==
    /\ \A i \in GPUs :
          Taken(i) + (IF sent[i] THEN 1 ELSE 0)
              = Taken(Next1(i)) + Len(channels[Next1(i)])
    /\ \A i, k \in GPUs : Taken(i) - Taken(k) <= (i - k + N) % N

\* "After N-1 steps, each node i has the fully accumulated sum for exactly one
\* chunk index: (i+1)%N", and from then on it never loses it.
OwnsOneChunk ==
    \A i \in GPUs :
        /\ phase[i] # "reduce" => data[i][Next1(i)] = Full(Next1(i))
        /\ phase[i] = "gather" /\ step[i] = 0 =>
              \A c \in GPUs \ {Next1(i)} : data[i][c] # Full(c)

\* Once a chunk is complete on a GPU it stays so, although the second loop
\* overwrites chunks with what comes round the ring.
CompleteChunksStay ==
    [][\A i, c \in GPUs : data[i][c] = Full(c) => data'[i][c] = Full(c)]_vars

\* When main compares, every channel is drained and every chunk of every GPU holds
\* every contribution exactly once, whatever order the goroutines ran in; and while
\* the sums are exact main reports no mismatch.
VerifiedCorrect ==
    /\ verdict # "none" =>
          \A i \in GPUs : /\ channels[i] = <<>>
                          /\ \A c \in GPUs : data[i][c] = Full(c)
    /\ N <= MaxExact => verdict # "failed"

\* "After N-1 steps, every node has the fully reduced array": the ring never
\* deadlocks, every goroutine gets through both loops and main exits.
AllReduceEnds == <>(verdict # "none")
=============================================================================
