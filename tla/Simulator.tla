------------------------------ MODULE Simulator ------------------------------
(***************************************************************************)
(* The step-by-step Simulator of nccl-visualizer/simulator.go: one         *)
(* goroutine per GPU, a caller that runs Step (trigger every GPU, wait for *)
(* every GPU, count the step, publish the display state), and the ring and *)
(* tree AllReduce the GPUs run inside a step.                              *)
(*                                                                         *)
(* A buffer block is the bag of <<gpu, block>> contributions summed into   *)
(* it.  The two step functions have one shape: a GPU sends to Targets, one *)
(* after the other, then takes Expected messages from its channel.  Log    *)
(* lines are left out.                                                     *)
(***************************************************************************)
EXTENDS Integers, Sequences, FiniteSets, FiniteSetsExt, Bags

CONSTANT N      \* numGPUs

ASSUME NAssumption == N \in Nat \ {0}

GPUs == 0 .. N - 1

VARIABLES
    topology,   \* state.Topology
    buffer,     \* buffer[i][b]: block b of GPU i
    rx,         \* rx[i]: gpuChans[i], capacity 2N
    startChan,  \* startChan[i]: startChans[i], capacity 1
    done,       \* how many ids are in doneChan, capacity N
    worker,     \* worker[i]: where goroutine i is
    step,       \* state.Step
    caller,     \* where the caller of Step is
    count,      \* GPUs triggered, then collected, by the running Step
    stopped,    \* Stop has closed the start channels
    shown       \* what updateState published last

channels == <<rx, startChan, done>>
vars == <<topology, buffer, channels, worker, step, caller, count, stopped, shown>>

Seed(i, b) == SetToBag({<<i, b>>})
Full(b) == SetToBag({<<i, b>> : i \in GPUs})

\* posMod
PosMod(a) == a % N

Ring == topology = "Ring"

-----------------------------------------------------------------------------
(* The tree *)

Parent(i) == IF i = 0 THEN -1 ELSE (i - 1) \div 2

Children(i) == IF 2*i + 2 < N THEN <<2*i + 1, 2*i + 2>>
               ELSE IF 2*i + 1 < N THEN <<2*i + 1>> ELSE <<>>

Depth[i \in GPUs] == IF i = 0 THEN 0 ELSE Depth[Parent(i)] + 1

MaxDepth == Max({Depth[i] : i \in GPUs})

\* Steps of either half of the collective; state.MaxSteps is twice this.
Half == IF Ring THEN N - 1 ELSE MaxDepth

\* Mutant: the reduction starts at the root's children instead of the leaves.
TopDownDepth(s) == IF s < Half THEN s + 1 ELSE s - Half

\* The depth that sends in tree step s.
ActiveDepth(s) == IF s < Half THEN MaxDepth - s ELSE s - Half

-----------------------------------------------------------------------------
(* runRingStep and runTreeStep *)

\* Mutant: the all-gather starts from the chunk the GPU started with.
RestartedBlock(i, s) == IF s < Half THEN PosMod(i - s) ELSE PosMod(i - (s - Half))

RingBlock(i, s) == IF s < Half THEN PosMod(i - s) ELSE PosMod(i + 1 - (s - Half))

\* Mutant: a parent broadcasts to its first child only.
FirstTarget(i, s) ==
    IF s >= 2 * Half THEN <<>>
    ELSE IF Ring THEN <<PosMod(i + 1)>>
    ELSE IF Depth[i] # ActiveDepth(s) THEN <<>>
    ELSE IF s < Half THEN <<Parent(i)>> ELSE SubSeq(Children(i), 1, 1)

\* The GPUs that i sends to in step s, in order.
Targets(i, s) ==
    IF s >= 2 * Half THEN <<>>
    ELSE IF Ring THEN <<PosMod(i + 1)>>
    ELSE IF Depth[i] # ActiveDepth(s) THEN <<>>
    ELSE IF s < Half THEN <<Parent(i)>> ELSE Children(i)

\* How many messages i takes in step s.
Expected(i, s) ==
    IF s >= 2 * Half THEN 0
    ELSE IF Ring THEN 1
    ELSE IF s < Half THEN
         IF Depth[i] = ActiveDepth(s) - 1 THEN Len(Children(i)) ELSE 0
    ELSE IF Depth[i] = ActiveDepth(s) + 1 THEN 1 ELSE 0

\* What a message carries: one block in the ring, the buffer in the tree.
Payload(i, s) ==
    IF Ring THEN [b \in {RingBlock(i, s)} |-> buffer[i][b]] ELSE buffer[i]

\* Mutant: the second half accumulates like the first.
AlwaysAdd(i, msg) ==
    [b \in GPUs |-> IF b \in DOMAIN msg.values
                    THEN buffer[i][b] (+) msg.values[b] ELSE buffer[i][b]]

\* The buffer of i after it has taken msg: reduced in the first half of the
\* steps, overwritten in the second, block by block.
Taken(i, msg) ==
    [b \in GPUs |-> IF b \notin DOMAIN msg.values THEN buffer[i][b]
                    ELSE IF worker[i].step < Half
                         THEN buffer[i][b] (+) msg.values[b]
                         ELSE msg.values[b]]

-----------------------------------------------------------------------------
(* updateState *)

\* Status, LastSentTo, LastReceivedFrom and ActiveBlockIdx work out afresh, with
\* conditions of their own, what the step functions above will do.

\* finished is the value of Finished before this updateState.
Status(i, s, finished) ==
    IF finished THEN "Done"
    ELSE IF Ring
         THEN IF s < N - 1 THEN "Reduce-Scatter"
              ELSE IF s < 2 * (N - 1) THEN "All-Gather" ELSE "Idle"
    ELSE IF s < MaxDepth
         THEN IF Depth[i] = MaxDepth - s THEN "Sending"
              ELSE IF Depth[i] = MaxDepth - s - 1 /\ Children(i) # <<>>
                   THEN "Receiving" ELSE "Idle"
    ELSE IF s < 2 * MaxDepth
         THEN IF Depth[i] = s - MaxDepth THEN "Broadcasting"
              ELSE IF Depth[i] = s - MaxDepth + 1 THEN "Receiving" ELSE "Idle"
    ELSE "Idle"

LastSentTo(i, s) ==
    IF Ring THEN IF s < 2 * (N - 1) THEN (i + 1) % N ELSE -1
    ELSE IF s < MaxDepth
         THEN IF Depth[i] = MaxDepth - s THEN Parent(i) ELSE -1
    ELSE IF s < 2 * MaxDepth /\ Depth[i] = s - MaxDepth /\ Children(i) # <<>>
         THEN Children(i)[1] ELSE -1

\* The first child at depth d, or -1.
FirstChildAt(i, d) ==
    LET at == {k \in DOMAIN Children(i) : Depth[Children(i)[k]] = d}
    IN  IF at = {} THEN -1 ELSE Children(i)[Min(at)]

\* Mutant: the sending depth taken for the receiving one in the second half.
ReceivedAtOwnDepth(i, s) ==
    IF Ring THEN IF s < 2 * (N - 1) THEN PosMod(i - 1) ELSE -1
    ELSE IF s < MaxDepth
         THEN IF Depth[i] = MaxDepth - s - 1
              THEN FirstChildAt(i, MaxDepth - s) ELSE -1
    ELSE IF s < 2 * MaxDepth /\ Depth[i] = s - MaxDepth THEN Parent(i) ELSE -1

LastReceivedFrom(i, s) ==
    IF Ring THEN IF s < 2 * (N - 1) THEN PosMod(i - 1) ELSE -1
    ELSE IF s < MaxDepth
         THEN IF Depth[i] = MaxDepth - s - 1
              THEN FirstChildAt(i, MaxDepth - s) ELSE -1
    ELSE IF s < 2 * MaxDepth /\ Depth[i] = s - MaxDepth + 1 THEN Parent(i) ELSE -1

\* Mutant: the second half starts over from the GPU's own block.
BlockIdxRestarted(i, s) ==
    IF Ring /\ s < 2 * (N - 1) THEN PosMod(i - (s % (N - 1))) ELSE -1

ActiveBlockIdx(i, s) ==
    IF ~Ring THEN -1
    ELSE IF s < N - 1 THEN PosMod(i - s)
    ELSE IF s < 2 * (N - 1) THEN PosMod(i + 1 - (s - (N - 1))) ELSE -1

Snapshot(s, finished) ==
    [step     |-> s,
     gpus     |-> [i \in GPUs |->
                     [buffer |-> buffer[i],
                      status |-> Status(i, s, finished),
                      sentTo |-> LastSentTo(i, s),
                      receivedFrom |-> LastReceivedFrom(i, s),
                      block |-> ActiveBlockIdx(i, s)]],
     phase    |-> IF s < Half THEN "first" ELSE
                  IF s < 2 * Half THEN "second" ELSE "Completed",
     finished |-> finished \/ s >= 2 * Half]

-----------------------------------------------------------------------------
(* NewSimulator and Start *)

Init ==
    /\ topology \in {"Ring", "Tree"}
    /\ buffer = [i \in GPUs |-> [b \in GPUs |-> Seed(i, b)]]
    /\ rx = [i \in GPUs |-> <<>>]
    /\ startChan = [i \in GPUs |-> <<>>]
    /\ done = 0
    /\ worker = [i \in GPUs |-> [at |-> "wait", step |-> 0, sent |-> 0, got |-> 0]]
    /\ step = 0
    /\ caller = "idle"
    /\ count = 0
    /\ stopped = FALSE
    /\ shown = Snapshot(0, FALSE)

-----------------------------------------------------------------------------
(* The caller of Step *)

\* Step on a finished simulation returns at once.  (Step after Stop would send
\* on a closed channel and panic; Stop is deferred by every caller.)
CallStep ==
    /\ caller = "idle"
    /\ ~stopped
    /\ ~shown.finished
    /\ caller' = "trigger"
    /\ count' = 0
    /\ UNCHANGED <<topology, buffer, channels, worker, step, stopped, shown>>

Trigger ==
    /\ caller = "trigger"
    /\ count < N
    /\ startChan[count] = <<>>
    /\ startChan' = [startChan EXCEPT ![count] = <<step>>]
    /\ count' = count + 1
    /\ UNCHANGED <<topology, buffer, rx, done, worker, step, caller, stopped, shown>>

\* Mutant: the caller does not wait for the last GPU.
CollectAllButOne ==
    /\ done > 0
    /\ \/ caller = "trigger" /\ count = N /\ count' = 1
       \/ caller = "collect" /\ count < N /\ count' = count + 1
    /\ caller' = IF count' >= N - 1 THEN "advance" ELSE "collect"
    /\ done' = done - 1
    /\ UNCHANGED <<topology, buffer, rx, startChan, worker, step, stopped, shown>>

\* One receive from doneChan; the last one ends the wait.
Collect ==
    /\ done > 0
    /\ \/ caller = "trigger" /\ count = N /\ count' = 1
       \/ caller = "collect" /\ count < N /\ count' = count + 1
    /\ caller' = IF count' = N THEN "advance" ELSE "collect"
    /\ done' = done - 1
    /\ UNCHANGED <<topology, buffer, rx, startChan, worker, step, stopped, shown>>

\* state.Step++, outside the lock that updateState then takes.
Advance ==
    /\ caller = "advance"
    /\ caller' = "publish"
    /\ step' = step + 1
    /\ UNCHANGED <<topology, buffer, channels, worker, count, stopped, shown>>

Publish ==
    /\ caller = "publish"
    /\ shown' = Snapshot(step, shown.finished)
    /\ caller' = "idle"
    /\ count' = 0
    /\ UNCHANGED <<topology, buffer, channels, worker, step, stopped>>

Stop ==
    /\ caller = "idle"
    /\ ~stopped
    /\ stopped' = TRUE
    /\ UNCHANGED <<topology, buffer, channels, worker, step, caller, count, shown>>

-----------------------------------------------------------------------------
(* GPU goroutines *)

\* loop: take the step number.
TakeStart(i) ==
    /\ worker[i].at = "wait"
    /\ startChan[i] # <<>>
    /\ worker' = [worker EXCEPT ![i] =
          [at |-> "run", step |-> Head(startChan[i]), sent |-> 0, got |-> 0]]
    /\ startChan' = [startChan EXCEPT ![i] = Tail(@)]
    /\ UNCHANGED <<topology, buffer, rx, done, step, caller, count, stopped, shown>>

\* Mutant: Stop sends one token, which one goroutine takes.
ExitOne(i) ==
    /\ worker[i].at = "wait"
    /\ startChan[i] = <<>>
    /\ stopped
    /\ \A k \in GPUs : worker[k].at # "exited"
    /\ worker' = [worker EXCEPT ![i].at = "exited"]
    /\ UNCHANGED <<topology, buffer, channels, step, caller, count, stopped, shown>>

\* loop: the start channel is closed (and empty).
Exit(i) ==
    /\ worker[i].at = "wait"
    /\ startChan[i] = <<>>
    /\ stopped
    /\ worker' = [worker EXCEPT ![i].at = "exited"]
    /\ UNCHANGED <<topology, buffer, channels, step, caller, count, stopped, shown>>

SendsLeft(i) == worker[i].sent < Len(Targets(i, worker[i].step))

Send(i) ==
    /\ worker[i].at = "run"
    /\ SendsLeft(i)
    /\ LET k == Targets(i, worker[i].step)[worker[i].sent + 1] IN
         /\ Len(rx[k]) < 2 * N
         /\ rx' = [rx EXCEPT ![k] = Append(@,
               [from |-> i, step |-> worker[i].step,
                values |-> Payload(i, worker[i].step)])]
    /\ worker' = [worker EXCEPT ![i].sent = @ + 1]
    /\ UNCHANGED <<topology, buffer, startChan, done, step, caller, count, stopped, shown>>

Receive(i) ==
    /\ worker[i].at = "run"
    /\ ~SendsLeft(i)
    /\ worker[i].got < Expected(i, worker[i].step)
    /\ rx[i] # <<>>
    /\ buffer' = [buffer EXCEPT ![i] = Taken(i, Head(rx[i]))]
    /\ rx' = [rx EXCEPT ![i] = Tail(@)]
    /\ worker' = [worker EXCEPT ![i].got = @ + 1]
    /\ UNCHANGED <<topology, startChan, done, step, caller, count, stopped, shown>>

\* Mutant: a GPU reports before it has taken what it waits for.
ReportEarly(i) ==
    /\ worker[i].at = "run"
    /\ ~SendsLeft(i)
    /\ done < N
    /\ done' = done + 1
    /\ worker' = [worker EXCEPT ![i].at = "wait"]
    /\ UNCHANGED <<topology, buffer, rx, startChan, step, caller, count, stopped, shown>>

Report(i) ==
    /\ worker[i].at = "run"
    /\ ~SendsLeft(i)
    /\ worker[i].got = Expected(i, worker[i].step)
    /\ done < N
    /\ done' = done + 1
    /\ worker' = [worker EXCEPT ![i].at = "wait"]
    /\ UNCHANGED <<topology, buffer, rx, startChan, step, caller, count, stopped, shown>>

Worker(i) == TakeStart(i) \/ Exit(i) \/ Send(i) \/ Receive(i) \/ Report(i)

InStep == Trigger \/ Collect \/ Advance \/ Publish

\* The program is over when every goroutine has returned.
Over == (\A i \in GPUs : worker[i].at = "exited") /\ UNCHANGED vars

Next == CallStep \/ InStep \/ Stop \/ (\E i \in GPUs : Worker(i)) \/ Over

Spec == Init /\ [][Next]_vars

\* A goroutine that can go on does, and so does a call of Step.  Nothing makes
\* the user call Step or Stop, but callers loop until the state is finished.
FairSpec ==
    /\ Spec
    /\ \A i \in GPUs : WF_vars(Worker(i))
    /\ WF_vars(InStep)
    /\ WF_vars(CallStep \/ Stop)

-----------------------------------------------------------------------------
(* Properties *)

\* The shape of the state; the caller's step number is within MaxSteps, the
\* display is at most one step behind it, and no contribution is ever summed
\* twice into a block.
TypeOK ==
    /\ worker \in [GPUs -> [at : {"wait", "run", "exited"}, step : 0 .. 2 * Half,
                            sent : 0 .. 2, got : 0 .. 2]]
    /\ caller \in {"idle", "trigger", "collect", "advance", "publish"}
    /\ count \in 0 .. N
    /\ done \in 0 .. N
    /\ stopped \in BOOLEAN
    /\ step \in 0 .. 2 * Half
    /\ shown.step = IF caller = "publish" THEN step - 1 ELSE step
    /\ \A i \in GPUs : Len(startChan[i]) <= 1
    /\ \A i, b \in GPUs : \A e \in DOMAIN buffer[i][b] : buffer[i][b][e] = 1

\* The barrier: a goroutine only ever works on the caller's own step, and when
\* Step is not collecting, no goroutine runs, no message, start token or done
\* token is left over to be taken in a later step.
StepIsABarrier ==
    /\ \A i \in GPUs : worker[i].at = "run" =>
          worker[i].step = step /\ caller \in {"trigger", "collect"}
    /\ caller \in {"idle", "advance", "publish"} =>
          /\ done = 0
          /\ \A i \in GPUs : /\ worker[i].at \in {"wait", "exited"}
                             /\ rx[i] = <<>>
                             /\ startChan[i] = <<>>

\* What a GPU takes is what it waits for: a message of its own step, from its
\* ring predecessor or from a child or the parent that the tree gives it, and
\* never more messages than it expects.
MessagesAreExpected ==
    \A i \in GPUs :
        /\ Len(rx[i]) <= Expected(i, step)
        /\ \A m \in 1 .. Len(rx[i]) :
              LET from == rx[i][m].from IN
              /\ rx[i][m].step = step
              /\ IF Ring THEN i = PosMod(from + 1)
                 ELSE IF step < Half THEN Parent(from) = i
                 ELSE Parent(i) = from

\* Half way, the reduced blocks are where the second half starts from: block
\* (i+1) mod N on GPU i in the ring, every block on the root in the tree.
ReducedHalfWay ==
    caller = "idle" /\ step = Half =>
        IF Ring THEN \A i \in GPUs : buffer[i][PosMod(i + 1)] = Full(PosMod(i + 1))
        ELSE \A b \in GPUs : buffer[0][b] = Full(b)

\* A finished display shows the complete sum of every block on every GPU.
FinishedMeansReduced ==
    shown.finished => \A i, b \in GPUs : shown.gpus[i].buffer[b] = Full(b)

\* The display of a step, published before the step runs, announces what the
\* goroutines then really do: the reduction's sender names the GPU it sends to,
\* the broadcast's receiver the one it takes from, the texts of both ends fit
\* together, and in the ring the sender's active block is the one sent.
DisplayAnnouncesTraffic ==
    \A i \in GPUs : \A m \in 1 .. Len(rx[i]) :
        LET msg == rx[i][m]
            sender == shown.gpus[msg.from]
            receiver == shown.gpus[i]
        IN
        /\ Ring \/ step < Half => sender.sentTo = i
        /\ Ring \/ step >= Half => receiver.receivedFrom = msg.from
        /\ <<sender.status, receiver.status>> \in
              {<<"Reduce-Scatter", "Reduce-Scatter">>, <<"All-Gather", "All-Gather">>,
               <<"Sending", "Receiving">>, <<"Broadcasting", "Receiving">>}
        /\ Ring => DOMAIN msg.values = {sender.block}

\* ... and nothing else: when every GPU has reported, those the display named
\* a destination for have sent, those it named a source for have received, and
\* no other has.
AnnouncedTrafficHappens ==
    caller = "advance" =>
        \A i \in GPUs : /\ shown.gpus[i].sentTo # -1 <=> worker[i].sent > 0
                        /\ shown.gpus[i].receivedFrom # -1 <=> worker[i].got > 0

\* A call of Step always returns.
StepReturns == caller # "idle" ~> caller = "idle"

\* After Stop no goroutine is left behind.
StopEndsWorkers == stopped ~> \A i \in GPUs : worker[i].at = "exited"
=============================================================================
