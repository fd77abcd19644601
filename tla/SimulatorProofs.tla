----------------------------- MODULE SimulatorProofs -----------------------------
(***************************************************************************)
(* Simulator for every number of GPUs: a call of Step is a barrier, what   *)
(* waits in a channel is what its GPU takes, and the display announces it. *)
(*                                                                         *)
(* The invariant counts.  A done token is a GPU that has reported and is   *)
(* not collected; a message in a channel is one that was sent to the GPU   *)
(* and not taken.  When the last token is collected, every GPU has         *)
(* reported, so it has taken as much as it expects, which is as much as is *)
(* sent to it (ExpectedIsSent): every channel is empty.                    *)
(***************************************************************************)
EXTENDS SimulatorTopology
-----------------------------------------------------------------------------
(***************************************************************************)
(* The inductive invariant.                                                *)
(***************************************************************************)

\* The running Step has put its token into startChan[i]; GPU i has taken it; GPU i
\* has put its id into doneChan.
Triggered(i) == caller = "collect" \/ (caller = "trigger" /\ i < count)
Active(i) == Triggered(i) /\ startChan[i] = <<>>
Reported(i) == Active(i) /\ worker[i].at = "wait"

\* What GPU i has sent and taken in the running step, and who has sent to it.
Sent(i) == IF Active(i) THEN worker[i].sent ELSE 0
Got(i) == IF Active(i) THEN worker[i].got ELSE 0
Arrived(i) == {j \in GPUs : \E m \in 1 .. Sent(j) : Targets(j, step)[m] = i}

Blocks == UNION {[D -> Nat] : D \in SUBSET (GPUs \X GPUs)}
Messages == [from : GPUs, step : Nat, values : UNION {[D -> Blocks] : D \in SUBSET GPUs}]

Types ==
    /\ buffer \in [GPUs -> [GPUs -> Blocks]]
    /\ rx \in [GPUs -> Seq(Messages)]
    /\ startChan \in [GPUs -> {<<>>, <<step>>}]
    /\ done \in Nat
    /\ worker \in [GPUs -> [at : {"wait", "run", "exited"}, step : Nat,
                            sent : Nat, got : Nat]]
    /\ step \in Nat
    /\ caller \in {"idle", "trigger", "collect", "advance", "publish"}
    /\ count \in 0 .. N
    /\ stopped \in BOOLEAN

\* Where each goroutine is, seen from the caller.
Phases ==
    /\ stopped => caller = "idle"
    /\ caller = "collect" => count \in 1 .. N - 1
    /\ \A i \in GPUs :
          /\ worker[i].at = "exited" => stopped
          /\ worker[i].at = "run" => Active(i)
          /\ startChan[i] # <<>> => Triggered(i) /\ worker[i].at = "wait"
          /\ Active(i) => /\ worker[i].step = step
                          /\ worker[i].sent <= Len(Targets(i, step))
                          /\ worker[i].got <= Expected(i, step)
          /\ Reported(i) => /\ worker[i].sent = Len(Targets(i, step))
                            /\ worker[i].got = Expected(i, step)

\* A done token for each GPU that has reported and is not collected yet.
Collected == IF caller = "collect" THEN count ELSE 0
Tokens == done + Collected = Cardinality({i \in GPUs : Reported(i)})

\* What a GPU has taken and what waits in its channel is what was sent to it.
Flow == \A i \in GPUs : Len(rx[i]) + Got(i) = Cardinality(Arrived(i))

Waiting ==
    \A i \in GPUs : \A m \in 1 .. Len(rx[i]) :
        /\ rx[i][m].step = step
        /\ SendsTo(rx[i][m].from, i, step)
        /\ Ring => DOMAIN rx[i][m].values = {RingBlock(rx[i][m].from, step)}

\* What updateState publishes while steps are left, and what it says of them.
Announcement(s) == Snapshot(s, FALSE)
Announces(d, s) ==
    \A i \in GPUs : /\ d.gpus[i].status = Status(i, s, FALSE)
                    /\ d.gpus[i].sentTo = LastSentTo(i, s)
                    /\ d.gpus[i].receivedFrom = LastReceivedFrom(i, s)
                    /\ d.gpus[i].block = ActiveBlockIdx(i, s)

\* The display shows the step that runs, or runs next.
Display ==
    /\ shown.step \in Nat
    /\ shown.finished \in BOOLEAN
    /\ caller # "idle" => ~shown.finished
    /\ caller # "publish" => shown.step = step
    /\ ~shown.finished => shown.step < 2 * Half /\ Announces(shown, shown.step)

StepInv == Types /\ Phases /\ Tokens /\ Flow /\ Waiting /\ Display
-----------------------------------------------------------------------------
(***************************************************************************)
(* What stays as it is while the topology does.                            *)
(***************************************************************************)

\* The tables depend on the topology alone.
LEMMA TopologyFixed ==
    ASSUME topology' = topology
    PROVE  /\ Ring' = Ring /\ Half' = Half
           /\ \A i \in GPUs, s \in Nat :
                 /\ Targets(i, s)' = Targets(i, s)
                 /\ Expected(i, s)' = Expected(i, s)
                 /\ RingBlock(i, s)' = RingBlock(i, s)
                 /\ Status(i, s, FALSE)' = Status(i, s, FALSE)
                 /\ LastSentTo(i, s)' = LastSentTo(i, s)
                 /\ LastReceivedFrom(i, s)' = LastReceivedFrom(i, s)
                 /\ ActiveBlockIdx(i, s)' = ActiveBlockIdx(i, s)
  <1>1. Ring' = Ring
    BY DEF Ring
  <1>2. Half' = Half
    BY <1>1 DEF Half
  <1>3. ASSUME NEW s \in Nat PROVE ActiveDepth(s)' = ActiveDepth(s)
    BY <1>2 DEF ActiveDepth
  <1>4. ASSUME NEW i \in GPUs, NEW s \in Nat
        PROVE  /\ Targets(i, s)' = Targets(i, s)
               /\ Expected(i, s)' = Expected(i, s)
               /\ RingBlock(i, s)' = RingBlock(i, s)
    BY <1>1, <1>2, <1>3 DEF Targets, Expected, RingBlock
  <1>5. ASSUME NEW i \in GPUs, NEW s \in Nat
        PROVE  /\ Status(i, s, FALSE)' = Status(i, s, FALSE)
               /\ LastSentTo(i, s)' = LastSentTo(i, s)
               /\ LastReceivedFrom(i, s)' = LastReceivedFrom(i, s)
               /\ ActiveBlockIdx(i, s)' = ActiveBlockIdx(i, s)
    BY <1>1 DEF Status, LastSentTo, LastReceivedFrom, ActiveBlockIdx
  <1> QED
    BY <1>1, <1>2, <1>4, <1>5

\* So does who sends to whom.
LEMMA SendsToFixed ==
    ASSUME topology' = topology
    PROVE  \A i, j \in GPUs, s \in Nat : SendsTo(j, i, s)' = SendsTo(j, i, s)
  BY TopologyFixed DEF SendsTo

\* Who has sent to a GPU, when nobody sends.
LEMMA ArrivedFixed ==
    ASSUME topology' = topology, step' = step, step \in Nat,
           \A j \in GPUs : Sent(j)' = Sent(j)
    PROVE  \A i \in GPUs : Arrived(i)' = Arrived(i)
  BY TopologyFixed DEF Arrived

\* The display, when it is not published.
LEMMA DisplayFixed ==
    ASSUME topology' = topology, shown' = shown, Display,
           caller' # "idle" => ~shown.finished,
           caller' # "publish" => shown.step = step'
    PROVE  Display'
  <1>1. shown.step \in Nat
    BY DEF Display
  <1>2. (shown.finished \in BOOLEAN)'
    BY DEF Display
  <1>3. Announces(shown, shown.step) => Announces(shown, shown.step)'
    BY <1>1, TopologyFixed DEF Announces
  <1>4. Half' = Half
    BY TopologyFixed
  <1> QED
    BY <1>1, <1>3, <1>4, <1>2 DEF Display

\* A message in a channel is a message, from a GPU.
LEMMA MessageType ==
    ASSUME Types, NEW i \in GPUs, NEW m \in 1 .. Len(rx[i])
    PROVE  rx[i][m] \in Messages /\ rx[i][m].from \in GPUs
  <1>1. rx[i] \in Seq(Messages)
    BY DEF Types
  <1>2. rx[i][m] \in Messages
    BY <1>1
  <1> QED
    BY <1>2 DEF Messages

\* What waits, when the channels stay.
LEMMA WaitingFixed ==
    ASSUME topology' = topology, step' = step, rx' = rx, Waiting, Types
    PROVE  Waiting'
  <1>1. step \in Nat
    BY DEF Types
  <1>2. SUFFICES ASSUME NEW i \in GPUs, NEW m \in 1 .. Len(rx[i])
        PROVE  /\ rx[i][m].step = step
               /\ SendsTo(rx[i][m].from, i, step)'
               /\ Ring' => DOMAIN rx[i][m].values = {RingBlock(rx[i][m].from, step)'}
    BY DEF Waiting
  <1>3. rx[i][m].from \in GPUs
    BY MessageType
  <1>4. SendsTo(rx[i][m].from, i, step)' = SendsTo(rx[i][m].from, i, step)
    BY <1>1, <1>3, SendsToFixed
  <1>5. RingBlock(rx[i][m].from, step)' = RingBlock(rx[i][m].from, step)
    BY <1>1, <1>3, TopologyFixed
  <1>6. Ring' = Ring
    BY TopologyFixed
  <1> QED
    BY <1>4, <1>5, <1>6 DEF Waiting

\* The sum of two blocks is a block.
LEMMA Sums ==
    ASSUME NEW A \in Blocks, NEW B \in Blocks
    PROVE  A (+) B \in Blocks
  <1>1. PICK D \in SUBSET (GPUs \X GPUs) : A \in [D -> Nat]
    BY DEF Blocks
  <1>2. PICK E \in SUBSET (GPUs \X GPUs) : B \in [E -> Nat]
    BY DEF Blocks
  <1>3. A (+) B \in [D \cup E -> Nat]
    BY <1>1, <1>2 DEF (+)
  <1> QED
    BY <1>1, <1>2, <1>3 DEF Blocks

\* Outside a Step that runs, everything is at rest.
LEMMA Rest ==
    ASSUME StepInv, caller \notin {"trigger", "collect"}
    PROVE  /\ done = 0
           /\ \A i \in GPUs : /\ ~Active(i)
                              /\ Sent(i) = 0 /\ Got(i) = 0 /\ Arrived(i) = {}
                              /\ rx[i] = <<>>
                              /\ startChan[i] = <<>>
                              /\ worker[i].at \in {"wait", "exited"}
  <1>1. \A i \in GPUs : ~Triggered(i) /\ ~Active(i) /\ ~Reported(i)
    BY DEF Triggered, Active, Reported
  <1>2. \A i \in GPUs : Sent(i) = 0 /\ Got(i) = 0
    BY <1>1 DEF Sent, Got
  <1>3. \A i \in GPUs : Arrived(i) = {}
    BY <1>2 DEF Arrived
  <1>4. \A i \in GPUs : rx[i] = <<>>
    <2> SUFFICES ASSUME NEW i \in GPUs PROVE rx[i] = <<>>
      OBVIOUS
    <2>1. Len(rx[i]) + 0 = 0
      BY <1>2, <1>3, FS_EmptySet DEF StepInv, Flow
    <2>2. rx[i] \in Seq(Messages)
      BY DEF StepInv, Types
    <2> QED BY <2>1, <2>2
  <1>5. \A i \in GPUs : startChan[i] = <<>> /\ worker[i].at \in {"wait", "exited"}
    BY <1>1 DEF StepInv, Types, Phases
  <1>6. done = 0
    <2>1. {i \in GPUs : Reported(i)} = {}
      BY <1>1
    <2>2. done + 0 = 0
      BY <2>1, FS_EmptySet DEF StepInv, Tokens, Collected
    <2> QED BY <2>2 DEF StepInv, Types
  <1> QED
    BY <1>1, <1>2, <1>3, <1>4, <1>5, <1>6
-----------------------------------------------------------------------------
(***************************************************************************)
(* The steps of the caller.                                                *)
(***************************************************************************)

\* What updateState publishes while steps are left has what Announces asks.
LEMMA AnnouncementAnnounces ==
    ASSUME NEW s \in Nat
    PROVE  /\ Announcement(s).step = s
           /\ Announcement(s).finished \in BOOLEAN
           /\ ~Announcement(s).finished => s < 2 * Half
           /\ Announces(Announcement(s), s)
  <1>1. /\ Announcement(s).step = s
        /\ Announcement(s).finished = (FALSE \/ s >= 2 * Half)
    BY DEF Announcement, Snapshot
  <1>2. Announcement(s).gpus =
           [i \in GPUs |-> [buffer |-> buffer[i],
                            status |-> Status(i, s, FALSE),
                            sentTo |-> LastSentTo(i, s),
                            receivedFrom |-> LastReceivedFrom(i, s),
                            block |-> ActiveBlockIdx(i, s)]]
    BY DEF Announcement, Snapshot
  <1>3. ~Announcement(s).finished => s < 2 * Half
    <2>1. CASE s >= 2 * Half
      <3>1. Announcement(s).finished = TRUE
        BY <1>1, <2>1
      <3> QED BY <3>1
    <2>2. CASE s < 2 * Half
      BY <2>2
    <2> QED BY <2>1, <2>2, HalfType
  <1>4. Announces(Announcement(s), s)
    <2> SUFFICES ASSUME NEW i \in GPUs
                 PROVE  /\ Announcement(s).gpus[i].status = Status(i, s, FALSE)
                        /\ Announcement(s).gpus[i].sentTo = LastSentTo(i, s)
                        /\ Announcement(s).gpus[i].receivedFrom = LastReceivedFrom(i, s)
                        /\ Announcement(s).gpus[i].block = ActiveBlockIdx(i, s)
      BY Zenon DEF Announces
    <2>1. Announcement(s).gpus[i] =
             [buffer |-> buffer[i], status |-> Status(i, s, FALSE),
              sentTo |-> LastSentTo(i, s), receivedFrom |-> LastReceivedFrom(i, s),
              block |-> ActiveBlockIdx(i, s)]
      BY <1>2, Zenon
    <2> QED BY <2>1
  <1>5. Announcement(s).finished \in BOOLEAN
    <2>1. (FALSE \/ s >= 2 * Half) \in BOOLEAN
      OBVIOUS
    <2> QED BY <1>1, <2>1, Zenon
  <1> QED
    BY <1>1, <1>3, <1>4, <1>5

\* NewSimulator: nothing is under way.
LEMMA InitHolds == Init => StepInv
  <1> SUFFICES ASSUME Init PROVE StepInv
    OBVIOUS
  <1>1. \A i \in GPUs : ~Triggered(i) /\ ~Active(i) /\ ~Reported(i)
    BY DEF Init, Triggered, Active, Reported
  <1>2. Types
    <2>1. \A i, b \in GPUs : Seed(i, b) \in Blocks
      <3> SUFFICES ASSUME NEW i \in GPUs, NEW b \in GPUs PROVE Seed(i, b) \in Blocks
        OBVIOUS
      <3>1. Seed(i, b) \in [{<<i, b>>} -> Nat] /\ {<<i, b>>} \in SUBSET (GPUs \X GPUs)
        BY DEF Seed, SetToBag
      <3> QED BY <3>1 DEF Blocks
    <2>2. buffer \in [GPUs -> [GPUs -> Blocks]]
      BY <2>1 DEF Init
    <2>3. rx = [i \in GPUs |-> <<>>] /\ <<>> \in Seq(Messages)
      BY DEF Init
    <2>4. rx \in [GPUs -> Seq(Messages)]
      BY <2>3
    <2>5. /\ startChan \in [GPUs -> {<<>>, <<step>>}]
          /\ worker \in [GPUs -> [at : {"wait", "run", "exited"}, step : Nat,
                                  sent : Nat, got : Nat]]
      BY DEF Init
    <2>6. /\ done \in Nat /\ step \in Nat /\ count \in 0 .. N
          /\ caller \in {"idle", "trigger", "collect", "advance", "publish"}
      BY NAssumption DEF Init
    <2>7. stopped \in BOOLEAN
      BY DEF Init
    <2> QED BY <2>2, <2>4, <2>5, <2>6, <2>7 DEF Types
  <1>3. Phases
    BY <1>1 DEF Init, Phases
  <1>4. Tokens
    <2>1. {i \in GPUs : Reported(i)} = {}
      BY <1>1
    <2>2. done = 0 /\ caller = "idle"
      BY DEF Init
    <2> QED BY <2>1, <2>2, FS_EmptySet DEF Tokens, Collected
  <1>5. Flow
    <2>1. \A i \in GPUs : Sent(i) = 0 /\ Got(i) = 0
      BY <1>1 DEF Sent, Got
    <2>2. \A i \in GPUs : Arrived(i) = {}
      BY <2>1 DEF Arrived
    <2>3. \A i \in GPUs : Len(rx[i]) = 0
      BY DEF Init
    <2> QED BY <2>1, <2>2, <2>3, FS_EmptySet DEF Flow
  <1>6. Waiting
    BY DEF Init, Waiting
  <1>7. Display
    <2>1. shown = Announcement(0) /\ caller = "idle" /\ step = 0
      BY DEF Init, Announcement
    <2> QED BY <2>1, AnnouncementAnnounces DEF Display
  <1> QED
    BY <1>2, <1>3, <1>4, <1>5, <1>6, <1>7 DEF StepInv

\* A Step begins: no GPU is triggered yet.
LEMMA CallStepKeeps == StepInv /\ CallStep => StepInv'
  <1> SUFFICES ASSUME StepInv, CallStep PROVE StepInv'
    OBVIOUS
  <1>1. \A i \in GPUs : /\ ~Active(i) /\ startChan[i] = <<>> /\ rx[i] = <<>>
                        /\ worker[i].at \in {"wait", "exited"}
    BY Rest DEF CallStep
  <1>2. \A i \in GPUs : /\ ~Triggered(i)' /\ ~Active(i)' /\ ~Reported(i)'
                        /\ ~Triggered(i) /\ ~Reported(i)
    BY DEF CallStep, Triggered, Active, Reported, GPUs
  <1>3. Types'
    BY NAssumption DEF StepInv, Types, CallStep, channels
  <1>4. Phases'
    BY <1>1, <1>2 DEF StepInv, Phases, CallStep, channels
  <1>5. Tokens'
    <2>1. {i \in GPUs : Reported(i)}' = {}
      BY <1>2
    <2>2. done' = 0 /\ Collected' = 0
      BY Rest DEF CallStep, channels, Collected
    <2> QED BY <2>1, <2>2, FS_EmptySet DEF Tokens
  <1>6. Flow'
    <2>1. \A i \in GPUs : Sent(i)' = 0 /\ Got(i)' = 0
      BY <1>2 DEF Sent, Got
    <2>2. \A i \in GPUs : Arrived(i)' = {}
      BY <2>1 DEF Arrived
    <2>3. \A i \in GPUs : Len(rx'[i]) = 0
      BY <1>1 DEF CallStep, channels
    <2>4. \A i \in GPUs : Len(rx'[i]) + Got(i)' = 0
      BY <2>1, <2>3
    <2>5. \A i \in GPUs : Cardinality(Arrived(i)') = 0
      BY <2>2, FS_EmptySet
    <2> QED BY <2>4, <2>5 DEF Flow
  <1>7. Waiting'
    BY WaitingFixed DEF StepInv, CallStep, channels
  <1>8. Display'
    BY DisplayFixed DEF StepInv, Types, CallStep, Display
  <1> QED
    BY <1>3, <1>4, <1>5, <1>6, <1>7, <1>8 DEF StepInv

\* One more GPU is triggered; its token waits.
LEMMA TriggerKeeps == StepInv /\ Trigger => StepInv'
  <1> SUFFICES ASSUME StepInv, Trigger PROVE StepInv'
    OBVIOUS
  <1>1. N \in Nat /\ count \in GPUs
    BY NAssumption DEF StepInv, Types, Trigger, GPUs
  <1> DEFINE Token(c) == c = count
  <1>2. PICK c \in GPUs : Token(c)
    BY <1>1
  <1>3. /\ c = count /\ count' = c + 1 /\ startChan[c] = <<>>
        /\ startChan' = [startChan EXCEPT ![c] = <<step>>]
        /\ startChan'[c] = <<step>>
    BY <1>2 DEF Trigger, StepInv, Types
  <1>4. /\ ~Triggered(c) /\ ~Active(c) /\ ~Reported(c)
        /\ Triggered(c)' /\ ~Active(c)' /\ ~Reported(c)'
    BY <1>3 DEF Trigger, Triggered, Active, Reported, GPUs
  <1>5. \A i \in GPUs : i # c =>
           /\ Triggered(i)' = Triggered(i)
           /\ startChan'[i] = startChan[i]
    BY <1>3 DEF StepInv, Types, Trigger, Triggered, GPUs
  <1>6. \A i \in GPUs : Active(i)' = Active(i) /\ Reported(i)' = Reported(i)
    BY <1>4, <1>5 DEF Trigger, Active, Reported
  <1>7. Types'
    BY <1>1 DEF StepInv, Types, Trigger, GPUs
  <1>8. Phases'
    <2>1. ~stopped /\ worker[c].at = "wait"
      BY <1>4 DEF StepInv, Types, Phases, Trigger
    <2>2. ASSUME NEW i \in GPUs, startChan'[i] # <<>>
          PROVE  Triggered(i)' /\ worker'[i].at = "wait"
      BY <1>4, <1>5, <2>1, <2>2 DEF StepInv, Phases, Trigger
    <2>3. \A i \in GPUs : Targets(i, step)' = Targets(i, step)
                          /\ Expected(i, step)' = Expected(i, step)
      BY TopologyFixed DEF StepInv, Types, Trigger
    <2> QED
      BY <1>6, <2>1, <2>2, <2>3 DEF StepInv, Phases, Trigger
  <1>9. Tokens'
    BY <1>6 DEF StepInv, Tokens, Collected, Trigger
  <1>10. \A i \in GPUs : Sent(i)' = Sent(i) /\ Got(i)' = Got(i)
    BY <1>6 DEF Sent, Got, Trigger
  <1>11. Flow'
    <2>1. \A i \in GPUs : Arrived(i)' = Arrived(i)
      BY <1>10, ArrivedFixed DEF StepInv, Types, Trigger
    <2> QED BY <1>10, <2>1 DEF StepInv, Flow, Trigger
  <1>12. Waiting'
    BY WaitingFixed DEF StepInv, Trigger
  <1>13. Display'
    BY DisplayFixed DEF StepInv, Types, Trigger, Display
  <1> QED
    BY <1>7, <1>8, <1>9, <1>11, <1>12, <1>13 DEF StepInv

\* A state with nothing under way satisfies the invariant's middle.
LEMMA AtRest ==
    ASSUME caller' \notin {"trigger", "collect"}, done' = 0,
           stopped' => caller' = "idle",
           \A i \in GPUs : /\ rx'[i] = <<>> /\ startChan'[i] = <<>>
                           /\ worker'[i].at # "run"
                           /\ worker'[i].at = "exited" => stopped'
    PROVE  Phases' /\ Tokens' /\ Flow' /\ Waiting'
  <1>1. \A i \in GPUs : ~Triggered(i)' /\ ~Active(i)' /\ ~Reported(i)'
    BY DEF Triggered, Active, Reported
  <1>2. Phases'
    BY <1>1 DEF Phases
  <1>3. Tokens'
    <2>1. {i \in GPUs : Reported(i)}' = {}
      BY <1>1
    <2>2. Collected' = 0
      BY DEF Collected
    <2> QED BY <2>1, <2>2, FS_EmptySet DEF Tokens
  <1>4. Flow'
    <2>1. \A i \in GPUs : Sent(i)' = 0 /\ Got(i)' = 0
      BY <1>1 DEF Sent, Got
    <2>2. \A i \in GPUs : Arrived(i)' = {}
      BY <2>1 DEF Arrived
    <2>3. \A i \in GPUs : Len(rx'[i]) + Got(i)' = 0
      BY <2>1
    <2>4. \A i \in GPUs : Cardinality(Arrived(i)') = 0
      BY <2>2, FS_EmptySet
    <2> QED BY <2>3, <2>4 DEF Flow
  <1>5. Waiting'
    BY DEF Waiting
  <1> QED
    BY <1>2, <1>3, <1>4, <1>5

\* The token that ends the wait: every GPU has reported and every channel is empty.
LEMMA LastToken ==
    ASSUME StepInv, done > 0, Collected + 1 = N, caller \in {"trigger", "collect"}
    PROVE  /\ done = 1
           /\ \A i \in GPUs : Reported(i) /\ rx[i] = <<>>
  <1> DEFINE R == {i \in GPUs : Reported(i)}
  <1>1. IsFiniteSet(GPUs) /\ Cardinality(GPUs) = N
    BY FS_Interval, NAssumption DEF GPUs
  <1>2. IsFiniteSet(R) /\ Cardinality(R) <= N /\ (Cardinality(R) = N => R = GPUs)
    <2>1. R \in SUBSET GPUs
      OBVIOUS
    <2> HIDE DEF R
    <2> QED BY <1>1, <2>1, FS_Subset
  <1>3. done \in Nat /\ Collected \in Nat /\ done + Collected = Cardinality(R)
    BY DEF StepInv, Types, Tokens, Collected
  <1>4. done = 1 /\ Cardinality(R) = N
    <2> HIDE DEF R
    <2> QED BY <1>2, <1>3, NAssumption
  <1>5. \A i \in GPUs : Reported(i)
    BY <1>2, <1>4
  <1>6. ASSUME NEW i \in GPUs PROVE rx[i] = <<>>
    <2>1. step \in Nat /\ rx[i] \in Seq(Messages)
      BY DEF StepInv, Types
    <2>2. \A j \in GPUs : Sent(j) = Len(Targets(j, step)) /\ Got(j) = Expected(j, step)
      BY <1>5 DEF StepInv, Phases, Reported, Sent, Got
    <2>3. Arrived(i) = SendersTo(i, step)
      BY <2>2 DEF Arrived, SendersTo, SendsTo
    <2>4. Cardinality(Arrived(i)) = Expected(i, step) /\ Expected(i, step) \in Nat
      BY <2>1, <2>3, ExpectedIsSent
    <2>5. Len(rx[i]) + Expected(i, step) = Expected(i, step)
      BY <2>2, <2>4 DEF StepInv, Flow
    <2>6. Len(rx[i]) = 0
      BY <2>1, <2>4, <2>5
    <2> QED BY <2>1, <2>6
  <1> QED
    BY <1>4, <1>5, <1>6

\* A token is taken; after the last one everything is at rest.
LEMMA CollectKeeps == StepInv /\ Collect => StepInv'
  <1> SUFFICES ASSUME StepInv, Collect PROVE StepInv'
    OBVIOUS
  <1>1. /\ count' \in 1 .. N /\ done' = done - 1 /\ done' \in Nat /\ N \in Nat
        /\ count' = Collected + 1
        /\ caller \in {"trigger", "collect"}
        /\ ~stopped /\ ~stopped'
    BY NAssumption DEF StepInv, Types, Phases, Collect, Collected
  <1>2. caller' \in {"collect", "advance"} /\ (caller' = "advance" <=> count' = N)
    BY DEF Collect
  <1>3. Types'
    BY <1>1, <1>2 DEF StepInv, Types, Collect
  <1>4. Display'
    BY <1>1, <1>2, DisplayFixed DEF StepInv, Types, Collect, Display
  <1>5. CASE caller' = "advance"
    <2>1. done = 1 /\ \A i \in GPUs : Reported(i) /\ rx[i] = <<>>
      BY <1>1, <1>2, <1>5, LastToken DEF Collect
    <2>2. \A i \in GPUs : startChan[i] = <<>> /\ worker[i].at = "wait"
      BY <2>1 DEF Reported, Active
    <2>3. Phases' /\ Tokens' /\ Flow' /\ Waiting'
      BY <1>1, <1>2, <1>5, <2>1, <2>2, AtRest DEF Collect
    <2> QED BY <1>3, <1>4, <2>3 DEF StepInv
  <1>6. CASE caller' = "collect"
    <2>1. \A i \in GPUs : Triggered(i) /\ Triggered(i)'
      BY <1>6, NAssumption DEF Collect, Triggered, GPUs
    <2>2. \A i \in GPUs : Active(i)' = Active(i) /\ Reported(i)' = Reported(i)
      BY <2>1 DEF Collect, Active, Reported
    <2>3. \A i \in GPUs : Sent(i)' = Sent(i) /\ Got(i)' = Got(i)
      BY <2>2 DEF Sent, Got, Collect
    <2>4. Phases'
      <3>1. \A i \in GPUs : Targets(i, step)' = Targets(i, step)
                            /\ Expected(i, step)' = Expected(i, step)
        BY TopologyFixed DEF StepInv, Types, Collect
      <3>2. count' \in 1 .. N - 1
        BY <1>1, <1>2, <1>6
      <3> QED BY <1>1, <2>1, <2>2, <3>1, <3>2 DEF StepInv, Phases, Collect
    <2>5. Tokens'
      <3>1. {i \in GPUs : Reported(i)}' = {i \in GPUs : Reported(i)}
        BY <2>2
      <3>2. done' + Collected' = done + Collected
        BY <1>1, <1>6 DEF StepInv, Types, Collected
      <3> QED BY <3>1, <3>2 DEF StepInv, Tokens
    <2>6. Flow'
      <3>1. \A i \in GPUs : Arrived(i)' = Arrived(i)
        BY <2>3, ArrivedFixed DEF StepInv, Types, Collect
      <3> QED BY <2>3, <3>1 DEF StepInv, Flow, Collect
    <2>7. Waiting'
      BY WaitingFixed DEF StepInv, Collect
    <2> QED BY <1>3, <1>4, <2>4, <2>5, <2>6, <2>7 DEF StepInv
  <1> QED
    BY <1>2, <1>5, <1>6

\* Outside a running Step the step number can change: nothing refers to it.
LEMMA AdvanceKeeps == StepInv /\ Advance => StepInv'
  <1> SUFFICES ASSUME StepInv, Advance PROVE StepInv'
    OBVIOUS
  <1>1. /\ done = 0
        /\ \A i \in GPUs : /\ rx[i] = <<>> /\ startChan[i] = <<>>
                           /\ worker[i].at \in {"wait", "exited"}
    BY Rest DEF Advance
  <1>2. ~stopped
    BY DEF StepInv, Phases, Advance
  <1>3. Types'
    <2>1. startChan' \in [GPUs -> {<<>>, <<step'>>}]
      BY <1>1 DEF StepInv, Types, Advance, channels
    <2> QED BY <2>1 DEF StepInv, Types, Advance, channels
  <1>4. Phases' /\ Tokens' /\ Flow' /\ Waiting'
    BY <1>1, <1>2, AtRest DEF StepInv, Phases, Advance, channels
  <1>5. Display'
    BY DisplayFixed DEF StepInv, Display, Advance
  <1> QED
    BY <1>3, <1>4, <1>5 DEF StepInv

\* The display catches up with the step.
LEMMA PublishKeeps == StepInv /\ Publish => StepInv'
  <1> SUFFICES ASSUME StepInv, Publish PROVE StepInv'
    OBVIOUS
  <1>1. /\ done = 0
        /\ \A i \in GPUs : /\ rx[i] = <<>> /\ startChan[i] = <<>>
                           /\ worker[i].at \in {"wait", "exited"}
    BY Rest DEF Publish
  <1>2. ~stopped
    BY DEF StepInv, Phases, Publish
  <1>3. Types'
    BY NAssumption DEF StepInv, Types, Publish, channels
  <1>4. Phases' /\ Tokens' /\ Flow' /\ Waiting'
    BY <1>1, <1>2, AtRest DEF StepInv, Phases, Publish, channels
  <1>5. Display'
    <2>1. shown.finished \in BOOLEAN /\ ~shown.finished
      BY DEF StepInv, Display, Publish
    <2>2. shown.finished = FALSE
      BY <2>1, Zenon
    <2>3. shown' = Snapshot(step, shown.finished)
      BY DEF Publish
    <2>4. shown' = Announcement(step)
      BY <2>2, <2>3, Zenon DEF Announcement
    <2> DEFINE Says(d, s) == d = shown' /\ s = step
    <2>5. PICK d, s : Says(d, s)
      OBVIOUS
    <2>6. s \in Nat /\ d = shown' /\ s = step /\ step' = s /\ caller' = "idle"
      BY <2>5 DEF StepInv, Types, Publish
    <2>7. /\ d.step = s /\ d.finished \in BOOLEAN
          /\ ~d.finished => s < 2 * Half
          /\ Announces(d, s)
      BY <2>4, <2>6, AnnouncementAnnounces
    <2>8. topology' = topology
      BY DEF Publish
    <2>9. Announces(d, s)' /\ Half' = Half
      BY <2>6, <2>7, <2>8, TopologyFixed DEF Announces
    <2> HIDE DEF Says
    <2> QED BY <2>6, <2>7, <2>9 DEF Display
  <1> QED
    BY <1>3, <1>4, <1>5 DEF StepInv

\* The start channels are closed when they are empty.
LEMMA StopKeeps == StepInv /\ Stop => StepInv'
  <1> SUFFICES ASSUME StepInv, Stop PROVE StepInv'
    OBVIOUS
  <1>1. /\ done = 0
        /\ \A i \in GPUs : /\ rx[i] = <<>> /\ startChan[i] = <<>>
                           /\ worker[i].at \in {"wait", "exited"}
    BY Rest DEF Stop
  <1>2. Types'
    BY DEF StepInv, Types, Stop, channels
  <1>3. Phases' /\ Tokens' /\ Flow' /\ Waiting'
    BY <1>1, AtRest DEF Stop, channels
  <1>4. Display'
    BY DisplayFixed DEF StepInv, Display, Stop
  <1> QED
    BY <1>2, <1>3, <1>4 DEF StepInv
-----------------------------------------------------------------------------
(***************************************************************************)
(* The steps of a GPU.                                                     *)
(***************************************************************************)

\* What a step of another GPU leaves alone.
LEMMA Bystander ==
    ASSUME caller' = caller, count' = count, NEW j \in GPUs,
           worker'[j] = worker[j], startChan'[j] = startChan[j]
    PROVE  /\ Triggered(j)' = Triggered(j) /\ Active(j)' = Active(j)
           /\ Reported(j)' = Reported(j)
           /\ Sent(j)' = Sent(j) /\ Got(j)' = Got(j)
  <1>1. Triggered(j)' = Triggered(j)
    BY DEF Triggered
  <1>2. Active(j)' = Active(j)
    BY <1>1 DEF Active
  <1> QED
    BY <1>1, <1>2 DEF Reported, Sent, Got

\* A GPU that runs works on the step of the caller, which waits for it.
LEMMA Running ==
    ASSUME StepInv, NEW i \in GPUs, worker[i].at = "run"
    PROVE  /\ Triggered(i) /\ Active(i) /\ ~Reported(i) /\ startChan[i] = <<>>
           /\ caller \in {"trigger", "collect"} /\ ~stopped
           /\ worker[i].step = step /\ step \in Nat
           /\ Sent(i) = worker[i].sent /\ Got(i) = worker[i].got
           /\ worker[i].sent \in Nat /\ worker[i].got \in Nat
           /\ worker[i].sent <= Len(Targets(i, step))
           /\ worker[i].got <= Expected(i, step)
           /\ Len(Targets(i, step)) \in Nat /\ Expected(i, step) \in Nat
  <1>1. Active(i)
    BY DEF StepInv, Phases
  <1>2. Triggered(i) /\ startChan[i] = <<>> /\ ~Reported(i)
    BY <1>1 DEF Active, Reported
  <1>3. caller \in {"trigger", "collect"} /\ ~stopped
    BY <1>2 DEF Triggered, StepInv, Phases
  <1>4. step \in Nat /\ worker[i].sent \in Nat /\ worker[i].got \in Nat
    BY DEF StepInv, Types
  <1>5. /\ worker[i].step = step
        /\ worker[i].sent <= Len(Targets(i, step))
        /\ worker[i].got <= Expected(i, step)
    BY <1>1 DEF StepInv, Phases
  <1>6. Sent(i) = worker[i].sent /\ Got(i) = worker[i].got
    BY <1>1 DEF Sent, Got
  <1>7. Len(Targets(i, step)) \in Nat /\ Expected(i, step) \in Nat
    BY <1>4, TargetsShape, ExpectedIsSent
  <1> QED
    BY <1>1, <1>2, <1>3, <1>4, <1>5, <1>6, <1>7

\* A token is taken; the GPU has sent and received nothing yet.
LEMMA TakeStartKeeps ==
    ASSUME StepInv, NEW i \in GPUs, TakeStart(i)
    PROVE  StepInv'
  <1>1. /\ startChan[i] = <<step>> /\ Triggered(i) /\ step \in Nat
        /\ ~Active(i) /\ ~Reported(i) /\ ~stopped
    <2>1. startChan[i] = <<step>> /\ Triggered(i) /\ step \in Nat
      BY DEF TakeStart, StepInv, Types, Phases
    <2>2. ~Active(i) /\ ~Reported(i)
      BY DEF TakeStart, Active, Reported
    <2>3. ~stopped
      BY <2>1 DEF StepInv, Phases, Triggered
    <2> QED BY <2>1, <2>2, <2>3
  <1>2. /\ worker'[i] = [at |-> "run", step |-> step, sent |-> 0, got |-> 0]
        /\ startChan'[i] = <<>>
    BY <1>1 DEF TakeStart, StepInv, Types
  <1>3. \A j \in GPUs : j # i => worker'[j] = worker[j] /\ startChan'[j] = startChan[j]
    BY DEF TakeStart, StepInv, Types
  <1>4. \A j \in GPUs : j # i =>
           /\ Triggered(j)' = Triggered(j) /\ Active(j)' = Active(j)
           /\ Reported(j)' = Reported(j)
           /\ Sent(j)' = Sent(j) /\ Got(j)' = Got(j)
    BY <1>3, Bystander DEF TakeStart
  <1>5. Triggered(i)' /\ Active(i)' /\ ~Reported(i)'
    <2>1. Triggered(i)'
      BY <1>1 DEF Triggered, TakeStart
    <2> QED BY <1>2, <2>1 DEF Active, Reported
  <1>6. Sent(i)' = 0 /\ Got(i)' = 0 /\ Sent(i) = 0 /\ Got(i) = 0
    BY <1>1, <1>2, <1>5 DEF Sent, Got
  <1>7. Types'
    <2>1. startChan' \in [GPUs -> {<<>>, <<step>>}]
      BY <1>2 DEF TakeStart, StepInv, Types
    <2>2. worker' \in [GPUs -> [at : {"wait", "run", "exited"}, step : Nat,
                                sent : Nat, got : Nat]]
      BY <1>1, <1>2 DEF TakeStart, StepInv, Types
    <2> QED BY <2>1, <2>2 DEF TakeStart, StepInv, Types
  <1>8. Phases'
    <2>1. \A j \in GPUs : Targets(j, step)' = Targets(j, step)
                          /\ Expected(j, step)' = Expected(j, step)
      BY <1>1, TopologyFixed DEF TakeStart
    <2>2. 0 <= Len(Targets(i, step)) /\ 0 <= Expected(i, step)
      BY <1>1, TargetsShape, ExpectedIsSent
    <2> QED BY <1>1, <1>2, <1>3, <1>4, <1>5, <2>1, <2>2 DEF StepInv, Phases, TakeStart
  <1>9. Tokens'
    <2>1. {j \in GPUs : Reported(j)}' = {j \in GPUs : Reported(j)}
      BY <1>1, <1>4, <1>5
    <2> QED BY <2>1 DEF StepInv, Tokens, Collected, TakeStart
  <1>10. Flow'
    <2>1. \A j \in GPUs : Sent(j)' = Sent(j) /\ Got(j)' = Got(j)
      BY <1>4, <1>6
    <2>2. \A j \in GPUs : Arrived(j)' = Arrived(j)
      BY <1>1, <2>1, ArrivedFixed DEF TakeStart
    <2> QED BY <2>1, <2>2 DEF StepInv, Flow, TakeStart
  <1>11. Waiting'
    BY WaitingFixed DEF StepInv, TakeStart
  <1>12. Display'
    BY DisplayFixed DEF StepInv, Display, TakeStart
  <1> QED
    BY <1>7, <1>8, <1>9, <1>10, <1>11, <1>12 DEF StepInv

\* A goroutine returns when no Step runs.
LEMMA ExitKeeps ==
    ASSUME StepInv, NEW i \in GPUs, Exit(i)
    PROVE  StepInv'
  <1>1. caller = "idle" /\ stopped
    BY DEF StepInv, Phases, Exit
  <1>2. /\ done = 0
        /\ \A j \in GPUs : /\ rx[j] = <<>> /\ startChan[j] = <<>>
                           /\ worker[j].at \in {"wait", "exited"}
    BY <1>1, Rest
  <1>3. worker' \in [GPUs -> [at : {"wait", "run", "exited"}, step : Nat,
                              sent : Nat, got : Nat]]
    BY DEF Exit, StepInv, Types
  <1>4. \A j \in GPUs : worker'[j].at \in {"wait", "exited"}
    BY <1>2 DEF Exit, StepInv, Types
  <1>5. Types'
    BY <1>3 DEF Exit, StepInv, Types, channels
  <1>6. Phases' /\ Tokens' /\ Flow' /\ Waiting'
    BY <1>1, <1>2, <1>4, AtRest DEF Exit, channels
  <1>7. Display'
    BY DisplayFixed DEF StepInv, Display, Exit
  <1> QED
    BY <1>5, <1>6, <1>7 DEF StepInv

\* One more GPU has reported, and one more token.
LEMMA ReportKeeps ==
    ASSUME StepInv, NEW i \in GPUs, Report(i)
    PROVE  StepInv'
  <1>1. worker[i].at = "run"
    BY DEF Report
  <1>2. /\ Triggered(i) /\ Active(i) /\ ~Reported(i) /\ startChan[i] = <<>>
        /\ ~stopped /\ worker[i].step = step /\ step \in Nat
        /\ Sent(i) = worker[i].sent /\ Got(i) = worker[i].got
        /\ worker[i].sent \in Nat
        /\ worker[i].sent <= Len(Targets(i, step)) /\ Len(Targets(i, step)) \in Nat
    BY <1>1, Running
  <1>3. /\ worker[i].sent = Len(Targets(i, step))
        /\ worker[i].got = Expected(i, step)
    BY <1>2 DEF Report, SendsLeft
  <1>4. /\ worker'[i] = [worker[i] EXCEPT !.at = "wait"]
        /\ \A j \in GPUs : j # i => worker'[j] = worker[j]
        /\ worker' \in [GPUs -> [at : {"wait", "run", "exited"}, step : Nat,
                                 sent : Nat, got : Nat]]
    BY DEF Report, StepInv, Types
  <1>5. \A j \in GPUs : j # i =>
           /\ Triggered(j)' = Triggered(j) /\ Active(j)' = Active(j)
           /\ Reported(j)' = Reported(j)
           /\ Sent(j)' = Sent(j) /\ Got(j)' = Got(j)
    BY <1>4, Bystander DEF Report
  <1>6. /\ worker'[i].at = "wait" /\ worker'[i].step = step
        /\ worker'[i].sent = worker[i].sent /\ worker'[i].got = worker[i].got
    BY <1>2, <1>4 DEF StepInv, Types
  <1>7. Triggered(i)' /\ Active(i)' /\ Reported(i)'
    <2>1. Triggered(i)' /\ startChan' = startChan
      BY <1>2 DEF Triggered, Report
    <2> QED BY <1>2, <1>6, <2>1 DEF Active, Reported
  <1>8. \A j \in GPUs : Sent(j)' = Sent(j) /\ Got(j)' = Got(j)
    <2>1. Sent(i)' = Sent(i) /\ Got(i)' = Got(i)
      BY <1>2, <1>6, <1>7 DEF Sent, Got
    <2> QED BY <1>5, <2>1
  <1>9. Types'
    <2>1. done' \in Nat
      BY DEF StepInv, Types, Report
    <2> QED BY <1>4, <2>1 DEF StepInv, Types, Report
  <1>10. Phases'
    <2>1. \A j \in GPUs : Targets(j, step)' = Targets(j, step)
                          /\ Expected(j, step)' = Expected(j, step)
      BY <1>2, TopologyFixed DEF Report
    <2> QED BY <1>2, <1>3, <1>4, <1>5, <1>6, <1>7, <2>1 DEF StepInv, Phases, Report
  <1>11. Tokens'
    <2> DEFINE R == {j \in GPUs : Reported(j)}
               S == {j \in GPUs : Reported(j)'}
    <2>1. S = R \cup {i} /\ i \notin R
      BY <1>2, <1>5, <1>7
    <2>2. IsFiniteSet(R)
      <3>1. IsFiniteSet(GPUs)
        BY FS_Interval, NAssumption DEF GPUs
      <3>2. R \in SUBSET GPUs
        OBVIOUS
      <3> HIDE DEF R
      <3> QED BY <3>1, <3>2, FS_Subset
    <2>3. Cardinality(S) = Cardinality(R) + 1 /\ Cardinality(R) \in Nat
      <3> HIDE DEF R, S
      <3> QED BY <2>1, <2>2, FS_AddElement, FS_CardinalityType
    <2>4. done' = done + 1 /\ Collected' = Collected /\ done \in Nat /\ Collected \in Nat
      BY DEF Report, Collected, StepInv, Types
    <2>5. done + Collected = Cardinality(R)
      BY DEF StepInv, Tokens
    <2>6. done' + Collected' = Cardinality(S)
      <3> HIDE DEF R, S
      <3> QED BY <2>3, <2>4, <2>5
    <2> QED BY <2>6 DEF Tokens
  <1>12. Flow'
    <2>1. \A j \in GPUs : Arrived(j)' = Arrived(j)
      BY <1>2, <1>8, ArrivedFixed DEF Report
    <2> QED BY <1>8, <2>1 DEF StepInv, Flow, Report
  <1>13. Waiting'
    BY WaitingFixed DEF StepInv, Report
  <1>14. Display'
    BY DisplayFixed DEF StepInv, Display, Report
  <1> QED
    BY <1>9, <1>10, <1>11, <1>12, <1>13, <1>14 DEF StepInv

\* The chunk that a GPU sends in the ring is one of the chunks.
LEMMA BlockType ==
    ASSUME NEW i \in GPUs, NEW s \in Nat
    PROVE  RingBlock(i, s) \in GPUs
  <1>1. \A a \in Int : PosMod(a) \in GPUs
    <2>1. \A a \in Int, n \in Int : n > 0 => a % n \in 0 .. n - 1
      BY Z3
    <2> QED BY <2>1, NAssumption DEF PosMod, GPUs
  <1> QED
    BY <1>1, HalfType DEF RingBlock, GPUs

\* What a GPU sends is a message, in the ring with the one block of the step.
LEMMA PayloadType ==
    ASSUME Types, NEW i \in GPUs, NEW s \in Nat
    PROVE  /\ [from |-> i, step |-> s, values |-> Payload(i, s)] \in Messages
           /\ Ring => DOMAIN Payload(i, s) = {RingBlock(i, s)}
  <1>1. buffer[i] \in [GPUs -> Blocks]
    BY DEF Types
  <1>2. /\ Payload(i, s) \in UNION {[D -> Blocks] : D \in SUBSET GPUs}
        /\ Ring => DOMAIN Payload(i, s) = {RingBlock(i, s)}
    <2>1. CASE Ring
      <3>1. Payload(i, s) = [b \in {RingBlock(i, s)} |-> buffer[i][b]]
        BY <2>1 DEF Payload
      <3>2. RingBlock(i, s) \in GPUs
        BY BlockType
      <3>3. {RingBlock(i, s)} \in SUBSET GPUs
        BY <3>2
      <3>4. Payload(i, s) \in [{RingBlock(i, s)} -> Blocks]
        BY <1>1, <3>1, <3>2
      <3> QED BY <3>3, <3>4
    <2>2. CASE ~Ring
      <3>1. Payload(i, s) = buffer[i]
        BY <2>2 DEF Payload
      <3> QED BY <1>1, <2>2, <3>1
    <2> QED BY <2>1, <2>2
  <1> QED
    BY <1>2 DEF Messages

\* GPU i sends message msg to GPU k, and does nothing else.
Sends(i, k, msg) ==
    /\ msg = [from |-> i, step |-> step, values |-> Payload(i, step)]
    /\ msg \in Messages /\ SendsTo(i, k, step)
    /\ rx' = [rx EXCEPT ![k] = Append(@, msg)]
    /\ worker' = [worker EXCEPT ![i].sent = @ + 1]
    /\ Sent(i) + 1 \in 1 .. Len(Targets(i, step)) /\ Sent(i)' = Sent(i) + 1
    /\ Triggered(i)' /\ Active(i)' /\ ~Reported(i)' /\ Got(i)' = Got(i)
    /\ \A j \in GPUs : j # i =>
          /\ Triggered(j)' = Triggered(j) /\ Active(j)' = Active(j)
          /\ Reported(j)' = Reported(j)
          /\ Sent(j)' = Sent(j) /\ Got(j)' = Got(j)
    /\ i \notin Arrived(k) /\ Arrived(k)' = Arrived(k) \cup {i}
    /\ \A j \in GPUs : j # k => Arrived(j)' = Arrived(j)
    /\ UNCHANGED <<topology, buffer, startChan, done, step, caller, count, stopped, shown>>

\* A send is of one message, from a GPU that had not sent to that target in this step.
LEMMA SendIsOne ==
    ASSUME StepInv, NEW i \in GPUs, Send(i)
    PROVE  \E k \in GPUs : \E msg : Sends(i, k, msg)
  <1>1. worker[i].at = "run"
    BY DEF Send
  <1>2. /\ Triggered(i) /\ Active(i) /\ ~Reported(i) /\ startChan[i] = <<>>
        /\ ~stopped /\ worker[i].step = step /\ step \in Nat
        /\ Sent(i) = worker[i].sent /\ Got(i) = worker[i].got
        /\ worker[i].sent \in Nat
        /\ worker[i].got <= Expected(i, step)
        /\ Len(Targets(i, step)) \in Nat
    BY <1>1, Running
  <1>3. worker[i].sent + 1 \in 1 .. Len(Targets(i, step))
    BY <1>2 DEF Send, SendsLeft
  <1>4. Targets(i, step)[worker[i].sent + 1] \in GPUs
    BY <1>2, <1>3, TargetsShape
  <1> DEFINE Is(x, y) == x = y
  <1>5. PICK m \in 1 .. Len(Targets(i, step)) : Is(m, worker[i].sent + 1)
    BY <1>3
  <1>6. PICK k \in GPUs : Is(k, Targets(i, step)[m])
    BY <1>4, <1>5
  <1>7. PICK msg : Is(msg, [from |-> i, step |-> step, values |-> Payload(i, step)])
    OBVIOUS
  <1>8. /\ m = worker[i].sent + 1
        /\ k = Targets(i, step)[m]
        /\ msg = [from |-> i, step |-> step, values |-> Payload(i, step)]
    BY <1>5, <1>6, <1>7
  <1> HIDE DEF Is
  <1>9. /\ rx' = [rx EXCEPT ![k] = Append(@, msg)]
        /\ worker' = [worker EXCEPT ![i].sent = @ + 1]
        /\ UNCHANGED <<topology, buffer, startChan, done, step, caller, count,
                       stopped, shown>>
    BY <1>2, <1>8 DEF Send
  <1>10. /\ msg \in Messages /\ msg.step = step /\ msg.from = i
         /\ Ring => DOMAIN msg.values = {RingBlock(i, step)}
    BY <1>2, <1>8, PayloadType DEF StepInv
  <1>11. SendsTo(i, k, step)
    BY <1>8 DEF SendsTo
  <1>12. /\ worker'[i].at = "run" /\ worker'[i].step = step
         /\ worker'[i].sent = m /\ worker'[i].got = worker[i].got
         /\ \A j \in GPUs : j # i => worker'[j] = worker[j]
         /\ worker' \in [GPUs -> [at : {"wait", "run", "exited"}, step : Nat,
                                  sent : Nat, got : Nat]]
    <2>1. worker[i] \in [at : {"wait", "run", "exited"}, step : Nat,
                        sent : Nat, got : Nat]
      BY DEF StepInv, Types
    <2>2. worker'[i] = [worker[i] EXCEPT !.sent = @ + 1]
      BY <1>9 DEF StepInv, Types
    <2>3. /\ worker'[i].at = "run" /\ worker'[i].step = step
          /\ worker'[i].sent = m /\ worker'[i].got = worker[i].got
      BY <1>1, <1>2, <1>8, <2>1, <2>2
    <2>4. worker'[i] \in [at : {"wait", "run", "exited"}, step : Nat,
                         sent : Nat, got : Nat]
      BY <1>8, <2>1, <2>2
    <2>5. \A j \in GPUs : j # i => worker'[j] = worker[j]
      BY <1>9 DEF StepInv, Types
    <2>6. worker' \in [GPUs -> [at : {"wait", "run", "exited"}, step : Nat,
                                sent : Nat, got : Nat]]
      BY <1>9, <2>4 DEF StepInv, Types
    <2> QED BY <2>3, <2>5, <2>6
  <1>13. \A j \in GPUs : j # i =>
            /\ Triggered(j)' = Triggered(j) /\ Active(j)' = Active(j)
            /\ Reported(j)' = Reported(j)
            /\ Sent(j)' = Sent(j) /\ Got(j)' = Got(j)
    BY <1>9, <1>12, Bystander
  <1>14. /\ Triggered(i)' /\ Active(i)' /\ ~Reported(i)'
         /\ Sent(i)' = m /\ Got(i)' = Got(i)
    <2>1. Triggered(i)' /\ Active(i)' /\ ~Reported(i)'
      BY <1>2, <1>9, <1>12 DEF Triggered, Active, Reported
    <2> QED BY <1>2, <1>12, <2>1 DEF Sent, Got
  <1>15. \A j \in GPUs, s \in Nat :
            Targets(j, s)' = Targets(j, s) /\ Expected(j, s)' = Expected(j, s)
    BY <1>9, TopologyFixed
  <1>17. /\ i \notin Arrived(k) /\ Arrived(k)' = Arrived(k) \cup {i}
         /\ \A p \in GPUs : p # k => Arrived(p)' = Arrived(p)
    <2>1. ASSUME NEW p \in GPUs, NEW j \in GPUs, j # i
          PROVE  j \in Arrived(p)' <=> j \in Arrived(p)
      <3>1. Sent(j)' = Sent(j) /\ Targets(j, step)' = Targets(j, step)
        BY <1>2, <1>9, <1>13, <1>15, <2>1
      <3> QED BY <1>9, <3>1 DEF Arrived
    <2>2. ASSUME NEW p \in GPUs
          PROVE  i \in Arrived(p)' <=> i \in Arrived(p) \/ p = k
      <3>1. \A n : n \in 1 .. m <=> n \in 1 .. Sent(i) \/ n = m
        BY <1>2, <1>8
      <3>2. Sent(i)' = m /\ Targets(i, step)' = Targets(i, step)
        BY <1>2, <1>9, <1>14, <1>15
      <3>3. i \in Arrived(p)' <=> \E n \in 1 .. m : Targets(i, step)[n] = p
        BY <1>9, <3>2 DEF Arrived
      <3>4. i \in Arrived(p) <=> \E n \in 1 .. Sent(i) : Targets(i, step)[n] = p
        BY DEF Arrived
      <3> QED BY <1>8, <3>1, <3>3, <3>4
    <2>3. i \notin Arrived(k)
      <3>1. \A x, y \in 1 .. Len(Targets(i, step)) :
               Targets(i, step)[x] = Targets(i, step)[y] => x = y
        BY <1>2, TargetsShape
      <3>2. \A n \in 1 .. Sent(i) : n \in 1 .. Len(Targets(i, step)) /\ n # m
        BY <1>2, <1>8
      <3> QED BY <1>8, <3>1, <3>2 DEF Arrived
    <2>4. \A p \in GPUs : Arrived(p) \subseteq GPUs /\ Arrived(p)' \subseteq GPUs
      BY DEF Arrived
    <2>5. ASSUME NEW p \in GPUs, p # k PROVE Arrived(p)' = Arrived(p)
      <3>1. \A j \in GPUs : j \in Arrived(p)' <=> j \in Arrived(p)
        BY <2>1, <2>2, <2>5
      <3> QED BY <2>4, <3>1
    <2>6. Arrived(k)' = Arrived(k) \cup {i} /\ i \notin Arrived(k)
      BY <2>1, <2>2, <2>3, <2>4
    <2> QED BY <2>5, <2>6
  <1>18. Sent(i) + 1 \in 1 .. Len(Targets(i, step)) /\ Sent(i)' = Sent(i) + 1
    BY <1>2, <1>3, <1>8, <1>14
  <1>19. Sends(i, k, msg)
    BY <1>8, <1>9, <1>10, <1>11, <1>13, <1>14, <1>17, <1>18 DEF Sends
  <1> QED
    BY <1>19

\* One more message is on its way.
LEMMA SendKeeps ==
    ASSUME StepInv, NEW i \in GPUs, Send(i)
    PROVE  StepInv'
  <1>1. worker[i].at = "run"
    BY DEF Send
  <1>2. /\ Triggered(i) /\ Active(i) /\ ~Reported(i) /\ startChan[i] = <<>>
        /\ ~stopped /\ worker[i].step = step /\ step \in Nat
        /\ Sent(i) = worker[i].sent /\ Got(i) = worker[i].got
        /\ worker[i].sent \in Nat
        /\ worker[i].got <= Expected(i, step)
        /\ Len(Targets(i, step)) \in Nat
    BY <1>1, Running
  <1>3. PICK k \in GPUs : \E msg : Sends(i, k, msg)
    BY SendIsOne
  <1>4. PICK msg : Sends(i, k, msg)
    BY <1>3
  <1>5. /\ msg = [from |-> i, step |-> step, values |-> Payload(i, step)]
        /\ msg \in Messages /\ SendsTo(i, k, step)
        /\ rx' = [rx EXCEPT ![k] = Append(@, msg)]
        /\ worker' = [worker EXCEPT ![i].sent = @ + 1]
        /\ UNCHANGED <<topology, buffer, startChan, done, step, caller, count,
                       stopped, shown>>
    BY <1>4 DEF Sends
  <1>6. /\ i \notin Arrived(k) /\ Arrived(k)' = Arrived(k) \cup {i}
        /\ \A j \in GPUs : j # k => Arrived(j)' = Arrived(j)
    BY <1>4 DEF Sends
  <1>7. /\ Triggered(i)' /\ Active(i)' /\ ~Reported(i)' /\ Got(i)' = Got(i)
        /\ Sent(i) + 1 \in 1 .. Len(Targets(i, step))
    BY <1>4 DEF Sends
  <1>8. \A j \in GPUs : j # i =>
           /\ Triggered(j)' = Triggered(j) /\ Active(j)' = Active(j)
           /\ Reported(j)' = Reported(j) /\ Got(j)' = Got(j)
    BY <1>4 DEF Sends
  <1>9. /\ worker'[i].at = "run" /\ worker'[i].step = step
        /\ worker'[i].sent = Sent(i) + 1 /\ worker'[i].got = worker[i].got
        /\ \A j \in GPUs : j # i => worker'[j] = worker[j]
        /\ worker' \in [GPUs -> [at : {"wait", "run", "exited"}, step : Nat,
                                 sent : Nat, got : Nat]]
    <2>1. worker[i] \in [at : {"wait", "run", "exited"}, step : Nat,
                        sent : Nat, got : Nat]
      BY DEF StepInv, Types
    <2>2. worker'[i] = [worker[i] EXCEPT !.sent = @ + 1]
      BY <1>5 DEF StepInv, Types
    <2>3. /\ worker'[i].at = "run" /\ worker'[i].step = step
          /\ worker'[i].sent = Sent(i) + 1 /\ worker'[i].got = worker[i].got
      BY <1>1, <1>2, <2>1, <2>2
    <2>4. worker'[i] \in [at : {"wait", "run", "exited"}, step : Nat,
                         sent : Nat, got : Nat]
      BY <2>1, <2>2
    <2>5. \A j \in GPUs : j # i => worker'[j] = worker[j]
      BY <1>5 DEF StepInv, Types
    <2>6. worker' \in [GPUs -> [at : {"wait", "run", "exited"}, step : Nat,
                                sent : Nat, got : Nat]]
      BY <1>5, <2>4 DEF StepInv, Types
    <2> QED BY <2>3, <2>5, <2>6
  <1>10. /\ msg.step = step /\ msg.from = i
         /\ Ring => DOMAIN msg.values = {RingBlock(i, step)}
    BY <1>2, <1>5, PayloadType DEF StepInv
  <1>11. \A j \in GPUs, s \in Nat :
            Targets(j, s)' = Targets(j, s) /\ Expected(j, s)' = Expected(j, s)
    BY <1>5, TopologyFixed
  <1>12. rx[k] \in Seq(Messages) /\ rx'[k] = Append(rx[k], msg)
         /\ \A j \in GPUs : j # k => rx'[j] = rx[j]
    BY <1>5 DEF StepInv, Types
  <1>13. Types'
    <2>1. rx' \in [GPUs -> Seq(Messages)]
      <3>1. Append(rx[k], msg) \in Seq(Messages)
        BY <1>5, <1>12
      <3> QED BY <1>5, <1>12, <3>1 DEF StepInv, Types
    <2> QED BY <1>5, <1>9, <2>1 DEF StepInv, Types
  <1>14. Phases'
    BY <1>2, <1>5, <1>7, <1>8, <1>9, <1>11 DEF StepInv, Phases
  <1>15. Tokens'
    <2>1. {j \in GPUs : Reported(j)}' = {j \in GPUs : Reported(j)}
      BY <1>2, <1>7, <1>8
    <2> QED BY <1>5, <2>1 DEF StepInv, Tokens, Collected
  <1>16. Flow'
    <2>1. IsFiniteSet(Arrived(k))
      <3>1. IsFiniteSet(GPUs)
        BY FS_Interval, NAssumption DEF GPUs
      <3>2. Arrived(k) \in SUBSET GPUs
        BY DEF Arrived
      <3> QED BY <3>1, <3>2, FS_Subset
    <2>2. Cardinality(Arrived(k)') = Cardinality(Arrived(k)) + 1
      BY <1>6, <2>1, FS_AddElement
    <2>3. \A p \in GPUs : Got(p)' = Got(p)
      BY <1>7, <1>8
    <2>4. Len(rx'[k]) = Len(rx[k]) + 1 /\ Len(rx[k]) \in Nat
      BY <1>12
    <2>5. Cardinality(Arrived(k)) \in Nat
      BY <2>1, FS_CardinalityType
    <2>6. Got(k) \in Nat
      BY DEF StepInv, Types, Got
    <2>7. ASSUME NEW p \in GPUs
          PROVE  Len(rx'[p]) + Got(p)' = Cardinality(Arrived(p)')
      <3>1. Len(rx[p]) + Got(p) = Cardinality(Arrived(p))
        BY DEF StepInv, Flow
      <3>2. CASE p = k
        BY <2>2, <2>3, <2>4, <2>5, <2>6, <3>1, <3>2
      <3>3. CASE p # k
        BY <1>6, <1>12, <2>3, <3>1, <3>3
      <3> QED BY <3>2, <3>3
    <2> QED BY <2>7 DEF Flow
  <1>17. Waiting'
    <2> DEFINE Is(x, y) == x = y
               Fits(x, p) == /\ x.step = step
                             /\ SendsTo(x.from, p, step)
                             /\ Ring => DOMAIN x.values = {RingBlock(x.from, step)}
    <2>1. \A p \in GPUs : \A n \in 1 .. Len(rx'[p]) :
             Fits(rx'[p][n], p) /\ rx'[p][n].from \in GPUs
      <3>1. ASSUME NEW p \in GPUs, NEW n \in 1 .. Len(rx[p])
            PROVE  Fits(rx[p][n], p) /\ rx[p][n].from \in GPUs
        BY MessageType DEF StepInv, Waiting
      <3>2. Fits(msg, k) /\ msg.from \in GPUs
        BY <1>5, <1>10
      <3> HIDE DEF Fits
      <3>3. ASSUME NEW p \in GPUs, NEW n \in 1 .. Len(rx'[p])
            PROVE  Fits(rx'[p][n], p) /\ rx'[p][n].from \in GPUs
        <4>1. CASE p # k
          BY <1>12, <3>1, <4>1
        <4>2. CASE p = k
          <5>1. \/ n \in 1 .. Len(rx[k]) /\ rx'[k][n] = rx[k][n]
                \/ rx'[k][n] = msg
            BY <1>12, <4>2
          <5> QED BY <3>1, <3>2, <4>2, <5>1
        <4> QED BY <4>1, <4>2
      <3> QED BY <3>3
    <2>2. ASSUME NEW p \in GPUs, NEW n \in 1 .. Len(rx'[p])
          PROVE  /\ rx'[p][n].step = step'
                 /\ SendsTo(rx[p][n].from, p, step)'
                 /\ Ring' => DOMAIN rx'[p][n].values = {RingBlock(rx[p][n].from, step)'}
      <3>1. PICK x : Is(x, rx'[p][n])
        BY DEF Is
      <3>2. x = rx'[p][n]
        BY <3>1 DEF Is
      <3>3. Fits(x, p) /\ x.from \in GPUs
        BY <2>1, <3>2
      <3>4. /\ SendsTo(x.from, p, step)' = SendsTo(x.from, p, step)
            /\ RingBlock(x.from, step)' = RingBlock(x.from, step)
            /\ Ring' = Ring
        <4>1. topology' = topology /\ step' = step /\ step \in Nat /\ x.from \in GPUs
          BY <1>2, <1>5, <3>3
        <4>2. SendsTo(x.from, p, step)' = SendsTo(x.from, p, step)
          BY <4>1, SendsToFixed
        <4>3. RingBlock(x.from, step)' = RingBlock(x.from, step) /\ Ring' = Ring
          BY <4>1, TopologyFixed
        <4> QED BY <4>2, <4>3, Zenon
      <3>5. x.step = step' /\ SendsTo(x.from, p, step)'
            /\ (Ring' => DOMAIN x.values = {RingBlock(x.from, step)'})
        <4>1. x.step = step /\ SendsTo(x.from, p, step)
              /\ (Ring => DOMAIN x.values = {RingBlock(x.from, step)})
          BY <3>3
        <4>2. x.step = step' /\ SendsTo(x.from, p, step)'
          BY <1>5, <3>4, <4>1
        <4>3. Ring' => DOMAIN x.values = {RingBlock(x.from, step)'}
          BY <3>4, <4>1
        <4> QED BY <4>2, <4>3
      <3> HIDE DEF Fits
      <3> QED BY <3>2, <3>5
    <2> QED BY <2>2 DEF Waiting
  <1>18. Display'
    BY <1>5, DisplayFixed DEF StepInv, Display
  <1> QED
    BY <1>13, <1>14, <1>15, <1>16, <1>17, <1>18 DEF StepInv

\* Blocks stay blocks when a message is taken.
LEMMA TakenType ==
    ASSUME Types, NEW i \in GPUs, NEW msg \in Messages
    PROVE  Taken(i, msg) \in [GPUs -> Blocks]
  <1>1. PICK D \in SUBSET GPUs : msg.values \in [D -> Blocks]
    BY DEF Messages
  <1>2. \A b \in GPUs : buffer[i][b] \in Blocks
    BY DEF Types
  <1>3. \A b \in D : msg.values[b] \in Blocks
    BY <1>1
  <1>4. DOMAIN msg.values = D
    BY <1>1
  <1>5. ASSUME NEW b \in GPUs
        PROVE  (IF b \notin DOMAIN msg.values THEN buffer[i][b]
                ELSE IF worker[i].step < Half
                     THEN buffer[i][b] (+) msg.values[b]
                     ELSE msg.values[b]) \in Blocks
    BY <1>2, <1>3, <1>4, Sums
  <1> QED
    BY <1>5 DEF Taken

\* What leaves the channel is counted as taken.
LEMMA ReceiveKeeps ==
    ASSUME StepInv, NEW i \in GPUs, Receive(i)
    PROVE  StepInv'
  <1>1. worker[i].at = "run"
    BY DEF Receive
  <1>2. /\ Triggered(i) /\ Active(i) /\ ~Reported(i) /\ startChan[i] = <<>>
        /\ ~stopped /\ worker[i].step = step /\ step \in Nat
        /\ Sent(i) = worker[i].sent /\ Got(i) = worker[i].got
        /\ worker[i].sent \in Nat /\ worker[i].got \in Nat
        /\ worker[i].sent <= Len(Targets(i, step))
        /\ Len(Targets(i, step)) \in Nat /\ Expected(i, step) \in Nat
    BY <1>1, Running
  <1>3. worker[i].got < Expected(i, step) /\ rx[i] # <<>>
    BY <1>2 DEF Receive
  <1>4. rx[i] \in Seq(Messages) /\ Head(rx[i]) \in Messages
    <2>1. rx[i] \in Seq(Messages)
      BY DEF StepInv, Types
    <2> QED BY <1>3, <2>1
  <1>5. /\ buffer' = [buffer EXCEPT ![i] = Taken(i, Head(rx[i]))]
        /\ rx' = [rx EXCEPT ![i] = Tail(@)]
        /\ worker' = [worker EXCEPT ![i].got = @ + 1]
        /\ UNCHANGED <<topology, startChan, done, step, caller, count, stopped, shown>>
    BY DEF Receive
  <1>6. /\ worker'[i].at = "run" /\ worker'[i].step = step
        /\ worker'[i].sent = worker[i].sent /\ worker'[i].got = worker[i].got + 1
        /\ \A j \in GPUs : j # i => worker'[j] = worker[j]
        /\ worker' \in [GPUs -> [at : {"wait", "run", "exited"}, step : Nat,
                                 sent : Nat, got : Nat]]
    <2>1. worker[i] \in [at : {"wait", "run", "exited"}, step : Nat,
                        sent : Nat, got : Nat]
      BY DEF StepInv, Types
    <2>2. worker'[i] = [worker[i] EXCEPT !.got = @ + 1]
      BY <1>5 DEF StepInv, Types
    <2>3. /\ worker'[i].at = "run" /\ worker'[i].step = step
          /\ worker'[i].sent = worker[i].sent /\ worker'[i].got = worker[i].got + 1
      BY <1>1, <1>2, <2>1, <2>2
    <2>4. worker'[i] \in [at : {"wait", "run", "exited"}, step : Nat,
                         sent : Nat, got : Nat]
      BY <1>2, <2>1, <2>2
    <2>5. \A j \in GPUs : j # i => worker'[j] = worker[j]
      BY <1>5 DEF StepInv, Types
    <2>6. worker' \in [GPUs -> [at : {"wait", "run", "exited"}, step : Nat,
                                sent : Nat, got : Nat]]
      BY <1>5, <2>4 DEF StepInv, Types
    <2> QED BY <2>3, <2>5, <2>6
  <1>7. \A j \in GPUs : j # i =>
           /\ Triggered(j)' = Triggered(j) /\ Active(j)' = Active(j)
           /\ Reported(j)' = Reported(j)
           /\ Sent(j)' = Sent(j) /\ Got(j)' = Got(j)
    BY <1>5, <1>6, Bystander
  <1>8. /\ Triggered(i)' /\ Active(i)' /\ ~Reported(i)'
        /\ Sent(i)' = Sent(i) /\ Got(i)' = Got(i) + 1
    <2>1. Triggered(i)' /\ Active(i)' /\ ~Reported(i)'
      BY <1>2, <1>5, <1>6 DEF Triggered, Active, Reported
    <2> QED BY <1>2, <1>6, <2>1 DEF Sent, Got
  <1>9. \A j \in GPUs, s \in Nat :
           Targets(j, s)' = Targets(j, s) /\ Expected(j, s)' = Expected(j, s)
    BY <1>5, TopologyFixed
  <1>10. /\ rx'[i] = Tail(rx[i])
         /\ \A j \in GPUs : j # i => rx'[j] = rx[j]
    BY <1>5 DEF StepInv, Types
  <1>11. Types'
    <2>1. Tail(rx[i]) \in Seq(Messages)
      BY <1>3, <1>4
    <2>2. rx' \in [GPUs -> Seq(Messages)]
      BY <1>5, <2>1 DEF StepInv, Types
    <2>3. Taken(i, Head(rx[i])) \in [GPUs -> Blocks]
      BY <1>4, TakenType DEF StepInv
    <2>4. buffer' \in [GPUs -> [GPUs -> Blocks]]
      BY <1>5, <2>3 DEF StepInv, Types
    <2> QED BY <1>5, <1>6, <2>2, <2>4 DEF StepInv, Types
  <1>12. Phases'
    BY <1>2, <1>3, <1>5, <1>6, <1>7, <1>8, <1>9 DEF StepInv, Phases
  <1>13. Tokens'
    <2>1. {j \in GPUs : Reported(j)}' = {j \in GPUs : Reported(j)}
      BY <1>2, <1>7, <1>8
    <2> QED BY <1>5, <2>1 DEF StepInv, Tokens, Collected
  <1>14. Flow'
    <2>1. \A j \in GPUs : Sent(j)' = Sent(j)
      BY <1>7, <1>8
    <2>2. \A j \in GPUs : Arrived(j)' = Arrived(j)
      BY <1>2, <1>5, <2>1, ArrivedFixed
    <2>3. Len(rx'[i]) = Len(rx[i]) - 1 /\ Len(rx[i]) \in Nat
      BY <1>3, <1>4, <1>10
    <2>4. Len(rx'[i]) + Got(i)' = Len(rx[i]) + Got(i)
      <3>1. Got(i) \in Nat
        BY <1>2
      <3>2. Got(i)' = Got(i) + 1
        BY <1>8
      <3> QED BY <2>3, <3>1, <3>2
    <2> QED BY <1>7, <1>10, <2>2, <2>4 DEF StepInv, Flow
  <1>15. Waiting'
    <2>1. ASSUME NEW p \in GPUs, NEW n \in 1 .. Len(rx'[p])
          PROVE  \E q \in 1 .. Len(rx[p]) : rx'[p][n] = rx[p][q]
      <3>1. CASE p # i
        BY <1>10, <3>1
      <3>2. CASE p = i
        <4>1. n + 1 \in 1 .. Len(rx[i]) /\ rx'[i][n] = rx[i][n + 1]
          <5>1. Len(Tail(rx[i])) = Len(rx[i]) - 1 /\ Len(rx[i]) \in Nat
            BY <1>3, <1>4
          <5>2. n \in 1 .. Len(rx[i]) - 1
            BY <1>10, <3>2, <5>1
          <5>3. Tail(rx[i])[n] = rx[i][n + 1]
            BY <1>3, <1>4, <5>1, <5>2
          <5> QED BY <1>10, <5>1, <5>2, <5>3
        <4> QED BY <3>2, <4>1
      <3> QED BY <3>1, <3>2
    <2>2. ASSUME NEW p \in GPUs, NEW n \in 1 .. Len(rx'[p])
          PROVE  /\ rx'[p][n].step = step'
                 /\ SendsTo(rx[p][n].from, p, step)'
                 /\ Ring' => DOMAIN rx'[p][n].values = {RingBlock(rx[p][n].from, step)'}
      <3>1. PICK q \in 1 .. Len(rx[p]) : rx'[p][n] = rx[p][q]
        BY <2>1
      <3> DEFINE Is(y) == y = rx[p][q]
      <3>2. PICK x : Is(x)
        OBVIOUS
      <3>3. x = rx[p][q] /\ x = rx'[p][n]
        BY <3>1, <3>2
      <3> HIDE DEF Is
      <3>4. /\ x.step = step /\ SendsTo(x.from, p, step)
            /\ Ring => DOMAIN x.values = {RingBlock(x.from, step)}
        BY <3>3 DEF StepInv, Waiting
      <3>5. x.from \in GPUs
        BY <3>3, MessageType DEF StepInv
      <3>6. /\ SendsTo(x.from, p, step)' = SendsTo(x.from, p, step)
            /\ RingBlock(x.from, step)' = RingBlock(x.from, step)
            /\ Ring' = Ring
        BY <1>2, <1>5, <3>5, SendsToFixed, TopologyFixed
      <3>7. x.step = step' /\ SendsTo(x.from, p, step)'
            /\ (Ring' => DOMAIN x.values = {RingBlock(x.from, step)'})
        BY <1>5, <3>4, <3>6
      <3> QED BY <3>3, <3>7
    <2> QED BY <2>2 DEF Waiting
  <1>16. Display'
    BY <1>5, DisplayFixed DEF StepInv, Display
  <1> QED
    BY <1>11, <1>12, <1>13, <1>14, <1>15, <1>16 DEF StepInv
-----------------------------------------------------------------------------
(***************************************************************************)
(* The invariant, and the properties it gives.                             *)
(***************************************************************************)

\* A step that changes nothing.
LEMMA StutterKeeps == StepInv /\ UNCHANGED vars => StepInv'
  <1> SUFFICES ASSUME StepInv, UNCHANGED vars PROVE StepInv'
    OBVIOUS
  <1>1. /\ topology' = topology /\ buffer' = buffer /\ rx' = rx
        /\ startChan' = startChan /\ done' = done /\ worker' = worker
        /\ step' = step /\ caller' = caller /\ count' = count
        /\ stopped' = stopped /\ shown' = shown
    BY DEF vars, channels
  <1>2. Types' /\ step \in Nat
    BY <1>1 DEF StepInv, Types
  <1>3. \A j \in GPUs :
           /\ Triggered(j)' = Triggered(j) /\ Active(j)' = Active(j)
           /\ Reported(j)' = Reported(j)
           /\ Sent(j)' = Sent(j) /\ Got(j)' = Got(j)
    BY <1>1, Bystander
  <1>4. Phases'
    <2>1. \A j \in GPUs : Targets(j, step)' = Targets(j, step)
                          /\ Expected(j, step)' = Expected(j, step)
      BY <1>1, <1>2, TopologyFixed
    <2> QED BY <1>1, <1>3, <2>1 DEF StepInv, Phases
  <1>5. Tokens'
    <2>1. {j \in GPUs : Reported(j)}' = {j \in GPUs : Reported(j)}
      BY <1>3
    <2> QED BY <1>1, <2>1 DEF StepInv, Tokens, Collected
  <1>6. Flow'
    <2>1. \A j \in GPUs : Arrived(j)' = Arrived(j)
      BY <1>1, <1>2, <1>3, ArrivedFixed
    <2> QED BY <1>1, <1>3, <2>1 DEF StepInv, Flow
  <1>7. Waiting'
    BY <1>1, WaitingFixed DEF StepInv
  <1>8. Display'
    BY <1>1, DisplayFixed DEF StepInv, Display
  <1> QED
    BY <1>2, <1>4, <1>5, <1>6, <1>7, <1>8 DEF StepInv

\* Every step keeps the invariant.
LEMMA StepKeeps == StepInv /\ [Next]_vars => StepInv'
  <1> SUFFICES ASSUME StepInv, [Next]_vars PROVE StepInv'
    OBVIOUS
  <1>1. CASE CallStep
    BY <1>1, CallStepKeeps
  <1>2. CASE InStep
    BY <1>2, TriggerKeeps, CollectKeeps, AdvanceKeeps, PublishKeeps DEF InStep
  <1>3. CASE Stop
    BY <1>3, StopKeeps
  <1>4. ASSUME NEW i \in GPUs, Worker(i) PROVE StepInv'
    BY <1>4, TakeStartKeeps, ExitKeeps, SendKeeps, ReceiveKeeps, ReportKeeps DEF Worker
  <1>5. CASE Over \/ UNCHANGED vars
    BY <1>5, StutterKeeps DEF Over
  <1> QED
    BY <1>1, <1>2, <1>3, <1>4, <1>5 DEF Next

\* So it always holds.
LEMMA StepInvHolds == Spec => []StepInv
  <1>1. Init => StepInv
    BY InitHolds
  <1>2. StepInv /\ [Next]_vars => StepInv'
    BY StepKeeps
  <1> QED
    BY <1>1, <1>2, PTL DEF Spec

\* Who runs was triggered; outside a Step nothing is left.
LEMMA BarrierFollows == StepInv => StepIsABarrier
  <1> SUFFICES ASSUME StepInv PROVE StepIsABarrier
    OBVIOUS
  <1>1. \A i \in GPUs : worker[i].at = "run" =>
           worker[i].step = step /\ caller \in {"trigger", "collect"}
    BY Running
  <1>2. caller \in {"idle", "advance", "publish"} =>
           /\ done = 0
           /\ \A i \in GPUs : /\ worker[i].at \in {"wait", "exited"}
                              /\ rx[i] = <<>>
                              /\ startChan[i] = <<>>
    BY Rest
  <1> QED
    BY <1>1, <1>2 DEF StepIsABarrier

\* Who has sent is among the senders, and those are as many as are expected.
LEMMA ExpectationFollows == StepInv => MessagesAreExpected
  <1> SUFFICES ASSUME StepInv, NEW i \in GPUs
               PROVE  /\ Len(rx[i]) <= Expected(i, step)
                      /\ \A m \in 1 .. Len(rx[i]) :
                            LET from == rx[i][m].from IN
                            /\ rx[i][m].step = step
                            /\ IF Ring THEN i = PosMod(from + 1)
                               ELSE IF step < Half THEN Parent(from) = i
                               ELSE Parent(i) = from
    BY DEF MessagesAreExpected
  <1>1. step \in Nat /\ rx[i] \in Seq(Messages) /\ Got(i) \in Nat
    BY DEF StepInv, Types, Got
  <1>2. Len(rx[i]) <= Expected(i, step)
    <2>1. Arrived(i) \subseteq SendersTo(i, step)
      <3>1. \A j \in GPUs : Sent(j) <= Len(Targets(j, step))
        BY <1>1, TargetsShape DEF StepInv, Phases, Sent
      <3>2. \A j \in GPUs : Sent(j) \in Nat /\ Len(Targets(j, step)) \in Nat
        BY <1>1, TargetsShape DEF StepInv, Types, Sent
      <3>3. \A j \in GPUs : \A m \in 1 .. Sent(j) : m \in 1 .. Len(Targets(j, step))
        BY <3>1, <3>2
      <3> QED BY <3>3 DEF Arrived, SendersTo, SendsTo
    <2>2. Cardinality(Arrived(i)) <= Expected(i, step)
      BY <1>1, <2>1, ExpectedIsSent, FS_Subset
    <2>3. Cardinality(Arrived(i)) \in Nat /\ Expected(i, step) \in Nat
      BY <1>1, <2>1, ExpectedIsSent, FS_Subset, FS_CardinalityType
    <2>4. Len(rx[i]) + Got(i) = Cardinality(Arrived(i)) /\ Len(rx[i]) \in Nat
      BY <1>1 DEF StepInv, Flow
    <2> QED BY <1>1, <2>2, <2>3, <2>4
  <1>3. ASSUME NEW m \in 1 .. Len(rx[i])
        PROVE  /\ rx[i][m].step = step
               /\ IF Ring THEN i = PosMod(rx[i][m].from + 1)
                  ELSE IF step < Half THEN Parent(rx[i][m].from) = i
                  ELSE Parent(i) = rx[i][m].from
    <2>1. rx[i][m].from \in GPUs
      BY MessageType DEF StepInv
    <2>2. rx[i][m].step = step /\ SendsTo(rx[i][m].from, i, step)
      BY DEF StepInv, Waiting
    <2> QED BY <1>1, <2>1, <2>2, SendersAre
  <1> QED
    BY <1>2, <1>3

-----------------------------------------------------------------------------
(***************************************************************************)
(* The display: its case analysis beside that of the steps.                *)
(***************************************************************************)

\* In the ring the display says what runRingStep does.
LEMMA RingDisplay ==
    ASSUME Ring, NEW i \in GPUs, NEW s \in Nat, s < 2 * Half
    PROVE  /\ LastSentTo(i, s) = PosMod(i + 1) /\ LastSentTo(i, s) \in GPUs
           /\ LastReceivedFrom(i, s) \in GPUs
           /\ PosMod(LastReceivedFrom(i, s) + 1) = i
           /\ ActiveBlockIdx(i, s) = RingBlock(i, s)
           /\ Status(i, s, FALSE) = IF s < Half THEN "Reduce-Scatter" ELSE "All-Gather"
  <1>1. Half = N - 1 /\ N \in Nat /\ N >= 1 /\ i \in Nat /\ i < N
    BY NAssumption DEF Half, GPUs
  <1>2. LastSentTo(i, s) = PosMod(i + 1)
    BY <1>1 DEF LastSentTo, PosMod
  <1>3. PosMod(i + 1) \in GPUs
    BY <1>1, NextGPU DEF GPUs
  <1>4. LastReceivedFrom(i, s) = PosMod(i - 1)
    BY <1>1 DEF LastReceivedFrom
  <1>5. PosMod(i - 1) = IF i = 0 THEN N - 1 ELSE i - 1
    <2>1. i - 1 \in Int /\ 0 - N <= i - 1 /\ i - 1 < 2 * N
      BY <1>1
    <2> QED BY <1>1, <2>1, Wrap
  <1>6. PosMod(i - 1) \in GPUs /\ PosMod(PosMod(i - 1) + 1) = i
    <2>1. PosMod(i - 1) \in GPUs
      BY <1>1, <1>5 DEF GPUs
    <2> QED BY <1>1, <1>5, <2>1, NextGPU
  <1>7. ActiveBlockIdx(i, s) = RingBlock(i, s)
    BY <1>1 DEF ActiveBlockIdx, RingBlock
  <1>8. Status(i, s, FALSE) = IF s < Half THEN "Reduce-Scatter" ELSE "All-Gather"
    BY <1>1 DEF Status
  <1> QED
    BY <1>2, <1>3, <1>4, <1>6, <1>7, <1>8

\* What the search among the children finds for the parent of the senders.
LEMMA FirstChild ==
    ASSUME NEW i \in GPUs, NEW d \in Int, Depth[i] = d - 1
    PROVE  /\ Children(i) = <<>> => FirstChildAt(i, d) = -1
           /\ Children(i) # <<>> => FirstChildAt(i, d) \in GPUs
  <1> DEFINE at == {k \in DOMAIN Children(i) : Depth[Children(i)[k]] = d}
  <1>1. /\ Children(i) \in Seq(GPUs)
        /\ Len(Children(i)) \in 0 .. 2
        /\ DOMAIN Children(i) = 1 .. Len(Children(i))
    BY ChildrenShape
  <1>2. CASE Children(i) = <<>>
    <2>1. at = {}
      BY <1>2
    <2> QED BY <1>2, <2>1 DEF FirstChildAt
  <1>3. CASE Children(i) # <<>>
    <2>1. 1 \in 1 .. Len(Children(i))
      BY <1>1, <1>3
    <2>2. PICK c \in GPUs : c = Children(i)[1]
      BY <1>1, <2>1
    <2>3. c # 0 /\ Parent(c) = i
      BY <2>1, <2>2, ChildrenAreChildren
    <2>4. Depth[c] = d
      BY <2>2, <2>3, Depths
    <2>5. 1 \in at
      BY <1>1, <2>1, <2>2, <2>4
    <2>6. \A k \in at : k \in Nat /\ 1 <= k
      BY <1>1
    <2>7. Min(at) = 1
      <3> HIDE DEF at
      <3> QED BY <2>5, <2>6 DEF Min
    <2> QED BY <1>3, <2>2, <2>5, <2>7 DEF FirstChildAt
  <1> QED
    BY <1>2, <1>3

\* In the tree's first half the display names the parent that runTreeStep sends to,
\* and only GPUs that send or receive have a text and a peer.
LEMMA ReduceDisplay ==
    ASSUME ~Ring, NEW i \in GPUs, NEW s \in Nat, s < Half
    PROVE  /\ Depth[i] = ActiveDepth(s) => /\ LastSentTo(i, s) = Parent(i)
                                           /\ LastSentTo(i, s) # -1
                                           /\ Status(i, s, FALSE) = "Sending"
           /\ Depth[i] # ActiveDepth(s) => LastSentTo(i, s) = -1
           /\ Expected(i, s) > 0 => /\ LastReceivedFrom(i, s) # -1
                                    /\ Status(i, s, FALSE) = "Receiving"
           /\ Expected(i, s) = 0 => LastReceivedFrom(i, s) = -1
  <1>1. Half = MaxDepth /\ MaxDepth \in Nat /\ Depth[i] \in Nat
    BY MaxDepthType, Depths DEF Half
  <1>2. ActiveDepth(s) = MaxDepth - s /\ s < MaxDepth /\ s < 2 * Half
    BY <1>1 DEF ActiveDepth
  <1>3. Expected(i, s) = IF Depth[i] = MaxDepth - s - 1 THEN Len(Children(i)) ELSE 0
    BY <1>1, <1>2 DEF Expected
  <1>4. Children(i) = <<>> <=> Len(Children(i)) = 0
    BY ChildrenShape
  <1>5. ASSUME Depth[i] = ActiveDepth(s)
        PROVE  /\ LastSentTo(i, s) = Parent(i) /\ LastSentTo(i, s) # -1
               /\ Status(i, s, FALSE) = "Sending"
    <2>1. i # 0 /\ Parent(i) \in GPUs
      BY <1>5, SenderHasParent, Parents
    <2>2. Parent(i) # -1
      BY <2>1 DEF GPUs
    <2>3. LastSentTo(i, s) = Parent(i)
      BY <1>2, <1>5 DEF LastSentTo
    <2>4. Status(i, s, FALSE) = "Sending"
      BY <1>2, <1>5 DEF Status
    <2> QED BY <2>2, <2>3, <2>4
  <1>6. Depth[i] # ActiveDepth(s) => LastSentTo(i, s) = -1
    BY <1>2 DEF LastSentTo
  <1>7. LastReceivedFrom(i, s) =
           IF Depth[i] = MaxDepth - s - 1 THEN FirstChildAt(i, MaxDepth - s) ELSE -1
    BY <1>2 DEF LastReceivedFrom
  <1>8. CASE Depth[i] = MaxDepth - s - 1
    <2>1. MaxDepth - s \in Int /\ Depth[i] # MaxDepth - s
      BY <1>1, <1>8
    <2>2. CASE Children(i) = <<>>
      <3>1. LastReceivedFrom(i, s) = -1
        BY <1>7, <1>8, <2>1, <2>2, FirstChild
      <3>2. ~(Expected(i, s) > 0)
        BY <1>3, <1>4, <1>8, <2>2
      <3> QED BY <1>5, <1>6, <3>1, <3>2, Zenon
    <2>3. CASE Children(i) # <<>>
      <3>1. LastReceivedFrom(i, s) \in GPUs
        BY <1>7, <1>8, <2>1, <2>3, FirstChild
      <3>2. LastReceivedFrom(i, s) # -1
        BY <3>1 DEF GPUs
      <3>3. Status(i, s, FALSE) = "Receiving"
        BY <1>2, <1>8, <2>1, <2>3 DEF Status
      <3>4. Expected(i, s) # 0
        BY <1>3, <1>4, <1>8, <2>3
      <3> QED BY <1>5, <1>6, <3>2, <3>3, <3>4, Zenon
    <2> QED BY <2>2, <2>3
  <1>9. CASE Depth[i] # MaxDepth - s - 1
    <2>1. ~(Expected(i, s) > 0)
      BY <1>3, <1>9
    <2>2. LastReceivedFrom(i, s) = -1
      BY <1>7, <1>9
    <2> QED BY <1>5, <1>6, <2>1, <2>2, Zenon
  <1> QED
    BY <1>8, <1>9

\* In the second half it names the parent that the broadcast comes from.
LEMMA BroadcastDisplay ==
    ASSUME ~Ring, NEW i \in GPUs, NEW s \in Nat, ~(s < Half), s < 2 * Half
    PROVE  /\ Depth[i] = ActiveDepth(s) => Status(i, s, FALSE) = "Broadcasting"
           /\ LastSentTo(i, s) # -1 <=> Depth[i] = ActiveDepth(s) /\ Children(i) # <<>>
           /\ Expected(i, s) > 0 => /\ LastReceivedFrom(i, s) = Parent(i)
                                    /\ LastReceivedFrom(i, s) # -1
                                    /\ Status(i, s, FALSE) = "Receiving"
           /\ Expected(i, s) = 0 => LastReceivedFrom(i, s) = -1
  <1>1. Half = MaxDepth /\ MaxDepth \in Nat /\ Depth[i] \in Nat
    BY MaxDepthType, Depths DEF Half
  <1>2. ActiveDepth(s) = s - MaxDepth /\ ~(s < MaxDepth) /\ s < 2 * MaxDepth
    BY <1>1 DEF ActiveDepth
  <1>3. Expected(i, s) = IF Depth[i] = s - MaxDepth + 1 THEN 1 ELSE 0
    BY <1>1, <1>2 DEF Expected
  <1>4. Depth[i] = ActiveDepth(s) => Status(i, s, FALSE) = "Broadcasting"
    BY <1>2 DEF Status
  <1>5. LastSentTo(i, s) # -1 <=> Depth[i] = ActiveDepth(s) /\ Children(i) # <<>>
    <2>1. CASE Depth[i] = s - MaxDepth /\ Children(i) # <<>>
      <3>1. LastSentTo(i, s) = Children(i)[1]
        BY <1>2, <2>1 DEF LastSentTo
      <3>2. Children(i)[1] \in GPUs
        BY <2>1, ChildrenShape
      <3>3. Children(i)[1] # -1
        BY <3>2 DEF GPUs
      <3> QED BY <1>2, <2>1, <3>1, <3>3
    <2>2. CASE ~(Depth[i] = s - MaxDepth /\ Children(i) # <<>>)
      <3>1. LastSentTo(i, s) = -1
        BY <1>2, <2>2 DEF LastSentTo
      <3> QED BY <1>2, <2>2, <3>1
    <2> QED BY <2>1, <2>2
  <1>6. CASE Depth[i] = s - MaxDepth + 1
    <2>1. i # 0 /\ Depth[i] # s - MaxDepth
      BY <1>1, <1>2, <1>6, Depths
    <2>2. Parent(i) # -1
      BY <2>1, Parents DEF GPUs
    <2>3. LastReceivedFrom(i, s) = Parent(i)
      BY <1>2, <1>6 DEF LastReceivedFrom
    <2>4. Status(i, s, FALSE) = "Receiving"
      BY <1>2, <1>6, <2>1 DEF Status
    <2>5. LastReceivedFrom(i, s) # -1
      BY <2>2, <2>3
    <2>6. Expected(i, s) # 0
      BY <1>3, <1>6
    <2> QED BY <1>4, <1>5, <2>3, <2>4, <2>5, <2>6, Zenon
  <1>7. CASE Depth[i] # s - MaxDepth + 1
    <2>1. LastReceivedFrom(i, s) = -1
      BY <1>2, <1>7 DEF LastReceivedFrom
    <2>2. ~(Expected(i, s) > 0)
      BY <1>3, <1>7
    <2> QED BY <1>4, <1>5, <2>1, <2>2, Zenon
  <1> QED
    BY <1>6, <1>7

\* So the display names a peer for those GPUs that send or take something, ...
LEMMA PeersAreNamed ==
    ASSUME NEW i \in GPUs, NEW s \in Nat, s < 2 * Half
    PROVE  /\ LastSentTo(i, s) # -1 <=> Len(Targets(i, s)) > 0
           /\ LastReceivedFrom(i, s) # -1 <=> Expected(i, s) > 0
  <1>1. Expected(i, s) \in Nat /\ Half \in Nat
    BY ExpectedIsSent, HalfType
  <1>2. CASE Ring
    <2>1. LastSentTo(i, s) # -1 /\ LastReceivedFrom(i, s) # -1
      <3>1. LastSentTo(i, s) \in GPUs /\ LastReceivedFrom(i, s) \in GPUs
        BY <1>2, RingDisplay
      <3>2. \A k \in GPUs : k # -1
        BY DEF GPUs
      <3> QED BY <3>1, <3>2
    <2>2. Targets(i, s) = <<PosMod(i + 1)>>
      BY <1>1, <1>2 DEF Targets
    <2>3. Expected(i, s) = 1
      BY <1>1, <1>2 DEF Expected
    <2> QED BY <2>1, <2>2, <2>3
  <1>3. CASE ~Ring /\ s < Half
    <2>1. Expected(i, s) > 0 \/ Expected(i, s) = 0
      BY <1>1
    <2>2. LastReceivedFrom(i, s) # -1 <=> Expected(i, s) > 0
      BY <1>3, <2>1, ReduceDisplay
    <2>3. CASE Depth[i] = ActiveDepth(s)
      <3>1. Targets(i, s) = <<Parent(i)>>
        BY <1>1, <1>3, <2>3 DEF Targets
      <3>2. LastSentTo(i, s) # -1
        BY <1>3, <2>3, ReduceDisplay
      <3> QED BY <2>2, <3>1, <3>2
    <2>4. CASE Depth[i] # ActiveDepth(s)
      <3>1. Targets(i, s) = <<>>
        BY <1>1, <1>3, <2>4 DEF Targets
      <3>2. LastSentTo(i, s) = -1
        BY <1>3, <2>4, ReduceDisplay
      <3> QED BY <2>2, <3>1, <3>2
    <2> QED BY <2>3, <2>4
  <1>4. CASE ~Ring /\ ~(s < Half)
    <2>1. Expected(i, s) > 0 \/ Expected(i, s) = 0
      BY <1>1
    <2>2. LastReceivedFrom(i, s) # -1 <=> Expected(i, s) > 0
      BY <1>4, <2>1, BroadcastDisplay
    <2>3. LastSentTo(i, s) # -1 <=> Depth[i] = ActiveDepth(s) /\ Children(i) # <<>>
      BY <1>4, BroadcastDisplay
    <2>4. Targets(i, s) = IF Depth[i] # ActiveDepth(s) THEN <<>> ELSE Children(i)
      BY <1>1, <1>4 DEF Targets
    <2>5. Children(i) # <<>> <=> Len(Children(i)) > 0
      BY ChildrenShape
    <2> QED BY <2>2, <2>3, <2>4, <2>5
  <1> QED
    BY <1>2, <1>3, <1>4

\* ... and the two ends of a transfer in words that fit.
LEMMA EndsAreNamed ==
    ASSUME NEW i \in GPUs, NEW j \in GPUs, NEW s \in Nat, SendsTo(j, i, s)
    PROVE  /\ Ring \/ s < Half => LastSentTo(j, s) = i
           /\ Ring \/ s >= Half => LastReceivedFrom(i, s) = j
           /\ <<Status(j, s, FALSE), Status(i, s, FALSE)>> \in
                {<<"Reduce-Scatter", "Reduce-Scatter">>, <<"All-Gather", "All-Gather">>,
                 <<"Sending", "Receiving">>, <<"Broadcasting", "Receiving">>}
           /\ Ring => ActiveBlockIdx(j, s) = RingBlock(j, s)
  <1>1. s < 2 * Half /\ Half \in Nat
    BY SendersAre, HalfType
  <1>2. Expected(i, s) > 0
    <2>1. j \in SendersTo(i, s)
      BY DEF SendersTo
    <2>2. SendersTo(i, s) # {}
      BY <2>1
    <2>3. Cardinality(SendersTo(i, s)) # 0
      BY <2>2, ExpectedIsSent, FS_EmptySet
    <2> QED BY <2>3, ExpectedIsSent
  <1>3. CASE Ring
    <2>1. PosMod(j + 1) = i
      BY <1>3, SendersAre
    <2>2. PICK k \in GPUs : k = LastReceivedFrom(i, s)
      BY <1>1, <1>3, RingDisplay
    <2>3. PosMod(k + 1) = i
      BY <1>1, <1>3, <2>2, RingDisplay
    <2>4. k = j
      BY <2>1, <2>3, NextGPU, NAssumption DEF GPUs
    <2>5. /\ Status(j, s, FALSE) = IF s < Half THEN "Reduce-Scatter" ELSE "All-Gather"
          /\ Status(i, s, FALSE) = IF s < Half THEN "Reduce-Scatter" ELSE "All-Gather"
          /\ LastSentTo(j, s) = i
          /\ ActiveBlockIdx(j, s) = RingBlock(j, s)
      BY <1>1, <1>3, <2>1, RingDisplay
    <2> QED BY <2>2, <2>4, <2>5
  <1>4. CASE ~Ring /\ s < Half
    <2>1. Depth[j] = ActiveDepth(s) /\ Parent(j) = i
      BY <1>4, SendersAre
    <2>2. LastSentTo(j, s) = i /\ Status(j, s, FALSE) = "Sending"
      BY <1>4, <2>1, ReduceDisplay
    <2>3. Status(i, s, FALSE) = "Receiving"
      BY <1>2, <1>4, ReduceDisplay
    <2>4. ~(s >= Half)
      BY <1>1, <1>4
    <2> QED BY <1>4, <2>2, <2>3, <2>4, Zenon
  <1>5. CASE ~Ring /\ ~(s < Half)
    <2>1. Depth[j] = ActiveDepth(s) /\ Parent(i) = j
      BY <1>5, SendersAre
    <2>2. Status(j, s, FALSE) = "Broadcasting"
      BY <1>1, <1>5, <2>1, BroadcastDisplay
    <2>3. LastReceivedFrom(i, s) = j /\ Status(i, s, FALSE) = "Receiving"
      BY <1>1, <1>2, <1>5, <2>1, BroadcastDisplay
    <2> QED BY <1>1, <1>5, <2>2, <2>3
  <1> QED
    BY <1>3, <1>4, <1>5

\* The display is of the running step, so what waits in a channel was announced.
LEMMA AnnouncementFollows == StepInv => DisplayAnnouncesTraffic
  <1> SUFFICES ASSUME StepInv, NEW i \in GPUs, NEW m \in 1 .. Len(rx[i])
               PROVE  LET msg == rx[i][m]
                          sender == shown.gpus[msg.from]
                          receiver == shown.gpus[i]
                      IN
                      /\ Ring \/ step < Half => sender.sentTo = i
                      /\ Ring \/ step >= Half => receiver.receivedFrom = msg.from
                      /\ <<sender.status, receiver.status>> \in
                           {<<"Reduce-Scatter", "Reduce-Scatter">>,
                            <<"All-Gather", "All-Gather">>,
                            <<"Sending", "Receiving">>, <<"Broadcasting", "Receiving">>}
                      /\ Ring => DOMAIN msg.values = {sender.block}
    BY Zenon DEF DisplayAnnouncesTraffic
  <1>1. step \in Nat
    BY DEF StepInv, Types
  <1>2. PICK j \in GPUs : j = rx[i][m].from
    BY MessageType DEF StepInv
  <1>3. /\ SendsTo(j, i, step)
        /\ Ring => DOMAIN rx[i][m].values = {RingBlock(j, step)}
    BY <1>2 DEF StepInv, Waiting
  <1>4. caller \in {"trigger", "collect"}
    <2>1. rx[i] # <<>>
      OBVIOUS
    <2> QED BY <2>1, Rest
  <1>5. Announces(shown, step)
    BY <1>4 DEF StepInv, Display
  <1>6. /\ shown.gpus[i].status = Status(i, step, FALSE)
        /\ shown.gpus[i].receivedFrom = LastReceivedFrom(i, step)
        /\ shown.gpus[j].status = Status(j, step, FALSE)
        /\ shown.gpus[j].sentTo = LastSentTo(j, step)
        /\ shown.gpus[j].block = ActiveBlockIdx(j, step)
    BY <1>5 DEF Announces
  <1>7. /\ Ring \/ step < Half => shown.gpus[j].sentTo = i
        /\ Ring \/ step >= Half => shown.gpus[i].receivedFrom = j
        /\ <<shown.gpus[j].status, shown.gpus[i].status>> \in
             {<<"Reduce-Scatter", "Reduce-Scatter">>, <<"All-Gather", "All-Gather">>,
              <<"Sending", "Receiving">>, <<"Broadcasting", "Receiving">>}
        /\ Ring => DOMAIN rx[i][m].values = {shown.gpus[j].block}
    <2>1. /\ Ring \/ step < Half => LastSentTo(j, step) = i
          /\ Ring \/ step >= Half => LastReceivedFrom(i, step) = j
          /\ <<Status(j, step, FALSE), Status(i, step, FALSE)>> \in
               {<<"Reduce-Scatter", "Reduce-Scatter">>, <<"All-Gather", "All-Gather">>,
                <<"Sending", "Receiving">>, <<"Broadcasting", "Receiving">>}
          /\ Ring => ActiveBlockIdx(j, step) = RingBlock(j, step)
      BY <1>1, <1>3, EndsAreNamed, Zenon
    <2> QED BY <1>3, <1>6, <2>1, Zenon
  <1> QED
    BY <1>2, <1>7

\* When the last token is collected, every GPU has done what the step asks of it.
StepDone ==
    caller = "advance" => \A i \in GPUs : /\ worker[i].sent = Len(Targets(i, step))
                                          /\ worker[i].got = Expected(i, step)

LEMMA StepDoneHolds == Spec => []StepDone
  <1>1. Init => StepDone
    BY DEF Init, StepDone
  <1>2. ASSUME StepInv, StepInv', StepDone, [Next]_vars, caller' = "advance"
        PROVE  StepDone'
    <2>1. step \in Nat
      BY <1>2 DEF StepInv, Types
    <2>2. CASE Collect
      <3>1. /\ done > 0 /\ caller \in {"trigger", "collect"} /\ Collected + 1 = N
            /\ UNCHANGED <<topology, worker, step>>
        BY <1>2, <2>2 DEF Collect, Collected, StepInv, Types
      <3>2. \A i \in GPUs : Reported(i)
        BY <1>2, <3>1, LastToken
      <3>3. \A i \in GPUs : /\ worker[i].sent = Len(Targets(i, step))
                            /\ worker[i].got = Expected(i, step)
        BY <1>2, <3>2 DEF StepInv, Phases
      <3> QED BY <2>1, <3>1, <3>3, TopologyFixed DEF StepDone
    <2>3. CASE caller = "advance" /\ UNCHANGED <<topology, worker, step>>
      BY <1>2, <2>1, <2>3, TopologyFixed DEF StepDone
    <2>4. ASSUME NEW i \in GPUs, Worker(i) PROVE caller = "advance" /\ FALSE
      <3>1. caller = "advance"
        BY <1>2, <2>4 DEF Worker, TakeStart, Exit, Send, Receive, Report
      <3>2. /\ worker[i].at \in {"wait", "exited"} /\ startChan[i] = <<>>
            /\ ~stopped
        BY <1>2, <3>1, Rest DEF StepInv, Phases
      <3> QED BY <2>4, <3>2 DEF Worker, TakeStart, Exit, Send, Receive, Report
    <2>5. Collect \/ (caller = "advance" /\ UNCHANGED <<topology, worker, step>>)
          \/ \E i \in GPUs : Worker(i)
      BY <1>2 DEF Next, InStep, CallStep, Trigger, Advance, Publish, Stop, Over, vars
    <2> QED BY <2>2, <2>3, <2>4, <2>5
  <1>3. StepInv /\ StepInv' /\ StepDone /\ [Next]_vars => StepDone'
    BY <1>2 DEF StepDone
  <1> QED
    BY <1>1, <1>3, StepInvHolds, PTL DEF Spec

\* The display of the step has announced it.
LEMMA AnnouncedHappens == StepInv /\ StepDone => AnnouncedTrafficHappens
  <1> SUFFICES ASSUME StepInv, StepDone, caller = "advance", NEW i \in GPUs
               PROVE  /\ shown.gpus[i].sentTo # -1 <=> worker[i].sent > 0
                      /\ shown.gpus[i].receivedFrom # -1 <=> worker[i].got > 0
    BY DEF AnnouncedTrafficHappens
  <1>1. step \in Nat
    BY DEF StepInv, Types
  <1>2. Announces(shown, step) /\ step < 2 * Half
    BY DEF StepInv, Display
  <1>3. /\ shown.gpus[i].sentTo = LastSentTo(i, step)
        /\ shown.gpus[i].receivedFrom = LastReceivedFrom(i, step)
    BY <1>2 DEF Announces
  <1>4. worker[i].sent = Len(Targets(i, step)) /\ worker[i].got = Expected(i, step)
    BY DEF StepDone
  <1> QED
    BY <1>1, <1>2, <1>3, <1>4, PeersAreNamed

\* Step is a barrier for every number of GPUs, in the ring and in the tree: no
\* goroutine, message or token of one step is left when the next begins.
THEOREM StepsAreBarriers == Spec => []StepIsABarrier
  BY StepInvHolds, BarrierFollows, PTL

\* For every number of GPUs, what waits in a GPU's channel is of the step that runs, from
\* the GPU the topology names, and no more than runRingStep or runTreeStep takes.
THEOREM TrafficIsExpected == Spec => []MessagesAreExpected
  BY StepInvHolds, ExpectationFollows, PTL

\* For every number of GPUs, the display that updateState published before the step
\* announces each transfer the step then makes: Status, LastSentTo, LastReceivedFrom
\* and ActiveBlockIdx (simulator.go:252 to 365) come by conditions of their own to
\* what runRingStep and runTreeStep do.
THEOREM TrafficIsAnnounced == Spec => []DisplayAnnouncesTraffic
  BY StepInvHolds, AnnouncementFollows, PTL

\* For every number of GPUs, what the display announced has happened when every GPU
\* has reported: no GPU is shown with a peer in a step in which it does nothing.
THEOREM AnnouncementsAreKept == Spec => []AnnouncedTrafficHappens
  BY StepInvHolds, StepDoneHolds, AnnouncedHappens, PTL
=============================================================================
