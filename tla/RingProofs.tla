----------------------------- MODULE RingProofs -----------------------------
(***************************************************************************)
(* The ring is correct for every number of GPUs.  The inductive invariant  *)
(* says exactly what every channel and every chunk holds: RingInv names    *)
(* the one message GPU i can have in its channel, and, chunk by chunk, the *)
(* GPUs whose contributions chunk c of GPU i has.                          *)
(***************************************************************************)
EXTENDS RingAllReduce, TLAPS

\* How far GPU i is downstream of GPU c, and the GPU that sends to i.
Dist(c, i) == IF c <= i THEN i - c ELSE i - c + N
Prev(i) == IF i = 0 THEN N - 1 ELSE i - 1

\* One contribution to chunk c from each GPU of S; i and the d GPUs before it.
Of(S, c) == SetToBag({<<g, c>> : g \in S})
Within(i, d) == {g \in GPUs : Dist(g, i) <= d}

\* The GPUs whose contributions chunk c of GPU i has.
Holders(i, c) ==
    IF phase[i] = "reduce"
      THEN IF Dist(c, i) <= step[i] THEN Within(i, Dist(c, i)) ELSE {i}
      ELSE IF phase[i] = "gather" /\ step[i] <= Dist(c, i)
             THEN Within(i, Dist(c, i)) ELSE GPUs

\* The message GPU i takes next.
Expected(i) ==
    [step |-> step[i], chunk |-> RecvChunk(i),
     value |-> Of(IF phase[i] = "reduce" THEN Within(Prev(i), step[i]) ELSE GPUs,
                  RecvChunk(i))]

Control ==
    /\ phase \in [GPUs -> {"reduce", "gather", "done"}]
    /\ step \in [GPUs -> 0 .. N - 2]
    /\ sent \in [GPUs -> BOOLEAN]
    /\ \A i \in GPUs : sent[i] => phase[i] # "done"

Slots ==
    /\ channels = [i \in GPUs |-> channels[i]]
    /\ \A i \in GPUs : \/ channels[i] = <<>>
                       \/ channels[i] = <<Expected(i)>> /\ phase[i] # "done"

Sending(i) == IF sent[i] THEN 1 ELSE 0
Waiting(i) == IF channels[i] = <<>> THEN 0 ELSE 1

Flow == \A i \in GPUs : Taken(i) + Sending(i) = Taken(Next1(i)) + Waiting(Next1(i))

Drift == \A i, k \in GPUs : Taken(i) - Taken(k) <= Dist(k, i)

Contents == data = [i \in GPUs |-> [c \in GPUs |-> Of(Holders(i, c), c)]]

Outcome == \/ verdict = "none"
           \/ /\ verdict \in {"success", "failed"}
              /\ N <= MaxExact => verdict = "success"
              /\ \A i \in GPUs : phase[i] = "done"

RingInv == Control /\ Slots /\ Flow /\ Drift /\ Contents /\ Outcome
-----------------------------------------------------------------------------
(***************************************************************************)
(* Arithmetic round the ring.                                              *)
(***************************************************************************)

\* What % does to the index expressions of the code, which stay below 3N.
LEMMA Wrap ==
    ASSUME NEW x \in Int, 0 <= x, x < 3 * N
    PROVE  x % N = IF x < N THEN x ELSE IF x < 2 * N THEN x - N ELSE x - 2 * N
<1>1. N \in Int /\ N >= 2
    BY NAssumption
<1>2. CASE x < N
    BY <1>1, <1>2, Z3
<1>3. CASE N <= x /\ x < 2 * N
    <2>1. x = (x - N) + N * 1
        BY <1>1
    <2> QED
        BY <1>1, <1>3, <2>1, Z3
<1>4. CASE 2 * N <= x
    <2>1. x = (x - 2 * N) + N * 2
        BY <1>1
    <2> QED
        BY <1>1, <1>4, <2>1, Z3
<1> QED
    BY <1>1, <1>2, <1>3, <1>4

\* Every GPU has one neighbour on each side, and they are other GPUs.
LEMMA Neighbours ==
    ASSUME NEW i \in GPUs
    PROVE  /\ Next1(i) \in GPUs
           /\ Next1(i) = IF i = N - 1 THEN 0 ELSE i + 1
           /\ Prev(i) \in GPUs
           /\ Next1(i) # i
           /\ Prev(Next1(i)) = i
           /\ Next1(Prev(i)) = i
<1>1. N \in Int /\ N >= 2 /\ i \in Int /\ 0 <= i /\ i <= N - 1
    BY NAssumption DEF GPUs
<1>2. Next1(i) = IF i = N - 1 THEN 0 ELSE i + 1
    BY <1>1, Wrap DEF Next1
<1>3. Prev(i) \in Int /\ 0 <= Prev(i) /\ Prev(i) <= N - 1
    BY <1>1 DEF Prev
<1>4. Next1(Prev(i)) = IF Prev(i) = N - 1 THEN 0 ELSE Prev(i) + 1
    BY <1>1, <1>3, Wrap DEF Next1
<1>5. Next1(Prev(i)) = i
    BY <1>1, <1>4 DEF Prev
<1> QED
    BY <1>1, <1>2, <1>3, <1>5 DEF GPUs, Prev

\* A step further downstream is a step further from every GPU but oneself.
LEMMA Distances ==
    ASSUME NEW c \in GPUs, NEW i \in GPUs
    PROVE  /\ Dist(c, i) \in 0 .. N - 1
           /\ (Dist(c, i) = 0) <=> (c = i)
           /\ (Dist(c, i) = N - 1) <=> (c = Next1(i))
           /\ Dist(c, Next1(i)) = IF c = Next1(i) THEN 0 ELSE Dist(c, i) + 1
           /\ c # i => Dist(c, i) = Dist(c, Prev(i)) + 1
           /\ \A d \in GPUs : Dist(c, i) = Dist(d, i) => c = d
<1>1. N \in Int /\ N >= 2 /\ i \in Int /\ 0 <= i /\ i <= N - 1
                /\ c \in Int /\ 0 <= c /\ c <= N - 1
    BY NAssumption DEF GPUs
<1>2. Next1(i) = IF i = N - 1 THEN 0 ELSE i + 1
    BY Neighbours
<1> QED
    BY <1>1, <1>2 DEF Dist, Prev, GPUs

\* How far behind a GPU the chunks of its current step are.
LEMMA Chunks ==
    ASSUME NEW i \in GPUs, step[i] \in 0 .. N - 2
    PROVE  /\ RecvChunk(i) \in GPUs
           /\ SendChunk(i) \in GPUs
           /\ Dist(RecvChunk(i), i) =
                IF phase[i] = "reduce" THEN step[i] + 1 ELSE step[i]
           /\ Dist(SendChunk(i), i) =
                IF phase[i] = "reduce" THEN step[i]
                ELSE IF step[i] = 0 THEN N - 1 ELSE step[i] - 1
<1> DEFINE s == step[i]
<1>1. N \in Int /\ N >= 2 /\ i \in Int /\ 0 <= i /\ i <= N - 1
                /\ s \in Int /\ 0 <= s /\ s <= N - 2
    BY NAssumption DEF GPUs
<1>2. RecvChunk(i) = IF phase[i] = "reduce"
                       THEN IF s + 1 <= i THEN i - s - 1 ELSE i - s - 1 + N
                       ELSE IF s <= i THEN i - s ELSE i - s + N
    <2>1. (i - s - 1 + N) % N = IF s + 1 <= i THEN i - s - 1 ELSE i - s - 1 + N
        BY <1>1, Wrap
    <2>2. (i - s + N) % N = IF s <= i THEN i - s ELSE i - s + N
        BY <1>1, Wrap
    <2> QED
        BY <2>1, <2>2 DEF RecvChunk
<1>3. SendChunk(i) = IF phase[i] = "reduce"
                       THEN IF s <= i THEN i - s ELSE i - s + N
                       ELSE IF s = 0 THEN IF i = N - 1 THEN 0 ELSE i + 1
                       ELSE IF s - 1 <= i THEN i + 1 - s ELSE i + 1 - s + N
    <2>1. (i - s + N) % N = IF s <= i THEN i - s ELSE i - s + N
        BY <1>1, Wrap
    <2>2. (i + 1 - s + N) % N =
              IF i + 1 - s + N < N THEN i + 1 - s + N
              ELSE IF i + 1 - s + N < 2 * N THEN i + 1 - s ELSE i + 1 - s - N
        <3> DEFINE x == i + 1 - s + N
        <3>1. x \in Int /\ 0 <= x /\ x < 3 * N
            BY <1>1
        <3>2. x - N = i + 1 - s /\ x - 2 * N = i + 1 - s - N
            BY <1>1
        <3> HIDE DEF x
        <3>3. x % N = IF x < N THEN x ELSE IF x < 2 * N THEN x - N ELSE x - 2 * N
            BY <3>1, Wrap
        <3> QED
            BY <3>2, <3>3 DEF x
    <2>3. s = 0 => (i + 1 - s + N) % N = IF i = N - 1 THEN 0 ELSE i + 1
        BY <1>1, <2>2
    <2>4. s # 0 => (i + 1 - s + N) % N = IF s - 1 <= i THEN i + 1 - s ELSE i + 1 - s + N
        BY <1>1, <2>2
    <2> QED
        BY <2>1, <2>3, <2>4 DEF SendChunk
<1> HIDE DEF s
<1>4. Dist(RecvChunk(i), i) = IF phase[i] = "reduce" THEN s + 1 ELSE s
    BY <1>1, <1>2 DEF Dist
<1>5. Dist(SendChunk(i), i) = IF phase[i] = "reduce" THEN s
                              ELSE IF s = 0 THEN N - 1 ELSE s - 1
    BY <1>1, <1>3 DEF Dist
<1>6. RecvChunk(i) \in GPUs /\ SendChunk(i) \in GPUs
    BY <1>1, <1>2, <1>3 DEF GPUs
<1> QED
    BY <1>4, <1>5, <1>6 DEF s

\* What a GPU sends is the chunk its neighbour takes, when both are at one step.
LEMMA ChunksMeet ==
    ASSUME NEW i \in GPUs, step[i] \in 0 .. N - 2,
           phase[i] = phase[Next1(i)], step[i] = step[Next1(i)]
    PROVE  SendChunk(i) = RecvChunk(Next1(i))
<1> DEFINE j == Next1(i)
           c == SendChunk(i)
<1>1. j \in GPUs
    BY Neighbours
<1>2. Dist(RecvChunk(j), j) = IF phase[i] = "reduce" THEN step[i] + 1 ELSE step[i]
    BY <1>1, Chunks
<1>3. c \in GPUs /\ RecvChunk(j) \in GPUs
    BY <1>1, Chunks
<1>4. Dist(c, i) = IF phase[i] = "reduce" THEN step[i]
                   ELSE IF step[i] = 0 THEN N - 1 ELSE step[i] - 1
    BY Chunks
<1>5. /\ (Dist(c, i) = N - 1) <=> (c = j)
      /\ Dist(c, j) = IF c = j THEN 0 ELSE Dist(c, i) + 1
    BY <1>3, Distances
<1>6. Dist(c, j) = Dist(RecvChunk(j), j)
    BY <1>2, <1>4, <1>5, NAssumption
<1> QED
    BY <1>1, <1>3, <1>6, Distances

-----------------------------------------------------------------------------
(***************************************************************************)
(* Bags of contributions.                                                  *)
(***************************************************************************)

\* Contributions of different GPUs to one chunk are added by putting them together.
LEMMA OfUnion ==
    ASSUME NEW S, NEW T, NEW c, S \cap T = {}
    PROVE  Of(S, c) (+) Of(T, c) = Of(S \cup T, c)
<1> DEFINE A == {<<g, c>> : g \in S}
           B == {<<g, c>> : g \in T}
           C == {<<g, c>> : g \in S \cup T}
<1>1. A \cap B = {}
    OBVIOUS
<1>2. C = A \cup B
    OBVIOUS
<1> HIDE DEF A, B, C
<1>3. SetToBag(A) (+) SetToBag(B) = SetToBag(A \cup B)
    BY <1>1 DEF (+), SetToBag
<1> QED
    BY <1>2, <1>3 DEF Of, A, B, C

\* Sums with different contributions differ.
LEMMA OfDiffers ==
    ASSUME NEW S, NEW T, NEW c, Of(S, c) = Of(T, c)
    PROVE  S = T
<1> DEFINE A == {<<g, c>> : g \in S}
           B == {<<g, c>> : g \in T}
<1>1. A = B
    <2> HIDE DEF A, B
    <2>1. [e \in A |-> 1] = [e \in B |-> 1]
        BY DEF Of, SetToBag, A, B
    <2> QED
        BY <2>1
<1>2. /\ \A g : g \in S <=> <<g, c>> \in A
      /\ \A g : g \in T <=> <<g, c>> \in B
    OBVIOUS
<1> HIDE DEF A, B
<1> QED
    BY <1>1, <1>2

\* The GPUs upstream: all of them in the end, and one more at each step.
LEMMA WithinGrows ==
    ASSUME NEW i \in GPUs
    PROVE  /\ Within(i, N - 1) = GPUs
           /\ Within(i, 0) = {i}
           /\ \A d \in 0 .. N - 2 :
                /\ {i} \cap Within(Prev(i), d) = {}
                /\ {i} \cup Within(Prev(i), d) = Within(i, d + 1)
                /\ Within(i, d) # GPUs
<1>1. \A g \in GPUs : /\ Dist(g, i) \in 0 .. N - 1
                      /\ (Dist(g, i) = 0) <=> (g = i)
                      /\ (Dist(g, i) = N - 1) <=> (g = Next1(i))
                      /\ g # i => Dist(g, i) = Dist(g, Prev(i)) + 1
    BY Distances
<1>2. Prev(i) \in GPUs /\ Next1(i) \in GPUs /\ Next1(Prev(i)) = i
    BY Neighbours
<1>3. Dist(i, Prev(i)) = N - 1
    BY <1>2, Distances
<1>4. \A g \in GPUs : Dist(g, Prev(i)) \in Int
    BY <1>2, Distances
<1>5. Within(i, N - 1) = GPUs
    BY <1>1 DEF Within
<1>6. Within(i, 0) = {i}
    BY <1>1 DEF Within
<1>7. ASSUME NEW d \in 0 .. N - 2
      PROVE  /\ {i} \cap Within(Prev(i), d) = {}
             /\ {i} \cup Within(Prev(i), d) = Within(i, d + 1)
             /\ Within(i, d) # GPUs
    <2>1. {i} \cap Within(Prev(i), d) = {}
        BY <1>3, NAssumption DEF Within
    <2>2. {i} \cup Within(Prev(i), d) = Within(i, d + 1)
        BY <1>1, <1>4, NAssumption DEF Within
    <2>3. Next1(i) \notin Within(i, d)
        BY <1>1, <1>2, NAssumption DEF Within
    <2> QED
        BY <1>2, <2>1, <2>2, <2>3
<1> QED
    BY <1>5, <1>6, <1>7
-----------------------------------------------------------------------------
(***************************************************************************)
(* The invariant.                                                          *)
(***************************************************************************)

\* GPUs that have taken equally many messages are in the same loop and step.
LEMMA SameStep ==
    ASSUME Control, NEW i \in GPUs, NEW j \in GPUs,
           Taken(i) = Taken(j), phase[i] # "done"
    PROVE  phase[i] = phase[j] /\ step[i] = step[j]
BY NAssumption DEF Control, Taken

\* What a GPU has taken is a number, and says whether the next is in its channel.
LEMMA TakenIsInt ==
    ASSUME Control, NEW i \in GPUs
    PROVE  Taken(i) \in 0 .. 2 * (N - 1)
BY NAssumption DEF Control, Taken

\* The initial state: every GPU has its own contribution to each chunk.
LEMMA RingInit == Init => RingInv
<1> SUFFICES ASSUME Init PROVE RingInv
    OBVIOUS
<1>1. Control
    BY NAssumption DEF Init, Control
<1>2. \A i \in GPUs : Taken(i) = 0 /\ Sending(i) = 0 /\ Waiting(i) = 0
    BY DEF Init, Taken, Sending, Waiting
<1>3. Slots /\ Outcome
    BY DEF Init, Slots, Outcome
<1>4. Flow
    BY <1>2, Neighbours DEF Flow
<1>5. Drift
    BY <1>2, Distances DEF Drift
<1>6. \A i, c \in GPUs : Seed(i, c) = Of(Holders(i, c), c)
    <2> TAKE i, c \in GPUs
    <2>1. Holders(i, c) = {i}
        BY Distances, WithinGrows, NAssumption DEF Init, Holders
    <2>2. {<<i, c>>} = {<<g, c>> : g \in {i}}
        OBVIOUS
    <2> QED
        BY <2>1, <2>2 DEF Of, Seed
<1>7. Contents
    BY <1>6 DEF Init, Contents
<1> QED
    BY <1>1, <1>3, <1>4, <1>5, <1>7 DEF RingInv

\* A send fills its neighbour's channel with the message the neighbour expects.
LEMMA SendKeeps ==
    ASSUME RingInv, NEW i \in GPUs, Send(i)
    PROVE  RingInv'
<1> DEFINE j == Next1(i)
           msg == [step |-> step[i], chunk |-> SendChunk(i),
                   value |-> data[i][SendChunk(i)]]
<1>1. j \in GPUs /\ j # i /\ Prev(j) = i
    BY Neighbours
<1>2. \A k \in GPUs : Next1(k) = j => k = i
    BY <1>1, Neighbours
<1>3. channels[j] = <<>>
    BY <1>1 DEF RingInv, Slots, Send
<1>4. Taken(i) = Taken(j)
    BY <1>1, <1>3, TakenIsInt DEF RingInv, Flow, Send, Sending, Waiting
<1>5. phase[i] = phase[j] /\ step[i] = step[j] /\ phase[i] # "done"
    BY <1>1, <1>4, SameStep DEF RingInv, Send
<1>6. step[i] \in 0 .. N - 2
    BY DEF RingInv, Control
<1>7. SendChunk(i) = RecvChunk(j) /\ SendChunk(i) \in GPUs
    BY <1>5, <1>6, ChunksMeet, Chunks
<1>8. Holders(i, SendChunk(i)) =
          IF phase[j] = "reduce" THEN Within(Prev(j), step[j]) ELSE GPUs
    <2>1. Dist(SendChunk(i), i) = IF phase[i] = "reduce" THEN step[i]
                                  ELSE IF step[i] = 0 THEN N - 1 ELSE step[i] - 1
        BY <1>6, Chunks
    <2> QED
        BY <1>1, <1>5, <1>6, <2>1, WithinGrows, NAssumption DEF Holders,
           RingInv, Control
<1>9. msg = Expected(j)
    <2>1. data[i][SendChunk(i)] = Of(Holders(i, SendChunk(i)), SendChunk(i))
        BY <1>7 DEF RingInv, Contents
    <2> QED
        BY <1>5, <1>7, <1>8, <2>1 DEF Expected
<1>10. channels' = [channels EXCEPT ![j] = <<Expected(j)>>]
    <2>1. channels' = [channels EXCEPT ![j] = Append(@, msg)]
        BY DEF Send
    <2>2. Append(channels[j], msg) = <<msg>>
        BY <1>3
    <2> QED
        BY <1>9, <2>1, <2>2
<1>11. UNCHANGED <<data, phase, step, verdict>> /\ sent' = [sent EXCEPT ![i] = TRUE]
    BY DEF Send
<1>12. \A k \in GPUs : Taken(k)' = Taken(k) /\ Expected(k)' = Expected(k)
    BY <1>11 DEF Taken, Expected, RecvChunk
<1>13. Control'
    BY <1>5, <1>11 DEF RingInv, Control
<1>14. Slots'
    <2>1. \A k \in GPUs : channels'[k] = IF k = j THEN <<Expected(j)>> ELSE channels[k]
        BY <1>10 DEF RingInv, Slots
    <2>2. channels' = [k \in GPUs |-> channels'[k]]
        BY <1>10 DEF RingInv, Slots
    <2> QED
        BY <1>1, <1>5, <1>11, <1>12, <2>1, <2>2 DEF RingInv, Slots
<1>15. Flow'
    <2>1. \A k \in GPUs : Waiting(k)' = IF k = j THEN 1 ELSE Waiting(k)
        BY <1>1, <1>10 DEF RingInv, Slots, Waiting
    <2>2. \A k \in GPUs : Sending(k)' = IF k = i THEN 1 ELSE Sending(k)
        BY <1>11 DEF RingInv, Control, Sending
    <2>3. Waiting(j) = 0 /\ Sending(i) = 0
        BY <1>3 DEF Waiting, Sending, Send
    <2>4. ASSUME NEW k \in GPUs
          PROVE  Taken(k)' + Sending(k)' = Taken(Next1(k))' + Waiting(Next1(k))'
        <3>1. CASE k = i
            BY <1>1, <1>4, <1>12, <2>1, <2>2, <3>1
        <3>2. CASE k # i
            <4>1. Next1(k) \in GPUs /\ Next1(k) # j
                BY <1>2, <3>2, Neighbours
            <4> QED
                BY <1>12, <2>1, <2>2, <3>2, <4>1 DEF RingInv, Flow
        <3> QED
            BY <3>1, <3>2
    <2>5. \A k \in GPUs : Next1(k)' = Next1(k)
        BY DEF Next1
    <2> QED
        BY <2>4 DEF Flow
<1>16. Drift' /\ Contents' /\ Outcome'
    <2>1. \A k, c \in GPUs : Holders(k, c)' = Holders(k, c)
        BY <1>11 DEF Holders
    <2> QED
        BY <1>11, <1>12, <2>1 DEF RingInv, Drift, Contents, Outcome
<1> QED
    BY <1>13, <1>14, <1>15, <1>16 DEF RingInv
\* The end of an iteration: one message more is taken.
LEMMA AdvanceCounts ==
    ASSUME Control, NEW i \in GPUs, phase[i] # "done", Advance(i)
    PROVE  /\ phase' \in [GPUs -> {"reduce", "gather", "done"}]
           /\ step' \in [GPUs -> 0 .. N - 2]
           /\ Taken(i)' = Taken(i) + 1
           /\ \A k \in GPUs \ {i} : /\ phase'[k] = phase[k]
                                    /\ step'[k] = step[k]
                                    /\ Taken(k)' = Taken(k)
<1> USE NAssumption DEF Control, Advance
<1>1. /\ phase' \in [GPUs -> {"reduce", "gather", "done"}]
      /\ step' \in [GPUs -> 0 .. N - 2]
    OBVIOUS
<1>2. \A k \in GPUs \ {i} : phase'[k] = phase[k] /\ step'[k] = step[k]
    OBVIOUS
<1>3. \A k \in GPUs \ {i} : Taken(k)' = Taken(k)
    BY <1>2 DEF Taken
<1>4. Taken(i)' = Taken(i) + 1
    BY DEF Taken
<1> QED
    BY <1>1, <1>2, <1>3, <1>4

\* What an iteration does to the holders: those of the chunk taken are the GPUs
\* upstream, or all; those of the others stay the same.
LEMMA AdvanceHolders ==
    ASSUME Control, NEW i \in GPUs, phase[i] # "done", Advance(i)
    PROVE  /\ \A c \in GPUs : Holders(i, c)' =
                IF c = RecvChunk(i)
                  THEN IF phase[i] = "reduce" THEN Within(i, step[i] + 1) ELSE GPUs
                  ELSE Holders(i, c)
           /\ \A k \in GPUs \ {i}, c \in GPUs : Holders(k, c)' = Holders(k, c)
<1> DEFINE r == RecvChunk(i)
           s == step[i]
<1>1. s \in 0 .. N - 2 /\ phase[i] \in {"reduce", "gather"}
    BY DEF Control
<1>2. r \in GPUs /\ Dist(r, i) = IF phase[i] = "reduce" THEN s + 1 ELSE s
    BY <1>1, Chunks
<1>3. \A c \in GPUs : Dist(c, i) \in 0 .. N - 1 /\ (Dist(c, i) = Dist(r, i) => c = r)
    BY <1>2, Distances
<1>4. Within(i, N - 1) = GPUs
    BY WithinGrows
<1>5. \A k \in GPUs \ {i}, c \in GPUs : Holders(k, c)' = Holders(k, c)
    BY AdvanceCounts DEF Holders
<1>6. IF s + 1 < N - 1
        THEN step'[i] = s + 1 /\ phase'[i] = phase[i]
        ELSE step'[i] = 0 /\ phase'[i] = IF phase[i] = "reduce" THEN "gather" ELSE "done"
    BY DEF Control, Advance
<1>7. ASSUME NEW c \in GPUs
      PROVE  Holders(i, c)' = IF c = r
                 THEN IF phase[i] = "reduce" THEN Within(i, s + 1) ELSE GPUs
                 ELSE Holders(i, c)
    <2>1. CASE phase[i] = "reduce" /\ s + 1 < N - 1
        BY <1>1, <1>2, <1>3, <1>6, <2>1, NAssumption DEF Holders
    <2>2. CASE phase[i] = "reduce" /\ ~(s + 1 < N - 1)
        BY <1>1, <1>2, <1>3, <1>6, <2>2, NAssumption DEF Holders
    <2>3. CASE phase[i] = "gather" /\ s + 1 < N - 1
        BY <1>1, <1>2, <1>3, <1>6, <2>3, NAssumption DEF Holders
    <2>4. CASE phase[i] = "gather" /\ ~(s + 1 < N - 1)
        BY <1>1, <1>2, <1>3, <1>4, <1>6, <2>4, NAssumption DEF Holders
    <2> QED
        BY <1>1, <2>1, <2>2, <2>3, <2>4
<1> QED
    BY <1>5, <1>7

\* The message taken turns the chunk into the sum over its new holders.
LEMMA ReceivedIsSum ==
    ASSUME RingInv, NEW i \in GPUs, phase[i] # "done"
    PROVE  Received(i, Expected(i)) =
             Of(IF phase[i] = "reduce" THEN Within(i, step[i] + 1) ELSE GPUs,
                RecvChunk(i))
<1> DEFINE r == RecvChunk(i)
           s == step[i]
<1>1. s \in 0 .. N - 2
    BY DEF RingInv, Control
<1>2. r \in GPUs /\ Dist(r, i) = IF phase[i] = "reduce" THEN s + 1 ELSE s
    BY <1>1, Chunks
<1>3. CASE phase[i] = "reduce"
    <2>1. Holders(i, r) = {i}
        BY <1>1, <1>2, <1>3 DEF Holders
    <2>2. data[i][r] = Of({i}, r)
        BY <1>2, <2>1 DEF RingInv, Contents
    <2>3. Of({i}, r) (+) Of(Within(Prev(i), s), r) = Of({i} \cup Within(Prev(i), s), r)
        BY <1>1, WithinGrows, OfUnion
    <2>4. {i} \cup Within(Prev(i), s) = Within(i, s + 1)
        BY <1>1, WithinGrows
    <2>5. Received(i, Expected(i)) = data[i][r] (+) Of(Within(Prev(i), s), r)
        BY <1>3 DEF Received, Expected
    <2> QED
        BY <1>3, <2>2, <2>3, <2>4, <2>5
<1>4. CASE phase[i] # "reduce"
    BY <1>4 DEF Received, Expected
<1> QED
    BY <1>3, <1>4

\* What a receive finds and leaves.
LEMMA ReceiveEffect ==
    ASSUME RingInv, NEW i \in GPUs, Receive(i)
    PROVE  /\ phase[i] # "done"
           /\ data' = [data EXCEPT ![i][RecvChunk(i)] =
                 Of(IF phase[i] = "reduce" THEN Within(i, step[i] + 1) ELSE GPUs,
                    RecvChunk(i))]
           /\ channels' = [channels EXCEPT ![i] = <<>>]
<1>1. channels[i] = <<Expected(i)>> /\ phase[i] # "done"
    BY DEF RingInv, Slots, Receive
<1>2. Head(channels[i]) = Expected(i) /\ Tail(channels[i]) = <<>>
    BY <1>1
<1>3. channels' = [channels EXCEPT ![i] = <<>>]
    BY <1>2 DEF Receive
<1>4. data' = [data EXCEPT ![i][RecvChunk(i)] = Received(i, Expected(i))]
    BY <1>2 DEF Receive
<1> QED
    BY <1>1, <1>3, <1>4, ReceivedIsSum

\* A receive empties its channel and keeps every sum what it should be.
LEMMA ReceiveKeeps ==
    ASSUME RingInv, NEW i \in GPUs, Receive(i)
    PROVE  RingInv'
<1> DEFINE p == Prev(i)
           r == RecvChunk(i)
<1>1. p \in GPUs /\ p # i /\ Next1(p) = i /\ Next1(i) \in GPUs /\ Next1(i) # i
    BY Neighbours
<1>2. \A k \in GPUs : Next1(k) = i => k = p
    BY Neighbours
<1>3. phase[i] # "done" /\ channels' = [channels EXCEPT ![i] = <<>>]
    BY ReceiveEffect
<1>4. Control /\ Advance(i) /\ sent' = [sent EXCEPT ![i] = FALSE] /\ verdict' = verdict
    BY DEF RingInv, Receive
<1>5. /\ phase' \in [GPUs -> {"reduce", "gather", "done"}]
      /\ step' \in [GPUs -> 0 .. N - 2]
      /\ Taken(i)' = Taken(i) + 1
      /\ \A k \in GPUs \ {i} : /\ phase'[k] = phase[k]
                               /\ step'[k] = step[k]
                               /\ Taken(k)' = Taken(k)
    BY <1>3, <1>4, AdvanceCounts
<1>6. Control'
    BY <1>4, <1>5 DEF Control
<1>7. Slots'
    <2>1. \A k \in GPUs : channels'[k] = IF k = i THEN <<>> ELSE channels[k]
        BY <1>3 DEF RingInv, Slots
    <2>2. channels' = [k \in GPUs |-> channels'[k]]
        BY <1>3 DEF RingInv, Slots
    <2>3. \A k \in GPUs \ {i} : Expected(k)' = Expected(k)
        BY <1>5 DEF Expected, RecvChunk
    <2> QED
        BY <1>5, <2>1, <2>2, <2>3 DEF RingInv, Slots
<1>8. \A k \in GPUs : Taken(k) \in Int
    BY <1>4, TakenIsInt
<1>9. Sending(i) = 1 /\ Waiting(i) = 1
    BY DEF Receive, Sending, Waiting
<1>10. Flow'
    <2>1. \A k \in GPUs : Waiting(k)' = IF k = i THEN 0 ELSE Waiting(k)
        BY <1>3 DEF RingInv, Slots, Waiting
    <2>2. \A k \in GPUs : Sending(k)' = IF k = i THEN 0 ELSE Sending(k)
        BY <1>4 DEF Control, Sending
    <2>3. \A k \in GPUs : Sending(k) \in Int /\ Waiting(k) \in Int
        BY DEF Sending, Waiting
    <2>4. ASSUME NEW k \in GPUs
          PROVE  Taken(k)' + Sending(k)' = Taken(Next1(k))' + Waiting(Next1(k))'
        <3>1. Next1(k) \in GPUs
            BY Neighbours
        <3>2. Taken(k) + Sending(k) = Taken(Next1(k)) + Waiting(Next1(k))
            BY DEF RingInv, Flow
        <3>3. CASE k = i
            BY <1>1, <1>5, <1>8, <1>9, <2>1, <2>2, <2>3, <3>2, <3>3
        <3>4. CASE k = p
            BY <1>1, <1>5, <1>8, <1>9, <2>1, <2>2, <2>3, <3>2, <3>4
        <3>5. CASE k # i /\ k # p
            <4>1. Next1(k) # i
                BY <1>2, <3>5
            <4> QED
                BY <1>5, <2>1, <2>2, <3>1, <3>2, <3>5, <4>1
        <3> QED
            BY <3>3, <3>4, <3>5
    <2>5. \A k \in GPUs : Next1(k)' = Next1(k)
        BY DEF Next1
    <2> QED
        BY <2>4 DEF Flow
<1>11. Drift'
    <2>1. Taken(i) <= Taken(p)
        <3>1. Taken(p) + Sending(p) = Taken(i) + Waiting(i)
            BY <1>1 DEF RingInv, Flow
        <3> QED
            BY <1>1, <1>8, <1>9, <3>1 DEF Sending
    <2>2. ASSUME NEW a \in GPUs, NEW k \in GPUs
          PROVE  Taken(a)' - Taken(k)' <= Dist(k, a)
        <3>1. Taken(a) - Taken(k) <= Dist(k, a) /\ Taken(p) - Taken(k) <= Dist(k, p)
            BY <1>1 DEF RingInv, Drift
        <3>2. /\ Dist(k, a) \in 0 .. N - 1 /\ Dist(k, p) \in 0 .. N - 1
              /\ k # i => Dist(k, i) = Dist(k, p) + 1
            BY <1>1, Distances
        <3>3. CASE a = i /\ k # i
            BY <1>1, <1>5, <1>8, <2>1, <3>1, <3>2, <3>3
        <3>4. CASE a = i /\ k = i
            BY <1>5, <1>8, <3>2, <3>4, NAssumption
        <3>5. CASE a # i
            BY <1>5, <1>8, <3>1, <3>2, <3>5, NAssumption
        <3> QED
            BY <3>3, <3>4, <3>5
    <2>3. \A a, k \in GPUs : Dist(k, a)' = Dist(k, a)
        BY DEF Dist
    <2> QED
        BY <2>2 DEF Drift
<1>12. Contents'
    <2>1. r \in GPUs
        BY Chunks DEF RingInv, Control
    <2> DEFINE S == IF phase[i] = "reduce" THEN Within(i, step[i] + 1) ELSE GPUs
               new == [k \in GPUs |-> [c \in GPUs |-> Of(Holders(k, c)', c)]]
    <2>2. /\ \A c \in GPUs : Holders(i, c)' = IF c = r THEN S ELSE Holders(i, c)
          /\ \A k \in GPUs \ {i}, c \in GPUs : Holders(k, c)' = Holders(k, c)
        BY <1>3, <1>4, AdvanceHolders
    <2>3. data' = [data EXCEPT ![i][r] = Of(S, r)]
        BY ReceiveEffect
    <2>4. data = [k \in GPUs |-> [c \in GPUs |-> Of(Holders(k, c), c)]]
        BY DEF RingInv, Contents
    <2> HIDE DEF S, r
    <2>5. \A k \in GPUs : data'[k] = new[k]
        <3>1. data'[i] = [c \in GPUs |-> IF c = r THEN Of(S, r) ELSE Of(Holders(i, c), c)]
            BY <2>1, <2>3, <2>4
        <3>2. \A c \in GPUs : (IF c = r THEN Of(S, r) ELSE Of(Holders(i, c), c))
                                  = Of(Holders(i, c)', c)
            BY <2>2
        <3>3. data'[i] = new[i]
            BY <3>1, <3>2
        <3>4. \A k \in GPUs \ {i} : data'[k] = [c \in GPUs |-> Of(Holders(k, c), c)]
            BY <2>3, <2>4
        <3>5. \A k \in GPUs \ {i} : data'[k] = new[k]
            BY <2>2, <3>4
        <3> QED
            BY <3>3, <3>5
    <2>6. data' = new
        <3> HIDE DEF new
        <3>1. data' = [k \in GPUs |-> data'[k]]
            BY <2>3, <2>4
        <3>2. new = [k \in GPUs |-> new[k]]
            BY DEF new
        <3> QED
            BY <2>5, <3>1, <3>2
    <2> QED
        BY <2>6 DEF Contents
<1>13. Outcome'
    <2>1. verdict = "none"
        BY <1>3 DEF RingInv, Outcome
    <2> QED
        BY <1>4, <2>1 DEF Outcome
<1> QED
    BY <1>6, <1>7, <1>10, <1>11, <1>12, <1>13 DEF RingInv
\* A chunk is complete exactly when every GPU's contribution is in it.
LEMMA CompleteMeansAll ==
    ASSUME RingInv, NEW i \in GPUs, NEW c \in GPUs
    PROVE  /\ data[i][c] = Of(Holders(i, c), c)
           /\ data[i][c] = Full(c) <=> Holders(i, c) = GPUs
<1>1. data[i][c] = Of(Holders(i, c), c)
    BY DEF RingInv, Contents
<1>2. Full(c) = Of(GPUs, c)
    BY DEF Full, Of
<1> QED
    BY <1>1, <1>2, OfDiffers

\* A step that only changes the verdict keeps the rest of the invariant.
LEMMA RingUnchanged ==
    ASSUME RingInv, UNCHANGED <<data, channels, phase, step, sent>>, Outcome'
    PROVE  RingInv'
<1>1. Control'
    BY DEF RingInv, Control
<1>2. \A i \in GPUs : Expected(i)' = Expected(i)
    BY DEF Expected, RecvChunk
<1>3. Slots'
    BY <1>2 DEF RingInv, Slots
<1>4. \A i \in GPUs : /\ Taken(i)' = Taken(i)
                      /\ Sending(i)' = Sending(i)
                      /\ Waiting(i)' = Waiting(i)
    BY DEF Taken, Sending, Waiting
<1>5. Flow' /\ Drift'
    BY <1>4, Neighbours DEF RingInv, Flow, Drift
<1>6. \A i, c \in GPUs : Holders(i, c)' = Holders(i, c)
    BY DEF Holders
<1>7. Contents'
    BY <1>6 DEF RingInv, Contents
<1> QED
    BY <1>1, <1>3, <1>5, <1>7 DEF RingInv

\* The verification finds every chunk complete: it fails only for rounded sums.
LEMMA VerifyKeeps ==
    ASSUME RingInv, Verify
    PROVE  RingInv'
<1>1. \A i, c \in GPUs : data[i][c] = Full(c)
    BY CompleteMeansAll DEF Verify, Holders
<1>2. /\ verdict' \in {"success", "failed"}
      /\ N <= MaxExact => verdict' = "success"
      /\ \A i \in GPUs : phase[i] = "done"
    BY <1>1, NAssumption DEF Verify, Verdicts, MaxExact
<1>3. UNCHANGED <<data, channels, phase, step, sent>>
    BY DEF Verify
<1>4. Outcome'
    BY <1>2, <1>3 DEF Outcome
<1> QED
    BY <1>3, <1>4, RingUnchanged

\* Every step keeps the invariant.
LEMMA RingNext == RingInv /\ [Next]_vars => RingInv'
<1> SUFFICES ASSUME RingInv, [Next]_vars PROVE RingInv'
    OBVIOUS
<1>1. ASSUME NEW i \in GPUs, Send(i) PROVE RingInv'
    BY <1>1, SendKeeps
<1>2. ASSUME NEW i \in GPUs, Receive(i) PROVE RingInv'
    BY <1>2, ReceiveKeeps
<1>3. CASE Verify
    BY <1>3, VerifyKeeps
<1>4. CASE UNCHANGED vars
    <2>1. Outcome'
        BY <1>4 DEF vars, RingInv, Outcome
    <2> QED
        BY <1>4, <2>1, RingUnchanged DEF vars
<1> QED
    BY <1>1, <1>2, <1>3, <1>4 DEF Next, Exited

\* The invariant holds in every state the ring reaches.
LEMMA RingInvariance == Spec => []RingInv
<1>1. RingInv /\ [Next]_vars => RingInv'
    BY RingNext
<1> QED
    BY RingInit, <1>1, PTL DEF Spec

-----------------------------------------------------------------------------
(***************************************************************************)
(* What follows, for every number of GPUs.                                 *)
(***************************************************************************)

\* The state keeps its shape; no chunk ever holds a contribution twice, and no
\* channel more than the one message it has room for (main.go:82, main.go:150).
THEOREM RingTypeCorrect == Spec => []TypeOK
<1>1. RingInv => TypeOK
    <2> SUFFICES ASSUME RingInv PROVE TypeOK
        OBVIOUS
    <2>1. ASSUME NEW i \in GPUs, NEW c \in GPUs
          PROVE  /\ DOMAIN data[i][c] \subseteq GPUs \X GPUs
                 /\ \A e \in DOMAIN data[i][c] : data[i][c][e] = 1
        <3>1. Holders(i, c) \subseteq GPUs
            BY DEF Holders, Within
        <3>2. data[i][c] = Of(Holders(i, c), c)
            BY CompleteMeansAll
        <3> QED
            BY <3>1, <3>2 DEF Of, SetToBag
    <2>2. ASSUME NEW i \in GPUs PROVE Len(channels[i]) <= 1
        <3>1. CASE channels[i] = <<>>
            BY <3>1
        <3>2. CASE channels[i] = <<Expected(i)>>
            BY <3>2
        <3> QED
            BY <3>1, <3>2 DEF RingInv, Slots
    <2>3. verdict \in {"none", "success", "failed"}
        BY DEF RingInv, Outcome
    <2> QED
        BY <2>1, <2>2, <2>3 DEF RingInv, Control, TypeOK
<1> QED
    BY RingInvariance, <1>1, PTL

\* A GPU always takes its neighbour's message of its own loop and step, with the
\* chunk it is about to write: the code need not look (main.go:145).
THEOREM StepsNeverMix == Spec => []NeverOutOfStep
<1>1. RingInv => NeverOutOfStep
    BY DEF RingInv, Slots, Expected, NeverOutOfStep
<1> QED
    BY RingInvariance, <1>1, PTL

\* Two GPUs never drift further apart than their distance round the ring, with
\* nothing but the one-slot channels to hold them (main.go:135).
THEOREM DriftIsBounded == Spec => []BoundedDrift
<1>1. RingInv => BoundedDrift
    <2> SUFFICES ASSUME RingInv PROVE BoundedDrift
        OBVIOUS
    <2>1. \A i \in GPUs : Len(channels[i]) = Waiting(i)
        BY SMTT(20) DEF RingInv, Slots, Waiting
    <2>2. \A i \in GPUs : Taken(i) + (IF sent[i] THEN 1 ELSE 0)
                            = Taken(Next1(i)) + Len(channels[Next1(i)])
        BY <2>1, Neighbours DEF RingInv, Flow, Sending
    <2>3. ASSUME NEW i \in GPUs, NEW k \in GPUs
          PROVE  (i - k + N) % N = Dist(k, i)
        <3>1. i \in Int /\ k \in Int /\ 0 <= i /\ i < N /\ 0 <= k /\ k < N
            BY NAssumption DEF GPUs
        <3> DEFINE x == i - k + N
        <3>2. x \in Int /\ 0 <= x /\ x < 3 * N
            BY <3>1, NAssumption
        <3>3. x < 2 * N /\ (x < N <=> ~(k <= i)) /\ x - N = i - k
            BY <3>1, NAssumption
        <3> HIDE DEF x
        <3>4. x % N = IF x < N THEN x ELSE x - N
            BY <3>2, <3>3, Wrap
        <3>5. x = i - k + N
            BY DEF x
        <3> QED
            BY <3>3, <3>4, <3>5 DEF Dist
    <2> QED
        BY <2>2, <2>3 DEF RingInv, Drift, BoundedDrift
<1> QED
    BY RingInvariance, <1>1, PTL

\* The first loop leaves GPU i with the whole sum of chunk i+1 and of no other
\* (main.go:116), and the second loop never takes it away.
THEOREM OneChunkIsOwned == Spec => []OwnsOneChunk
<1>1. RingInv => OwnsOneChunk
    <2> SUFFICES ASSUME RingInv, NEW i \in GPUs
                 PROVE  /\ phase[i] # "reduce" => data[i][Next1(i)] = Full(Next1(i))
                        /\ phase[i] = "gather" /\ step[i] = 0 =>
                             \A c \in GPUs \ {Next1(i)} : data[i][c] # Full(c)
        BY DEF OwnsOneChunk
    <2>1. Next1(i) \in GPUs
        BY Neighbours
    <2>2. ASSUME phase[i] # "reduce"
          PROVE  data[i][Next1(i)] = Full(Next1(i))
        <3>1. Dist(Next1(i), i) = N - 1
            BY <2>1, Distances
        <3>2. Holders(i, Next1(i)) = GPUs
            BY <2>2, <3>1, WithinGrows DEF Holders
        <3> QED
            BY <2>1, <3>2, CompleteMeansAll
    <2>3. ASSUME phase[i] = "gather", step[i] = 0, NEW c \in GPUs \ {Next1(i)}
          PROVE  data[i][c] # Full(c)
        <3>1. Dist(c, i) \in 0 .. N - 2
            BY <2>1, Distances, NAssumption
        <3>2. Holders(i, c) # GPUs
            BY <2>3, <3>1, WithinGrows, NAssumption DEF Holders
        <3> QED
            BY <3>2, CompleteMeansAll
    <2> QED
        BY <2>2, <2>3
<1> QED
    BY RingInvariance, <1>1, PTL

\* For every number of GPUs, main.go:202 finds every channel drained and every chunk
\* made of every GPU's contribution exactly once.  It compares sums of float64 added
\* in different orders, so that it reports no mismatch is claimed only for as many
\* GPUs as leave the sums exact.
THEOREM AllReduceIsCorrect == Spec => []VerifiedCorrect
<1>1. RingInv => VerifiedCorrect
    <2> SUFFICES ASSUME RingInv PROVE VerifiedCorrect
        OBVIOUS
    <2>1. ASSUME verdict # "none", NEW i \in GPUs
          PROVE  channels[i] = <<>> /\ \A c \in GPUs : data[i][c] = Full(c)
        <3>1. \A k \in GPUs : phase[k] = "done"
            BY <2>1 DEF RingInv, Outcome
        <3>2. channels[i] = <<>>
            BY <3>1 DEF RingInv, Slots
        <3>3. \A c \in GPUs : data[i][c] = Full(c)
            BY <3>1, CompleteMeansAll DEF Holders
        <3> QED
            BY <3>2, <3>3
    <2>2. N <= MaxExact => verdict # "failed"
        BY DEF RingInv, Outcome
    <2> QED
        BY <2>1, <2>2 DEF VerifiedCorrect
<1> QED
    BY RingInvariance, <1>1, PTL

\* A complete chunk is never spoilt, although the second loop overwrites chunks
\* with whatever comes round (main.go:190).
THEOREM CompleteChunksAreKept == Spec => CompleteChunksStay
<1>1. RingInv /\ RingInv' /\ [Next]_vars =>
        [\A i, c \in GPUs : data[i][c] = Full(c) => data'[i][c] = Full(c)]_vars
    <2> SUFFICES ASSUME RingInv, RingInv', [Next]_vars,
                        NEW i \in GPUs, NEW c \in GPUs, data[i][c] = Full(c)
                 PROVE  data'[i][c] = Full(c)
        OBVIOUS
    <2>1. ASSUME NEW k \in GPUs, Receive(k)
          PROVE  data'[i][c] = Full(c)
        <3>1. Control /\ phase[k] # "done" /\ Advance(k)
            BY <2>1, ReceiveEffect DEF RingInv, Receive
        <3> DEFINE r == RecvChunk(k)
        <3>2. step[k] \in 0 .. N - 2 /\ r \in GPUs
                /\ Dist(r, k) = IF phase[k] = "reduce" THEN step[k] + 1 ELSE step[k]
            BY <3>1, Chunks DEF Control
        <3>3. data' = [data EXCEPT ![k][r] =
                 Of(IF phase[k] = "reduce" THEN Within(k, step[k] + 1) ELSE GPUs, r)]
            BY <2>1, ReceiveEffect
        <3>4. CASE i = k /\ c = r
            <4>1. Holders(k, r) = GPUs
                BY <3>4, CompleteMeansAll
            <4>2. phase[k] # "reduce"
                <5>1. SUFFICES ASSUME phase[k] = "reduce" PROVE FALSE
                    OBVIOUS
                <5>2. Holders(k, r) = {k}
                    BY <3>2, <5>1 DEF Holders
                <5> QED
                    BY <4>1, <5>2, Neighbours
            <4>3. data'[i][c] = Of(GPUs, c)
                BY <3>2, <3>3, <3>4, <4>2 DEF RingInv, Contents
            <4> QED
                BY <4>3 DEF Full, Of
        <3>5. CASE ~(i = k /\ c = r)
            BY <3>3, <3>5 DEF RingInv, Contents
        <3> QED
            BY <3>4, <3>5
    <2>2. CASE UNCHANGED data
        BY <2>2
    <2> QED
        BY <2>1, <2>2 DEF Next, Send, Verify, Exited, vars
<1> QED
    BY RingInvariance, <1>1, PTL DEF Spec, CompleteChunksStay
=============================================================================
