------------------------------ MODULE SimulatorSums ------------------------------
(***************************************************************************)
(* AllReduce is correct for every number of GPUs, in the ring and in the   *)
(* tree: what every block of every GPU holds while the steps go on.        *)
(*                                                                         *)
(* Base says whose contributions a block holds when a step begins.  Inside *)
(* a step a block holds those and the ones of the messages its GPU has     *)
(* taken: of the GPUs that have sent to it (Arrived) without the senders   *)
(* of the messages that still wait.  A message carries what its sender     *)
(* held when the step began, because a GPU sends before it takes.          *)
(***************************************************************************)
EXTENDS SimulatorProofs
\* How far GPU i is downstream of GPU c in the ring, and the GPU that sends to i.
Dist(c, i) == IF c <= i THEN i - c ELSE i - c + N
Prev(i) == IF i = 0 THEN N - 1 ELSE i - 1

\* i and the d GPUs before it in the ring; i and all GPUs below it in the tree.
Within(i, d) == {g \in GPUs : Dist(g, i) <= d}
Closed(S) == \A j \in GPUs \ {0} : Parent(j) \in S => j \in S
Below(i) == {g \in GPUs : \A S \in SUBSET GPUs : i \in S /\ Closed(S) => g \in S}

\* The GPUs whose contributions block b of GPU i holds when step s begins.
Base(i, b, s) ==
    IF Ring
    THEN IF s < Half
         THEN IF Dist(b, i) <= s THEN Within(i, Dist(b, i)) ELSE {i}
         ELSE IF s - Half <= Dist(b, i) THEN Within(i, Dist(b, i)) ELSE GPUs
    ELSE IF s < Half
         THEN IF MaxDepth - s <= Depth[i] THEN Below(i) ELSE {i}
         ELSE IF Depth[i] <= s - Half THEN GPUs ELSE Below(i)

\* What GPU j sends in step s contains block b; the senders to i of block b.
Carries(j, b, s) == Ring => b = RingBlock(j, s)
Bringing(i, b, s) == {j \in SendersTo(i, s) : Carries(j, b, s)}
-----------------------------------------------------------------------------
(***************************************************************************)
(* The ring.                                                               *)
(***************************************************************************)

\* A step further downstream is a step further from every GPU but oneself.
LEMMA Distances ==
    ASSUME NEW c \in GPUs, NEW i \in GPUs
    PROVE  /\ Prev(i) \in GPUs
           /\ Dist(c, i) \in 0 .. N - 1
           /\ Dist(c, i) = 0 <=> c = i
           /\ c # i => Dist(c, i) = Dist(c, Prev(i)) + 1
           /\ c = i => Dist(c, Prev(i)) = N - 1
           /\ \A d \in GPUs : Dist(c, i) = Dist(d, i) => c = d
  <1>1. N \in Int /\ N >= 1 /\ i \in Int /\ 0 <= i /\ i <= N - 1
        /\ c \in Int /\ 0 <= c /\ c <= N - 1
    BY NAssumption DEF GPUs
  <1> QED
    BY <1>1 DEF Dist, Prev, GPUs

\* The GPUs at a distance of at most d: none but i, one more, all.
LEMMA WithinGrows ==
    ASSUME NEW i \in GPUs
    PROVE  /\ Within(i, 0) = {i}
           /\ Within(i, N - 1) = GPUs
           /\ \A d \in 0 .. N - 2 :
                 /\ Within(i, d + 1) = {i} \cup Within(Prev(i), d)
                 /\ i \notin Within(Prev(i), d)
  <1>1. N \in Nat /\ i \in Int
    BY NAssumption DEF GPUs
  <1>2. Within(i, 0) = {i}
    <2>1. \A g \in GPUs : Dist(g, i) <= 0 <=> g = i
      BY Distances
    <2> QED BY <2>1 DEF Within
  <1>3. Within(i, N - 1) = GPUs
    <2>1. \A g \in GPUs : Dist(g, i) <= N - 1
      BY <1>1, Distances
    <2> QED BY <2>1 DEF Within
  <1>4. ASSUME NEW d \in 0 .. N - 2
        PROVE  /\ Within(i, d + 1) = {i} \cup Within(Prev(i), d)
               /\ i \notin Within(Prev(i), d)
    <2>1. ASSUME NEW g \in GPUs
          PROVE  Dist(g, i) <= d + 1 <=> g = i \/ Dist(g, Prev(i)) <= d
      <3>1. CASE g = i
        <4>1. Dist(g, i) = 0
          BY <3>1, Distances
        <4> QED BY <3>1, <4>1
      <3>2. CASE g # i
        <4>1. Dist(g, i) = Dist(g, Prev(i)) + 1 /\ Dist(g, Prev(i)) \in Int
          BY <3>2, Distances
        <4> QED BY <3>2, <4>1
      <3> QED BY <3>1, <3>2
    <2>2. ~ (Dist(i, Prev(i)) <= d)
      <3>1. Dist(i, Prev(i)) = N - 1
        BY Distances
      <3> QED BY <1>1, <3>1
    <2> QED BY <2>1, <2>2 DEF Within
  <1> QED
    BY <1>2, <1>3, <1>4

\* Where the block that GPU i takes in step s comes from: its distance counts the
\* steps of the half.
LEMMA RingBlocks ==
    ASSUME Ring, NEW i \in GPUs, NEW s \in Nat, s < 2 * Half
    PROVE  /\ Half = N - 1
           /\ SendersTo(i, s) = {Prev(i)}
           /\ RingBlock(Prev(i), s) \in GPUs
           /\ Dist(RingBlock(Prev(i), s), i) = IF s < Half THEN s + 1 ELSE s - Half
  <1>1. /\ N \in Int /\ N >= 1 /\ i \in Int /\ 0 <= i /\ i <= N - 1
        /\ Half = N - 1 /\ s \in Int /\ 0 <= s /\ s < 2 * Half
    BY NAssumption DEF GPUs, Half
  <1>2. SendersTo(i, s) = {Prev(i)}
    <2>1. \A j \in GPUs : PosMod(j + 1) = i <=> j = Prev(i)
      BY NextGPU, NAssumption DEF GPUs, Prev
    <2>2. Prev(i) \in GPUs
      BY Distances
    <2> QED BY <2>1, <2>2, SendersAre DEF SendersTo
  <1> DEFINE p == Prev(i)
  <1>3. p \in Int /\ 0 <= p /\ p <= N - 1
    BY <1>1 DEF Prev
  <1>4. RingBlock(p, s) = IF s < Half THEN IF s + 1 <= i THEN i - s - 1 ELSE i - s - 1 + N
                          ELSE IF s - Half <= i THEN i - (s - Half) ELSE i - (s - Half) + N
    <2>1. CASE s < Half
      <3>1. PosMod(p - s) = IF p - s < 0 THEN p - s + N ELSE p - s
        <4> HIDE DEF p
        <4> QED BY <1>1, <1>3, <2>1, Wrap
      <3> QED BY <1>1, <2>1, <3>1 DEF RingBlock, Prev
    <2>2. CASE s >= Half
      <3> DEFINE t == s - Half
      <3>1. t \in Int /\ 0 <= t /\ t <= N - 2
        BY <1>1, <2>2
      <3>2. RingBlock(p, s) = PosMod(p + 1 - t)
        BY <1>1, <2>2 DEF RingBlock
      <3>3. PosMod(p + 1 - t) = IF p + 1 - t < 0 THEN p + 1 - t + N
                                ELSE IF p + 1 - t < N THEN p + 1 - t ELSE p + 1 - t - N
        <4> HIDE DEF p, t
        <4> QED BY <1>1, <1>3, <3>1, Wrap
      <3>4. PosMod(p + 1 - t) = IF t <= i THEN i - t ELSE i - t + N
        <4> HIDE DEF t
        <4> QED BY <1>1, <3>1, <3>3 DEF Prev
      <3> QED BY <1>1, <2>2, <3>2, <3>4
    <2> QED BY <1>1, <2>1, <2>2
  <1>5. RingBlock(p, s) \in GPUs
    BY <1>1, <1>4 DEF GPUs
  <1>6. Dist(RingBlock(p, s), i) = IF s < Half THEN s + 1 ELSE s - Half
    <2> HIDE DEF p
    <2> QED BY <1>1, <1>4 DEF Dist
  <1> QED
    BY <1>1, <1>2, <1>5, <1>6
-----------------------------------------------------------------------------
(***************************************************************************)
(* The tree.                                                               *)
(***************************************************************************)

\* Below(i) is the least set with i that is closed under children.
LEMMA BelowIsLeast ==
    ASSUME NEW i \in GPUs
    PROVE  /\ i \in Below(i) /\ Below(i) \subseteq GPUs
           /\ Closed(Below(i))
           /\ \A S \in SUBSET GPUs : i \in S /\ Closed(S) => Below(i) \subseteq S
  <1>1. Closed(Below(i))
    <2> SUFFICES ASSUME NEW j \in GPUs \ {0}, Parent(j) \in Below(i),
                        NEW S \in SUBSET GPUs, i \in S, Closed(S)
                 PROVE  j \in S
      BY DEF Closed, Below
    <2>1. Parent(j) \in S
      BY DEF Below
    <2> QED BY <2>1 DEF Closed
  <1>2. i \in Below(i) /\ Below(i) \subseteq GPUs
    BY DEF Below
  <1>3. \A S \in SUBSET GPUs : i \in S /\ Closed(S) => Below(i) \subseteq S
    BY DEF Below
  <1> QED
    BY <1>1, <1>2, <1>3

\* Below i come i itself and what is below its children.
LEMMA BelowIs ==
    ASSUME NEW i \in GPUs
    PROVE  Below(i) = {i} \cup UNION {Below(j) : j \in {k \in GPUs \ {0} : Parent(k) = i}}
  <1> DEFINE K == {k \in GPUs \ {0} : Parent(k) = i}
             S == {i} \cup UNION {Below(j) : j \in K}
  <1>1. S \in SUBSET GPUs /\ i \in S
    BY BelowIsLeast
  <1>2. Closed(S)
    <2> SUFFICES ASSUME NEW j \in GPUs \ {0}, Parent(j) \in S PROVE j \in S
      BY DEF Closed
    <2>1. CASE Parent(j) = i
      <3>1. j \in K /\ j \in Below(j)
        BY <2>1, BelowIsLeast
      <3> QED BY <3>1
    <2>2. ASSUME NEW k \in K, Parent(j) \in Below(k) PROVE j \in S
      <3>1. j \in Below(k)
        BY <2>2, BelowIsLeast DEF Closed
      <3> QED BY <3>1
    <2> QED BY <2>1, <2>2
  <1>3. Below(i) \subseteq S
    <2> HIDE DEF S
    <2> QED BY <1>1, <1>2, BelowIsLeast
  <1>4. ASSUME NEW j \in K PROVE Below(j) \subseteq Below(i)
    <2>1. j \in Below(i) /\ Closed(Below(i)) /\ Below(i) \in SUBSET GPUs
      BY BelowIsLeast DEF Closed
    <2> QED BY <2>1, BelowIsLeast
  <1>5. S \subseteq Below(i)
    BY <1>4, BelowIsLeast
  <1> QED
    BY <1>3, <1>5

\* Who is below d is d or has its parent below d, and has no smaller number than d.
LEMMA BelowHasParent ==
    ASSUME NEW d \in GPUs, NEW g \in Below(d)
    PROVE  /\ g \in GPUs /\ d <= g
           /\ g = d \/ (g # 0 /\ Parent(g) \in Below(d))
  <1>1. g \in GPUs
    BY BelowIsLeast
  <1>2. d <= g
    <2> DEFINE S == {x \in GPUs : d <= x}
    <2>1. S \in SUBSET GPUs /\ d \in S
      BY DEF GPUs
    <2>2. Closed(S)
      BY Parents DEF Closed, GPUs
    <2>3. Below(d) \subseteq S
      <3> HIDE DEF S
      <3> QED BY <2>1, <2>2, BelowIsLeast
    <2> QED BY <2>3
  <1>3. g = d \/ (g # 0 /\ Parent(g) \in Below(d))
    <2> DEFINE S == {x \in GPUs : x = d \/ (x # 0 /\ Parent(x) \in Below(d))}
    <2>1. S \in SUBSET GPUs /\ d \in S
      OBVIOUS
    <2>2. Closed(S)
      <3> SUFFICES ASSUME NEW j \in GPUs \ {0}, Parent(j) \in S PROVE j \in S
        BY DEF Closed
      <3>1. Parent(j) \in Below(d)
        <4>1. CASE Parent(j) = d
          BY <4>1, BelowIsLeast
        <4>2. CASE Parent(j) # d
          <5>1. Parent(j) \in GPUs /\ Parent(j) # 0 /\ Parent(Parent(j)) \in Below(d)
            BY <4>2
          <5> QED BY <5>1, BelowIsLeast DEF Closed
        <4> QED BY <4>1, <4>2
      <3> QED BY <3>1
    <2>3. Below(d) \subseteq S
      <3> HIDE DEF S
      <3> QED BY <2>1, <2>2, BelowIsLeast
    <2> QED BY <2>3
  <1> QED
    BY <1>1, <1>2, <1>3

\* What is below one child of i is not below another, and i is below neither.
LEMMA BelowApart ==
    ASSUME NEW i \in GPUs, NEW j \in GPUs \ {0}, NEW k \in GPUs \ {0},
           Parent(j) = i, Parent(k) = i
    PROVE  /\ i \notin Below(j)
           /\ j # k => Below(j) \cap Below(k) = {}
  <1>1. i < j /\ i < k /\ i \in Int /\ j \in Int /\ k \in Int
    BY Parents DEF GPUs
  <1>2. i \notin Below(j) /\ i \notin Below(k)
    BY <1>1, BelowHasParent
  <1>3. SUFFICES ASSUME j # k, Below(j) \cap Below(k) # {} PROVE FALSE
    BY <1>2
  <1> DEFINE T == Below(j) \cap Below(k)
  <1>4. T \subseteq Nat
    BY BelowIsLeast DEF GPUs
  <1>5. PICK g \in T : \A h \in T : g <= h
    <2> HIDE DEF T
    <2>1. T # {}
      BY <1>3 DEF T
    <2> QED BY <1>4, <2>1, LeastNumber
  <1>6. g \in Below(j) /\ g \in Below(k) /\ g \in GPUs
    BY BelowIsLeast
  <1>7. g # j /\ g # k
    BY <1>2, <1>3, <1>6, BelowHasParent
  <1>8. g # 0 /\ Parent(g) \in Below(j) /\ Parent(g) \in Below(k)
    BY <1>6, <1>7, BelowHasParent
  <1>9. Parent(g) \in GPUs /\ Parent(g) < g
    BY <1>6, <1>8, Parents
  <1> QED
    BY <1>5, <1>6, <1>8, <1>9 DEF GPUs

\* Everybody is below the root.
LEMMA RootIsAbove == Below(0) = GPUs
  <1>1. 0 \in GPUs
    BY NAssumption DEF GPUs
  <1> DEFINE T == GPUs \ Below(0)
  <1>2. SUFFICES ASSUME T # {} PROVE FALSE
    BY <1>1, BelowIsLeast
  <1>3. T \subseteq Nat
    BY DEF GPUs
  <1>4. PICK g \in T : \A h \in T : g <= h
    <2> HIDE DEF T
    <2> QED BY <1>2, <1>3, LeastNumber
  <1>5. g \in GPUs \ {0}
    BY <1>1, BelowIsLeast
  <1>6. Parent(g) \in GPUs /\ Parent(g) < g
    BY <1>5, Parents
  <1>7. Parent(g) \in Below(0)
    BY <1>4, <1>5, <1>6 DEF GPUs
  <1> QED
    BY <1>1, <1>5, <1>7, BelowIsLeast DEF Closed

\* The deepest GPUs have nobody below them.
LEMMA LeavesAreAlone ==
    ASSUME NEW i \in GPUs, Depth[i] >= MaxDepth
    PROVE  Below(i) = {i}
  <1>1. \A k \in GPUs \ {0} : Parent(k) # i
    <2> SUFFICES ASSUME NEW k \in GPUs \ {0}, Parent(k) = i PROVE FALSE
      OBVIOUS
    <2>1. Depth[k] = Depth[i] + 1 /\ Depth[k] <= MaxDepth /\ Depth[i] \in Nat
      BY Depths, MaxDepthType
    <2> QED BY <2>1, MaxDepthType
  <1>2. {k \in GPUs \ {0} : Parent(k) = i} = {}
    BY <1>1
  <1> QED
    BY <1>2, BelowIs
-----------------------------------------------------------------------------
(***************************************************************************)
(* What the blocks hold, step by step.                                     *)
(***************************************************************************)

\* At the start everyone has its own contribution, at the end all of them.
LEMMA FirstAndLast ==
    ASSUME NEW i \in GPUs, NEW b \in GPUs
    PROVE  /\ Base(i, b, 0) = {i}
           /\ \A s \in Nat : s >= 2 * Half => Base(i, b, s) = GPUs
           /\ \A s \in Nat : Base(i, b, s) \subseteq GPUs /\ i \in Base(i, b, s)
  <1>1. N \in Nat /\ N >= 1 /\ Half \in Nat /\ MaxDepth \in Nat /\ Depth[i] \in Nat
        /\ Depth[i] <= MaxDepth
    BY NAssumption, HalfType, MaxDepthType, Depths
  <1>2. Dist(b, i) \in 0 .. N - 1 /\ (Dist(b, i) = 0 => Within(i, Dist(b, i)) = {i})
        /\ (Dist(b, i) = N - 1 => Within(i, Dist(b, i)) = GPUs)
        /\ i \in Within(i, Dist(b, i)) /\ Within(i, Dist(b, i)) \subseteq GPUs
    <2>1. Dist(b, i) \in 0 .. N - 1 /\ Dist(i, i) = 0
      BY Distances
    <2> QED BY <2>1, WithinGrows DEF Within
  <1>3. Below(i) \subseteq GPUs /\ i \in Below(i)
    BY BelowIsLeast
  <1>4. CASE Ring
    <2>1. Half = N - 1
      BY <1>4 DEF Half
    <2>2. Base(i, b, 0) = {i}
      BY <1>1, <1>2, <1>4, <2>1 DEF Base
    <2>3. ASSUME NEW s \in Nat, s >= 2 * Half PROVE Base(i, b, s) = GPUs
      BY <1>1, <1>2, <1>4, <2>1, <2>3 DEF Base
    <2>4. ASSUME NEW s \in Nat PROVE Base(i, b, s) \subseteq GPUs /\ i \in Base(i, b, s)
      BY <1>2, <1>4 DEF Base
    <2> QED BY <2>2, <2>3, <2>4
  <1>5. CASE ~Ring
    <2>1. Half = MaxDepth
      BY <1>5 DEF Half
    <2>2. Base(i, b, 0) = {i}
      <3>1. CASE Half > 0
        <4>1. Depth[i] >= MaxDepth => Below(i) = {i}
          BY LeavesAreAlone
        <4> QED BY <1>1, <1>5, <2>1, <3>1, <4>1 DEF Base
      <3>2. CASE Half = 0
        <4>1. GPUs = {i}
          <5>1. \A k \in GPUs : k = 0
            <6> SUFFICES ASSUME NEW k \in GPUs, k # 0 PROVE FALSE
              OBVIOUS
            <6>1. Depth[k] = Depth[Parent(k)] + 1 /\ Depth[Parent(k)] \in Nat
                  /\ Depth[k] <= MaxDepth
              BY Depths, Parents, MaxDepthType
            <6> QED BY <2>1, <3>2, <6>1
          <5> QED BY <5>1
        <4>2. Base(i, b, 0) = GPUs
          BY <1>1, <1>5, <2>1, <3>2 DEF Base
        <4> QED BY <4>1, <4>2
      <3> QED BY <1>1, <3>1, <3>2
    <2>3. ASSUME NEW s \in Nat, s >= 2 * Half PROVE Base(i, b, s) = GPUs
      BY <1>1, <1>5, <2>1, <2>3 DEF Base
    <2>4. ASSUME NEW s \in Nat PROVE Base(i, b, s) \subseteq GPUs /\ i \in Base(i, b, s)
      BY <1>3, <1>5 DEF Base
    <2> QED BY <2>2, <2>3, <2>4
  <1> QED
    BY <1>4, <1>5

\* Half way, the ring has block (i+1) mod N complete on GPU i, the tree the root.
LEMMA HalfWay ==
    ASSUME NEW i \in GPUs, NEW b \in GPUs,
           IF Ring THEN b = PosMod(i + 1) ELSE i = 0
    PROVE  Base(i, b, Half) = GPUs
  <1>1. CASE Ring
    <2>1. b = IF i = N - 1 THEN 0 ELSE i + 1
      BY <1>1, NextGPU
    <2>2. Dist(b, i) = N - 1 /\ N \in Nat /\ N >= 1
      BY <2>1, NAssumption DEF Dist, GPUs
    <2>3. Half = N - 1
      BY <1>1 DEF Half
    <2> QED BY <1>1, <2>2, <2>3, WithinGrows DEF Base
  <1>2. CASE ~Ring
    <2>1. Depth[0] = 0 /\ Half \in Nat
      BY Depths, HalfType
    <2> QED BY <1>2, <2>1 DEF Base
  <1> QED
    BY <1>1, <1>2

\* What a step does in the ring.
LEMMA RingStep ==
    ASSUME Ring, NEW i \in GPUs, NEW b \in GPUs, NEW s \in Nat, s < 2 * Half,
           NEW B, B = Bringing(i, b, s)
    PROVE  /\ B = {} => Base(i, b, s + 1) = Base(i, b, s)
           /\ B # {} /\ s < Half =>
                 /\ B = {Prev(i)}
                 /\ Base(i, b, s + 1) = Base(i, b, s) \cup Base(Prev(i), b, s)
                 /\ Base(i, b, s) \cap Base(Prev(i), b, s) = {}
           /\ B # {} /\ s >= Half =>
                 /\ B = {Prev(i)}
                 /\ Base(Prev(i), b, s) = GPUs /\ Base(i, b, s + 1) = GPUs
  <1> DEFINE p == Prev(i)
             r == RingBlock(Prev(i), s)
             d == IF s < Half THEN s + 1 ELSE s - Half
  <1>1. Half = N - 1 /\ SendersTo(i, s) = {p} /\ r \in GPUs /\ Dist(r, i) = d
        /\ N \in Int /\ N >= 1
    BY RingBlocks, NAssumption
  <1>2. p \in GPUs /\ Dist(b, i) \in 0 .. N - 1 /\ Dist(b, p) \in 0 .. N - 1
        /\ (Dist(b, i) = 0 <=> b = i)
        /\ (b # i => Dist(b, i) = Dist(b, p) + 1)
        /\ (b = i => Dist(b, p) = N - 1)
        /\ (Dist(b, i) = d => b = r)
    BY <1>1, Distances
  <1>3. B = IF b = r THEN {p} ELSE {}
    BY <1>1 DEF Bringing, Carries
  <1> HIDE DEF p, r
  <1>4. CASE b # r
    <2>1. B = {} /\ Dist(b, i) # d
      BY <1>2, <1>3, <1>4
    <2>2. Base(i, b, s + 1) = Base(i, b, s)
      <3>1. CASE s < Half
        BY <1>1, <1>2, <2>1, <3>1 DEF Base
      <3>2. CASE s >= Half
        BY <1>1, <1>2, <2>1, <3>2 DEF Base
      <3> QED BY <1>1, <3>1, <3>2
    <2> QED BY <2>1, <2>2
  <1>5. CASE b = r /\ s < Half
    <2>1. Dist(b, i) = s + 1 /\ Dist(b, p) = s /\ s \in 0 .. N - 2
      BY <1>1, <1>2, <1>5
    <2>2. Base(i, b, s) = {i} /\ Base(p, b, s) = Within(p, s)
      BY <1>1, <1>5, <2>1 DEF Base
    <2>3. Base(i, b, s + 1) = Within(i, s + 1)
      BY <1>1, <1>5, <2>1 DEF Base
    <2>4. Within(i, s + 1) = {i} \cup Within(p, s) /\ i \notin Within(p, s)
      BY <2>1, WithinGrows DEF p
    <2>5. B = {p}
      BY <1>3, <1>5
    <2>6. ~ (s >= Half)
      BY <1>1, <1>5
    <2> QED BY <1>5, <2>2, <2>3, <2>4, <2>5, <2>6 DEF p
  <1>6. CASE b = r /\ s >= Half
    <2>1. Dist(b, i) = s - Half
      BY <1>1, <1>6
    <2>2. Base(i, b, s + 1) = GPUs
      BY <1>1, <1>6, <2>1 DEF Base
    <2>3. Base(p, b, s) = GPUs
      <3>1. CASE b = i
        <4>1. Dist(b, p) = N - 1 /\ Within(p, N - 1) = GPUs
          BY <1>2, <3>1, WithinGrows
        <4> QED BY <1>1, <1>6, <4>1 DEF Base
      <3>2. CASE b # i
        <4>1. Dist(b, p) = s - Half - 1
          BY <1>1, <1>2, <2>1, <3>2
        <4> QED BY <1>1, <1>6, <4>1 DEF Base
      <3> QED BY <3>1, <3>2
    <2> QED BY <1>1, <1>3, <1>6, <2>2, <2>3 DEF p
  <1> QED
    BY <1>1, <1>4, <1>5, <1>6

\* What a step does in the tree.
LEMMA TreeStep ==
    ASSUME ~Ring, NEW i \in GPUs, NEW b \in GPUs, NEW s \in Nat, s < 2 * Half,
           NEW B, B = Bringing(i, b, s)
    PROVE  /\ B = {} => Base(i, b, s + 1) = Base(i, b, s)
           /\ B # {} /\ s < Half =>
                 /\ B = {k \in GPUs \ {0} : Parent(k) = i}
                 /\ Base(i, b, s) = {i} /\ Base(i, b, s + 1) = Below(i)
                 /\ \A j \in B : Base(j, b, s) = Below(j)
           /\ B # {} /\ s >= Half =>
                 /\ Base(i, b, s + 1) = GPUs
                 /\ \A j \in B : Base(j, b, s) = GPUs
  <1>1. /\ Half = MaxDepth /\ MaxDepth \in Nat /\ Depth[i] \in Nat
        /\ Depth[i] <= MaxDepth
    BY MaxDepthType, Depths DEF Half
  <1>2. B = {j \in GPUs : SendsTo(j, i, s)}
    BY DEF Bringing, SendersTo, Carries
  <1>3. ActiveDepth(s) = IF s < Half THEN MaxDepth - s ELSE s - MaxDepth
    BY <1>1 DEF ActiveDepth
  <1>4. CASE s < Half
    <2>1. B = {j \in GPUs \ {0} : Parent(j) = i /\ Depth[j] = MaxDepth - s}
      BY <1>2, <1>3, <1>4, SendersAre
    <2>2. \A j \in GPUs \ {0} : Parent(j) = i => Depth[j] = Depth[i] + 1
      BY Depths
    <2>3. CASE Depth[i] = MaxDepth - s - 1
      <3>1. B = {k \in GPUs \ {0} : Parent(k) = i}
        BY <1>1, <2>1, <2>2, <2>3
      <3>2. Base(i, b, s) = {i}
        BY <1>1, <1>4, <2>3 DEF Base
      <3>3. Base(i, b, s + 1) = Below(i)
        <4>1. CASE s + 1 < Half
          BY <1>1, <2>3, <4>1 DEF Base
        <4>2. CASE s + 1 = Half
          <5>1. Depth[i] = 0
            BY <1>1, <2>3, <4>2
          <5>2. i = 0
            <6>1. i # 0 => Depth[i] = Depth[Parent(i)] + 1 /\ Depth[Parent(i)] \in Nat
              BY Depths, Parents
            <6> QED BY <5>1, <6>1
          <5> QED BY <1>1, <4>2, <5>1, <5>2, RootIsAbove DEF Base
        <4> QED BY <1>1, <1>4, <4>1, <4>2
      <3>4. \A j \in B : Base(j, b, s) = Below(j)
        BY <1>1, <1>4, <2>1 DEF Base
      <3>5. B = {} => Below(i) = {i}
        BY <3>1, BelowIs
      <3> QED BY <1>1, <1>4, <3>1, <3>2, <3>3, <3>4, <3>5
    <2>4. CASE Depth[i] # MaxDepth - s - 1
      <3>1. B = {}
        BY <1>1, <2>1, <2>2, <2>4
      <3>2. Base(i, b, s + 1) = Base(i, b, s)
        <4>1. CASE s + 1 < Half
          BY <1>1, <1>4, <2>4, <4>1 DEF Base
        <4>2. CASE s + 1 = Half
          <5>1. Depth[i] > 0 /\ MaxDepth - s = 1
            BY <1>1, <2>4, <4>2
          <5> QED BY <1>1, <1>4, <4>2, <5>1 DEF Base
        <4> QED BY <1>1, <1>4, <4>1, <4>2
      <3> QED BY <3>1, <3>2
    <2> QED BY <2>3, <2>4
  <1>5. CASE s >= Half
    <2>1. B = {j \in GPUs : i # 0 /\ Parent(i) = j /\ Depth[j] = s - MaxDepth}
      BY <1>1, <1>2, <1>3, <1>5, SendersAre
    <2>2. \A j \in B : Base(j, b, s) = GPUs
      BY <1>1, <1>5, <2>1 DEF Base
    <2>3. i # 0 => Parent(i) \in GPUs /\ Depth[i] = Depth[Parent(i)] + 1
                   /\ Depth[Parent(i)] \in Nat
      BY Parents, Depths
    <2>4. CASE Depth[i] = s - MaxDepth + 1
      <3>1. i # 0
        BY <1>1, <1>5, <2>4, Depths
      <3>2. Parent(i) \in B
        BY <1>1, <2>1, <2>3, <2>4, <3>1
      <3>3. Base(i, b, s + 1) = GPUs
        BY <1>1, <1>5, <2>4 DEF Base
      <3> QED BY <1>1, <1>5, <2>2, <3>2, <3>3
    <2>5. CASE Depth[i] # s - MaxDepth + 1
      <3>1. B = {}
        BY <1>1, <2>1, <2>3, <2>5
      <3>2. Base(i, b, s + 1) = Base(i, b, s)
        BY <1>1, <1>5, <2>5 DEF Base
      <3> QED BY <3>1, <3>2
    <2> QED BY <2>4, <2>5
  <1> QED
    BY <1>1, <1>4, <1>5

\* What a step does to a block: in the first half it brings contributions the block does
\* not have, of different GPUs from different senders; in the second half all of them.
LEMMA StepBrings ==
    ASSUME NEW i \in GPUs, NEW b \in GPUs, NEW s \in Nat, s < 2 * Half
    PROVE  /\ s < Half =>
                 /\ Base(i, b, s + 1) =
                       Base(i, b, s) \cup UNION {Base(j, b, s) : j \in Bringing(i, b, s)}
                 /\ \A j \in Bringing(i, b, s) : Base(i, b, s) \cap Base(j, b, s) = {}
                 /\ \A j, k \in Bringing(i, b, s) :
                       j # k => Base(j, b, s) \cap Base(k, b, s) = {}
           /\ s >= Half =>
                 /\ \A j \in Bringing(i, b, s) : Base(j, b, s) = GPUs
                 /\ Base(i, b, s + 1) =
                       IF Bringing(i, b, s) = {} THEN Base(i, b, s) ELSE GPUs
  <1> DEFINE B == Bringing(i, b, s)
  <1>1. CASE B = {}
    <2>1. Base(i, b, s + 1) = Base(i, b, s)
      BY <1>1, RingStep, TreeStep
    <2> QED BY <1>1, <2>1
  <1>2. CASE B # {} /\ s < Half
    <2>1. ~ (s >= Half)
      BY <1>2, HalfType
    <2>2. CASE Ring
      <3>1. /\ B = {Prev(i)}
            /\ Base(i, b, s + 1) = Base(i, b, s) \cup Base(Prev(i), b, s)
            /\ Base(i, b, s) \cap Base(Prev(i), b, s) = {}
        BY <1>2, <2>2, RingStep
      <3> HIDE DEF B
      <3>2. UNION {Base(j, b, s) : j \in B} = Base(Prev(i), b, s)
        BY <3>1
      <3> QED BY <2>1, <3>1, <3>2 DEF B
    <2>3. CASE ~Ring
      <3>1. /\ B = {k \in GPUs \ {0} : Parent(k) = i}
            /\ Base(i, b, s) = {i} /\ Base(i, b, s + 1) = Below(i)
            /\ \A j \in B : Base(j, b, s) = Below(j)
        BY <1>2, <2>3, TreeStep
      <3>2. Below(i) = {i} \cup UNION {Below(j) : j \in B}
        <4> HIDE DEF B
        <4> QED BY <3>1, BelowIs
      <3>3. \A j, k \in B : i \notin Below(j) /\ (j # k => Below(j) \cap Below(k) = {})
        <4> HIDE DEF B
        <4> QED BY <3>1, BelowApart
      <3>4. UNION {Base(j, b, s) : j \in B} = UNION {Below(j) : j \in B}
        <4> HIDE DEF B
        <4> QED BY <3>1
      <3> HIDE DEF B
      <3> QED BY <2>1, <3>1, <3>2, <3>3, <3>4 DEF B
    <2> QED BY <2>2, <2>3
  <1>3. CASE B # {} /\ s >= Half
    <2>1. ~ (s < Half)
      BY <1>3, HalfType
    <2>2. Base(i, b, s + 1) = GPUs /\ \A j \in B : Base(j, b, s) = GPUs
      <3>1. CASE Ring
        <4>1. B = {Prev(i)} /\ Base(Prev(i), b, s) = GPUs /\ Base(i, b, s + 1) = GPUs
          BY <1>3, <3>1, RingStep
        <4> HIDE DEF B
        <4> QED BY <4>1
      <3>2. CASE ~Ring
        BY <1>3, <3>2, TreeStep
      <3> QED BY <3>1, <3>2
    <2> QED BY <1>3, <2>1, <2>2
  <1>4. s < Half \/ s >= Half
    BY HalfType
  <1> QED
    BY <1>1, <1>2, <1>3, <1>4
-----------------------------------------------------------------------------
(***************************************************************************)
(* The inductive invariant.                                                *)
(***************************************************************************)

\* One contribution to block b from each GPU of S.
Of(S, b) == SetToBag({<<g, b>> : g \in S})

\* Who waits in the channel of i, whose message i has taken in the running step, and
\* who of them brought something for block b.
Froms(i) == {rx[i][m].from : m \in 1 .. Len(rx[i])}
Merged(i) == IF caller = "advance" THEN SendersTo(i, step) ELSE Arrived(i) \ Froms(i)
Added(i, b) == {j \in Merged(i) : Carries(j, b, step)}

\* The GPUs whose contributions block b of GPU i holds.
Have(i, b) ==
    IF step < Half
    THEN Base(i, b, step) \cup UNION {Base(j, b, step) : j \in Added(i, b)}
    ELSE IF Added(i, b) = {} THEN Base(i, b, step) ELSE GPUs

Contents == \A i, b \in GPUs : buffer[i][b] = Of(Have(i, b), b)

\* A message carries what its sender held when the step began.
Holds(msg) ==
    \A b \in GPUs :
        /\ b \in DOMAIN msg.values <=> Carries(msg.from, b, step)
        /\ b \in DOMAIN msg.values => msg.values[b] = Of(Base(msg.from, b, step), b)
Carried == \A i \in GPUs : \A m \in 1 .. Len(rx[i]) : Holds(rx[i][m])

\* The messages that wait are of different senders.
Distinct ==
    \A i \in GPUs :
        /\ Froms(i) \subseteq Arrived(i)
        /\ \A m, n \in 1 .. Len(rx[i]) : rx[i][m].from = rx[i][n].from => m = n

\* A GPU takes nothing before it has sent everything.
Fresh ==
    caller # "advance" =>
        \A i \in GPUs : Sent(i) # Len(Targets(i, step)) => Merged(i) = {}

SumInv == Contents /\ Carried /\ Distinct /\ Fresh
-----------------------------------------------------------------------------
(***************************************************************************)
(* Sums.                                                                   *)
(***************************************************************************)

\* Contributions of different GPUs to one block are added by putting them together.
LEMMA OfUnion ==
    ASSUME NEW S, NEW T, NEW b, S \cap T = {}
    PROVE  Of(S, b) (+) Of(T, b) = Of(S \cup T, b)
  <1> DEFINE A == {<<g, b>> : g \in S}
             B == {<<g, b>> : g \in T}
             C == {<<g, b>> : g \in S \cup T}
  <1>1. A \cap B = {} /\ C = A \cup B
    OBVIOUS
  <1> HIDE DEF A, B, C
  <1>2. SetToBag(A) (+) SetToBag(B) = SetToBag(A \cup B)
    BY <1>1 DEF (+), SetToBag
  <1> QED
    BY <1>1, <1>2 DEF Of, A, B, C

\* Who has sent is among the senders.
LEMMA ArrivedAreSenders ==
    ASSUME StepInv, NEW i \in GPUs
    PROVE  Arrived(i) \subseteq SendersTo(i, step)
  <1>1. step \in Nat
    BY DEF StepInv, Types
  <1>2. ASSUME NEW j \in GPUs PROVE Sent(j) \in Nat /\ Sent(j) <= Len(Targets(j, step))
                                    /\ Len(Targets(j, step)) \in Nat
    <2>1. worker[j].sent \in Nat /\ Len(Targets(j, step)) \in Nat
      BY <1>1, TargetsShape DEF StepInv, Types
    <2>2. Active(j) => worker[j].sent <= Len(Targets(j, step))
      BY DEF StepInv, Phases
    <2> QED BY <2>1, <2>2 DEF Sent
  <1>3. \A j \in GPUs : \A m \in 1 .. Sent(j) : m \in 1 .. Len(Targets(j, step))
    BY <1>2
  <1> QED
    BY <1>3 DEF Arrived, SendersTo, SendsTo

\* Whose messages a GPU has taken are senders to it.
LEMMA AddedBring ==
    ASSUME StepInv, NEW i \in GPUs, NEW b \in GPUs
    PROVE  Added(i, b) \subseteq Bringing(i, b, step)
  <1>1. Merged(i) \subseteq SendersTo(i, step)
    BY ArrivedAreSenders DEF Merged
  <1> QED
    BY <1>1 DEF Added, Bringing

\* Steps are left while a Step runs.
LEMMA StepsLeft ==
    ASSUME StepInv, caller \notin {"idle", "publish"}
    PROVE  step \in Nat /\ step < 2 * Half
  BY DEF StepInv, Types, Display

\* What the blocks held depends on the topology alone.
LEMMA BaseFixed ==
    ASSUME topology' = topology
    PROVE  \A i, b \in GPUs, s \in Nat :
              /\ Base(i, b, s)' = Base(i, b, s)
              /\ Carries(i, b, s)' = Carries(i, b, s)
  <1>1. Ring' = Ring /\ Half' = Half
    BY TopologyFixed
  <1>2. \A i, b \in GPUs, s \in Nat : Base(i, b, s)' = Base(i, b, s)
    BY <1>1 DEF Base
  <1>3. ASSUME NEW i \in GPUs, NEW b \in GPUs, NEW s \in Nat
        PROVE  Carries(i, b, s)' = Carries(i, b, s)
    <2>1. RingBlock(i, s)' = RingBlock(i, s)
      BY TopologyFixed
    <2> QED BY <1>1, <2>1 DEF Carries
  <1> QED
    BY <1>2, <1>3

\* What a message must carry stays the same while the step does.
LEMMA HoldsFixed ==
    ASSUME topology' = topology, step' = step, step \in Nat, NEW msg, msg.from \in GPUs
    PROVE  Holds(msg)' <=> Holds(msg)
  <1>1. ASSUME NEW b \in GPUs
        PROVE  /\ Base(msg.from, b, step)' = Base(msg.from, b, step)
               /\ Carries(msg.from, b, step)' = Carries(msg.from, b, step)
    BY BaseFixed
  <1> QED
    BY <1>1 DEF Holds

\* What a block holds stays the same while nothing is merged.
LEMMA HaveFixed ==
    ASSUME topology' = topology, step' = step, StepInv, NEW i \in GPUs,
           Merged(i)' = Merged(i)
    PROVE  \A b \in GPUs : Have(i, b)' = Have(i, b) /\ Added(i, b)' = Added(i, b)
  <1> SUFFICES ASSUME NEW b \in GPUs
               PROVE  Have(i, b)' = Have(i, b) /\ Added(i, b)' = Added(i, b)
    OBVIOUS
  <1>1. step \in Nat /\ Half' = Half /\ Merged(i) \subseteq GPUs
    BY TopologyFixed DEF StepInv, Types, Merged, SendersTo, Arrived
  <1>2. \A j \in GPUs : /\ Base(j, b, step)' = Base(j, b, step)
                        /\ Carries(j, b, step)' = Carries(j, b, step)
    BY <1>1, BaseFixed
  <1>3. Added(i, b)' = Added(i, b) /\ Added(i, b) \subseteq GPUs
    BY <1>1, <1>2 DEF Added
  <1>4. UNION {Base(j, b, step)' : j \in Added(i, b)} =
        UNION {Base(j, b, step) : j \in Added(i, b)}
    BY <1>2, <1>3
  <1>5. Have(i, b)' = Have(i, b)
    BY <1>1, <1>2, <1>3, <1>4 DEF Have
  <1> QED
    BY <1>3, <1>5
-----------------------------------------------------------------------------
(***************************************************************************)
(* The steps.                                                              *)
(***************************************************************************)

\* NewSimulator: every GPU has its own contribution.
LEMMA InitSums == Init => SumInv
  <1> SUFFICES ASSUME Init PROVE SumInv
    OBVIOUS
  <1>1. step = 0 /\ caller = "idle" /\ \A i \in GPUs : rx[i] = <<>>
    BY DEF Init
  <1>2. \A i \in GPUs : Sent(i) = 0
    BY DEF Init, Sent, Active, Triggered
  <1>3. \A i \in GPUs : Arrived(i) = {} /\ Froms(i) = {}
    BY <1>1, <1>2 DEF Arrived, Froms
  <1>4. \A i \in GPUs : Merged(i) = {}
    BY <1>1, <1>3 DEF Merged
  <1>5. Contents
    <2> SUFFICES ASSUME NEW i \in GPUs, NEW b \in GPUs PROVE buffer[i][b] = Of(Have(i, b), b)
      BY DEF Contents
    <2>1. Base(i, b, step) = {i}
      BY <1>1, FirstAndLast
    <2>2. Added(i, b) = {}
      BY <1>4 DEF Added
    <2>3. Have(i, b) = {i}
      BY <2>1, <2>2 DEF Have
    <2>4. buffer[i][b] = SetToBag({<<i, b>>})
      BY DEF Init, Seed
    <2>5. {<<g, b>> : g \in {i}} = {<<i, b>>}
      OBVIOUS
    <2> QED BY <2>3, <2>4, <2>5 DEF Of
  <1>6. Carried /\ Distinct
    BY <1>1, <1>3 DEF Carried, Distinct
  <1> QED
    BY <1>4, <1>5, <1>6 DEF SumInv, Fresh

\* A step that moves no message keeps the invariant.
LEMMA QuietKeeps ==
    ASSUME StepInv, SumInv, UNCHANGED <<topology, buffer, rx, step>>,
           caller' = "advance" <=> caller = "advance",
           \A i \in GPUs : Sent(i)' = Sent(i)
    PROVE  SumInv'
  <1>1. step \in Nat /\ topology' = topology /\ step' = step
    BY DEF StepInv, Types
  <1>2. \A i \in GPUs : Arrived(i)' = Arrived(i)
    BY <1>1, ArrivedFixed
  <1>3. \A i \in GPUs : Froms(i)' = Froms(i)
    BY DEF Froms
  <1>4. ASSUME NEW i \in GPUs PROVE SendersTo(i, step)' = SendersTo(i, step)
    <2>1. \A j \in GPUs : SendsTo(j, i, step)' = SendsTo(j, i, step)
      BY <1>1, SendsToFixed
    <2> QED BY <2>1 DEF SendersTo
  <1>5. \A i \in GPUs : Merged(i)' = Merged(i)
    BY <1>2, <1>3, <1>4 DEF Merged
  <1>6. Contents'
    <2>1. \A i, b \in GPUs : Have(i, b)' = Have(i, b)
      BY <1>1, <1>5, HaveFixed
    <2> QED BY <2>1 DEF SumInv, Contents
  <1>7. Carried'
    <2> SUFFICES ASSUME NEW i \in GPUs, NEW m \in 1 .. Len(rx'[i])
                 PROVE  Holds(rx[i][m])'
      BY DEF Carried
    <2> DEFINE Is(x, y) == x = y
    <2>1. PICK msg : Is(msg, rx[i][m]) /\ m \in 1 .. Len(rx[i])
      OBVIOUS
    <2>2. msg = rx[i][m] /\ msg = rx'[i][m] /\ m \in 1 .. Len(rx[i])
      BY <2>1
    <2> HIDE DEF Is
    <2>3. Holds(msg) /\ msg.from \in GPUs
      BY <2>2, MessageType DEF SumInv, Carried, StepInv
    <2>4. Holds(msg)'
      BY <1>1, <2>3, HoldsFixed
    <2> QED BY <2>2, <2>4
  <1>8. Distinct'
    BY <1>2, <1>3 DEF SumInv, Distinct
  <1>9. Fresh'
    <2>1. \A i \in GPUs : Targets(i, step)' = Targets(i, step)
      BY <1>1, TopologyFixed
    <2> QED BY <1>5, <2>1 DEF SumInv, Fresh
  <1> QED
    BY <1>6, <1>7, <1>8, <1>9 DEF SumInv

\* Outside a running Step nothing has been sent.
LEMMA NothingSent ==
    ASSUME NEW i \in GPUs
    PROVE  /\ caller \notin {"trigger", "collect"} => Sent(i) = 0 /\ Arrived(i) = {}
           /\ caller' \notin {"trigger", "collect"} => Sent(i)' = 0 /\ Arrived(i)' = {}
  <1>1. caller \notin {"trigger", "collect"} => \A j \in GPUs : Sent(j) = 0
    BY DEF Sent, Active, Triggered
  <1>2. caller' \notin {"trigger", "collect"} => \A j \in GPUs : Sent(j)' = 0
    BY DEF Sent, Active, Triggered
  <1> QED
    BY <1>1, <1>2 DEF Arrived

\* The caller's steps that move no message.
LEMMA CallerSums ==
    ASSUME StepInv, SumInv,
           CallStep \/ Trigger \/ (Collect /\ caller' = "collect") \/ Publish \/ Stop
    PROVE  SumInv'
  <1>1. CASE CallStep
    <2>1. \A i \in GPUs : Sent(i) = 0
      BY <1>1, NothingSent DEF CallStep
    <2>2. \A i \in GPUs : Sent(i)' = 0
      BY <1>1 DEF CallStep, Sent, Active, Triggered, GPUs
    <2> QED BY <1>1, <2>1, <2>2, QuietKeeps DEF CallStep, channels
  <1>2. CASE Trigger
    <2>1. count \in Nat /\ startChan \in [GPUs -> {<<>>, <<step>>}] /\ count \in GPUs
      BY <1>2, NAssumption DEF StepInv, Types, Trigger, GPUs
    <2>2. ASSUME NEW i \in GPUs PROVE Active(i)' <=> Active(i)
      <3>1. CASE i = count
        BY <1>2, <2>1, <3>1 DEF Trigger, Active, Triggered, GPUs
      <3>2. CASE i # count
        BY <1>2, <2>1, <3>2 DEF Trigger, Active, Triggered, GPUs
      <3> QED BY <3>1, <3>2
    <2>3. \A i \in GPUs : Sent(i)' = Sent(i)
      BY <1>2, <2>2 DEF Trigger, Sent
    <2> QED BY <1>2, <2>3, QuietKeeps DEF Trigger
  <1>3. CASE Collect /\ caller' = "collect"
    <2>1. \A i \in GPUs : Active(i)' <=> Active(i)
      BY <1>3, NAssumption DEF Collect, Active, Triggered, GPUs
    <2>2. \A i \in GPUs : Sent(i)' = Sent(i)
      BY <1>3, <2>1 DEF Collect, Sent
    <2> QED BY <1>3, <2>2, QuietKeeps DEF Collect
  <1>4. CASE Publish
    <2>1. \A i \in GPUs : Sent(i)' = Sent(i)
      BY <1>4, NothingSent DEF Publish
    <2> QED BY <1>4, <2>1, QuietKeeps DEF Publish, channels
  <1>5. CASE Stop
    <2>1. \A i \in GPUs : Sent(i)' = Sent(i)
      BY <1>5, NothingSent DEF Stop
    <2> QED BY <1>5, <2>1, QuietKeeps DEF Stop, channels
  <1> QED
    BY <1>1, <1>2, <1>3, <1>4, <1>5

\* The last token: everybody has taken what was sent, and everything was sent.
LEMMA LastCollectSums ==
    ASSUME StepInv, SumInv, Collect, caller' = "advance"
    PROVE  SumInv'
  <1>1. /\ done > 0 /\ caller \in {"trigger", "collect"} /\ Collected + 1 = N
        /\ UNCHANGED <<topology, buffer, rx, startChan, worker, step>>
    BY DEF Collect, Collected, StepInv, Types
  <1>2. \A i \in GPUs : Reported(i) /\ rx[i] = <<>>
    BY <1>1, LastToken
  <1>3. step \in Nat
    BY DEF StepInv, Types
  <1>4. \A i \in GPUs : Froms(i) = {} /\ Froms(i)' = {}
    BY <1>1, <1>2 DEF Froms
  <1>5. \A j \in GPUs : Sent(j) = Len(Targets(j, step))
    BY <1>2 DEF StepInv, Phases, Reported, Sent
  <1>6. ASSUME NEW i \in GPUs PROVE Merged(i)' = Merged(i)
    <2>1. Arrived(i) = SendersTo(i, step)
      BY <1>5 DEF Arrived, SendersTo, SendsTo
    <2>2. \A j \in GPUs : SendsTo(j, i, step)' = SendsTo(j, i, step)
      BY <1>1, <1>3, SendsToFixed
    <2>3. SendersTo(i, step)' = SendersTo(i, step)
      BY <2>2 DEF SendersTo
    <2> QED BY <1>1, <1>4, <2>1, <2>3 DEF Merged
  <1>7. Contents'
    <2>1. \A i, b \in GPUs : Have(i, b)' = Have(i, b)
      BY <1>1, <1>6, HaveFixed
    <2> QED BY <1>1, <2>1 DEF SumInv, Contents
  <1>8. Carried' /\ Distinct'
    BY <1>1, <1>2, <1>4 DEF Carried, Distinct
  <1>9. Fresh'
    BY DEF Fresh
  <1> QED
    BY <1>7, <1>8, <1>9 DEF SumInv

\* The next step begins where this one has ended.
LEMMA AdvanceSums ==
    ASSUME StepInv, SumInv, Advance
    PROVE  SumInv'
  <1>1. /\ caller = "advance" /\ caller' = "publish" /\ step' = step + 1
        /\ UNCHANGED <<topology, buffer, rx>>
    BY DEF Advance, channels
  <1>2. step \in Nat /\ step < 2 * Half
    BY <1>1, StepsLeft
  <1>3. \A i \in GPUs : rx[i] = <<>> /\ rx'[i] = <<>>
    BY <1>1, Rest
  <1>4. \A i \in GPUs : Merged(i)' = {}
    BY <1>1, NothingSent DEF Merged
  <1>5. Contents'
    <2> SUFFICES ASSUME NEW i \in GPUs, NEW b \in GPUs
                 PROVE  buffer[i][b] = Of(Have(i, b)', b)
      BY <1>1 DEF Contents
    <2> DEFINE Is(x, y) == x = y
    <2>1. PICK s \in Nat : Is(s, step)
      BY <1>2
    <2>2. s = step /\ s + 1 = step' /\ s + 1 \in Nat
      BY <1>1, <2>1
    <2> HIDE DEF Is
    <2>3. Base(i, b, s + 1)' = Base(i, b, s + 1)
      BY <1>1, <2>2, BaseFixed
    <2>4. Have(i, b)' = Base(i, b, s + 1)
      <3>1. Added(i, b)' = {}
        BY <1>4 DEF Added
      <3>2. Base(i, b, step)' = Base(i, b, s + 1)
        BY <2>2, <2>3
      <3> QED BY <3>1, <3>2 DEF Have
    <2>5. Added(i, b) = Bringing(i, b, step)
      BY <1>1 DEF Added, Merged, Bringing
    <2>6. Have(i, b) = Base(i, b, s + 1)
      <3>1. step < Half \/ step >= Half
        BY <1>2, HalfType
      <3>2. CASE step < Half
        BY <1>2, <2>2, <2>5, <3>2, StepBrings DEF Have
      <3>3. CASE step >= Half
        <4>1. ~ (step < Half)
          BY <1>2, <3>3, HalfType
        <4> QED BY <1>2, <2>2, <2>5, <3>3, <4>1, StepBrings DEF Have
      <3> QED BY <3>1, <3>2, <3>3
    <2> QED BY <2>4, <2>6 DEF SumInv, Contents
  <1>6. Carried' /\ Distinct'
    <2>1. \A i \in GPUs : Froms(i)' = {}
      BY <1>3 DEF Froms
    <2> QED BY <1>3, <2>1 DEF Carried, Distinct
  <1>7. Fresh'
    BY <1>4 DEF Fresh
  <1> QED
    BY <1>5, <1>6, <1>7 DEF SumInv

\* The steps of a GPU that move no message.
LEMMA WorkerSums ==
    ASSUME StepInv, SumInv, NEW i \in GPUs, TakeStart(i) \/ Exit(i) \/ Report(i)
    PROVE  SumInv'
  <1>1. caller' = caller /\ count' = count /\ UNCHANGED <<topology, buffer, rx, step>>
    BY DEF TakeStart, Exit, Report, channels
  <1>2. \A j \in GPUs : j # i => worker'[j] = worker[j] /\ startChan'[j] = startChan[j]
    BY DEF TakeStart, Exit, Report, StepInv, Types, channels
  <1>3. \A j \in GPUs : j # i => Sent(j)' = Sent(j)
    BY <1>1, <1>2, Bystander
  <1>4. Sent(i)' = Sent(i)
    <2>1. worker \in [GPUs -> [at : {"wait", "run", "exited"}, step : Nat,
                               sent : Nat, got : Nat]]
          /\ startChan \in [GPUs -> {<<>>, <<step>>}]
      BY DEF StepInv, Types
    <2>2. CASE TakeStart(i)
      <3>1. ~Active(i)
        BY <2>2 DEF TakeStart, Active
      <3>2. worker'[i].sent = 0
        BY <2>1, <2>2 DEF TakeStart
      <3> QED BY <3>1, <3>2 DEF Sent
    <2>3. CASE Exit(i) \/ Report(i)
      <3>1. worker'[i].sent = worker[i].sent /\ startChan' = startChan
        BY <2>1, <2>3 DEF Exit, Report, channels
      <3>2. Active(i)' <=> Active(i)
        BY <1>1, <3>1 DEF Active, Triggered
      <3> QED BY <3>1, <3>2 DEF Sent
    <2> QED BY <2>2, <2>3
  <1> QED
    BY <1>1, <1>3, <1>4, QuietKeeps
\* A GPU that still sends has what it had when the step began.
LEMMA SenderHasBase ==
    ASSUME StepInv, SumInv, NEW i \in GPUs, caller # "advance",
           Sent(i) # Len(Targets(i, step))
    PROVE  /\ Merged(i) = {}
           /\ \A b \in GPUs : buffer[i][b] = Of(Base(i, b, step), b)
  <1>1. Merged(i) = {}
    BY DEF SumInv, Fresh
  <1>2. ASSUME NEW b \in GPUs PROVE Have(i, b) = Base(i, b, step)
    <2>1. Added(i, b) = {}
      BY <1>1 DEF Added
    <2> QED BY <2>1 DEF Have
  <1> QED
    BY <1>1, <1>2 DEF SumInv, Contents

\* So what it sends is that.
LEMMA PayloadHolds ==
    ASSUME StepInv, SumInv, NEW i \in GPUs, caller # "advance",
           Sent(i) # Len(Targets(i, step)),
           NEW msg, msg = [from |-> i, step |-> step, values |-> Payload(i, step)]
    PROVE  Holds(msg)
  <1>1. msg.from = i /\ msg.values = Payload(i, step)
    OBVIOUS
  <1>2. buffer[i] = [b \in GPUs |-> buffer[i][b]] /\ DOMAIN buffer[i] = GPUs /\ step \in Nat
    BY DEF StepInv, Types
  <1>3. \A b \in GPUs : buffer[i][b] = Of(Base(i, b, step), b)
    BY SenderHasBase
  <1>4. ASSUME NEW b \in GPUs
        PROVE  /\ b \in DOMAIN msg.values <=> Carries(i, b, step)
               /\ b \in DOMAIN msg.values => msg.values[b] = Of(Base(i, b, step), b)
    <2>1. CASE Ring
      <3>1. msg.values = [c \in {RingBlock(i, step)} |-> buffer[i][c]]
        BY <1>1, <2>1 DEF Payload
      <3> QED BY <1>3, <2>1, <3>1 DEF Carries
    <2>2. CASE ~Ring
      <3>1. msg.values = buffer[i]
        BY <1>1, <2>2 DEF Payload
      <3> QED BY <1>2, <1>3, <2>2, <3>1 DEF Carries
    <2> QED BY <2>1, <2>2
  <1> QED
    BY <1>1, <1>4 DEF Holds

\* A message more waits, of one more sender: what has been taken stays.
LEMMA SendSums ==
    ASSUME StepInv, SumInv, NEW i \in GPUs, Send(i)
    PROVE  SumInv'
  <1>1. PICK k \in GPUs : \E msg : Sends(i, k, msg)
    BY SendIsOne
  <1>2. PICK msg : Sends(i, k, msg)
    BY <1>1
  <1>3. /\ msg = [from |-> i, step |-> step, values |-> Payload(i, step)]
        /\ rx' = [rx EXCEPT ![k] = Append(@, msg)]
        /\ UNCHANGED <<topology, buffer, startChan, done, step, caller, count,
                       stopped, shown>>
    BY <1>2 DEF Sends
  <1>4. /\ i \notin Arrived(k) /\ Arrived(k)' = Arrived(k) \cup {i}
        /\ \A j \in GPUs : j # k => Arrived(j)' = Arrived(j)
        /\ Sent(i) + 1 \in 1 .. Len(Targets(i, step)) /\ Sent(i)' = Sent(i) + 1
        /\ \A j \in GPUs : j # i => Sent(j)' = Sent(j)
    BY <1>2 DEF Sends
  <1>5. step \in Nat /\ caller \in {"trigger", "collect"} /\ Sent(i) \in Nat
        /\ Len(Targets(i, step)) \in Nat
    BY Running DEF Send
  <1>6. Sent(i) # Len(Targets(i, step))
    BY <1>4, <1>5
  <1>7. msg.from = i /\ Holds(msg)
    BY <1>3, <1>5, <1>6, PayloadHolds
  <1>8. /\ rx[k] \in Seq(Messages) /\ rx'[k] = Append(rx[k], msg)
        /\ \A j \in GPUs : j # k => rx'[j] = rx[j]
    BY <1>3 DEF StepInv, Types
  <1>9. /\ Len(rx[k]) \in Nat /\ Len(rx'[k]) = Len(rx[k]) + 1
        /\ \A m \in 1 .. Len(rx[k]) : rx'[k][m] = rx[k][m]
        /\ rx'[k][Len(rx[k]) + 1] = msg
    BY <1>8
  <1>10. Froms(k)' = Froms(k) \cup {i} /\ \A j \in GPUs : j # k => Froms(j)' = Froms(j)
    <2>1. \A j \in GPUs : j # k => Froms(j)' = Froms(j)
      BY <1>8 DEF Froms
    <2>2. Froms(k)' = {rx'[k][m].from : m \in 1 .. Len(rx[k]) + 1}
      BY <1>9 DEF Froms
    <2>3. 1 .. Len(rx[k]) + 1 = (1 .. Len(rx[k])) \cup {Len(rx[k]) + 1}
      BY <1>9
    <2>4. {rx'[k][m].from : m \in 1 .. Len(rx[k])} = Froms(k)
      BY <1>9 DEF Froms
    <2>5. Froms(k)' = Froms(k) \cup {i}
      BY <1>7, <1>9, <2>2, <2>3, <2>4
    <2> QED BY <2>1, <2>5
  <1>11. \A j \in GPUs : Froms(j) \subseteq Arrived(j)
    BY DEF SumInv, Distinct
  <1>12. ASSUME NEW j \in GPUs PROVE Merged(j)' = Merged(j)
    <2>1. Merged(j) = Arrived(j) \ Froms(j) /\ Merged(j)' = Arrived(j)' \ Froms(j)'
      BY <1>3, <1>5 DEF Merged
    <2>2. CASE j # k
      BY <1>4, <1>10, <2>1, <2>2
    <2>3. CASE j = k
      BY <1>4, <1>10, <1>11, <2>1, <2>3
    <2> QED BY <2>2, <2>3
  <1>13. Contents'
    <2>1. \A j, b \in GPUs : Have(j, b)' = Have(j, b)
      BY <1>3, <1>12, HaveFixed
    <2> QED BY <1>3, <2>1 DEF SumInv, Contents
  <1>14. Carried'
    <2> DEFINE Good(x) == x.from \in GPUs /\ Holds(x)
    <2>1. \A j \in GPUs : \A m \in 1 .. Len(rx[j]) : Good(rx[j][m])
      BY MessageType DEF SumInv, Carried, StepInv
    <2>2. Good(msg)
      BY <1>7
    <2>3. ASSUME NEW j \in GPUs, NEW m \in 1 .. Len(rx'[j]) PROVE Good(rx'[j][m])
      <3> HIDE DEF Good
      <3>1. CASE j # k
        BY <1>8, <2>1, <3>1
      <3>2. CASE j = k
        <4>1. m \in 1 .. Len(rx[k]) \/ m = Len(rx[k]) + 1
          BY <1>9, <3>2
        <4> QED BY <1>9, <2>1, <2>2, <3>2, <4>1
      <3> QED BY <3>1, <3>2
    <2> SUFFICES ASSUME NEW j \in GPUs, NEW m \in 1 .. Len(rx'[j])
                 PROVE  Holds(rx[j][m])'
      BY DEF Carried
    <2> DEFINE Is(x, y) == x = y
    <2>4. PICK x : Is(x, rx'[j][m])
      OBVIOUS
    <2>5. x = rx'[j][m]
      BY <2>4
    <2> HIDE DEF Is
    <2>6. x.from \in GPUs /\ Holds(x)
      BY <2>3, <2>5
    <2>7. Holds(x)'
      BY <1>3, <1>5, <2>6, HoldsFixed
    <2> QED BY <2>5, <2>7
  <1>15. Distinct'
    <2>1. ASSUME NEW j \in GPUs PROVE Froms(j)' \subseteq Arrived(j)'
      BY <1>4, <1>10, <1>11
    <2>2. ASSUME NEW j \in GPUs, NEW m \in 1 .. Len(rx'[j]), NEW n \in 1 .. Len(rx'[j]),
                 rx'[j][m].from = rx'[j][n].from
          PROVE  m = n
      <3>1. CASE j # k
        BY <1>8, <2>2, <3>1 DEF SumInv, Distinct
      <3>2. CASE j = k
        <4>1. /\ m \in 1 .. Len(rx[k]) \/ m = Len(rx[k]) + 1
              /\ n \in 1 .. Len(rx[k]) \/ n = Len(rx[k]) + 1
          BY <1>9, <3>2
        <4>2. \A q \in 1 .. Len(rx[k]) : rx[k][q].from # i
          BY <1>4, <1>11 DEF Froms
        <4>3. \A p, q \in 1 .. Len(rx[k]) : rx[k][p].from = rx[k][q].from => p = q
          BY DEF SumInv, Distinct
        <4> QED BY <1>7, <1>9, <2>2, <3>2, <4>1, <4>2, <4>3
      <3> QED BY <3>1, <3>2
    <2> QED BY <2>1, <2>2 DEF Distinct
  <1>16. Fresh'
    <2>1. \A j \in GPUs : Targets(j, step)' = Targets(j, step)
      BY <1>3, <1>5, TopologyFixed
    <2>2. Merged(i)' = {}
      BY <1>5, <1>6, <1>12, SenderHasBase
    <2>3. ASSUME NEW j \in GPUs, Sent(j)' # Len(Targets(j, step)') PROVE Merged(j)' = {}
      <3>1. CASE j = i
        BY <2>2, <3>1
      <3>2. CASE j # i
        BY <1>4, <1>5, <1>12, <2>1, <2>3, <3>2, SenderHasBase
      <3> QED BY <3>1, <3>2
    <2> QED BY <2>3 DEF Fresh
  <1> QED
    BY <1>13, <1>14, <1>15, <1>16 DEF SumInv
\* What taking a message of sender j does to one block.
LEMMA TakenHolds ==
    ASSUME StepInv, SumInv, NEW i \in GPUs, NEW b \in GPUs, NEW j \in GPUs,
           caller \in {"trigger", "collect"}, worker[i].step = step,
           j \in Arrived(i), j \notin Merged(i),
           NEW msg, msg.from = j, Holds(msg),
           NEW H, H = IF ~Carries(j, b, step) THEN Have(i, b)
                      ELSE IF step < Half THEN Have(i, b) \cup Base(j, b, step) ELSE GPUs
    PROVE  Taken(i, msg)[b] = Of(H, b)
  <1>1. /\ b \in DOMAIN msg.values <=> Carries(j, b, step)
        /\ b \in DOMAIN msg.values => msg.values[b] = Of(Base(j, b, step), b)
    BY DEF Holds
  <1>2. buffer[i][b] = Of(Have(i, b), b)
    BY DEF SumInv, Contents
  <1>3. Taken(i, msg)[b] = IF b \notin DOMAIN msg.values THEN buffer[i][b]
                           ELSE IF worker[i].step < Half
                                THEN buffer[i][b] (+) msg.values[b]
                                ELSE msg.values[b]
    BY DEF Taken
  <1>4. step \in Nat /\ step < 2 * Half /\ Half \in Nat
    BY StepsLeft, HalfType
  <1>5. CASE ~Carries(j, b, step)
    BY <1>1, <1>2, <1>3, <1>5
  <1>6. Carries(j, b, step) => j \in Bringing(i, b, step) /\ j \notin Added(i, b)
    BY ArrivedAreSenders DEF Bringing, Added
  <1>7. CASE Carries(j, b, step) /\ step < Half
    <2>1. Have(i, b) = Base(i, b, step) \cup UNION {Base(k, b, step) : k \in Added(i, b)}
      BY <1>7 DEF Have
    <2>2. Base(i, b, step) \cap Base(j, b, step) = {}
      BY <1>4, <1>6, <1>7, StepBrings
    <2>3. \A k \in Added(i, b) : k \in Bringing(i, b, step) /\ k # j
      BY <1>6, <1>7, AddedBring
    <2>4. \A k \in Added(i, b) : Base(k, b, step) \cap Base(j, b, step) = {}
      BY <1>4, <1>6, <1>7, <2>3, StepBrings
    <2>5. Have(i, b) \cap Base(j, b, step) = {}
      BY <2>1, <2>2, <2>4
    <2>6. Of(Have(i, b), b) (+) Of(Base(j, b, step), b) = Of(Have(i, b) \cup Base(j, b, step), b)
      BY <2>5, OfUnion
    <2>7. Taken(i, msg)[b] = buffer[i][b] (+) msg.values[b]
      BY <1>1, <1>3, <1>7
    <2> QED BY <1>1, <1>2, <1>7, <2>6, <2>7
  <1>8. CASE Carries(j, b, step) /\ ~ (step < Half)
    <2>1. step >= Half
      BY <1>4, <1>8
    <2>2. Base(j, b, step) = GPUs
      BY <1>4, <1>6, <1>8, <2>1, StepBrings
    <2> QED BY <1>1, <1>3, <1>8, <2>2
  <1> QED
    BY <1>5, <1>7, <1>8

\* A message is taken: its sender is one more whose contributions are merged.
LEMMA ReceiveSums ==
    ASSUME StepInv, SumInv, NEW i \in GPUs, Receive(i)
    PROVE  SumInv'
  <1>1. /\ Active(i) /\ worker[i].step = step /\ step \in Nat
        /\ caller \in {"trigger", "collect"} /\ Sent(i) = worker[i].sent
        /\ worker[i].sent \in Nat /\ worker[i].sent <= Len(Targets(i, step))
        /\ Len(Targets(i, step)) \in Nat
    BY Running DEF Receive
  <1>2. /\ rx[i] # <<>>
        /\ buffer' = [buffer EXCEPT ![i] = Taken(i, Head(rx[i]))]
        /\ rx' = [rx EXCEPT ![i] = Tail(@)]
        /\ worker' = [worker EXCEPT ![i].got = @ + 1]
        /\ UNCHANGED <<topology, startChan, done, step, caller, count, stopped, shown>>
    BY DEF Receive
  <1>3. Sent(i) = Len(Targets(i, step))
    BY <1>1 DEF Receive, SendsLeft
  <1>4. \A p \in GPUs : Sent(p)' = Sent(p)
    <2>1. \A p \in GPUs : worker'[p].sent = worker[p].sent
      BY <1>2 DEF StepInv, Types
    <2>2. \A p \in GPUs : Active(p)' <=> Active(p)
      BY <1>2 DEF Active, Triggered
    <2> QED BY <2>1, <2>2 DEF Sent
  <1>5. \A p \in GPUs : Arrived(p)' = Arrived(p)
    BY <1>1, <1>2, <1>4, ArrivedFixed
  <1>6. rx[i] \in Seq(Messages) /\ Len(rx[i]) \in Nat /\ Len(rx[i]) >= 1
    BY <1>2 DEF StepInv, Types
  <1> DEFINE Is(x, y) == x = y
  <1>7. PICK msg : Is(msg, rx[i][1])
    OBVIOUS
  <1>8. msg = rx[i][1] /\ msg = Head(rx[i]) /\ 1 \in 1 .. Len(rx[i])
    BY <1>6, <1>7
  <1>9. PICK j \in GPUs : j = msg.from
    BY <1>8, MessageType DEF StepInv
  <1> HIDE DEF Is
  <1>10. /\ rx'[i] = Tail(rx[i]) /\ Len(rx'[i]) = Len(rx[i]) - 1
         /\ \A m \in 1 .. Len(rx'[i]) : rx'[i][m] = rx[i][m + 1]
         /\ \A p \in GPUs : p # i => rx'[p] = rx[p]
    <2>1. rx'[i] = Tail(rx[i]) /\ \A p \in GPUs : p # i => rx'[p] = rx[p]
      BY <1>2 DEF StepInv, Types
    <2>2. /\ Len(Tail(rx[i])) = Len(rx[i]) - 1
          /\ \A m \in 1 .. Len(rx[i]) - 1 : Tail(rx[i])[m] = rx[i][m + 1]
      BY <1>2, <1>6
    <2> QED BY <2>1, <2>2
  <1>11. /\ \A p \in GPUs : Froms(p) \subseteq Arrived(p)
         /\ \A p \in GPUs : \A m, n \in 1 .. Len(rx[p]) :
               rx[p][m].from = rx[p][n].from => m = n
    BY DEF SumInv, Distinct
  <1>12. j \in Froms(i) /\ j \in Arrived(i)
    BY <1>8, <1>9, <1>11 DEF Froms
  <1>13. /\ Froms(i)' = Froms(i) \ {j}
         /\ \A p \in GPUs : p # i => Froms(p)' = Froms(p)
    <2>1. \A p \in GPUs : p # i => Froms(p)' = Froms(p)
      BY <1>10 DEF Froms
    <2>2. ASSUME NEW g \in Froms(i)' PROVE g \in Froms(i) /\ g # j
      <3>1. PICK m \in 1 .. Len(rx'[i]) : g = rx'[i][m].from
        BY DEF Froms
      <3>2. m + 1 \in 1 .. Len(rx[i]) /\ g = rx[i][m + 1].from /\ m + 1 # 1
        BY <1>6, <1>10, <3>1
      <3> QED BY <1>8, <1>9, <1>11, <3>2 DEF Froms
    <2>3. ASSUME NEW g \in Froms(i), g # j PROVE g \in Froms(i)'
      <3>1. PICK m \in 1 .. Len(rx[i]) : g = rx[i][m].from
        BY DEF Froms
      <3>2. m # 1
        BY <1>8, <1>9, <2>3, <3>1
      <3>3. m - 1 \in 1 .. Len(rx'[i]) /\ rx'[i][m - 1] = rx[i][m]
        BY <1>6, <1>10, <3>1, <3>2
      <3>4. g = rx'[i][m - 1].from
        BY <3>1, <3>3
      <3> QED BY <3>3, <3>4 DEF Froms
    <2> QED BY <2>1, <2>2, <2>3
  <1>14. /\ Merged(i)' = Merged(i) \cup {j} /\ j \notin Merged(i)
         /\ \A p \in GPUs : p # i => Merged(p)' = Merged(p)
    <2>1. \A p \in GPUs : /\ Merged(p) = Arrived(p) \ Froms(p)
                          /\ Merged(p)' = Arrived(p)' \ Froms(p)'
      BY <1>1, <1>2 DEF Merged
    <2>2. \A p \in GPUs : p # i => Merged(p)' = Merged(p)
      BY <1>5, <1>13, <2>1
    <2>3. /\ Merged(i) = Arrived(i) \ Froms(i)
          /\ Merged(i)' = Arrived(i) \ (Froms(i) \ {j})
      BY <1>5, <1>13, <2>1
    <2>4. Merged(i)' = Merged(i) \cup {j} /\ j \notin Merged(i)
      BY <1>12, <2>3
    <2> QED BY <2>2, <2>4
  <1>15. Holds(msg)
    BY <1>8 DEF SumInv, Carried
  <1>16. ASSUME NEW b \in GPUs
         PROVE  Have(i, b)' = IF ~Carries(j, b, step) THEN Have(i, b)
                              ELSE IF step < Half THEN Have(i, b) \cup Base(j, b, step)
                              ELSE GPUs
    <2>1. \A k \in GPUs : Base(k, b, step)' = Base(k, b, step)
                          /\ Carries(k, b, step)' = Carries(k, b, step)
      BY <1>1, <1>2, BaseFixed
    <2>2. Half' = Half /\ step' = step
      BY <1>2, TopologyFixed
    <2>3. Merged(i) \subseteq GPUs /\ Added(i, b) \subseteq GPUs
      BY <1>1 DEF Merged, Added, Arrived
    <2>4. Added(i, b)' = IF Carries(j, b, step) THEN Added(i, b) \cup {j} ELSE Added(i, b)
      BY <1>14, <2>1, <2>3 DEF Added
    <2> DEFINE A == Added(i, b)
    <2>5. A \subseteq GPUs
      BY <2>3
    <2>6. CASE ~Carries(j, b, step)
      <3>1. Added(i, b)' = A
        BY <2>4, <2>6
      <3>2. UNION {Base(k, b, step)' : k \in A} = UNION {Base(k, b, step) : k \in A}
        BY <2>1, <2>5
      <3> QED BY <2>1, <2>2, <2>6, <3>1, <3>2 DEF Have
    <2>7. CASE Carries(j, b, step)
      <3>1. Added(i, b)' = A \cup {j}
        BY <2>4, <2>7
      <3>2. UNION {Base(k, b, step)' : k \in A \cup {j}} =
            (UNION {Base(k, b, step) : k \in A}) \cup Base(j, b, step)
        <4> HIDE DEF A
        <4> QED BY <2>1, <2>5
      <3>3. Have(i, b)' = IF step < Half
                          THEN Base(i, b, step)
                               \cup UNION {Base(k, b, step)' : k \in A \cup {j}}
                          ELSE IF A \cup {j} = {} THEN Base(i, b, step) ELSE GPUs
        BY <2>1, <2>2, <3>1 DEF Have
      <3>4. step < Half => Have(i, b) = Base(i, b, step) \cup UNION {Base(k, b, step) : k \in A}
        BY DEF Have
      <3>5. A \cup {j} # {}
        OBVIOUS
      <3> HIDE DEF A
      <3> QED BY <2>7, <3>2, <3>3, <3>4, <3>5
    <2> QED BY <2>6, <2>7
  <1>17. Contents'
    <2>1. ASSUME NEW p \in GPUs, NEW b \in GPUs PROVE buffer'[p][b] = Of(Have(p, b)', b)
      <3>1. CASE p = i
        <4>1. buffer'[i] = Taken(i, msg)
          BY <1>2, <1>8 DEF StepInv, Types
        <4>2. Taken(i, msg)[b] = Of(Have(i, b)', b)
          BY <1>1, <1>9, <1>12, <1>14, <1>15, <1>16, TakenHolds
        <4> QED BY <3>1, <4>1, <4>2
      <3>2. CASE p # i
        <4>1. buffer'[p] = buffer[p]
          BY <1>2, <3>2 DEF StepInv, Types
        <4>2. Have(p, b)' = Have(p, b)
          BY <1>2, <1>14, <3>2, HaveFixed
        <4> QED BY <4>1, <4>2 DEF SumInv, Contents
      <3> QED BY <3>1, <3>2
    <2> QED BY <2>1 DEF Contents
  <1>18. ASSUME NEW p \in GPUs, NEW n \in 1 .. Len(rx'[p])
         PROVE  \E m \in 1 .. Len(rx[p]) :
                   rx'[p][n] = rx[p][m] /\ m = IF p = i THEN n + 1 ELSE n
    <2>1. CASE p = i
      <3>1. n \in 1 .. Len(rx'[i])
        BY <2>1
      <3>2. Len(rx'[i]) = Len(rx[i]) - 1 /\ rx'[i][n] = rx[i][n + 1]
        BY <1>10, <3>1
      <3>3. n + 1 \in 1 .. Len(rx[i])
        BY <1>6, <3>1, <3>2
      <3> QED BY <2>1, <3>2, <3>3
    <2>2. CASE p # i
      BY <1>10, <2>2
    <2> QED BY <2>1, <2>2
  <1>19. Carried'
    <2> SUFFICES ASSUME NEW p \in GPUs, NEW n \in 1 .. Len(rx'[p])
                 PROVE  Holds(rx[p][n])'
      BY DEF Carried
    <2>1. PICK m \in 1 .. Len(rx[p]) : rx'[p][n] = rx[p][m]
      BY <1>18
    <2>2. PICK x : Is(x, rx[p][m])
      BY DEF Is
    <2>3. x = rx[p][m] /\ x = rx'[p][n]
      BY <2>1, <2>2 DEF Is
    <2>4. x.from \in GPUs /\ Holds(x)
      BY <2>3, MessageType DEF SumInv, Carried, StepInv
    <2>5. Holds(x)'
      BY <1>1, <1>2, <2>4, HoldsFixed
    <2> QED BY <2>3, <2>5
  <1>20. Distinct'
    <2>1. \A p \in GPUs : Froms(p)' \subseteq Arrived(p)'
      BY <1>5, <1>11, <1>13
    <2>2. ASSUME NEW p \in GPUs, NEW m \in 1 .. Len(rx'[p]), NEW n \in 1 .. Len(rx'[p]),
                 rx'[p][m].from = rx'[p][n].from
          PROVE  m = n
      <3>1. PICK u \in 1 .. Len(rx[p]) :
               rx'[p][m] = rx[p][u] /\ u = IF p = i THEN m + 1 ELSE m
        BY <1>18
      <3>2. PICK v \in 1 .. Len(rx[p]) :
               rx'[p][n] = rx[p][v] /\ v = IF p = i THEN n + 1 ELSE n
        BY <1>18
      <3>3. u = v
        BY <1>11, <2>2, <3>1, <3>2
      <3> QED BY <3>1, <3>2, <3>3
    <2> QED BY <2>1, <2>2 DEF Distinct
  <1>21. Fresh'
    <2>1. \A p \in GPUs : Targets(p, step)' = Targets(p, step)
      BY <1>1, <1>2, TopologyFixed
    <2>2. ASSUME NEW p \in GPUs, Sent(p)' # Len(Targets(p, step)') PROVE Merged(p)' = {}
      <3>1. Sent(p) # Len(Targets(p, step))
        BY <1>4, <2>1, <2>2
      <3>2. p # i
        BY <1>3, <3>1
      <3> QED BY <1>1, <1>14, <3>1, <3>2, SenderHasBase
    <2> QED BY <2>2 DEF Fresh
  <1> QED
    BY <1>17, <1>19, <1>20, <1>21 DEF SumInv
\* Every step keeps the sums.
LEMMA SumsKeep == StepInv /\ SumInv /\ [Next]_vars => SumInv'
  <1> SUFFICES ASSUME StepInv, SumInv, [Next]_vars PROVE SumInv'
    OBVIOUS
  <1>1. CASE CallStep \/ Trigger \/ Publish \/ Stop
    BY <1>1, CallerSums
  <1>2. CASE Collect
    <2>1. caller' \in {"collect", "advance"}
      BY <1>2 DEF Collect
    <2> QED BY <1>2, <2>1, CallerSums, LastCollectSums
  <1>3. CASE Advance
    BY <1>3, AdvanceSums
  <1>4. ASSUME NEW i \in GPUs, Worker(i) PROVE SumInv'
    BY <1>4, WorkerSums, SendSums, ReceiveSums DEF Worker
  <1>5. CASE Over \/ UNCHANGED vars
    <2>1. /\ UNCHANGED <<topology, buffer, rx, step>> /\ caller' = caller
          /\ UNCHANGED <<startChan, worker, count>>
      BY <1>5 DEF Over, vars, channels
    <2>2. \A i \in GPUs : Sent(i)' = Sent(i)
      BY <2>1, Bystander
    <2> QED BY <2>1, <2>2, QuietKeeps
  <1> QED
    BY <1>1, <1>2, <1>3, <1>4, <1>5 DEF Next, InStep

-----------------------------------------------------------------------------
(***************************************************************************)
(* The step numbers and the display.                                       *)
(***************************************************************************)

\* No step number is beyond the last step; the display is a step behind only
\* between state.Step++ and updateState.
Sizes ==
    /\ step <= 2 * Half
    /\ shown.step = IF caller = "publish" THEN step - 1 ELSE step
    /\ \A i \in GPUs : /\ worker[i].step <= 2 * Half
                       /\ worker[i].sent <= 2 /\ worker[i].got <= 2

\* A finished display shows complete sums.
Complete(d) == d.finished => \A i, b \in GPUs : d.gpus[i].buffer[b] = Full(b)

ShowInv == Sizes /\ Complete(shown)

\* What updateState publishes once no step is left is complete.
LEMMA SnapshotComplete ==
    ASSUME StepInv, SumInv, caller \in {"idle", "publish"}
    PROVE  Complete(Announcement(step))
  <1> SUFFICES ASSUME Announcement(step).finished, NEW i \in GPUs, NEW b \in GPUs
               PROVE  Announcement(step).gpus[i].buffer[b] = Full(b)
    BY DEF Complete
  <1>1. Announcement(step).finished = (FALSE \/ step >= 2 * Half)
    BY DEF Announcement, Snapshot
  <1>2. step >= 2 * Half /\ step \in Nat
    BY <1>1 DEF StepInv, Types
  <1>3. Announcement(step).gpus[i].buffer = buffer[i]
    BY DEF Announcement, Snapshot
  <1>4. Have(i, b) = Base(i, b, step)
    <2>1. Merged(i) = {}
      BY NothingSent DEF Merged
    <2>2. Added(i, b) = {}
      BY <2>1 DEF Added
    <2> QED BY <2>2 DEF Have
  <1>5. Base(i, b, step) = GPUs
    BY <1>2, FirstAndLast
  <1>6. buffer[i][b] = Of(GPUs, b)
    BY <1>4, <1>5 DEF SumInv, Contents
  <1> QED
    BY <1>3, <1>6 DEF Of, Full

\* The first display is of the initial buffers: complete when there is one GPU.
LEMMA InitShown == Init => ShowInv
  <1> SUFFICES ASSUME Init PROVE ShowInv
    OBVIOUS
  <1>1. SumInv /\ StepInv
    BY InitSums, InitHolds
  <1>2. step = 0 /\ caller = "idle" /\ shown = Announcement(step)
    BY DEF Init, Announcement
  <1>3. Sizes
    <2>1. shown.step = step
      BY <1>1, <1>2, AnnouncementAnnounces DEF StepInv, Types
    <2>2. 0 <= 2 * Half
      BY HalfType
    <2>3. ASSUME NEW i \in GPUs
          PROVE  worker[i].step = 0 /\ worker[i].sent = 0 /\ worker[i].got = 0
      BY DEF Init
    <2> QED BY <1>2, <2>1, <2>2, <2>3 DEF Sizes
  <1>4. Complete(shown)
    BY <1>1, <1>2, SnapshotComplete
  <1> QED
    BY <1>3, <1>4 DEF ShowInv

\* No step changes the topology.
LEMMA TopologyStays == [Next]_vars => topology' = topology
  BY DEF Next, vars, CallStep, InStep, Trigger, Collect, Advance, Publish, Stop, Worker,
         TakeStart, Exit, Send, Receive, Report, Over

\* What the goroutines' own step numbers and counts stay within.
LEMMA WorkerSizes ==
    ASSUME StepInv, Sizes, NEW i \in GPUs, Worker(i), topology' = topology
    PROVE  Sizes'
  <1>1. /\ step' = step /\ caller' = caller /\ shown' = shown /\ Half' = Half
        /\ Half \in Nat /\ step \in Nat /\ step <= 2 * Half
    BY TopologyFixed, HalfType
       DEF Worker, TakeStart, Exit, Send, Receive, Report, StepInv, Types, Sizes
  <1>2. worker \in [GPUs -> [at : {"wait", "run", "exited"}, step : Nat,
                             sent : Nat, got : Nat]]
    BY DEF StepInv, Types
  <1>3. \A j \in GPUs : j # i => worker'[j] = worker[j]
    BY <1>2 DEF Worker, TakeStart, Exit, Send, Receive, Report
  <1>4. worker[i].step <= 2 * Half /\ worker[i].sent <= 2 /\ worker[i].got <= 2
    BY DEF Sizes
  <1>5. worker'[i].step <= 2 * Half /\ worker'[i].sent <= 2 /\ worker'[i].got <= 2
    <2>1. CASE TakeStart(i)
      <3>1. Head(startChan[i]) = step
        BY <2>1 DEF TakeStart, StepInv, Types
      <3>2. worker'[i] = [at |-> "run", step |-> step, sent |-> 0, got |-> 0]
        BY <1>2, <2>1, <3>1 DEF TakeStart
      <3> QED BY <1>1, <3>2
    <2>2. CASE Exit(i) \/ Report(i)
      <3>1. /\ worker'[i].step = worker[i].step /\ worker'[i].sent = worker[i].sent
            /\ worker'[i].got = worker[i].got
        BY <1>2, <2>2 DEF Exit, Report
      <3> QED BY <1>4, <3>1
    <2>3. CASE Send(i)
      <3>1. worker[i].sent < Len(Targets(i, worker[i].step)) /\ worker[i].sent \in Nat
            /\ worker[i].step \in Nat
        BY <1>2, <2>3 DEF Send, SendsLeft
      <3>2. PICK n \in 0 .. 2 : worker[i].sent < n
        BY <3>1, TargetsShape
      <3>3. /\ worker'[i].step = worker[i].step /\ worker'[i].sent = worker[i].sent + 1
            /\ worker'[i].got = worker[i].got
        BY <1>2, <2>3 DEF Send
      <3>4. worker[i].sent + 1 <= 2
        BY <3>1, <3>2
      <3> QED BY <1>4, <3>3, <3>4
    <2>4. CASE Receive(i)
      <3>1. worker[i].got < Expected(i, worker[i].step) /\ worker[i].got \in Nat
            /\ worker[i].step \in Nat
        BY <1>2, <2>4 DEF Receive
      <3>2. Expected(i, worker[i].step) \in 0 .. 2
        BY <3>1, ExpectedIsSent
      <3>3. /\ worker'[i].step = worker[i].step /\ worker'[i].sent = worker[i].sent
            /\ worker'[i].got = worker[i].got + 1
        BY <1>2, <2>4 DEF Receive
      <3>4. worker[i].got + 1 <= 2
        BY <3>1, <3>2
      <3> QED BY <1>4, <3>3, <3>4
    <2> QED BY <2>1, <2>2, <2>3, <2>4 DEF Worker
  <1> QED
    BY <1>1, <1>3, <1>5 DEF Sizes

\* The display is published complete, and the step numbers stay within the steps.
LEMMA ShownKeeps == StepInv /\ SumInv /\ ShowInv /\ [Next]_vars => ShowInv'
  <1> SUFFICES ASSUME StepInv, SumInv, ShowInv, [Next]_vars PROVE ShowInv'
    OBVIOUS
  <1>1. /\ topology' = topology /\ Half' = Half /\ Half \in Nat /\ step \in Nat
        /\ step <= 2 * Half
    BY TopologyStays, TopologyFixed, HalfType DEF StepInv, Types, ShowInv, Sizes
  <1>2. CASE /\ UNCHANGED <<step, worker, shown>>
             /\ (caller' = "publish" <=> caller = "publish")
    BY <1>1, <1>2 DEF ShowInv, Sizes, Complete
  <1>3. CASE Advance
    <2>1. step < 2 * Half /\ shown.step = step
      BY <1>3, StepsLeft DEF Advance, ShowInv, Sizes
    <2>2. step' = step + 1 /\ caller' = "publish" /\ shown' = shown /\ worker' = worker
      BY <1>3 DEF Advance
    <2>3. Sizes'
      BY <1>1, <2>1, <2>2 DEF ShowInv, Sizes
    <2> QED BY <2>2, <2>3 DEF ShowInv, Complete
  <1>4. CASE Publish
    <2>1. ~shown.finished /\ shown.finished \in BOOLEAN /\ caller = "publish"
      BY <1>4 DEF Publish, StepInv, Display
    <2>2. shown.finished = FALSE
      BY <2>1, Zenon
    <2>3. shown' = Snapshot(step, shown.finished) /\ caller' = "idle"
          /\ step' = step /\ worker' = worker
      BY <1>4 DEF Publish
    <2>4. shown' = Announcement(step)
      BY <2>2, <2>3, Zenon DEF Announcement
    <2>5. Complete(Announcement(step)) /\ Announcement(step).step = step
      BY <1>1, <2>1, SnapshotComplete, AnnouncementAnnounces
    <2>6. Complete(shown)'
      BY <2>4, <2>5 DEF Complete
    <2>7. Sizes'
      <3>1. shown'.step = step
        BY <2>4, <2>5
      <3> QED BY <1>1, <2>3, <3>1 DEF ShowInv, Sizes
    <2> QED BY <2>6, <2>7 DEF ShowInv
  <1>5. ASSUME NEW i \in GPUs, Worker(i) PROVE ShowInv'
    <2>1. shown' = shown
      BY <1>5 DEF Worker, TakeStart, Exit, Send, Receive, Report
    <2>2. Sizes'
      BY <1>1, <1>5, WorkerSizes DEF ShowInv
    <2> QED BY <2>1, <2>2 DEF ShowInv, Complete
  <1>6. CASE CallStep \/ Trigger \/ Collect \/ Stop
    BY <1>2, <1>6 DEF CallStep, Trigger, Collect, Stop, channels
  <1>7. CASE Over \/ UNCHANGED vars
    BY <1>2, <1>7 DEF Over, vars
  <1> QED
    BY <1>3, <1>4, <1>5, <1>6, <1>7 DEF Next, InStep

-----------------------------------------------------------------------------
(***************************************************************************)
(* The properties.                                                         *)
(***************************************************************************)

\* The invariant of the whole simulation.
LEMMA SimulatorInvHolds == Spec => [](StepInv /\ SumInv /\ ShowInv)
  <1>1. Init => StepInv /\ SumInv /\ ShowInv
    BY InitHolds, InitSums, InitShown
  <1>2. (StepInv /\ SumInv /\ ShowInv) /\ [Next]_vars => (StepInv /\ SumInv /\ ShowInv)'
    BY StepKeeps, SumsKeep, ShownKeeps
  <1> QED
    BY <1>1, <1>2, PTL DEF Spec

\* Every count is within its bound, and no contribution is in a block twice.
LEMMA TypeFollows == StepInv /\ SumInv /\ ShowInv => TypeOK
  <1> SUFFICES ASSUME StepInv, SumInv, ShowInv PROVE TypeOK
    OBVIOUS
  <1>1. /\ step \in Nat /\ step <= 2 * Half /\ Half \in Nat
        /\ shown.step = IF caller = "publish" THEN step - 1 ELSE step
    BY HalfType DEF StepInv, Types, ShowInv, Sizes
  <1>2. worker \in [GPUs -> [at : {"wait", "run", "exited"}, step : 0 .. 2 * Half,
                             sent : 0 .. 2, got : 0 .. 2]]
    <2>1. worker \in [GPUs -> [at : {"wait", "run", "exited"}, step : Nat,
                               sent : Nat, got : Nat]]
      BY DEF StepInv, Types
    <2>2. ASSUME NEW i \in GPUs
          PROVE  worker[i] \in [at : {"wait", "run", "exited"}, step : 0 .. 2 * Half,
                                sent : 0 .. 2, got : 0 .. 2]
      <3>1. worker[i] \in [at : {"wait", "run", "exited"}, step : Nat,
                           sent : Nat, got : Nat]
        BY <2>1
      <3>2. worker[i].step <= 2 * Half /\ worker[i].sent <= 2 /\ worker[i].got <= 2
        BY DEF ShowInv, Sizes
      <3> QED BY <1>1, <3>1, <3>2
    <2> QED BY <2>1, <2>2
  <1>3. done \in 0 .. N
    <2> DEFINE R == {i \in GPUs : Reported(i)}
    <2>1. IsFiniteSet(GPUs) /\ Cardinality(GPUs) = N
      BY FS_Interval, NAssumption DEF GPUs
    <2>2. Cardinality(R) <= N
      <3>1. R \in SUBSET GPUs
        OBVIOUS
      <3> HIDE DEF R
      <3> QED BY <2>1, <3>1, FS_Subset
    <2>3. done \in Nat /\ Collected \in Nat /\ done + Collected = Cardinality(R)
      BY DEF StepInv, Types, Tokens, Collected
    <2> HIDE DEF R
    <2> QED BY <2>2, <2>3, NAssumption
  <1>4. \A i \in GPUs : Len(startChan[i]) <= 1
    <2> SUFFICES ASSUME NEW i \in GPUs PROVE Len(startChan[i]) <= 1
      OBVIOUS
    <2>1. startChan[i] = <<>> \/ startChan[i] = <<step>>
      BY DEF StepInv, Types
    <2>2. CASE startChan[i] = <<>>
      BY <2>2
    <2>3. CASE startChan[i] = <<step>>
      <3>1. Len(startChan[i]) = 1
        BY <2>3
      <3> QED BY <3>1
    <2> QED BY <2>1, <2>2, <2>3
  <1>5. \A i, b \in GPUs : \A e \in DOMAIN buffer[i][b] : buffer[i][b][e] = 1
    <2> SUFFICES ASSUME NEW i \in GPUs, NEW b \in GPUs, NEW e \in DOMAIN buffer[i][b]
                 PROVE  buffer[i][b][e] = 1
      OBVIOUS
    <2> DEFINE S == {<<g, b>> : g \in Have(i, b)}
    <2>1. buffer[i][b] = SetToBag(S)
      BY DEF SumInv, Contents, Of
    <2> HIDE DEF S
    <2>2. buffer[i][b] = [x \in S |-> 1]
      BY <2>1 DEF SetToBag
    <2> QED BY <2>2
  <1>6. /\ caller \in {"idle", "trigger", "collect", "advance", "publish"}
        /\ count \in 0 .. N /\ stopped \in BOOLEAN
    BY DEF StepInv, Types
  <1> QED
    BY <1>1, <1>2, <1>3, <1>4, <1>5, <1>6 DEF TypeOK

\* Half way, the blocks that the second half starts from are complete.
LEMMA HalfWayFollows == StepInv /\ SumInv => ReducedHalfWay
  <1> SUFFICES ASSUME StepInv, SumInv, caller = "idle", step = Half
               PROVE  IF Ring THEN \A i \in GPUs : buffer[i][PosMod(i + 1)] = Full(PosMod(i + 1))
                      ELSE \A b \in GPUs : buffer[0][b] = Full(b)
    BY DEF ReducedHalfWay
  <1>1. ASSUME NEW i \in GPUs, NEW b \in GPUs,
               IF Ring THEN b = PosMod(i + 1) ELSE i = 0
        PROVE  buffer[i][b] = Full(b)
    <2>1. Merged(i) = {}
      BY NothingSent DEF Merged
    <2>2. Added(i, b) = {}
      BY <2>1 DEF Added
    <2>3. Have(i, b) = Base(i, b, Half)
      BY <2>2 DEF Have
    <2>4. Base(i, b, Half) = GPUs
      BY <1>1, HalfWay
    <2> QED BY <2>3, <2>4 DEF SumInv, Contents, Of, Full
  <1>2. CASE Ring
    <2>1. \A i \in GPUs : PosMod(i + 1) \in GPUs
      BY NextGPU, NAssumption DEF GPUs
    <2> QED BY <1>1, <1>2, <2>1
  <1>3. CASE ~Ring
    <2>1. 0 \in GPUs
      BY NAssumption DEF GPUs
    <2> QED BY <1>1, <1>3, <2>1
  <1> QED
    BY <1>2, <1>3

\* A finished display was published complete.
LEMMA FinishedFollows == ShowInv => FinishedMeansReduced
  BY DEF ShowInv, Complete, FinishedMeansReduced

\* For every number of GPUs and either topology, every step number, count and token of the
\* simulator is within its bound, and no contribution is summed twice into a block.
THEOREM SimulatorTypeCorrect == Spec => []TypeOK
  BY SimulatorInvHolds, TypeFollows, PTL

\* For every number of GPUs, the first half of the steps leaves the complete sums where
\* the second half of runRingStep and runTreeStep starts from.
THEOREM HalfWayReduced == Spec => []ReducedHalfWay
  BY SimulatorInvHolds, HalfWayFollows, PTL

\* AllReduce is correct for every number of GPUs, in the ring and in the tree and in every
\* order of the goroutines: the display that updateState marks as finished has the
\* complete sum of every block on every GPU.
THEOREM FinishedIsReduced == Spec => []FinishedMeansReduced
  BY SimulatorInvHolds, FinishedFollows, PTL
=============================================================================
