---------------------------- MODULE SimulatorTopology ----------------------------
(***************************************************************************)
(* The ring and the tree of Simulator for every number of GPUs: the tables *)
(* of who sends and who waits, written from runRingStep and runTreeStep,   *)
(* fit together.                                                           *)
(*                                                                         *)
(* Depth is recursive, so it is first shown to have a value, and then that *)
(* its value is a solution.  Both go by the least GPU that would be an     *)
(* exception.                                                              *)
(***************************************************************************)
EXTENDS Simulator, FiniteSetTheorems, TLAPS

\* Every nonempty set of natural numbers has a least element, what the proofs
\* below use in place of induction.
LEMMA LeastNumber ==
    ASSUME NEW T, T \subseteq Nat, T # {}
    PROVE  \E x \in T : \A y \in T : x <= y
  <1>1. PICK t \in T : TRUE
    OBVIOUS
  <1> DEFINE Low == {x \in T : x <= t}
             R == StrictSubsetOrdering(0 .. t)
             Q == {0 .. x : x \in Low}
  <1>2. IsFiniteSet(0 .. t)
    BY <1>1, FS_Interval
  <1>3. IsWellFoundedOn(R, SUBSET (0 .. t))
    BY <1>2, FS_FiniteSubsetsOfFinite, FS_StrictSubsetOrderingWellFounded
  <1>4. Q \subseteq SUBSET (0 .. t) /\ Q # {}
    BY <1>1
  <1>5. PICK q \in Q : \A p \in Q : ~ (<<p, q>> \in R)
    <2> HIDE DEF Q, R
    <2> QED BY <1>3, <1>4, WFMin
  <1>6. PICK x \in Low : q = 0 .. x
    BY <1>5
  <1>7. ASSUME NEW y \in Low PROVE x <= y
    <2>1. ~ (<<0 .. y, 0 .. x>> \in R)
      BY <1>5, <1>6
    <2>2. ~ (0 .. y \subseteq 0 .. x /\ 0 .. y # 0 .. x)
      BY <2>1, <1>1 DEF StrictSubsetOrdering
    <2> QED BY <2>2
  <1> QED
    BY <1>1, <1>6, <1>7

\* A parent has a smaller number than its children.
LEMMA Parents ==
    ASSUME NEW i \in GPUs, i # 0
    PROVE  Parent(i) \in GPUs /\ Parent(i) < i
  BY NAssumption DEF Parent, GPUs

\* f solves the equation of Depth for the GPUs up to n.
Solves(f, n) ==
    /\ f \in [0 .. n -> Nat]
    /\ \A i \in 0 .. n : f[i] = IF i = 0 THEN 0 ELSE f[Parent(i)] + 1

\* A solution is put together GPU by GPU.
LEMMA DepthExists == \E f : Solves(f, N - 1)
  <1> DEFINE Bad == {n \in GPUs : ~ \E f : Solves(f, n)}
  <1>1. N - 1 \in GPUs
    BY NAssumption DEF GPUs
  <1>2. SUFFICES ASSUME Bad # {} PROVE FALSE
    BY <1>1
  <1>3. Bad \subseteq Nat
    BY DEF GPUs
  <1>4. PICK n \in Bad : \A m \in Bad : n <= m
    <2> HIDE DEF Bad
    <2> QED BY <1>2, <1>3, LeastNumber
  <1>5. n # 0
    <2>1. Solves([i \in 0 .. 0 |-> 0], 0)
      BY DEF Solves
    <2> QED BY <2>1
  <1>6. n \in GPUs /\ n - 1 \in GPUs /\ n - 1 \notin Bad
    <2>1. n \in GPUs
      OBVIOUS
    <2> HIDE DEF Bad
    <2> QED BY <1>4, <1>5, <2>1, NAssumption DEF GPUs
  <1>7. PICK f : Solves(f, n - 1)
    BY <1>6
  <1> DEFINE g == [i \in 0 .. n |-> IF i = n THEN f[Parent(n)] + 1 ELSE f[i]]
  <1>8. Parent(n) \in 0 .. n - 1
    BY <1>5, <1>6, Parents DEF GPUs
  <1>9. \A i \in 0 .. n : i # 0 => Parent(i) \in 0 .. i - 1
    BY <1>6, Parents, NAssumption DEF GPUs
  <1>10. Solves(g, n)
    <2>1. g \in [0 .. n -> Nat]
      BY <1>6, <1>7, <1>8 DEF Solves, GPUs
    <2>2. ASSUME NEW i \in 0 .. n
          PROVE  g[i] = IF i = 0 THEN 0 ELSE g[Parent(i)] + 1
      <3>1. CASE i = n
        <4>1. Parent(i) \in 0 .. n /\ Parent(i) # n
          BY <1>6, <1>8, <3>1 DEF GPUs
        <4> QED BY <1>5, <3>1, <4>1
      <3>2. CASE i # n
        <4>1. i \in 0 .. n - 1 /\ n \in Nat
          BY <1>6, <3>2 DEF GPUs
        <4>2. f[i] = IF i = 0 THEN 0 ELSE f[Parent(i)] + 1
          BY <1>7, <4>1 DEF Solves
        <4>3. i # 0 => Parent(i) \in 0 .. n /\ Parent(i) # n
          BY <1>9, <4>1
        <4> QED BY <3>2, <4>2, <4>3
      <3> QED BY <3>1, <3>2
    <2> HIDE DEF g
    <2> QED BY <2>1, <2>2 DEF Solves
  <1> QED
    BY <1>4, <1>10

\* So Depth, which stands for one, is one.
LEMMA DepthEquation ==
    Depth = [i \in GPUs |-> IF i = 0 THEN 0 ELSE Depth[Parent(i)] + 1]
  <1>1. PICK f : Solves(f, N - 1)
    BY DepthExists
  <1>2. f = [i \in GPUs |-> IF i = 0 THEN 0 ELSE f[Parent(i)] + 1]
    BY <1>1, NAssumption DEF Solves, GPUs
  <1> DEFINE P(d) == d = [i \in GPUs |-> IF i = 0 THEN 0 ELSE d[Parent(i)] + 1]
  <1>3. \E d : P(d)
    BY <1>2
  <1>4. Depth = CHOOSE d : P(d)
    BY DEF Depth
  <1>5. P(Depth)
    <2> HIDE DEF P
    <2> QED BY <1>3, <1>4
  <1> QED BY <1>5

\* The depth of a GPU is one more than that of its parent.
LEMMA Depths ==
    /\ Depth \in [GPUs -> Nat]
    /\ Depth[0] = 0
    /\ \A i \in GPUs \ {0} : Depth[i] = Depth[Parent(i)] + 1
    /\ \A i \in GPUs : Depth[i] <= i
  <1> DEFINE Bad == {n \in GPUs : ~ (Depth[n] \in 0 .. n)}
  <1>1. Bad = {}
    <2>1. SUFFICES ASSUME Bad # {} PROVE FALSE
      OBVIOUS
    <2>2. Bad \subseteq Nat
      BY DEF GPUs
    <2>3. PICK n \in Bad : \A m \in Bad : n <= m
      <3> HIDE DEF Bad
      <3> QED BY <2>1, <2>2, LeastNumber
    <2>4. n \in GPUs /\ n # 0
      BY <2>3, DepthEquation DEF GPUs
    <2>5. Parent(n) \in GPUs /\ Parent(n) < n /\ Depth[Parent(n)] \in 0 .. Parent(n)
      BY <2>3, <2>4, Parents DEF GPUs
    <2>6. Depth[n] = Depth[Parent(n)] + 1
      BY <2>4, DepthEquation
    <2> QED BY <2>3, <2>4, <2>5, <2>6 DEF GPUs
  <1>2. \A i \in GPUs : Depth[i] \in 0 .. i
    BY <1>1
  <1>3. 0 \in GPUs
    BY NAssumption DEF GPUs
  <1>4. Depth \in [GPUs -> Nat]
    BY <1>2, DepthEquation DEF GPUs
  <1>5. Depth[0] = 0 /\ \A i \in GPUs \ {0} : Depth[i] = Depth[Parent(i)] + 1
    BY <1>3, DepthEquation
  <1>6. \A i \in GPUs : Depth[i] <= i
    BY <1>2 DEF GPUs
  <1> QED
    BY <1>4, <1>5, <1>6

\* The depths have a maximum.
LEMMA MaxDepthType == MaxDepth \in Nat /\ \A i \in GPUs : Depth[i] <= MaxDepth
  <1> DEFINE S == {Depth[i] : i \in GPUs}
             U == {u \in Nat : \A y \in S : y <= u}
  <1>1. S \subseteq Nat /\ S # {}
    BY Depths, NAssumption DEF GPUs
  <1>2. N - 1 \in U
    BY Depths, NAssumption DEF GPUs
  <1>3. PICK u \in U : \A v \in U : u <= v
    <2>1. U \subseteq Nat /\ U # {}
      BY <1>2
    <2> HIDE DEF U
    <2> QED BY <2>1, LeastNumber
  <1>4. u \in S
    <2> SUFFICES ASSUME u \notin S PROVE FALSE
      OBVIOUS
    <2>1. \A y \in S : y <= u - 1
      <3> HIDE DEF S
      <3> QED BY <1>1, <1>3
    <2>2. u - 1 \in U
      <3>1. PICK y \in S : y <= u - 1 /\ y \in Nat
        <4> HIDE DEF S
        <4> QED BY <1>1, <2>1
      <3> HIDE DEF S
      <3>2. u - 1 \in Nat
        BY <1>3, <3>1
      <3> QED BY <2>1, <3>2
    <2> QED BY <1>3, <2>2
  <1>5. \E x \in S : \A y \in S : x >= y
    BY <1>1, <1>3, <1>4
  <1>6. Max(S) \in S /\ \A y \in S : Max(S) >= y
    <2> HIDE DEF S
    <2> QED BY <1>5 DEF Max
  <1>7. MaxDepth \in S /\ \A i \in GPUs : MaxDepth >= Depth[i]
    BY <1>6 DEF MaxDepth
  <1> QED
    BY <1>1, <1>7, Depths

-----------------------------------------------------------------------------
\* The ring successor.
LEMMA NextGPU ==
    ASSUME NEW i \in GPUs
    PROVE  PosMod(i + 1) = IF i = N - 1 THEN 0 ELSE i + 1
  <1>1. N \in Nat /\ N >= 1 /\ i \in Int /\ 0 <= i /\ i <= N - 1
    BY NAssumption DEF GPUs
  <1>2. CASE i = N - 1
    <2>1. N % N = 0
      BY <1>1, Z3
    <2> QED BY <1>1, <1>2, <2>1 DEF PosMod
  <1>3. CASE i # N - 1
    <2>1. i + 1 < N /\ 0 <= i + 1 /\ i + 1 \in Int
      BY <1>1, <1>3
    <2>2. (i + 1) % N = i + 1
      BY <1>1, <2>1, Z3
    <2> QED BY <1>3, <2>2 DEF PosMod
  <1> QED BY <1>2, <1>3

\* What % does to the index expressions of runRingStep, which stay below 2N and
\* above -N.
LEMMA Wrap ==
    ASSUME NEW x \in Int, 0 - N <= x, x < 2 * N
    PROVE  PosMod(x) = IF x < 0 THEN x + N ELSE IF x < N THEN x ELSE x - N
  <1>1. N \in Int /\ N >= 1
    BY NAssumption
  <1>2. CASE 0 <= x /\ x < N
    BY <1>1, <1>2, Z3 DEF PosMod
  <1>3. CASE N <= x
    <2>1. x = (x - N) + N * 1
      BY <1>1
    <2> QED BY <1>1, <1>3, <2>1, Z3 DEF PosMod
  <1>4. CASE x < 0
    <2>1. x = (x + N) + N * (0 - 1)
      BY <1>1
    <2> QED BY <1>1, <1>4, <2>1, Z3 DEF PosMod
  <1> QED
    BY <1>1, <1>2, <1>3, <1>4

\* The number of steps of either half.
LEMMA HalfType == Half \in Nat
  BY MaxDepthType, NAssumption DEF Half

\* Children and Parent are two descriptions of one tree.
LEMMA ChildrenShape ==
    ASSUME NEW i \in GPUs
    PROVE  /\ Children(i) \in Seq(GPUs)
           /\ Len(Children(i)) \in 0 .. 2
           /\ \A m, n \in 1 .. Len(Children(i)) :
                 Children(i)[m] = Children(i)[n] => m = n
  <1>1. N \in Nat /\ i \in Nat
    BY NAssumption DEF GPUs
  <1>2. CASE 2 * i + 2 < N
    <2>1. Children(i) = <<2*i + 1, 2*i + 2>>
      BY <1>2 DEF Children
    <2>2. 2*i + 1 \in GPUs /\ 2*i + 2 \in GPUs
      BY <1>1, <1>2 DEF GPUs
    <2> QED BY <1>1, <2>1, <2>2
  <1>3. CASE ~ (2 * i + 2 < N) /\ 2 * i + 1 < N
    <2>1. Children(i) = <<2*i + 1>>
      BY <1>3 DEF Children
    <2>2. 2*i + 1 \in GPUs
      BY <1>1, <1>3 DEF GPUs
    <2> QED BY <1>1, <2>1, <2>2
  <1>4. CASE ~ (2 * i + 2 < N) /\ ~ (2 * i + 1 < N)
    <2>1. Children(i) = <<>>
      BY <1>4 DEF Children
    <2> QED BY <2>1
  <1> QED BY <1>2, <1>3, <1>4

LEMMA ChildrenAreChildren ==
    ASSUME NEW i \in GPUs, NEW j \in GPUs
    PROVE  (\E m \in 1 .. Len(Children(i)) : Children(i)[m] = j)
              <=> j # 0 /\ Parent(j) = i
  <1>1. N \in Nat /\ i \in Nat /\ j \in Nat /\ j < N
    BY NAssumption DEF GPUs
  <1>2. j # 0 /\ Parent(j) = i <=> j = 2*i + 1 \/ j = 2*i + 2
    BY <1>1 DEF Parent
  <1>3. CASE 2 * i + 2 < N
    <2>1. Children(i) = <<2*i + 1, 2*i + 2>>
      BY <1>3 DEF Children
    <2>2. Len(Children(i)) = 2 /\ Children(i)[1] = 2*i + 1 /\ Children(i)[2] = 2*i + 2
      BY <2>1
    <2> QED BY <1>2, <2>2
  <1>4. CASE ~ (2 * i + 2 < N) /\ 2 * i + 1 < N
    <2>1. Children(i) = <<2*i + 1>>
      BY <1>4 DEF Children
    <2>2. Len(Children(i)) = 1 /\ Children(i)[1] = 2*i + 1
      BY <2>1
    <2> QED BY <1>1, <1>2, <1>4, <2>2
  <1>5. CASE ~ (2 * i + 2 < N) /\ ~ (2 * i + 1 < N)
    <2>1. Children(i) = <<>>
      BY <1>5 DEF Children
    <2> QED BY <1>1, <1>2, <1>5, <2>1
  <1> QED BY <1>3, <1>4, <1>5

\* Children has an entry for each child.
LEMMA ChildrenCount ==
    ASSUME NEW i \in GPUs
    PROVE  /\ IsFiniteSet({j \in GPUs : j # 0 /\ Parent(j) = i})
           /\ Cardinality({j \in GPUs : j # 0 /\ Parent(j) = i}) = Len(Children(i))
  <1> DEFINE K == {j \in GPUs : j # 0 /\ Parent(j) = i}
  <1>1. N \in Nat /\ i \in Nat
    BY NAssumption DEF GPUs
  <1>2. \A j \in GPUs : j # 0 /\ Parent(j) = i <=> j = 2*i + 1 \/ j = 2*i + 2
    BY <1>1 DEF Parent, GPUs
  <1>3. CASE 2 * i + 2 < N
    <2>1. 2*i + 1 \in GPUs /\ 2*i + 2 \in GPUs
      BY <1>1, <1>3 DEF GPUs
    <2>2. K = {2*i + 1} \cup {2*i + 2}
      BY <1>2, <2>1
    <2>3. IsFiniteSet({2*i + 1}) /\ Cardinality({2*i + 1}) = 1
      BY FS_Singleton
    <2>4. 2*i + 2 \notin {2*i + 1}
      BY <1>1
    <2>5. IsFiniteSet(K) /\ Cardinality(K) = 2
      <3> HIDE DEF K
      <3> QED BY <2>2, <2>3, <2>4, FS_AddElement
    <2>6. Len(Children(i)) = 2
      BY <1>3 DEF Children
    <2> QED BY <2>5, <2>6
  <1>4. CASE ~ (2 * i + 2 < N) /\ 2 * i + 1 < N
    <2>1. 2*i + 1 \in GPUs /\ 2*i + 2 \notin GPUs
      BY <1>1, <1>4 DEF GPUs
    <2>2. K = {2*i + 1}
      BY <1>2, <2>1
    <2>3. IsFiniteSet(K) /\ Cardinality(K) = 1
      BY <2>2, FS_Singleton
    <2>4. Len(Children(i)) = 1
      BY <1>4 DEF Children
    <2> QED BY <2>3, <2>4
  <1>5. CASE ~ (2 * i + 2 < N) /\ ~ (2 * i + 1 < N)
    <2>1. 2*i + 1 \notin GPUs /\ 2*i + 2 \notin GPUs
      BY <1>1, <1>5 DEF GPUs
    <2>2. K = {}
      BY <1>2, <2>1
    <2>3. IsFiniteSet(K) /\ Cardinality(K) = 0
      BY <2>2, FS_EmptySet
    <2>4. Len(Children(i)) = 0
      BY <1>5 DEF Children
    <2> QED BY <2>3, <2>4
  <1> QED BY <1>3, <1>4, <1>5
-----------------------------------------------------------------------------
\* GPU j sends to GPU i in step s; all that do.
SendsTo(j, i, s) == \E m \in 1 .. Len(Targets(j, s)) : Targets(j, s)[m] = i
SendersTo(i, s) == {j \in GPUs : SendsTo(j, i, s)}

\* The reduction's sender has a parent: it is not the root.
LEMMA SenderHasParent ==
    ASSUME NEW j \in GPUs, NEW s \in Nat, ~Ring, s < Half, Depth[j] = ActiveDepth(s)
    PROVE  j # 0
  <1>1. ActiveDepth(s) = MaxDepth - s /\ Half = MaxDepth
    BY DEF ActiveDepth, Half
  <1> QED BY <1>1, MaxDepthType, Depths

\* A GPU sends to at most two GPUs, none of them twice.
LEMMA TargetsShape ==
    ASSUME NEW j \in GPUs, NEW s \in Nat
    PROVE  /\ Targets(j, s) \in Seq(GPUs)
           /\ Len(Targets(j, s)) \in 0 .. 2
           /\ \A m, n \in 1 .. Len(Targets(j, s)) :
                 Targets(j, s)[m] = Targets(j, s)[n] => m = n
  <1>1. CASE Targets(j, s) = <<>>
    BY <1>1
  <1>2. ASSUME NEW k \in GPUs, Targets(j, s) = <<k>>
        PROVE  /\ Targets(j, s) \in Seq(GPUs)
               /\ Len(Targets(j, s)) \in 0 .. 2
               /\ \A m, n \in 1 .. Len(Targets(j, s)) :
                     Targets(j, s)[m] = Targets(j, s)[n] => m = n
    BY <1>2
  <1>3. CASE Targets(j, s) = <<PosMod(j + 1)>>
    <2>1. PosMod(j + 1) \in GPUs
      BY NextGPU, NAssumption DEF GPUs
    <2> QED BY <1>2, <1>3, <2>1
  <1>4. CASE /\ ~Ring /\ s < Half
             /\ Depth[j] = ActiveDepth(s)
             /\ Targets(j, s) = <<Parent(j)>>
    <2>1. Parent(j) \in GPUs
      BY <1>4, SenderHasParent, Parents
    <2> QED BY <1>2, <1>4, <2>1
  <1>5. CASE Targets(j, s) = Children(j)
    BY <1>5, ChildrenShape
  <1> QED
    BY <1>1, <1>3, <1>4, <1>5 DEF Targets

\* What the sender and the receiver of a message are to each other.
LEMMA SendersAre ==
    ASSUME NEW i \in GPUs, NEW j \in GPUs, NEW s \in Nat
    PROVE  SendsTo(j, i, s) <=>
             /\ s < 2 * Half
             /\ IF Ring THEN PosMod(j + 1) = i
                ELSE /\ Depth[j] = ActiveDepth(s)
                     /\ IF s < Half THEN j # 0 /\ Parent(j) = i
                        ELSE i # 0 /\ Parent(i) = j
  <1>1. CASE s >= 2 * Half
    <2>1. Targets(j, s) = <<>>
      BY <1>1 DEF Targets
    <2> QED BY <1>1, <2>1, HalfType DEF SendsTo
  <1>2. CASE s < 2 * Half /\ Ring
    <2>1. Targets(j, s) = <<PosMod(j + 1)>>
      BY <1>2, HalfType DEF Targets
    <2>2. Len(Targets(j, s)) = 1 /\ Targets(j, s)[1] = PosMod(j + 1)
      BY <2>1
    <2> QED BY <1>2, <2>2 DEF SendsTo
  <1>3. CASE s < 2 * Half /\ ~Ring /\ Depth[j] # ActiveDepth(s)
    <2>1. Targets(j, s) = <<>>
      BY <1>3, HalfType DEF Targets
    <2> QED BY <1>3, <2>1 DEF SendsTo
  <1>4. CASE s < Half /\ s < 2 * Half /\ ~Ring /\ Depth[j] = ActiveDepth(s)
    <2>1. Targets(j, s) = <<Parent(j)>>
      BY <1>4, HalfType DEF Targets
    <2>2. Len(Targets(j, s)) = 1 /\ Targets(j, s)[1] = Parent(j)
      BY <2>1
    <2>3. j # 0
      BY <1>4, SenderHasParent
    <2> QED BY <1>4, <2>2, <2>3 DEF SendsTo
  <1>5. CASE ~ (s < Half) /\ s < 2 * Half /\ ~Ring /\ Depth[j] = ActiveDepth(s)
    <2>1. Targets(j, s) = Children(j)
      BY <1>5, HalfType DEF Targets
    <2> QED BY <1>5, <2>1, ChildrenAreChildren DEF SendsTo
  <1>6. s < 2 * Half \/ s >= 2 * Half
    BY HalfType
  <1> QED
    BY <1>1, <1>2, <1>3, <1>4, <1>5, <1>6

\* For every number of GPUs, in the ring and the tree and in every step, a GPU waits
\* for exactly as many messages as are sent to it: the counts of runTreeStep, made
\* from its own depth and children, agree with what the others do from theirs.
THEOREM ExpectedIsSent ==
    ASSUME NEW i \in GPUs, NEW s \in Nat
    PROVE  /\ IsFiniteSet(SendersTo(i, s))
           /\ Cardinality(SendersTo(i, s)) = Expected(i, s)
           /\ Expected(i, s) \in 0 .. 2
  <1>1. CASE s >= 2 * Half
    <2>1. SendersTo(i, s) = {}
      BY <1>1, SendersAre, HalfType DEF SendersTo
    <2>2. Expected(i, s) = 0
      BY <1>1 DEF Expected
    <2> QED BY <2>1, <2>2, FS_EmptySet
  <1>2. CASE s < 2 * Half /\ Ring
    <2> DEFINE p == IF i = 0 THEN N - 1 ELSE i - 1
    <2>1. p \in GPUs
      BY NAssumption DEF GPUs
    <2>2. \A j \in GPUs : PosMod(j + 1) = i <=> j = p
      BY NextGPU, NAssumption DEF GPUs
    <2>3. SendersTo(i, s) = {p}
      <3> HIDE DEF p
      <3> QED BY <1>2, <2>1, <2>2, SendersAre DEF SendersTo
    <2>4. Expected(i, s) = 1
      BY <1>2, HalfType DEF Expected
    <2>5. IsFiniteSet({p}) /\ Cardinality({p}) = 1
      BY FS_Singleton
    <2> QED BY <2>3, <2>4, <2>5
  <1>3. CASE s < Half /\ s < 2 * Half /\ ~Ring
    <2>1. ActiveDepth(s) = MaxDepth - s /\ ActiveDepth(s) \in Int
      BY <1>3, MaxDepthType DEF ActiveDepth
    <2>2. \A j \in GPUs : j # 0 /\ Parent(j) = i => Depth[j] = Depth[i] + 1
      BY Depths
    <2>3. Depth[i] \in Nat
      BY Depths
    <2>4. CASE Depth[i] = ActiveDepth(s) - 1
      <3>1. SendersTo(i, s) = {j \in GPUs : j # 0 /\ Parent(j) = i}
        BY <1>3, <2>1, <2>2, <2>3, <2>4, SendersAre DEF SendersTo
      <3>2. Expected(i, s) = Len(Children(i))
        BY <1>3, <2>4, HalfType DEF Expected
      <3> QED BY <3>1, <3>2, ChildrenCount, ChildrenShape
    <2>5. CASE Depth[i] # ActiveDepth(s) - 1
      <3>1. SendersTo(i, s) = {}
        BY <1>3, <2>1, <2>2, <2>3, <2>5, SendersAre DEF SendersTo
      <3>2. Expected(i, s) = 0
        BY <1>3, <2>5, HalfType DEF Expected
      <3> QED BY <3>1, <3>2, FS_EmptySet
    <2> QED BY <2>4, <2>5
  <1>4. CASE ~ (s < Half) /\ s < 2 * Half /\ ~Ring
    <2>1. ActiveDepth(s) = s - Half /\ ActiveDepth(s) \in Nat
      BY <1>4, HalfType DEF ActiveDepth
    <2>2. CASE Depth[i] = ActiveDepth(s) + 1
      <3>1. i # 0
        BY <2>1, <2>2, Depths
      <3>2. Parent(i) \in GPUs /\ Depth[Parent(i)] = ActiveDepth(s)
        BY <2>1, <2>2, <3>1, Parents, Depths
      <3>3. SendersTo(i, s) = {Parent(i)}
        BY <1>4, <3>1, <3>2, SendersAre DEF SendersTo
      <3>4. Expected(i, s) = 1
        BY <1>4, <2>2, HalfType DEF Expected
      <3>5. IsFiniteSet({Parent(i)}) /\ Cardinality({Parent(i)}) = 1
        BY FS_Singleton
      <3> QED BY <3>3, <3>4, <3>5
    <2>3. CASE Depth[i] # ActiveDepth(s) + 1
      <3>1. i # 0 => Depth[Parent(i)] # ActiveDepth(s)
        BY <2>1, <2>3, Depths
      <3>2. SendersTo(i, s) = {}
        BY <1>4, <3>1, SendersAre DEF SendersTo
      <3>3. Expected(i, s) = 0
        BY <1>4, <2>3, HalfType DEF Expected
      <3> QED BY <3>2, <3>3, FS_EmptySet
    <2> QED BY <2>2, <2>3
  <1>5. s < 2 * Half \/ s >= 2 * Half
    BY HalfType
  <1> QED
    BY <1>1, <1>2, <1>3, <1>4, <1>5
=============================================================================
