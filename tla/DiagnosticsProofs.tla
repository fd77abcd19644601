------------------------- MODULE DiagnosticsProofs -------------------------
(***************************************************************************)
(* Theorems about Diagnostics, for any containers and logs.                *)
(*                                                                         *)
(* FlattenSeq is recursive, so it is first shown to have a value.  That,   *)
(* and what it does to a longer sequence, goes by the least length that    *)
(* would be an exception.                                                  *)
(***************************************************************************)
EXTENDS Diagnostics, FiniteSetTheorems, SequenceTheorems, WellFoundedInduction, TLAPS


\* Every nonempty set of natural numbers has a least element, what the proofs
\* below use in place of induction.
LEMMA LeastNumber ==
    ASSUME NEW T, T \subseteq Nat, T # {}
    PROVE  \E x \in T : \A y \in T : x <= y
  <1>1. PICK t \in T : TRUE
    OBVIOUS
  <1> DEFINE Low == {x \in T : x <= t}
             R == StrictSubsetOrdering(0 .. t)
             Q == {0 .. x : x \in Low}
  <1>2. IsFiniteSet(0 .. t)
    BY <1>1, FS_Interval
  <1>3. IsWellFoundedOn(R, SUBSET (0 .. t))
    BY <1>2, FS_FiniteSubsetsOfFinite, FS_StrictSubsetOrderingWellFounded
  <1>4. Q \subseteq SUBSET (0 .. t) /\ Q # {}
    BY <1>1
  <1>5. PICK q \in Q : \A p \in Q : ~ (<<p, q>> \in R)
    <2> HIDE DEF Q, R
    <2> QED BY <1>3, <1>4, WFMin
  <1>6. PICK x \in Low : q = 0 .. x
    BY <1>5
  <1>7. ASSUME NEW y \in Low PROVE x <= y
    <2>1. ~ (<<0 .. y, 0 .. x>> \in R)
      BY <1>5, <1>6
    <2>2. ~ (0 .. y \subseteq 0 .. x /\ 0 .. y # 0 .. x)
      BY <2>1, <1>1 DEF StrictSubsetOrdering
    <2> QED BY <2>2
  <1> QED
    BY <1>1, <1>6, <1>7

-----------------------------------------------------------------------------
(* The concatenation of a sequence of sequences *)

\* t behind s.  The provers handle it better by name, through the lemmas below, than
\* as an operation whose definition they know.
Then(s, t) == s \o t

LEMMA ThenType ==
    ASSUME NEW T, NEW s \in Seq(T), NEW t \in Seq(T)
    PROVE  Then(s, t) \in Seq(T)
  BY ConcatProperties DEF Then

LEMMA ThenLength ==
    ASSUME NEW T, NEW s \in Seq(T), NEW t \in Seq(T)
    PROVE  /\ Len(s) \in Nat /\ Len(t) \in Nat
           /\ Len(Then(s, t)) = Len(s) + Len(t)
  BY LenProperties, ConcatProperties DEF Then

LEMMA ThenEmpty ==
    ASSUME NEW T, NEW s \in Seq(T)
    PROVE  Then(s, <<>>) = s /\ Then(<<>>, s) = s
  BY ConcatEmptySeq DEF Then

LEMMA ThenRegroup ==
    ASSUME NEW T, NEW s \in Seq(T), NEW t \in Seq(T), NEW u \in Seq(T)
    PROVE  Then(Then(s, t), u) = Then(s, Then(t, u))
  BY ConcatAssociative DEF Then

LEMMA ThenCancel ==
    ASSUME NEW T, NEW s \in Seq(T), NEW t \in Seq(T), NEW u \in Seq(T), Then(s, t) = Then(s, u)
    PROVE  t = u
  BY ConcatSimplifications DEF Then

\* f is the value of FlattenSeq's local function up to length n.
Solves(f, s, n) ==
    f = [i \in 1..n |-> IF i = 1 THEN s[i] ELSE f[i - 1] \o s[i]]

LEMMA FlattenExists ==
    ASSUME NEW s, NEW n \in Nat
    PROVE  \E f : Solves(f, s, n)
<1> SUFFICES ASSUME ~ \E f : Solves(f, s, n) PROVE FALSE
  OBVIOUS
<1> DEFINE Bad == {m \in Nat : ~ \E f : Solves(f, s, m)}
<1>1. PICK m \in Bad : \A k \in Bad : m <= k
  <2>1. Bad \subseteq Nat /\ Bad # {}
    OBVIOUS
  <2> HIDE DEF Bad
  <2> QED
    BY <2>1, LeastNumber
<1>2. m # 0
  <2>1. Solves([i \in 1..0 |-> <<>>], s, 0)
    BY DEF Solves
  <2> QED
    BY <2>1
<1>3. m - 1 \in Nat /\ m - 1 \notin Bad
  <2>1. m \in Nat
    OBVIOUS
  <2> HIDE DEF Bad
  <2> QED
    BY <1>1, <1>2, <2>1
<1>4. PICK f : Solves(f, s, m - 1)
  BY <1>3
<1> DEFINE last == IF m = 1 THEN s[m] ELSE f[m - 1] \o s[m]
           g == [i \in 1..m |-> IF i = m THEN last ELSE f[i]]
<1>5. Solves(g, s, m)
  <2>1. ASSUME NEW i \in 1..m
        PROVE  g[i] = IF i = 1 THEN s[i] ELSE g[i - 1] \o s[i]
    <3>1. CASE i = m
      <4>1. g[i] = last
        BY <3>1
      <4>2. i # 1 => g[i - 1] = f[i - 1]
        BY <3>1, <1>3
      <4> QED
        BY <3>1, <4>1, <4>2
    <3>2. CASE i # m
      <4>1. i \in 1..(m - 1) /\ g[i] = f[i]
        BY <3>2, <1>3
      <4>2. f[i] = IF i = 1 THEN s[i] ELSE f[i - 1] \o s[i]
        BY <1>4, <4>1 DEF Solves
      <4>3. i # 1 => g[i - 1] = f[i - 1]
        BY <3>2, <1>3
      <4> QED
        BY <4>1, <4>2, <4>3
    <3> QED
      BY <3>1, <3>2
  <2>2. g = [i \in 1..m |-> g[i]]
    OBVIOUS
  <2> HIDE DEF g
  <2>3. [i \in 1..m |-> g[i]] = [i \in 1..m |-> IF i = 1 THEN s[i] ELSE g[i - 1] \o s[i]]
    BY <2>1
  <2> QED
    BY <2>2, <2>3 DEF Solves
<1> QED
  BY <1>5

\* The first n elements of s, one after the other.
Joined(s, n) ==
    IF n = 0 THEN <<>> ELSE (CHOOSE f : Solves(f, s, Len(s)))[n]

\* Each element is appended to those before it.
LEMMA JoinedGrows ==
    ASSUME NEW T, NEW s \in Seq(Seq(T)), NEW n \in 1..Len(s)
    PROVE  Joined(s, n) = Then(Joined(s, n - 1), s[n])
<1> DEFINE f == CHOOSE f : Solves(f, s, Len(s))
<1>1. Len(s) \in Nat
  BY LenProperties
<1>2. Solves(f, s, Len(s))
  BY <1>1, FlattenExists
<1>3. s[n] \in Seq(T)
  BY ElementOfSeq
<1>4. Joined(s, n) = f[n] /\ (n # 1 => Joined(s, n - 1) = f[n - 1])
  BY <1>1 DEF Joined
<1>5. Joined(s, 0) = <<>>
  BY DEF Joined
<1> HIDE DEF f
<1>6. f[n] = IF n = 1 THEN s[n] ELSE f[n - 1] \o s[n]
  BY <1>2 DEF Solves
<1>7. CASE n = 1
  <2>1. <<>> \o s[n] = s[n]
    BY <1>3, ConcatEmptySeq
  <2> QED
    BY <1>4, <1>5, <1>6, <1>7, <2>1 DEF Then
<1>8. CASE n # 1
  BY <1>4, <1>6, <1>8 DEF Then
<1> QED
  BY <1>7, <1>8

LEMMA FlattenIsJoined ==
    ASSUME NEW T, NEW s \in Seq(Seq(T))
    PROVE  FlattenSeq(s) = Joined(s, Len(s))
<1>1. CASE Len(s) = 0
  <2>1. s = <<>>
    BY <1>1, EmptySeq
  <2>2. FlattenSeq(s) = s
    BY <1>1 DEF FlattenSeq
  <2> QED
    BY <1>1, <2>1, <2>2 DEF Joined
<1>2. CASE Len(s) # 0
  BY <1>2 DEF FlattenSeq, Joined, Solves
<1> QED
  BY <1>1, <1>2

\* After the first n elements of s, what is left of the concatenation is u.
Left(s, n, u) == FlattenSeq(s) = Then(Joined(s, n), u)

LEMMA JoinedType ==
    ASSUME NEW T, NEW s \in Seq(Seq(T)), NEW n \in 0..Len(s)
    PROVE  Joined(s, n) \in Seq(T)
<1> SUFFICES ASSUME Joined(s, n) \notin Seq(T) PROVE FALSE
  OBVIOUS
<1> DEFINE Bad == {k \in 0..Len(s) : Joined(s, k) \notin Seq(T)}
<1>1. Len(s) \in Nat
  BY LenProperties
<1>2. PICK m \in Bad : \A k \in Bad : m <= k
  <2>1. Bad \subseteq Nat /\ Bad # {}
    BY <1>1
  <2> HIDE DEF Bad
  <2> QED
    BY <2>1, LeastNumber
<1>3. m # 0
  BY EmptySeq DEF Joined
<1>4. m \in 1..Len(s) /\ m - 1 \in 0..Len(s)
  BY <1>1, <1>3
<1>5. Joined(s, m - 1) \in Seq(T)
  BY <1>1, <1>2, <1>4
<1>6. s[m] \in Seq(T)
  BY <1>4, ElementOfSeq
<1>7. Joined(s, m) = Then(Joined(s, m - 1), s[m])
  BY <1>4, JoinedGrows
<1>8. Joined(s, m) \in Seq(T)
  BY <1>5, <1>6, <1>7, ThenType
<1> QED
  BY <1>8

LEMMA SomethingIsLeft ==
    ASSUME NEW T, NEW s \in Seq(Seq(T)), NEW n \in 0..Len(s)
    PROVE  \E u \in Seq(T) : Left(s, n, u)
<1> SUFFICES ASSUME ~ \E u \in Seq(T) : Left(s, n, u) PROVE FALSE
  OBVIOUS
<1> DEFINE Bad == {d \in 0..Len(s) : ~ \E u \in Seq(T) : Left(s, Len(s) - d, u)}
<1>1. Len(s) \in Nat
  BY LenProperties
<1>2. PICK m \in Bad : \A k \in Bad : m <= k
  <2>1. Len(s) - n \in 0..Len(s) /\ Len(s) - (Len(s) - n) = n
    BY <1>1
  <2>2. Len(s) - n \in Bad
    BY <2>1
  <2>3. Bad \subseteq Nat
    BY <1>1
  <2> HIDE DEF Bad
  <2> QED
    BY <2>2, <2>3, LeastNumber
<1>3. m # 0
  <2>1. Left(s, Len(s), <<>>)
    <3>1. FlattenSeq(s) = Joined(s, Len(s))
      BY FlattenIsJoined
    <3>2. Joined(s, Len(s)) \in Seq(T)
      BY <1>1, JoinedType
    <3> QED
      BY <3>1, <3>2, ThenEmpty DEF Left
  <2>2. Len(s) - 0 = Len(s) /\ <<>> \in Seq(T)
    BY <1>1, EmptySeq
  <2> QED
    BY <2>1, <2>2
<1> DEFINE k == Len(s) - m + 1
<1>4. k \in 1..Len(s) /\ k - 1 = Len(s) - m /\ Len(s) - (m - 1) = k /\ m - 1 \in 0..Len(s)
  BY <1>1, <1>3
<1>5. m - 1 \notin Bad
  <2>1. m \in Nat
    BY <1>1
  <2> HIDE DEF Bad
  <2> QED
    BY <1>2, <2>1
<1>6. PICK w \in Seq(T) : Left(s, Len(s) - (m - 1), w)
  BY <1>4, <1>5
<1> HIDE DEF k
<1>7. s[k] \in Seq(T) /\ Joined(s, k - 1) \in Seq(T)
  BY <1>1, <1>4, ElementOfSeq, JoinedType
<1>8. FlattenSeq(s) = Then(Then(Joined(s, k - 1), s[k]), w)
  BY <1>4, <1>6, JoinedGrows DEF Left
<1>9. FlattenSeq(s) = Then(Joined(s, k - 1), Then(s[k], w))
  BY <1>7, <1>8, ThenRegroup
<1>10. Then(s[k], w) \in Seq(T)
  BY <1>7, ThenType
<1>11. Left(s, Len(s) - m, Then(s[k], w))
  BY <1>4, <1>9 DEF Left
<1> QED
  BY <1>10, <1>11

\* What is left begins with the next element ...
LEMMA NextIsLeft ==
    ASSUME NEW T, NEW s \in Seq(Seq(T)), NEW n \in 0..Len(s) - 1,
           NEW u \in Seq(T), Left(s, n, u)
    PROVE  \E w \in Seq(T) : u = Then(s[n + 1], w) /\ Left(s, n + 1, w)
<1>1. /\ Len(s) \in Nat
      /\ n \in 0..Len(s) /\ n + 1 \in 1..Len(s) /\ n + 1 \in 0..Len(s) /\ n + 1 - 1 = n
  <2>1. Len(s) \in Nat
    BY LenProperties
  <2> QED
    BY <2>1
<1>2. PICK w \in Seq(T) : Left(s, n + 1, w)
  BY <1>1, SomethingIsLeft
<1> DEFINE x == s[n + 1]
           j == Joined(s, n)
<1>3. j \in Seq(T) /\ x \in Seq(T)
  BY <1>1, ElementOfSeq, JoinedType
<1>4. Joined(s, n + 1) = Then(j, x)
  <2>1. PICK k \in 1..Len(s) : k = n + 1 /\ k - 1 = n
    BY <1>1
  <2>2. Joined(s, k) = Then(Joined(s, k - 1), s[k])
    BY JoinedGrows
  <2> QED
    BY <2>1, <2>2
<1>5. FlattenSeq(s) = Then(Then(j, x), w) /\ FlattenSeq(s) = Then(j, u)
  BY <1>2, <1>4 DEF Left
<1> HIDE DEF x, j
<1>6. Then(j, Then(x, w)) = Then(j, u)
  <2>1. j \in Seq(T)
    BY <1>3
  <2>2. x \in Seq(T)
    BY <1>3
  <2>3. w \in Seq(T)
    OBVIOUS
  <2>4. Then(Then(j, x), w) = Then(j, Then(x, w))
    BY <2>1, <2>2, <2>3, ThenRegroup
  <2> QED
    BY <1>5, <2>4
<1>7. Then(x, w) \in Seq(T)
  BY <1>3, ThenType
<1>8. Then(x, w) = u
  BY <1>3, <1>6, <1>7, ThenCancel
<1> QED
  BY <1>2, <1>8 DEF x

\* ... and nothing is left after the last one.
LEMMA NothingIsLeft ==
    ASSUME NEW T, NEW s \in Seq(Seq(T)), NEW u \in Seq(T), Left(s, Len(s), u)
    PROVE  u = <<>>
<1>1. Len(s) \in Nat
  BY LenProperties
<1> DEFINE j == Joined(s, Len(s))
<1>2. j \in Seq(T)
  BY <1>1, JoinedType
<1>3. Then(j, u) = j /\ Then(j, <<>>) = j
  BY <1>2, FlattenIsJoined, ThenEmpty DEF Left
<1> HIDE DEF j
<1>4. <<>> \in Seq(T)
  BY EmptySeq
<1> QED
  BY <1>2, <1>3, <1>4, ThenCancel

LEMMA AllIsLeft ==
    ASSUME NEW T, NEW s \in Seq(Seq(T))
    PROVE  FlattenSeq(s) \in Seq(T) /\ Left(s, 0, FlattenSeq(s))
<1>1. Len(s) \in Nat
  BY LenProperties
<1>2. FlattenSeq(s) \in Seq(T)
  BY <1>1, FlattenIsJoined, JoinedType
<1>3. Joined(s, 0) = <<>>
  BY DEF Joined
<1> QED
  BY <1>2, <1>3, ThenEmpty DEF Left

\* The concatenation up to n depends on the first n elements alone.
LEMMA JoinedAlike ==
    ASSUME NEW T, NEW s \in Seq(Seq(T)), NEW t \in Seq(Seq(T)), NEW n \in Nat,
           n <= Len(s), n <= Len(t), \A i \in 1..n : s[i] = t[i]
    PROVE  Joined(s, n) = Joined(t, n)
<1> SUFFICES ASSUME Joined(s, n) # Joined(t, n) PROVE FALSE
  OBVIOUS
<1> DEFINE Bad == {k \in 0..n : Joined(s, k) # Joined(t, k)}
<1>1. Len(s) \in Nat /\ Len(t) \in Nat
  BY LenProperties
<1>2. PICK m \in Bad : \A k \in Bad : m <= k
  <2>1. n \in Bad /\ Bad \subseteq Nat
    OBVIOUS
  <2> HIDE DEF Bad
  <2> QED
    BY <2>1, LeastNumber
<1>3. m # 0
  BY DEF Joined
<1>4. m \in 1..n /\ m \in 1..Len(s) /\ m \in 1..Len(t) /\ m - 1 \in 0..n
  BY <1>1, <1>3
<1>5. Joined(s, m - 1) = Joined(t, m - 1)
  BY <1>2, <1>4
<1>6. /\ Joined(s, m) = Then(Joined(s, m - 1), s[m])
      /\ Joined(t, m) = Then(Joined(t, m - 1), t[m])
  BY <1>4, JoinedGrows
<1> QED
  BY <1>4, <1>5, <1>6

-----------------------------------------------------------------------------
(* Frames *)

Log(k) == Containers[k].log
Frames(k) == [i \in DOMAIN Log(k) |-> Frame(Log(k)[i])]
Header(payload) == <<1, 0, 0, 0>> \o SizeBytes(Len(payload))

LEMMA LogType ==
    ASSUME NEW k \in DOMAIN Containers
    PROVE  /\ Log(k) \in Seq(Seq(Byte))
           /\ \A i \in 1..Len(Log(k)) :
                Log(k)[i] \in Seq(Byte) /\ FitsHeader(Log(k)[i])
<1>1. Log(k) \in Seq(Seq(Byte))
  BY LogsAssumption DEF Log
<1>2. DOMAIN Log(k) = 1..Len(Log(k))
  BY <1>1, LenProperties
<1>3. \A i \in 1..Len(Log(k)) : FitsHeader(Log(k)[i])
  BY <1>2, LogsAssumption DEF Log
<1>4. \A i \in 1..Len(Log(k)) : Log(k)[i] \in Seq(Byte)
  BY <1>1, ElementOfSeq
<1> QED
  BY <1>1, <1>3, <1>4

\* The bytes of a size are the size again, put together from the highest.
LEMMA SizeIsDecoded ==
    ASSUME NEW n \in Nat, n \div 16777216 \in Byte
    PROVE  /\ SizeBytes(n) \in Seq(Byte)
           /\ n = (n \div 16777216) * 16777216 + ((n \div 65536) % 256) * 65536
                    + ((n \div 256) % 256) * 256 + (n % 256)
<1>1. /\ (n \div 65536) % 256 \in Byte
      /\ (n \div 256) % 256 \in Byte
      /\ n % 256 \in Byte
  BY SMT DEF Byte
<1>2. SizeBytes(n) \in Seq(Byte)
  BY <1>1, SMT DEF SizeBytes
<1>3. n = (n \div 256) * 256 + (n % 256)
  BY SMT
<1>4. n \div 256 = (n \div 65536) * 256 + ((n \div 256) % 256)
  BY SMT
<1>5. n \div 65536 = (n \div 16777216) * 256 + ((n \div 65536) % 256)
  BY SMT
<1> QED
  BY <1>1, <1>2, <1>3, <1>4, <1>5, SMT DEF Byte

\* A header has eight bytes, of which the last four are the size of the payload.
LEMMA HeaderIs ==
    ASSUME NEW p \in Seq(Byte), FitsHeader(p)
    PROVE  /\ Header(p) \in Seq(Byte)
           /\ Len(Header(p)) = HeaderSize
           /\ PayloadSize(Header(p)) = Len(p)
           /\ Frame(p) = Then(Header(p), p)
<1> DEFINE n == Len(p)
           b == SizeBytes(n)
<1>1. n \in Nat /\ n \div 16777216 \in Byte
  BY LenProperties, SMT DEF FitsHeader
<1>2. b \in Seq(Byte) /\ Len(b) = 4
  <2>1. b \in Seq(Byte)
    BY <1>1, SizeIsDecoded, SMT
  <2>2. Len(b) = 4
    BY SMT DEF SizeBytes
  <2> QED
    BY <2>1, <2>2
<1>3. <<1, 0, 0, 0>> \in Seq(Byte) /\ Len(<<1, 0, 0, 0>>) = 4
  BY DEF Byte
<1>4. /\ b[1] = n \div 16777216 /\ b[2] = (n \div 65536) % 256
      /\ b[3] = (n \div 256) % 256 /\ b[4] = n % 256
  BY SMT DEF SizeBytes
<1> HIDE DEF b, n
<1> DEFINE z == <<1, 0, 0, 0>>
           h == z \o b
<1>5. Header(p) = h
  BY DEF Header, n, b
<1> HIDE DEF z
<1>6. z \in Seq(Byte) /\ Len(z) = 4
  BY <1>3 DEF z
<1>7. /\ h \in Seq(Byte)
      /\ Len(h) = 8
      /\ h[5] = b[1] /\ h[6] = b[2] /\ h[7] = b[3] /\ h[8] = b[4]
  <2>1. b \in Seq(Byte)
    BY <1>2
  <2>2. z \in Seq(Byte)
    BY <1>6
  <2>3. /\ h \in Seq(Byte)
        /\ Len(h) = Len(z) + Len(b)
        /\ \A i \in 1..Len(z) + Len(b) : h[i] = IF i <= Len(z) THEN z[i] ELSE b[i - Len(z)]
    BY <2>1, <2>2, ConcatProperties
  <2> HIDE DEF h
  <2>4. Len(h) = 8 /\ \A i \in 5..8 : h[i] = b[i - 4]
    BY <1>2, <1>6, <2>3
  <2>5. h[5] = b[5 - 4] /\ h[6] = b[6 - 4] /\ h[7] = b[7 - 4] /\ h[8] = b[8 - 4]
    <3>1. 5 \in 5..8 /\ 6 \in 5..8 /\ 7 \in 5..8 /\ 8 \in 5..8
      OBVIOUS
    <3> QED
      BY <2>4, <3>1
  <2>6. 5 - 4 = 1 /\ 6 - 4 = 2 /\ 7 - 4 = 3 /\ 8 - 4 = 4
    OBVIOUS
  <2> QED
    BY <2>3, <2>4, <2>5, <2>6
<1> HIDE DEF h
<1>8. PayloadSize(h) = n
  <2>1. PayloadSize(h) = h[5] * 16777216 + h[6] * 65536 + h[7] * 256 + h[8]
    BY SMT DEF PayloadSize
  <2>2. n = (n \div 16777216) * 16777216 + ((n \div 65536) % 256) * 65536
              + ((n \div 256) % 256) * 256 + (n % 256)
    BY <1>1, SizeIsDecoded, SMT
  <2> QED
    BY <1>4, <1>7, <2>1, <2>2, SMT
<1>9. Frame(p) = Then(h, p)
  BY DEF Frame, Then, h, z, b, n
<1> QED
  BY <1>5, <1>7, <1>8, <1>9 DEF HeaderSize, n

LEMMA FramesType ==
    ASSUME NEW k \in DOMAIN Containers
    PROVE  /\ Frames(k) \in Seq(Seq(Byte))
           /\ Len(Frames(k)) = Len(Log(k))
           /\ Len(Log(k)) \in Nat
           /\ \A i \in 1..Len(Log(k)) : Frames(k)[i] = Then(Header(Log(k)[i]), Log(k)[i])
<1>1. Log(k) \in Seq(Seq(Byte)) /\ Len(Log(k)) \in Nat /\ DOMAIN Log(k) = 1..Len(Log(k))
  BY LogType, LenProperties
<1>2. ASSUME NEW i \in 1..Len(Log(k))
      PROVE  Frame(Log(k)[i]) = Then(Header(Log(k)[i]), Log(k)[i])
  BY LogType, HeaderIs
<1>3. ASSUME NEW i \in 1..Len(Log(k))
      PROVE  Then(Header(Log(k)[i]), Log(k)[i]) \in Seq(Byte)
  BY LogType, HeaderIs, ThenType
<1>4. Frames(k) = [i \in 1..Len(Log(k)) |-> Frame(Log(k)[i])]
  BY <1>1 DEF Frames
<1>5. Frames(k) \in [1..Len(Log(k)) -> Seq(Byte)]
  BY <1>2, <1>3, <1>4
<1>6. Frames(k) \in Seq(Seq(Byte)) /\ Len(Frames(k)) = Len(Log(k))
  <2> DEFINE f == Frames(k)
             n == Len(Log(k))
  <2>1. n \in Nat /\ f \in [1..n -> Seq(Byte)]
    BY <1>1, <1>5
  <2> HIDE DEF f, n
  <2>2. f \in Seq(Seq(Byte)) /\ Len(f) = n
    BY <2>1
  <2> QED
    BY <2>2 DEF f, n
<1> QED
  BY <1>1, <1>2, <1>4, <1>6

LEMMA StreamIs ==
    ASSUME NEW k
    PROVE  Stream(k) = FlattenSeq(Frames(k)) /\ Written(k) = FlattenSeq(Log(k))
  BY DEF Stream, Written, Frames, Log

-----------------------------------------------------------------------------
(* Reads that return all that fits *)

\* r is a and then b, and its subsequences are these.
Splits(r, a, b) ==
    /\ Len(a) \in Nat /\ Len(b) \in Nat /\ Len(r) = Len(a) + Len(b)
    /\ SubSeq(r, 1, Len(a)) = a
    /\ SubSeq(r, Len(a) + 1, Len(r)) = b

LEMMA FrontAndRest ==
    ASSUME NEW a \in Seq(Byte), NEW b \in Seq(Byte), NEW r, r = Then(a, b)
    PROVE  Splits(r, a, b)
<1>1. Len(a) \in Nat /\ Len(b) \in Nat
  BY LenProperties
<1>2. /\ r \in Seq(Byte)
      /\ Len(r) = Len(a) + Len(b)
      /\ \A i \in 1..Len(r) : r[i] = IF i <= Len(a) THEN a[i] ELSE b[i - Len(a)]
  BY ConcatProperties DEF Then
<1>3. \A i \in 1..Len(r) : r[i] \in Byte
  BY <1>2, ElementOfSeq
<1> DEFINE f == SubSeq(r, 1, Len(a))
           g == SubSeq(r, Len(a) + 1, Len(r))
<1>4. f \in Seq(Byte) /\ Len(f) = Len(a) /\ \A i \in 1..Len(a) : f[i] = r[i]
  <2>1. \A i \in 1..Len(a) : r[i] \in Byte
    BY <1>1, <1>2, <1>3
  <2>2. /\ f \in Seq(Byte)
        /\ Len(f) = IF 1 <= Len(a) THEN Len(a) - 1 + 1 ELSE 0
        /\ \A i \in 1..Len(a) - 1 + 1 : f[i] = r[1 + i - 1]
    BY <1>1, <2>1, SubSeqProperties
  <2> HIDE DEF f
  <2> QED
    BY <1>1, <2>2
<1>5. g \in Seq(Byte) /\ Len(g) = Len(b) /\ \A i \in 1..Len(b) : g[i] = r[Len(a) + i]
  <2> DEFINE n == Len(a) + 1
  <2>1. n \in Nat /\ Len(r) \in Nat /\ n = Len(a) + 1
    BY <1>1, <1>2
  <2>2. \A i \in n..Len(r) : r[i] \in Byte
    BY <1>1, <1>3
  <2> HIDE DEF n
  <2>3. /\ SubSeq(r, n, Len(r)) \in Seq(Byte)
        /\ Len(SubSeq(r, n, Len(r))) = IF n <= Len(r) THEN Len(r) - n + 1 ELSE 0
        /\ \A i \in 1..Len(r) - n + 1 : SubSeq(r, n, Len(r))[i] = r[n + i - 1]
    BY <2>1, <2>2, SubSeqProperties
  <2>4. g = SubSeq(r, n, Len(r))
    BY DEF n
  <2> HIDE DEF g
  <2> QED
    BY <1>1, <1>2, <2>1, <2>3, <2>4
<1> HIDE DEF f, g
<1>6. f = a
  BY <1>1, <1>2, <1>4, SeqEqual
<1>7. g = b
  <2>1. ASSUME NEW i \in 1..Len(b) PROVE g[i] = b[i]
    <3>1. /\ Len(a) + i \in 1..Len(r) /\ ~ (Len(a) + i <= Len(a))
          /\ Len(a) + i - Len(a) = i
      BY <1>1, <1>2
    <3>2. r[Len(a) + i] = b[Len(a) + i - Len(a)]
      BY <1>2, <3>1
    <3> QED
      BY <1>5, <3>1, <3>2
  <2> QED
    BY <1>5, <2>1, SeqEqual
<1> QED
  BY <1>1, <1>2, <1>6, <1>7 DEF f, g, Splits

\* A Read into a buffer as long as the front of the stream takes exactly the front,
\* unless it returns less than it could.
LEMMA ReadTakesFront ==
    ASSUME NEW a \in Seq(Byte), NEW b \in Seq(Byte), rest = Then(a, b),
           NEW k \in ReadCounts(Len(a)), ~ (k < MostBytes(Len(a)))
    PROVE  /\ k = Len(a)
           /\ SubSeq(rest, 1, k) = a
           /\ SubSeq(rest, k + 1, Len(rest)) = b
<1>1. /\ Len(a) \in Nat /\ Len(b) \in Nat /\ Len(rest) = Len(a) + Len(b)
      /\ SubSeq(rest, 1, Len(a)) = a
      /\ SubSeq(rest, Len(a) + 1, Len(rest)) = b
  <2>1. Splits(rest, a, b)
    BY FrontAndRest
  <2> QED
    BY <2>1 DEF Splits
<1> DEFINE n == Len(a)
<1>2. MostBytes(n) = n
  <2> DEFINE l == Len(b)
             r == Len(rest)
  <2>1. n \in Nat /\ l \in Nat /\ r = n + l
    BY <1>1
  <2> HIDE DEF n, l
  <2>2. r \in Nat /\ (n < r \/ n = r)
    BY <2>1
  <2> QED
    BY <2>1, <2>2 DEF MostBytes
<1>3. k = n
  <2>1. n \in Nat /\ k \in (IF n = 0 THEN {0} ELSE 1..n) /\ ~ (k < n)
    BY <1>1, <1>2 DEF ReadCounts
  <2> HIDE DEF n
  <2>2. CASE n = 0
    BY <2>1, <2>2
  <2>3. CASE n # 0
    BY <2>1, <2>3
  <2> QED
    BY <2>2, <2>3
<1> QED
  BY <1>1, <1>3

\* While frames are left, the stream goes on with a header and its payload.
LEMMA FrameIsLeft ==
    ASSUME NEW k \in DOMAIN Containers, NEW m \in 0..Len(Log(k)) - 1,
           NEW r \in Seq(Byte), Left(Frames(k), m, r)
    PROVE  /\ r # <<>>
           /\ \E w \in Seq(Byte) : /\ r = Then(Header(Log(k)[m + 1]), Then(Log(k)[m + 1], w))
                                   /\ Left(Frames(k), m + 1, w)
<1> DEFINE p == Log(k)[m + 1]
           s == Frames(k)
<1>1. s \in Seq(Seq(Byte)) /\ Len(s) = Len(Log(k)) /\ Len(Log(k)) \in Nat
  BY FramesType
<1>2. m \in 0..Len(s) - 1 /\ m + 1 \in 1..Len(Log(k))
  BY <1>1
<1>3. s[m + 1] = Then(Header(p), p)
  BY <1>2, FramesType
<1>4. p \in Seq(Byte) /\ FitsHeader(p)
  BY <1>2, LogType
<1> HIDE DEF p, s
<1>5. PICK w \in Seq(Byte) : r = Then(s[m + 1], w) /\ Left(s, m + 1, w)
  BY <1>1, <1>2, NextIsLeft DEF s
<1>6. Header(p) \in Seq(Byte) /\ Len(Header(p)) = 8
  BY <1>4, HeaderIs DEF HeaderSize
<1>7. r = Then(Header(p), Then(p, w))
  BY <1>3, <1>4, <1>5, <1>6, ThenRegroup
<1>8. Then(p, w) \in Seq(Byte)
  BY <1>4, ThenType
<1>9. r # <<>>
  <2> DEFINE h == Header(p)
             t == Then(p, w)
  <2>1. h \in Seq(Byte) /\ Len(h) = 8
    BY <1>6
  <2>2. t \in Seq(Byte)
    BY <1>8
  <2>3. r = Then(h, t)
    BY <1>7
  <2> HIDE DEF h, t
  <2>4. Len(t) \in Nat /\ Len(r) = Len(h) + Len(t)
    BY <2>1, <2>2, <2>3, ThenLength
  <2>5. Len(r) # 0
    BY <2>1, <2>4
  <2> QED
    BY <2>5, EmptySeq
<1> QED
  BY <1>5, <1>7, <1>9 DEF p, s

-----------------------------------------------------------------------------
(* The loop of TailLogs, as long as no Read was short *)

\* What the buffer holds after m payloads.
Pieces(k, m) == [i \in 1..m |-> [bytes |-> Log(k)[i], zeros |-> 0]]

\* Between two frames, m of them taken: the buffer holds their payloads, and the
\* stream what is left.
AtFrame(k, m, written, stream) ==
    /\ m \in 0..Len(Log(k))
    /\ written = Pieces(k, m)
    /\ stream \in Seq(Byte)
    /\ Left(Frames(k), m, stream)

\* Behind the header of the next one: the stream goes on with its payload.
AtPayload(k, m, w, written, header, stream) ==
    /\ m \in 0..Len(Log(k)) - 1
    /\ w \in Seq(Byte)
    /\ written = Pieces(k, m)
    /\ header = Header(Log(k)[m + 1])
    /\ stream = Then(Log(k)[m + 1], w)
    /\ Left(Frames(k), m + 1, w)

Between(k, written, stream) == \E m : AtFrame(k, m, written, stream)
Within(k, written, header, stream) ==
    \E m, w : AtPayload(k, m, w, written, header, stream)

DemuxInv ==
    /\ pc \in {"start", "idle", "open", "header", "payload"}
    /\ pc \in {"start", "idle", "open"} => text = <<>>
    /\ pc \in {"open", "header", "payload"} => target \in DOMAIN Containers
    /\ pc = "header" /\ ~short => Between(target, text, rest)
    /\ pc = "payload" /\ ~short => Within(target, text, hdr, rest)

\* A container that is found is one of the list.
LEMMA FoundIsListed ==
    ASSUME NEW name, FindContainer(name) # None
    PROVE  FindContainer(name) \in DOMAIN Containers
<1> DEFINE found == {k \in DOMAIN Containers : AnswersTo(Containers[k], name)}
<1>1. found # {}
  BY DEF FindContainer
<1>2. found \subseteq Nat /\ found \subseteq DOMAIN Containers
  BY LogsAssumption
<1>3. FindContainer(name) = CHOOSE k \in found : \A j \in found : k <= j
  BY <1>1 DEF FindContainer
<1> HIDE DEF found
<1>4. \E k \in found : \A j \in found : k <= j
  BY <1>1, <1>2, LeastNumber
<1>5. FindContainer(name) \in found
  BY <1>3, <1>4
<1> QED
  BY <1>2, <1>5

LEMMA PiecesGrow ==
    ASSUME NEW k, NEW m \in Nat
    PROVE  Append(Pieces(k, m), [bytes |-> Log(k)[m + 1], zeros |-> 0]) = Pieces(k, m + 1)
<1> DEFINE e(i) == [bytes |-> Log(k)[i], zeros |-> 0]
           T == {e(i) : i \in 1..m + 1}
           s == Pieces(k, m)
           t == Pieces(k, m + 1)
<1>1. s \in [1..m -> T] /\ t \in [1..m + 1 -> T] /\ e(m + 1) \in T
  BY DEF Pieces
<1>2. /\ \A i \in 1..m : s[i] = t[i]
      /\ t[m + 1] = e(m + 1)
  BY DEF Pieces
<1> HIDE DEF e, T, s, t
<1>3. s \in Seq(T) /\ Len(s) = m /\ t \in Seq(T) /\ Len(t) = m + 1
  BY <1>1
<1> DEFINE a == Append(s, e(m + 1))
<1>4. /\ a \in Seq(T) /\ Len(a) = m + 1
      /\ \A i \in 1..m : a[i] = s[i]
      /\ a[m + 1] = e(m + 1)
  BY <1>1, <1>3, AppendProperties
<1> HIDE DEF a
<1>5. \A i \in 1..Len(a) : a[i] = t[i]
  <2>1. ASSUME NEW i \in 1..Len(a) PROVE a[i] = t[i]
    <3>1. i \in 1..m \/ i = m + 1
      BY <1>4
    <3> QED
      BY <1>2, <1>4, <3>1
  <2> QED
    BY <2>1
<1>6. a = t
  BY <1>3, <1>4, <1>5, SeqEqual
<1> QED
  BY <1>6 DEF a, s, t, e

-----------------------------------------------------------------------------
(* One step *)

LEMMA OpenDemux ==
    ASSUME DemuxInv, OpenLogs
    PROVE  DemuxInv'
<1>1. CASE pc' = "idle" /\ Forget
  BY <1>1 DEF DemuxInv, Forget
<1>2. CASE pc' = "header" /\ rest' = Stream(target) /\ target' = target /\ text' = text
  <2>1. target \in DOMAIN Containers /\ text = <<>>
    BY DEF DemuxInv, OpenLogs
  <2>2. Frames(target) \in Seq(Seq(Byte)) /\ Len(Log(target)) \in Nat
    BY <2>1, FramesType
  <2>3. Stream(target) \in Seq(Byte) /\ Left(Frames(target), 0, Stream(target))
    BY <2>2, AllIsLeft, StreamIs
  <2>4. Pieces(target, 0) = <<>>
    BY DEF Pieces
  <2>5. AtFrame(target, 0, text, Stream(target))
    BY <2>1, <2>2, <2>3, <2>4 DEF AtFrame
  <2>6. Between(target', text', rest')
    BY <1>2, <2>5 DEF Between
  <2> QED
    BY <1>2, <2>1, <2>6 DEF DemuxInv
<1> QED
  BY <1>1, <1>2 DEF OpenLogs

LEMMA HeaderDemux ==
    ASSUME DemuxInv, ReadHeader
    PROVE  DemuxInv'
<1>1. /\ pc = "header" /\ pc' = "payload"
      /\ target' = target /\ text' = text
      /\ target \in DOMAIN Containers
  BY DEF DemuxInv, ReadHeader
<1>2. ASSUME ~ short'
      PROVE  Within(target', text', hdr', rest')
  <2>1. PICK k \in ReadCounts(HeaderSize) :
          /\ hdr' = SubSeq(rest, 1, k) \o SubSeq(hdr, k + 1, HeaderSize)
          /\ rest' = SubSeq(rest, k + 1, Len(rest))
          /\ short' = (short \/ k < MostBytes(HeaderSize))
    BY DEF ReadHeader
  <2>2. ~ short /\ ~ (k < MostBytes(HeaderSize))
    BY <1>2, <2>1
  <2>3. PICK m : AtFrame(target, m, text, rest)
    BY <1>1, <2>2 DEF DemuxInv, Between
  <2> DEFINE n == Len(Log(target))
             p == Log(target)[m + 1]
  <2>4. /\ n \in Nat /\ Frames(target) \in Seq(Seq(Byte)) /\ Len(Frames(target)) = n
    BY <1>1, FramesType
  <2>5. m # n
    <3>1. rest # <<>>
      BY DEF ReadHeader
    <3>2. rest \in Seq(Byte) /\ Left(Frames(target), m, rest)
      BY <2>3 DEF AtFrame
    <3> QED
      BY <2>4, <3>1, <3>2, NothingIsLeft
  <2>6. m \in 0..n - 1 /\ m + 1 \in 1..n
    BY <2>3, <2>4, <2>5 DEF AtFrame
  <2>7. PICK w \in Seq(Byte) : rest = Then(Header(p), Then(p, w)) /\ Left(Frames(target), m + 1, w)
    BY <1>1, <2>3, <2>6, FrameIsLeft DEF AtFrame
  <2>8. p \in Seq(Byte) /\ FitsHeader(p)
    BY <1>1, <2>6, LogType
  <2> HIDE DEF n, p
  <2>9. Header(p) \in Seq(Byte) /\ Len(Header(p)) = HeaderSize
    BY <2>8, HeaderIs
  <2>10. Then(p, w) \in Seq(Byte)
    BY <2>8, ThenType
  <2>11. /\ k = HeaderSize
         /\ SubSeq(rest, 1, k) = Header(p)
         /\ SubSeq(rest, k + 1, Len(rest)) = Then(p, w)
    BY <2>1, <2>2, <2>7, <2>9, <2>10, ReadTakesFront
  <2>12. SubSeq(hdr, k + 1, HeaderSize) = <<>>
    BY <2>11, SubSeqEmpty DEF HeaderSize
  <2>13. hdr' = Header(p)
    BY <2>1, <2>9, <2>11, <2>12, ConcatEmptySeq
  <2>14. AtPayload(target', m, w, text', hdr', rest')
    BY <1>1, <2>1, <2>3, <2>6, <2>7, <2>11, <2>13 DEF AtFrame, AtPayload, n, p
  <2> QED
    BY <2>14 DEF Within
<1> QED
  BY <1>1, <1>2 DEF DemuxInv

LEMMA PayloadDemux ==
    ASSUME DemuxInv, ReadPayload
    PROVE  DemuxInv'
<1>1. /\ pc = "payload" /\ pc' = "header" /\ target' = target
      /\ target \in DOMAIN Containers
  BY DEF DemuxInv, ReadPayload
<1>2. ASSUME ~ short'
      PROVE  Between(target', text', rest')
  <2>1. PICK k \in ReadCounts(PayloadSize(hdr)) :
          /\ text' = Append(text, [bytes |-> SubSeq(rest, 1, k), zeros |-> PayloadSize(hdr) - k])
          /\ rest' = SubSeq(rest, k + 1, Len(rest))
          /\ short' = (short \/ k < MostBytes(PayloadSize(hdr)))
    BY DEF ReadPayload
  <2>2. ~ short /\ ~ (k < MostBytes(PayloadSize(hdr)))
    BY <1>2, <2>1
  <2>3. PICK m, w : AtPayload(target, m, w, text, hdr, rest)
    BY <1>1, <2>2 DEF DemuxInv, Within
  <2> DEFINE n == Len(Log(target))
             p == Log(target)[m + 1]
  <2>4. n \in Nat
    BY <1>1, FramesType
  <2>5. /\ m \in 0..n - 1 /\ w \in Seq(Byte)
        /\ text = Pieces(target, m)
        /\ hdr = Header(p)
        /\ rest = Then(p, w)
        /\ Left(Frames(target), m + 1, w)
    BY <2>3 DEF AtPayload
  <2>6. m \in Nat /\ m + 1 \in 0..n /\ m + 1 \in 1..n
    BY <2>4, <2>5
  <2>7. p \in Seq(Byte) /\ FitsHeader(p)
    BY <1>1, <2>6, LogType
  <2> HIDE DEF n, p
  <2>8. PayloadSize(hdr) = Len(p)
    BY <2>5, <2>7, HeaderIs
  <2>9. /\ k = Len(p)
        /\ SubSeq(rest, 1, k) = p
        /\ SubSeq(rest, k + 1, Len(rest)) = w
    BY <2>1, <2>2, <2>5, <2>7, <2>8, ReadTakesFront
  <2>10. Len(p) - Len(p) = 0
    BY <2>7, LenProperties
  <2>11. text' = Append(Pieces(target, m), [bytes |-> p, zeros |-> 0])
    BY <2>1, <2>5, <2>8, <2>9, <2>10
  <2>12. text' = Pieces(target, m + 1)
    BY <2>6, <2>11, PiecesGrow DEF p
  <2>13. AtFrame(target', m + 1, text', rest')
    BY <1>1, <2>1, <2>5, <2>6, <2>9, <2>12 DEF AtFrame, n
  <2> QED
    BY <2>13 DEF Between
<1> QED
  BY <1>1, <1>2 DEF DemuxInv

LEMMA StartDemux == Init => DemuxInv
  BY DEF Init, DemuxInv

LEMMA StepDemux == DemuxInv /\ [Next]_vars => DemuxInv'
<1> SUFFICES ASSUME DemuxInv, [Next]_vars PROVE DemuxInv'
  OBVIOUS
<1> DEFINE same == target' = target /\ rest' = rest /\ hdr' = hdr /\ text' = text /\ short' = short
<1>1. ASSUME same, pc' = pc PROVE DemuxInv'
  BY <1>1 DEF DemuxInv
<1>2. CASE UNCHANGED vars
  BY <1>1, <1>2 DEF vars
<1>3. CASE NewDiagnosticsEngine
  <2>1. same /\ pc = "start" /\ pc' = "idle"
    BY <1>3 DEF NewDiagnosticsEngine, tail
  <2> QED
    BY <2>1 DEF DemuxInv
<1>4. CASE ReachabilityChanges \/ ListContainers \/ ListPods
  BY <1>1, <1>4 DEF ReachabilityChanges, ListContainers, ListPods, List, tail
<1>5. ASSUME NEW name, CallTailLogs(name) PROVE DemuxInv'
  <2>1. CASE UNCHANGED <<pc, tail>>
    BY <1>1, <2>1 DEF tail
  <2>2. CASE ~ UNCHANGED <<pc, tail>>
    <3>1. TailLogs(name)
      BY <1>5, <2>2 DEF CallTailLogs
    <3>2. /\ FindContainer(name) # None
          /\ pc' = "open"
          /\ target' = FindContainer(name)
          /\ text' = text
      BY <2>2, <3>1 DEF TailLogs
    <3>3. target' \in DOMAIN Containers
      BY <3>2, FoundIsListed
    <3>4. text = <<>>
      BY <1>5 DEF CallTailLogs, DemuxInv
    <3> QED
      BY <3>2, <3>3, <3>4 DEF DemuxInv
  <2> QED
    BY <2>1, <2>2
<1>6. CASE EndOfLog
  BY <1>6 DEF EndOfLog, Forget, DemuxInv
<1> QED
  BY <1>2, <1>3, <1>4, <1>5, <1>6, OpenDemux, HeaderDemux, PayloadDemux DEF Next

-----------------------------------------------------------------------------
(* The reply *)

\* m pieces are the log when the first m payloads are all it has.
LEMMA PiecesAreWritten ==
    ASSUME NEW k \in DOMAIN Containers, NEW m \in 0..Len(Log(k)),
           Joined(Log(k), m) = FlattenSeq(Log(k)),
           target = k, text = Pieces(k, m)
    PROVE  BufferIsWritten
<1> DEFINE s == Log(k)
           g == [i \in DOMAIN text |-> text[i].bytes]
<1>1. /\ s \in Seq(Seq(Byte)) /\ Len(s) \in Nat /\ m \in 0..Len(s)
      /\ Joined(s, m) = FlattenSeq(s)
  BY LogType, FramesType
<1>2. \A i \in 1..m : s[i] \in Seq(Byte)
  BY <1>1, LogType
<1>3. /\ DOMAIN text = 1..m
      /\ \A i \in 1..m : text[i].bytes = s[i] /\ text[i].zeros = 0
  BY DEF Pieces
<1>4. g \in [1..m -> Seq(Byte)] /\ \A i \in 1..m : g[i] = s[i]
  BY <1>2, <1>3
<1> HIDE DEF g, s
<1>5. g \in Seq(Seq(Byte)) /\ Len(g) = m
  BY <1>1, <1>4
<1>6. FlattenSeq(g) = Joined(g, m)
  BY <1>5, FlattenIsJoined
<1>7. Joined(g, m) = Joined(s, m)
  <2>1. m \in Nat /\ m <= Len(s) /\ m <= Len(g)
    BY <1>1, <1>5
  <2> QED
    BY <1>1, <1>4, <1>5, <2>1, JoinedAlike
<1>8. FlattenSeq(g) = Written(target)
  BY <1>1, <1>6, <1>7, StreamIs DEF s
<1> QED
  BY <1>3, <1>8 DEF BufferIsWritten, g

LEMMA EndIsWhole == DemuxInv /\ EndOfLog /\ ~short => BufferIsWritten
<1> SUFFICES ASSUME DemuxInv, EndOfLog, ~short PROVE BufferIsWritten
  OBVIOUS
<1>1. target \in DOMAIN Containers /\ rest = <<>> /\ pc \in {"header", "payload"}
  BY DEF DemuxInv, EndOfLog
<1> DEFINE k == target
           s == Log(k)
           n == Len(s)
<1>2. n \in Nat /\ s \in Seq(Seq(Byte)) /\ FlattenSeq(s) = Joined(s, n)
  BY <1>1, FramesType, LogType, FlattenIsJoined
\* At the end of the stream no frame is left.
<1>3. ASSUME NEW m \in 0..n, Left(Frames(k), m, <<>>) PROVE m = n
  <2>1. CASE m \in 0..n - 1
    <3>1. <<>> \in Seq(Byte)
      BY EmptySeq
    <3> QED
      BY <1>1, <1>3, <2>1, <3>1, FrameIsLeft
  <2> QED
    BY <1>2, <2>1
<1>4. CASE pc = "header"
  <2>1. PICK m : AtFrame(k, m, text, rest)
    BY <1>4 DEF DemuxInv, Between
  <2>2. m \in 0..n /\ text = Pieces(k, m) /\ Left(Frames(k), m, <<>>)
    BY <1>1, <2>1 DEF AtFrame
  <2>3. m = n
    BY <1>3, <2>2
  <2> QED
    BY <1>1, <1>2, <2>2, <2>3, PiecesAreWritten
\* The stream ends behind a header only when the last payload is empty.
<1>5. CASE pc = "payload"
  <2>1. PICK m, w : AtPayload(k, m, w, text, hdr, rest)
    BY <1>5 DEF DemuxInv, Within
  <2>2. /\ m \in 0..n - 1 /\ w \in Seq(Byte) /\ text = Pieces(k, m)
        /\ rest = Then(s[m + 1], w)
        /\ Left(Frames(k), m + 1, w)
    BY <2>1 DEF AtPayload
  <2>3. m + 1 \in 0..n /\ m + 1 \in 1..n /\ m \in 0..n
    BY <1>2, <2>2
  <2>4. s[m + 1] \in Seq(Byte)
    BY <1>1, <2>3, LogType
  <2>5. s[m + 1] = <<>> /\ w = <<>>
    <3> DEFINE x == s[m + 1]
    <3>1. x \in Seq(Byte) /\ w \in Seq(Byte) /\ x \o w = <<>>
      BY <1>1, <2>2, <2>4 DEF Then
    <3> HIDE DEF x
    <3>2. x = <<>> /\ w = <<>>
      BY <3>1, ConcatEqualIffEmpty
    <3> QED
      BY <3>2 DEF x
  <2>6. m + 1 = n
    BY <1>3, <2>2, <2>3, <2>5
  <2>7. n \in 1..n /\ n - 1 = m /\ s[n] = <<>>
    BY <1>2, <2>2, <2>5, <2>6
  <2>8. Joined(s, n) = Then(Joined(s, m), <<>>)
    <3>1. Joined(s, n) = Then(Joined(s, n - 1), s[n])
      BY <1>2, <2>7, JoinedGrows
    <3> QED
      BY <2>7, <3>1
  <2>9. Joined(s, m) \in Seq(Byte)
    BY <1>2, <2>3, JoinedType
  <2>10. Joined(s, m) = FlattenSeq(s)
    BY <1>2, <2>8, <2>9, ThenEmpty
  <2> QED
    BY <1>1, <2>2, <2>3, <2>10, PiecesAreWritten
<1> QED
  BY <1>1, <1>4, <1>5

\* For every list of containers and every log, cut into frames of any length in any
\* way and read back as long as every Read returns all that fits, the reply is
\* what the container wrote.
THEOREM DemuxIsRight == Spec => LogIsWholeUnlessShort
<1>1. Spec => []DemuxInv
  BY StartDemux, StepDemux, PTL DEF Spec
<1>2. DemuxInv /\ [Next]_vars => [EndOfLog /\ ~short => BufferIsWritten]_vars
  BY EndIsWhole
<1> QED
  BY <1>1, <1>2, PTL DEF Spec, LogIsWholeUnlessShort
=============================================================================
