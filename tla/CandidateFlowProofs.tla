-------------------------- MODULE CandidateFlowProofs --------------------------
(***************************************************************************)
(* The walks of the candidate mapper over the calls of a plugin find what  *)
(* there is to find, for any plugin and any bound on the depth.            *)
(***************************************************************************)
EXTENDS CandidateMapProofs, WellFoundedInduction, FiniteSetTheorems,
        SequenceTheorems

-----------------------------------------------------------------------------
(* Induction, for sets of numbers: the least number of a set.              *)

LEMMA LeastNumber ==
  ASSUME NEW T, T \subseteq Nat, T # {}
  PROVE  \E n \in T : \A m \in T : n <= m
<1> DEFINE Less == {p \in Nat \X Nat : p[1] < p[2]}
<1>1. IsWellFoundedOn(Less, Nat)
  BY NatLessThanWellFounded DEF OpToRel
<1>2. PICK n \in T : \A m \in T : <<m, n>> \notin Less
  BY <1>1, WFMin
<1>3. ASSUME NEW m \in T PROVE n <= m
  <2>1. m \in Nat /\ n \in Nat
    OBVIOUS
  <2>2. ~(m < n)
    BY <1>2, <2>1
  <2> QED
    BY <2>1, <2>2
<1> QED
  BY <1>3

LEMMA NumbersInductively ==
  ASSUME NEW T, 0 \in T, \A n \in Nat : n \in T => n + 1 \in T
  PROVE  Nat \subseteq T
<1> SUFFICES ASSUME Nat \ T # {} PROVE FALSE
  OBVIOUS
<1>1. PICK n \in Nat \ T : \A m \in Nat \ T : n <= m
  BY LeastNumber
<1>2. n # 0 /\ n - 1 \in Nat /\ ~(n <= n - 1)
  BY <1>1
<1>3. n - 1 \in T
  BY <1>1, <1>2
<1> QED
  BY <1>1, <1>2, <1>3

-----------------------------------------------------------------------------
(* Spread.                                                                 *)

Further(next, S) == S \cup UNION {next[x] : x \in S}
Rounds(a, next, S, n) ==
  a = [k \in 0..n |-> IF k = 0 THEN S ELSE Further(next, a[k - 1])]

LEMMA RoundsExist ==
  ASSUME NEW next, NEW S, NEW n \in Nat
  PROVE  \E a : Rounds(a, next, S, n)
<1> DEFINE T == {m \in Nat : \E a : Rounds(a, next, S, m)}
<1>1. 0 \in T
  <2>1. Rounds([k \in 0..0 |-> S], next, S, 0)
    BY DEF Rounds
  <2> QED
    BY <2>1
<1>2. ASSUME NEW m \in Nat, m \in T PROVE m + 1 \in T
  <2>1. PICK a : Rounds(a, next, S, m)
    BY <1>2
  <2> DEFINE b == [k \in 0..m + 1 |-> IF k = m + 1 THEN Further(next, a[m]) ELSE a[k]]
  <2>2. ASSUME NEW k \in 0..m + 1
        PROVE  b[k] = IF k = 0 THEN S ELSE Further(next, b[k - 1])
    <3>1. CASE k = 0
      BY <2>1, <3>1 DEF Rounds
    <3>2. CASE k \in 1..m
      <4>1. k \in 0..m /\ k # 0 /\ k # m + 1 /\ k - 1 \in 0..m + 1 /\ k - 1 # m + 1
        BY <3>2
      <4>2. a[k] = Further(next, a[k - 1])
        BY <2>1, <4>1 DEF Rounds
      <4>3. b[k] = a[k] /\ b[k - 1] = a[k - 1]
        BY <4>1
      <4> QED
        BY <4>1, <4>2, <4>3
    <3>3. CASE k = m + 1
      <4>1. b[k] = Further(next, a[m]) /\ b[m] = a[m] /\ k - 1 = m /\ k # 0
        BY <3>3
      <4> QED
        BY <4>1
    <3> QED
      BY <3>1, <3>2, <3>3
  <2>3. Rounds(b, next, S, m + 1)
    BY <2>2 DEF Rounds
  <2> QED
    BY <2>3
<1> HIDE DEF T
<1>3. n \in T
  BY <1>1, <1>2, NumbersInductively
<1> QED
  BY <1>3 DEF T

LEMMA RoundsAgree ==
  ASSUME NEW next, NEW S, NEW m \in Nat, NEW n \in Nat, m <= n,
         NEW a, Rounds(a, next, S, m), NEW b, Rounds(b, next, S, n)
  PROVE  a[m] = b[m]
<1> DEFINE T == {k \in Nat : k <= m => a[k] = b[k]}
<1>1. 0 \in T
  BY DEF Rounds
<1>2. ASSUME NEW k \in Nat, k \in T PROVE k + 1 \in T
  <2> SUFFICES ASSUME k + 1 <= m PROVE a[k + 1] = b[k + 1]
    OBVIOUS
  <2>1. /\ k + 1 \in 0..m /\ k + 1 \in 0..n /\ k + 1 # 0 /\ (k + 1) - 1 = k
        /\ a[k] = b[k]
    BY <1>2
  <2>2. a[k + 1] = Further(next, a[k])
    BY <2>1 DEF Rounds
  <2>3. b[k + 1] = Further(next, b[k])
    BY <2>1 DEF Rounds
  <2> QED
    BY <2>1, <2>2, <2>3
<1> HIDE DEF T
<1>3. m \in T
  BY <1>1, <1>2, NumbersInductively
<1> QED
  BY <1>3 DEF T

LEMMA SpreadIsRounds ==
  ASSUME NEW next, NEW S, NEW n \in Nat
  PROVE  \E a : Rounds(a, next, S, n) /\ Spread(next, S, n) = a[n]
<1> DEFINE after == CHOOSE a : a = [k \in 0..n |-> IF k = 0 THEN S
                       ELSE a[k - 1] \cup UNION {next[x] : x \in a[k - 1]}]
<1>1. Spread(next, S, n) = after[n]
  BY DEF Spread
<1>2. \E a : a = [k \in 0..n |-> IF k = 0 THEN S
                       ELSE a[k - 1] \cup UNION {next[x] : x \in a[k - 1]}]
  <2>1. PICK a : Rounds(a, next, S, n)
    BY RoundsExist
  <2>2. a = [k \in 0..n |-> IF k = 0 THEN S
               ELSE a[k - 1] \cup UNION {next[x] : x \in a[k - 1]}]
    BY <2>1 DEF Rounds, Further
  <2> QED
    BY <2>2
<1>3. after = [k \in 0..n |-> IF k = 0 THEN S
                  ELSE after[k - 1] \cup UNION {next[x] : x \in after[k - 1]}]
  BY <1>2
<1> HIDE DEF after
<1> QED
  BY <1>1, <1>3 DEF Rounds, Further

\* Spread goes one step further with each round.
LEMMA SpreadSteps ==
  ASSUME NEW next, NEW S, NEW n \in Nat
  PROVE  /\ Spread(next, S, 0) = S
         /\ \A y : y \in Spread(next, S, n + 1) <=>
              \/ y \in Spread(next, S, n)
              \/ \E x \in Spread(next, S, n) : y \in next[x]
<1>1. Spread(next, S, 0) = S
  BY SpreadIsRounds DEF Rounds
<1>2. PICK a : Rounds(a, next, S, n) /\ Spread(next, S, n) = a[n]
  BY SpreadIsRounds
<1>3. PICK b : Rounds(b, next, S, n + 1) /\ Spread(next, S, n + 1) = b[n + 1]
  BY SpreadIsRounds
<1>4. a[n] = b[n]
  BY <1>2, <1>3, RoundsAgree
<1>5. b[n + 1] = Further(next, b[n])
  <2>1. n + 1 \in 0..n + 1 /\ n + 1 # 0 /\ (n + 1) - 1 = n
    OBVIOUS
  <2> QED
    BY <1>3, <2>1 DEF Rounds
<1> QED
  BY <1>1, <1>2, <1>3, <1>4, <1>5 DEF Further

LEMMA SpreadGrows ==
  ASSUME NEW next, NEW S, NEW m \in Nat, NEW n \in Nat, m <= n
  PROVE  Spread(next, S, m) \subseteq Spread(next, S, n)
<1> DEFINE T == {k \in Nat : Spread(next, S, m) \subseteq Spread(next, S, m + k)}
<1>1. 0 \in T
  OBVIOUS
<1>2. ASSUME NEW k \in Nat, k \in T PROVE k + 1 \in T
  <2>1. Spread(next, S, m + k) \subseteq Spread(next, S, (m + k) + 1)
    BY SpreadSteps
  <2>2. (m + k) + 1 = m + (k + 1)
    OBVIOUS
  <2> QED
    BY <1>2, <2>1, <2>2
<1> HIDE DEF T
<1>3. n - m \in T
  BY <1>1, <1>2, NumbersInductively
<1>4. m + (n - m) = n
  OBVIOUS
<1> QED
  BY <1>3, <1>4 DEF T

LEMMA SpreadStays ==
  ASSUME NEW D, NEW next \in [D -> SUBSET D], NEW S \in SUBSET D, NEW n \in Nat
  PROVE  Spread(next, S, n) \subseteq D
<1> DEFINE T == {k \in Nat : Spread(next, S, k) \subseteq D}
<1>1. 0 \in T
  BY SpreadSteps
<1>2. ASSUME NEW k \in Nat, k \in T PROVE k + 1 \in T
  <2>1. Spread(next, S, k) \subseteq D
    BY <1>2
  <2>2. ASSUME NEW y \in Spread(next, S, k + 1) PROVE y \in D
    <3>1. y \in Spread(next, S, k) \/ \E x \in Spread(next, S, k) : y \in next[x]
      BY SpreadSteps
    <3> QED
      BY <2>1, <3>1
  <2> QED
    BY <2>2
<1> HIDE DEF T
<1>3. n \in T
  BY <1>1, <1>2, NumbersInductively
<1> QED
  BY <1>3 DEF T

\* Spread is monotonic and goes its way from each element by itself.
LEMMA SpreadOfMore ==
  ASSUME NEW next, NEW S, NEW R, S \subseteq R, NEW n \in Nat
  PROVE  Spread(next, S, n) \subseteq Spread(next, R, n)
<1> DEFINE T == {k \in Nat : Spread(next, S, k) \subseteq Spread(next, R, k)}
<1>1. 0 \in T
  BY SpreadSteps
<1>2. ASSUME NEW k \in Nat, k \in T PROVE k + 1 \in T
  <2> SUFFICES ASSUME NEW y \in Spread(next, S, k + 1)
               PROVE  y \in Spread(next, R, k + 1)
    OBVIOUS
  <2>1. y \in Spread(next, S, k) \/ \E x \in Spread(next, S, k) : y \in next[x]
    BY SpreadSteps
  <2>2. y \in Spread(next, R, k) \/ \E x \in Spread(next, R, k) : y \in next[x]
    BY <1>2, <2>1
  <2> QED
    BY <2>2, SpreadSteps
<1> HIDE DEF T
<1>3. n \in T
  BY <1>1, <1>2, NumbersInductively
<1> QED
  BY <1>3 DEF T

LEMMA SpreadOfOne ==
  ASSUME NEW next, NEW S, NEW n \in Nat, NEW y \in Spread(next, S, n)
  PROVE  \E x \in S : y \in Spread(next, {x}, n)
<1> DEFINE T == {k \in Nat : \A z \in Spread(next, S, k) :
                             \E x \in S : z \in Spread(next, {x}, k)}
<1>1. 0 \in T
  <2>1. Spread(next, S, 0) = S /\ \A x : Spread(next, {x}, 0) = {x}
    BY SpreadSteps
  <2> QED
    BY <2>1
<1>2. ASSUME NEW k \in Nat, k \in T PROVE k + 1 \in T
  <2> SUFFICES ASSUME NEW z \in Spread(next, S, k + 1)
               PROVE  \E x \in S : z \in Spread(next, {x}, k + 1)
    OBVIOUS
  <2>1. z \in Spread(next, S, k) \/ \E w \in Spread(next, S, k) : z \in next[w]
    BY SpreadSteps
  <2>2. PICK w \in Spread(next, S, k) : z = w \/ z \in next[w]
    BY <2>1
  <2>3. PICK x \in S : w \in Spread(next, {x}, k)
    BY <1>2
  <2>4. z \in Spread(next, {x}, k + 1)
    BY <2>2, <2>3, SpreadSteps
  <2> QED
    BY <2>4
<1> HIDE DEF T
<1>3. n \in T
  BY <1>1, <1>2, NumbersInductively
<1> QED
  BY <1>3 DEF T

\* As many steps as there are elements leave nowhere to go.
LEMMA SpreadIsClosed ==
  ASSUME NEW D, IsFiniteSet(D), NEW next \in [D -> SUBSET D], NEW S \in SUBSET D,
         NEW x \in Spread(next, S, Cardinality(D))
  PROVE  next[x] \subseteq Spread(next, S, Cardinality(D))
<1> DEFINE N == Cardinality(D)
           Ball(k) == Spread(next, S, k)
           Stable(k) == \A u \in Ball(k) : next[u] \subseteq Ball(k)
<1>1. N \in Nat
  BY FS_CardinalityType
<1>2. ASSUME NEW k \in Nat
      PROVE  /\ IsFiniteSet(Ball(k)) /\ Cardinality(Ball(k)) \in Nat
             /\ Cardinality(Ball(k)) <= N
  <2>1. Ball(k) \subseteq D
    BY SpreadStays
  <2> QED
    BY <2>1, FS_Subset, FS_CardinalityType
<1>3. ASSUME NEW k \in Nat
      PROVE  /\ Ball(k) \subseteq Ball(k + 1)
             /\ Ball(k + 1) = Ball(k) => Stable(k)
             /\ Stable(k) => Ball(k + 1) = Ball(k)
  <2>1. \A y : y \in Ball(k + 1) <=> y \in Ball(k) \/ \E u \in Ball(k) : y \in next[u]
    BY SpreadSteps
  <2> HIDE DEF Ball
  <2> QED
    BY <2>1
<1> HIDE DEF N, Ball
<1> SUFFICES ASSUME ~Stable(N) PROVE FALSE
  BY DEF N, Ball
<1>4. ASSUME NEW k \in Nat, k <= N PROVE ~Stable(k)
  <2> SUFFICES ASSUME Stable(k) PROVE FALSE
    OBVIOUS
  <2> DEFINE T == {j \in Nat : Ball(k + j) = Ball(k)}
  <2>1. 0 \in T
    OBVIOUS
  <2>2. ASSUME NEW j \in Nat, j \in T PROVE j + 1 \in T
    <3>1. Ball(k + j) = Ball(k) /\ Stable(k + j)
      BY <2>2
    <3>2. Ball((k + j) + 1) = Ball(k + j)
      <4> HIDE DEF Stable, T
      <4> QED
        BY <1>3, <3>1
    <3>3. (k + j) + 1 = k + (j + 1)
      OBVIOUS
    <3> QED
      BY <3>1, <3>2, <3>3
  <2>3. N - k \in Nat /\ k + (N - k) = N
    BY <1>1, <1>4
  <2>4. N - k \in T
    <3> HIDE DEF T
    <3> QED
      BY <2>1, <2>2, <2>3, NumbersInductively
  <2> QED
    BY <2>3, <2>4
<1> HIDE DEF Stable
<1>5. ASSUME NEW k \in Nat, k <= N
      PROVE  Cardinality(Ball(k + 1)) >= Cardinality(Ball(k)) + 1
  <2>1. Ball(k) \in SUBSET Ball(k + 1) /\ Ball(k) # Ball(k + 1)
    BY <1>3, <1>4, <1>5
  <2>2. IsFiniteSet(Ball(k + 1)) /\ Cardinality(Ball(k + 1)) \in Nat /\ Cardinality(Ball(k)) \in Nat
    BY <1>2
  <2>3. Cardinality(Ball(k)) <= Cardinality(Ball(k + 1)) /\ Cardinality(Ball(k)) # Cardinality(Ball(k + 1))
    BY <2>1, <2>2, FS_Subset
  <2> QED
    BY <2>2, <2>3
<1> DEFINE T == {k \in Nat : k <= N + 1 => Cardinality(Ball(k)) >= k}
<1>6. 0 \in T
  BY <1>2
<1>7. ASSUME NEW k \in Nat, k \in T PROVE k + 1 \in T
  BY <1>1, <1>2, <1>5, <1>7
<1> HIDE DEF T
<1>8. N + 1 \in T
  BY <1>1, <1>6, <1>7, NumbersInductively
<1>9. Cardinality(Ball(N + 1)) >= N + 1
  BY <1>1, <1>8 DEF T
<1> QED
  BY <1>1, <1>2, <1>9

-----------------------------------------------------------------------------
(* A path that visits nothing twice leads wherever Spread gets to.         *)

Path(next, p, m, d, e) ==
  /\ p[0] = d /\ p[m] = e
  /\ \A j \in 1..m : p[j] \in next[p[j - 1]]
  /\ \A i, j \in 0..m : p[i] = p[j] => i = j

LEMMA SpreadHasPaths ==
  ASSUME NEW D, NEW next \in [D -> SUBSET D], NEW d \in D, NEW n \in Nat,
         NEW e \in Spread(next, {d}, n)
  PROVE  \E m \in 0..n : \E p \in [0..m -> D] : Path(next, p, m, d, e)
<1> DEFINE Ball(k) == Spread(next, {d}, k)
           PathTo(k, x) == \E m \in 0..k : \E p \in [0..m -> D] :
             Path(next, p, m, d, x) /\ \A j \in 0..m : p[j] \in Ball(k)
           T == {k \in Nat : \A x \in Ball(k) : PathTo(k, x)}
<1>0. /\ Ball(0) = {d}
      /\ \A k \in Nat : \A y : y \in Ball(k + 1) <=>
           y \in Ball(k) \/ \E x \in Ball(k) : y \in next[x]
  <2>1. Ball(0) = {d}
    BY SpreadSteps
  <2>2. ASSUME NEW k \in Nat
        PROVE  \A y : y \in Ball(k + 1) <=>
                 y \in Ball(k) \/ \E x \in Ball(k) : y \in next[x]
    BY SpreadSteps
  <2> QED
    BY <2>1, <2>2
<1> HIDE DEF Ball, PathTo
<1>1. 0 \in T
  <2> SUFFICES PathTo(0, d)
    BY <1>0
  <2> DEFINE q == [j \in 0..0 |-> d]
  <2>1. q \in [0..0 -> D] /\ Path(next, q, 0, d, d) /\ \A j \in 0..0 : q[j] \in Ball(0)
    BY <1>0 DEF Path
  <2> QED
    BY <2>1 DEF PathTo
<1>2. ASSUME NEW k \in Nat, k \in T PROVE k + 1 \in T
  <2> SUFFICES ASSUME NEW x \in Ball(k + 1) PROVE PathTo(k + 1, x)
    OBVIOUS
  <2>1. CASE x \in Ball(k)
    <3>1. PICK m \in 0..k : \E p \in [0..m -> D] :
            Path(next, p, m, d, x) /\ \A j \in 0..m : p[j] \in Ball(k)
      BY <1>2, <2>1 DEF PathTo
    <3>2. m \in 0..k + 1 /\ Ball(k) \subseteq Ball(k + 1)
      BY <1>0
    <3> QED
      BY <3>1, <3>2 DEF PathTo
  <2>2. CASE x \notin Ball(k)
    <3>1. PICK y \in Ball(k) : x \in next[y]
      BY <1>0, <2>2
    <3>0. PICK m \in 0..k : \E p \in [0..m -> D] :
            Path(next, p, m, d, y) /\ \A j \in 0..m : p[j] \in Ball(k)
      BY <1>2 DEF PathTo
    <3>2. PICK p \in [0..m -> D] :
            Path(next, p, m, d, y) /\ \A j \in 0..m : p[j] \in Ball(k)
      BY <3>0
    <3> DEFINE q == [j \in 0..m + 1 |-> IF j = m + 1 THEN x ELSE p[j]]
    <3>3. y \in D /\ x \in D
      BY <3>1, <3>2 DEF Path
    <3>4. /\ q[m + 1] = x /\ \A j \in 0..m : q[j] = p[j]
          /\ q \in [0..m + 1 -> D]
      BY <3>3
    <3> HIDE DEF q
    <3>5. m + 1 \in 0..k + 1 /\ \A j \in 0..m + 1 : j \in 0..m \/ j = m + 1
      OBVIOUS
    <3>6. q[0] = d /\ q[m + 1] = x
      BY <3>2, <3>4 DEF Path
    <3>7. ASSUME NEW j \in 1..m + 1 PROVE q[j] \in next[q[j - 1]]
      <4>1. CASE j = m + 1
        <5>1. q[j - 1] = y
          BY <3>2, <3>4, <4>1 DEF Path
        <5> QED
          BY <3>1, <3>4, <4>1, <5>1
      <4>2. CASE j # m + 1
        <5>1. j \in 1..m /\ j \in 0..m /\ j - 1 \in 0..m
          BY <4>2
        <5> QED
          BY <3>2, <3>4, <5>1 DEF Path
      <4> QED
        BY <4>1, <4>2
    <3>8. ASSUME NEW i \in 0..m + 1, NEW j \in 0..m + 1, q[i] = q[j] PROVE i = j
      BY <2>2, <3>2, <3>4, <3>5, <3>8 DEF Path
    <3>9. Path(next, q, m + 1, d, x)
      BY <3>6, <3>7, <3>8 DEF Path
    <3>10. \A j \in 0..m + 1 : q[j] \in Ball(k + 1)
      BY <1>0, <3>2, <3>4, <3>5
    <3> QED
      BY <3>4, <3>5, <3>9, <3>10 DEF PathTo
  <2> QED
    BY <2>1, <2>2
<1> HIDE DEF T
<1>3. n \in T
  BY <1>1, <1>2, NumbersInductively
<1> QED
  BY <1>3 DEF T, Ball, PathTo

-----------------------------------------------------------------------------
(* A queue as the set of its elements.                                     *)

LEMMA SetAsSequence ==
  ASSUME NEW S, IsFiniteSet(S)
  PROVE  SetToSeq(S) \in Seq(S) /\ ToSet(SetToSeq(S)) = S
<1> DEFINE n == Cardinality(S)
<1>1. n \in Nat /\ \E f \in [1..n -> S] : IsInjective(f)
  BY FS_CardinalityType DEF ExistsBijection, Bijection, Injection
<1>2. SetToSeq(S) \in [1..n -> S] /\ IsInjective(SetToSeq(S))
  BY <1>1 DEF SetToSeq
<1>3. SetToSeq(S) \in Injection(1..n, S)
  BY <1>2 DEF Injection
<1>4. Cardinality(1..n) = n
  BY <1>1, FS_Interval
<1>5. SetToSeq(S) \in Surjection(1..n, S)
  BY <1>3, <1>4, FS_Injection
<1>6. \A x \in S : \E i \in 1..n : SetToSeq(S)[i] = x
  BY <1>5 DEF Surjection
<1>7. ToSet(SetToSeq(S)) = S
  BY <1>2, <1>6 DEF ToSet
<1> QED
  BY <1>1, <1>2, <1>7

LEMMA EmptyQueue == ToSet(<<>>) = {}
  BY DEF ToSet

LEMMA QueueOfOne ==
  ASSUME NEW x
  PROVE  <<x>> \in Seq({x}) /\ ToSet(<<x>>) = {x}
  BY DEF ToSet

\* The head of a queue leaves it and more comes to its end.
LEMMA QueueMoves ==
  ASSUME NEW P, NEW q \in Seq(P), q # <<>>, NEW r \in Seq(P)
  PROVE  /\ Head(q) \in ToSet(q)
         /\ Tail(q) \o r \in Seq(P)
         /\ ToSet(q) \subseteq {Head(q)} \cup ToSet(Tail(q) \o r)
         /\ ToSet(r) \subseteq ToSet(Tail(q) \o r)
         /\ ToSet(Tail(q) \o r) \subseteq ToSet(q) \cup ToSet(r)
<1> DEFINE t == Tail(q)
           z == t \o r
<1>1. /\ Len(q) \in Nat \ {0} /\ DOMAIN q = 1..Len(q) /\ Head(q) = q[1]
      /\ t \in Seq(P) /\ Len(t) = Len(q) - 1
      /\ \A i \in 1..Len(t) : t[i] = q[i + 1]
  BY HeadTailProperties, LenProperties, EmptySeq
<1>2. /\ Len(r) \in Nat /\ DOMAIN r = 1..Len(r)
  BY LenProperties
<1>3. /\ z \in Seq(P) /\ Len(z) = Len(t) + Len(r) /\ DOMAIN z = 1..Len(z)
      /\ \A i \in 1..Len(z) : z[i] = IF i <= Len(t) THEN t[i] ELSE r[i - Len(t)]
  BY <1>1, ConcatProperties, LenProperties
<1> HIDE DEF t, z
<1>4. Head(q) \in ToSet(q)
  BY <1>1 DEF ToSet
<1>5. ASSUME NEW x \in ToSet(q) PROVE x = Head(q) \/ x \in ToSet(z)
  <2>1. PICK i \in 1..Len(q) : x = q[i]
    BY <1>1 DEF ToSet
  <2>2. CASE i = 1
    BY <1>1, <2>1, <2>2
  <2>3. CASE i # 1
    <3>1. i - 1 \in 1..Len(t) /\ i - 1 \in 1..Len(z) /\ (i - 1) + 1 = i
      BY <1>1, <1>2, <1>3, <2>3
    <3>2. z[i - 1] = x
      <4>1. t[i - 1] = q[i]
        BY <1>1, <3>1
      <4>2. z[i - 1] = t[i - 1]
        BY <1>1, <1>3, <3>1
      <4> QED
        BY <2>1, <4>1, <4>2
    <3> QED
      BY <1>3, <3>1, <3>2 DEF ToSet
  <2> QED
    BY <2>2, <2>3
<1>6. ASSUME NEW x \in ToSet(r) PROVE x \in ToSet(z)
  <2>1. PICK i \in 1..Len(r) : x = r[i]
    BY <1>2 DEF ToSet
  <2>2. /\ Len(t) + i \in 1..Len(z) /\ ~(Len(t) + i <= Len(t))
        /\ (Len(t) + i) - Len(t) = i
    BY <1>1, <1>2, <1>3
  <2>3. z[Len(t) + i] = x
    BY <1>3, <2>1, <2>2
  <2> QED
    BY <1>3, <2>2, <2>3 DEF ToSet
<1>7. ASSUME NEW x \in ToSet(z) PROVE x \in ToSet(q) \/ x \in ToSet(r)
  <2>1. PICK i \in 1..Len(z) : x = z[i]
    BY <1>3 DEF ToSet
  <2>2. CASE i <= Len(t)
    <3>1. i \in 1..Len(t) /\ i + 1 \in 1..Len(q)
      BY <1>1, <2>2
    <3>2. x = q[i + 1]
      BY <1>1, <1>3, <2>1, <2>2, <3>1
    <3> QED
      BY <1>1, <3>1, <3>2 DEF ToSet
  <2>3. CASE ~(i <= Len(t))
    <3>1. i - Len(t) \in 1..Len(r)
      BY <1>1, <1>2, <1>3, <2>3
    <3>2. x = r[i - Len(t)]
      BY <1>3, <2>1, <2>3
    <3> QED
      BY <1>2, <3>1, <3>2 DEF ToSet
  <2> QED
    BY <2>2, <2>3
<1> QED
  BY <1>3, <1>4, <1>5, <1>6, <1>7 DEF z, t

\* The image of a finite set is finite.
LEMMA FiniteImage ==
  ASSUME NEW S, IsFiniteSet(S), NEW T, NEW f \in [S -> T],
         \A y \in T : \E x \in S : f[x] = y
  PROVE  IsFiniteSet(T)
<1>1. f \in Surjection(S, T)
  BY DEF Surjection
<1> QED
  BY <1>1, FS_Surjection

-----------------------------------------------------------------------------
(* The walk that collects what is in reach.                                *)

\* Everything that is called is a definition.
LEMMA CallsLeadToDefinitions == Called \in [Definition -> SUBSET Definition]
<1>1. \A c : ReachTargets(c) \subseteq Definition
  BY Zenon DEF ReachTargets, OfClass, Named
<1>2. \A d : CalledBy(d) \subseteq Definition
  BY <1>1 DEF CalledBy
<1> QED
  BY <1>2 DEF Called

LEMMA WithinSteps ==
  ASSUME NEW d \in Definition, NEW n \in Nat
  PROVE  /\ Within(d, 0) = {d}
         /\ \A e : e \in Within(d, n + 1) <=>
              e \in Within(d, n) \/ \E x \in Within(d, n) : e \in CalledBy(x)
         /\ Within(d, n) \subseteq Definition
<1>1. Within(d, 0) = {d}
  BY SpreadSteps DEF Within
<1>2. Within(d, n) \subseteq Definition
  BY SpreadStays, CallsLeadToDefinitions DEF Within
<1>3. \A x \in Within(d, n) : Called[x] = CalledBy(x)
  BY <1>2 DEF Called
<1>4. \A e : e \in Within(d, n + 1) <=>
        e \in Within(d, n) \/ \E x \in Within(d, n) : e \in Called[x]
  BY SpreadSteps DEF Within
<1> QED
  BY <1>1, <1>2, <1>3, <1>4

Place == [def : Definition, depth : 0..MaxDepth, seen : SUBSET Definition]

\* A path leads on from the place s to e within the depth that is left, and
\* round nothing that was seen on the way to s.
LeadsTo(s, e) ==
  \E m \in 0..MaxDepth : \E p \in [0..m -> Definition] :
    /\ m + s.depth <= MaxDepth
    /\ Path(Called, p, m, s.def, e)
    /\ \A j \in 1..m : p[j] \notin s.seen

\* What was visited is in reach, and a place that is queued leads to whatever
\* is in reach and was not visited yet.
ReachFits ==
  phase = "reach" =>
    /\ queue \in Seq(Place)
    /\ root \in nodes /\ nodes \subseteq Within(root, MaxDepth)
    /\ \A s \in ToSet(queue) : s.def \in nodes \cap Within(root, s.depth)
    /\ \A e \in Within(root, MaxDepth) \ nodes : \E s \in ToSet(queue) : LeadsTo(s, e)

WalkFits ==
  /\ program \in Program
  /\ phase \in {"idle", "direct", "reach", "seed"}
  /\ phase # "idle" => root \in Definition
  /\ phase = "seed" => nodes = Within(root, MaxDepth)

ReachIInv == MapIInv /\ WalkFits /\ ReachFits

\* At its start the root leads to all there is.
LEMMA ReachStarts ==
  ASSUME NEW s, s = [def |-> root, depth |-> 0, seen |-> {root}],
         root \in Definition, NEW e \in Within(root, MaxDepth)
  PROVE  LeadsTo(s, e)
<1>1. PICK m \in 0..MaxDepth : \E p \in [0..m -> Definition] : Path(Called, p, m, root, e)
  BY SpreadHasPaths, CallsLeadToDefinitions, FlowAssumption DEF Within
<1>2. PICK p \in [0..m -> Definition] : Path(Called, p, m, root, e)
  BY <1>1
<1>3. m + 0 <= MaxDepth
  BY FlowAssumption
<1>4. ASSUME NEW j \in 1..m PROVE p[j] # root
  <2>1. 0 \in 0..m /\ j \in 0..m /\ j # 0
    BY FlowAssumption
  <2> QED
    BY <1>2, <2>1 DEF Path
<1> QED
  BY <1>2, <1>3, <1>4 DEF LeadsTo

\* What a place leads to is the place itself or what one it leads to next does.
LEMMA ReachGoesOn ==
  ASSUME NEW s \in Place, NEW e, LeadsTo(s, e), e # s.def
  PROVE  /\ ~TooDeep(s)
         /\ \E d \in CalledBy(s.def) \ s.seen :
              LeadsTo([def |-> d, depth |-> s.depth + 1, seen |-> s.seen \cup {d}], e)
<1>1. PICK m \in 0..MaxDepth : \E p \in [0..m -> Definition] :
        /\ m + s.depth <= MaxDepth
        /\ Path(Called, p, m, s.def, e)
        /\ \A j \in 1..m : p[j] \notin s.seen
  BY DEF LeadsTo
<1>2. PICK p \in [0..m -> Definition] :
        /\ m + s.depth <= MaxDepth
        /\ Path(Called, p, m, s.def, e)
        /\ \A j \in 1..m : p[j] \notin s.seen
  BY <1>1
<1>3. m # 0 /\ m \in Nat /\ s.depth \in Nat /\ s.def \in Definition
  BY <1>2, FlowAssumption DEF Path, Place
<1>4. ~TooDeep(s)
  BY <1>2, <1>3, FlowAssumption DEF TooDeep
<1>5. 1 \in 1..m /\ 0 \in 0..m /\ 1 \in 0..m
  BY <1>3
<1>6. p[1] \in CalledBy(s.def) \ s.seen
  <2>1. p[1] \in Called[p[1 - 1]] /\ p[0] = s.def
    BY <1>2, <1>5 DEF Path
  <2>2. Called[s.def] = CalledBy(s.def) /\ 1 - 1 = 0
    BY <1>3 DEF Called
  <2> QED
    BY <1>2, <1>5, <2>1, <2>2
<1> DEFINE t == [def |-> p[1], depth |-> s.depth + 1, seen |-> s.seen \cup {p[1]}]
           q == [j \in 0..m - 1 |-> p[j + 1]]
<1>7. \A j \in 0..m - 1 : q[j] = p[j + 1] /\ j + 1 \in 0..m
  BY <1>3
<1>8. q \in [0..m - 1 -> Definition]
  BY <1>7
<1>9. t.def = p[1] /\ t.depth = s.depth + 1 /\ t.seen = s.seen \cup {p[1]}
  OBVIOUS
<1> HIDE DEF q, t
<1>10. Path(Called, q, m - 1, t.def, e)
  <2>1. q[0] = p[1] /\ q[m - 1] = p[m]
    BY <1>3, <1>7
  <2>2. ASSUME NEW j \in 1..m - 1 PROVE q[j] \in Called[q[j - 1]]
    <3>1. /\ j \in 0..m - 1 /\ j - 1 \in 0..m - 1 /\ j + 1 \in 1..m
          /\ (j - 1) + 1 = j /\ (j + 1) - 1 = j
      BY <1>3
    <3>2. q[j] = p[j + 1] /\ q[j - 1] = p[j]
      BY <1>7, <3>1
    <3> QED
      BY <1>2, <3>1, <3>2 DEF Path
  <2>3. ASSUME NEW i \in 0..m - 1, NEW j \in 0..m - 1, q[i] = q[j] PROVE i = j
    <3>1. p[i + 1] = p[j + 1]
      BY <1>7, <2>3
    <3>2. i + 1 = j + 1
      BY <1>2, <1>7, <3>1 DEF Path
    <3> QED
      BY <3>2
  <2> QED
    BY <1>2, <1>9, <2>1, <2>2, <2>3 DEF Path
<1>11. ASSUME NEW j \in 1..m - 1 PROVE q[j] \notin t.seen
  <2>1. j \in 0..m - 1 /\ j + 1 \in 1..m /\ j + 1 \in 0..m /\ j + 1 # 1
    BY <1>3
  <2>2. q[j] = p[j + 1] /\ p[j + 1] # p[1]
    BY <1>2, <1>5, <1>7, <2>1 DEF Path
  <2> QED
    BY <1>2, <1>9, <2>1, <2>2
<1>12. m - 1 \in 0..MaxDepth /\ (m - 1) + t.depth <= MaxDepth
  BY <1>2, <1>3, <1>9, FlowAssumption
<1>13. LeadsTo(t, e)
  BY <1>8, <1>10, <1>11, <1>12 DEF LeadsTo
<1> QED
  BY <1>4, <1>6, <1>13 DEF t

LEMMA ReachStays ==
  ASSUME ReachIInv, UNCHANGED <<program, root, phase, nodes>>,
         phase = "reach" => queue' = queue
  PROVE  WalkFits' /\ ReachFits'
<1>1. Called' = Called
  BY SameCalls
<1>2. \A d, n : Within(d, n)' = Within(d, n)
  BY <1>1 DEF Within
<1>3. \A s, e : LeadsTo(s, e)' <=> LeadsTo(s, e)
  BY <1>1 DEF LeadsTo
<1>4. WalkFits'
  BY <1>2 DEF ReachIInv, WalkFits
<1>5. ReachFits'
  <2> SUFFICES ASSUME phase = "reach" PROVE ReachFits'
    BY DEF ReachFits
  <2>1. Within(root, MaxDepth)' = Within(root, MaxDepth)
    BY <1>1 DEF Within
  <2>2. \A s \in ToSet(queue) : Within(root, s.depth)' = Within(root, s.depth)
    BY <1>1 DEF Within
  <2> QED
    BY <1>3, <2>1, <2>2 DEF ReachIInv, ReachFits
<1> QED
  BY <1>4, <1>5

LEMMA EndDirectKeepsReach ==
  ASSUME ReachIInv, EndDirect
  PROVE  WalkFits' /\ ReachFits'
<1>1. /\ UNCHANGED <<program, root>> /\ root \in Definition /\ program \in Program
      /\ \/ phase' = "idle"
         \/ /\ phase' = "reach" /\ nodes' = {root}
            /\ queue' = <<[def |-> root, depth |-> 0, seen |-> {root}]>>
  BY DEF EndDirect, ReachIInv, WalkFits
<1>2. WalkFits'
  BY <1>1 DEF WalkFits
<1>3. CASE phase' = "idle"
  BY <1>2, <1>3 DEF ReachFits
<1>4. CASE phase' # "idle"
  <2>0. PICK s : s = [def |-> root, depth |-> 0, seen |-> {root}]
    OBVIOUS
  <2>1. /\ phase' = "reach" /\ nodes' = {root}
        /\ queue' \in Seq(Place) /\ ToSet(queue') = {s}
    <3>1. queue' = <<s>> /\ phase' = "reach" /\ nodes' = {root}
      BY <1>1, <1>4, <2>0
    <3>2. s \in Place
      BY <1>1, <2>0, FlowAssumption DEF Place
    <3>3. <<s>> \in Seq(Place)
      BY <3>2
    <3> QED
      BY <3>1, <3>3, QueueOfOne
  <2>2. Called' = Called
    BY <1>1, SameCalls
  <2>3. root \in Within(root, 0) /\ root \in Within(root, MaxDepth)
    <3>1. Within(root, 0) = {root}
      BY <1>1, WithinSteps
    <3>2. Within(root, 0) \subseteq Within(root, MaxDepth)
      BY SpreadGrows, FlowAssumption DEF Within
    <3> QED
      BY <3>1, <3>2
  <2>4. s.def = root /\ s.depth = 0
    BY <2>0
  <2>5. ASSUME NEW e \in Within(root, MaxDepth) PROVE LeadsTo(s, e)
    BY <1>1, <2>0, ReachStarts
  <2>6. /\ Within(root, MaxDepth)' = Within(root, MaxDepth)
        /\ Within(root, s.depth)' = Within(root, s.depth)
    BY <1>1, <2>2, <2>4 DEF Within
  <2>7. \A e : LeadsTo(s, e)' <=> LeadsTo(s, e)
    BY <2>2 DEF LeadsTo
  <2>8. ReachFits'
    BY <1>1, <2>1, <2>3, <2>4, <2>5, <2>6, <2>7 DEF ReachFits
  <2> QED
    BY <1>2, <2>8
<1> QED
  BY <1>3, <1>4

LEMMA ExploreKeepsReach ==
  ASSUME ReachIInv, Explore
  PROVE  WalkFits' /\ ReachFits'
<1> DEFINE s == Head(queue)
           next == IF TooDeep(s) THEN {} ELSE CalledBy(s.def) \ s.seen
           PlaceOf(d) == [def |-> d, depth |-> s.depth + 1, seen |-> s.seen \cup {d}]
           new == {PlaceOf(d) : d \in next}
<1>1. /\ phase = "reach" /\ queue # <<>>
      /\ nodes' = nodes \cup next
      /\ queue' = Tail(queue) \o SetToSeq(new)
      /\ UNCHANGED <<program, root, phase>>
  BY DEF Explore
<1>2. /\ queue \in Seq(Place) /\ root \in Definition
      /\ root \in nodes /\ nodes \subseteq Within(root, MaxDepth)
      /\ \A t \in ToSet(queue) : t.def \in nodes \cap Within(root, t.depth)
      /\ \A e \in Within(root, MaxDepth) \ nodes : \E t \in ToSet(queue) : LeadsTo(t, e)
  BY <1>1 DEF ReachIInv, ReachFits, WalkFits
<1>3. s \in Place /\ s \in ToSet(queue)
  <2>1. s \in Place
    BY <1>1, <1>2, HeadTailProperties
  <2>2. s \in ToSet(queue)
    BY <1>1, <1>2, QueueMoves, EmptySeq
  <2> QED
    BY <2>1, <2>2
<1>4. /\ s.def \in Definition /\ s.depth \in 0..MaxDepth /\ s.seen \subseteq Definition
      /\ s.def \in nodes /\ s.def \in Within(root, s.depth)
  BY <1>2, <1>3 DEF Place
<1>5. next \subseteq Definition /\ \A d \in next : ~TooDeep(s) /\ d \in CalledBy(s.def)
  BY <1>4, CallsLeadToDefinitions DEF Called
<1>6. ASSUME NEW d \in next
      PROVE  /\ PlaceOf(d) \in Place
             /\ PlaceOf(d).def = d /\ PlaceOf(d).depth = s.depth + 1
             /\ d \in Within(root, s.depth + 1) /\ d \in Within(root, MaxDepth)
  <2>1. s.depth + 1 \in 0..MaxDepth /\ s.depth \in Nat /\ s.depth + 1 \in Nat
    BY <1>4, <1>5, FlowAssumption DEF TooDeep
  <2>2. PlaceOf(d) \in Place
    BY <1>4, <1>5, <2>1 DEF Place
  <2>3. d \in Within(root, s.depth + 1)
    BY <1>2, <1>4, <1>5, <2>1, WithinSteps
  <2>4. Within(root, s.depth + 1) \subseteq Within(root, MaxDepth)
    BY <2>1, SpreadGrows, FlowAssumption DEF Within
  <2> QED
    BY <2>2, <2>3, <2>4
<1>7. IsFiniteSet(new)
  <2>1. IsFiniteSet(next)
    BY <1>5, FlowAssumption, FS_Subset
  <2> DEFINE f == [d \in next |-> PlaceOf(d)]
  <2>2. f \in [next -> new] /\ \A t \in new : \E d \in next : f[d] = t
    OBVIOUS
  <2> HIDE DEF f
  <2> QED
    BY <2>1, <2>2, FiniteImage
<1>8. \A t \in new : \E d \in next : t = PlaceOf(d)
  OBVIOUS
<1>9. \A d \in next : PlaceOf(d) \in new
  OBVIOUS
<1>10. \A e : LeadsTo(s, e) /\ e # s.def => \E d \in next : LeadsTo(PlaceOf(d), e)
  BY <1>3, ReachGoesOn
<1> HIDE DEF s, next, PlaceOf, new
<1>11. /\ queue' \in Seq(Place)
       /\ ToSet(queue) \subseteq {s} \cup ToSet(queue')
       /\ new \subseteq ToSet(queue')
       /\ ToSet(queue') \subseteq ToSet(queue) \cup new
  <2>1. SetToSeq(new) \in Seq(new) /\ ToSet(SetToSeq(new)) = new
    BY <1>7, SetAsSequence
  <2>2. new \subseteq Place
    BY <1>6, <1>8
  <2>3. SetToSeq(new) \in Seq(Place)
    BY <2>1, <2>2, SeqMonotonic
  <2> QED
    BY <1>1, <1>2, <2>1, <2>3, QueueMoves DEF s
<1>12. Called' = Called
  BY <1>1, SameCalls
<1>13. \A t, e : LeadsTo(t, e)' <=> LeadsTo(t, e)
  BY <1>12 DEF LeadsTo
<1>14. /\ Within(root, MaxDepth)' = Within(root, MaxDepth)
       /\ \A t \in ToSet(queue') : Within(root, t.depth)' = Within(root, t.depth)
  BY <1>1, <1>12 DEF Within
<1>15. nodes' \subseteq Within(root, MaxDepth)
  BY <1>1, <1>2, <1>6
<1>16. \A t \in ToSet(queue') : t.def \in nodes' \cap Within(root, t.depth)
  BY <1>1, <1>2, <1>6, <1>8, <1>11
<1>17. ASSUME NEW e \in Within(root, MaxDepth) \ nodes'
       PROVE  \E t \in ToSet(queue') : LeadsTo(t, e)
  <2>1. PICK t \in ToSet(queue) : LeadsTo(t, e)
    BY <1>1, <1>2
  <2>2. CASE t = s
    <3>1. e # s.def
      BY <1>1, <1>4
    <3>2. PICK d \in next : LeadsTo(PlaceOf(d), e)
      BY <1>10, <2>1, <2>2, <3>1
    <3> QED
      BY <1>9, <1>11, <3>2
  <2>3. CASE t # s
    BY <1>11, <2>1, <2>3
  <2> QED
    BY <2>2, <2>3
<1>18. ReachFits'
  BY <1>1, <1>2, <1>11, <1>13, <1>14, <1>15, <1>16, <1>17 DEF ReachFits
<1>19. WalkFits'
  BY <1>1 DEF ReachIInv, WalkFits
<1> QED
  BY <1>18, <1>19

LEMMA NextKeepsReach ==
  ASSUME ReachIInv, [Next]_vars
  PROVE  WalkFits' /\ ReachFits'
<1>1. CASE UNCHANGED vars \/ Promote \/ IndexUnits \/ IndexState \/ IndexOrphans
           \/ AddPack \/ EndPacks \/ AddCase \/ EndCases
  BY <1>1, ReachStays DEF vars, walkVars, Promote, IndexUnits, IndexState,
     IndexOrphans, AddPack, EndPacks, AddCase, EndCases
<1>2. CASE KeepFlow
  BY <1>2, ReachStays DEF KeepFlow
<1>3. CASE WalkUnit
  BY <1>3 DEF WalkUnit, StartFlow, ReachIInv, MapIInv, UnitsFit, WalkFits, ReachFits
<1>4. CASE Visit \/ NextSeed
  BY <1>4, ReachStays DEF Visit, NextSeed
<1>5. CASE EndDirect
  BY <1>5, EndDirectKeepsReach
<1>6. CASE Explore
  BY <1>6, ExploreKeepsReach
<1>7. CASE EndReach
  <2>1. /\ UNCHANGED <<program, root, nodes>> /\ phase' = "seed" /\ phase = "reach"
        /\ ToSet(queue) = {}
    BY <1>7, EmptyQueue DEF EndReach
  <2>2. nodes = Within(root, MaxDepth)
    BY <2>1 DEF ReachIInv, ReachFits
  <2>3. Within(root, MaxDepth)' = Within(root, MaxDepth)
    BY <2>1, SameCalls DEF Within
  <2> QED
    BY <2>1, <2>2, <2>3 DEF ReachIInv, WalkFits, ReachFits
<1>8. CASE EndFlow
  BY <1>8 DEF EndFlow, ReachIInv, WalkFits, ReachFits
<1> QED
  BY <1>1, <1>2, <1>3, <1>4, <1>5, <1>6, <1>7, <1>8 DEF Next, Walk, WalkStep

\* The walk over what is in reach keeps to it and loses nothing.
THEOREM ReachInvariance == Spec => []ReachIInv
<1>1. Init => ReachIInv
  BY MapStarts DEF Init, ReachIInv, WalkFits, ReachFits
<1>2. ReachIInv /\ [Next]_vars => (WalkFits /\ ReachFits)'
  BY NextKeepsReach
<1>3. Spec => []MapIInv
  BY MapInvariance
<1> QED
  BY <1>1, <1>2, <1>3, PTL DEF Spec, ReachIInv

\* The walk over the calls, which keeps the path of each visit and goes round
\* no cycle, collects what is within the depth and nothing else.
THEOREM ReachIsExact == Spec => []ReachIsWithin
<1>1. ReachIInv => ReachIsWithin
  BY DEF ReachIInv, WalkFits, ReachIsWithin
<1> QED
  BY <1>1, ReachInvariance, PTL

-----------------------------------------------------------------------------
(* What the taint walk carries.                                            *)

LEMMA AssignmentsStayInVar == \A d : AssignedFrom(d) \in [Var -> SUBSET Var]
  BY DEF AssignedFrom

\* All that is assigned from vars: vars, what they are assigned to, and no more.
LEMMA AllAssignedHolds ==
  ASSUME NEW d, NEW V \in SUBSET Var
  PROVE  /\ V \subseteq AllAssigned(d, V) /\ AllAssigned(d, V) \subseteq Var
         /\ \A u \in AllAssigned(d, V) : AssignedFrom(d)[u] \subseteq AllAssigned(d, V)
         /\ AllAssigned(d, AllAssigned(d, V)) = AllAssigned(d, V)
<1> DEFINE next == AssignedFrom(d)
           N == Cardinality(Var)
           W == Spread(next, V, N)
<1>1. next \in [Var -> SUBSET Var] /\ N \in Nat /\ IsFiniteSet(Var)
  BY AssignmentsStayInVar, FS_CardinalityType, FlowAssumption
<1> HIDE DEF next, N
<1>2. V \subseteq W
  <2>1. Spread(next, V, 0) = V
    BY SpreadSteps
  <2>2. Spread(next, V, 0) \subseteq Spread(next, V, N)
    BY <1>1, SpreadGrows
  <2> QED
    BY <2>1, <2>2
<1>3. W \subseteq Var
  BY <1>1, SpreadStays
<1>4. \A x \in W : next[x] \subseteq W
  <2>1. Spread(next, V, Cardinality(Var)) = W
    BY DEF N
  <2>2. ASSUME NEW x \in W PROVE next[x] \subseteq W
    BY <1>1, <2>1, SpreadIsClosed
  <2> QED
    BY <2>2
<1> HIDE DEF W
<1>5. Spread(next, W, N) = W
  <2> DEFINE T == {k \in Nat : Spread(next, W, k) = W}
  <2>1. 0 \in T
    BY SpreadSteps
  <2>2. ASSUME NEW k \in Nat, k \in T PROVE k + 1 \in T
    <3>1. \A y : y \in Spread(next, W, k + 1) <=>
            y \in Spread(next, W, k) \/ \E x \in Spread(next, W, k) : y \in next[x]
      BY SpreadSteps
    <3> QED
      BY <1>4, <2>2, <3>1
  <2> HIDE DEF T
  <2>3. N \in T
    BY <1>1, <2>1, <2>2, NumbersInductively
  <2> QED
    BY <2>3 DEF T
<1> QED
  BY <1>2, <1>3, <1>4, <1>5 DEF AllAssigned, W, next, N

LEMMA AllAssignedOfMore ==
  ASSUME NEW d, NEW V, NEW W, V \subseteq W
  PROVE  AllAssigned(d, V) \subseteq AllAssigned(d, W)
  BY SpreadOfMore, FS_CardinalityType, FlowAssumption DEF AllAssigned

LEMMA AllAssignedOfOne ==
  ASSUME NEW d, NEW V, NEW v \in AllAssigned(d, V)
  PROVE  \E u \in V : v \in AllAssigned(d, {u})
  BY SpreadOfOne, FS_CardinalityType, FlowAssumption DEF AllAssigned

\* Steps that do not leave Q do not leave it when they are repeated.
Repetition(a, step, x, n) ==
  a = [k \in 0..n |-> IF k = 0 THEN x ELSE step[k][a[k - 1]]]

LEMMA RepetitionExists ==
  ASSUME NEW step, NEW x, NEW n \in Nat
  PROVE  \E a : Repetition(a, step, x, n)
<1> DEFINE T == {m \in Nat : \E a : Repetition(a, step, x, m)}
<1>1. 0 \in T
  <2>1. Repetition([k \in 0..0 |-> x], step, x, 0)
    BY DEF Repetition
  <2> QED
    BY <2>1
<1>2. ASSUME NEW m \in Nat, m \in T PROVE m + 1 \in T
  <2>1. PICK a : Repetition(a, step, x, m)
    BY <1>2
  <2> DEFINE last == step[m + 1][a[m]]
             b == [k \in 0..m + 1 |-> IF k = m + 1 THEN last ELSE a[k]]
  <2>2. ASSUME NEW k \in 0..m + 1
        PROVE  b[k] = IF k = 0 THEN x ELSE step[k][b[k - 1]]
    <3>1. CASE k = 0
      BY <2>1, <3>1 DEF Repetition
    <3>2. CASE k \in 1..m
      <4>1. k \in 0..m /\ k # 0 /\ k # m + 1 /\ k - 1 \in 0..m + 1 /\ k - 1 # m + 1
        BY <3>2
      <4>2. a[k] = step[k][a[k - 1]]
        BY <2>1, <4>1 DEF Repetition
      <4>3. b[k] = a[k] /\ b[k - 1] = a[k - 1]
        BY <4>1
      <4> QED
        BY <4>1, <4>2, <4>3
    <3>3. CASE k = m + 1
      <4>1. b[k] = last /\ b[m] = a[m] /\ k - 1 = m /\ k # 0
        BY <3>3
      <4> QED
        BY <3>3, <4>1
    <3> QED
      BY <3>1, <3>2, <3>3
  <2>3. Repetition(b, step, x, m + 1)
    BY <2>2 DEF Repetition
  <2> QED
    BY <2>3
<1> HIDE DEF T
<1>3. n \in T
  BY <1>1, <1>2, NumbersInductively
<1> QED
  BY <1>3 DEF T

LEMMA RepeatedIn ==
  ASSUME NEW n \in Nat, NEW step, NEW Q, NEW x \in Q,
         \A k \in 1..n : \A W \in Q : step[k][W] \in Q
  PROVE  Repeated(step, x, n) \in Q
<1> DEFINE after == CHOOSE a : a = [k \in 0..n |->
                       IF k = 0 THEN x ELSE step[k][a[k - 1]]]
<1>1. Repeated(step, x, n) = after[n]
  BY DEF Repeated
<1>2. \E a : a = [k \in 0..n |-> IF k = 0 THEN x ELSE step[k][a[k - 1]]]
  <2>1. PICK a : Repetition(a, step, x, n)
    BY RepetitionExists
  <2>2. a = [k \in 0..n |-> IF k = 0 THEN x ELSE step[k][a[k - 1]]]
    BY <2>1 DEF Repetition
  <2> QED
    BY <2>2
<1>3. after = [k \in 0..n |-> IF k = 0 THEN x ELSE step[k][after[k - 1]]]
  BY <1>2
<1> HIDE DEF after
<1> DEFINE T == {k \in Nat : k <= n => after[k] \in Q}
<1>4. 0 \in T
  BY <1>3
<1>5. ASSUME NEW k \in Nat, k \in T PROVE k + 1 \in T
  <2> SUFFICES ASSUME k + 1 <= n PROVE after[k + 1] \in Q
    OBVIOUS
  <2>1. /\ k + 1 \in 0..n /\ k + 1 \in 1..n /\ k + 1 # 0 /\ (k + 1) - 1 = k
        /\ after[k] \in Q
    BY <1>5
  <2>2. after[k + 1] = step[k + 1][after[k]]
    BY <1>3, <2>1
  <2> QED
    BY <2>1, <2>2
<1> HIDE DEF T
<1>6. n \in T
  BY <1>4, <1>5, NumbersInductively
<1> QED
  BY <1>1, <1>6 DEF T

LEMMA AssignmentsAreTyped ==
  ASSUME program \in Program
  PROVE  program.assign \in Seq(Definition \X Var \X Var)
BY MapAssumption DEF IsProgram

\* The passes add something that all chains of assignments lead to, and lose
\* nothing.
LEMMA AssignedHolds ==
  ASSUME program \in Program, NEW d, NEW V \in SUBSET Var
  PROVE  V \subseteq Assigned(d, V) /\ Assigned(d, V) \subseteq AllAssigned(d, V)
<1> DEFINE Q == {W \in SUBSET Var : V \subseteq W /\ W \subseteq AllAssigned(d, V)}
           N == Len(program.assign)
<1>1. /\ program.assign \in Seq(Definition \X Var \X Var)
      /\ N \in Nat /\ DOMAIN program.assign = 1..N
  BY AssignmentsAreTyped, LenProperties
<1>2. V \in Q
  BY AllAssignedHolds
<1>3. ASSUME NEW k \in 1..N, NEW W \in Q PROVE AssignmentsOf(d)[k][W] \in Q
  <2> DEFINE a == program.assign[k]
  <2>1. a \in Definition \X Var \X Var
    BY <1>1, ElementOfSeq
  <2>2. AssignmentsOf(d)[k][W] =
          IF a[1] = d /\ a[2] \in W THEN W \cup {a[3]} ELSE W
    BY <1>1 DEF AssignmentsOf
  <2>3. ASSUME a[1] = d, a[2] \in W PROVE a[3] \in AllAssigned(d, V) /\ a[3] \in Var
    <3>1. a = <<d, a[2], a[3]>> /\ a[2] \in Var /\ a[3] \in Var
      BY <2>1, <2>3
    <3>2. a[3] \in AssignedFrom(d)[a[2]]
      BY <1>1, <3>1 DEF AssignedFrom
    <3>3. a[2] \in AllAssigned(d, V)
      BY <2>3
    <3> QED
      BY <3>1, <3>2, <3>3, AllAssignedHolds
  <2> HIDE DEF a
  <2> QED
    BY <2>2, <2>3
<1>4. ASSUME NEW W \in Q PROVE Pass(d)[W] \in Q
  <2>1. Pass(d)[W] = Repeated(AssignmentsOf(d), W, N)
    BY DEF Pass
  <2>2. PICK step : step = AssignmentsOf(d)
    OBVIOUS
  <2> HIDE DEF Q, N
  <2>3. \A k \in 1..N : \A U \in Q : step[k][U] \in Q
    BY <1>3, <2>2
  <2>4. Repeated(step, W, N) \in Q
    BY <1>1, <2>3, RepeatedIn
  <2> QED
    BY <2>1, <2>2, <2>4
<1>5. Assigned(d, V) \in Q
  <2> DEFINE step == [k \in 1..MaxRounds |-> Pass(d)]
  <2>1. Assigned(d, V) = Repeated(step, V, MaxRounds) /\ MaxRounds \in Nat
    BY FlowAssumption DEF Assigned
  <2>2. \A k \in 1..MaxRounds : \A W \in Q : step[k][W] \in Q
    BY <1>4
  <2> HIDE DEF Q, step
  <2> QED
    BY <1>2, <2>1, <2>2, RepeatedIn
<1> QED
  BY <1>5

LEMMA TaintedIsAssigned ==
  ASSUME program \in Program, NEW d
  PROVE  /\ SourceVars(d) \in SUBSET Var /\ Tainted(d) \in SUBSET Var
         /\ SourceVars(d) \subseteq Tainted(d)
         /\ Tainted(d) \subseteq AllAssigned(d, SourceVars(d))
<1>1. SourceVars(d) \in SUBSET Var
  BY DEF SourceVars
<1>2. Tainted(d) = Assigned(d, SourceVars(d))
  BY DEF Tainted
<1>3. AllAssigned(d, SourceVars(d)) \subseteq Var
  BY <1>1, AllAssignedHolds
<1>4. /\ SourceVars(d) \subseteq Tainted(d)
      /\ Tainted(d) \subseteq AllAssigned(d, SourceVars(d))
  BY <1>1, <1>2, AssignedHolds
<1> QED
  BY <1>1, <1>3, <1>4

LEMMA TargetsAreDefinitions == \A c : TaintTargets(c) \subseteq Definition
<1>1. \A c, class : OfClass(c, class) \subseteq Definition
  BY DEF OfClass, Named
<1> QED
  BY <1>1 DEF TaintTargets

\* The parameters that receive a tainted argument, one argument at a time.
LEMMA ParamsOfOne ==
  ASSUME NEW c, NEW f \in Definition, NEW V
  PROVE  /\ TaintedParams(c, f, V) \subseteq Var
         /\ \A u \in TaintedParams(c, f, V) : \E w \in V : u \in TaintedParams(c, f, {w})
         /\ \A w \in V : TaintedParams(c, f, {w}) \subseteq TaintedParams(c, f, V)
<1>1. Params[f] \in Seq(Var)
  BY FlowAssumption
<1>2. \A i \in DOMAIN Params[f] : Params[f][i] \in Var
  BY <1>1
<1> QED
  BY <1>2 DEF TaintedParams

\* A call carries all its tainted arguments or, one by one, each of them.
LEMMA CallsCarryOneByOne ==
  ASSUME program \in Program, NEW e \in Definition, NEW V \in SUBSET Var,
         NEW c \in CallsOf(e), NEW f \in TaintTargets(c)
  PROVE  /\ TaintedParams(c, f, V) \in SUBSET Var
         /\ Assigned(f, TaintedParams(c, f, V)) \in SUBSET Var
         /\ \A v \in Assigned(f, TaintedParams(c, f, V)) :
              \E w \in V : <<f, v>> \in CarriedFrom(e, w)
<1>1. f \in Definition
  BY TargetsAreDefinitions
<1>2. TaintedParams(c, f, V) \in SUBSET Var
  BY <1>1, ParamsOfOne
<1>3. /\ Assigned(f, TaintedParams(c, f, V)) \subseteq AllAssigned(f, TaintedParams(c, f, V))
      /\ AllAssigned(f, TaintedParams(c, f, V)) \subseteq Var
  BY <1>2, AssignedHolds, AllAssignedHolds
<1>4. ASSUME NEW v \in AllAssigned(f, TaintedParams(c, f, V))
      PROVE  \E w \in V : <<f, v>> \in CarriedFrom(e, w)
  <2>1. PICK u \in TaintedParams(c, f, V) : v \in AllAssigned(f, {u})
    BY AllAssignedOfOne
  <2>2. PICK w \in V : u \in TaintedParams(c, f, {w})
    BY <1>1, ParamsOfOne
  <2>3. AllAssigned(f, {u}) \subseteq AllAssigned(f, TaintedParams(c, f, {w}))
    BY <2>2, AllAssignedOfMore
  <2>4. <<f, v>> \in Definition \X Var
    BY <1>1, <1>3
  <2>5. <<f, v>> \in CarriedFrom(e, w)
    BY <2>1, <2>3, <2>4 DEF CarriedFrom
  <2> QED
    BY <2>5
<1> QED
  BY <1>2, <1>3, <1>4

LEMMA CallsCarryMore ==
  ASSUME NEW c, NEW f \in Definition, NEW V, NEW w \in V
  PROVE  AllAssigned(f, TaintedParams(c, f, {w})) \subseteq AllAssigned(f, TaintedParams(c, f, V))
<1>1. TaintedParams(c, f, {w}) \subseteq TaintedParams(c, f, V)
  BY ParamsOfOne
<1> QED
  BY <1>1, AllAssignedOfMore

\* A pair that is carried by n + 1 calls is carried by n or by one more.
LEMMA CarriedSteps ==
  ASSUME NEW d \in Definition
  PROVE  /\ \A n \in Nat : Carried(d, n) \subseteq Definition \X Var
         /\ \A p : p \in Carried(d, 0) <=>
              \E v \in AllAssigned(d, SourceVars(d)) : p = <<d, v>>
         /\ \A n \in Nat : \A p : p \in Carried(d, n + 1) <=>
              \/ p \in Carried(d, n)
              \/ \E q \in Carried(d, n) : p \in CarriedFrom(q[1], q[2])
         /\ \A m \in Nat, n \in Nat : m <= n => Carried(d, m) \subseteq Carried(d, n)
<1> DEFINE Pair == Definition \X Var
           next == [q \in Pair |-> CarriedFrom(q[1], q[2])]
           start == {<<d, v>> : v \in AllAssigned(d, SourceVars(d))}
<1>1. next \in [Pair -> SUBSET Pair]
  BY DEF CarriedFrom
<1>2. \A p : p \in start <=> \E v \in AllAssigned(d, SourceVars(d)) : p = <<d, v>>
  OBVIOUS
<1>3. start \in SUBSET Pair
  <2>1. SourceVars(d) \in SUBSET Var
    BY DEF SourceVars
  <2>2. AllAssigned(d, SourceVars(d)) \subseteq Var
    BY <2>1, AllAssignedHolds
  <2> QED
    BY <2>2
<1>4. \A n : Carried(d, n) = Spread(next, start, n)
  BY DEF Carried
<1>5. \A q \in Pair : next[q] = CarriedFrom(q[1], q[2])
  OBVIOUS
<1> HIDE DEF Pair, next, start
<1>6. ASSUME NEW n \in Nat PROVE Carried(d, n) \subseteq Pair
  BY <1>1, <1>3, <1>4, SpreadStays
<1>7. \A p : p \in Carried(d, 0) <=>
        \E v \in AllAssigned(d, SourceVars(d)) : p = <<d, v>>
  BY <1>2, <1>4, SpreadSteps
<1>8. ASSUME NEW n \in Nat, NEW p
      PROVE  p \in Carried(d, n + 1) <=>
               p \in Carried(d, n) \/ \E q \in Carried(d, n) : p \in CarriedFrom(q[1], q[2])
  <2>1. p \in Spread(next, start, n + 1) <=>
          p \in Spread(next, start, n) \/ \E q \in Spread(next, start, n) : p \in next[q]
    BY SpreadSteps
  <2>2. \A q \in Carried(d, n) : next[q] = CarriedFrom(q[1], q[2])
    BY <1>5, <1>6
  <2> QED
    BY <1>4, <2>1, <2>2
<1>9. ASSUME NEW m \in Nat, NEW n \in Nat, m <= n
      PROVE  Carried(d, m) \subseteq Carried(d, n)
  BY <1>4, <1>9, SpreadGrows
<1> QED
  BY <1>6, <1>7, <1>8, <1>9 DEF Pair

\* What is carried into a body is carried along the assignments in it.
LEMMA CarriedIsClosed ==
  ASSUME NEW d \in Definition, NEW n \in Nat, NEW e, NEW u, NEW v,
         <<e, u>> \in Carried(d, n), v \in AllAssigned(e, {u})
  PROVE  <<e, v>> \in Carried(d, n)
<1> DEFINE T == {k \in Nat : \A f, x, y :
                   <<f, x>> \in Carried(d, k) /\ y \in AllAssigned(f, {x})
                   => <<f, y>> \in Carried(d, k)}
<1>1. 0 \in T
  <2> SUFFICES ASSUME NEW f, NEW x, NEW y,
                      <<f, x>> \in Carried(d, 0), y \in AllAssigned(f, {x})
               PROVE  <<f, y>> \in Carried(d, 0)
    OBVIOUS
  <2> DEFINE W == AllAssigned(d, SourceVars(d))
  <2>1. f = d /\ x \in W
    BY CarriedSteps
  <2>2. W \in SUBSET Var /\ AllAssigned(d, W) = W
    BY AllAssignedHolds DEF SourceVars
  <2>3. y \in AllAssigned(d, W)
    <3> HIDE DEF W
    <3> QED
      BY <2>1, AllAssignedOfMore
  <2> QED
    BY <2>1, <2>2, <2>3, CarriedSteps
<1>2. ASSUME NEW k \in Nat, k \in T PROVE k + 1 \in T
  <2> SUFFICES ASSUME NEW f, NEW x, NEW y,
                      <<f, x>> \in Carried(d, k + 1), y \in AllAssigned(f, {x})
               PROVE  <<f, y>> \in Carried(d, k + 1)
    OBVIOUS
  <2>1. CASE <<f, x>> \in Carried(d, k)
    <3>1. <<f, y>> \in Carried(d, k)
      BY <1>2, <2>1
    <3> QED
      BY <3>1, CarriedSteps
  <2>2. CASE <<f, x>> \notin Carried(d, k)
    <3>1. PICK q \in Carried(d, k) : <<f, x>> \in CarriedFrom(q[1], q[2])
      BY <2>2, CarriedSteps
    <3> DEFINE P(c) == TaintedParams(c, f, {q[2]})
    <3>2. /\ f \in Definition
          /\ \E c \in CallsOf(q[1]) : f \in TaintTargets(c) /\ x \in AllAssigned(f, P(c))
      BY <3>1 DEF CarriedFrom
    <3>3. PICK c \in CallsOf(q[1]) : f \in TaintTargets(c) /\ x \in AllAssigned(f, P(c))
      BY <3>2
    <3>4. P(c) \in SUBSET Var
      BY <3>2, ParamsOfOne
    <3> HIDE DEF P
    <3>5. /\ AllAssigned(f, P(c)) \subseteq Var
          /\ AllAssigned(f, AllAssigned(f, P(c))) = AllAssigned(f, P(c))
      BY <3>4, AllAssignedHolds
    <3>6. {x} \subseteq AllAssigned(f, P(c))
      BY <3>3
    <3>7. y \in AllAssigned(f, AllAssigned(f, P(c)))
      <4>1. AllAssigned(f, {x}) \subseteq AllAssigned(f, AllAssigned(f, P(c)))
        BY <3>6, AllAssignedOfMore
      <4> QED
        BY <4>1
    <3>8. <<f, y>> \in CarriedFrom(q[1], q[2])
      BY <3>2, <3>3, <3>5, <3>7 DEF CarriedFrom, P
    <3> QED
      BY <3>1, <3>8, CarriedSteps
  <2> QED
    BY <2>1, <2>2
<1> HIDE DEF T
<1>3. n \in T
  BY <1>1, <1>2, NumbersInductively
<1> QED
  BY <1>3 DEF T

-----------------------------------------------------------------------------
(* The inductive invariant of the taint walks.                             *)

TaintPlace == [def : Definition, vars : SUBSET Var, depth : 0..MaxDepth,
               path : Seq(Definition)]

\* The variables of a queued place carry request data of one definition in reach.
Sound(s) ==
  \E e \in Within(root, MaxDepth) :
    \A v \in s.vars : <<s.def, v>> \in Carried(e, s.depth)
TaintFits ==
  /\ visited \subseteq Definition \X (SUBSET Var) \X (0..MaxDepth)
  /\ phase \in {"direct", "seed"} =>
       queue \in Seq(TaintPlace) /\ \A s \in ToSet(queue) : Sound(s)

PathsFit == phase # "idle" /\ paths # {} => FlowExists

\* The taint walk from d visits or still has to visit all that the places it
\* visited lead to.
Known == visited \cup {Identity(s) : s \in ToSet(queue)}
GoesOn(e, V, k) ==
  /\ k < MaxDepth =>
       \A c \in CallsOf(e) : \A f \in TaintTargets(c) :
         Assigned(f, TaintedParams(c, f, V)) # {} =>
           <<f, Assigned(f, TaintedParams(c, f, V)), k + 1>> \in Known
  /\ HasEffect(e, V) => paths # {}
Explored(d) ==
  /\ <<d, Tainted(d), 0>> \in Known
  /\ \A e \in Definition, V \in SUBSET Var, k \in 0..MaxDepth :
       <<e, V, k>> \in visited => GoesOn(e, V, k)
SeedsFit ==
  /\ phase \in {"reach", "seed"} => direct # "confirmed"
  /\ phase = "seed" =>
       /\ \A d \in seeds : d \in nodes /\ Tainted(d) # {}
       /\ \A d \in nodes : Tainted(d) # {} =>
            \/ d \in seeds \/ cut \/ Explored(d) \/ ~RoundsSuffice
            \/ Reaches(d) => paths # {}

TaintIInv == TaintFits /\ PathsFit /\ SeedsFit /\ FlowIsExact

\* Nothing of this depends on more than the plugin and the callback.
LEMMA SameFlow ==
  ASSUME program' = program
  PROVE  /\ \A d, V : Assigned(d, V)' = Assigned(d, V)
         /\ \A d : Tainted(d)' = Tainted(d)
         /\ \A d : CallsOf(d)' = CallsOf(d)
         /\ \A d, V : HasEffect(d, V)' <=> HasEffect(d, V)
         /\ \A d, n : Carried(d, n)' = Carried(d, n)
         /\ \A d : Reaches(d)' <=> Reaches(d)
         /\ \A d, n : Within(d, n)' = Within(d, n)
         /\ RoundsSuffice' <=> RoundsSuffice
<1>1. \A d : AssignedFrom(d)' = AssignedFrom(d) /\ SourceVars(d)' = SourceVars(d)
             /\ CallsOf(d)' = CallsOf(d) /\ AssignmentsOf(d)' = AssignmentsOf(d)
  BY DEF AssignedFrom, SourceVars, CallsOf, AssignmentsOf
<1>1a. \A d : Pass(d)' = Pass(d)
  BY <1>1 DEF Pass
<1>2. \A d, V : /\ Assigned(d, V)' = Assigned(d, V)
                /\ AllAssigned(d, V)' = AllAssigned(d, V)
  BY <1>1, <1>1a DEF Assigned, AllAssigned
<1>3. \A d : Tainted(d)' = Tainted(d)
  BY <1>1, <1>2 DEF Tainted
<1>4. \A d, V : HasEffect(d, V)' <=> HasEffect(d, V)
  BY <1>2 DEF HasEffect
<1>5. \A e, v : CarriedFrom(e, v)' = CarriedFrom(e, v)
  BY <1>1, <1>2 DEF CarriedFrom
<1>6. \A d, n : Carried(d, n)' = Carried(d, n)
  <2> SUFFICES ASSUME NEW d, NEW n PROVE Carried(d, n)' = Carried(d, n)
    OBVIOUS
  <2>1. {<<d, v>> : v \in AllAssigned(d, SourceVars(d))}'
          = {<<d, v>> : v \in AllAssigned(d, SourceVars(d))}
    BY <1>1, <1>2
  <2>2. [q \in Definition \X Var |-> CarriedFrom(q[1], q[2])]'
          = [q \in Definition \X Var |-> CarriedFrom(q[1], q[2])]
    BY <1>5
  <2> QED
    BY <2>1, <2>2 DEF Carried
<1>7. \A d : Reaches(d)' <=> Reaches(d)
  BY <1>6 DEF Reaches
<1>8. \A d, n : Within(d, n)' = Within(d, n)
  BY SameCalls DEF Within
<1>9. RoundsSuffice' <=> RoundsSuffice
  BY <1>2 DEF RoundsSuffice
<1> QED
  BY <1>1, <1>2, <1>3, <1>4, <1>6, <1>7, <1>8, <1>9

LEMMA SameFlowOfRoot ==
  ASSUME program' = program, root' = root
  PROVE  /\ (FlowExists' <=> FlowExists) /\ (RoundsSuffice' <=> RoundsSuffice)
         /\ \A s : Sound(s)' <=> Sound(s)
         /\ Within(root, MaxDepth)' = Within(root, MaxDepth)
<1>1. Within(root, MaxDepth)' = Within(root, MaxDepth)
  BY SameCalls DEF Within
<1>2. FlowExists' <=> FlowExists
  BY <1>1, SameFlow DEF FlowExists
<1>3. ASSUME NEW s PROVE Sound(s)' <=> Sound(s)
  BY <1>1, SameFlow DEF Sound
<1> QED
  BY <1>1, <1>2, <1>3, SameFlow

\* A walk that carries nothing reaches nothing.
LEMMA FlowNeedsTaint ==
  ASSUME program \in Program, NEW d \in Definition, Reaches(d)
  PROVE  Tainted(d) # {}
<1> DEFINE T == {n \in Nat : Tainted(d) = {} => Carried(d, n) = {}}
<1>1. 0 \in T
  <2> SUFFICES ASSUME Tainted(d) = {} PROVE Carried(d, 0) = {}
    OBVIOUS
  <2>1. SourceVars(d) = {}
    BY TaintedIsAssigned
  <2>2. AllAssigned(d, {}) = {}
    BY AllAssignedOfOne
  <2> QED
    BY <2>1, <2>2, CarriedSteps
<1>2. ASSUME NEW n \in Nat, n \in T PROVE n + 1 \in T
  <2> SUFFICES ASSUME Tainted(d) = {} PROVE Carried(d, n + 1) = {}
    OBVIOUS
  <2>1. Carried(d, n) = {}
    BY <1>2
  <2>2. \A p : p \in Carried(d, n + 1) <=>
          p \in Carried(d, n) \/ \E q \in Carried(d, n) : p \in CarriedFrom(q[1], q[2])
    BY CarriedSteps
  <2> QED
    BY <2>1, <2>2
<1> HIDE DEF T
<1>3. MaxDepth \in T
  BY <1>1, <1>2, NumbersInductively, FlowAssumption
<1> QED
  BY <1>3 DEF T, Reaches

\* A walk with nothing left to visit has found what there is to be found, where
\* the passes over the assignments suffice.
LEMMA ExploredIsFound ==
  ASSUME program \in Program, RoundsSuffice, NEW d \in Definition, Explored(d), Reaches(d), queue = <<>>
  PROVE  paths # {}
<1>1. Known = visited
  BY EmptyQueue DEF Known
<1> DEFINE Seen(p, n) == \E k \in 0..MaxDepth : \E V \in SUBSET Var :
             k <= n /\ <<p[1], V, k>> \in visited /\ p[2] \in V
           T == {n \in Nat : n <= MaxDepth => \A p \in Carried(d, n) : Seen(p, n)}
<1> HIDE DEF Seen
<1>2. 0 \in T
  <2> SUFFICES ASSUME NEW p \in Carried(d, 0) PROVE Seen(p, 0)
    OBVIOUS
  <2>0. Tainted(d) = AllAssigned(d, SourceVars(d))
    BY TaintedIsAssigned DEF RoundsSuffice, Tainted
  <2>1. PICK v \in Tainted(d) : p = <<d, v>>
    BY <2>0, CarriedSteps
  <2>2. <<d, Tainted(d), 0>> \in visited /\ Tainted(d) \in SUBSET Var
    BY <1>1, TaintedIsAssigned DEF Explored
  <2>3. p[1] = d /\ p[2] = v /\ 0 \in 0..MaxDepth /\ 0 <= 0
    BY <2>1, FlowAssumption
  <2> QED
    BY <2>2, <2>3 DEF Seen
<1>3. ASSUME NEW n \in Nat, n \in T PROVE n + 1 \in T
  <2> SUFFICES ASSUME n + 1 <= MaxDepth, NEW p \in Carried(d, n + 1)
               PROVE  Seen(p, n + 1)
    OBVIOUS
  <2>1. n <= MaxDepth /\ \A q \in Carried(d, n) : Seen(q, n)
    BY <1>3, FlowAssumption
  <2>2. CASE p \in Carried(d, n)
    <3>1. PICK k \in 0..MaxDepth : \E V \in SUBSET Var :
            k <= n /\ <<p[1], V, k>> \in visited /\ p[2] \in V
      BY <2>1, <2>2 DEF Seen
    <3>2. k <= n + 1
      BY <3>1, FlowAssumption
    <3> QED
      BY <3>1, <3>2 DEF Seen
  <2>3. CASE p \notin Carried(d, n)
    <3>1. PICK q \in Carried(d, n) : p \in CarriedFrom(q[1], q[2])
      BY <2>3, CarriedSteps
    <3>2. PICK k \in 0..MaxDepth : \E V \in SUBSET Var :
            k <= n /\ <<q[1], V, k>> \in visited /\ q[2] \in V
      BY <2>1 DEF Seen
    <3>3. PICK V \in SUBSET Var : k <= n /\ <<q[1], V, k>> \in visited /\ q[2] \in V
      BY <3>2
    <3>4. q[1] \in Definition
      BY CarriedSteps
    <3>5. PICK c \in CallsOf(q[1]) : /\ p[1] \in TaintTargets(c)
                                    /\ p[2] \in AllAssigned(p[1], TaintedParams(c, p[1], {q[2]}))
      BY <3>1 DEF CarriedFrom
    <3>5a. /\ p[1] \in Definition
           /\ TaintedParams(c, p[1], V) \in SUBSET Var
      BY <3>4, <3>5, CallsCarryOneByOne, TargetsAreDefinitions
    <3>6. p[2] \in Assigned(p[1], TaintedParams(c, p[1], V))
      <4>1. p[2] \in AllAssigned(p[1], TaintedParams(c, p[1], V))
        BY <3>3, <3>5, <3>5a, CallsCarryMore
      <4> QED
        BY <3>5a, <4>1 DEF RoundsSuffice
    <3>7. k < MaxDepth /\ k + 1 \in 0..MaxDepth /\ k + 1 <= n + 1
      BY <2>1, <3>3, FlowAssumption
    <3>8. GoesOn(q[1], V, k)
      BY <3>3, <3>4 DEF Explored
    <3>9. <<p[1], Assigned(p[1], TaintedParams(c, p[1], V)), k + 1>> \in visited
      BY <1>1, <3>5, <3>6, <3>7, <3>8 DEF GoesOn
    <3>10. Assigned(p[1], TaintedParams(c, p[1], V)) \in SUBSET Var
      BY <3>4, <3>5, CallsCarryOneByOne
    <3> QED
      BY <3>6, <3>7, <3>9, <3>10 DEF Seen
  <2> QED
    BY <2>2, <2>3
<1> HIDE DEF T
<1>4. MaxDepth \in T
  BY <1>2, <1>3, NumbersInductively, FlowAssumption
<1>5. PICK p \in Carried(d, MaxDepth) : \E k \in Kind : <<p[1], p[2], k>> \in program.effect
  BY DEF Reaches
<1>6. PICK k \in 0..MaxDepth : \E V \in SUBSET Var :
        k <= MaxDepth /\ <<p[1], V, k>> \in visited /\ p[2] \in V
  <2>1. MaxDepth \in Nat /\ MaxDepth <= MaxDepth
    BY FlowAssumption
  <2>2. Seen(p, MaxDepth)
    BY <1>4, <1>5, <2>1 DEF T
  <2> QED
    BY <2>2 DEF Seen
<1>7. PICK V \in SUBSET Var : <<p[1], V, k>> \in visited /\ p[2] \in V
  BY <1>6
<1>8. p[1] \in Definition
  BY CarriedSteps, FlowAssumption
<1>9. p[2] \in Assigned(p[1], V)
  BY <1>7, AssignedHolds
<1>10. HasEffect(p[1], V)
  BY <1>5, <1>9 DEF HasEffect
<1> QED
  BY <1>7, <1>8, <1>10 DEF Explored, GoesOn

-----------------------------------------------------------------------------
(* The steps of the taint walk.                                            *)

LEMMA FlowStays ==
  ASSUME TaintIInv,
         UNCHANGED <<program, root, phase, queue, visited, direct, nodes, seeds,
                     paths, cut>>,
         flow' = flow \/ flow' = "none"
  PROVE  TaintIInv'
<1>1. /\ (FlowExists' <=> FlowExists) /\ (RoundsSuffice' <=> RoundsSuffice)
      /\ \A s : Sound(s)' <=> Sound(s)
  BY SameFlowOfRoot
<1>2. Known' = Known
  BY DEF Known, Identity
<1>3. \A e, V, k : GoesOn(e, V, k)' <=> GoesOn(e, V, k)
  BY <1>2, SameFlow DEF GoesOn
<1>4. \A d : Explored(d)' <=> Explored(d)
  BY <1>2, <1>3, SameFlow DEF Explored
<1>5. TaintFits'
  BY <1>1 DEF TaintIInv, TaintFits
<1>6. PathsFit'
  BY <1>1 DEF TaintIInv, PathsFit
<1>7. SeedsFit'
  BY <1>4, SameFlow DEF TaintIInv, SeedsFit
<1>8. FlowIsExact'
  BY <1>1 DEF TaintIInv, FlowIsExact
<1> QED
  BY <1>5, <1>6, <1>7, <1>8 DEF TaintIInv

\* A taint walk starts with what its first definition reads from the request.
LEMMA TaintStarts ==
  ASSUME program \in Program, program' = program, NEW d \in Definition,
         d \in Within(root, MaxDepth)',
         StartTaint(d, Tainted(d))
  PROVE  /\ visited' = {}
         /\ queue' \in Seq(TaintPlace) /\ \A s \in ToSet(queue') : Sound(s)'
         /\ Tainted(d) # {} => Explored(d)'
<1>1. CASE Tainted(d) = {}
  <2>1. queue' = <<>> /\ visited' = {}
    BY <1>1 DEF StartTaint
  <2> QED
    BY <1>1, <2>1, EmptyQueue
<1>2. CASE Tainted(d) # {}
  <2>0. PICK s : s = TaintState(d, Tainted(d), 0, <<d>>)
    OBVIOUS
  <2>1. queue' = <<s>> /\ visited' = {}
    BY <1>2, <2>0 DEF StartTaint
  <2>2. /\ s.def = d /\ s.vars = Tainted(d) /\ s.depth = 0
        /\ s \in TaintPlace
    BY <2>0, TaintedIsAssigned, FlowAssumption DEF TaintState, TaintPlace
  <2>3. queue' \in Seq(TaintPlace) /\ ToSet(queue') = {s}
    <3>1. <<s>> \in Seq(TaintPlace)
      BY <2>2
    <3> QED
      BY <2>1, <3>1, QueueOfOne
  <2>4. Sound(s)'
    <3>1. \A v \in Tainted(d) : <<d, v>> \in Carried(d, 0)'
      BY TaintedIsAssigned, CarriedSteps, SameFlow
    <3>2. \A v \in s.vars : <<s.def, v>> \in Carried(d, s.depth)'
      BY <2>2, <3>1, SameFlow
    <3> QED
      BY <3>2 DEF Sound
  <2>5. Explored(d)'
    <3>1. Identity(s) \in Known'
      BY <2>3 DEF Known, Identity
    <3>2. <<d, Tainted(d), 0>> \in Known'
      BY <2>2, <3>1 DEF Identity
    <3>3. <<d, Tainted(d)', 0>> \in Known'
      BY <3>2, SameFlow
    <3> QED
      BY <2>1, <3>3 DEF Explored
  <2> QED
    BY <2>1, <2>3, <2>4, <2>5
<1> QED
  BY <1>1, <1>2

\* What a sound place leads on to is sound.
LEMMA OnwardIsSound ==
  ASSUME program \in Program, root \in Definition, NEW s \in TaintPlace,
         Sound(s), s.depth < MaxDepth,
         NEW t \in Onward(s)
  PROVE  t \in TaintPlace /\ Sound(t)
<1>0. PICK c \in CallsOf(s.def) : \E d \in TaintTargets(c) :
        t = TaintState(d, Assigned(d, TaintedParams(c, d, s.vars)),
                       s.depth + 1, Append(s.path, d))
  BY DEF Onward
<1>1. PICK d \in TaintTargets(c) :
        t = TaintState(d, Assigned(d, TaintedParams(c, d, s.vars)),
                       s.depth + 1, Append(s.path, d))
  BY <1>0
<1>2. /\ s.def \in Definition /\ s.vars \in SUBSET Var /\ s.depth \in 0..MaxDepth
      /\ s.path \in Seq(Definition)
  BY DEF TaintPlace
<1>3. d \in Definition
  BY TargetsAreDefinitions
<1> DEFINE W == Assigned(d, TaintedParams(c, d, s.vars))
<1>4. t.def = d /\ t.vars = W /\ t.depth = s.depth + 1
  BY <1>1 DEF TaintState
<1>5. /\ W \subseteq Var
      /\ \A v \in W : \E w \in s.vars : <<d, v>> \in CarriedFrom(s.def, w)
  BY <1>2, CallsCarryOneByOne
<1>6. s.depth + 1 \in 0..MaxDepth /\ Append(s.path, d) \in Seq(Definition)
  BY <1>2, <1>3, FlowAssumption
<1>7. t \in TaintPlace
  BY <1>1, <1>3, <1>5, <1>6 DEF TaintState, TaintPlace
<1> HIDE DEF W
<1>8. PICK e \in Within(root, MaxDepth) : \A w \in s.vars : <<s.def, w>> \in Carried(e, s.depth)
  BY DEF Sound
<1>9. e \in Definition /\ s.depth \in Nat /\ t.depth \in Nat
  BY <1>2, <1>4, WithinSteps, FlowAssumption
<1>10. ASSUME NEW v \in t.vars PROVE <<t.def, v>> \in Carried(e, t.depth)
  <2>1. PICK w \in s.vars : <<d, v>> \in CarriedFrom(s.def, w)
    BY <1>4, <1>5
  <2> DEFINE q == <<s.def, w>>
  <2>2. q \in Carried(e, s.depth) /\ q[1] = s.def /\ q[2] = w
    BY <1>8
  <2> HIDE DEF q
  <2>3. <<d, v>> \in Carried(e, s.depth + 1)
    BY <1>9, <2>1, <2>2, CarriedSteps
  <2> QED
    BY <1>4, <2>3
<1>11. Sound(t)
  BY <1>10 DEF Sound
<1> QED
  BY <1>7, <1>11

LEMMA OnwardIsFinite ==
  ASSUME program \in Program, NEW s \in TaintPlace
  PROVE  IsFiniteSet(Onward(s))
<1> DEFINE Pair == Definition \X SUBSET Var
           StateOf(q) == TaintState(q[1], q[2], s.depth + 1, Append(s.path, q[1]))
           all == {StateOf(q) : q \in Pair}
           f == [q \in Pair |-> StateOf(q)]
<1>1. IsFiniteSet(Pair)
  BY FlowAssumption, FS_SUBSET, FS_Product
<1>2. f \in [Pair -> all] /\ \A t \in all : \E q \in Pair : f[q] = t
  OBVIOUS
<1>3. IsFiniteSet(all)
  <2> HIDE DEF Pair, all, f
  <2> QED
    BY <1>1, <1>2, FiniteImage
<1>4. ASSUME NEW t \in Onward(s) PROVE t \in all
  <2>1. PICK c \in CallsOf(s.def) : \E d \in TaintTargets(c) :
          t = TaintState(d, Assigned(d, TaintedParams(c, d, s.vars)),
                         s.depth + 1, Append(s.path, d))
    BY DEF Onward
  <2>2. PICK d \in TaintTargets(c) :
          t = TaintState(d, Assigned(d, TaintedParams(c, d, s.vars)),
                         s.depth + 1, Append(s.path, d))
    BY <2>1
  <2>3. s.def \in Definition /\ s.vars \in SUBSET Var /\ d \in Definition
    BY TargetsAreDefinitions DEF TaintPlace
  <2> DEFINE W == Assigned(d, TaintedParams(c, d, s.vars))
  <2>4. W \in SUBSET Var
    BY <2>3, CallsCarryOneByOne
  <2> HIDE DEF W
  <2>5. <<d, W>> \in Pair /\ StateOf(<<d, W>>) = t
    BY <2>2, <2>3, <2>4 DEF W
  <2> QED
    BY <2>5
<1> HIDE DEF all
<1> QED
  BY <1>3, <1>4, FS_Subset

LEMMA VisitKeepsTaint ==
  ASSUME ReachIInv, TaintIInv, Visit
  PROVE  TaintIInv'
<1>0. PICK s : s = Head(queue)
  OBVIOUS
<1> DEFINE new == IF s.depth >= MaxDepth THEN <<>> ELSE SetToSeq(Onward(s))
           goes == Identity(s) \notin visited
<1>1. /\ phase \in {"direct", "seed"} /\ queue # <<>>
      /\ UNCHANGED <<program, root, phase, direct, nodes, seeds, flow, cut>>
      /\ ~goes => queue' = Tail(queue) /\ visited' = visited /\ paths' = paths
      /\ goes => /\ queue' = Tail(queue) \o new
                 /\ visited' = visited \cup {Identity(s)}
                 /\ paths' = IF HasEffect(s.def, s.vars) THEN paths \cup {s.path}
                             ELSE paths
  BY <1>0 DEF Visit
<1>2. /\ queue \in Seq(TaintPlace) /\ \A t \in ToSet(queue) : Sound(t)
      /\ root \in Definition /\ program \in Program
  BY <1>1 DEF ReachIInv, WalkFits, TaintIInv, TaintFits
<1>3. s \in TaintPlace /\ s \in ToSet(queue) /\ Sound(s)
  <2>1. s \in TaintPlace
    BY <1>0, <1>1, <1>2, HeadTailProperties
  <2>2. s \in ToSet(queue)
    BY <1>0, <1>1, <1>2, QueueMoves, EmptySeq
  <2> QED
    BY <1>2, <2>1, <2>2
<1>4. s.def \in Definition /\ s.vars \in SUBSET Var /\ s.depth \in 0..MaxDepth
  BY <1>3 DEF TaintPlace
<1>5. /\ new \in Seq(TaintPlace)
      /\ \A t \in ToSet(new) : Sound(t)
      /\ s.depth < MaxDepth => ToSet(new) = Onward(s)
  <2>1. CASE s.depth >= MaxDepth
    <3>1. new = <<>> /\ ~(s.depth < MaxDepth)
      BY <1>4, <2>1, FlowAssumption
    <3> HIDE DEF new
    <3> QED
      BY <3>1, EmptyQueue
  <2>2. CASE ~(s.depth >= MaxDepth)
    <3>1. new = SetToSeq(Onward(s)) /\ s.depth < MaxDepth
      BY <1>4, <2>2, FlowAssumption
    <3>2. SetToSeq(Onward(s)) \in Seq(Onward(s)) /\ ToSet(SetToSeq(Onward(s))) = Onward(s)
      BY <1>2, <1>3, OnwardIsFinite, SetAsSequence
    <3>3. \A t \in Onward(s) : t \in TaintPlace /\ Sound(t)
      BY <1>2, <1>3, <3>1, OnwardIsSound
    <3>4. Onward(s) \subseteq TaintPlace
      BY <3>3
    <3>5. SetToSeq(Onward(s)) \in Seq(TaintPlace)
      BY <3>2, <3>4, SeqMonotonic
    <3> QED
      BY <3>1, <3>2, <3>3, <3>5
  <2> QED
    BY <2>1, <2>2
<1> HIDE DEF new
<1>6. /\ queue' \in Seq(TaintPlace)
      /\ ToSet(queue) \subseteq {s} \cup ToSet(queue')
      /\ goes => ToSet(new) \subseteq ToSet(queue')
      /\ ToSet(queue') \subseteq ToSet(queue) \cup ToSet(new)
  <2>1. CASE goes
    <3>1. queue' = Tail(queue) \o new
      BY <1>1, <2>1
    <3> HIDE DEF goes
    <3> QED
      BY <1>0, <1>1, <1>2, <1>5, <3>1, QueueMoves
  <2>2. CASE ~goes
    <3>1. /\ <<>> \in Seq(TaintPlace) /\ Tail(queue) \in Seq(TaintPlace)
          /\ Tail(queue) \o <<>> = Tail(queue)
      BY <1>1, <1>2, HeadTailProperties, ConcatEmptySeq
    <3>2. /\ Tail(queue) \o <<>> \in Seq(TaintPlace)
          /\ ToSet(queue) \subseteq {s} \cup ToSet(Tail(queue) \o <<>>)
          /\ ToSet(Tail(queue) \o <<>>) \subseteq ToSet(queue) \cup ToSet(<<>>)
      BY <1>0, <1>1, <1>2, <3>1, QueueMoves
    <3> QED
      BY <1>1, <2>2, <3>1, <3>2, EmptyQueue
  <2> QED
    BY <2>1, <2>2
<1>7. /\ (FlowExists' <=> FlowExists) /\ (RoundsSuffice' <=> RoundsSuffice)
      /\ \A t : Sound(t)' <=> Sound(t)
  BY <1>1, SameFlowOfRoot
<1>8. TaintFits'
  <2>1. Identity(s) \in Definition \X (SUBSET Var) \X (0..MaxDepth)
    BY <1>4 DEF Identity
  <2>2. visited' \subseteq Definition \X (SUBSET Var) \X (0..MaxDepth)
    BY <1>1, <2>1 DEF TaintIInv, TaintFits
  <2>3. \A t \in ToSet(queue') : Sound(t)'
    BY <1>2, <1>5, <1>6, <1>7
  <2> QED
    BY <1>6, <2>2, <2>3 DEF TaintFits
<1>9. ASSUME HasEffect(s.def, s.vars) PROVE FlowExists
  <2>1. PICK e \in Within(root, MaxDepth) : \A v \in s.vars : <<s.def, v>> \in Carried(e, s.depth)
    BY <1>3 DEF Sound
  <2>2. PICK v \in Assigned(s.def, s.vars), k \in Kind :
          <<s.def, v, k>> \in program.effect
    BY <1>9 DEF HasEffect
  <2>3. e \in Definition /\ s.depth \in Nat /\ MaxDepth \in Nat /\ s.depth <= MaxDepth
    BY <1>2, <1>4, <2>1, WithinSteps, FlowAssumption
  <2> DEFINE q == <<s.def, v>>
  <2>4. q \in Carried(e, MaxDepth) /\ q[1] = s.def /\ q[2] = v
    <3>1. v \in AllAssigned(s.def, s.vars)
      BY <1>2, <1>4, <2>2, AssignedHolds
    <3>2. PICK u \in s.vars : v \in AllAssigned(s.def, {u})
      BY <3>1, AllAssignedOfOne
    <3>3. <<s.def, v>> \in Carried(e, s.depth)
      BY <2>1, <2>3, <3>2, CarriedIsClosed
    <3> QED
      BY <2>3, <3>3, CarriedSteps
  <2> HIDE DEF q
  <2>5. Reaches(e)
    BY <2>2, <2>4 DEF Reaches
  <2> QED
    BY <2>5 DEF FlowExists
<1>10. PathsFit'
  BY <1>1, <1>7, <1>9 DEF TaintIInv, PathsFit
<1>11. FlowIsExact'
  BY <1>1 DEF FlowIsExact
<1>12. Known \subseteq Known' /\ (paths # {} => paths' # {})
  <2>1. paths # {} => paths' # {}
    BY <1>1
  <2>2. ASSUME NEW i \in visited PROVE i \in Known'
    BY <1>1 DEF Known
  <2>3. ASSUME NEW t \in ToSet(queue) PROVE Identity(t) \in Known'
    <3>1. CASE t = s
      <4>1. Identity(s) \in visited'
        BY <1>1
      <4> QED
        BY <3>1, <4>1 DEF Known, Identity
    <3>2. CASE t # s
      <4>1. t \in ToSet(queue')
        BY <1>6, <3>2
      <4> QED
        BY <4>1 DEF Known, Identity
    <3> QED
      BY <3>1, <3>2
  <2> QED
    BY <2>1, <2>2, <2>3 DEF Known
<1>13. \A e, V, k : GoesOn(e, V, k) => GoesOn(e, V, k)'
  BY <1>1, <1>12, SameFlow DEF GoesOn
<1>14. goes => GoesOn(s.def, s.vars, s.depth)'
  <2> SUFFICES ASSUME goes PROVE GoesOn(s.def, s.vars, s.depth)'
    OBVIOUS
  <2>1. ASSUME s.depth < MaxDepth, NEW c \in CallsOf(s.def), NEW d \in TaintTargets(c),
               Assigned(d, TaintedParams(c, d, s.vars)) # {}
        PROVE  <<d, Assigned(d, TaintedParams(c, d, s.vars)), s.depth + 1>> \in Known'
    <3>0. PICK W : W = Assigned(d, TaintedParams(c, d, s.vars))
      OBVIOUS
    <3> DEFINE t == TaintState(d, W, s.depth + 1, Append(s.path, d))
    <3>1. t.def = d /\ t.vars = W /\ t.depth = s.depth + 1
      BY DEF TaintState
    <3>2. t \in Onward(s)
      BY <2>1, <3>0, <3>1 DEF Onward
    <3> HIDE DEF t
    <3>3. t \in ToSet(queue')
      BY <1>5, <1>6, <2>1, <3>2
    <3>4. Identity(t) \in Known'
      BY <3>3 DEF Known, Identity
    <3> QED
      BY <3>0, <3>1, <3>4 DEF Identity
  <2>2. HasEffect(s.def, s.vars) => paths' # {}
    BY <1>1
  <2> QED
    BY <1>1, <2>1, <2>2, SameFlow DEF GoesOn
<1>15. ASSUME NEW d, Explored(d) PROVE Explored(d)'
  <2>1. <<d, Tainted(d)', 0>> \in Known'
    BY <1>1, <1>12, <1>15, SameFlow DEF Explored
  <2>2. ASSUME NEW e \in Definition, NEW V \in SUBSET Var, NEW k \in 0..MaxDepth,
               <<e, V, k>> \in visited'
        PROVE  GoesOn(e, V, k)'
    <3>1. CASE <<e, V, k>> \in visited
      BY <1>13, <1>15, <3>1 DEF Explored
    <3>2. CASE <<e, V, k>> \notin visited
      <4>1. goes /\ <<e, V, k>> = Identity(s)
        BY <1>1, <2>2, <3>2
      <4>2. e = s.def /\ V = s.vars /\ k = s.depth
        BY <4>1 DEF Identity
      <4> QED
        BY <1>14, <4>1, <4>2
    <3> QED
      BY <3>1, <3>2
  <2> QED
    BY <2>1, <2>2 DEF Explored
<1>16. SeedsFit'
  <2>1. /\ \A d : Tainted(d)' = Tainted(d) /\ (Reaches(d)' <=> Reaches(d))
        /\ RoundsSuffice' <=> RoundsSuffice
    BY <1>1, SameFlow
  <2> QED
    BY <1>1, <1>12, <1>15, <2>1 DEF TaintIInv, SeedsFit
<1> QED
  BY <1>8, <1>10, <1>11, <1>16 DEF TaintIInv

LEMMA WalkUnitKeepsTaint ==
  ASSUME ReachIInv, WalkUnit
  PROVE  TaintIInv'
<1>1. PICK u \in units : StartFlow(u.def)
  BY DEF WalkUnit
<1>0. PICK d : d = u.def
  OBVIOUS
<1>2. /\ d \in Definition /\ program' = program
      /\ root' = d /\ phase' = "direct" /\ paths' = {} /\ program \in Program
      /\ StartTaint(d, Tainted(d))
  BY <1>0, <1>1 DEF WalkUnit, StartFlow, ReachIInv, MapIInv, UnitsFit, WalkFits
<1>3. d \in Within(root, MaxDepth)'
  <2>0. Within(d, 0) = {d}
    BY <1>2, WithinSteps
  <2>1. Within(d, 0) \subseteq Within(d, MaxDepth)
    BY SpreadGrows, FlowAssumption DEF Within
  <2>2. d \in Within(d, MaxDepth)'
    BY <1>2, <2>0, <2>1, SameFlow
  <2> QED
    BY <1>2, <2>2
<1>4. TaintFits'
  BY <1>2, <1>3, TaintStarts DEF TaintFits
<1> QED
  BY <1>2, <1>4 DEF TaintIInv, PathsFit, SeedsFit, FlowIsExact

LEMMA EndDirectKeepsTaint ==
  ASSUME TaintIInv, EndDirect
  PROVE  TaintIInv'
<1>1. /\ UNCHANGED <<program, root, visited, paths>>
      /\ phase = "direct" /\ phase' \in {"idle", "reach"}
      /\ phase' = "idle" => flow' = "confirmed" /\ paths # {}
      /\ direct' # "confirmed" \/ phase' = "idle"
  <2>1. DirectConfidence = "confirmed" => paths # {}
    BY DEF DirectConfidence, LocalConfidence
  <2> QED
    BY <2>1 DEF EndDirect
<1>2. (FlowExists' <=> FlowExists) /\ (RoundsSuffice' <=> RoundsSuffice)
  BY <1>1, SameFlowOfRoot
<1>3. PathsFit' /\ FlowIsExact'
  BY <1>1, <1>2 DEF TaintIInv, PathsFit, FlowIsExact
<1>4. TaintFits' /\ SeedsFit'
  BY <1>1 DEF TaintIInv, TaintFits, SeedsFit
<1> QED
  BY <1>3, <1>4 DEF TaintIInv

LEMMA EndReachKeepsTaint ==
  ASSUME TaintIInv, EndReach
  PROVE  TaintIInv'
<1>1. /\ UNCHANGED <<program, root, queue, visited, direct, nodes, paths>>
      /\ phase = "reach" /\ phase' = "seed" /\ queue = <<>>
      /\ seeds' = {d \in nodes : Tainted(d) # {}}
  BY DEF EndReach
<1>2. (FlowExists' <=> FlowExists) /\ (RoundsSuffice' <=> RoundsSuffice)
  BY <1>1, SameFlowOfRoot
<1>3. PathsFit' /\ FlowIsExact'
  BY <1>1, <1>2 DEF TaintIInv, PathsFit, FlowIsExact
<1>4. TaintFits'
  BY <1>1, EmptyQueue DEF TaintIInv, TaintFits
<1>5. SeedsFit'
  BY <1>1, SameFlow DEF TaintIInv, SeedsFit
<1> QED
  BY <1>3, <1>4, <1>5 DEF TaintIInv

\* A walk that is over has found what there is, or was cut.
LEMMA WalkFinds ==
  ASSUME ReachIInv, TaintIInv, phase = "seed", WalkIsOver, RoundsSuffice,
         NEW d \in nodes, Tainted(d) # {}, d \notin seeds, Reaches(d)
  PROVE  cut \/ queue # <<>> \/ paths # {}
<1>1. d \in Definition /\ program \in Program
  BY WithinSteps, FlowAssumption DEF ReachIInv, WalkFits
<1> QED
  BY <1>1, ExploredIsFound DEF TaintIInv, SeedsFit

LEMMA NextSeedKeepsTaint ==
  ASSUME ReachIInv, TaintIInv, NextSeed
  PROVE  TaintIInv'
<1>1. PICK d \in seeds : StartTaint(d, Tainted(d)) /\ seeds' = seeds \ {d}
  BY DEF NextSeed
<1>2. /\ phase = "seed" /\ WalkIsOver /\ cut' = (cut \/ queue # <<>>)
      /\ UNCHANGED <<program, root, phase, direct, nodes, paths, flow>>
  BY DEF NextSeed
<1>3. d \in nodes /\ Tainted(d) # {}
  BY <1>2 DEF TaintIInv, SeedsFit
<1>4. /\ nodes = Within(root, MaxDepth) /\ root \in Definition
      /\ nodes \subseteq Definition /\ d \in Within(root, MaxDepth)'
      /\ program \in Program
  BY <1>2, <1>3, WithinSteps, SameFlowOfRoot, FlowAssumption DEF ReachIInv, WalkFits
<1>5. /\ visited' = {}
      /\ queue' \in Seq(TaintPlace) /\ \A s \in ToSet(queue') : Sound(s)'
      /\ Explored(d)'
  BY <1>1, <1>2, <1>3, <1>4, TaintStarts
<1>6. (FlowExists' <=> FlowExists) /\ (RoundsSuffice' <=> RoundsSuffice)
  BY <1>2, SameFlowOfRoot
<1>7. PathsFit' /\ FlowIsExact'
  BY <1>2, <1>6 DEF TaintIInv, PathsFit, FlowIsExact
<1>8. TaintFits'
  BY <1>2, <1>5 DEF TaintFits
<1>9. ASSUME NEW e \in nodes, Tainted(e) # {}
      PROVE  \/ e \in seeds' \/ cut' \/ Explored(e)' \/ ~RoundsSuffice
             \/ (Reaches(e) => paths # {})
  BY <1>1, <1>2, <1>5, <1>9, WalkFinds
<1>10. SeedsFit'
  <2>1. \A e : Tainted(e)' = Tainted(e) /\ (Reaches(e)' <=> Reaches(e))
    BY <1>2, SameFlow
  <2>2. \A e \in seeds' : e \in nodes' /\ Tainted(e)' # {}
    BY <1>1, <1>2, <2>1 DEF TaintIInv, SeedsFit
  <2>3. \A e \in nodes' : Tainted(e)' # {} =>
          \/ e \in seeds' \/ cut' \/ Explored(e)' \/ ~RoundsSuffice'
          \/ (Reaches(e)' => paths' # {})
    BY <1>2, <1>9, <2>1, SameFlow
  <2>4. direct' # "confirmed" /\ phase' = "seed"
    BY <1>2 DEF TaintIInv, SeedsFit
  <2> QED
    BY <2>2, <2>3, <2>4 DEF SeedsFit
<1> QED
  BY <1>7, <1>8, <1>10 DEF TaintIInv

LEMMA EndFlowKeepsTaint ==
  ASSUME ReachIInv, TaintIInv, EndFlow
  PROVE  TaintIInv'
<1>1. /\ phase = "seed" /\ WalkIsOver /\ seeds = {} /\ phase' = "idle"
      /\ flow' = Answer /\ cut' = (cut \/ queue # <<>>)
      /\ UNCHANGED <<program, root, queue, visited, states, direct, nodes,
                     seeds, paths>>
  BY DEF EndFlow
<1>2. (FlowExists' <=> FlowExists) /\ (RoundsSuffice' <=> RoundsSuffice)
  BY <1>1, SameFlowOfRoot
<1>3. flow' = "confirmed" <=> paths # {}
  <2>1. direct # "confirmed"
    BY <1>1 DEF TaintIInv, SeedsFit
  <2> QED
    BY <1>1, <2>1 DEF Answer
<1>4. paths # {} => FlowExists
  BY <1>1 DEF TaintIInv, PathsFit
<1>5. ASSUME FlowExists, RoundsSuffice PROVE paths # {} \/ cut'
  <2>1. /\ nodes = Within(root, MaxDepth) /\ nodes \subseteq Definition
        /\ program \in Program
    BY <1>1, WithinSteps, FlowAssumption DEF ReachIInv, WalkFits
  <2>2. PICK d \in nodes : Reaches(d)
    BY <1>5, <2>1 DEF FlowExists
  <2>3. Tainted(d) # {}
    BY <2>1, <2>2, FlowNeedsTaint
  <2> QED
    BY <1>1, <1>5, <2>2, <2>3, WalkFinds
<1>6. FlowIsExact'
  BY <1>1, <1>2, <1>3, <1>4, <1>5 DEF FlowIsExact
<1>7. TaintFits' /\ PathsFit' /\ SeedsFit'
  BY <1>1 DEF TaintIInv, TaintFits, PathsFit, SeedsFit
<1> QED
  BY <1>6, <1>7 DEF TaintIInv

LEMMA ExploreKeepsTaint ==
  ASSUME TaintIInv, Explore
  PROVE  TaintIInv'
<1>1. /\ phase = "reach" /\ phase' = "reach"
      /\ UNCHANGED <<program, root, visited, direct, paths>>
  BY DEF Explore
<1>2. (FlowExists' <=> FlowExists) /\ (RoundsSuffice' <=> RoundsSuffice)
  BY <1>1, SameFlowOfRoot
<1> QED
  BY <1>1, <1>2 DEF TaintIInv, TaintFits, PathsFit, SeedsFit, FlowIsExact

LEMMA NextKeepsTaint ==
  ASSUME ReachIInv, TaintIInv, [Next]_vars
  PROVE  TaintIInv'
<1>1. CASE UNCHANGED vars \/ Promote \/ IndexUnits \/ IndexState \/ IndexOrphans
           \/ AddPack \/ EndPacks \/ AddCase \/ EndCases
  BY <1>1, FlowStays DEF vars, walkVars, Promote, IndexUnits, IndexState,
     IndexOrphans, AddPack, EndPacks, AddCase, EndCases
<1>2. CASE KeepFlow
  BY <1>2, FlowStays DEF KeepFlow
<1>3. CASE WalkUnit
  BY <1>3, WalkUnitKeepsTaint
<1>4. CASE Visit
  BY <1>4, VisitKeepsTaint
<1>5. CASE EndDirect
  BY <1>5, EndDirectKeepsTaint
<1>6. CASE Explore
  BY <1>6, ExploreKeepsTaint
<1>7. CASE EndReach
  BY <1>7, EndReachKeepsTaint
<1>8. CASE NextSeed
  BY <1>8, NextSeedKeepsTaint
<1>9. CASE EndFlow
  BY <1>9, EndFlowKeepsTaint
<1> QED
  BY <1>1, <1>2, <1>3, <1>4, <1>5, <1>6, <1>7, <1>8, <1>9
     DEF Next, Walk, WalkStep

\* The taint walk carries nothing that is not there and leaves nothing behind
\* that it does not still have to visit.
THEOREM FlowInvariance == Spec => []TaintIInv
<1>1. Init => TaintIInv
  BY DEF Init, TaintIInv, TaintFits, PathsFit, SeedsFit, FlowIsExact
<1>2. ReachIInv /\ TaintIInv /\ [Next]_vars => TaintIInv'
  BY NextKeepsTaint
<1>3. Spec => []ReachIInv
  BY ReachInvariance
<1> QED
  BY <1>1, <1>2, <1>3, PTL DEF Spec

\* A flow that is reported as confirmed exists, and one that exists is reported
\* so unless a walk ran into the bound on its states, or the passes over the
\* assignments of a body were too few for a chain in it: for any plugin, and
\* whatever the walks take for already visited.
THEOREM ConfirmedFlowsAreExact == Spec => []FlowIsExact
<1>1. TaintIInv => FlowIsExact
  BY DEF TaintIInv
<1> QED
  BY <1>1, FlowInvariance, PTL
=============================================================================
