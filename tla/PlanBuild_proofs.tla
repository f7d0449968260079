--------------------------- MODULE PlanBuild_proofs ---------------------------
(***************************************************************************)
(* PlanBuild for every set of obligations, plans, reserves and prices and  *)
(* every limit: first the lists the builders are made of, then where every *)
(* instruction of a built, rebuilt and sent transaction stands, then the   *)
(* inductive invariant, and last the theorems.                             *)
(***************************************************************************)
EXTENDS PlanBuild, FiniteSetTheorems, FunctionTheorems, SequenceTheorems, WellFoundedInduction, TLAPS

-----------------------------------------------------------------------------
(* Numbers, finite orders and lists.                                       *)

\* What comes before x in the order R of S.
Under(S, R, x) == {w \in S : <<w, x>> \in R}

\* An interval from 1 has as many members as its end says.
LEMMA OneTo ==
  ASSUME NEW n \in Nat
  PROVE  IsFiniteSet(1..n) /\ Cardinality(1..n) = n
BY FS_Interval

\* In a finite strict total order the numbers of smaller members are exactly
\* 0, 1, ..., one less than there are members, one each.
LEMMA RanksFill ==
  ASSUME NEW S, IsFiniteSet(S), NEW R,
         \A x \in S : <<x, x>> \notin R,
         \A x, y, z \in S : <<x, y>> \in R /\ <<y, z>> \in R => <<x, z>> \in R,
         \A x, y \in S : x # y => <<x, y>> \in R \/ <<y, x>> \in R
  PROVE  /\ Cardinality(S) \in Nat
         /\ \A x \in S : Cardinality(Under(S, R, x)) \in 0..(Cardinality(S) - 1)
         /\ \A x, y \in S : <<x, y>> \in R => Cardinality(Under(S, R, x)) < Cardinality(Under(S, R, y))
         /\ \A n \in 1..Cardinality(S) : \E x \in S : Cardinality(Under(S, R, x)) = n - 1
<1>. DEFINE below(x) == Under(S, R, x)
            N == Cardinality(S)
<1>1. N \in Nat
  BY FS_CardinalityType
<1>2. ASSUME NEW x \in S PROVE IsFiniteSet(below(x)) /\ Cardinality(below(x)) \in 0..(N - 1)
  <2>1. below(x) \in SUBSET S /\ x \notin below(x)
    BY DEF Under
  <2>2. IsFiniteSet(below(x)) /\ Cardinality(below(x)) <= N /\ (N = Cardinality(below(x)) => S = below(x))
    BY <2>1, FS_Subset
  <2>3. Cardinality(below(x)) \in Nat
    BY <2>2, FS_CardinalityType
  <2>. QED BY <1>1, <2>1, <2>2, <2>3
<1>3. ASSUME NEW x \in S, NEW y \in S, <<x, y>> \in R PROVE Cardinality(below(x)) < Cardinality(below(y))
  <2>1. below(x) \in SUBSET below(y) /\ x \in below(y) /\ x \notin below(x)
    BY <1>3 DEF Under
  <2>2. Cardinality(below(x)) <= Cardinality(below(y)) /\ (Cardinality(below(y)) = Cardinality(below(x)) => below(y) = below(x))
    BY <1>2, <2>1, FS_Subset
  <2>3. Cardinality(below(x)) \in Nat /\ Cardinality(below(y)) \in Nat
    BY <1>1, <1>2
  <2>. QED BY <2>1, <2>2, <2>3
<1>4. \A n \in 1..N : \E x \in S : Cardinality(below(x)) = n - 1
  <2>. DEFINE rank == [x \in S |-> Cardinality(below(x)) + 1]
  <2>1. rank \in [S -> 1..N]
    BY <1>1, <1>2
  <2>2. ASSUME NEW x \in S, NEW y \in S, x # y PROVE rank[x] # rank[y]
    <3>1. \A z \in S : Cardinality(below(z)) \in Nat
      BY <1>1, <1>2
    <3>2. CASE <<x, y>> \in R
      BY <1>3, <3>1, <3>2
    <3>3. CASE <<y, x>> \in R
      BY <1>3, <3>1, <3>3
    <3>. QED BY <2>2, <3>2, <3>3
  <2>3. rank \in Injection(S, 1..N)
    BY <2>1, <2>2 DEF Injection, IsInjective
  <2>4. IsFiniteSet(1..N) /\ Cardinality(1..N) = N
    BY <1>1, OneTo
  <2>5. rank \in Surjection(S, 1..N)
    BY <2>3, <2>4, FS_Injection
  <2>6. TAKE n \in 1..N
  <2>7. PICK x \in S : rank[x] = n
    BY <2>5 DEF Surjection
  <2>8. Cardinality(below(x)) = n - 1
    BY <1>1, <1>2, <2>7
  <2>. QED BY <2>8
<1>. QED BY <1>1, <1>2, <1>3, <1>4

\* Kept(s, at), what filter() leaves of a list: the kept places, each once, in
\* their order.
LEMMA KeptProperties ==
  ASSUME NEW T, NEW s \in Seq(T), NEW at \in SUBSET DOMAIN s
  PROVE  /\ Kept(s, at) \in Seq(T)
         /\ Len(Kept(s, at)) = Cardinality(at) /\ Cardinality(at) \in 0..Len(s)
         /\ \A n \in 1..Len(Kept(s, at)) : \E i \in at : Kept(s, at)[n] = s[i]
         /\ \A i \in at : \E n \in 1..Len(Kept(s, at)) : Kept(s, at)[n] = s[i]
         /\ \A m, n \in 1..Len(Kept(s, at)) : m < n =>
              \E i, j \in at : i < j /\ Kept(s, at)[m] = s[i] /\ Kept(s, at)[n] = s[j]
<1>. DEFINE R == {p \in at \X at : p[1] < p[2]}
            below(i) == Under(at, R, i)
            N == Cardinality(at)
            place(n) == CHOOSE i \in at : Cardinality(below(i)) = n - 1
            k == Kept(s, at)
<1>1. at \subseteq 1..Len(s) /\ Len(s) \in Nat /\ DOMAIN s = 1..Len(s)
  OBVIOUS
<1>2. IsFiniteSet(at) /\ N \in 0..Len(s)
  <2>1. IsFiniteSet(1..Len(s)) /\ Cardinality(1..Len(s)) = Len(s)
    BY <1>1, OneTo
  <2>2. IsFiniteSet(at) /\ N <= Len(s)
    BY <1>1, <2>1, FS_Subset
  <2>. QED BY <1>1, <2>2, FS_CardinalityType
<1>3. \A i \in at : {j \in at : j < i} = below(i)
  BY DEF Under
<1>4. /\ \A i \in at : <<i, i>> \notin R
      /\ \A x, y \in at : x < y => <<x, y>> \in R
      /\ \A x, y, z \in at : <<x, y>> \in R /\ <<y, z>> \in R => <<x, z>> \in R
      /\ \A x, y \in at : x # y => <<x, y>> \in R \/ <<y, x>> \in R
  BY <1>1
<1>5. k = [n \in 1..N |-> s[place(n)]]
  <2>. DEFINE nth(n) == CHOOSE i \in at : Cardinality({j \in at : j < i}) = n - 1
  <2>1. \A n : nth(n) = place(n)
    BY <1>3
  <2>2. k = [n \in 1..N |-> s[nth(n)]]
    BY DEF Kept, InOrder
  <2>. HIDE DEF nth, place
  <2>. QED BY <2>1, <2>2
<1>. HIDE DEF R
<1>6. /\ \A i \in at : Cardinality(below(i)) \in 0..(N - 1)
      /\ \A n \in 1..N : \E i \in at : Cardinality(below(i)) = n - 1
      /\ \A x, y \in at : x < y => Cardinality(below(x)) < Cardinality(below(y))
  BY <1>2, <1>4, RanksFill
<1>7. \A n \in 1..N : place(n) \in at /\ Cardinality(below(place(n))) = n - 1
  BY <1>6
<1>. HIDE DEF place, below, k
<1>8. k \in Seq(T) /\ Len(k) = N
  BY <1>1, <1>2, <1>5, <1>7
<1>9. \A n \in 1..N : k[n] = s[place(n)]
  BY <1>5
<1>10. ASSUME NEW i \in at PROVE \E n \in 1..N : k[n] = s[i]
  <2>. DEFINE n == Cardinality(below(i)) + 1
  <2>1. n \in 1..N /\ n - 1 = Cardinality(below(i))
    BY <1>2, <1>6
  <2>2. place(n) = i
    <3>1. place(n) \in at /\ Cardinality(below(place(n))) = Cardinality(below(i))
      BY <1>7, <2>1
    <3>2. \A x \in at : Cardinality(below(x)) \in Int
      BY <1>6
    <3>3. ~(place(n) < i) /\ ~(i < place(n))
      BY <1>6, <3>1, <3>2
    <3>. QED BY <1>1, <3>1, <3>3
  <2>. QED BY <1>9, <2>1, <2>2
<1>11. ASSUME NEW m \in 1..N, NEW n \in 1..N, m < n
       PROVE  place(m) < place(n)
  <2>1. Cardinality(below(place(m))) = m - 1 /\ Cardinality(below(place(n))) = n - 1 /\ place(m) \in at /\ place(n) \in at
    BY <1>7
  <2>2. ~(place(n) < place(m)) /\ place(n) # place(m)
    BY <1>2, <1>6, <1>11, <2>1
  <2>. QED BY <1>1, <2>1, <2>2
<1>12. \A n \in 1..N : \E i \in at : k[n] = s[i]
  BY <1>7, <1>9
<1>13. \A m, n \in 1..N : m < n => \E i, j \in at : i < j /\ k[m] = s[i] /\ k[n] = s[j]
  BY <1>7, <1>9, <1>11
<1>14. \A i \in at : \E n \in 1..N : k[n] = s[i]
  BY <1>10
<1>. QED BY <1>2, <1>8, <1>12, <1>13, <1>14 DEF k

\* A nonempty set of numbers has a smallest member: the order of Nat is well founded.
LEMMA Smallest ==
  ASSUME NEW S \in SUBSET Nat, S # {}
  PROVE  \E x \in S : \A y \in S : x <= y
<1>. DEFINE R == OpToRel(<, Nat)
<1>1. IsWellFoundedOn(R, Nat)
  BY NatLessThanWellFounded
<1>2. PICK x \in S : \A y \in S : ~ (<<y, x>> \in R)
  <2>. HIDE DEF R
  <2>. QED BY <1>1, WFMin
<1>3. \A y \in S : ~(y < x)
  BY <1>2 DEF OpToRel
<1>. QED BY <1>3

\* Min of FiniteSetsExt is that smallest member.
LEMMA MinProperties ==
  ASSUME NEW S \in SUBSET Nat, S # {}
  PROVE  Min(S) \in S /\ \A x \in S : Min(S) <= x
BY Smallest DEF Min

\* Induction over the numbers up to L, for a set instead of a predicate: the
\* smallest number outside it would have a predecessor inside.
LEMMA UpTo ==
  ASSUME NEW L \in Nat, NEW good, 1 \in good,
         \A n \in 1..L : n # L /\ n \in good => n + 1 \in good
  PROVE  \A n \in 1..L : n \in good
<1>. DEFINE bad == {n \in 1..L : n \notin good}
<1>1. SUFFICES ASSUME bad # {} PROVE FALSE
  OBVIOUS
<1>2. PICK n \in bad : \A m \in bad : n <= m
  <2>1. bad \in SUBSET Nat /\ bad # {}
    BY <1>1
  <2>. HIDE DEF bad
  <2>. QED BY <2>1, Smallest
<1>3. n \in 1..L /\ n # 1 /\ n \notin good
  OBVIOUS
<1>4. n - 1 \in 1..L /\ n - 1 # L /\ (n - 1) + 1 = n
  BY <1>3
<1>5. n - 1 \notin bad
  BY <1>2, <1>3
<1>. QED BY <1>3, <1>4, <1>5

FlatStep(seqs, f, i) == f[i] = IF i = 1 THEN seqs[i] ELSE f[i - 1] \o seqs[i]

\* FlattenSeq is the recursive function of its definition.
LEMMA FlattenDefined ==
  ASSUME NEW T, NEW seqs \in Seq(Seq(T)), seqs # <<>>
  PROVE  \E f \in [1..Len(seqs) -> Seq(T)] :
           FlattenSeq(seqs) = f[Len(seqs)] /\ \A i \in 1..Len(seqs) : FlatStep(seqs, f, i)
<1>. DEFINE L == Len(seqs)
            Fun(n) == {f \in [1..n -> Seq(T)] : \A i \in 1..n : FlatStep(seqs, f, i)}
            good == {n \in 1..L : Fun(n) # {}}
<1>1. L \in Nat /\ L >= 1 /\ \A i \in 1..L : seqs[i] \in Seq(T)
  OBVIOUS
<1>2. 1 \in good
  <2>. DEFINE f == [i \in 1..1 |-> seqs[i]]
  <2>1. f \in [1..1 -> Seq(T)] /\ \A i \in 1..1 : FlatStep(seqs, f, i)
    BY <1>1 DEF FlatStep
  <2>2. f \in Fun(1) /\ 1 \in 1..L
    BY <1>1, <2>1
  <2>3. Fun(1) # {}
    BY <2>2
  <2>. HIDE DEF Fun
  <2>. QED BY <2>2, <2>3
<1>3. ASSUME NEW n \in 1..L, n # L, n \in good PROVE n + 1 \in good
  <2>1. PICK f \in [1..n -> Seq(T)] : \A i \in 1..n : FlatStep(seqs, f, i)
    BY <1>3
  <2>. DEFINE g == [i \in 1..(n + 1) |-> IF i = n + 1 THEN f[n] \o seqs[n + 1] ELSE f[i]]
  <2>2. n \in 1..n /\ n + 1 \in 1..L /\ 1..(n + 1) = 1..n \union {n + 1} /\ n + 1 \notin 1..n
    BY <1>1, <1>3
  <2>3. f[n] \o seqs[n + 1] \in Seq(T)
    BY <1>1, <2>2
  <2>4. g \in [1..(n + 1) -> Seq(T)]
    BY <2>2, <2>3
  <2>5. /\ \A i \in 1..n : g[i] = f[i]
        /\ g[n + 1] = f[n] \o seqs[n + 1]
    BY <2>2
  <2>. HIDE DEF g
  <2>6. ASSUME NEW i \in 1..n PROVE FlatStep(seqs, g, i)
    <3>1. i # 1 => i - 1 \in 1..n
      BY <1>1
    <3>. QED BY <2>1, <2>5, <3>1 DEF FlatStep
  <2>7. FlatStep(seqs, g, n + 1)
    <3>1. n + 1 # 1 /\ (n + 1) - 1 = n /\ g[n] = f[n]
      BY <2>2, <2>5
    <3>. QED BY <2>5, <3>1 DEF FlatStep
  <2>8. g \in Fun(n + 1)
    BY <2>2, <2>4, <2>6, <2>7
  <2>9. Fun(n + 1) # {}
    BY <2>8
  <2>. HIDE DEF Fun
  <2>. QED BY <2>2, <2>9
<1>4. L \in good
  <2>1. L \in 1..L
    BY <1>1
  <2>. HIDE DEF good
  <2>. QED BY <1>1, <1>2, <1>3, <2>1, UpTo
<1>5. PICK f \in [1..L -> Seq(T)] : \A i \in 1..L : FlatStep(seqs, f, i)
  BY <1>4
<1>. DEFINE step(h) == [i \in 1..L |-> IF i = 1 THEN seqs[i] ELSE h[i - 1] \o seqs[i]]
            F == CHOOSE h : h = step(h)
<1>6. F = step(F)
  <2>1. f = step(f)
    BY <1>5 DEF FlatStep
  <2>2. \E h : h = step(h)
    BY <2>1
  <2>. HIDE DEF step
  <2>. QED BY <2>2
<1>7. FlattenSeq(seqs) = F[L]
  BY <1>1 DEF FlattenSeq
<1>. HIDE DEF F
<1>8. \A i \in 1..L : FlatStep(seqs, F, i)
  BY <1>6 DEF FlatStep
<1>9. DOMAIN F = 1..L /\ F = [i \in 1..L |-> F[i]]
  BY <1>6
<1>. DEFINE typed == {n \in 1..L : F[n] \in Seq(T)}
<1>10. 1 \in typed
  BY <1>1, <1>8 DEF FlatStep
<1>11. ASSUME NEW n \in 1..L, n # L, n \in typed PROVE n + 1 \in typed
  <2>1. n + 1 \in 1..L /\ n + 1 # 1 /\ (n + 1) - 1 = n
    BY <1>1, <1>11
  <2>2. F[n + 1] = F[n] \o seqs[n + 1] /\ F[n] \in Seq(T) /\ seqs[n + 1] \in Seq(T)
    BY <1>1, <1>8, <1>11, <2>1 DEF FlatStep
  <2>3. F[n + 1] \in Seq(T)
    BY <2>2
  <2>. QED BY <2>1, <2>3
<1>12. \A n \in 1..L : n \in typed
  <2>. HIDE DEF typed
  <2>. QED BY <1>1, <1>10, <1>11, UpTo
<1>13. F \in [1..L -> Seq(T)]
  BY <1>9, <1>12
<1>. QED BY <1>7, <1>8, <1>13

\* What Accounts() and the builders' spreads rest on: a flattening holds the
\* members of every part and nothing else.
LEMMA FlattenProperties ==
  ASSUME NEW T, NEW seqs \in Seq(Seq(T))
  PROVE  /\ FlattenSeq(seqs) \in Seq(T)
         /\ Range(FlattenSeq(seqs)) = UNION {Range(seqs[i]) : i \in DOMAIN seqs}
<1>1. CASE seqs = <<>>
  <2>1. FlattenSeq(seqs) = <<>>
    BY <1>1 DEF FlattenSeq
  <2>2. DOMAIN seqs = {}
    BY <1>1
  <2>3. Range(seqs) = {} /\ UNION {Range(seqs[i]) : i \in DOMAIN seqs} = {}
    BY <2>2 DEF Range
  <2>4. <<>> \in Seq(T)
    OBVIOUS
  <2>. QED BY <1>1, <2>1, <2>3, <2>4
<1>2. CASE seqs # <<>>
  <2>. DEFINE L == Len(seqs)
  <2>1. PICK f \in [1..L -> Seq(T)] : FlattenSeq(seqs) = f[L] /\ \A i \in 1..L : FlatStep(seqs, f, i)
    BY <1>2, FlattenDefined
  <2>2. L \in Nat /\ L >= 1 /\ DOMAIN seqs = 1..L /\ \A i \in 1..L : seqs[i] \in Seq(T)
    BY <1>2
  <2>. DEFINE U(n) == UNION {Range(seqs[i]) : i \in 1..n}
              good == {n \in 1..L : Range(f[n]) = U(n)}
  <2>3. 1 \in good
    <3>1. f[1] = seqs[1]
      BY <2>1, <2>2 DEF FlatStep
    <3>2. U(1) = Range(seqs[1])
      OBVIOUS
    <3>. QED BY <2>2, <3>1, <3>2
  <2>4. ASSUME NEW n \in 1..L, n # L, n \in good PROVE n + 1 \in good
    <3>1. n + 1 \in 1..L /\ n + 1 # 1 /\ (n + 1) - 1 = n
      BY <2>2, <2>4
    <3>2. f[n + 1] = f[n] \o seqs[n + 1] /\ f[n] \in Seq(T) /\ seqs[n + 1] \in Seq(T)
      BY <2>1, <2>2, <3>1 DEF FlatStep
    <3>3. Range(f[n + 1]) = Range(f[n]) \union Range(seqs[n + 1])
      BY <3>2, RangeConcatenation
    <3>4. 1..(n + 1) = 1..n \union {n + 1}
      OBVIOUS
    <3>5. U(n + 1) = U(n) \union Range(seqs[n + 1])
      BY <3>4
    <3>6. Range(f[n]) = U(n)
      BY <2>4
    <3>. HIDE DEF U
    <3>. QED BY <3>1, <3>3, <3>5, <3>6
  <2>5. L \in good
    <3>1. L \in 1..L
      BY <2>2
    <3>. HIDE DEF good
    <3>. QED BY <2>2, <2>3, <2>4, <3>1, UpTo
  <2>. QED BY <2>1, <2>2, <2>5
<1>. QED BY <1>1, <1>2

\* The members Kept keeps.
LEMMA KeptRange ==
  ASSUME NEW T, NEW s \in Seq(T), NEW at \in SUBSET DOMAIN s
  PROVE  Range(Kept(s, at)) = {s[i] : i \in at}
<1>. DEFINE k == Kept(s, at)
<1>1. /\ k \in Seq(T)
      /\ \A n \in 1..Len(k) : \E i \in at : k[n] = s[i]
      /\ \A i \in at : \E n \in 1..Len(k) : k[n] = s[i]
  BY KeptProperties
<1>. HIDE DEF k
<1>2. DOMAIN k = 1..Len(k)
  BY <1>1
<1>3. ASSUME NEW x \in Range(k) PROVE x \in {s[i] : i \in at}
  BY <1>1, <1>2 DEF Range
<1>4. ASSUME NEW i \in at PROVE s[i] \in Range(k)
  BY <1>1, <1>2 DEF Range
<1>. QED BY <1>3, <1>4 DEF k

NoRepeat(s) == \A i, j \in DOMAIN s : s[i] = s[j] => i = j

\* A list has no repetition exactly when it has as many members as places.
LEMMA RangeCardinality ==
  ASSUME NEW T, NEW s \in Seq(T)
  PROVE  /\ IsFiniteSet(Range(s)) /\ Cardinality(Range(s)) \in 0..Len(s)
         /\ Cardinality(Range(s)) = Len(s) <=> NoRepeat(s)
<1>1. Len(s) \in Nat /\ DOMAIN s = 1..Len(s)
  OBVIOUS
<1>2. s \in Surjection(1..Len(s), Range(s))
  BY <1>1 DEF Surjection, Range
<1>3. IsFiniteSet(1..Len(s)) /\ Cardinality(1..Len(s)) = Len(s)
  BY <1>1, OneTo
<1>4. /\ IsFiniteSet(Range(s)) /\ Cardinality(Range(s)) <= Len(s)
      /\ Cardinality(Range(s)) = Len(s) <=> s \in Injection(1..Len(s), Range(s))
  BY <1>2, <1>3, FS_Surjection
<1>5. s \in Injection(1..Len(s), Range(s)) <=> NoRepeat(s)
  BY <1>1 DEF Injection, IsInjective, NoRepeat, Range
<1>. QED BY <1>1, <1>4, <1>5, FS_CardinalityType

\* Once(s), the list of a Set built from s: the same members, none twice.
LEMMA OnceProperties ==
  ASSUME NEW T, NEW s \in Seq(T)
  PROVE  /\ Once(s) \in Seq(T) /\ Range(Once(s)) = Range(s) /\ NoRepeat(Once(s))
         /\ Len(Once(s)) = Cardinality(Range(s))
<1>. DEFINE at == {i \in DOMAIN s : \A j \in 1..(i - 1) : s[j] # s[i]}
            o == Once(s)
<1>1. o = Kept(s, at) /\ at \in SUBSET DOMAIN s /\ DOMAIN s = 1..Len(s) /\ Len(s) \in Nat
  BY DEF Once
<1>2. \A i \in at : \A j \in 1..(i - 1) : s[j] # s[i]
  OBVIOUS
<1>3. ASSUME NEW i \in DOMAIN s PROVE \E j \in at : s[j] = s[i]
  <2>. DEFINE same == {j \in DOMAIN s : s[j] = s[i]}
  <2>1. same \in SUBSET Nat /\ same # {}
    BY <1>1
  <2>2. PICK j \in same : \A x \in same : j <= x
    <3>. HIDE DEF same
    <3>. QED BY <2>1, Smallest
  <2>3. \A x \in 1..(j - 1) : s[x] # s[j]
    <3>. SUFFICES ASSUME NEW x \in 1..(j - 1), s[x] = s[j] PROVE FALSE
      OBVIOUS
    <3>1. x \in same /\ x < j
      BY <1>1
    <3>. QED BY <1>1, <2>2, <3>1
  <2>. QED BY <2>3
<1>. HIDE DEF at
<1>. HIDE DEF o
<1>4. \A m, n \in 1..Len(o) : m < n => \E i, j \in at : i < j /\ o[m] = s[i] /\ o[n] = s[j]
  <2>1. \A m, n \in 1..Len(Kept(s, at)) : m < n =>
          \E i, j \in at : i < j /\ Kept(s, at)[m] = s[i] /\ Kept(s, at)[n] = s[j]
    BY <1>1, KeptProperties
  <2>. QED BY <1>1, <2>1
<1>5. o \in Seq(T) /\ DOMAIN o = 1..Len(o) /\ Len(o) \in Nat
  BY <1>1, KeptProperties
<1>6. Range(o) = {s[i] : i \in at}
  BY <1>1, KeptRange
<1>7. Range(o) = Range(s)
  BY <1>1, <1>3, <1>6 DEF Range
<1>8. ASSUME NEW m \in DOMAIN o, NEW n \in DOMAIN o, m < n PROVE o[m] # o[n]
  <2>1. PICK i \in at, j \in at : i < j /\ o[m] = s[i] /\ o[n] = s[j]
    BY <1>5, <1>8, <1>4
  <2>2. i \in 1..(j - 1)
    BY <1>1, <2>1
  <2>. QED BY <1>2, <2>1, <2>2
<1>9. NoRepeat(o)
  BY <1>5, <1>8 DEF NoRepeat
<1>10. Len(o) = Cardinality(Range(o))
  BY <1>5, <1>9, RangeCardinality
<1>. QED BY <1>5, <1>7, <1>9, <1>10 DEF o

-----------------------------------------------------------------------------
(* What the builder's helpers return.                                       *)

Kinds == {"ata:repay", "ata:collateral", "ata:withdrawLiq", "computeBudget:limit", "computeBudget:price",
          "flashBorrow", "refreshReserve", "refreshObligation", "refreshFarms", "liquidate", "swap",
          "flashRepay", "tip"}
Ixs == [kind : Kinds, reserves : Seq(Reserves), index : Nat]

\* An instruction of the model is one.
LEMMA IxTyped ==
  ASSUME NEW kind \in Kinds, NEW reserves \in Seq(Reserves), NEW index \in Nat
  PROVE  Ix(kind, reserves, index) \in Ixs
BY DEF Ix, Ixs

\* So is an instruction without accounts.
LEMMA PlainTyped ==
  ASSUME NEW kind \in Kinds
  PROVE  Ix(kind, <<>>, 0) \in Ixs
<1>1. <<>> \in Seq(Reserves)
  OBVIOUS
<1>. QED BY <1>1, IxTyped

\* The reserves an obligation's legs name, all of them and the active ones.
LEMMA LegsTyped ==
  ASSUME NEW legs \in Seq(Leg)
  PROVE  AllOf(legs) \in Seq(Reserves) /\ ActiveOf(legs) \in Seq(Reserves)
<1>1. ASSUME NEW ls \in Seq(Leg) PROVE AllOf(ls) \in Seq(Reserves)
  <2>1. DOMAIN ls = 1..Len(ls) /\ Len(ls) \in Nat /\ \A i \in 1..Len(ls) : ls[i] \in Leg
    OBVIOUS
  <2>2. \A i \in 1..Len(ls) : ls[i].reserve \in Reserves
    BY <2>1 DEF Leg
  <2>. QED BY <2>1, <2>2 DEF AllOf
<1>2. Kept(legs, {i \in DOMAIN legs : legs[i].active}) \in Seq(Leg)
  BY KeptProperties
<1>. QED BY <1>1, <1>2 DEF ActiveOf

\* The same for the obligation's deposits and borrows.
LEMMA ObligationTyped ==
  ASSUME NEW o \in Obligations
  PROVE  /\ ActiveOf(o.deposits) \in Seq(Reserves) /\ ActiveOf(o.borrows) \in Seq(Reserves)
         /\ AllOf(o.deposits) \in Seq(Reserves) /\ AllOf(o.borrows) \in Seq(Reserves)
BY ObligationsAssumption, LegsTyped

\* resolveRefreshReserves() lists reserves, whatever the mode.
LEMMA RefreshListTyped ==
  ASSUME NEW o \in Obligations, NEW mode
  PROVE  RefreshList(o, mode) \in Seq(Reserves)
BY ObligationTyped DEF RefreshList

\* A choice of the first leg that fits is one of the legs, or none.
LEMMA FirstIsOneOf ==
  ASSUME NEW s \in Seq(Reserves), NEW fits
  PROVE  First(s, fits) \in (Range(s) \intersect fits) \union {NoReserve}
<1>. DEFINE at == {i \in DOMAIN s : s[i] \in fits}
<1>1. CASE at = {}
  BY <1>1 DEF First
<1>2. CASE at # {}
  <2>1. at \in SUBSET Nat
    OBVIOUS
  <2>2. Min(at) \in at
    <3>. HIDE DEF at
    <3>. QED BY <1>2, <2>1, MinProperties
  <2>3. First(s, fits) = s[Min(at)]
    BY <1>2 DEF First
  <2>. QED BY <2>2, <2>3 DEF Range
<1>. QED BY <1>1, <1>2

\* A choice of the worthiest leg is one of the legs, or none.
LEMMA WorthiestIsOneOf ==
  ASSUME NEW s \in Seq(Reserves)
  PROVE  Worthiest(s) \in Range(s) \union {NoReserve}
BY FirstIsOneOf DEF Worthiest

\* What is picked is an active leg; of a plan that names its reserves, the ones
\* it names or nothing.
LEMMA Picks ==
  ASSUME NEW o \in Obligations, NEW p \in Plans
  PROVE  /\ PickedRepay(o, p) \in Range(ActiveOf(o.borrows)) \union {NoReserve}
         /\ PickedCollateral(o, p) \in Range(ActiveOf(o.deposits)) \union {NoReserve}
         /\ p.repay # NoReserve => PickedRepay(o, p) \in {p.repay, NoReserve}
         /\ p.collateral # NoReserve => PickedCollateral(o, p) \in {p.collateral, NoReserve}
<1>. DEFINE d == ActiveOf(o.deposits)
            b == ActiveOf(o.borrows)
<1>1. d \in Seq(Reserves) /\ b \in Seq(Reserves)
  BY ObligationTyped
<1>. HIDE DEF d, b
<1>2. \A fits : First(b, fits) \in (Range(b) \intersect fits) \union {NoReserve}
  BY <1>1, FirstIsOneOf
<1>3. \A fits : First(d, fits) \in (Range(d) \intersect fits) \union {NoReserve}
  BY <1>1, FirstIsOneOf
<1>4. Worthiest(b) \in Range(b) \union {NoReserve} /\ Worthiest(d) \in Range(d) \union {NoReserve}
  BY <1>1, WorthiestIsOneOf
<1>5. /\ PickedRepay(o, p) \in Range(b) \union {NoReserve}
      /\ p.repay # NoReserve => PickedRepay(o, p) \in {p.repay, NoReserve}
  <2>1. PickedRepay(o, p) = IF p.repay # NoReserve THEN First(b, {p.repay})
                            ELSE IF p.mint # NoMint THEN First(b, {r \in Reserves : Mint[r] = p.mint})
                            ELSE Worthiest(b)
    BY DEF PickedRepay, b
  <2>2. First(b, {r \in Reserves : Mint[r] = p.mint}) \in Range(b) \union {NoReserve}
    BY <1>2
  <2>3. First(b, {p.repay}) \in (Range(b) \intersect {p.repay}) \union {NoReserve}
    BY <1>2
  <2>. QED BY <1>4, <2>1, <2>2, <2>3
<1>6. /\ PickedCollateral(o, p) \in Range(d) \union {NoReserve}
      /\ p.collateral # NoReserve => PickedCollateral(o, p) \in {p.collateral, NoReserve}
  <2>1. PickedCollateral(o, p) = IF p.collateral # NoReserve THEN First(d, {p.collateral}) ELSE Worthiest(d)
    BY DEF PickedCollateral, d
  <2>2. First(d, {p.collateral}) \in (Range(d) \intersect {p.collateral}) \union {NoReserve}
    BY <1>3
  <2>. QED BY <1>4, <2>1, <2>2
<1>. QED BY <1>5, <1>6 DEF d, b

\* The reserves refreshed first hold the pair; in the modes that refresh all of
\* few, they are all that an obligation's own refresh names.
LEMMA PreRefreshes ==
  ASSUME NEW o \in Obligations, NEW repay \in Range(ActiveOf(o.borrows)),
         NEW coll \in Range(ActiveOf(o.deposits)), NEW mode
  PROVE  LET pre == PreRefreshed(o, {repay, coll}, mode)
             named == Range(RefreshList(o, "active"))
         IN /\ pre \in Seq(Reserves) /\ repay \in Range(pre) /\ coll \in Range(pre)
            /\ mode \in {"all", "auto"} /\ Cardinality(named) <= MaxFull => named \subseteq Range(pre)
<1>. DEFINE active == ActiveOf(o.deposits) \o ActiveOf(o.borrows)
            all == Once(active)
            in == {i \in DOMAIN all : all[i] \in {repay, coll}}
            pre == PreRefreshed(o, {repay, coll}, mode)
            named == Range(RefreshList(o, "active"))
<1>1. ActiveOf(o.deposits) \in Seq(Reserves) /\ ActiveOf(o.borrows) \in Seq(Reserves)
  BY ObligationTyped
<1>2. active \in Seq(Reserves) /\ Range(active) = Range(ActiveOf(o.deposits)) \union Range(ActiveOf(o.borrows))
  BY <1>1, RangeConcatenation
<1>3. repay \in Range(active) /\ coll \in Range(active)
  BY <1>2
<1>4. active # <<>>
  BY <1>3 DEF Range
<1>5. named = Range(active)
  BY <1>4 DEF RefreshList
<1>6. all \in Seq(Reserves) /\ Range(all) = Range(active) /\ Len(all) = Cardinality(named)
  BY <1>2, <1>5, OnceProperties
<1>7. pre = IF mode = "all" \/ (mode = "auto" /\ Len(all) <= MaxFull) THEN all ELSE Kept(all, in)
  BY DEF PreRefreshed
<1>. HIDE DEF active, all, pre, named
<1>8. Kept(all, in) \in Seq(Reserves) /\ Range(Kept(all, in)) = {all[i] : i \in in}
  BY <1>6, KeptProperties, KeptRange
<1>9. repay \in {all[i] : i \in in} /\ coll \in {all[i] : i \in in}
  BY <1>3, <1>6 DEF Range
<1>10. pre \in Seq(Reserves) /\ repay \in Range(pre) /\ coll \in Range(pre)
  <2>. HIDE DEF in
  <2>. QED BY <1>3, <1>6, <1>7, <1>8, <1>9
<1>11. mode \in {"all", "auto"} /\ Cardinality(named) <= MaxFull => named \subseteq Range(pre)
  <2>. HIDE DEF in
  <2>. QED BY <1>5, <1>6, <1>7
<1>. QED BY <1>10, <1>11 DEF pre, named

\* Concatenating lists of at most one element.
LEMMA TwoConcatenated ==
  ASSUME NEW T, NEW a \in T, NEW b \in T
  PROVE  /\ <<a>> \in Seq(T) /\ <<a, b>> \in Seq(T) /\ <<>> \in Seq(T)
         /\ <<a>> \o <<b>> = <<a, b>>
         /\ <<a>> \o <<>> = <<a>> /\ <<>> \o <<b>> = <<b>> /\ <<>> \o <<>> = <<>>
<1>1. <<a>> \in Seq(T) /\ <<b>> \in Seq(T) /\ <<a, b>> \in Seq(T) /\ <<>> \in Seq(T)
  OBVIOUS
<1>. DEFINE c == <<a>> \o <<b>>
            d == <<a, b>>
<1>2. c \in Seq(T) /\ Len(c) = 2 /\ c[1] = a /\ c[2] = b
  BY <1>1
<1>3. d \in Seq(T) /\ Len(d) = 2 /\ d[1] = a /\ d[2] = b
  BY <1>1
<1>. HIDE DEF c, d
<1>4. \A i \in 1..Len(c) : c[i] = d[i]
  BY <1>2, <1>3
<1>5. c = d
  BY <1>2, <1>3, <1>4, SeqEqual
<1>6. <<a>> \o <<>> = <<a>> /\ <<>> \o <<b>> = <<b>> /\ <<>> \o <<>> = <<>>
  BY <1>1, ConcatEmptySeq
<1>. QED BY <1>1, <1>5, <1>6 DEF c, d

\* The farms instructions: one for each farm of the pair, at most two.
LEMMA FarmsTyped ==
  ASSUME NEW repay \in Reserves, NEW coll \in Reserves
  PROVE  /\ FarmModes(repay, coll) \in Seq({0, 1}) /\ Len(FarmModes(repay, coll)) \in 0..2
         /\ FarmIxs(<<>>, repay, coll) = <<>>
         /\ LET farms == FarmIxs(FarmModes(repay, coll), repay, coll)
            IN /\ farms \in Seq(Ixs) /\ Len(farms) = Len(FarmModes(repay, coll))
               /\ \A i \in 1..Len(farms) : farms[i].kind = "refreshFarms" /\ Range(farms[i].reserves) \subseteq {repay, coll}
<1>1. FarmModes(repay, coll) \in {<<>>, <<0>>, <<1>>, <<0, 1>>}
  <2>1. 0 \in {0, 1} /\ 1 \in {0, 1}
    OBVIOUS
  <2>. QED BY <2>1, TwoConcatenated DEF FarmModes
<1>2. FarmModes(repay, coll) \in Seq({0, 1}) /\ Len(FarmModes(repay, coll)) \in 0..2
  <2>. DEFINE T == {0, 1}
  <2>1. 0 \in T /\ 1 \in T
    OBVIOUS
  <2>. HIDE DEF T
  <2>2. <<>> \in Seq(T) /\ <<0>> \in Seq(T) /\ <<1>> \in Seq(T) /\ <<0, 1>> \in Seq(T)
    BY <2>1, TwoConcatenated
  <2>3. Len(<<>>) = 0 /\ Len(<<0>>) = 1 /\ Len(<<1>>) = 1 /\ Len(<<0, 1>>) = 2
    OBVIOUS
  <2>4. FarmModes(repay, coll) \in Seq(T)
    BY <1>1, <2>2
  <2>5. Len(FarmModes(repay, coll)) \in 0..2
    <3>1. CASE FarmModes(repay, coll) = <<0, 1>>
      BY <2>3, <3>1
    <3>2. CASE FarmModes(repay, coll) \in {<<>>, <<0>>, <<1>>}
      BY <2>3, <3>2
    <3>. QED BY <1>1, <3>1, <3>2
  <2>. QED BY <2>4, <2>5 DEF T
<1>3. FarmIxs(<<>>, repay, coll) = <<>>
  BY DEF FarmIxs
<1>4. ASSUME NEW modes \in Seq({0, 1})
      PROVE  LET farms == FarmIxs(modes, repay, coll)
             IN /\ farms \in Seq(Ixs) /\ Len(farms) = Len(modes)
                /\ \A i \in 1..Len(farms) : farms[i].kind = "refreshFarms" /\ Range(farms[i].reserves) \subseteq {repay, coll}
  <2>. DEFINE one(i) == <<IF modes[i] = 0 THEN coll ELSE repay>>
              farms == FarmIxs(modes, repay, coll)
  <2>1. DOMAIN modes = 1..Len(modes) /\ Len(modes) \in Nat /\ \A i \in 1..Len(modes) : modes[i] \in {0, 1}
    OBVIOUS
  <2>2. \A i : one(i) \in Seq(Reserves) /\ Range(one(i)) \subseteq {repay, coll}
    BY DEF Range
  <2>3. farms = [i \in 1..Len(modes) |-> Ix("refreshFarms", one(i), modes[i])]
    BY <2>1 DEF FarmIxs
  <2>. HIDE DEF one, farms
  <2>4. \A i \in 1..Len(modes) : Ix("refreshFarms", one(i), modes[i]) \in Ixs
    <3>1. "refreshFarms" \in Kinds
      BY DEF Kinds
    <3>. QED BY <2>1, <2>2, <3>1, IxTyped
  <2>5. farms \in Seq(Ixs) /\ Len(farms) = Len(modes)
    BY <2>1, <2>3, <2>4
  <2>6. \A i \in 1..Len(modes) : farms[i].kind = "refreshFarms" /\ farms[i].reserves = one(i)
    BY <2>3 DEF Ix
  <2>. QED BY <2>2, <2>5, <2>6 DEF farms
<1>. QED BY <1>2, <1>3, <1>4

BudgetKind(i) == IF i = 1 THEN "computeBudget:limit" ELSE "computeBudget:price"
\* The compute budget: a limit, and a price when there is one.
LEMMA BudgetTyped ==
  ASSUME NEW price
  PROVE  /\ Budget(price) \in Seq(Ixs) /\ Len(Budget(price)) \in 1..2
         /\ \A i \in 1..Len(Budget(price)) :
              Budget(price)[i].kind = BudgetKind(i) /\ Budget(price)[i].reserves = <<>>
<1>. DEFINE l == Ix("computeBudget:limit", <<>>, 0)
            p == Ix("computeBudget:price", <<>>, 0)
<1>1. l \in Ixs /\ p \in Ixs
  BY PlainTyped DEF Kinds
<1>2. /\ l.kind = "computeBudget:limit" /\ l.reserves = <<>>
      /\ p.kind = "computeBudget:price" /\ p.reserves = <<>>
  BY DEF Ix
<1>3. Budget(price) = <<l>> \o (IF price > 0 THEN <<p>> ELSE <<>>)
  BY DEF Budget
<1>. HIDE DEF l, p
<1>4. Budget(price) \in {<<l>>, <<l, p>>}
  BY <1>1, <1>3, TwoConcatenated
<1>5. CASE Budget(price) = <<l>>
  BY <1>1, <1>2, <1>5 DEF BudgetKind
<1>6. CASE Budget(price) = <<l, p>>
  <2>1. <<l, p>> \in Seq(Ixs) /\ Len(<<l, p>>) = 2 /\ <<l, p>>[1] = l /\ <<l, p>>[2] = p
    BY <1>1
  <2>. QED BY <1>2, <1>6, <2>1 DEF BudgetKind
<1>. QED BY <1>4, <1>5, <1>6

AtaKinds == {"ata:repay", "ata:collateral", "ata:withdrawLiq"}
Creating(s) == \A i \in 1..Len(s) : s[i].kind \in AtaKinds /\ s[i].reserves = <<>>
\* The setup instructions only create token accounts.
LEMMA SetupTyped ==
  ASSUME NEW m
  PROVE  SetupIxs(m) \in Seq(Ixs) /\ Creating(SetupIxs(m))
<1>. DEFINE lacking == Kept(AtaChecks, {i \in DOMAIN AtaChecks : AtaChecks[i] \in m})
<1>1. AtaChecks \in Seq(AtaKinds)
  BY DEF AtaChecks, AtaKinds
<1>2. lacking \in Seq(AtaKinds)
  BY <1>1, KeptProperties
<1>. HIDE DEF lacking
<1>3. DOMAIN lacking = 1..Len(lacking) /\ Len(lacking) \in Nat /\ \A i \in 1..Len(lacking) : lacking[i] \in AtaKinds
  BY <1>2
<1>4. \A i \in 1..Len(lacking) : Ix(lacking[i], <<>>, 0) \in Ixs
  BY <1>3, PlainTyped DEF AtaKinds, Kinds
<1>5. SetupIxs(m) = [i \in 1..Len(lacking) |-> Ix(lacking[i], <<>>, 0)]
  BY <1>3 DEF SetupIxs, lacking
<1>. QED BY <1>3, <1>4, <1>5 DEF Ix, Creating

-----------------------------------------------------------------------------
(* What a transaction looks like: its instructions at their places.         *)

IsJoin(T, x, y, z) ==
  /\ z \in Seq(T) /\ Len(x) \in Nat /\ Len(y) \in Nat /\ Len(z) = Len(x) + Len(y)
  /\ \A i \in 1..Len(x) : z[i] = x[i]
  /\ \A i \in 1..Len(y) : z[Len(x) + i] = y[i]

\* Where the two parts of a concatenation are found in it.
LEMMA Concatenated ==
  ASSUME NEW T, NEW x \in Seq(T), NEW y \in Seq(T)
  PROVE  IsJoin(T, x, y, x \o y)
<1>1. /\ x \o y \in Seq(T) /\ Len(x) \in Nat /\ Len(y) \in Nat /\ Len(x \o y) = Len(x) + Len(y)
  OBVIOUS
<1>2. \A i \in 1..Len(x) : (x \o y)[i] = x[i]
  OBVIOUS
<1>3. ASSUME NEW i \in 1..Len(y) PROVE (x \o y)[Len(x) + i] = y[i]
  <2>1. Len(x) + i \in 1..(Len(x) + Len(y)) /\ ~(Len(x) + i <= Len(x)) /\ (Len(x) + i) - Len(x) = i
    BY <1>1
  <2>. QED BY <2>1, ConcatProperties
<1>. QED BY <1>1, <1>2, <1>3 DEF IsJoin

\* y stands in x, behind its first n elements.
Stands(x, n, y) == \A i \in 1..Len(y) : n + i \in 1..Len(x) /\ x[n + i] = y[i]
Joined(x, y) == x \o y

\* What stands at a place of the first part stays there when a second is joined.
LEMMA Joining ==
  ASSUME NEW T, NEW x \in Seq(T), NEW y \in Seq(T)
  PROVE  /\ Joined(x, y) \in Seq(T) /\ Len(Joined(x, y)) = Len(x) + Len(y) /\ Len(x) \in Nat /\ Len(y) \in Nat
         /\ Stands(Joined(x, y), Len(x), y)
         /\ \A n \in Nat : \A z \in Seq(T) : Stands(x, n, z) => Stands(Joined(x, y), n, z)
<1>. DEFINE j == Joined(x, y)
<1>1. /\ j \in Seq(T) /\ Len(x) \in Nat /\ Len(y) \in Nat /\ Len(j) = Len(x) + Len(y)
      /\ \A i \in 1..Len(x) : j[i] = x[i]
      /\ \A i \in 1..Len(y) : j[Len(x) + i] = y[i]
  BY Concatenated DEF Joined, IsJoin
<1>. HIDE DEF j
<1>2. Stands(j, Len(x), y)
  BY <1>1 DEF Stands
<1>3. ASSUME NEW n \in Nat, NEW z \in Seq(T), Stands(x, n, z) PROVE Stands(j, n, z)
  BY <1>1, <1>3 DEF Stands
<1>. QED BY <1>1, <1>2, <1>3 DEF j

Eight(T, a, b, c, d, e, f, g, h, all) ==
  /\ all \in Seq(T)
  /\ Len(all) = Len(a) + Len(b) + Len(c) + Len(d) + Len(e) + Len(f) + Len(g) + Len(h)
  /\ Stands(all, 0, a)
  /\ Stands(all, Len(a), b)
  /\ Stands(all, Len(a) + Len(b), c)
  /\ Stands(all, Len(a) + Len(b) + Len(c), d)
  /\ Stands(all, Len(a) + Len(b) + Len(c) + Len(d), e)
  /\ Stands(all, Len(a) + Len(b) + Len(c) + Len(d) + Len(e), f)
  /\ Stands(all, Len(a) + Len(b) + Len(c) + Len(d) + Len(e) + Len(f), g)
  /\ Stands(all, Len(a) + Len(b) + Len(c) + Len(d) + Len(e) + Len(f) + Len(g), h)

\* Where the eight parts of the liquidation are found in their concatenation.
LEMMA EightConcatenated ==
  ASSUME NEW T, NEW a \in Seq(T), NEW b \in Seq(T), NEW c \in Seq(T), NEW d \in Seq(T),
         NEW e \in Seq(T), NEW f \in Seq(T), NEW g \in Seq(T), NEW h \in Seq(T)
  PROVE  Eight(T, a, b, c, d, e, f, g, h, a \o b \o c \o d \o e \o f \o g \o h)
<1>. DEFINE s2 == Joined(a, b)
            s3 == Joined(s2, c)
            s4 == Joined(s3, d)
            s5 == Joined(s4, e)
            s6 == Joined(s5, f)
            s7 == Joined(s6, g)
            s8 == Joined(s7, h)
            o1 == Len(a)
            o2 == o1 + Len(b)
            o3 == o2 + Len(c)
            o4 == o3 + Len(d)
            o5 == o4 + Len(e)
            o6 == o5 + Len(f)
            o7 == o6 + Len(g)
            o8 == o7 + Len(h)
<1>1. ASSUME NEW x \in Seq(T), NEW y \in Seq(T)
      PROVE  /\ Joined(x, y) \in Seq(T) /\ Len(Joined(x, y)) = Len(x) + Len(y)
             /\ Stands(Joined(x, y), Len(x), y)
             /\ \A n \in Nat : \A z \in Seq(T) : Stands(x, n, z) => Stands(Joined(x, y), n, z)
  BY Joining
<1>2. /\ o1 \in Nat /\ o2 \in Nat /\ o3 \in Nat /\ o4 \in Nat /\ o5 \in Nat /\ o6 \in Nat /\ o7 \in Nat /\ 0 \in Nat
  OBVIOUS
<1>3. a \in Seq(T) /\ Len(a) = o1 /\ Stands(a, 0, a)
  BY DEF Stands
<1>4. a \o b \o c \o d \o e \o f \o g \o h = s8
  BY DEF Joined
<1>5. s2 \in Seq(T) /\ Len(s2) = o2
  BY <1>1, <1>3, Zenon
<1>6. s3 \in Seq(T) /\ Len(s3) = o3
  BY <1>1, <1>5, Zenon
<1>7. s4 \in Seq(T) /\ Len(s4) = o4
  BY <1>1, <1>6, Zenon
<1>8. s5 \in Seq(T) /\ Len(s5) = o5
  BY <1>1, <1>7, Zenon
<1>9. s6 \in Seq(T) /\ Len(s6) = o6
  BY <1>1, <1>8, Zenon
<1>10. s7 \in Seq(T) /\ Len(s7) = o7
  BY <1>1, <1>9, Zenon
<1>11. s8 \in Seq(T) /\ Len(s8) = o8
  BY <1>1, <1>10, Zenon
<1>. HIDE DEF o1, o2, o3, o4, o5, o6, o7, o8
<1>12. /\ Stands(s2, 0, a)
       /\ Stands(s2, o1, b)
  BY <1>1, <1>2, <1>3, <1>3, Zenon
<1>. HIDE DEF s2
<1>13. /\ Stands(s3, 0, a)
       /\ Stands(s3, o1, b)
       /\ Stands(s3, o2, c)
  BY <1>1, <1>2, <1>3, <1>5, <1>12, Zenon
<1>. HIDE DEF s3
<1>14. /\ Stands(s4, 0, a)
       /\ Stands(s4, o1, b)
       /\ Stands(s4, o2, c)
       /\ Stands(s4, o3, d)
  BY <1>1, <1>2, <1>3, <1>6, <1>13, Zenon
<1>. HIDE DEF s4
<1>15. /\ Stands(s5, 0, a)
       /\ Stands(s5, o1, b)
       /\ Stands(s5, o2, c)
       /\ Stands(s5, o3, d)
       /\ Stands(s5, o4, e)
  BY <1>1, <1>2, <1>3, <1>7, <1>14, Zenon
<1>. HIDE DEF s5
<1>16. /\ Stands(s6, 0, a)
       /\ Stands(s6, o1, b)
       /\ Stands(s6, o2, c)
       /\ Stands(s6, o3, d)
       /\ Stands(s6, o4, e)
       /\ Stands(s6, o5, f)
  BY <1>1, <1>2, <1>3, <1>8, <1>15, Zenon
<1>. HIDE DEF s6
<1>17. /\ Stands(s7, 0, a)
       /\ Stands(s7, o1, b)
       /\ Stands(s7, o2, c)
       /\ Stands(s7, o3, d)
       /\ Stands(s7, o4, e)
       /\ Stands(s7, o5, f)
       /\ Stands(s7, o6, g)
  BY <1>1, <1>2, <1>3, <1>9, <1>16, Zenon
<1>. HIDE DEF s7
<1>18. /\ Stands(s8, 0, a)
       /\ Stands(s8, o1, b)
       /\ Stands(s8, o2, c)
       /\ Stands(s8, o3, d)
       /\ Stands(s8, o4, e)
       /\ Stands(s8, o5, f)
       /\ Stands(s8, o6, g)
       /\ Stands(s8, o7, h)
  BY <1>1, <1>2, <1>3, <1>10, <1>17, Zenon
<1>. HIDE DEF s8
<1>19. Eight(T, a, b, c, d, e, f, g, h, s8)
  BY <1>11, <1>18 DEF Eight, o1, o2, o3, o4, o5, o6, o7, o8
<1>. QED BY <1>4, <1>19 DEF s2, s3, s4, s5, s6, s7, s8, Joined

\* Concatenation is associative.
LEMMA JoinedAssociates ==
  \A S : \A x, y, z \in Seq(S) : Joined(Joined(x, y), z) = Joined(x, Joined(y, z))
<1>1. \A S : \A s, t, u \in Seq(S) : (s \o t) \o u = s \o (t \o u)
  BY ConcatAssociative, Zenon
<1>. QED BY <1>1, Zenon DEF Joined

Nine(T, a, b, c, d, e, f, g, h, k, all) ==
  /\ all \in Seq(T)
  /\ all = a \o (b \o c \o d \o e \o f \o g \o h \o k)

\* Nine parts: the eight of the core and the head before them.
LEMMA NineConcatenated ==
  ASSUME NEW T, NEW a \in Seq(T), NEW b \in Seq(T), NEW c \in Seq(T), NEW d \in Seq(T),
         NEW e \in Seq(T), NEW f \in Seq(T), NEW g \in Seq(T), NEW h \in Seq(T), NEW k \in Seq(T)
  PROVE  Nine(T, a, b, c, d, e, f, g, h, k, a \o b \o c \o d \o e \o f \o g \o h \o k)
<1>. DEFINE s2 == Joined(b, c)
            s3 == Joined(s2, d)
            s4 == Joined(s3, e)
            s5 == Joined(s4, f)
            s6 == Joined(s5, g)
            s7 == Joined(s6, h)
            s8 == Joined(s7, k)
<1>1. ASSUME NEW x \in Seq(T), NEW y \in Seq(T), NEW z \in Seq(T)
      PROVE  Joined(Joined(x, y), z) = Joined(x, Joined(y, z))
  BY JoinedAssociates
<1>2. ASSUME NEW x \in Seq(T), NEW y \in Seq(T)
      PROVE  Joined(x, y) \in Seq(T)
  BY DEF Joined
<1>3. s2 \in Seq(T) /\ Joined(Joined(a, b), c) = Joined(a, s2)
  BY <1>2, <1>1
<1>. HIDE DEF s2
<1>4. s3 \in Seq(T) /\ Joined(Joined(a, s2), d) = Joined(a, s3)
  BY <1>2, <1>1, <1>3
<1>. HIDE DEF s3
<1>5. s4 \in Seq(T) /\ Joined(Joined(a, s3), e) = Joined(a, s4)
  BY <1>2, <1>1, <1>4
<1>. HIDE DEF s4
<1>6. s5 \in Seq(T) /\ Joined(Joined(a, s4), f) = Joined(a, s5)
  BY <1>2, <1>1, <1>5
<1>. HIDE DEF s5
<1>7. s6 \in Seq(T) /\ Joined(Joined(a, s5), g) = Joined(a, s6)
  BY <1>2, <1>1, <1>6
<1>. HIDE DEF s6
<1>8. s7 \in Seq(T) /\ Joined(Joined(a, s6), h) = Joined(a, s7)
  BY <1>2, <1>1, <1>7
<1>. HIDE DEF s7
<1>9. s8 \in Seq(T) /\ Joined(Joined(a, s7), k) = Joined(a, s8)
  BY <1>2, <1>1, <1>8
<1>. HIDE DEF s8
<1>10. Joined(Joined(Joined(Joined(Joined(Joined(Joined(Joined(a, b), c), d), e), f), g), h), k) = Joined(a, s8)
  BY <1>3, <1>4, <1>5, <1>6, <1>7, <1>8, <1>9
<1>11. Joined(a, s8) \in Seq(T)
  BY <1>2, <1>9
<1>12. Nine(T, a, b, c, d, e, f, g, h, k, Joined(Joined(Joined(Joined(Joined(Joined(Joined(Joined(a, b), c), d), e), f), g), h), k))
  <2>1. Joined(a, s8) = a \o (b \o c \o d \o e \o f \o g \o h \o k)
    BY DEF Joined, s2, s3, s4, s5, s6, s7, s8
  <2>. QED BY <1>10, <1>11, <2>1 DEF Nine
<1>. QED BY <1>12 DEF Joined

-----------------------------------------------------------------------------
(* The part of a transaction that stays as it was built, from the flash     *)
(* loan's borrow to its repayment, and what stands around it.               *)

Farms(repay, coll) == FarmIxs(FarmModes(repay, coll), repay, coll)
One(kind, reserves, index) == <<Ix(kind, reserves, index)>>
PreIxs(pre) == [i \in DOMAIN pre |-> Ix("refreshReserve", <<pre[i]>>, 0)]
Core(pre, list, repay, coll, swap, index) ==
  One("flashBorrow", <<>>, 0) \o PreIxs(pre) \o One("refreshObligation", list, 0)
    \o Farms(repay, coll) \o One("liquidate", <<repay, coll>>, 0) \o Farms(repay, coll)
    \o swap \o One("flashRepay", <<>>, index)

\* h instructions, the borrow, n reserves, the obligation, k farms, the
\* liquidation, k farms, w swaps, the repayment, and what comes after.
HeadKinds == {"ata:repay", "ata:collateral", "ata:withdrawLiq", "computeBudget:limit", "computeBudget:price"}
KindOf(h, n, k, w, x) ==
  IF x = h + 1 THEN "flashBorrow"
  ELSE IF x <= h + n + 1 THEN "refreshReserve"
  ELSE IF x = h + n + 2 THEN "refreshObligation"
  ELSE IF x <= h + n + k + 2 THEN "refreshFarms"
  ELSE IF x = h + n + k + 3 THEN "liquidate"
  ELSE IF x <= h + n + k + k + 3 THEN "refreshFarms"
  ELSE IF x <= h + n + k + k + w + 3 THEN "swap"
  ELSE IF x = h + n + k + k + w + 4 THEN "flashRepay"
  ELSE "tip"

\* One reserve refresh for each reserve of the pre-refresh list.
LEMMA PreIxsTyped ==
  ASSUME NEW pre \in Seq(Reserves)
  PROVE  /\ PreIxs(pre) \in Seq(Ixs) /\ Len(PreIxs(pre)) = Len(pre)
         /\ \A i \in 1..Len(pre) : PreIxs(pre)[i].kind = "refreshReserve" /\ PreIxs(pre)[i].reserves = <<pre[i]>>
<1>1. DOMAIN pre = 1..Len(pre) /\ Len(pre) \in Nat /\ \A i \in 1..Len(pre) : <<pre[i]>> \in Seq(Reserves)
  OBVIOUS
<1>2. \A i \in 1..Len(pre) : Ix("refreshReserve", <<pre[i]>>, 0) \in Ixs
  <2>1. "refreshReserve" \in Kinds
    BY DEF Kinds
  <2>. QED BY <1>1, <2>1, IxTyped
<1>3. PreIxs(pre) = [i \in 1..Len(pre) |-> Ix("refreshReserve", <<pre[i]>>, 0)]
  BY <1>1 DEF PreIxs
<1>4. PreIxs(pre) \in Seq(Ixs) /\ Len(PreIxs(pre)) = Len(pre)
  BY <1>1, <1>2, <1>3
<1>. QED BY <1>3, <1>4 DEF Ix

\* The swap is one instruction or none.
LEMMA SwapTyped ==
  ASSUME NEW swap \in {<<>>, Swap}
  PROVE  swap \in Seq(Ixs) /\ Len(swap) \in 0..1 /\ \A i \in 1..Len(swap) : swap[i].kind = "swap" /\ swap[i].reserves = <<>>
<1>1. Ix("swap", <<>>, 0) \in Ixs /\ Ix("swap", <<>>, 0).kind = "swap" /\ Ix("swap", <<>>, 0).reserves = <<>>
  BY PlainTyped DEF Ix, Kinds
<1>2. CASE swap = <<>>
  BY <1>2
<1>3. CASE swap = Swap
  <2>. DEFINE s == Ix("swap", <<>>, 0)
  <2>1. swap = <<s>>
    BY <1>3 DEF Swap
  <2>2. s \in Ixs /\ s.kind = "swap" /\ s.reserves = <<>>
    BY <1>1
  <2>. HIDE DEF s
  <2>. QED BY <2>1, <2>2
<1>. QED BY <1>2, <1>3

IsOne(s, kind, reserves, index) ==
  s \in Seq(Ixs) /\ Len(s) = 1 /\ s[1].kind = kind /\ s[1].reserves = reserves /\ s[1].index = index
\* A list of one instruction.
LEMMA OneTyped ==
  ASSUME NEW kind \in Kinds, NEW reserves \in Seq(Reserves), NEW index \in Nat
  PROVE  IsOne(One(kind, reserves, index), kind, reserves, index)
<1>. DEFINE x == Ix(kind, reserves, index)
<1>1. x \in Ixs /\ x.kind = kind /\ x.reserves = reserves /\ x.index = index
  BY IxTyped DEF Ix
<1>. HIDE DEF x
<1>2. <<x>> \in Seq(Ixs) /\ Len(<<x>>) = 1 /\ <<x>>[1] = x
  BY <1>1
<1>. QED BY <1>1, <1>2 DEF x, One, IsOne

\* n reserves, k farms and w swaps are in the core.
IsCore(core, pre, list, repay, coll, index, n, k, w) ==
  /\ core \in Seq(Ixs) /\ n \in Nat /\ k \in 0..2 /\ w \in 0..1
  /\ Len(core) = n + k + k + w + 4
  /\ \A x \in 1..Len(core) : core[x].kind = KindOf(0, n, k, w, x)
  /\ \A i \in 1..n : core[1 + i].reserves = <<pre[i]>>
  /\ core[n + 2].reserves = list
  /\ core[n + k + 3].reserves = <<repay, coll>>
  /\ core[n + k + k + w + 4].index = index

\* Where the core's instructions stand: between flashBorrow and flashRepay the
\* refreshes, the farms on both sides of the liquidation and the swap.
LEMMA CoreLayout ==
  ASSUME NEW pre \in Seq(Reserves), NEW list \in Seq(Reserves), NEW repay \in Reserves, NEW coll \in Reserves,
         NEW swap \in {<<>>, Swap}, NEW index \in Nat
  PROVE  IsCore(Core(pre, list, repay, coll, swap, index), pre, list, repay, coll, index,
                Len(pre), Len(FarmModes(repay, coll)), Len(swap))
<1>. DEFINE core == Core(pre, list, repay, coll, swap, index)
            n == Len(pre)
            k == Len(FarmModes(repay, coll))
            w == Len(swap)
            a == One("flashBorrow", <<>>, 0)
            b == PreIxs(pre)
            c == One("refreshObligation", list, 0)
            d == Farms(repay, coll)
            e == One("liquidate", <<repay, coll>>, 0)
            h == One("flashRepay", <<>>, index)
<1>1. /\ a \in Seq(Ixs) /\ Len(a) = 1 /\ a[1].kind = "flashBorrow"
      /\ c \in Seq(Ixs) /\ Len(c) = 1 /\ c[1].kind = "refreshObligation" /\ c[1].reserves = list
      /\ e \in Seq(Ixs) /\ Len(e) = 1 /\ e[1].kind = "liquidate" /\ e[1].reserves = <<repay, coll>>
      /\ h \in Seq(Ixs) /\ Len(h) = 1 /\ h[1].kind = "flashRepay" /\ h[1].index = index
  <2>1. /\ "flashBorrow" \in Kinds /\ "refreshObligation" \in Kinds /\ "liquidate" \in Kinds /\ "flashRepay" \in Kinds
        /\ <<>> \in Seq(Reserves) /\ <<repay, coll>> \in Seq(Reserves) /\ 0 \in Nat
    BY DEF Kinds
  <2>2. /\ IsOne(a, "flashBorrow", <<>>, 0)
        /\ IsOne(c, "refreshObligation", list, 0)
        /\ IsOne(e, "liquidate", <<repay, coll>>, 0)
        /\ IsOne(h, "flashRepay", <<>>, index)
    BY <2>1, OneTyped, Zenon
  <2>. HIDE DEF a, c, e, h
  <2>. QED BY <2>2 DEF IsOne
<1>2. /\ b \in Seq(Ixs) /\ Len(b) = n /\ n \in Nat
      /\ \A i \in 1..n : b[i].kind = "refreshReserve" /\ b[i].reserves = <<pre[i]>>
  BY PreIxsTyped
<1>3. d \in Seq(Ixs) /\ Len(d) = k /\ k \in 0..2 /\ \A i \in 1..k : d[i].kind = "refreshFarms"
  BY FarmsTyped DEF Farms
<1>4. swap \in Seq(Ixs) /\ w \in 0..1 /\ \A i \in 1..w : swap[i].kind = "swap"
  BY SwapTyped
<1>5. core = a \o b \o c \o d \o e \o d \o swap \o h
  BY DEF Core
<1>. HIDE DEF core, n, k, w, a, b, c, d, e, h
<1>6. /\ core \in Seq(Ixs)
      /\ Len(core) = Len(a) + Len(b) + Len(c) + Len(d) + Len(e) + Len(d) + Len(swap) + Len(h)
      /\ Stands(core, 0, a) /\ Stands(core, Len(a), b) /\ Stands(core, Len(a) + Len(b), c)
      /\ Stands(core, Len(a) + Len(b) + Len(c), d)
      /\ Stands(core, Len(a) + Len(b) + Len(c) + Len(d), e)
      /\ Stands(core, Len(a) + Len(b) + Len(c) + Len(d) + Len(e), d)
      /\ Stands(core, Len(a) + Len(b) + Len(c) + Len(d) + Len(e) + Len(d), swap)
      /\ Stands(core, Len(a) + Len(b) + Len(c) + Len(d) + Len(e) + Len(d) + Len(swap), h)
  <2>1. Eight(Ixs, a, b, c, d, e, d, swap, h, core)
    BY <1>1, <1>2, <1>3, <1>4, <1>5, EightConcatenated, Zenon
  <2>. QED BY <2>1 DEF Eight
<1>7. Len(swap) = w
  BY DEF w
<1>8. Len(core) = n + k + k + w + 4
  BY <1>1, <1>2, <1>3, <1>4, <1>6, <1>7
<1>9. /\ Stands(core, 0, a) /\ Stands(core, 1, b) /\ Stands(core, n + 1, c) /\ Stands(core, n + 2, d)
      /\ Stands(core, n + k + 2, e) /\ Stands(core, n + k + 3, d) /\ Stands(core, n + k + k + 3, swap)
      /\ Stands(core, n + k + k + w + 3, h)
  <2>1. /\ 1 + n = n + 1 /\ 1 + n + 1 = n + 2 /\ 1 + n + 1 + k = n + k + 2 /\ 1 + n + 1 + k + 1 = n + k + 3
        /\ 1 + n + 1 + k + 1 + k = n + k + k + 3 /\ 1 + n + 1 + k + 1 + k + w = n + k + k + w + 3
    BY <1>2, <1>3, <1>4
  <2>. QED BY <1>1, <1>2, <1>3, <1>6, <1>7, <2>1
<1>10. /\ core[1].kind = "flashBorrow"
       /\ core[n + 2].kind = "refreshObligation" /\ core[n + 2].reserves = list
       /\ core[n + k + 3].kind = "liquidate" /\ core[n + k + 3].reserves = <<repay, coll>>
       /\ core[n + k + k + w + 4].kind = "flashRepay" /\ core[n + k + k + w + 4].index = index
  <2>1. core[0 + 1] = a[1] /\ core[(n + 1) + 1] = c[1] /\ core[(n + k + 2) + 1] = e[1] /\ core[(n + k + k + w + 3) + 1] = h[1]
    BY <1>1, <1>9 DEF Stands
  <2>2. /\ 0 + 1 = 1 /\ (n + 1) + 1 = n + 2 /\ (n + k + 2) + 1 = n + k + 3
        /\ (n + k + k + w + 3) + 1 = n + k + k + w + 4
    BY <1>2, <1>3, <1>4
  <2>. QED BY <1>1, <2>1, <2>2
<1>11. \A i \in 1..n : core[1 + i].kind = "refreshReserve" /\ core[1 + i].reserves = <<pre[i]>>
  BY <1>2, <1>9 DEF Stands
<1>12. \A i \in 1..k : core[n + 2 + i].kind = "refreshFarms" /\ core[n + k + 3 + i].kind = "refreshFarms"
  BY <1>3, <1>9 DEF Stands
<1>13. \A i \in 1..w : core[n + k + k + 3 + i].kind = "swap"
  BY <1>4, <1>7, <1>9 DEF Stands
<1>14. ASSUME NEW x \in 1..Len(core) PROVE core[x].kind = KindOf(0, n, k, w, x)
  <2>1. n \in Nat /\ k \in Nat /\ w \in Nat /\ x \in 1..(n + k + k + w + 4)
    BY <1>2, <1>3, <1>4, <1>8
  <2>2. CASE x = 1
    BY <1>10, <2>1, <2>2 DEF KindOf
  <2>3. CASE x \in 2..(n + 1)
    <3>1. x - 1 \in 1..n /\ 1 + (x - 1) = x /\ x # 1 /\ x <= 0 + n + 1 /\ x # 0 + 1
      BY <2>1, <2>3
    <3>. QED BY <1>11, <3>1 DEF KindOf
  <2>4. CASE x = n + 2
    BY <1>10, <2>1, <2>4 DEF KindOf
  <2>5. CASE x \in (n + 3)..(n + k + 2)
    <3>1. x - (n + 2) \in 1..k /\ n + 2 + (x - (n + 2)) = x
      BY <2>1, <2>5
    <3>2. core[x].kind = "refreshFarms"
      BY <1>12, <3>1
    <3>. QED BY <2>1, <2>5, <3>2 DEF KindOf
  <2>6. CASE x = n + k + 3
    BY <1>10, <2>1, <2>6 DEF KindOf
  <2>7. CASE x \in (n + k + 4)..(n + k + k + 3)
    <3>1. x - (n + k + 3) \in 1..k /\ n + k + 3 + (x - (n + k + 3)) = x
      BY <2>1, <2>7
    <3>2. core[x].kind = "refreshFarms"
      BY <1>12, <3>1
    <3>3. KindOf(0, n, k, w, x) = "refreshFarms"
      BY <2>1, <2>7 DEF KindOf
    <3>. QED BY <3>2, <3>3
  <2>8. CASE x \in (n + k + k + 4)..(n + k + k + w + 3)
    <3>1. x - (n + k + k + 3) \in 1..w /\ n + k + k + 3 + (x - (n + k + k + 3)) = x
      BY <2>1, <2>8
    <3>2. core[x].kind = "swap"
      BY <1>13, <3>1
    <3>. QED BY <2>1, <2>8, <3>2 DEF KindOf
  <2>9. CASE x = n + k + k + w + 4
    BY <1>10, <2>1, <2>9 DEF KindOf
  <2>. QED BY <2>1, <2>2, <2>3, <2>4, <2>5, <2>6, <2>7, <2>8, <2>9
<1>. HIDE DEF core
<1>15. \A i \in 1..n : core[1 + i].reserves = <<pre[i]>>
  BY <1>11
<1>. QED BY <1>2, <1>3, <1>4, <1>6, <1>8, <1>10, <1>14, <1>15 DEF core, n, k, w, IsCore

-----------------------------------------------------------------------------
(* The core behind a head and before a tail: where its parts stand.         *)

IsHead(s) == s \in Seq(Ixs) /\ \A i \in 1..Len(s) : s[i].kind \in HeadKinds /\ s[i].reserves = <<>>
IsTail(s) == s \in Seq(Ixs) /\ \A i \in 1..Len(s) : s[i].kind = "tip" /\ s[i].reserves = <<>>

\* findIndex finds the first instruction of a kind.
LEMMA PositionIs ==
  ASSUME NEW tx \in Seq(Ixs), NEW kind, NEW x \in 1..Len(tx), tx[x].kind = kind,
         \A y \in 1..Len(tx) : y < x => tx[y].kind # kind
  PROVE  Position(tx, kind) = x - 1
<1>. DEFINE at == {i \in DOMAIN tx : tx[i].kind = kind}
<1>1. DOMAIN tx = 1..Len(tx) /\ Len(tx) \in Nat
  OBVIOUS
<1>2. at \in SUBSET Nat /\ x \in at
  BY <1>1
<1>3. \A y \in at : ~(y < x)
  BY <1>1
<1>4. Position(tx, kind) = Min(at) - 1
  BY <1>2 DEF Position
<1>. HIDE DEF at
<1>5. Min(at) \in at /\ Min(at) <= x
  BY <1>2, MinProperties
<1>6. Min(at) = x
  <2>1. Min(at) \in Nat /\ x \in Nat /\ ~(Min(at) < x) /\ Min(at) <= x
    BY <1>2, <1>3, <1>5
  <2>. QED BY <2>1
<1>. QED BY <1>4, <1>6

IsFrame(tx, head, core, tail) ==
  /\ tx \in Seq(Ixs) /\ Len(tx) = Len(head) + Len(core) + Len(tail)
  /\ \A x \in 1..Len(head) : tx[x] = head[x]
  /\ \A x \in 1..Len(core) : tx[Len(head) + x] = core[x]
  /\ \A x \in 1..Len(tail) : tx[Len(head) + Len(core) + x] = tail[x]

\* Where head, core and tail stand in a transaction.
LEMMA FrameLayout ==
  ASSUME NEW head, IsHead(head), NEW tail, IsTail(tail), NEW core \in Seq(Ixs)
  PROVE  IsFrame(head \o core \o tail, head, core, tail)
<1>. DEFINE j == head \o core
            tx == j \o tail
<1>1. head \in Seq(Ixs) /\ tail \in Seq(Ixs)
  BY DEF IsHead, IsTail
<1>2. IsJoin(Ixs, head, core, j) /\ j \in Seq(Ixs)
  BY <1>1, Concatenated DEF IsJoin
<1>. HIDE DEF j
<1>3. IsJoin(Ixs, j, tail, tx)
  BY <1>1, <1>2, Concatenated, Zenon
<1>. HIDE DEF tx
<1>4. /\ j \in Seq(Ixs) /\ Len(j) = Len(head) + Len(core) /\ Len(head) \in Nat /\ Len(core) \in Nat
      /\ \A x \in 1..Len(head) : j[x] = head[x]
      /\ \A x \in 1..Len(core) : j[Len(head) + x] = core[x]
      /\ tx \in Seq(Ixs) /\ Len(tx) = Len(j) + Len(tail) /\ Len(tail) \in Nat
      /\ \A x \in 1..Len(j) : tx[x] = j[x]
      /\ \A x \in 1..Len(tail) : tx[Len(j) + x] = tail[x]
  BY <1>2, <1>3 DEF IsJoin
<1>5. \A x \in 1..Len(head) : x \in 1..Len(j)
  BY <1>4
<1>6. \A x \in 1..Len(core) : Len(head) + x \in 1..Len(j)
  BY <1>4
<1>7. tx \in Seq(Ixs) /\ Len(tx) = Len(head) + Len(core) + Len(tail)
  BY <1>4
<1>8. /\ \A x \in 1..Len(head) : tx[x] = head[x]
      /\ \A x \in 1..Len(core) : tx[Len(head) + x] = core[x]
      /\ \A x \in 1..Len(tail) : tx[Len(head) + Len(core) + x] = tail[x]
  BY <1>4, <1>5, <1>6
<1>9. IsFrame(tx, head, core, tail)
  BY <1>7, <1>8 DEF IsFrame
<1>. QED BY <1>9 DEF tx, j

\* Head and tail name no reserve: a transaction's accounts are its core's.
LEMMA FrameAccounts ==
  ASSUME NEW head, IsHead(head), NEW tail, IsTail(tail), NEW core \in Seq(Ixs)
  PROVE  Accounts(head \o core \o tail) = Accounts(core)
<1>. DEFINE tx == head \o core \o tail
            here(x) == Range(tx[x].reserves)
<1>1. /\ tx \in Seq(Ixs) /\ Len(tx) = Len(head) + Len(core) + Len(tail)
      /\ \A x \in 1..Len(head) : tx[x] = head[x]
      /\ \A x \in 1..Len(core) : tx[Len(head) + x] = core[x]
      /\ \A x \in 1..Len(tail) : tx[Len(head) + Len(core) + x] = tail[x]
  BY FrameLayout DEF IsFrame
<1>2. /\ Len(head) \in Nat /\ Len(core) \in Nat /\ Len(tail) \in Nat
      /\ DOMAIN core = 1..Len(core)
      /\ \A x \in 1..Len(head) : head[x].reserves = <<>>
      /\ \A x \in 1..Len(tail) : tail[x].reserves = <<>>
  BY DEF IsHead, IsTail
<1>. HIDE DEF tx
<1>3. DOMAIN tx = 1..Len(tx)
  BY <1>1
<1>4. Range(<<>>) = {}
  BY DEF Range
<1>5. ASSUME NEW x \in 1..Len(tx) PROVE Range(tx[x].reserves) \subseteq Accounts(core)
  <2>1. CASE x \in 1..Len(head)
    BY <1>1, <1>2, <1>4, <2>1
  <2>2. CASE x \in (Len(head) + 1)..(Len(head) + Len(core))
    <3>1. x - Len(head) \in 1..Len(core) /\ Len(head) + (x - Len(head)) = x
      BY <1>2, <2>2
    <3>2. tx[x] = core[x - Len(head)]
      BY <1>1, <3>1
    <3>. QED BY <1>2, <3>1, <3>2 DEF Accounts
  <2>3. CASE x \in (Len(head) + Len(core) + 1)..(Len(head) + Len(core) + Len(tail))
    <3>1. x - (Len(head) + Len(core)) \in 1..Len(tail) /\ Len(head) + Len(core) + (x - (Len(head) + Len(core))) = x
      BY <1>2, <2>3
    <3>2. tx[x] = tail[x - (Len(head) + Len(core))]
      BY <1>1, <3>1
    <3>. QED BY <1>2, <1>4, <3>1, <3>2
  <2>. QED BY <1>1, <1>2, <2>1, <2>2, <2>3
<1>6. ASSUME NEW x \in 1..Len(core) PROVE Range(core[x].reserves) \subseteq Accounts(tx)
  <2>1. Len(head) + x \in 1..Len(tx) /\ tx[Len(head) + x] = core[x]
    BY <1>1, <1>2
  <2>. QED BY <1>3, <2>1 DEF Accounts
<1>7. Accounts(tx) \subseteq Accounts(core)
  BY <1>3, <1>5 DEF Accounts
<1>8. Accounts(core) \subseteq Accounts(tx)
  BY <1>2, <1>6 DEF Accounts
<1>. QED BY <1>7, <1>8 DEF tx

\* Where the program finds what it looks for in a framed core.
Positions(tx, head, tail, pre, list, repay, coll, index, h, n, k, w) ==
  /\ tx \in Seq(Ixs) /\ h \in Nat /\ n \in Nat /\ k \in 0..2 /\ w \in 0..1 /\ Len(head) = h
  /\ Len(tx) = h + n + k + k + w + 4 + Len(tail)
  /\ \A x \in 1..h : tx[x] = head[x]
  /\ \A x \in 1..Len(tx) : x > h => tx[x].kind = KindOf(h, n, k, w, x)
  /\ \A i \in 1..n : tx[h + 1 + i].reserves = <<pre[i]>>
  /\ tx[h + n + 2].reserves = list
  /\ tx[h + n + k + 3].reserves = <<repay, coll>>
  /\ tx[h + n + k + k + w + 4].index = index
  /\ Position(tx, "flashBorrow") = h
  /\ Position(tx, "refreshObligation") = h + n + 1
  /\ Position(tx, "liquidate") = h + n + k + 2
  /\ Position(tx, "flashRepay") = h + n + k + k + w + 3
  /\ Position(tx, "refreshFarms") = IF k = 0 THEN -1 ELSE h + n + 2

\* Where every kind of instruction is first found in a whole transaction,
\* whatever stands before and after its core.
LEMMA FramePositions ==
  ASSUME NEW head, IsHead(head), NEW tail, IsTail(tail),
         NEW pre \in Seq(Reserves), NEW list \in Seq(Reserves), NEW repay \in Reserves, NEW coll \in Reserves,
         NEW swap \in {<<>>, Swap}, NEW index \in Nat
  PROVE  Positions(head \o Core(pre, list, repay, coll, swap, index) \o tail, head, tail,
                   pre, list, repay, coll, index,
                   Len(head), Len(pre), Len(FarmModes(repay, coll)), Len(swap))
<1>. DEFINE core == Core(pre, list, repay, coll, swap, index)
            tx == head \o core \o tail
            h == Len(head)
            n == Len(pre)
            k == Len(FarmModes(repay, coll))
            w == Len(swap)
<1>1. IsCore(core, pre, list, repay, coll, index, n, k, w)
  BY CoreLayout, Zenon
<1>. HIDE DEF core, k, w, n
<1>2. /\ core \in Seq(Ixs) /\ n \in Nat /\ k \in 0..2 /\ w \in 0..1
      /\ Len(core) = n + k + k + w + 4
      /\ \A x \in 1..Len(core) : core[x].kind = KindOf(0, n, k, w, x)
      /\ \A i \in 1..n : core[1 + i].reserves = <<pre[i]>>
      /\ core[n + 2].reserves = list
      /\ core[n + k + 3].reserves = <<repay, coll>>
      /\ core[n + k + k + w + 4].index = index
  BY <1>1 DEF IsCore
<1>3. /\ h \in Nat /\ Len(tail) \in Nat
      /\ \A x \in 1..h : head[x].kind \in HeadKinds
      /\ \A x \in 1..Len(tail) : tail[x].kind = "tip"
  BY DEF IsHead, IsTail
<1>4. /\ tx \in Seq(Ixs) /\ Len(tx) = h + Len(core) + Len(tail)
      /\ \A x \in 1..h : tx[x] = head[x]
      /\ \A x \in 1..Len(core) : tx[h + x] = core[x]
      /\ \A x \in 1..Len(tail) : tx[h + Len(core) + x] = tail[x]
  <2>1. IsFrame(tx, head, core, tail)
    BY <1>2, FrameLayout, Zenon
  <2>. HIDE DEF tx
  <2>. QED BY <2>1 DEF IsFrame
<1>. HIDE DEF tx, h
<1>5. h \in Nat /\ n \in Nat /\ k \in Nat /\ w \in Nat /\ Len(core) = n + k + k + w + 4
  <2>1. k \in 0..2 /\ w \in 0..1 => k \in Nat /\ w \in Nat
    OBVIOUS
  <2>. QED BY <1>2, <1>3, <2>1
<1>6. Len(tx) = h + n + k + k + w + 4 + Len(tail)
  BY <1>2, <1>3, <1>4
<1>7. Len(tail) \in Nat
  BY <1>3
<1>8. ASSUME NEW x \in 1..Len(tx), x > h PROVE tx[x].kind = KindOf(h, n, k, w, x)
  <2>1. CASE x <= h + Len(core)
    <3>1. x - h \in 1..Len(core) /\ h + (x - h) = x
      BY <1>2, <1>3, <1>8, <2>1
    <3>2. tx[x].kind = KindOf(0, n, k, w, x - h)
      BY <1>2, <1>4, <3>1
    <3>3. KindOf(0, n, k, w, x - h) = KindOf(h, n, k, w, x)
      <4>1. x \in Nat
        BY <1>6, <1>5
      <4>. QED BY <1>5, <4>1 DEF KindOf
    <3>. QED BY <3>2, <3>3
  <2>2. CASE x > h + Len(core)
    <3>1. x - (h + Len(core)) \in 1..Len(tail) /\ h + Len(core) + (x - (h + Len(core))) = x
      <4>1. Len(tx) = h + Len(core) + Len(tail) /\ Len(core) \in Nat
        BY <1>4, <1>5
      <4>2. x \in 1..(h + Len(core) + Len(tail))
        BY <4>1
      <4>. QED BY <1>5, <1>7, <2>2, <4>1, <4>2
    <3>2. tx[x].kind = "tip"
      BY <1>3, <1>4, <3>1
    <3>3. KindOf(h, n, k, w, x) = "tip"
      BY <1>2, <1>3, <2>2 DEF KindOf
    <3>. QED BY <3>2, <3>3
  <2>. QED BY <1>2, <1>3, <2>1, <2>2
<1>9. /\ \A i \in 1..n : tx[h + 1 + i].reserves = <<pre[i]>>
      /\ tx[h + n + 2].reserves = list
      /\ tx[h + n + k + 3].reserves = <<repay, coll>>
      /\ tx[h + n + k + k + w + 4].index = index
  <2>1. /\ \A i \in 1..n : 1 + i \in 1..Len(core) /\ h + (1 + i) = h + 1 + i
        /\ n + 2 \in 1..Len(core) /\ h + (n + 2) = h + n + 2
        /\ n + k + 3 \in 1..Len(core) /\ h + (n + k + 3) = h + n + k + 3
        /\ n + k + k + w + 4 \in 1..Len(core) /\ h + (n + k + k + w + 4) = h + n + k + k + w + 4
    BY <1>5
  <2>2. \A i \in 1..n : tx[h + 1 + i] = core[1 + i]
    BY <1>4, <2>1
  <2>3. /\ tx[h + n + 2] = core[n + 2]
        /\ tx[h + n + k + 3] = core[n + k + 3]
        /\ tx[h + n + k + k + w + 4] = core[n + k + k + w + 4]
    BY <1>4, <2>1
  <2>. QED BY <1>2, <2>2, <2>3
<1>10. \A x \in 1..h : tx[x].kind \in HeadKinds
  BY <1>3, <1>4
<1>11. ASSUME NEW kind \in {"flashBorrow", "refreshObligation", "liquidate", "flashRepay", "refreshFarms"},
             NEW x \in 1..Len(tx), x > h, KindOf(h, n, k, w, x) = kind,
             \A y \in 1..Len(tx) : y > h /\ y < x => KindOf(h, n, k, w, y) # kind
      PROVE  Position(tx, kind) = x - 1
  <2>1. tx[x].kind = kind
    BY <1>8, <1>11
  <2>2. \A y \in 1..Len(tx) : y < x => tx[y].kind # kind
    <3>1. kind \notin HeadKinds
      BY DEF HeadKinds
    <3>2. \A y \in 1..Len(tx) : y > h \/ y \in 1..h
      BY <1>3, <1>6
    <3>. QED BY <1>8, <1>10, <1>11, <3>1, <3>2
  <2>. QED BY <1>4, <2>1, <2>2, PositionIs
<1>12. Position(tx, "flashBorrow") = h
  <2>1. h + 1 \in 1..Len(tx) /\ h + 1 > h /\ (h + 1) - 1 = h /\ KindOf(h, n, k, w, h + 1) = "flashBorrow"
    BY <1>6, <1>5, <1>7 DEF KindOf
  <2>2. \A y \in 1..Len(tx) : ~(y > h /\ y < h + 1)
    BY <1>3, <1>6
  <2>. QED BY <1>11, <2>1, <2>2
<1>13. Position(tx, "refreshObligation") = h + n + 1
  <2>1. /\ h + n + 2 \in 1..Len(tx) /\ h + n + 2 > h /\ (h + n + 2) - 1 = h + n + 1
        /\ KindOf(h, n, k, w, h + n + 2) = "refreshObligation"
    BY <1>6, <1>5, <1>7 DEF KindOf
  <2>2. \A y \in 1..Len(tx) : y > h /\ y < h + n + 2 => KindOf(h, n, k, w, y) # "refreshObligation"
    BY <1>6, <1>5, <1>7 DEF KindOf
  <2>. QED BY <1>11, <2>1, <2>2
<1>14. Position(tx, "liquidate") = h + n + k + 2
  <2>1. /\ h + n + k + 3 \in 1..Len(tx) /\ h + n + k + 3 > h /\ (h + n + k + 3) - 1 = h + n + k + 2
        /\ KindOf(h, n, k, w, h + n + k + 3) = "liquidate"
    BY <1>6, <1>5, <1>7 DEF KindOf
  <2>2. \A y \in 1..Len(tx) : y > h /\ y < h + n + k + 3 => KindOf(h, n, k, w, y) # "liquidate"
    BY <1>6, <1>5, <1>7 DEF KindOf
  <2>. QED BY <1>11, <2>1, <2>2
<1>15. Position(tx, "flashRepay") = h + n + k + k + w + 3
  <2>1. /\ h + n + k + k + w + 4 \in 1..Len(tx) /\ h + n + k + k + w + 4 > h
        /\ (h + n + k + k + w + 4) - 1 = h + n + k + k + w + 3
        /\ KindOf(h, n, k, w, h + n + k + k + w + 4) = "flashRepay"
    BY <1>6, <1>5, <1>7 DEF KindOf
  <2>2. \A y \in 1..Len(tx) : y > h /\ y < h + n + k + k + w + 4 => KindOf(h, n, k, w, y) # "flashRepay"
    BY <1>6, <1>5, <1>7 DEF KindOf
  <2>. QED BY <1>11, <2>1, <2>2
<1>16. Position(tx, "refreshFarms") = IF k = 0 THEN -1 ELSE h + n + 2
  <2>1. CASE k = 0
    <3>1. \A y \in 1..Len(tx) : y > h => KindOf(h, n, k, w, y) # "refreshFarms"
      BY <1>6, <1>5, <1>7, <2>1 DEF KindOf
    <3>2. \A y \in 1..Len(tx) : y > h \/ y \in 1..h
      BY <1>3, <1>6
    <3>3. "refreshFarms" \notin HeadKinds
      BY DEF HeadKinds
    <3>4. \A y \in 1..Len(tx) : tx[y].kind # "refreshFarms"
      BY <1>8, <1>10, <3>1, <3>2, <3>3
    <3>5. {y \in DOMAIN tx : tx[y].kind = "refreshFarms"} = {}
      BY <1>4, <3>4
    <3>. QED BY <2>1, <3>5 DEF Position
  <2>2. CASE k # 0
    <3>1. /\ h + n + 3 \in 1..Len(tx) /\ h + n + 3 > h /\ (h + n + 3) - 1 = h + n + 2
          /\ KindOf(h, n, k, w, h + n + 3) = "refreshFarms"
      BY <1>6, <1>5, <1>7, <2>2 DEF KindOf
    <3>2. \A y \in 1..Len(tx) : y > h /\ y < h + n + 3 => KindOf(h, n, k, w, y) # "refreshFarms"
      BY <1>6, <1>5, <1>7, <2>2 DEF KindOf
    <3>3. Position(tx, "refreshFarms") = (h + n + 3) - 1
      BY <1>11, <3>1, <3>2
    <3>. QED BY <2>2, <3>1, <3>3
  <2>. QED BY <2>1, <2>2
<1>17. \A x \in 1..Len(tx) : x > h => tx[x].kind = KindOf(h, n, k, w, x)
  BY <1>8
<1>18. \A x \in 1..h : tx[x] = head[x]
  BY <1>4
<1>19. Positions(tx, head, tail, pre, list, repay, coll, index, h, n, k, w)
  BY <1>2, <1>3, <1>4, <1>6, <1>9, <1>12, <1>13, <1>14, <1>15, <1>16, <1>17, <1>18 DEF Positions, h
<1>. QED BY <1>19 DEF tx, core, h, n, k, w

-----------------------------------------------------------------------------
(* What a build returns, and what becomes of it before a send.              *)

BudgetOf(opts) == IF opts.omit THEN <<>> ELSE Budget(opts.price)

\* All of a build but its success: what it says of the pair, and, of a build
\* with the flash loan and all the farms there are, its instructions.
IsBuild(A, o, raw, p, opts) ==
  /\ A = [ok |-> TRUE, repay |-> A.repay, coll |-> A.coll, required |-> A.required,
          hasFarms |-> A.hasFarms, setup |-> A.setup, ixs |-> A.ixs]
  /\ A.repay \in Reserves /\ A.coll \in Reserves
  /\ p.repay # NoReserve => A.repay = p.repay
  /\ p.collateral # NoReserve => A.coll = p.collateral
  /\ A.required = FarmModes(A.repay, A.coll)
  /\ A.setup \in Seq(Ixs) /\ Creating(A.setup)
  /\ A.ixs \in Seq(Ixs)
  /\ ~opts.noFarms \/ A.required = <<>> => A.hasFarms = (A.required # <<>>)
  /\ opts.flash /\ (~opts.noFarms \/ A.required = <<>>) =>
       \E pre, list \in Seq(Reserves) :
          /\ A.ixs = BudgetOf(opts) \o Core(pre, list, A.repay, A.coll, opts.swap, Len(BudgetOf(opts)) + opts.offset)
          /\ A.repay \in Range(pre) /\ A.coll \in Range(pre)
          /\ o = raw /\ opts.mode = "active" /\ opts.pre \in {"all", "auto"} /\ Cardinality(Range(list)) <= MaxFull
               => Range(list) \subseteq Range(pre)

IsOpts(opts) ==
  /\ opts.swap \in {<<>>, Swap} /\ opts.flash \in BOOLEAN /\ opts.noFarms \in BOOLEAN
  /\ opts.omit \in BOOLEAN /\ opts.offset \in Nat

\* The budget an options record asks for: none, or a limit and perhaps a price.
LEMMA BudgetOfTyped ==
  ASSUME NEW opts
  PROVE  BudgetOf(opts) \in Seq(Ixs) /\ Len(BudgetOf(opts)) \in 0..2
         /\ \A i \in 1..Len(BudgetOf(opts)) :
              BudgetOf(opts)[i].kind = BudgetKind(i) /\ BudgetOf(opts)[i].reserves = <<>>
<1>1. CASE BudgetOf(opts) = <<>>
  BY <1>1
<1>2. CASE BudgetOf(opts) = Budget(opts.price)
  <2>1. 1..2 \subseteq 0..2
    OBVIOUS
  <2>. QED BY <1>2, <2>1, BudgetTyped
<1>. QED BY <1>1, <1>2 DEF BudgetOf

\* The central lemma of the builder: a build that succeeds is setup, budget and
\* core, laid out for the planned pair.
LEMMA CanonicalBuilds ==
  ASSUME NEW o \in Obligations, NEW raw \in Obligations, NEW m, NEW p \in Plans, NEW opts, IsOpts(opts),
         Canonical(o, raw, m, p, opts).ok
  PROVE  IsBuild(Canonical(o, raw, m, p, opts), o, raw, p, opts)
<1>. DEFINE A == Canonical(o, raw, m, p, opts)
            repay == PickedRepay(o, p)
            coll == PickedCollateral(o, p)
            required == FarmModes(repay, coll)
            farms == FarmIxs(IF opts.noFarms THEN <<>> ELSE required, repay, coll)
            budget == BudgetOf(opts)
            pre == PreRefreshed(o, {repay, coll}, opts.pre)
            list == RefreshList(raw, opts.mode)
            index == Len(budget) + opts.offset
            borrow == IF opts.flash THEN One("flashBorrow", <<>>, 0) ELSE <<>>
            repayment == IF opts.flash THEN One("flashRepay", <<>>, index) ELSE <<>>
            obligation == One("refreshObligation", list, 0)
            liquidate == One("liquidate", <<repay, coll>>, 0)
            ixs == budget \o borrow \o PreIxs(pre) \o obligation \o farms \o liquidate \o farms
                     \o opts.swap \o repayment
<1>1. ~(NoReserve \in {repay, coll})
  BY DEF Canonical, Fails
<1>2. A = [ok |-> TRUE, repay |-> repay, coll |-> coll, required |-> required,
           hasFarms |-> farms # <<>>, setup |-> SetupIxs(m), ixs |-> ixs]
  BY <1>1 DEF Canonical, One, PreIxs, BudgetOf
<1>3. /\ A.repay = repay /\ A.coll = coll /\ A.required = required /\ A.hasFarms = (farms # <<>>)
      /\ A.setup = SetupIxs(m) /\ A.ixs = ixs
      /\ A = [ok |-> TRUE, repay |-> A.repay, coll |-> A.coll, required |-> A.required,
              hasFarms |-> A.hasFarms, setup |-> A.setup, ixs |-> A.ixs]
  <2>. HIDE DEF A, repay, coll, required, farms, ixs
  <2>. QED BY <1>2
<1>4. /\ repay \in Range(ActiveOf(o.borrows)) /\ coll \in Range(ActiveOf(o.deposits))
      /\ p.repay # NoReserve => repay = p.repay
      /\ p.collateral # NoReserve => coll = p.collateral
  BY <1>1, Picks
<1>5. repay \in Reserves /\ coll \in Reserves
  <2>1. ActiveOf(o.deposits) \in Seq(Reserves) /\ ActiveOf(o.borrows) \in Seq(Reserves)
    BY ObligationTyped
  <2>2. \A s \in Seq(Reserves) : Range(s) \subseteq Reserves
    BY DEF Range
  <2>. QED BY <1>4, <2>1, <2>2
<1>. HIDE DEF A, repay, coll
<1>6. /\ pre \in Seq(Reserves) /\ repay \in Range(pre) /\ coll \in Range(pre)
      /\ opts.pre \in {"all", "auto"} /\ Cardinality(Range(RefreshList(o, "active"))) <= MaxFull
           => Range(RefreshList(o, "active")) \subseteq Range(pre)
  BY <1>4, PreRefreshes
<1>7. list \in Seq(Reserves)
  BY RefreshListTyped
<1>8. budget \in Seq(Ixs) /\ Len(budget) \in Nat
  BY BudgetOfTyped
<1>9. index \in Nat
  BY <1>8 DEF IsOpts
<1>10. SetupIxs(m) \in Seq(Ixs) /\ Creating(SetupIxs(m))
  BY SetupTyped
<1>. HIDE DEF pre, list, budget, index
<1>11. farms \in Seq(Ixs) /\ (~opts.noFarms \/ required = <<>> => farms = Farms(repay, coll) /\ (farms # <<>>) = (required # <<>>))
  <2>1. /\ required \in Seq({0, 1}) /\ FarmIxs(<<>>, repay, coll) = <<>>
        /\ Farms(repay, coll) \in Seq(Ixs) /\ Len(Farms(repay, coll)) = Len(required)
    BY <1>5, FarmsTyped DEF Farms
  <2>2. farms \in {<<>>, Farms(repay, coll)}
    BY <2>1 DEF Farms
  <2>3. <<>> \in Seq(Ixs)
    OBVIOUS
  <2>4. Farms(repay, coll) = <<>> <=> required = <<>>
    <3>. HIDE DEF required
    <3>. QED BY <2>1
  <2>5. ~opts.noFarms => farms = Farms(repay, coll)
    BY DEF Farms
  <2>6. required = <<>> => farms = <<>>
    BY <2>1
  <2>. HIDE DEF farms, required
  <2>. QED BY <2>1, <2>2, <2>3, <2>4, <2>5, <2>6
<1>12. /\ borrow \in Seq(Ixs) /\ obligation \in Seq(Ixs) /\ liquidate \in Seq(Ixs) /\ repayment \in Seq(Ixs)
  <2>1. /\ "flashBorrow" \in Kinds /\ "refreshObligation" \in Kinds /\ "liquidate" \in Kinds /\ "flashRepay" \in Kinds
        /\ <<>> \in Seq(Reserves) /\ <<repay, coll>> \in Seq(Reserves) /\ 0 \in Nat /\ <<>> \in Seq(Ixs)
    BY <1>5 DEF Kinds
  <2>2. /\ IsOne(One("flashBorrow", <<>>, 0), "flashBorrow", <<>>, 0)
        /\ IsOne(One("flashRepay", <<>>, index), "flashRepay", <<>>, index)
        /\ IsOne(obligation, "refreshObligation", list, 0)
        /\ IsOne(liquidate, "liquidate", <<repay, coll>>, 0)
    BY <1>7, <1>9, <2>1, OneTyped, Zenon
  <2>3. \A s, kind, reserves, i : IsOne(s, kind, reserves, i) => s \in Seq(Ixs)
    BY DEF IsOne
  <2>. QED BY <2>1, <2>2, <2>3
<1>13. PreIxs(pre) \in Seq(Ixs)
  BY <1>6, PreIxsTyped
<1>14. opts.swap \in Seq(Ixs)
  BY SwapTyped DEF IsOpts
<1>. HIDE DEF farms, required, obligation, liquidate
<1>15. /\ ixs \in Seq(Ixs)
       /\ ixs = budget \o (borrow \o PreIxs(pre) \o obligation \o farms \o liquidate \o farms \o opts.swap \o repayment)
  <2>1. /\ budget \in Seq(Ixs) /\ borrow \in Seq(Ixs) /\ PreIxs(pre) \in Seq(Ixs) /\ obligation \in Seq(Ixs)
        /\ farms \in Seq(Ixs) /\ liquidate \in Seq(Ixs) /\ opts.swap \in Seq(Ixs) /\ repayment \in Seq(Ixs)
    BY <1>8, <1>11, <1>12, <1>13, <1>14
  <2>. HIDE DEF borrow, repayment
  <2>2. Nine(Ixs, budget, borrow, PreIxs(pre), obligation, farms, liquidate, farms, opts.swap, repayment, ixs)
    BY <2>1, NineConcatenated, Zenon
  <2>. QED BY <2>2 DEF Nine
<1>16. ASSUME opts.flash, ~opts.noFarms \/ required = <<>>
       PROVE  ixs = budget \o Core(pre, list, repay, coll, opts.swap, index)
  <2>1. ixs = budget \o (borrow \o PreIxs(pre) \o obligation \o farms \o liquidate \o farms \o opts.swap \o repayment)
    BY <1>15
  <2>2. borrow = One("flashBorrow", <<>>, 0) /\ repayment = One("flashRepay", <<>>, index) /\ farms = Farms(repay, coll)
    BY <1>11, <1>16
  <2>. HIDE DEF borrow, repayment, ixs
  <2>. QED BY <2>1, <2>2 DEF Core, obligation, liquidate
<1>17. ASSUME o = raw, opts.mode = "active", opts.pre \in {"all", "auto"}, Cardinality(Range(list)) <= MaxFull
       PROVE  Range(list) \subseteq Range(pre)
  BY <1>6, <1>17 DEF list
<1>. HIDE DEF ixs
<1>18. IsBuild(A, o, raw, p, opts)
  <2>1. opts.flash /\ (~opts.noFarms \/ A.required = <<>>) =>
         \E pr, li \in Seq(Reserves) :
            /\ A.ixs = budget \o Core(pr, li, A.repay, A.coll, opts.swap, index)
            /\ A.repay \in Range(pr) /\ A.coll \in Range(pr)
            /\ o = raw /\ opts.mode = "active" /\ opts.pre \in {"all", "auto"} /\ Cardinality(Range(li)) <= MaxFull
                 => Range(li) \subseteq Range(pr)
    BY <1>3, <1>6, <1>7, <1>16, <1>17
  <2>2. A.required = FarmModes(A.repay, A.coll)
    BY <1>3 DEF required
  <2>3. ~opts.noFarms \/ A.required = <<>> => A.hasFarms = (A.required # <<>>)
    BY <1>3, <1>11
  <2>. QED BY <1>3, <1>4, <1>5, <1>10, <1>15, <2>1, <2>2, <2>3 DEF IsBuild, budget, index
<1>. QED BY <1>18 DEF A

BudgetIxs(b) ==
  b \in Seq(Ixs) /\ Len(b) \in 0..2 /\ \A i \in 1..Len(b) : b[i].kind = BudgetKind(i) /\ b[i].reserves = <<>>

\* Only the budget of a transaction that has one is replaced.
LEMMA BudgetReplaced ==
  ASSUME NEW s \in Seq(Ixs), Creating(s), NEW b, BudgetIxs(b), NEW core \in Seq(Ixs),
         \A i \in 1..Len(core) : ~IsBudget(core[i]), NEW price
  PROVE  WithUpdatedComputeBudget((s \o b) \o core, price) =
           IF b = <<>> THEN (s \o b) \o core ELSE (s \o Budget(price)) \o core
<1>. DEFINE j == s \o b
            tx == j \o core
            m == Len(s)
            c == Len(b)
            L == Len(core)
            I == {i \in 1..Len(tx) : IsBudget(tx[i])}
            ends(start, e) == (\A i \in start..e : IsBudget(tx[i])) /\ (e < Len(tx) => ~IsBudget(tx[e + 1]))
<1>1. b \in Seq(Ixs) /\ m \in Nat /\ c \in Nat /\ L \in Nat
  BY DEF BudgetIxs
<1>2. IsJoin(Ixs, s, b, j) /\ j \in Seq(Ixs)
  BY <1>1, Concatenated DEF IsJoin
<1>. HIDE DEF j
<1>3. IsJoin(Ixs, j, core, tx)
  BY <1>2, Concatenated
<1>. HIDE DEF tx
<1>4. /\ tx \in Seq(Ixs) /\ Len(tx) = m + c + L /\ Len(j) = m + c
      /\ \A i \in 1..Len(j) : tx[i] = j[i]
      /\ \A i \in 1..m : j[i] = s[i]
      /\ \A i \in 1..c : j[m + i] = b[i]
      /\ \A i \in 1..L : tx[m + c + i] = core[i]
  BY <1>2, <1>3 DEF IsJoin
<1>5. /\ \A i \in 1..m : tx[i] = s[i]
      /\ \A i \in 1..c : tx[m + i] = b[i]
  <2>1. \A i \in 1..m : i \in 1..Len(j)
    BY <1>1, <1>4
  <2>2. \A i \in 1..c : m + i \in 1..Len(j)
    BY <1>1, <1>4
  <2>. QED BY <1>4, <2>1, <2>2
<1>6. \A i \in 1..m : ~IsBudget(tx[i])
  BY <1>5 DEF Creating, IsBudget, AtaKinds
<1>7. \A i \in 1..c : IsBudget(tx[m + i])
  BY <1>5 DEF BudgetIxs, IsBudget, BudgetKind
<1>8. \A i \in 1..L : ~IsBudget(tx[m + c + i])
  BY <1>4
<1>. HIDE DEF m, c, L
<1>9. ASSUME NEW i \in 1..Len(tx) PROVE IsBudget(tx[i]) <=> i \in (m + 1)..(m + c)
  <2>1. CASE i \in 1..m
    BY <1>1, <1>6, <2>1
  <2>2. CASE i \in (m + 1)..(m + c)
    <3>1. i - m \in 1..c /\ m + (i - m) = i
      BY <1>1, <2>2
    <3>. QED BY <1>7, <2>2, <3>1
  <2>3. CASE i \in (m + c + 1)..(m + c + L)
    <3>1. i - (m + c) \in 1..L /\ m + c + (i - (m + c)) = i /\ ~(i \in (m + 1)..(m + c))
      BY <1>1, <2>3
    <3>. QED BY <1>8, <3>1
  <2>. QED BY <1>1, <1>4, <2>1, <2>2, <2>3
<1>10. I = (m + 1)..(m + c)
  <2>1. \A i \in (m + 1)..(m + c) : i \in 1..Len(tx)
    BY <1>1, <1>4
  <2>. QED BY <1>9, <2>1
<1>. HIDE DEF I
<1>11. b = <<>> <=> c = 0
  BY <1>1 DEF c
<1>12. CASE c = 0
  <2>1. I = {}
    BY <1>1, <1>10, <1>12
  <2>2. SelectInSeq(tx, IsBudget) = 0
    BY <2>1 DEF SelectInSeq, I
  <2>3. WithUpdatedComputeBudget(tx, price) = tx
    BY <2>2 DEF WithUpdatedComputeBudget
  <2>. QED BY <1>11, <1>12, <2>3 DEF tx, j
<1>13. CASE c # 0
  <2>1. m + 1 \in I /\ I \in SUBSET Nat /\ \A i \in I : m + 1 <= i
    BY <1>1, <1>10, <1>13
  <2>2. Min(I) = m + 1
    <3>1. Min(I) \in I /\ Min(I) <= m + 1
      BY <2>1, MinProperties
    <3>2. Min(I) \in Nat /\ m + 1 <= Min(I)
      BY <2>1, <3>1
    <3>. QED BY <1>1, <3>1, <3>2
  <2>3. SelectInSeq(tx, IsBudget) = m + 1
    BY <2>1, <2>2 DEF SelectInSeq, I
  <2>. DEFINE end == CHOOSE e \in (m + 1)..Len(tx) : ends(m + 1, e)
  <2>4. m + c \in (m + 1)..Len(tx) /\ ends(m + 1, m + c)
    <3>1. m + c \in (m + 1)..Len(tx)
      BY <1>1, <1>4, <1>13
    <3>2. \A i \in (m + 1)..(m + c) : i \in 1..Len(tx)
      BY <1>1, <1>4
    <3>3. m + c < Len(tx) => m + c + 1 \in 1..Len(tx) /\ ~(m + c + 1 \in (m + 1)..(m + c))
      BY <1>1, <1>4
    <3>. QED BY <1>9, <3>1, <3>2, <3>3
  <2>5. ASSUME NEW e \in (m + 1)..Len(tx), ends(m + 1, e) PROVE e = m + c
    <3>1. e \in 1..Len(tx) /\ e \in (m + 1)..e
      BY <1>1, <1>4
    <3>2. e \in (m + 1)..(m + c)
      BY <1>9, <2>5, <3>1
    <3>3. e < m + c => e < Len(tx) /\ e + 1 \in 1..Len(tx) /\ e + 1 \in (m + 1)..(m + c)
      BY <1>1, <1>4, <3>2
    <3>4. ~(e < m + c)
      BY <1>9, <2>5, <3>3
    <3>. QED BY <1>1, <3>2, <3>4
  <2>6. end = m + c
    <3>. HIDE DEF ends
    <3>. QED BY <2>4, <2>5
  <2>7. WithUpdatedComputeBudget(tx, price) =
          SubSeq(tx, 1, (m + 1) - 1) \o Budget(price) \o SubSeq(tx, end + 1, Len(tx))
    <3>1. m + 1 # 0
      BY <1>1
    <3>. QED BY <2>3, <3>1 DEF WithUpdatedComputeBudget
  <2>. HIDE DEF end, ends
  <2>8. (m + 1) - 1 = m
    BY <1>1
  <2>9. SubSeq(tx, 1, m) = s
    <3>1. \A i \in 1..m : tx[i] \in Ixs
      BY <1>1, <1>4
    <3>2. /\ SubSeq(tx, 1, m) \in Seq(Ixs) /\ Len(SubSeq(tx, 1, m)) = m
          /\ \A i \in 1..m : SubSeq(tx, 1, m)[i] = tx[i]
      BY <1>1, <3>1, SubSeqProperties
    <3>3. Len(s) = m
      BY DEF m
    <3>. QED BY <1>5, <3>2, <3>3, SeqEqual
  <2>10. SubSeq(tx, m + c + 1, Len(tx)) = core
    <3>1. \A i \in (m + c + 1)..Len(tx) : tx[i] \in Ixs
      BY <1>1, <1>4
    <3>. DEFINE r == SubSeq(tx, m + c + 1, Len(tx))
    <3>2. /\ r \in Seq(Ixs) /\ Len(r) = L
          /\ \A i \in 1..L : r[i] = tx[m + c + i]
      <4>1. /\ r \in Seq(Ixs)
            /\ Len(r) = IF m + c + 1 <= Len(tx) THEN Len(tx) - (m + c + 1) + 1 ELSE 0
            /\ \A i \in 1..(Len(tx) - (m + c + 1) + 1) : r[i] = tx[m + c + 1 + i - 1]
        BY <1>1, <1>4, <3>1, SubSeqProperties
      <4>2. Len(tx) - (m + c + 1) + 1 = L /\ \A i \in 1..L : m + c + 1 + i - 1 = m + c + i
        BY <1>1, <1>4
      <4>. HIDE DEF r
      <4>. QED BY <1>1, <1>4, <4>1, <4>2
    <3>3. Len(core) = L
      BY DEF L
    <3>. HIDE DEF r
    <3>4. r = core
      BY <1>4, <3>2, <3>3, SeqEqual
    <3>. QED BY <3>4 DEF r
  <2>11. WithUpdatedComputeBudget(tx, price) = (s \o Budget(price)) \o core
    BY <2>6, <2>7, <2>8, <2>9, <2>10
  <2>. QED BY <1>11, <1>13, <2>11 DEF tx, j
<1>. QED BY <1>12, <1>13

-----------------------------------------------------------------------------
(* A transaction for a plan's pair: the accounts s that are created, the    *)
(* budget b, and a core whose repayment names the borrow's place.           *)

Planned(p, ixs, s, b, pre, list, swap) ==
  /\ BudgetIxs(b) /\ pre \in Seq(Reserves) /\ list \in Seq(Reserves) /\ swap \in {<<>>, Swap}
  /\ p.repay \in Range(pre) /\ p.collateral \in Range(pre)
  /\ ixs = (s \o b) \o Core(pre, list, p.repay, p.collateral, swap, Len(s) + Len(b))
Pair(p) == p.repay \in Reserves /\ p.collateral \in Reserves
\* How many farms a plan's pair has.
FarmCount(p) == Len(FarmModes(p.repay, p.collateral))

\* Setup instructions and budget make a head.
LEMMA HeadOf ==
  ASSUME NEW s \in Seq(Ixs), Creating(s), NEW b, BudgetIxs(b)
  PROVE  /\ IsHead(s \o b) /\ Len(s \o b) = Len(s) + Len(b) /\ Len(s) \in Nat /\ Len(b) \in 0..2
         /\ \A i \in 1..Len(s) : (s \o b)[i].kind \in AtaKinds
         /\ \A i \in 1..Len(b) : (s \o b)[Len(s) + i].kind = BudgetKind(i)
<1>. DEFINE j == s \o b
<1>1. b \in Seq(Ixs) /\ Len(b) \in 0..2
  BY DEF BudgetIxs
<1>2. IsJoin(Ixs, s, b, j)
  BY <1>1, Concatenated
<1>. HIDE DEF j
<1>3. /\ j \in Seq(Ixs) /\ Len(s) \in Nat /\ Len(j) = Len(s) + Len(b)
      /\ \A i \in 1..Len(s) : j[i] = s[i]
      /\ \A i \in 1..Len(b) : j[Len(s) + i] = b[i]
  BY <1>2 DEF IsJoin
<1>4. \A i \in 1..Len(s) : j[i].kind \in AtaKinds /\ j[i].reserves = <<>>
  BY <1>3 DEF Creating
<1>5. \A i \in 1..Len(b) : j[Len(s) + i].kind = BudgetKind(i) /\ j[Len(s) + i].reserves = <<>>
  BY <1>3 DEF BudgetIxs
<1>6. ASSUME NEW i \in 1..Len(j) PROVE j[i].kind \in HeadKinds /\ j[i].reserves = <<>>
  <2>1. CASE i \in 1..Len(s)
    BY <1>4, <2>1 DEF AtaKinds, HeadKinds
  <2>2. CASE i \in (Len(s) + 1)..(Len(s) + Len(b))
    <3>1. i - Len(s) \in 1..Len(b) /\ Len(s) + (i - Len(s)) = i
      BY <1>1, <1>3, <2>2
    <3>2. j[i].kind = BudgetKind(i - Len(s)) /\ j[i].reserves = <<>>
      BY <1>5, <3>1
    <3>. QED BY <3>2 DEF BudgetKind, HeadKinds
  <2>. QED BY <1>1, <1>3, <2>1, <2>2
<1>7. IsHead(j)
  BY <1>3, <1>6 DEF IsHead
<1>. QED BY <1>1, <1>3, <1>4, <1>5, <1>7 DEF j

\* The core holds no budget instruction, so stripping them leaves it whole.
LEMMA CoreHasNoBudget ==
  ASSUME NEW core, NEW pre, NEW list, NEW repay, NEW coll, NEW index, NEW n, NEW k, NEW w,
         IsCore(core, pre, list, repay, coll, index, n, k, w)
  PROVE  core \in Seq(Ixs) /\ \A i \in 1..Len(core) : ~IsBudget(core[i])
<1>1. core \in Seq(Ixs) /\ \A i \in 1..Len(core) : core[i].kind = KindOf(0, n, k, w, i)
  BY DEF IsCore
<1>2. \A i : KindOf(0, n, k, w, i) \notin {"computeBudget:limit", "computeBudget:price"}
  BY DEF KindOf
<1>. QED BY <1>1, <1>2 DEF IsBudget

Tip == IF JitoTip THEN One("tip", <<>>, 0) ELSE <<>>
\* The tip is a tail, and so is nothing.
LEMMA TipTyped == IsTail(Tip) /\ Len(Tip) \in 0..1 /\ IsTail(<<>>)
<1>1. IsTail(<<>>) /\ Len(<<>>) = 0
  BY DEF IsTail
<1>2. IsOne(One("tip", <<>>, 0), "tip", <<>>, 0)
  <2>1. "tip" \in Kinds /\ <<>> \in Seq(Reserves) /\ 0 \in Nat
    BY DEF Kinds
  <2>. QED BY <2>1, OneTyped, Zenon
<1>3. IsTail(One("tip", <<>>, 0)) /\ Len(One("tip", <<>>, 0)) = 1
  BY <1>2 DEF IsOne, IsTail
<1>. QED BY <1>1, <1>3 DEF Tip

\* What is sent is the transaction built, with another budget if it has one,
\* and a tip.
IsRebuilt(tx, p, s, b, pre, list, swap) ==
  \E b2 : /\ BudgetIxs(b2) /\ (b = <<>> => b2 = <<>>) /\ (b # <<>> => Len(b2) \in 1..2)
          /\ tx = ((s \o b2) \o Core(pre, list, p.repay, p.collateral, swap, Len(s) + Len(b))) \o Tip
\* The executor's rebuild replaces the budget, appends the tip and leaves the
\* setup and the core alone.
LEMMA RebuiltLayout ==
  ASSUME NEW p, Pair(p), NEW s \in Seq(Ixs), Creating(s), NEW ixs,
         NEW b, NEW pre, NEW list, NEW swap, Planned(p, ixs, s, b, pre, list, swap), NEW price
  PROVE  IsRebuilt(Rebuilt(ixs, price), p, s, b, pre, list, swap)
<1>. DEFINE core == Core(pre, list, p.repay, p.collateral, swap, Len(s) + Len(b))
<1>1. BudgetIxs(b) /\ Len(s) + Len(b) \in Nat
  BY HeadOf DEF Planned
<1>2. IsCore(core, pre, list, p.repay, p.collateral, Len(s) + Len(b), Len(pre), FarmCount(p), Len(swap))
  BY <1>1, CoreLayout DEF Planned, Pair, FarmCount
<1>. HIDE DEF core
<1>3. core \in Seq(Ixs) /\ \A i \in 1..Len(core) : ~IsBudget(core[i])
  BY <1>2, CoreHasNoBudget
<1>4. ixs = (s \o b) \o core
  BY DEF Planned, core
<1>5. WithUpdatedComputeBudget(ixs, price) = IF b = <<>> THEN (s \o b) \o core ELSE (s \o Budget(price)) \o core
  BY <1>1, <1>3, <1>4, BudgetReplaced
<1>6. BudgetIxs(Budget(price)) /\ Len(Budget(price)) \in 1..2
  <2>1. Len(Budget(price)) \in 1..2 /\ 1..2 \subseteq 0..2
    BY BudgetTyped
  <2>. QED BY <2>1, BudgetTyped DEF BudgetIxs
<1>7. Rebuilt(ixs, price) = WithUpdatedComputeBudget(ixs, price) \o Tip
  BY DEF Rebuilt, Tip, One
<1>8. CASE b = <<>>
  <2>1. Rebuilt(ixs, price) = ((s \o b) \o core) \o Tip
    BY <1>5, <1>7, <1>8
  <2>. QED BY <1>1, <1>8, <2>1 DEF core, IsRebuilt
<1>9. CASE b # <<>>
  <2>1. Rebuilt(ixs, price) = ((s \o Budget(price)) \o core) \o Tip
    BY <1>5, <1>7, <1>9
  <2>. QED BY <1>6, <1>9, <2>1 DEF core, IsRebuilt
<1>. QED BY <1>8, <1>9

\* Both are framed: the positions of a transaction that was built, of one that
\* is sent.
LEMMA FramedPositions ==
  ASSUME NEW p, Pair(p), NEW s \in Seq(Ixs), Creating(s), NEW b, BudgetIxs(b), NEW tail, IsTail(tail),
         NEW pre \in Seq(Reserves), NEW list \in Seq(Reserves), NEW swap \in {<<>>, Swap}, NEW index \in Nat
  PROVE  Positions(((s \o b) \o Core(pre, list, p.repay, p.collateral, swap, index)) \o tail, s \o b, tail,
                   pre, list, p.repay, p.collateral, index,
                   Len(s \o b), Len(pre), FarmCount(p), Len(swap))
<1>1. IsHead(s \o b)
  BY HeadOf
<1>2. p.repay \in Reserves /\ p.collateral \in Reserves
  BY DEF Pair
<1>. QED BY <1>1, <1>2, FramePositions, Zenon DEF FarmCount

\* A transaction has a price instruction exactly when its budget has two.
LEMMA PriceCounted ==
  ASSUME NEW s \in Seq(Ixs), Creating(s), NEW b, BudgetIxs(b), NEW tail, IsTail(tail), NEW tx,
         NEW head, head = s \o b,
         NEW pre, NEW list, NEW repay, NEW coll, NEW index, NEW n, NEW k, NEW w, NEW h,
         Positions(tx, head, tail, pre, list, repay, coll, index, h, n, k, w)
  PROVE  Count(tx, "computeBudget:price") = IF Len(b) = 2 THEN 1 ELSE 0
<1>. DEFINE at == {i \in DOMAIN tx : tx[i].kind = "computeBudget:price"}
            m == Len(s)
            c == Len(b)
<1>1. /\ Len(head) = m + c /\ m \in Nat /\ c \in 0..2
      /\ \A i \in 1..m : head[i].kind \in AtaKinds
      /\ \A i \in 1..c : head[m + i].kind = BudgetKind(i)
  BY HeadOf
<1>. HIDE DEF m, c
<1>2. /\ h = m + c /\ tx \in Seq(Ixs) /\ n \in Nat /\ k \in Nat /\ w \in Nat
      /\ Len(tx) = h + n + k + k + w + 4 + Len(tail)
      /\ \A x \in 1..h : tx[x] = head[x]
      /\ \A x \in 1..Len(tx) : x > h => tx[x].kind = KindOf(h, n, k, w, x)
  <2>. HIDE DEF at
  <2>1. k \in 0..2 /\ w \in 0..1 => k \in Nat /\ w \in Nat
    OBVIOUS
  <2>. QED BY <1>1, <2>1 DEF Positions
<1>3. Len(tail) \in Nat
  BY DEF IsTail
<1>4. \A x \in 1..Len(tx) : x > h => tx[x].kind # "computeBudget:price"
  <2>1. \A x : KindOf(h, n, k, w, x) # "computeBudget:price"
    BY DEF KindOf
  <2>. QED BY <1>2, <2>1
<1>5. \A x \in 1..m : tx[x].kind # "computeBudget:price"
  <2>1. \A x \in 1..m : x \in 1..h
    BY <1>1, <1>2
  <2>2. "computeBudget:price" \notin AtaKinds
    BY DEF AtaKinds
  <2>. QED BY <1>1, <1>2, <2>1, <2>2
<1>6. \A i \in 1..c : tx[m + i].kind = BudgetKind(i)
  <2>1. \A i \in 1..c : m + i \in 1..h
    BY <1>1, <1>2
  <2>. QED BY <1>1, <1>2, <2>1
<1>7. ASSUME NEW x \in at PROVE c = 2 /\ x = m + 2
  <2>1. x \in 1..Len(tx) /\ tx[x].kind = "computeBudget:price" /\ x \in Int
    BY <1>2
  <2>2. x <= h /\ x > m
    BY <1>1, <1>2, <1>4, <1>5, <2>1
  <2>3. x - m \in 1..c /\ m + (x - m) = x
    BY <1>1, <1>2, <2>1, <2>2
  <2>4. BudgetKind(x - m) = "computeBudget:price"
    BY <1>6, <2>1, <2>3
  <2>5. x - m # 1
    BY <2>4 DEF BudgetKind
  <2>6. m \in Int /\ c \in 0..2
    BY <1>1
  <2>7. x - m = 2 /\ c = 2
    BY <2>1, <2>3, <2>5, <2>6
  <2>. QED BY <2>1, <2>6, <2>7
<1>8. CASE c = 2
  <2>1. m + 2 \in 1..Len(tx) /\ 2 \in 1..c /\ 2 # 1
    BY <1>1, <1>2, <1>3, <1>8
  <2>2. m + 2 \in at
    BY <1>2, <1>6, <2>1 DEF BudgetKind
  <2>3. at = {m + 2}
    <3>. HIDE DEF at
    <3>. QED BY <1>7, <2>2
  <2>4. Cardinality(at) = 1
    <3>. HIDE DEF at
    <3>. QED BY <2>3, FS_Singleton
  <2>. QED BY <1>8, <2>4 DEF Count, c
<1>9. CASE c # 2
  <2>1. at = {}
    BY <1>7, <1>9
  <2>2. Cardinality(at) = 0
    <3>. HIDE DEF at
    <3>. QED BY <2>1, FS_EmptySet
  <2>. QED BY <1>9, <2>2 DEF Count, c
<1>. QED BY <1>8, <1>9

-----------------------------------------------------------------------------
(* What follows from the positions.                                         *)

LEMMA PairStands ==
  ASSUME NEW tx, NEW head, NEW tail, NEW pre, NEW list, NEW repay, NEW coll, NEW index, NEW h, NEW n, NEW k, NEW w,
         Positions(tx, head, tail, pre, list, repay, coll, index, h, n, k, w)
  PROVE  /\ tx[Position(tx, "liquidate") + 1].reserves = <<repay, coll>>
         /\ tx[Position(tx, "flashRepay") + 1].index = index
         /\ tx[Position(tx, "refreshObligation") + 1].reserves = list
<1>1. /\ h \in Nat /\ n \in Nat /\ k \in Nat /\ w \in Nat
      /\ tx[h + n + 2].reserves = list
      /\ tx[h + n + k + 3].reserves = <<repay, coll>>
      /\ tx[h + n + k + k + w + 4].index = index
      /\ Position(tx, "refreshObligation") = h + n + 1
      /\ Position(tx, "liquidate") = h + n + k + 2
      /\ Position(tx, "flashRepay") = h + n + k + k + w + 3
  BY DEF Positions
<1>2. /\ (h + n + 1) + 1 = h + n + 2 /\ (h + n + k + 2) + 1 = h + n + k + 3
      /\ (h + n + k + k + w + 3) + 1 = h + n + k + k + w + 4
  BY <1>1
<1>. QED BY <1>1, <1>2

\* The kind of the instruction at every place past the head.
LEMMA KindsStand ==
  ASSUME NEW tx, NEW head, NEW tail, IsTail(tail), NEW pre, NEW list, NEW repay, NEW coll, NEW index,
         NEW h, NEW n, NEW k, NEW w,
         Positions(tx, head, tail, pre, list, repay, coll, index, h, n, k, w)
  PROVE  /\ h \in Nat /\ n \in Nat /\ k \in 0..2 /\ w \in 0..1 /\ Position(tx, "liquidate") + 1 = h + n + k + 3
         /\ \A x \in (h + 1)..(h + n + k + k + w + 4) : KindAt(tx, x) = KindOf(h, n, k, w, x)
         /\ \A x \in Nat : x > h => KindAt(tx, x) \in {KindOf(h, n, k, w, x), "none"}
<1>1. /\ h \in Nat /\ n \in Nat /\ k \in 0..2 /\ w \in 0..1 /\ tx \in Seq(Ixs)
      /\ Len(tx) = h + n + k + k + w + 4 + Len(tail)
      /\ \A x \in 1..Len(tx) : x > h => tx[x].kind = KindOf(h, n, k, w, x)
      /\ Position(tx, "liquidate") = h + n + k + 2
  BY DEF Positions
<1>2. Len(tail) \in Nat
  BY DEF IsTail
<1>3. DOMAIN tx = 1..Len(tx)
  BY <1>1
<1>4. \A x \in (h + 1)..(h + n + k + k + w + 4) : x \in 1..Len(tx) /\ x > h
  BY <1>1, <1>2
<1>5. \A x \in (h + 1)..(h + n + k + k + w + 4) : KindAt(tx, x) = KindOf(h, n, k, w, x)
  BY <1>1, <1>3, <1>4 DEF KindAt
<1>6. \A x \in Nat : x > h => KindAt(tx, x) \in {KindOf(h, n, k, w, x), "none"}
  BY <1>1, <1>3 DEF KindAt
<1>7. Position(tx, "liquidate") + 1 = h + n + k + 3
  BY <1>1
<1>. QED BY <1>1, <1>5, <1>6, <1>7

\* Every farm is refreshed right before the liquidation and right after it.
LEMMA FarmsStand ==
  ASSUME NEW tx, NEW head, NEW tail, IsTail(tail), NEW pre, NEW list, NEW repay, NEW coll, NEW index,
         NEW h, NEW n, NEW k, NEW w,
         Positions(tx, head, tail, pre, list, repay, coll, index, h, n, k, w), NEW i \in 1..k
  PROVE  LET liq == Position(tx, "liquidate") + 1
         IN /\ KindAt(tx, liq + i) = "refreshFarms"
            /\ KindAt(tx, liq - k - 1 + i) = "refreshFarms"
<1>1. /\ h \in Nat /\ n \in Nat /\ k \in 0..2 /\ w \in 0..1 /\ Position(tx, "liquidate") + 1 = h + n + k + 3
      /\ \A x \in (h + 1)..(h + n + k + k + w + 4) : KindAt(tx, x) = KindOf(h, n, k, w, x)
  BY KindsStand
<1>2. /\ h + n + k + 3 + i \in (h + 1)..(h + n + k + k + w + 4)
      /\ KindOf(h, n, k, w, h + n + k + 3 + i) = "refreshFarms"
  BY <1>1 DEF KindOf
<1>3. /\ h + n + k + 3 - k - 1 + i \in (h + 1)..(h + n + k + k + w + 4)
      /\ KindOf(h, n, k, w, h + n + k + 3 - k - 1 + i) = "refreshFarms"
  BY <1>1 DEF KindOf
<1>. QED BY <1>1, <1>2, <1>3

\* The reserves refreshed first stand before the obligation's refresh.
LEMMA ReservesStand ==
  ASSUME NEW tx, NEW head, NEW tail, IsTail(tail), NEW pre \in Seq(Reserves), NEW list, NEW repay, NEW coll, NEW index,
         NEW h, NEW k, NEW w,
         Positions(tx, head, tail, pre, list, repay, coll, index, h, Len(pre), k, w), NEW r \in Range(pre)
  PROVE  \E i \in 1..(Position(tx, "refreshObligation") + 1) :
            tx[i].kind = "refreshReserve" /\ tx[i].reserves = <<r>>
<1>. DEFINE n == Len(pre)
<1>1. PICK j \in 1..n : r = pre[j]
  BY DEF Range
<1>2. n \in Nat
  OBVIOUS
<1>. HIDE DEF n
<1>3. /\ h \in Nat /\ k \in Nat /\ w \in Nat
      /\ Len(tx) = h + n + k + k + w + 4 + Len(tail)
      /\ \A x \in 1..Len(tx) : x > h => tx[x].kind = KindOf(h, n, k, w, x)
      /\ \A i \in 1..n : tx[h + 1 + i].reserves = <<pre[i]>>
      /\ Position(tx, "refreshObligation") = h + n + 1
  BY DEF Positions, n
<1>4. Len(tail) \in Nat
  BY DEF IsTail
<1>5. /\ h + 1 + j \in 1..Len(tx) /\ h + 1 + j > h /\ h + 1 + j \in 1..(h + n + 1 + 1)
      /\ KindOf(h, n, k, w, h + 1 + j) = "refreshReserve"
  BY <1>2, <1>3, <1>4 DEF KindOf
<1>. QED BY <1>1, <1>3, <1>5

\* The window check accepts a transaction with no more than one farm and at
\* least two reserves, and only such.
LEMMA WindowStands ==
  ASSUME NEW tx, NEW head, NEW tail, IsTail(tail), NEW pre, NEW list, NEW repay, NEW coll, NEW index,
         NEW h, NEW n, NEW k, NEW w, Positions(tx, head, tail, pre, list, repay, coll, index, h, n, k, w)
  PROVE  /\ n >= 2 /\ k <= 1 => ValidWindow(tx, k # 0, k # 0)
         /\ ValidWindow(tx, k # 0, k # 0) => k <= 1
         /\ (Position(tx, "refreshFarms") # -1) = (k # 0)
         /\ (KindAt(tx, Position(tx, "liquidate") + 2) = "refreshFarms") = (k # 0)
<1>1. /\ h \in Nat /\ n \in Nat /\ k \in 0..2 /\ w \in 0..1 /\ Position(tx, "liquidate") + 1 = h + n + k + 3
      /\ \A x \in (h + 1)..(h + n + k + k + w + 4) : KindAt(tx, x) = KindOf(h, n, k, w, x)
      /\ \A x \in Nat : x > h => KindAt(tx, x) \in {KindOf(h, n, k, w, x), "none"}
  BY KindsStand
<1>. DEFINE liq == Position(tx, "liquidate") + 1
            refresh == IF k # 0 THEN liq - 2 ELSE liq - 1
<1>2. /\ Position(tx, "refreshFarms") = IF k = 0 THEN -1 ELSE h + n + 2
      /\ Position(tx, "liquidate") = h + n + k + 2
  BY DEF Positions
<1>3. liq = h + n + k + 3 /\ liq > 0 /\ liq + 1 = h + n + k + 4 /\ liq - 1 = h + n + k + 2
  BY <1>1
<1>4. k # 0 <=> KindAt(tx, liq - 1) = "refreshFarms"
  <2>1. h + n + k + 2 \in (h + 1)..(h + n + k + k + w + 4)
    BY <1>1
  <2>2. k # 0 <=> KindOf(h, n, k, w, h + n + k + 2) = "refreshFarms"
    BY <1>1 DEF KindOf
  <2>. QED BY <1>1, <1>3, <2>1, <2>2
<1>5. k # 0 <=> KindAt(tx, liq + 1) = "refreshFarms"
  <2>1. h + n + k + 4 \in (h + 1)..(h + n + k + k + w + 4)
    BY <1>1
  <2>2. k # 0 <=> KindOf(h, n, k, w, h + n + k + 4) = "refreshFarms"
    BY <1>1 DEF KindOf
  <2>. QED BY <1>1, <1>3, <2>1, <2>2
<1>6. ASSUME k <= 1 PROVE KindAt(tx, liq + 2) # "refreshFarms"
  <2>1. liq + 2 \in Nat /\ liq + 2 > h /\ liq + 2 = h + n + k + 5
    BY <1>1, <1>3
  <2>2. KindOf(h, n, k, w, h + n + k + 5) # "refreshFarms"
    BY <1>1, <1>6 DEF KindOf
  <2>. QED BY <1>1, <2>1, <2>2
<1>7. ASSUME k <= 1, n >= 2
      PROVE  /\ KindAt(tx, refresh) = "refreshObligation"
             /\ \A back \in 1..2 : KindAt(tx, refresh - back) = "refreshReserve"
  <2>1. refresh = h + n + 2 /\ refresh - 1 = h + n + 1 /\ refresh - 2 = h + n
    BY <1>1, <1>3, <1>7
  <2>2. /\ h + n + 2 \in (h + 1)..(h + n + k + k + w + 4)
        /\ h + n + 1 \in (h + 1)..(h + n + k + k + w + 4)
        /\ h + n \in (h + 1)..(h + n + k + k + w + 4)
    BY <1>1, <1>7
  <2>3. /\ KindOf(h, n, k, w, h + n + 2) = "refreshObligation"
        /\ KindOf(h, n, k, w, h + n + 1) = "refreshReserve"
        /\ KindOf(h, n, k, w, h + n) = "refreshReserve"
    BY <1>1, <1>7 DEF KindOf
  <2>4. \A back \in 1..2 : back = 1 \/ back = 2
    OBVIOUS
  <2>. QED BY <1>1, <2>1, <2>2, <2>3, <2>4
<1>8. n >= 2 /\ k <= 1 => ValidWindow(tx, k # 0, k # 0)
  BY <1>3, <1>4, <1>5, <1>6, <1>7 DEF ValidWindow
<1>9. ASSUME ValidWindow(tx, k # 0, k # 0) PROVE k <= 1
  <2>1. KindAt(tx, refresh) = "refreshObligation"
    BY <1>9 DEF ValidWindow
  <2>2. SUFFICES ASSUME k = 2 PROVE FALSE
    BY <1>1
  <2>3. refresh = h + n + 3 /\ h + n + 3 \in (h + 1)..(h + n + k + k + w + 4)
    BY <1>1, <1>3, <2>2
  <2>4. KindOf(h, n, k, w, h + n + 3) = "refreshFarms"
    BY <1>1, <2>2 DEF KindOf
  <2>. QED BY <1>1, <2>1, <2>3, <2>4
<1>10. (Position(tx, "refreshFarms") # -1) = (k # 0)
  BY <1>1, <1>2
<1>11. (KindAt(tx, Position(tx, "liquidate") + 2) = "refreshFarms") = (k # 0)
  <2>1. Position(tx, "liquidate") + 2 = liq + 1
    BY <1>1, <1>2
  <2>. QED BY <1>5, <2>1
<1>. QED BY <1>8, <1>9, <1>10, <1>11

\* Neither the budget nor the tip names an account.
LEMMA SizeOfRebuilt ==
  ASSUME NEW s \in Seq(Ixs), Creating(s), NEW b, BudgetIxs(b), NEW b2, BudgetIxs(b2), NEW core \in Seq(Ixs), NEW table
  PROVE  LET ixs == (s \o b) \o core
             tx == ((s \o b2) \o core) \o Tip
         IN /\ Bytes(tx, table) = Bytes(ixs, table) + (Len(tx) - Len(ixs))
            /\ Bytes(ixs, table) \in Nat /\ Len(tx) - Len(ixs) \in Int
<1>. DEFINE ixs == (s \o b) \o core
            tx == ((s \o b2) \o core) \o Tip
            left == Cardinality(Accounts(core) \ Range(table))
<1>1. IsHead(s \o b) /\ IsHead(s \o b2) /\ IsTail(Tip) /\ IsTail(<<>>)
  BY HeadOf, TipTyped
<1>2. Accounts(tx) = Accounts(core)
  BY <1>1, FrameAccounts
<1>3. IsFrame(tx, s \o b2, core, Tip)
  BY <1>1, FrameLayout
<1>4. ixs \o <<>> = ixs
  <2>1. s \o b \in Seq(Ixs)
    BY <1>1 DEF IsHead
  <2>2. ixs \in Seq(Ixs)
    BY <2>1
  <2>. HIDE DEF ixs
  <2>. QED BY <2>2, ConcatEmptySeq
<1>5. Accounts(ixs \o <<>>) = Accounts(core) /\ IsFrame(ixs \o <<>>, s \o b, core, <<>>)
  BY <1>1, FrameAccounts, FrameLayout
<1>6. Accounts(ixs) = Accounts(core) /\ IsFrame(ixs, s \o b, core, <<>>)
  BY <1>4, <1>5
<1>. HIDE DEF ixs, tx
<1>7. Len(tx) \in Nat /\ Len(ixs) \in Nat
  <2>1. tx \in Seq(Ixs) /\ ixs \in Seq(Ixs)
    BY <1>3, <1>6 DEF IsFrame
  <2>. QED BY <2>1
<1>8. left \in Nat
  <2>1. \A x \in DOMAIN core : Range(core[x].reserves) \subseteq Reserves
    <3>1. \A x \in DOMAIN core : core[x] \in Ixs
      OBVIOUS
    <3>2. \A x \in DOMAIN core : core[x].reserves \in Seq(Reserves)
      BY <3>1 DEF Ixs
    <3>3. \A q \in Seq(Reserves) : Range(q) \subseteq Reserves
      BY DEF Range
    <3>. QED BY <3>2, <3>3
  <2>2. Accounts(core) \ Range(table) \in SUBSET Reserves
    BY <2>1 DEF Accounts
  <2>3. IsFiniteSet(Accounts(core) \ Range(table))
    BY <2>2, ReservesAssumption, FS_Subset
  <2>. QED BY <2>3, FS_CardinalityType
<1>9. Bytes(tx, table) = Len(tx) + left /\ Bytes(ixs, table) = Len(ixs) + left
  BY <1>2, <1>6 DEF Bytes
<1>. HIDE DEF left
<1>10. /\ Bytes(tx, table) = Bytes(ixs, table) + (Len(tx) - Len(ixs))
       /\ Bytes(ixs, table) \in Nat /\ Len(tx) - Len(ixs) \in Int
  BY <1>7, <1>8, <1>9
<1>. QED BY <1>10 DEF ixs, tx

-----------------------------------------------------------------------------
(* The inductive invariant.                                                 *)

\* A transaction of the planned pair, whichever build it came from.
Framed(p, ixs) ==
  \E head, pre, list, swap, index :
    /\ IsHead(head) /\ pre \in Seq(Reserves) /\ list \in Seq(Reserves) /\ swap \in {<<>>, Swap} /\ index \in Nat
    /\ ixs = head \o Core(pre, list, p.repay, p.collateral, swap, index)

Tables == Seq(Reserves) \union {NoTable}
LutOK ==
  /\ chainLut \in Tables /\ lut \in Tables /\ preLut \in Tables \union {None}
  /\ todo \in Seq(Reserves) /\ (todo # <<>> => pc = "extend")
  /\ saved \in BOOLEAN /\ (saved => chainLut # NoTable) /\ (lut # NoTable => saved)
  /\ Len(Table(lut)) + Len(todo) <= MaxAddresses /\ Len(Table(chainLut)) <= MaxAddresses
  /\ pc = "extend" \/ (pc = "build" /\ caller = "warmup") => lut # NoTable

ChainOK == ob \in Obligations /\ missing \subseteq AtaNames /\ plan \in Plans /\ price0 \in Prices

\* Profiles without farms are tried only for a pair that has none.
PlanFarms == FarmModes(plan.repay, plan.collateral)
Places == {"idle", "created", "load", "loaded", "prebuild", "presubmit", "build", "extend",
           "simulate", "validate", "send"}
Callers == {"warmup", "prebuild", "presubmit", "executor"}
ControlOK ==
  /\ pc \in Places /\ caller \in Callers
  /\ profiles \in Seq(Profile) /\ (pc \in {"build", "extend"} => profiles # <<>>)
  /\ Complete => \A i \in 1..Len(profiles) : profiles[i].noFarms => PlanFarms = <<>>
  /\ read \in Obligations \union {None} /\ warmed \in BOOLEAN
  /\ pc \in {"presubmit", "extend", "simulate", "validate", "send"} => Complete
  /\ pc = "build" /\ caller # "prebuild" => Complete
  /\ pc = "extend" => caller \in {"warmup", "executor"}
  /\ pc \in {"extend", "simulate", "validate", "send"} => work.stage = "built"

\* The build in progress.
Shape(w) == w = [stage |-> w.stage, mode |-> w.mode, swap |-> w.swap, first |-> w.first, final |-> w.final,
                 torn |-> w.torn, atomic |-> w.atomic]
FirstOK(w) ==
  w.stage # "initial" /\ Complete =>
    w.first.required = PlanFarms /\ w.first.hasFarms = (PlanFarms # <<>>)
FinalOK(w) ==
  w.stage \in {"atomic", "built"} =>
    /\ w.final.setup \in Seq(Ixs) /\ Creating(w.final.setup) /\ w.final.ixs \in Seq(Ixs)
    /\ w.stage = "atomic" => w.final.setup # <<>>
    /\ Complete => w.final.hasFarms = (PlanFarms # <<>>)
Fresh(w, pre, list) ==
  ~w.torn /\ w.mode = "active" /\ PreMode \in {"all", "auto"} /\ Cardinality(Range(list)) <= MaxFull
    => Range(list) \subseteq Range(pre)
Result(w) == IF w.final.setup # <<>> THEN w.atomic ELSE w.final.ixs
ResultOK(w) ==
  w.stage = "built" =>
    /\ w.atomic \in Seq(Ixs)
    /\ Complete => \E b, pre, list, swap :
         Planned(plan, Result(w), w.final.setup, b, pre, list, swap) /\ Fresh(w, pre, list)
WorkOK ==
  /\ Shape(work) /\ work.mode \in {"active", "nonDefault"} /\ work.swap \in {<<>>, Swap}
  /\ FirstOK(work) /\ FinalOK(work) /\ ResultOK(work)

\* The presubmitter's transaction, in its cache and in the attempt.
KeptOK(ixs) == ixs \in Seq(Ixs) /\ (Complete => Framed(plan, ixs))
PresubmittedOK ==
  /\ entry # None => entry.mode \in {"main", "atomic", "partial"} /\ (entry.mode = "atomic" => KeptOK(entry.ixs))
  /\ cached # None => KeptOK(cached)

\* What is left to send was sized with this copy of the table, and its window
\* validated unless it creates accounts.
SizedOK ==
  /\ pc \in {"simulate", "validate", "send"} => ~TooLarge(CandidateIxs, lut)
  /\ pc = "simulate" => work.final.setup # <<>>
  /\ pc = "validate" => work.final.setup = <<>>
  /\ pc = "send" /\ work.final.setup = <<>> => FarmCount(plan) <= 1

OutOK ==
  out # None =>
    /\ pc = "send" /\ out.attempt \in 1..MaxAttempts
    /\ \E price : out.ixs = Rebuilt(CandidateIxs, price)

IInv == ChainOK /\ LutOK /\ ControlOK /\ WorkOK /\ PresubmittedOK /\ SizedOK /\ OutOK

-----------------------------------------------------------------------------
(* Which steps change what.                                                 *)

\* The plan stays the plan; the rest of the chain stays a chain.
LEMMA ChainStays ==
  ASSUME ChainOK, [Next]_vars
  PROVE  ChainOK' /\ plan' = plan /\ price0' = price0
<1>1. CASE Rest
  BY <1>1 DEF Rest, chainVars, ChainOK
<1>2. CASE UNCHANGED chainVars
  BY <1>2 DEF chainVars, ChainOK
<1>3. CASE SimulatesAtomic \/ Sent
  BY <1>3 DEF SimulatesAtomic, Sent, Creates, ChainOK
<1>4. CASE ChainMoves
  BY <1>4 DEF ChainMoves, ChainOK
<1>5. CASE WarmsUp \/ GetOrBuild \/ PresubmitDecides \/ ExecutorSizes \/ Extended \/ Crash
  BY <1>2, <1>5 DEF WarmsUp, GetOrBuild, PresubmitDecides, ExecutorSizes, Extended, Crash, chainVars
<1>6. CASE Tick \/ Created \/ Loads \/ ReadsObligation \/ Initial \/ Final \/ Atomic
  BY <1>1, <1>6 DEF Tick, Created, Loads, ReadsObligation, Initial, Final, Atomic
<1>7. CASE \E answer : Sizing(answer)
  BY <1>1, <1>7 DEF Sizing
<1>8. CASE WarmupCollects \/ Extends \/ Validates \/ Sends
  BY <1>1, <1>8 DEF WarmupCollects, Extends, Validates, Sends
<1>9. CASE UNCHANGED vars
  BY <1>2, <1>9 DEF vars
<1>. QED BY <1>3, <1>4, <1>5, <1>6, <1>7, <1>8, <1>9 DEF Next

\* Only the four readings of a build add to it; its beginning discards it.
LEMMA WorkMoves ==
  ASSUME [Next]_vars
  PROVE  \/ work' = work \/ work' = NoWork
         \/ Initial \/ Final \/ Atomic \/ \E answer : Sizing(answer)
<1>1. CASE Tick \/ Created \/ Loads \/ ReadsObligation \/ Extends \/ Validates \/ Sends \/ SimulatesAtomic \/ Sent
  BY <1>1 DEF Tick, Created, Loads, ReadsObligation, Extends, Validates, Sends, SimulatesAtomic, Sent, Ends, tickVars
<1>2. CASE WarmsUp \/ GetOrBuild
  BY <1>2 DEF WarmsUp, GetOrBuild, Begins, AfterPrebuild, Ends
<1>3. CASE WarmupCollects \/ PresubmitDecides \/ ExecutorSizes \/ Extended
  BY <1>3 DEF WarmupCollects, PresubmitDecides, ExecutorSizes, Extended, Throws, NextProfile, Chosen, Taken,
     AfterPrebuild, Begins, Ends
<1>4. CASE ChainMoves \/ Crash \/ UNCHANGED vars
  BY <1>4 DEF ChainMoves, Crash, Ends, tickVars, vars
<1>. QED BY <1>1, <1>2, <1>3, <1>4 DEF Next

\* A transaction is sent, or forgotten; while it is remembered the tick does
\* not move.
LEMMA OutMoves ==
  ASSUME [Next]_vars, OutOK
  PROVE  out' = None \/ Sends \/ UNCHANGED tickVars
<1>1. CASE Tick \/ Created \/ Loads \/ ReadsObligation \/ Validates \/ SimulatesAtomic \/ Sent
  BY <1>1 DEF Tick, Created, Loads, ReadsObligation, Validates, SimulatesAtomic, Sent, Ends, OutOK
<1>2. CASE WarmsUp \/ GetOrBuild
  BY <1>2 DEF WarmsUp, GetOrBuild, Begins, AfterPrebuild, Ends, OutOK
<1>3. CASE WarmupCollects \/ PresubmitDecides \/ ExecutorSizes \/ Extended
  BY <1>3 DEF WarmupCollects, PresubmitDecides, ExecutorSizes, Extended, Throws, NextProfile, Chosen, Taken,
     AfterPrebuild, Begins, Ends, Built, OutOK
<1>4. CASE Initial \/ Final \/ Atomic \/ \E answer : Sizing(answer)
  BY <1>4 DEF Initial, Final, Atomic, Sizing, Throws, AfterPrebuild, Ends, OutOK
<1>5. CASE Extends
  BY <1>5 DEF Extends, Ends, OutOK
<1>6. CASE ChainMoves \/ Crash \/ UNCHANGED vars
  BY <1>6 DEF ChainMoves, Crash, Ends, vars
<1>. QED BY <1>1, <1>2, <1>3, <1>4, <1>5, <1>6 DEF Next

\* The presubmitter's transaction is found in the cache, or built.
LEMMA CachedMoves ==
  ASSUME [Next]_vars
  PROVE  /\ entry' = entry \/ entry' = None \/ PresubmitDecides
         /\ cached' = cached \/ cached' = None \/ GetOrBuild \/ PresubmitDecides
<1>1. CASE Tick \/ Created \/ Loads \/ ReadsObligation \/ Validates \/ SimulatesAtomic \/ Sends \/ Sent
  BY <1>1 DEF Tick, Created, Loads, ReadsObligation, Validates, SimulatesAtomic, Sends, Sent, Ends, Rest, processVars
<1>2. CASE WarmsUp \/ GetOrBuild
  BY <1>2 DEF WarmsUp, GetOrBuild, Begins
<1>3. CASE WarmupCollects \/ ExecutorSizes \/ Extended
  BY <1>3 DEF WarmupCollects, ExecutorSizes, Extended, Throws, NextProfile, Chosen, Taken,
     AfterPrebuild, Begins, Ends, Rest, processVars
<1>4. CASE Initial \/ Final \/ Atomic \/ \E answer : Sizing(answer)
  BY <1>4 DEF Initial, Final, Atomic, Sizing, Throws, AfterPrebuild, Ends, Rest, processVars
<1>5. CASE Extends
  BY <1>5 DEF Extends, Ends, Rest, processVars, tickVars
<1>6. CASE ChainMoves \/ Crash \/ UNCHANGED vars
  BY <1>6 DEF ChainMoves, Crash, Ends, vars, tickVars, processVars
<1>. QED BY <1>1, <1>2, <1>3, <1>4, <1>5, <1>6 DEF Next

-----------------------------------------------------------------------------
(* What is added to a lookup table.                                         *)

LEMMA CandidatesTyped ==
  ASSUME NEW ixs \in Seq(Ixs)
  PROVE  Candidates(ixs) \in Seq(Reserves) /\ NoRepeat(Candidates(ixs))
<1>. DEFINE seqs == [i \in DOMAIN ixs |-> ixs[i].reserves]
<1>1. seqs \in Seq(Seq(Reserves))
  <2>1. DOMAIN ixs = 1..Len(ixs) /\ Len(ixs) \in Nat /\ \A i \in 1..Len(ixs) : ixs[i] \in Ixs
    OBVIOUS
  <2>2. \A i \in 1..Len(ixs) : ixs[i].reserves \in Seq(Reserves)
    BY <2>1 DEF Ixs
  <2>. QED BY <2>1, <2>2
<1>. HIDE DEF seqs
<1>2. FlattenSeq(seqs) \in Seq(Reserves)
  BY <1>1, FlattenProperties
<1>3. Once(FlattenSeq(seqs)) \in Seq(Reserves) /\ NoRepeat(Once(FlattenSeq(seqs)))
  BY <1>2, OnceProperties
<1>. QED BY <1>3 DEF Candidates, seqs

\* A table whose addresses are all different, made longer by such a list.
Added(copy, new) ==
  /\ new \in Seq(Reserves) /\ Len(copy) + Len(new) <= MaxAddresses
  /\ NoRepeat(new) /\ \A i \in 1..Len(new) : new[i] \notin Range(copy)

\* The entries ensureAddresses() has still to add leave the table without
\* repetition and within its limit.
LEMMA LackingFits ==
  ASSUME lut \in Seq(Reserves), Len(lut) <= MaxAddresses, NEW want \in Seq(Reserves), NoRepeat(want)
  PROVE  Added(lut, Lacking(want))
<1>. DEFINE at == {i \in DOMAIN want : want[i] \notin Range(lut)}
            new == Kept(want, at)
            room == MaxAddresses - Len(lut)
            top == IF Len(new) < room THEN Len(new) ELSE room
<1>1. at \in SUBSET DOMAIN want
  OBVIOUS
<1>2. /\ new \in Seq(Reserves)
      /\ \A n \in 1..Len(new) : \E i \in at : new[n] = want[i]
      /\ \A m, n \in 1..Len(new) : m < n =>
           \E i, j \in at : i < j /\ new[m] = want[i] /\ new[n] = want[j]
  <2>. HIDE DEF at
  <2>. QED BY <1>1, KeptProperties
<1>3. \A n \in 1..Len(new) : new[n] \notin Range(lut)
  BY <1>2
<1>4. NoRepeat(new)
  <2>1. at \subseteq 1..Len(want) /\ Len(want) \in Nat /\ Len(new) \in Nat
    BY <1>2
  <2>. HIDE DEF at, new
  <2>2. ASSUME NEW m \in 1..Len(new), NEW n \in 1..Len(new), m < n PROVE new[m] # new[n]
    <3>1. PICK i, j \in at : i < j /\ new[m] = want[i] /\ new[n] = want[j]
      BY <1>2, <2>2
    <3>2. i \in DOMAIN want /\ j \in DOMAIN want /\ i # j
      BY <2>1, <3>1, <1>1
    <3>. QED BY <3>1, <3>2 DEF NoRepeat
  <2>. QED BY <2>1, <2>2 DEF NoRepeat
<1>. HIDE DEF new, at
<1>5. room \in Nat /\ top \in 0..Len(new) /\ Len(lut) + top <= MaxAddresses /\ Len(new) \in Nat
  <2>1. Len(lut) \in Nat /\ Len(new) \in Nat /\ MaxAddresses \in Nat
    BY <1>2, MaxAddressesAssumption
  <2>. QED BY <2>1
<1>. HIDE DEF room, top
<1>6. /\ SubSeq(new, 1, top) \in Seq(Reserves) /\ Len(SubSeq(new, 1, top)) = top
      /\ \A i \in 1..top : SubSeq(new, 1, top)[i] = new[i] /\ i \in 1..Len(new)
  BY <1>2, <1>5
<1>7. Lacking(want) = SubSeq(new, 1, top)
  BY DEF Lacking, new, at, room, top
<1>. HIDE DEF Lacking
<1>8. NoRepeat(Lacking(want))
  BY <1>4, <1>6, <1>7 DEF NoRepeat
<1>. QED BY <1>3, <1>5, <1>6, <1>7, <1>8 DEF Added

\* Taking a batch off the entries to add loses none of them.
LEMMA BatchTaken ==
  ASSUME todo \in Seq(Reserves), todo # <<>>
  PROVE  LET rest == SubSeq(todo, Len(Batch) + 1, Len(todo))
         IN /\ Batch \in Seq(Reserves) /\ Len(Batch) \in 1..Len(todo)
            /\ rest \in Seq(Reserves) /\ Len(rest) = Len(todo) - Len(Batch)
            /\ Batch \o rest = todo
<1>. DEFINE c == IF Len(todo) < BatchSize THEN Len(todo) ELSE BatchSize
            b == SubSeq(todo, 1, c)
            rest == SubSeq(todo, c + 1, Len(todo))
            j == b \o rest
<1>1. Len(todo) \in Nat \ {0} /\ c \in 1..Len(todo)
  <2>1. Len(todo) \in Nat \ {0}
    OBVIOUS
  <2>. QED BY <2>1, BatchSizeAssumption
<1>. HIDE DEF c
<1>2. /\ b \in Seq(Reserves) /\ Len(b) = c /\ \A i \in 1..c : b[i] = todo[i]
  BY <1>1
<1>3. /\ rest \in Seq(Reserves) /\ Len(rest) = Len(todo) - c
      /\ \A i \in 1..Len(rest) : rest[i] = todo[c + i]
  BY <1>1
<1>4. Batch = b
  BY DEF Batch, c
<1>. HIDE DEF b, rest
<1>5. IsJoin(Reserves, b, rest, j)
  BY <1>2, <1>3, Concatenated
<1>. HIDE DEF j
<1>6. /\ j \in Seq(Reserves) /\ Len(j) = Len(b) + Len(rest)
      /\ \A i \in 1..Len(b) : j[i] = b[i]
      /\ \A i \in 1..Len(rest) : j[Len(b) + i] = rest[i]
  BY <1>5 DEF IsJoin
<1>7. Len(j) = Len(todo)
  BY <1>1, <1>2, <1>3, <1>6
<1>8. ASSUME NEW i \in 1..Len(todo) PROVE j[i] = todo[i]
  <2>1. CASE i <= c
    BY <1>1, <1>2, <1>6, <2>1
  <2>2. CASE i > c
    <3>1. i - c \in 1..Len(rest) /\ c + (i - c) = i
      BY <1>1, <1>3, <2>2
    <3>2. j[Len(b) + (i - c)] = rest[i - c] /\ rest[i - c] = todo[c + (i - c)]
      BY <1>3, <1>6, <3>1
    <3>. QED BY <1>2, <3>1, <3>2
  <2>. QED BY <1>1, <2>1, <2>2
<1>9. j = todo
  BY <1>6, <1>7, <1>8
<1>10. Len(Batch) = c
  BY <1>2, <1>4
<1>11. /\ b \in Seq(Reserves) /\ Len(b) \in 1..Len(todo)
       /\ rest \in Seq(Reserves) /\ Len(rest) = Len(todo) - Len(b)
       /\ b \o rest = todo
  BY <1>1, <1>2, <1>3, <1>9 DEF j
<1>. QED BY <1>2, <1>4, <1>11 DEF rest

\* When a concatenation has no repetition.
LEMMA PartsDiffer ==
  ASSUME NEW a \in Seq(Reserves), NEW b \in Seq(Reserves)
  PROVE  /\ a \o b \in Seq(Reserves) /\ Len(a \o b) = Len(a) + Len(b)
         /\ NoRepeat(a \o b) => NoRepeat(a)
         /\ NoRepeat(a) /\ NoRepeat(b) /\ (\A i \in 1..Len(b) : b[i] \notin Range(a)) => NoRepeat(a \o b)
<1>. DEFINE j == a \o b
            p == Len(a)
            q == Len(b)
<1>1. IsJoin(Reserves, a, b, j)
  BY Concatenated
<1>. HIDE DEF j
<1>2. /\ j \in Seq(Reserves) /\ Len(j) = p + q /\ p \in Nat /\ q \in Nat
      /\ \A i \in 1..p : j[i] = a[i]
      /\ \A i \in 1..q : j[p + i] = b[i]
      /\ DOMAIN a = 1..p /\ DOMAIN b = 1..q /\ DOMAIN j = 1..Len(j)
  <2>1. \A s \in Seq(Reserves) : DOMAIN s = 1..Len(s)
    OBVIOUS
  <2>. QED BY <1>1, <2>1 DEF IsJoin
<1>. HIDE DEF p, q
<1>3. ASSUME NoRepeat(j) PROVE NoRepeat(a)
  <2>1. \A i \in 1..p : i \in 1..Len(j)
    BY <1>2
  <2>. QED BY <1>2, <1>3, <2>1 DEF NoRepeat
<1>4. ASSUME NoRepeat(a), NoRepeat(b), \A i \in 1..q : b[i] \notin Range(a)
      PROVE  NoRepeat(j)
  <2>1. ASSUME NEW m \in 1..Len(j), NEW n \in 1..Len(j), m < n PROVE j[m] # j[n]
    <3>1. CASE n <= p
      <4>1. m \in 1..p /\ n \in 1..p /\ m # n
        BY <1>2, <2>1, <3>1
      <4>. QED BY <1>2, <1>4, <4>1 DEF NoRepeat
    <3>2. CASE m <= p /\ n > p
      <4>1. m \in 1..p /\ n - p \in 1..q /\ p + (n - p) = n
        BY <1>2, <2>1, <3>2
      <4>2. j[m] = a[m] /\ j[n] = b[n - p]
        BY <1>2, <4>1
      <4>3. a[m] \in Range(a)
        BY <1>2, <4>1 DEF Range
      <4>. QED BY <1>4, <4>1, <4>2, <4>3
    <3>3. CASE m > p
      <4>1. m - p \in 1..q /\ p + (m - p) = m /\ n - p \in 1..q /\ p + (n - p) = n /\ m - p # n - p
        <5>1. m \in Int /\ n \in Int /\ m < n /\ n <= p + q /\ p \in Int /\ q \in Int
          BY <1>2, <2>1
        <5>. QED BY <5>1, <3>3
      <4>2. j[m] = b[m - p] /\ j[n] = b[n - p]
        BY <1>2, <4>1
      <4>. QED BY <1>2, <1>4, <4>1, <4>2 DEF NoRepeat
    <3>. QED BY <1>2, <3>1, <3>2, <3>3
  <2>2. \A m, n \in 1..Len(j) : m = n \/ m < n \/ n < m
    BY <1>2
  <2>. QED BY <1>2, <2>1, <2>2 DEF NoRepeat
<1>. QED BY <1>2, <1>3, <1>4 DEF j, p, q

\* Repeated is the model's word for a list with a repetition.
LEMMA RepeatedOrNot ==
  ASSUME NEW s \in Seq(Reserves)
  PROVE  Repeated(s) <=> ~NoRepeat(s)
<1>1. Cardinality(Range(s)) \in 0..Len(s) /\ Len(s) \in Nat /\ (Cardinality(Range(s)) = Len(s) <=> NoRepeat(s))
  BY RangeCardinality
<1>. QED BY <1>1 DEF Repeated

-----------------------------------------------------------------------------
(* The lookup table, and the copies of it.                                  *)

LEMMA TableIs ==
  ASSUME NEW copy \in Tables
  PROVE  /\ Table(copy) \in Seq(Reserves) /\ Len(Table(copy)) \in Nat
         /\ copy # NoTable => copy \in Seq(Reserves) /\ Table(copy) = copy
         /\ copy = NoTable => Table(copy) = <<>>
<1>1. <<>> \in Seq(Reserves) /\ NoTable \notin Seq(Reserves) /\ None \notin Seq(Reserves)
  BY NothingAssumption
<1>2. Table(copy) \in Seq(Reserves)
  BY <1>1 DEF Table, Tables
<1>. QED BY <1>1, <1>2 DEF Table, Tables

\* A step that leaves the table and its copies alone, outside an extension,
\* and begins none.
QuietLut ==
  /\ UNCHANGED lutVars /\ todo = <<>> /\ pc' # "extend" /\ preLut' \in Tables \union {None}
  /\ pc' = "build" /\ caller' = "warmup" => lut # NoTable

\* LutOK only reads the lookup table's variables.
LEMMA QuietLutStays ==
  ASSUME LutOK, QuietLut
  PROVE  LutOK'
BY DEF LutOK, QuietLut, lutVars, Table

\* The candidates of the transaction being built, for the copy at hand.
LEMMA ExtensionFits ==
  ASSUME LutOK, WorkOK, pc = "build", work.stage = "built", lut # NoTable,
         NEW ixs, ixs \in {CandidateIxs, work.final.setup \o work.final.ixs}
  PROVE  Added(lut, Lacking(Candidates(ixs)))
<1>1. work.final.setup \in Seq(Ixs) /\ work.final.ixs \in Seq(Ixs) /\ work.atomic \in Seq(Ixs)
  BY DEF WorkOK, FinalOK, ResultOK
<1>2. work.final.setup \o work.final.ixs \in Seq(Ixs)
  BY <1>1
<1>3. ixs \in Seq(Ixs)
  BY <1>1, <1>2 DEF CandidateIxs
<1>4. lut \in Seq(Reserves) /\ Len(lut) <= MaxAddresses
  <2>1. todo = <<>> /\ Len(<<>>) = 0 /\ Table(lut) = lut /\ lut \in Seq(Reserves)
    BY TableIs DEF LutOK
  <2>2. Len(lut) + 0 <= MaxAddresses /\ Len(lut) \in Nat
    BY <2>1 DEF LutOK
  <2>. QED BY <2>1, <2>2, MaxAddressesAssumption
<1>. QED BY <1>3, <1>4, CandidatesTyped, LackingFits

\* No step breaks the tables.
LEMMA LutStays ==
  ASSUME LutOK, ControlOK, WorkOK, [Next]_vars
  PROVE  LutOK'
<1>. USE DEF Goto
<1>1. MaxAddresses \in Nat /\ <<>> \in Seq(Reserves) /\ Len(<<>>) = 0
  BY MaxAddressesAssumption
<1>2. /\ NoTable \notin Seq(Reserves) /\ None \notin Seq(Reserves)
      /\ Table(NoTable) = <<>> /\ Table(None) = <<>> /\ Table(<<>>) = <<>>
  BY <1>1, NothingAssumption DEF Table
<1>3. CASE Tick
  <2>1. pc = "idle" /\ todo = <<>> /\ preLut' = preLut
    BY <1>3 DEF Tick, Rest, processVars, LutOK
  <2>2. CASE CreateSent /\ pc' = "created" /\ ~saved
    <3>1. lut = NoTable
      BY <2>2 DEF LutOK
    <3>2. chainLut' \in {NoTable, <<>>} /\ UNCHANGED <<saved, lut, todo>>
      BY <2>2 DEF CreateSent
    <3>3. Table(chainLut') = <<>> /\ chainLut' \in Tables
      BY <1>1, <1>2, <3>2 DEF Tables
    <3>4. Len(Table(lut')) + Len(todo') = 0
      BY <1>1, <1>2, <2>1, <3>1, <3>2
    <3>. QED BY <1>1, <2>1, <2>2, <3>1, <3>2, <3>3, <3>4 DEF LutOK
  <2>3. CASE Load /\ pc' = "loaded" /\ saved
    <3>1. lut' = chainLut /\ UNCHANGED <<chainLut, saved, todo>>
      BY <2>3 DEF Load
    <3>. QED BY <1>1, <1>2, <2>1, <2>3, <3>1, TableIs DEF LutOK
  <2>. QED BY <1>3, <2>2, <2>3 DEF Tick
<1>4. CASE Created
  <2>1. pc = "created" /\ todo = <<>> /\ preLut' = preLut
    BY <1>4 DEF Created, Rest, processVars, LutOK
  <2>2. CASE CreateConfirmed /\ pc' = "load"
    BY <2>1, <2>2 DEF CreateConfirmed, LutOK, Table
  <2>3. CASE CreateFails /\ pc' = "idle"
    BY <1>1, <1>2, <2>1, <2>3 DEF CreateFails, Forgotten, LutOK, Table, Tables
  <2>. QED BY <1>4, <2>2, <2>3 DEF Created, Ends
<1>5. CASE Loads
  <2>1. pc = "load" /\ todo = <<>> /\ preLut' = preLut /\ pc' = "loaded"
    BY <1>5 DEF Loads, Rest, processVars, LutOK
  <2>2. lut' = (IF saved THEN chainLut ELSE NoTable) /\ UNCHANGED <<chainLut, saved, todo>>
    BY <1>5 DEF Loads, Load
  <2>. QED BY <1>1, <1>2, <2>1, <2>2, TableIs DEF LutOK
<1>6. CASE WarmsUp
  <2>1. QuietLut
    BY <1>2, <1>6, NothingAssumption DEF WarmsUp, Begins, LutOK, QuietLut
  <2>. QED BY <2>1, QuietLutStays
<1>7. CASE GetOrBuild
  <2>1. QuietLut
    BY <1>7 DEF GetOrBuild, Begins, AfterPrebuild, Ends, PresubmitterLut, LutOK, QuietLut, Tables
  <2>. QED BY <2>1, QuietLutStays
<1>8. CASE ReadsObligation
  <2>1. QuietLut
    BY <1>8 DEF ReadsObligation, Rest, processVars, LutOK, QuietLut
  <2>. QED BY <2>1, QuietLutStays
<1>9. CASE Initial \/ Final \/ Atomic \/ \E answer : Sizing(answer)
  <2>1. QuietLut
    BY <1>9 DEF Initial, Final, Atomic, Sizing, Throws, AfterPrebuild, Ends, Rest, processVars, LutOK, QuietLut
  <2>. QED BY <2>1, QuietLutStays
<1>10. ASSUME NEW ixs, ixs \in {CandidateIxs, work.final.setup \o work.final.ixs},
              pc = "build", work.stage = "built", lut # NoTable, pc' = "extend", preLut' = preLut,
              ExtendBegins(Candidates(ixs))
       PROVE  LutOK'
  <2>1. Added(lut, Lacking(Candidates(ixs)))
    BY <1>10, ExtensionFits
  <2>2. todo' = Lacking(Candidates(ixs)) /\ UNCHANGED <<chainLut, saved, lut>>
    BY <1>10 DEF ExtendBegins
  <2>3. todo' \in Seq(Reserves) /\ Len(lut) + Len(todo') <= MaxAddresses
    BY <2>1, <2>2 DEF Added
  <2>4. Table(lut) = lut
    BY <1>10, TableIs DEF LutOK
  <2>. QED BY <1>10, <2>2, <2>3, <2>4 DEF LutOK
<1>11. CASE WarmupCollects
  BY <1>10, <1>11 DEF WarmupCollects, Built, Rest, processVars, LutOK
<1>12. CASE PresubmitDecides
  <2>1. QuietLut
    BY <1>12 DEF PresubmitDecides, Built, NextProfile, Throws, AfterPrebuild, Begins, Ends, LutOK, QuietLut
  <2>. QED BY <2>1, QuietLutStays
<1>13. CASE ExecutorSizes
  <2>1. CASE UNCHANGED lutVars /\ (Chosen \/ NextProfile)
    <3>1. QuietLut
      BY <1>13, <2>1 DEF ExecutorSizes, Built, Chosen, Taken, NextProfile, Throws, AfterPrebuild, Begins, Ends, LutOK, QuietLut
    <3>. QED BY <3>1, QuietLutStays
  <2>2. CASE lut # NoTable /\ ExtendBegins(Candidates(CandidateIxs)) /\ pc' = "extend"
    BY <1>10, <1>13, <2>2 DEF ExecutorSizes, Built
  <2>. QED BY <1>13, <2>1, <2>2 DEF ExecutorSizes
<1>14. CASE Extends
  <2>1. /\ pc = "extend" /\ lut # NoTable /\ preLut' = preLut
        /\ lut \in Seq(Reserves) /\ chainLut \in Seq(Reserves) /\ Table(lut) = lut /\ Table(chainLut) = chainLut
    BY <1>14, TableIs DEF Extends, Rest, processVars, LutOK
  <2>2. CASE BatchConfirmed /\ UNCHANGED tickVars
    <3>1. /\ Batch \in Seq(Reserves) /\ todo' \in Seq(Reserves) /\ Len(todo') \in Nat /\ Len(todo') <= Len(todo)
      <4>1. /\ Batch \in Seq(Reserves) /\ Len(Batch) \in 1..Len(todo)
            /\ todo' \in Seq(Reserves) /\ Len(todo') = Len(todo) - Len(Batch)
        BY <2>2, BatchTaken DEF BatchConfirmed, LutOK
      <4>2. Len(todo) \in Nat /\ Len(todo') \in Nat /\ Len(Batch) \in Nat
        BY <4>1 DEF LutOK
      <4>. QED BY <4>1, <4>2
    <3>2. chainLut' \in Seq(Reserves) /\ Len(chainLut') <= MaxAddresses /\ Table(chainLut') = chainLut'
      <4>1. chainLut' = chainLut \o Batch /\ Len(chainLut) + Len(Batch) <= MaxAddresses
        BY <2>2 DEF BatchConfirmed
      <4>2. chainLut \o Batch \in Seq(Reserves) /\ Len(chainLut \o Batch) = Len(chainLut) + Len(Batch)
        BY <2>1, <3>1, PartsDiffer
      <4>. QED BY <4>1, <4>2, NothingAssumption DEF Table
    <3>3. lut' = (IF todo' = <<>> THEN chainLut' ELSE lut) /\ saved' = saved /\ pc' = "extend"
      BY <2>1, <2>2 DEF BatchConfirmed, tickVars
    <3>4. Len(lut) + Len(todo') <= MaxAddresses
      <4>1. Len(lut) + Len(todo) <= MaxAddresses /\ Len(lut) \in Nat /\ Len(todo) \in Nat
        BY <2>1 DEF LutOK
      <4>. QED BY <1>1, <3>1, <4>1
    <3>5. chainLut' # NoTable /\ saved = TRUE
      BY <1>2, <2>1, <3>2 DEF LutOK
    <3>6. CASE todo' = <<>>
      <4>1. lut' = chainLut' /\ Len(Table(lut')) + Len(todo') = Len(chainLut')
        BY <1>1, <3>2, <3>3, <3>6
      <4>. QED BY <2>1, <3>1, <3>2, <3>3, <3>5, <4>1 DEF LutOK, Tables
    <3>7. CASE todo' # <<>>
      <4>1. lut' = lut
        BY <3>3, <3>7
      <4>. QED BY <2>1, <3>1, <3>2, <3>3, <3>4, <3>5, <4>1 DEF LutOK, Tables
    <3>. QED BY <3>6, <3>7
  <2>3. CASE BatchFails /\ pc' # "extend" /\ pc' # "build"
    <3>1. todo' = <<>> /\ lut' = lut /\ saved' = saved
      BY <2>3 DEF BatchFails
    <3>2. chainLut' \in Seq(Reserves) /\ Len(chainLut') <= MaxAddresses
      <4>1. Batch \in Seq(Reserves)
        BY <2>3, BatchTaken DEF BatchFails, LutOK
      <4>2. chainLut \o Batch \in Seq(Reserves) /\ Len(chainLut \o Batch) = Len(chainLut) + Len(Batch)
        BY <2>1, <4>1, PartsDiffer
      <4>. QED BY <2>1, <2>3, <4>2 DEF BatchFails, LutOK
    <3>3. chainLut' # NoTable /\ Table(chainLut') = chainLut'
      BY <1>2, <3>2 DEF Table
    <3>4. Len(lut) + 0 <= MaxAddresses
      <4>1. Len(lut) + Len(todo) <= MaxAddresses /\ Len(lut) \in Nat /\ Len(todo) \in Nat
        BY <2>1 DEF LutOK
      <4>. QED BY <1>1, <4>1
    <3>. QED BY <1>1, <2>1, <3>1, <3>2, <3>3, <3>4, <2>3 DEF LutOK, Tables
  <2>. QED BY <1>14, <2>2, <2>3 DEF Extends, Ends
<1>15. CASE Extended
  <2>1. QuietLut
    BY <1>15 DEF Extended, Chosen, Taken, NextProfile, Throws, AfterPrebuild, Begins, Ends, LutOK, QuietLut
  <2>. QED BY <2>1, QuietLutStays
<1>16. CASE SimulatesAtomic \/ Validates \/ Sends \/ Sent
  <2>1. QuietLut
    BY <1>16 DEF SimulatesAtomic, Validates, Sends, Sent, Ends, Rest, processVars, LutOK, QuietLut
  <2>. QED BY <2>1, QuietLutStays
<1>17. CASE ChainMoves \/ UNCHANGED vars
  BY <1>17 DEF ChainMoves, tickVars, processVars, vars, lutVars, LutOK, Table
<1>18. CASE Crash
  <2>1. /\ pc' = "idle" /\ todo' = <<>> /\ lut' = NoTable /\ saved' = saved /\ preLut' = None
        /\ chainLut' = IF saved THEN chainLut ELSE NoTable
    BY <1>18 DEF Crash, Ends, LutCrash, Forgotten
  <2>. QED BY <1>1, <1>2, <2>1 DEF LutOK, Tables
<1>. QED BY <1>3, <1>4, <1>5, <1>6, <1>7, <1>8, <1>9, <1>11, <1>12, <1>13, <1>14, <1>15, <1>16, <1>17, <1>18 DEF Next

-----------------------------------------------------------------------------
(* Where the tick is, and the build it makes.                               *)

LEMMA CompleteStays ==
  ASSUME plan' = plan
  PROVE  Complete' = Complete /\ PlanFarms' = PlanFarms /\ FarmCount(plan)' = FarmCount(plan)
BY DEF Complete, PlanFarms, FarmCount

\* The profiles to build: the default first, then smaller ones, which drop the
\* farms only when none is required.
LEMMA ProfilesTyped ==
  /\ Default \in Profile /\ <<Default>> \in Seq(Profile) /\ <<Default>> # <<>> /\ Default.noFarms = FALSE
  /\ \A i \in 1..Len(<<Default>>) : <<Default>>[i].noFarms = FALSE
  /\ \A required : /\ Smaller(required) \in Seq(Profile)
                   /\ \A i \in 1..Len(Smaller(required)) : Smaller(required)[i].noFarms => required = <<>>
<1>. DEFINE a == [noFarms |-> FALSE, omit |-> TRUE]
            b == [noFarms |-> TRUE, omit |-> FALSE]
            c == [noFarms |-> TRUE, omit |-> TRUE]
<1>1. a \in Profile /\ b \in Profile /\ c \in Profile /\ Default \in Profile
  BY DEF Profile, Default
<1>2. a.noFarms = FALSE /\ Default.noFarms = FALSE
  BY DEF Default
<1>3. ASSUME NEW required PROVE Smaller(required) = IF required # <<>> THEN <<a>> ELSE <<b, c>>
  BY DEF Smaller
<1>. HIDE DEF a, b, c
<1>4. /\ <<Default>> \in Seq(Profile) /\ Len(<<Default>>) = 1 /\ <<Default>>[1] = Default /\ <<Default>> # <<>>
      /\ <<a>> \in Seq(Profile) /\ Len(<<a>>) = 1 /\ <<a>>[1] = a
      /\ <<b, c>> \in Seq(Profile)
  BY <1>1
<1>5. ASSUME NEW required
      PROVE  /\ Smaller(required) \in Seq(Profile)
             /\ \A i \in 1..Len(Smaller(required)) : Smaller(required)[i].noFarms => required = <<>>
  <2>1. CASE required = <<>>
    BY <1>3, <1>4, <2>1
  <2>2. CASE required # <<>>
    <3>1. Smaller(required) = <<a>>
      BY <1>3, <2>2
    <3>. QED BY <1>2, <1>4, <3>1
  <2>. QED BY <2>1, <2>2
<1>. QED BY <1>1, <1>2, <1>4, <1>5

ProfilesOK(ps) == ps \in Seq(Profile) /\ (Complete => \A i \in 1..Len(ps) : ps[i].noFarms => PlanFarms = <<>>)

\* The profiles left after a build that was too large.
LEMMA NextProfilesOK ==
  ASSUME ProfilesOK(profiles), profiles # <<>>, FirstOK(work), work.stage = "built"
  PROVE  ProfilesOK(NextProfiles)
<1>1. CASE profiles[1] = Default
  <2>1. Complete => work.first.required = PlanFarms
    BY DEF FirstOK
  <2>2. NextProfiles = Smaller(work.first.required)
    BY <1>1 DEF NextProfiles
  <2>. QED BY <2>1, <2>2, ProfilesTyped DEF ProfilesOK
<1>2. CASE profiles[1] # Default
  <2>1. NextProfiles = Tail(profiles)
    BY <1>2 DEF NextProfiles
  <2>2. /\ Tail(profiles) \in Seq(Profile)
        /\ \A i \in 1..Len(Tail(profiles)) : i + 1 \in 1..Len(profiles) /\ Tail(profiles)[i] = profiles[i + 1]
    BY DEF ProfilesOK
  <2>. QED BY <2>1, <2>2 DEF ProfilesOK
<1>. QED BY <1>1, <1>2

\* ControlOK with its conditions on pc written out.
LEMMA ControlIs ==
  ControlOK <=>
    /\ pc \in Places /\ caller \in Callers
    /\ ProfilesOK(profiles) /\ (pc \in {"build", "extend"} => profiles # <<>>)
    /\ read \in Obligations \union {None} /\ warmed \in BOOLEAN
    /\ pc \in {"presubmit", "extend", "simulate", "validate", "send"} => Complete
    /\ pc = "build" /\ caller # "prebuild" => Complete
    /\ pc = "extend" => caller \in {"warmup", "executor"}
    /\ pc \in {"extend", "simulate", "validate", "send"} => work.stage = "built"
BY DEF ControlOK, ProfilesOK

\* The tick ends; a build begins; the presubmitter answers; a build throws; the
\* next profile is tried; a transaction is taken.
LEMMA EndsOK ==
  ASSUME Ends, warmed' \in BOOLEAN
  PROVE  ControlOK'
<1>1. <<>> \in Seq(Profile) /\ \A i \in 1..Len(<<>>) : FALSE
  OBVIOUS
<1>. QED BY <1>1 DEF Ends, Goto, ControlOK, Places, Callers

\* A caller that begins a build leaves the control state in order,
LEMMA BeginsOK ==
  ASSUME NEW who \in Callers, NEW ps, ProfilesOK(ps), ps # <<>>, who # "prebuild" => Complete,
         Begins(who, ps), warmed' \in BOOLEAN, plan' = plan
  PROVE  ControlOK'
BY CompleteStays DEF Begins, Goto, ProfilesOK, ControlOK, Places, Callers

\* so does the end of a prebuild,
LEMMA AfterPrebuildOK ==
  ASSUME ControlOK, AfterPrebuild, UNCHANGED warmed, plan' = plan
  PROVE  ControlOK'
<1>1. CASE Ends
  BY <1>1, EndsOK DEF ControlOK
<1>2. CASE ~Ends
  BY <1>2, CompleteStays DEF AfterPrebuild, Goto, ControlOK, Places
<1>. QED BY <1>1, <1>2

\* a build that throws,
LEMMA ThrowsOK ==
  ASSUME ControlOK, Throws, UNCHANGED warmed, plan' = plan
  PROVE  ControlOK'
<1>1. CASE Ends
  BY <1>1, EndsOK DEF ControlOK
<1>2. CASE AfterPrebuild
  BY <1>2, AfterPrebuildOK
<1>3. CASE Goto("prebuild") /\ read' = None /\ UNCHANGED <<caller, profiles, work, cached, out>>
  BY <1>3, CompleteStays DEF Goto, ControlOK, Places
<1>. QED BY <1>1, <1>2, <1>3 DEF Throws, ControlOK, Callers

\* the step to the next profile,
LEMMA NextProfileOK ==
  ASSUME ControlOK, WorkOK, pc \in {"build", "extend"}, work.stage = "built",
         NextProfile, UNCHANGED warmed, plan' = plan
  PROVE  ControlOK'
<1>1. CASE Throws
  BY <1>1, ThrowsOK
<1>2. CASE NextProfiles # <<>> /\ Begins(caller, NextProfiles)
  <2>1. ProfilesOK(NextProfiles)
    BY NextProfilesOK, ControlIs DEF WorkOK
  <2>2. caller \in Callers /\ (caller # "prebuild" => Complete) /\ warmed' \in BOOLEAN
    BY DEF ControlOK
  <2>. QED BY <1>2, <2>1, <2>2, BeginsOK
<1>. QED BY <1>1, <1>2 DEF NextProfile

\* and a build chosen for sending.
LEMMA ChosenOK ==
  ASSUME ControlOK, pc \in {"build", "extend"}, caller = "executor", work.stage = "built",
         Chosen, UNCHANGED warmed, plan' = plan
  PROVE  ControlOK'
<1>1. CASE Ends
  BY <1>1, EndsOK DEF ControlOK
<1>2. CASE Taken
  BY <1>2, CompleteStays DEF Taken, Goto, ControlOK, Places
<1>. QED BY <1>1, <1>2 DEF Chosen

\* No step breaks the control state.
LEMMA ControlStays ==
  ASSUME ControlOK, WorkOK, ChainOK, plan' = plan, [Next]_vars
  PROVE  ControlOK'
<1>. USE DEF Goto
<1>1. ASSUME UNCHANGED <<caller, profiles, read, work>>, warmed' \in BOOLEAN, pc' \in Places,
             pc' \in {"created", "loaded", "load", "prebuild"} \/ pc' = pc \/ (pc' = "send" /\ pc \in {"simulate", "validate"})
      PROVE  ControlOK'
  BY <1>1, CompleteStays DEF ControlOK
<1>2. CASE Tick \/ Loads
  BY <1>1, <1>2 DEF Tick, Loads, Rest, processVars, ControlOK, Places
<1>3. CASE Created
  <2>1. warmed' = warmed
    BY <1>3 DEF Created, Rest, processVars
  <2>2. CASE Ends
    BY <2>1, <2>2, EndsOK DEF ControlOK
  <2>3. CASE ~Ends
    BY <1>1, <1>3, <2>1, <2>3 DEF Created, ControlOK, Places
  <2>. QED BY <2>2, <2>3
<1>4. CASE WarmsUp
  <2>1. warmed' \in BOOLEAN
    BY <1>4 DEF WarmsUp, ControlOK
  <2>2. CASE Complete /\ Begins("warmup", <<Default>>)
    BY <2>1, <2>2, BeginsOK, ProfilesTyped DEF ProfilesOK, Callers
  <2>3. CASE pc' = "prebuild" /\ UNCHANGED <<caller, profiles, read, work, cached, out>>
    BY <1>1, <2>1, <2>3 DEF Places
  <2>. QED BY <1>4, <2>2, <2>3 DEF WarmsUp
<1>5. CASE GetOrBuild
  <2>1. warmed' = warmed /\ warmed \in BOOLEAN /\ pc \in {"prebuild", "presubmit"} /\ (pc = "presubmit" => Complete)
    BY <1>5 DEF GetOrBuild, ControlOK
  <2>2. CASE AfterPrebuild
    BY <2>1, <2>2, AfterPrebuildOK
  <2>3. CASE pc = "presubmit" /\ Begins("executor", <<Default>>)
    BY <2>1, <2>3, BeginsOK, ProfilesTyped DEF ProfilesOK, Callers
  <2>4. CASE Begins(pc, <<Default>>)
    <3>1. pc \in Callers
      BY <2>1 DEF Callers
    <3>2. ProfilesOK(<<Default>>) /\ <<Default>> # <<>>
      BY ProfilesTyped DEF ProfilesOK
    <3>. QED BY <2>1, <2>4, <3>1, <3>2, BeginsOK
  <2>. QED BY <1>5, <2>1, <2>2, <2>3, <2>4 DEF GetOrBuild
<1>6. CASE ReadsObligation
  BY <1>6, CompleteStays DEF ReadsObligation, Rest, processVars, ControlOK, ChainOK
<1>7. CASE Initial \/ Final \/ Atomic \/ \E answer : Sizing(answer)
  <2>1. pc = "build" /\ warmed' = warmed
    BY <1>7 DEF Initial, Final, Atomic, Sizing, Rest, processVars
  <2>2. CASE Throws
    BY <2>1, <2>2, ThrowsOK
  <2>3. CASE read' = None /\ UNCHANGED <<pc, caller, profiles, cached, out>>
    BY <2>1, <2>3, CompleteStays DEF ControlOK
  <2>. QED BY <1>7, <2>2, <2>3 DEF Initial, Final, Atomic, Sizing
<1>8. CASE WarmupCollects
  BY <1>8, CompleteStays DEF WarmupCollects, Built, Rest, processVars, ControlOK, Places
<1>9. CASE PresubmitDecides
  <2>1. warmed' = warmed /\ warmed \in BOOLEAN /\ pc = "build" /\ work.stage = "built" /\ caller \in {"prebuild", "presubmit"}
    BY <1>9 DEF PresubmitDecides, Built, ControlOK
  <2>2. CASE Throws
    BY <2>1, <2>2, ThrowsOK
  <2>3. CASE NextProfile
    BY <2>1, <2>3, NextProfileOK
  <2>4. CASE AfterPrebuild
    BY <2>1, <2>4, AfterPrebuildOK
  <2>5. CASE caller # "prebuild" /\ Begins("executor", <<Default>>)
    <3>1. Complete
      BY <2>1, <2>5 DEF ControlOK
    <3>. QED BY <2>1, <2>5, <3>1, BeginsOK, ProfilesTyped DEF ProfilesOK, Callers
  <2>. QED BY <1>9, <2>2, <2>3, <2>4, <2>5 DEF PresubmitDecides
<1>10. CASE ExecutorSizes
  <2>1. warmed' = warmed /\ pc = "build" /\ work.stage = "built" /\ caller = "executor"
    BY <1>10 DEF ExecutorSizes, Built
  <2>2. CASE Chosen
    BY <2>1, <2>2, ChosenOK
  <2>3. CASE NextProfile
    BY <2>1, <2>3, NextProfileOK
  <2>4. CASE pc' = "extend" /\ UNCHANGED <<caller, profiles, read, work, cached, out, entry>>
    BY <2>1, <2>4, CompleteStays DEF ControlOK, Places
  <2>. QED BY <1>10, <2>2, <2>3, <2>4 DEF ExecutorSizes
<1>11. CASE Extends
  <2>1. warmed' = warmed /\ warmed \in BOOLEAN
    BY <1>11 DEF Extends, Rest, processVars, ControlOK
  <2>2. CASE Ends
    BY <2>1, <2>2, EndsOK
  <2>3. CASE ~Ends
    BY <1>1, <1>11, <2>1, <2>3 DEF Extends, tickVars, ControlOK, Places
  <2>. QED BY <2>2, <2>3
<1>12. CASE Extended
  <2>1. /\ warmed' = warmed /\ warmed \in BOOLEAN /\ pc = "extend" /\ work.stage = "built"
        /\ caller \in {"warmup", "executor"}
    BY <1>12 DEF Extended, ControlOK
  <2>2. CASE caller = "executor" /\ Chosen
    BY <2>1, <2>2, ChosenOK
  <2>3. CASE NextProfile
    BY <2>1, <2>3, NextProfileOK
  <2>4. CASE pc' = "prebuild" /\ UNCHANGED <<caller, profiles, read, work, cached, out, entry>>
    BY <1>1, <2>1, <2>4 DEF Places
  <2>. QED BY <1>12, <2>1, <2>2, <2>3, <2>4 DEF Extended
<1>13. CASE SimulatesAtomic \/ Validates \/ Sends \/ Sent
  <2>1. warmed' = warmed /\ warmed \in BOOLEAN
    BY <1>13 DEF SimulatesAtomic, Validates, Sends, Sent, Rest, processVars, ControlOK
  <2>2. CASE Ends
    BY <2>1, <2>2, EndsOK
  <2>3. CASE ~Ends
    BY <1>1, <1>13, <2>1, <2>3 DEF SimulatesAtomic, Validates, Sends, Sent, ControlOK, Places
  <2>. QED BY <2>2, <2>3
<1>14. CASE ChainMoves \/ UNCHANGED vars
  BY <1>1, <1>14 DEF ChainMoves, tickVars, processVars, vars, ControlOK
<1>15. CASE Crash
  <2>1. Ends /\ warmed' \in BOOLEAN
    BY <1>15 DEF Crash
  <2>. QED BY <2>1, EndsOK
<1>. QED BY <1>2, <1>3, <1>4, <1>5, <1>6, <1>7, <1>8, <1>9, <1>10, <1>11, <1>12, <1>13, <1>14, <1>15 DEF Next

-----------------------------------------------------------------------------
(* The build in progress.                                                   *)

\* What the build that is being read returns: its pair's farms, and behind a
\* budget the planned core, unless its sizing leaves the flash loan out.
Offset == IF work.stage = "atomic" THEN Len(work.final.setup) ELSE 0
AssembledOK(A) ==
  /\ A = [ok |-> TRUE, repay |-> A.repay, coll |-> A.coll, required |-> A.required,
          hasFarms |-> A.hasFarms, setup |-> A.setup, ixs |-> A.ixs]
  /\ A.setup \in Seq(Ixs) /\ Creating(A.setup) /\ A.ixs \in Seq(Ixs)
  /\ Complete => A.required = PlanFarms /\ A.hasFarms = (PlanFarms # <<>>)
  /\ Complete /\ work.stage \in {"final", "atomic"} =>
       \E b, pre, list :
         /\ BudgetIxs(b) /\ pre \in Seq(Reserves) /\ list \in Seq(Reserves)
         /\ plan.repay \in Range(pre) /\ plan.collateral \in Range(pre)
         /\ A.ixs = b \o Core(pre, list, plan.repay, plan.collateral, work.swap, Len(b) + Offset)
         /\ read = ob /\ work.mode = "active" /\ PreMode \in {"all", "auto"} /\ Cardinality(Range(list)) <= MaxFull
              => Range(list) \subseteq Range(pre)

\* What buildFullTransaction() assembles, by the lemma on the builder.
LEMMA AssembledIs ==
  ASSUME ChainOK, ControlOK, WorkOK, pc = "build", read # None, Assembled.ok
  PROVE  AssembledOK(Assembled)
<1>. DEFINE opts == Opts(work.stage)
            A == Canonical(read, ob, missing, plan, opts)
<1>1. Assembled = A
  BY DEF Assembled
<1>2. profiles[1] \in Profile /\ (Complete /\ profiles[1].noFarms => PlanFarms = <<>>)
  <2>1. profiles \in Seq(Profile) /\ profiles # <<>>
    BY DEF ControlOK
  <2>2. 1 \in 1..Len(profiles) /\ profiles[1] \in Profile
    BY <2>1
  <2>. QED BY <2>2 DEF ControlOK
<1>3. Offset \in Nat
  BY DEF Offset, WorkOK, FinalOK
<1>4. IsOpts(opts)
  <2>1. opts.noFarms \in BOOLEAN /\ opts.omit \in BOOLEAN
    BY <1>2 DEF Opts, Profile
  <2>2. opts.swap \in {<<>>, Swap} /\ opts.flash \in BOOLEAN
    BY DEF Opts, WorkOK
  <2>3. opts.offset = Offset
    BY DEF Opts, Offset
  <2>. QED BY <1>3, <2>1, <2>2, <2>3 DEF IsOpts
<1>5. /\ opts.noFarms = profiles[1].noFarms /\ opts.mode = work.mode /\ opts.pre = PreMode /\ opts.offset = Offset
      /\ work.stage \in {"final", "atomic"} => opts.flash /\ opts.swap = work.swap
  BY DEF Opts, Offset
<1>. HIDE DEF opts
<1>6. read \in Obligations /\ ob \in Obligations /\ plan \in Plans
  BY DEF ChainOK, ControlOK
<1>7. A.ok
  BY <1>1
<1>8. IsBuild(A, read, ob, plan, opts)
  BY <1>4, <1>6, <1>7, CanonicalBuilds
<1>9. A = [ok |-> TRUE, repay |-> A.repay, coll |-> A.coll, required |-> A.required,
           hasFarms |-> A.hasFarms, setup |-> A.setup, ixs |-> A.ixs]
  BY <1>8 DEF IsBuild
<1>. HIDE DEF A
<1>10. Complete => A.repay = plan.repay /\ A.coll = plan.collateral /\ A.required = PlanFarms
  BY <1>8 DEF IsBuild, Complete, PlanFarms
<1>11. Complete => (~opts.noFarms \/ A.required = <<>>)
  BY <1>2, <1>5, <1>10
<1>12. A.setup \in Seq(Ixs) /\ Creating(A.setup) /\ A.ixs \in Seq(Ixs)
  BY <1>8 DEF IsBuild
<1>13. Complete => A.hasFarms = (PlanFarms # <<>>)
  BY <1>8, <1>10, <1>11 DEF IsBuild
<1>14. ASSUME Complete, work.stage \in {"final", "atomic"}
       PROVE  \E b, pre, list :
                /\ BudgetIxs(b) /\ pre \in Seq(Reserves) /\ list \in Seq(Reserves)
                /\ plan.repay \in Range(pre) /\ plan.collateral \in Range(pre)
                /\ A.ixs = b \o Core(pre, list, plan.repay, plan.collateral, work.swap, Len(b) + Offset)
                /\ read = ob /\ work.mode = "active" /\ PreMode \in {"all", "auto"} /\ Cardinality(Range(list)) <= MaxFull
                     => Range(list) \subseteq Range(pre)
  <2>1. PICK pre, list \in Seq(Reserves) :
          /\ A.ixs = BudgetOf(opts) \o Core(pre, list, A.repay, A.coll, opts.swap, Len(BudgetOf(opts)) + opts.offset)
          /\ A.repay \in Range(pre) /\ A.coll \in Range(pre)
          /\ read = ob /\ opts.mode = "active" /\ opts.pre \in {"all", "auto"} /\ Cardinality(Range(list)) <= MaxFull
               => Range(list) \subseteq Range(pre)
    BY <1>5, <1>8, <1>11, <1>14 DEF IsBuild
  <2>2. BudgetIxs(BudgetOf(opts))
    BY BudgetOfTyped DEF BudgetIxs
  <2>3. A.ixs = BudgetOf(opts) \o Core(pre, list, plan.repay, plan.collateral, work.swap, Len(BudgetOf(opts)) + Offset)
    BY <1>5, <1>10, <1>14, <2>1
  <2>4. /\ plan.repay \in Range(pre) /\ plan.collateral \in Range(pre)
        /\ read = ob /\ work.mode = "active" /\ PreMode \in {"all", "auto"} /\ Cardinality(Range(list)) <= MaxFull
             => Range(list) \subseteq Range(pre)
    BY <1>5, <1>10, <1>14, <2>1
  <2>. QED BY <2>2, <2>3, <2>4
<1>15. AssembledOK(A)
  BY <1>9, <1>10, <1>12, <1>13, <1>14 DEF AssembledOK
<1>. QED BY <1>1, <1>15

\* No step breaks what is known of the build under way.
LEMMA WorkStays ==
  ASSUME ChainOK, ControlOK, WorkOK, plan' = plan, [Next]_vars
  PROVE  WorkOK'
<1>. DEFINE A == Assembled
<1>1. Complete' = Complete /\ PlanFarms' = PlanFarms
  BY CompleteStays
<1>2. CASE work' = work
  <2>1. FirstOK(work)' /\ FinalOK(work)'
    BY <1>1, <1>2 DEF WorkOK, FirstOK, FinalOK
  <2>2. ResultOK(work)'
    BY <1>1, <1>2 DEF WorkOK, ResultOK
  <2>. QED BY <1>2, <2>1, <2>2 DEF WorkOK
<1>3. CASE work' = NoWork
  <2>1. /\ NoWork.stage = "initial" /\ NoWork.mode = "active" /\ NoWork.swap = <<>> /\ Shape(NoWork)
    BY DEF NoWork, Shape
  <2>. QED BY <1>3, <2>1 DEF WorkOK, FirstOK, FinalOK, ResultOK
<1>4. ASSUME Throws PROVE work' \in {work, NoWork}
  BY <1>4 DEF Throws, AfterPrebuild, Ends
<1>5. ASSUME pc = "build", read # None, A.ok PROVE AssembledOK(A)
  BY <1>5, AssembledIs
<1>6. Shape(work) /\ work.mode \in {"active", "nonDefault"} /\ work.swap \in {<<>>, Swap}
  BY DEF WorkOK
<1>7. CASE Initial /\ ~Throws
  <2>. DEFINE first == [A EXCEPT !.setup = <<>>, !.ixs = <<>>]
              stage == IF caller # "warmup" /\ Mint[A.repay] # Mint[A.coll] /\ A.setup = <<>>
                       THEN "sizing" ELSE "final"
  <2>1. AssembledOK(A)
    BY <1>5, <1>7 DEF Initial
  <2>2. work' = [work EXCEPT !.first = first, !.stage = stage]
    BY <1>7 DEF Initial
  <2>3. first.required = A.required /\ first.hasFarms = A.hasFarms
    <3>. HIDE DEF A
    <3>. QED BY <2>1 DEF AssembledOK
  <2>4. stage \in {"sizing", "final"}
    OBVIOUS
  <2>. HIDE DEF first, stage, A
  <2>5. /\ work'.stage = stage /\ work'.first = first /\ work'.mode = work.mode /\ work'.swap = work.swap /\ Shape(work')
    BY <1>6, <2>2 DEF Shape
  <2>6. Complete => first.required = PlanFarms /\ first.hasFarms = (PlanFarms # <<>>)
    BY <2>1, <2>3 DEF AssembledOK
  <2>. QED BY <1>1, <1>6, <2>4, <2>5, <2>6 DEF WorkOK, FirstOK, FinalOK, ResultOK
<1>8. ASSUME NEW answer, Sizing(answer), ~Throws PROVE WorkOK'
  <2>1. /\ work.stage = "sizing"
        /\ \/ work' = [work EXCEPT !.swap = Swap, !.stage = "final"]
           \/ work' = [work EXCEPT !.mode = "nonDefault"]
           \/ work' = [work EXCEPT !.stage = "final"]
    BY <1>8 DEF Sizing
  <2>2. /\ work'.stage \in {"sizing", "final"} /\ work'.first = work.first /\ Shape(work')
        /\ work'.mode \in {"active", "nonDefault"} /\ work'.swap \in {<<>>, Swap}
    BY <1>6, <2>1 DEF Shape
  <2>. QED BY <1>1, <2>1, <2>2 DEF WorkOK, FirstOK, FinalOK, ResultOK
<1>9. CASE Final /\ ~Throws
  <2>. DEFINE stage == IF A.setup # <<>> THEN "atomic" ELSE "built"
  <2>1. AssembledOK(A) /\ work.stage = "final"
    BY <1>5, <1>9 DEF Final
  <2>2. work' = [work EXCEPT !.final = A, !.torn = (read # ob), !.stage = stage, !.atomic = A.ixs]
    BY <1>9 DEF Final
  <2>. HIDE DEF A, stage
  <2>3. /\ work'.stage = stage /\ work'.first = work.first /\ work'.mode = work.mode /\ work'.swap = work.swap
        /\ work'.final = A /\ work'.torn = (read # ob) /\ work'.atomic = A.ixs /\ Shape(work')
    BY <1>6, <2>2 DEF Shape
  <2>4. stage \in {"atomic", "built"} /\ (stage = "atomic" <=> A.setup # <<>>)
    BY DEF stage
  <2>5. FirstOK(work)'
    BY <1>1, <2>1, <2>3 DEF WorkOK, FirstOK
  <2>6. FinalOK(work)'
    BY <1>1, <2>1, <2>3, <2>4 DEF FinalOK, AssembledOK
  <2>7. ResultOK(work)'
    <3>1. SUFFICES ASSUME stage = "built" PROVE ResultOK(work)'
      BY <2>3 DEF ResultOK
    <3>2. A.setup = <<>> /\ Result(work)' = A.ixs /\ A.ixs \in Seq(Ixs)
      BY <2>1, <2>3, <2>4, <3>1 DEF Result, AssembledOK
    <3>3. ASSUME Complete
          PROVE  \E b, pre, list : Planned(plan, A.ixs, <<>>, b, pre, list, work.swap) /\ Fresh(work', pre, list)
      <4>1. PICK b, pre, list :
              /\ BudgetIxs(b) /\ pre \in Seq(Reserves) /\ list \in Seq(Reserves)
              /\ plan.repay \in Range(pre) /\ plan.collateral \in Range(pre)
              /\ A.ixs = b \o Core(pre, list, plan.repay, plan.collateral, work.swap, Len(b) + 0)
              /\ read = ob /\ work.mode = "active" /\ PreMode \in {"all", "auto"} /\ Cardinality(Range(list)) <= MaxFull
                   => Range(list) \subseteq Range(pre)
        BY <2>1, <3>3 DEF AssembledOK, Offset
      <4>2. b \in Seq(Ixs) /\ Len(b) \in Nat
        BY <4>1 DEF BudgetIxs
      <4>3. Len(b) + 0 = Len(<<>>) + Len(b) /\ <<>> \o b = b
        BY <4>2
      <4>4. A.ixs = (<<>> \o b) \o Core(pre, list, plan.repay, plan.collateral, work.swap, Len(<<>>) + Len(b))
        BY <4>1, <4>3, Zenon
      <4>5. Planned(plan, A.ixs, <<>>, b, pre, list, work.swap)
        BY <1>6, <4>1, <4>4, Zenon DEF Planned
      <4>6. Fresh(work', pre, list)
        BY <2>3, <4>1 DEF Fresh
      <4>. QED BY <4>5, <4>6
    <3>. QED BY <1>1, <2>3, <3>2, <3>3 DEF ResultOK
  <2>. QED BY <1>6, <2>3, <2>5, <2>6, <2>7 DEF WorkOK
<1>10. CASE Atomic /\ ~Throws
  <2>. DEFINE s == work.final.setup
  <2>1. AssembledOK(A) /\ work.stage = "atomic"
    BY <1>5, <1>10 DEF Atomic
  <2>2. work' = [work EXCEPT !.stage = "built", !.torn = (read # ob), !.atomic = work.final.setup \o A.ixs]
    BY <1>10 DEF Atomic
  <2>. HIDE DEF A
  <2>3. /\ work'.stage = "built" /\ work'.first = work.first /\ work'.mode = work.mode /\ work'.swap = work.swap
        /\ work'.final = work.final /\ work'.torn = (read # ob) /\ work'.atomic = s \o A.ixs /\ Shape(work')
    BY <1>6, <2>2 DEF Shape
  <2>4. s \in Seq(Ixs) /\ Creating(s) /\ s # <<>> /\ A.ixs \in Seq(Ixs)
    BY <2>1 DEF WorkOK, FinalOK, AssembledOK
  <2>. HIDE DEF s
  <2>5. FirstOK(work)'
    BY <1>1, <2>1, <2>3 DEF WorkOK, FirstOK
  <2>6. FinalOK(work)'
    BY <1>1, <2>1, <2>3, <2>4 DEF WorkOK, FinalOK, s
  <2>7. s \o A.ixs \in Seq(Ixs)
    BY <2>4
  <2>8. Result(work)' = s \o A.ixs /\ work'.final.setup = s
    BY <2>3, <2>4 DEF Result, s
  <2>9. ASSUME Complete
        PROVE  \E b, pre, list : Planned(plan, s \o A.ixs, s, b, pre, list, work.swap) /\ Fresh(work', pre, list)
    <3>1. PICK b, pre, list :
            /\ BudgetIxs(b) /\ pre \in Seq(Reserves) /\ list \in Seq(Reserves)
            /\ plan.repay \in Range(pre) /\ plan.collateral \in Range(pre)
            /\ A.ixs = b \o Core(pre, list, plan.repay, plan.collateral, work.swap, Len(b) + Len(s))
            /\ read = ob /\ work.mode = "active" /\ PreMode \in {"all", "auto"} /\ Cardinality(Range(list)) <= MaxFull
                 => Range(list) \subseteq Range(pre)
      BY <2>1, <2>9 DEF AssembledOK, Offset, s
    <3>. DEFINE core == Core(pre, list, plan.repay, plan.collateral, work.swap, Len(s) + Len(b))
    <3>2. b \in Seq(Ixs) /\ Len(b) \in Nat /\ Len(s) \in Nat /\ Len(b) + Len(s) = Len(s) + Len(b)
      BY <2>4, <3>1 DEF BudgetIxs
    <3>3. A.ixs = b \o core
      BY <3>1, <3>2, Zenon
    <3>4. core \in Seq(Ixs)
      <4>1. plan.repay \in Reserves /\ plan.collateral \in Reserves
        BY <2>9, PlansAssumption DEF Complete, ChainOK
      <4>2. IsCore(core, pre, list, plan.repay, plan.collateral, Len(s) + Len(b), Len(pre),
                   Len(FarmModes(plan.repay, plan.collateral)), Len(work.swap))
        <5>1. Len(s) + Len(b) \in Nat
          BY <3>2
        <5>. QED BY <1>6, <3>1, <4>1, <5>1, CoreLayout, Zenon
      <4>. HIDE DEF core
      <4>. QED BY <4>2 DEF IsCore
    <3>. HIDE DEF core
    <3>5. s \o A.ixs = (s \o b) \o core
      <4>1. Joined(Joined(s, b), core) = Joined(s, Joined(b, core))
        BY <2>4, <3>2, <3>4, JoinedAssociates
      <4>2. Joined(s, A.ixs) = Joined(Joined(s, b), core)
        BY <3>3, <4>1, Zenon DEF Joined
      <4>. QED BY <4>2, Zenon DEF Joined
    <3>6. Planned(plan, s \o A.ixs, s, b, pre, list, work.swap)
      BY <1>6, <3>1, <3>5, Zenon DEF Planned, core
    <3>7. Fresh(work', pre, list)
      BY <2>3, <3>1 DEF Fresh
    <3>. QED BY <3>6, <3>7
  <2>10. ResultOK(work)'
    BY <1>1, <2>3, <2>7, <2>8, <2>9 DEF ResultOK
  <2>. QED BY <1>6, <2>3, <2>5, <2>6, <2>10 DEF WorkOK
<1>. QED BY <1>2, <1>3, <1>4, <1>7, <1>8, <1>9, <1>10, WorkMoves

-----------------------------------------------------------------------------
(* The presubmitter's transaction, the sizes and windows seen, and what is   *)
(* sent.                                                                    *)

LEMMA CompleteIsPair ==
  ASSUME ChainOK, Complete
  PROVE  Pair(plan)
BY PlansAssumption DEF ChainOK, Complete, Pair

\* The transaction a finished build would send is one whose layout is known.
LEMMA ResultKept ==
  ASSUME WorkOK, work.stage = "built"
  PROVE  KeptOK(CandidateIxs) /\ CandidateIxs = Result(work)
<1>1. CandidateIxs = Result(work)
  BY DEF CandidateIxs, Result
<1>2. CandidateIxs \in Seq(Ixs)
  BY DEF WorkOK, FinalOK, ResultOK, CandidateIxs
<1>3. ASSUME Complete PROVE Framed(plan, CandidateIxs)
  <2>. DEFINE s == work.final.setup
  <2>1. PICK b, pre, list, swap : Planned(plan, Result(work), s, b, pre, list, swap)
    BY <1>3 DEF WorkOK, ResultOK
  <2>2. s \in Seq(Ixs) /\ Creating(s) /\ BudgetIxs(b)
    BY <2>1 DEF WorkOK, FinalOK, Planned
  <2>. HIDE DEF s
  <2>3. IsHead(s \o b) /\ Len(s) \in Nat /\ Len(b) \in 0..2
    BY <2>2, HeadOf
  <2>4. Len(s) + Len(b) \in Nat
    BY <2>3
  <2>. DEFINE head == s \o b
              index == Len(s) + Len(b)
  <2>5. /\ IsHead(head) /\ pre \in Seq(Reserves) /\ list \in Seq(Reserves) /\ swap \in {<<>>, Swap} /\ index \in Nat
        /\ Result(work) = head \o Core(pre, list, plan.repay, plan.collateral, swap, index)
    BY <2>1, <2>3, <2>4 DEF Planned
  <2>. HIDE DEF head, index
  <2>. QED BY <1>1, <2>5, Zenon DEF Framed
<1>. QED BY <1>1, <1>2, <1>3 DEF KeptOK

\* No step breaks what is known of the presubmitter's cached transaction.
LEMMA PresubmittedStays ==
  ASSUME WorkOK, PresubmittedOK, plan' = plan, [Next]_vars
  PROVE  PresubmittedOK'
<1>1. \A ixs : KeptOK(ixs) => (ixs \in Seq(Ixs) /\ (Complete' => Framed(plan', ixs)))
  BY CompleteStays DEF KeptOK
<1>2. CASE UNCHANGED <<entry, cached>>
  BY <1>1, <1>2 DEF PresubmittedOK, KeptOK
<1>. DEFINE CachedGood == cached' # None => KeptOK(cached')
            EntryGood == entry' # None => /\ entry'.mode \in {"main", "atomic", "partial"}
                                          /\ entry'.mode = "atomic" => KeptOK(entry'.ixs)
<1>3. CachedGood /\ EntryGood => PresubmittedOK'
  BY <1>1 DEF PresubmittedOK, KeptOK
<1>4. entry' \in {entry, None} => EntryGood
  BY DEF PresubmittedOK
<1>5. cached' \in {cached, None} => CachedGood
  BY DEF PresubmittedOK
<1>6. CASE GetOrBuild
  <2>1. entry' = entry
    BY <1>6 DEF GetOrBuild
  <2>2. cached' \in {cached, None} \/ (entry # None /\ cached' = IF entry.mode = "atomic" THEN entry.ixs ELSE None)
    BY <1>6 DEF GetOrBuild, AfterPrebuild, Ends
  <2>3. CachedGood
    BY <1>5, <2>2 DEF PresubmittedOK
  <2>. QED BY <1>3, <1>4, <2>1, <2>3
<1>7. CASE PresubmitDecides
  <2>. DEFINE mode == IF work.final.setup # <<>> /\ ~SwapReady THEN "partial"
                      ELSE IF work.final.setup # <<>> THEN "atomic" ELSE "main"
              ixs == IF mode = "atomic" THEN work.atomic ELSE work.final.ixs
  <2>1. mode \in {"main", "atomic", "partial"}
    OBVIOUS
  <2>2. mode = "atomic" => KeptOK(ixs)
    <3>1. mode = "atomic" => ixs = CandidateIxs
      BY DEF CandidateIxs
    <3>2. work.stage = "built"
      BY <1>7 DEF PresubmitDecides, Built
    <3>. HIDE DEF mode, ixs
    <3>. QED BY <3>1, <3>2, ResultKept
  <2>3. \/ entry' = entry /\ cached' \in {cached, None}
        \/ /\ entry' = [mode |-> mode, ixs |-> IF mode = "atomic" THEN ixs ELSE <<>>]
           /\ cached' \in {cached, None, IF mode = "atomic" THEN ixs ELSE None}
    BY <1>7 DEF PresubmitDecides, NextProfile, Throws, AfterPrebuild, Begins, Ends
  <2>. HIDE DEF mode, ixs
  <2>4. CachedGood
    BY <1>5, <2>2, <2>3
  <2>5. EntryGood
    BY <1>4, <2>1, <2>2, <2>3
  <2>. QED BY <1>3, <2>4, <2>5
<1>8. CASE ~GetOrBuild /\ ~PresubmitDecides
  BY <1>3, <1>4, <1>5, <1>8, CachedMoves
<1>. QED BY <1>6, <1>7, <1>8

\* What the window check says of a planned transaction.
LEMMA FramedWindow ==
  ASSUME NEW p, Pair(p), NEW ixs, Framed(p, ixs)
  PROVE  LET k == FarmCount(p)
         IN /\ ValidWindow(ixs, k # 0, k # 0) => k <= 1
            /\ (Position(ixs, "refreshFarms") # -1) = (k # 0)
            /\ (KindAt(ixs, Position(ixs, "liquidate") + 2) = "refreshFarms") = (k # 0)
<1>1. PICK head, pre, list, swap, index :
        /\ IsHead(head) /\ pre \in Seq(Reserves) /\ list \in Seq(Reserves) /\ swap \in {<<>>, Swap} /\ index \in Nat
        /\ ixs = head \o Core(pre, list, p.repay, p.collateral, swap, index)
  BY DEF Framed
<1>. DEFINE core == Core(pre, list, p.repay, p.collateral, swap, index)
<1>2. p.repay \in Reserves /\ p.collateral \in Reserves
  BY DEF Pair
<1>3. IsTail(<<>>)
  BY TipTyped
<1>4. Positions(head \o core \o <<>>, head, <<>>, pre, list, p.repay, p.collateral, index,
                Len(head), Len(pre), FarmCount(p), Len(swap))
  BY <1>1, <1>2, <1>3, FramePositions, Zenon DEF FarmCount
<1>5. head \o core \o <<>> = ixs
  <2>1. IsCore(core, pre, list, p.repay, p.collateral, index, Len(pre), Len(FarmModes(p.repay, p.collateral)), Len(swap))
    BY <1>1, <1>2, CoreLayout, Zenon
  <2>2. head \in Seq(Ixs) /\ ixs = head \o core
    BY <1>1 DEF IsHead
  <2>. HIDE DEF core
  <2>3. core \in Seq(Ixs)
    BY <2>1 DEF IsCore
  <2>4. ixs \in Seq(Ixs)
    BY <2>2, <2>3
  <2>5. ixs \o <<>> = ixs
    BY <2>4, ConcatEmptySeq
  <2>. QED BY <2>2, <2>5
<1>. HIDE DEF core
<1>. DEFINE h == Len(head)
            n == Len(pre)
            k == FarmCount(p)
            w == Len(swap)
<1>6. Positions(ixs, head, <<>>, pre, list, p.repay, p.collateral, index, h, n, k, w)
  BY <1>4, <1>5
<1>. HIDE DEF h, n, k, w
<1>7. /\ ValidWindow(ixs, k # 0, k # 0) => k <= 1
      /\ (Position(ixs, "refreshFarms") # -1) = (k # 0)
      /\ (KindAt(ixs, Position(ixs, "liquidate") + 2) = "refreshFarms") = (k # 0)
  BY <1>3, <1>6, WindowStands
<1>. QED BY <1>7 DEF k

\* A valid window in the transaction under validation leaves room for one farm
\* at most, whether the cached transaction or the built one was looked at.
LEMMA WindowSeen ==
  ASSUME ChainOK, ControlOK, WorkOK, PresubmittedOK, pc = "validate", work.final.setup = <<>>,
         ValidWindow(IF cached = None THEN work.final.ixs ELSE cached, HasFarms, RequiresPost)
  PROVE  FarmCount(plan) <= 1
<1>. DEFINE ixs == IF cached = None THEN work.final.ixs ELSE cached
            k == FarmCount(plan)
<1>1. Complete /\ work.stage = "built" /\ Pair(plan)
  BY CompleteIsPair DEF ControlOK
<1>2. Framed(plan, ixs)
  <2>1. KeptOK(CandidateIxs) /\ CandidateIxs = work.final.ixs
    BY <1>1, ResultKept DEF CandidateIxs
  <2>. QED BY <1>1, <2>1 DEF PresubmittedOK, KeptOK
<1>3. (PlanFarms # <<>>) = (k # 0)
  <2>1. PlanFarms \in Seq({0, 1})
    BY <1>1, FarmsTyped DEF PlanFarms, Pair
  <2>. QED BY <2>1 DEF FarmCount, PlanFarms
<1>4. /\ work.first.required = PlanFarms /\ work.first.hasFarms = (k # 0) /\ work.final.hasFarms = (k # 0)
  BY <1>1, <1>3 DEF WorkOK, FirstOK, FinalOK
<1>5. /\ ValidWindow(ixs, k # 0, k # 0) => k <= 1
      /\ (Position(ixs, "refreshFarms") # -1) = (k # 0)
      /\ (KindAt(ixs, Position(ixs, "liquidate") + 2) = "refreshFarms") = (k # 0)
  BY <1>1, <1>2, FramedWindow
<1>6. HasFarms = (k # 0) /\ RequiresPost = (k # 0)
  <2>1. CASE cached = None
    BY <1>3, <1>4, <2>1 DEF HasFarms, RequiresPost
  <2>2. CASE cached # None
    <3>1. ixs = cached
      BY <2>2
    <3>. QED BY <1>3, <1>4, <1>5, <2>2, <3>1 DEF HasFarms, RequiresPost
  <2>. QED BY <2>1, <2>2
<1>. QED BY <1>5, <1>6

\* From the size check to the send the transaction is not too large.
LEMMA SizedStays ==
  ASSUME ChainOK, ControlOK, WorkOK, PresubmittedOK, SizedOK, plan' = plan, [Next]_vars
  PROVE  SizedOK'
<1>. USE DEF Goto
<1>1. CASE pc' \notin {"simulate", "validate", "send"}
  BY <1>1 DEF SizedOK
<1>2. FarmCount(plan)' = FarmCount(plan) /\ (work' = work => CandidateIxs' = CandidateIxs)
  BY DEF FarmCount, CandidateIxs
<1>3. CASE UNCHANGED <<pc, work, lut>>
  BY <1>2, <1>3 DEF SizedOK
<1>4. ASSUME ~TooLarge(CandidateIxs, lut), Taken, UNCHANGED lutVars PROVE SizedOK'
  BY <1>2, <1>4 DEF Taken, lutVars, SizedOK
<1>5. ASSUME Ends \/ Throws \/ NextProfile \/ AfterPrebuild PROVE pc' \notin {"simulate", "validate", "send"}
  BY <1>5 DEF Ends, Throws, NextProfile, AfterPrebuild, Begins
<1>6. CASE Tick \/ Created \/ Loads \/ WarmsUp \/ GetOrBuild \/ WarmupCollects \/ PresubmitDecides \/ Crash
  BY <1>1, <1>5, <1>6 DEF Tick, Created, Loads, WarmsUp, GetOrBuild, WarmupCollects, PresubmitDecides, Crash, Begins
<1>7. CASE ReadsObligation \/ Initial \/ Final \/ Atomic \/ \E answer : Sizing(answer)
  <2>1. pc = "build" /\ (pc' = pc \/ Throws)
    BY <1>7 DEF ReadsObligation, Initial, Final, Atomic, Sizing
  <2>. QED BY <1>1, <1>5, <2>1
<1>8. CASE ExecutorSizes
  BY <1>1, <1>4, <1>5, <1>8 DEF ExecutorSizes, Chosen
<1>9. CASE Extends
  BY <1>1, <1>5, <1>9 DEF Extends, tickVars
<1>10. CASE Extended
  BY <1>1, <1>4, <1>5, <1>10 DEF Extended, Chosen
<1>11. CASE SimulatesAtomic
  <2>1. CASE Ends
    BY <1>1, <1>5, <2>1
  <2>2. CASE pc = "simulate" /\ pc' = "send" /\ UNCHANGED <<work, lut>>
    BY <1>2, <2>2 DEF SizedOK
  <2>. QED BY <1>11, <2>1, <2>2 DEF SimulatesAtomic, lutVars
<1>12. CASE Validates
  <2>1. CASE Ends
    BY <1>1, <1>5, <2>1
  <2>2. CASE ~Ends
    <3>1. pc = "validate" /\ pc' = "send" /\ UNCHANGED <<work, lut>> /\ work.final.setup = <<>>
      BY <1>12, <2>2 DEF Validates, lutVars, SizedOK
    <3>2. FarmCount(plan) <= 1
      BY <1>12, <2>2, <3>1, WindowSeen DEF Validates
    <3>. QED BY <1>2, <3>1, <3>2 DEF SizedOK
  <2>. QED BY <2>1, <2>2
<1>13. CASE Sends \/ Sent
  BY <1>1, <1>3, <1>5, <1>13 DEF Sends, Sent, lutVars
<1>14. CASE ChainMoves \/ UNCHANGED vars
  BY <1>3, <1>14 DEF ChainMoves, vars, tickVars, lutVars
<1>. QED BY <1>6, <1>7, <1>8, <1>9, <1>10, <1>11, <1>12, <1>13, <1>14 DEF Next

\* No step but a send changes what was sent.
LEMMA OutStays ==
  ASSUME OutOK, [Next]_vars
  PROVE  OutOK'
<1>1. CASE out' = None
  BY <1>1 DEF OutOK
<1>2. CASE Sends
  <2>1. pc' = "send" /\ Attempt <= MaxAttempts /\ CandidateIxs' = CandidateIxs
    BY <1>2 DEF Sends, CandidateIxs
  <2>2. PICK price : out' = [attempt |-> Attempt, price |-> price, ixs |-> Rebuilt(CandidateIxs, price)]
    BY <1>2 DEF Sends
  <2>3. Attempt \in 1..MaxAttempts
    BY <2>1, LimitsAssumption DEF Attempt, OutOK
  <2>4. Rebuilt(CandidateIxs, price)' = Rebuilt(CandidateIxs, price)
    BY <2>1 DEF Rebuilt
  <2>. QED BY <2>1, <2>2, <2>3 DEF OutOK
<1>3. CASE UNCHANGED tickVars
  <2>1. CandidateIxs' = CandidateIxs /\ out' = out /\ pc' = pc
    BY <1>3 DEF CandidateIxs, tickVars
  <2>. QED BY <2>1 DEF OutOK
<1>. QED BY <1>1, <1>2, <1>3, OutMoves

-----------------------------------------------------------------------------
(* The theorems.                                                            *)

LEMMA IInvInit == Init => IInv
<1>. SUFFICES ASSUME Init PROVE IInv
  OBVIOUS
<1>1. /\ <<>> \in Seq(Reserves) /\ <<>> \in Seq(Profile) /\ Len(<<>>) = 0 /\ MaxAddresses \in Nat
      /\ \A i \in 1..Len(<<>>) : FALSE
  BY MaxAddressesAssumption
<1>2. ChainOK
  BY DEF Init, ChainOK
<1>3. LutOK
  <2>1. /\ chainLut \in {NoTable, <<>>} /\ saved = (chainLut # NoTable) /\ lut = NoTable /\ todo = <<>>
        /\ preLut = None /\ pc = "idle"
    BY DEF Init, LutInit
  <2>2. Table(chainLut) = <<>> /\ Table(lut) = <<>> /\ saved \in BOOLEAN
    BY <2>1 DEF Table
  <2>3. chainLut \in Tables /\ lut \in Tables
    BY <1>1, <2>1 DEF Tables
  <2>4. Len(Table(lut)) + Len(todo) = 0 /\ Len(Table(chainLut)) = 0
    BY <1>1, <2>1, <2>2
  <2>5. saved => chainLut # NoTable
    BY <2>1, Zenon
  <2>. QED BY <1>1, <2>1, <2>2, <2>3, <2>4, <2>5 DEF LutOK
<1>4. ControlOK
  BY <1>1 DEF Init, ControlOK, Places, Callers
<1>5. WorkOK
  BY DEF Init, NoWork, WorkOK, Shape, FirstOK, FinalOK, ResultOK
<1>6. PresubmittedOK /\ SizedOK /\ OutOK
  BY DEF Init, PresubmittedOK, SizedOK, OutOK
<1>. QED BY <1>2, <1>3, <1>4, <1>5, <1>6 DEF IInv

\* The inductive step.
LEMMA IInvNext == IInv /\ [Next]_vars => IInv'
<1>. SUFFICES ASSUME IInv, [Next]_vars PROVE IInv'
  OBVIOUS
<1>1. ChainOK /\ LutOK /\ ControlOK /\ WorkOK /\ PresubmittedOK /\ SizedOK /\ OutOK
  BY DEF IInv
<1>2. ChainOK' /\ plan' = plan
  BY <1>1, ChainStays
<1>3. LutOK'
  BY <1>1, LutStays
<1>4. ControlOK'
  BY <1>1, <1>2, ControlStays
<1>5. WorkOK'
  BY <1>1, <1>2, WorkStays
<1>6. PresubmittedOK'
  BY <1>1, <1>2, PresubmittedStays
<1>7. SizedOK'
  BY <1>1, <1>2, SizedStays
<1>8. OutOK'
  BY <1>1, OutStays
<1>. QED BY <1>2, <1>3, <1>4, <1>5, <1>6, <1>7, <1>8 DEF IInv

\* The inductive invariant holds throughout every tick.
THEOREM Inductive == Spec => []IInv
BY IInvInit, IInvNext, PTL DEF Spec

\* What is sent: the planned core, behind the accounts it creates and a budget
\* that replaced the one it was built and sized with.
SentIs(s, b, b2, pre, list, swap) ==
  /\ s = work.final.setup /\ s \in Seq(Ixs) /\ Creating(s) /\ BudgetIxs(b) /\ BudgetIxs(b2)
  /\ (b = <<>> => b2 = <<>>) /\ (b # <<>> => Len(b2) \in 1..2)
  /\ Planned(plan, CandidateIxs, s, b, pre, list, swap) /\ Fresh(work, pre, list)
  /\ out.ixs = ((s \o b2) \o Core(pre, list, plan.repay, plan.collateral, swap, Len(s) + Len(b))) \o Tip

\* The layout of whatever was sent, from which the properties of the sent
\* transaction follow.
LEMMA SentLayout ==
  ASSUME IInv, out # None
  PROVE  \E s, b, b2, pre, list, swap :
           /\ SentIs(s, b, b2, pre, list, swap)
           /\ Positions(out.ixs, s \o b2, Tip, pre, list, plan.repay, plan.collateral, Len(s) + Len(b),
                        Len(s \o b2), Len(pre), FarmCount(plan), Len(swap))
<1>. DEFINE s == work.final.setup
<1>1. /\ ChainOK /\ Complete /\ work.stage = "built" /\ WorkOK /\ OutOK
  BY DEF IInv, OutOK, ControlOK
<1>2. Pair(plan) /\ CandidateIxs = Result(work)
  BY <1>1, CompleteIsPair, ResultKept
<1>3. PICK b, pre, list, swap : Planned(plan, Result(work), s, b, pre, list, swap) /\ Fresh(work, pre, list)
  BY <1>1 DEF WorkOK, ResultOK
<1>4. s \in Seq(Ixs) /\ Creating(s)
  BY <1>1 DEF WorkOK, FinalOK
<1>5. PICK price : out.ixs = Rebuilt(CandidateIxs, price)
  BY <1>1 DEF OutOK
<1>6. PICK b2 :
                /\ BudgetIxs(b2) /\ (b = <<>> => b2 = <<>>) /\ (b # <<>> => Len(b2) \in 1..2)
                /\ Rebuilt(CandidateIxs, price) =
                     ((s \o b2) \o Core(pre, list, plan.repay, plan.collateral, swap, Len(s) + Len(b))) \o Tip
  <2>1. Planned(plan, CandidateIxs, s, b, pre, list, swap)
    BY <1>2, <1>3
  <2>2. IsRebuilt(Rebuilt(CandidateIxs, price), plan, s, b, pre, list, swap)
    <3>. HIDE DEF s
    <3>. QED BY <1>2, <1>4, <2>1, RebuiltLayout, Zenon
  <2>. QED BY <2>2 DEF IsRebuilt
<1>7. /\ BudgetIxs(b) /\ pre \in Seq(Reserves) /\ list \in Seq(Reserves) /\ swap \in {<<>>, Swap}
  BY <1>3 DEF Planned
<1>8. SentIs(s, b, b2, pre, list, swap)
  <2>1. Planned(plan, CandidateIxs, s, b, pre, list, swap)
    BY <1>2, <1>3
  <2>2. out.ixs = ((s \o b2) \o Core(pre, list, plan.repay, plan.collateral, swap, Len(s) + Len(b))) \o Tip
    BY <1>5, <1>6
  <2>. QED BY <1>3, <1>4, <1>6, <1>7, <2>1, <2>2, Zenon DEF SentIs
<1>. HIDE DEF s
<1>9. Len(s) + Len(b) \in Nat
  <2>1. Len(s) \in Nat /\ Len(b) \in 0..2
    BY <1>4, <1>7, HeadOf
  <2>. QED BY <2>1
<1>10. IsTail(Tip)
  BY TipTyped
<1>11. Positions(out.ixs, s \o b2, Tip, pre, list, plan.repay, plan.collateral, Len(s) + Len(b),
                 Len(s \o b2), Len(pre), FarmCount(plan), Len(swap))
  <2>. DEFINE index == Len(s) + Len(b)
  <2>1. out.ixs = ((s \o b2) \o Core(pre, list, plan.repay, plan.collateral, swap, index)) \o Tip
    BY <1>5, <1>6
  <2>2. index \in Nat
    BY <1>9
  <2>. HIDE DEF index
  <2>3. Positions(((s \o b2) \o Core(pre, list, plan.repay, plan.collateral, swap, index)) \o Tip, s \o b2, Tip,
                  pre, list, plan.repay, plan.collateral, index, Len(s \o b2), Len(pre), FarmCount(plan), Len(swap))
    BY <1>2, <1>4, <1>6, <1>7, <1>10, <2>2, FramedPositions, Zenon
  <2>. QED BY <2>1, <2>3, Zenon DEF index
<1>. QED BY <1>8, <1>11, Zenon

\* The instructions of a typed list are instructions.
LEMMA IxsAreIx ==
  ASSUME NEW ixs \in Seq(Ixs), NEW i \in DOMAIN ixs
  PROVE  IsIx(ixs[i])
<1>1. ixs[i] \in Ixs
  OBVIOUS
<1>2. ixs[i].index \in Nat /\ ixs[i].reserves \in Seq(Reserves)
  BY <1>1 DEF Ixs
<1>3. \A q \in Seq(Reserves) : Range(q) \subseteq Reserves
  BY DEF Range
<1>. QED BY <1>2, <1>3 DEF IsIx

\* Plans, tables, builds and what is sent keep their types and bounds: a table
\* is never extended past its limit.
THEOREM TypeCorrect == Spec => []TypeOK
<1>1. IInv => TypeOK
  <2>. SUFFICES ASSUME IInv PROVE TypeOK
    OBVIOUS
  <2>1. ChainOK /\ LutOK /\ ControlOK /\ PresubmittedOK /\ OutOK
    BY DEF IInv
  <2>2. /\ ob \in Obligations /\ missing \subseteq AtaNames /\ plan \in Plans /\ price0 \in Prices
        /\ pc \in Places /\ caller \in Callers /\ (pc = "build" => profiles # <<>>)
        /\ read \in Obligations \union {None} /\ warmed \in BOOLEAN /\ saved \in BOOLEAN
        /\ entry # None => entry.mode \in {"main", "atomic", "partial"}
    BY <2>1 DEF ChainOK, ControlOK, LutOK, PresubmittedOK
  <2>3. Range(profiles) \subseteq Profile
    <3>1. \A q \in Seq(Profile) : Range(q) \subseteq Profile
      BY DEF Range
    <3>. QED BY <2>1, <3>1 DEF ControlOK
  <2>4. cached # None => \A i \in DOMAIN cached : IsIx(cached[i])
    <3>1. cached # None => cached \in Seq(Ixs)
      BY <2>1 DEF PresubmittedOK, KeptOK
    <3>. QED BY <3>1, IxsAreIx
  <2>5. ASSUME out # None PROVE out.attempt \in 1..MaxAttempts /\ \A i \in DOMAIN out.ixs : IsIx(out.ixs[i])
    <3>1. out.ixs \in Seq(Ixs)
      BY <2>5, SentLayout DEF Positions
    <3>. QED BY <2>1, <2>5, <3>1, IxsAreIx DEF OutOK
  <2>6. \A copy \in {chainLut, lut, preLut} : Range(Table(copy)) \subseteq Reserves
    <3>1. \A q \in Seq(Reserves) : Range(q) \subseteq Reserves
      BY DEF Range
    <3>2. Table(None) \in Seq(Reserves)
      BY DEF Table
    <3>3. \A copy \in {chainLut, lut, preLut} : Table(copy) \in Seq(Reserves)
      BY <2>1, <3>2, TableIs DEF LutOK
    <3>. QED BY <3>1, <3>3
  <2>7. Len(Table(lut) \o todo) <= MaxAddresses /\ Len(Table(chainLut)) <= MaxAddresses
    <3>1. Table(lut) \in Seq(Reserves) /\ todo \in Seq(Reserves)
      BY <2>1, TableIs DEF LutOK
    <3>2. Len(Table(lut) \o todo) = Len(Table(lut)) + Len(todo)
      BY <3>1, PartsDiffer
    <3>. QED BY <2>1, <3>2 DEF LutOK
  <2>. QED BY <2>2, <2>3, <2>4, <2>5, <2>6, <2>7 DEF TypeOK, Places, Callers
<1>. QED BY <1>1, Inductive, PTL

\* The file never names a table that is not there.
THEOREM TableExists == Spec => []SavedIsOnChain
<1>1. IInv => SavedIsOnChain
  BY DEF IInv, LutOK, SavedIsOnChain
<1>. QED BY <1>1, Inductive, PTL

\* Every transaction liquidates the planned pair, whatever the builds read.
THEOREM PlannedPair == Spec => []PlannedPairOnly
<1>1. IInv => PlannedPairOnly
  <2>. SUFFICES ASSUME IInv, out # None
                PROVE  out.ixs[Position(out.ixs, "liquidate") + 1].reserves = <<plan.repay, plan.collateral>>
    BY DEF PlannedPairOnly
  <2>1. PICK s, b, b2, pre, list, swap :
          Positions(out.ixs, s \o b2, Tip, pre, list, plan.repay, plan.collateral, Len(s) + Len(b),
                    Len(s \o b2), Len(pre), FarmCount(plan), Len(swap))
    BY SentLayout
  <2>. QED BY <2>1, PairStands
<1>. QED BY <1>1, Inductive, PTL

\* Every farm of the planned pair is refreshed on both sides.
THEOREM FarmsKept == Spec => []FarmsNeverDropped
<1>1. IInv => FarmsNeverDropped
  <2>. DEFINE liq == Position(out.ixs, "liquidate") + 1
              farms == FarmModes(plan.repay, plan.collateral)
              there(from) == [i \in DOMAIN farms |-> KindAt(out.ixs, from + i)]
              k == FarmCount(plan)
  <2>. SUFFICES ASSUME IInv, out # None, NEW i \in DOMAIN farms
                PROVE  there(liq)[i] = "refreshFarms" /\ there(liq - Len(farms) - 1)[i] = "refreshFarms"
    BY DEF FarmsNeverDropped
  <2>1. PICK s, b, b2, pre, list, swap :
          Positions(out.ixs, s \o b2, Tip, pre, list, plan.repay, plan.collateral, Len(s) + Len(b),
                    Len(s \o b2), Len(pre), k, Len(swap))
    BY SentLayout
  <2>2. Pair(plan)
    BY CompleteIsPair DEF IInv, OutOK, ControlOK
  <2>3. DOMAIN farms = 1..k /\ Len(farms) = k
    <3>1. farms \in Seq({0, 1})
      BY <2>2, FarmsTyped DEF Pair
    <3>. HIDE DEF farms
    <3>2. DOMAIN farms = 1..Len(farms)
      BY <3>1
    <3>3. Len(farms) = k
      BY DEF farms, FarmCount
    <3>. QED BY <3>2, <3>3
  <2>. HIDE DEF k, farms
  <2>4. KindAt(out.ixs, liq + i) = "refreshFarms" /\ KindAt(out.ixs, liq - k - 1 + i) = "refreshFarms"
    BY <2>1, <2>3, TipTyped, FarmsStand
  <2>. QED BY <2>3, <2>4
<1>. QED BY <1>1, Inductive, PTL

\* A rebuilt transaction outgrows the limit by its budget and tip alone.
THEOREM SizeKept == Spec => []OversizeIsBudgetOrTip
<1>1. IInv => OversizeIsBudgetOrTip
  <2>. SUFFICES ASSUME IInv, out # None
                PROVE  Bytes(out.ixs, Table(lut)) <= Limit + (Len(out.ixs) - Len(CandidateIxs))
    BY DEF OversizeIsBudgetOrTip
  <2>1. PICK s, b, b2, pre, list, swap : SentIs(s, b, b2, pre, list, swap)
    BY SentLayout
  <2>. DEFINE core == Core(pre, list, plan.repay, plan.collateral, swap, Len(s) + Len(b))
  <2>2. /\ s \in Seq(Ixs) /\ Creating(s) /\ BudgetIxs(b) /\ BudgetIxs(b2)
        /\ CandidateIxs = (s \o b) \o core /\ out.ixs = ((s \o b2) \o core) \o Tip
        /\ pre \in Seq(Reserves) /\ list \in Seq(Reserves) /\ swap \in {<<>>, Swap}
    BY <2>1 DEF SentIs, Planned
  <2>3. core \in Seq(Ixs)
    <3>1. Len(s) + Len(b) \in Nat
      BY <2>2, HeadOf
    <3>2. plan.repay \in Reserves /\ plan.collateral \in Reserves
      BY CompleteIsPair DEF IInv, OutOK, ControlOK, Pair
    <3>3. IsCore(core, pre, list, plan.repay, plan.collateral, Len(s) + Len(b), Len(pre),
                 Len(FarmModes(plan.repay, plan.collateral)), Len(swap))
      BY <2>2, <3>1, <3>2, CoreLayout, Zenon
    <3>. HIDE DEF core
    <3>. QED BY <3>3 DEF IsCore
  <2>. HIDE DEF core
  <2>4. /\ Bytes(out.ixs, Table(lut)) = Bytes(CandidateIxs, Table(lut)) + (Len(out.ixs) - Len(CandidateIxs))
        /\ Bytes(CandidateIxs, Table(lut)) \in Nat /\ Len(out.ixs) - Len(CandidateIxs) \in Int
    BY <2>2, <2>3, SizeOfRebuilt
  <2>5. ~(Bytes(CandidateIxs, Table(lut)) > Limit)
    BY DEF IInv, OutOK, SizedOK, TooLarge
  <2>. QED BY <2>4, <2>5, LimitsAssumption
<1>. QED BY <1>1, Inductive, PTL

\* The repayment names the borrow, but for a price instruction more or less.
THEOREM IndexKept == Spec => []IndexMovesOnlyWithBudget
<1>1. IInv => IndexMovesOnlyWithBudget
  <2>. DEFINE repayAt == Position(out.ixs, "flashRepay") + 1
              sentPrices == Count(out.ixs, "computeBudget:price")
              builtPrices == Count(CandidateIxs, "computeBudget:price")
  <2>. SUFFICES ASSUME IInv, out # None
                PROVE  out.ixs[repayAt].index = Position(out.ixs, "flashBorrow") - (sentPrices - builtPrices)
    BY DEF IndexMovesOnlyWithBudget
  <2>1. PICK s, b, b2, pre, list, swap :
          /\ SentIs(s, b, b2, pre, list, swap)
          /\ Positions(out.ixs, s \o b2, Tip, pre, list, plan.repay, plan.collateral, Len(s) + Len(b),
                       Len(s \o b2), Len(pre), FarmCount(plan), Len(swap))
    BY SentLayout
  <2>. DEFINE core == Core(pre, list, plan.repay, plan.collateral, swap, Len(s) + Len(b))
  <2>2. /\ s \in Seq(Ixs) /\ Creating(s) /\ BudgetIxs(b) /\ BudgetIxs(b2)
        /\ (b = <<>> => b2 = <<>>) /\ (b # <<>> => Len(b2) \in 1..2)
        /\ CandidateIxs = (s \o b) \o core
        /\ pre \in Seq(Reserves) /\ list \in Seq(Reserves) /\ swap \in {<<>>, Swap}
    BY <2>1 DEF SentIs, Planned
  <2>3. /\ Len(s) \in Nat /\ Len(b) \in 0..2 /\ Len(b2) \in 0..2 /\ Len(s \o b2) = Len(s) + Len(b2)
        /\ Len(s) + Len(b) \in Nat /\ (b = <<>> <=> Len(b) = 0)
    <3>1. Len(s) \in Nat /\ Len(b) \in 0..2 /\ Len(b2) \in 0..2 /\ Len(s \o b2) = Len(s) + Len(b2)
      BY <2>2, HeadOf
    <3>2. b \in Seq(Ixs)
      BY <2>2 DEF BudgetIxs
    <3>3. b = <<>> <=> Len(b) = 0
      BY <3>2
    <3>. QED BY <3>1, <3>3
  <2>4. out.ixs[repayAt].index = Len(s) + Len(b)
    BY <2>1, PairStands
  <2>5. Position(out.ixs, "flashBorrow") = Len(s) + Len(b2)
    BY <2>1, <2>3 DEF Positions
  <2>6. Pair(plan)
    BY CompleteIsPair DEF IInv, OutOK, ControlOK
  <2>7. sentPrices = IF Len(b2) = 2 THEN 1 ELSE 0
    <3>1. IsTail(Tip)
      BY TipTyped
    <3>. QED BY <2>1, <2>2, <3>1, PriceCounted
  <2>8. builtPrices = IF Len(b) = 2 THEN 1 ELSE 0
    <3>1. IsTail(<<>>)
      BY TipTyped
    <3>2. Positions(((s \o b) \o core) \o <<>>, s \o b, <<>>, pre, list, plan.repay, plan.collateral,
                    Len(s) + Len(b), Len(s \o b), Len(pre), FarmCount(plan), Len(swap))
      BY <2>2, <2>3, <2>6, <3>1, FramedPositions, Zenon
    <3>3. ((s \o b) \o core) \o <<>> = CandidateIxs
      <4>1. CandidateIxs \in Seq(Ixs)
        <5>1. WorkOK /\ work.stage = "built"
          BY DEF IInv, OutOK, ControlOK
        <5>. QED BY <5>1, ResultKept DEF KeptOK
      <4>2. CandidateIxs \o <<>> = CandidateIxs
        BY <4>1, ConcatEmptySeq
      <4>. QED BY <2>2, <4>2
    <3>. HIDE DEF core
    <3>4. Positions(CandidateIxs, s \o b, <<>>, pre, list, plan.repay, plan.collateral,
                    Len(s) + Len(b), Len(s \o b), Len(pre), FarmCount(plan), Len(swap))
      BY <3>2, <3>3
    <3>. QED BY <2>2, <3>1, <3>4, PriceCounted
  <2>9. (Len(b) = 0 => Len(b2) = 0) /\ (Len(b) # 0 => Len(b2) \in 1..2)
    <3>1. Len(<<>>) = 0
      OBVIOUS
    <3>. QED BY <2>2, <2>3, <3>1
  <2>. HIDE DEF sentPrices, builtPrices, repayAt
  <2>10. Len(s) + Len(b) = (Len(s) + Len(b2)) - (sentPrices - builtPrices)
    <3>. DEFINE m == Len(s)
                c == Len(b)
                d == Len(b2)
    <3>1. /\ m \in Nat /\ c \in 0..2 /\ d \in 0..2 /\ (c = 0 => d = 0) /\ (c # 0 => d \in 1..2)
          /\ sentPrices = (IF d = 2 THEN 1 ELSE 0) /\ builtPrices = (IF c = 2 THEN 1 ELSE 0)
      BY <2>3, <2>7, <2>8, <2>9
    <3>. HIDE DEF m, c, d
    <3>2. m + c = (m + d) - (sentPrices - builtPrices)
      BY <3>1
    <3>. QED BY <3>2 DEF m, c, d
  <2>. QED BY <2>4, <2>5, <2>10
<1>. QED BY <1>1, Inductive, PTL

\* In the modes that refresh every reserve, what the obligation's refresh reads
\* is refreshed before it.
THEOREM RefreshedFirst ==
  ASSUME PreMode \in {"all", "auto"}
  PROVE  Spec => []ReservesAreFresh
<1>1. IInv => ReservesAreFresh
  <2>. DEFINE at == Position(out.ixs, "refreshObligation") + 1
              named == Range(out.ixs[at].reserves)
              before == {r \in Reserves : \E i \in 1..at : /\ out.ixs[i].kind = "refreshReserve"
                                                         /\ out.ixs[i].reserves = <<r>>}
  <2>. SUFFICES ASSUME IInv, out # None, ~work.torn, work.mode = "active", Cardinality(named) <= MaxFull,
                       NEW r \in named
                PROVE  r \in before
    BY DEF ReservesAreFresh
  <2>1. PICK s, b, b2, pre, list, swap :
          /\ SentIs(s, b, b2, pre, list, swap)
          /\ Positions(out.ixs, s \o b2, Tip, pre, list, plan.repay, plan.collateral, Len(s) + Len(b),
                       Len(s \o b2), Len(pre), FarmCount(plan), Len(swap))
    BY SentLayout
  <2>2. named = Range(list)
    BY <2>1, PairStands
  <2>3. Fresh(work, pre, list) /\ pre \in Seq(Reserves)
    BY <2>1 DEF SentIs, Planned
  <2>. HIDE DEF named
  <2>4. r \in Range(pre)
    BY <2>2, <2>3 DEF Fresh
  <2>5. r \in Reserves
    BY <2>3, <2>4 DEF Range
  <2>6. \E i \in 1..at : out.ixs[i].kind = "refreshReserve" /\ out.ixs[i].reserves = <<r>>
    BY <2>1, <2>3, <2>4, TipTyped, ReservesStand
  <2>. QED BY <2>5, <2>6
<1>. QED BY <1>1, Inductive, PTL

\* Of plans with two different reserves, what is sent passes the window check
\* again, whichever transaction was validated in its place.
THEOREM WindowKept ==
  ASSUME \A p \in Plans : p.repay # p.collateral \/ p.repay = NoReserve
  PROVE  Spec => []SentWasValidated
<1>1. IInv => SentWasValidated
  <2>. SUFFICES ASSUME IInv, out # None, work.final.setup = <<>>
                PROVE  ValidWindow(out.ixs, work.first.hasFarms, work.first.required # <<>> \/ work.final.hasFarms)
    BY DEF SentWasValidated
  <2>. DEFINE k == FarmCount(plan)
  <2>1. /\ ChainOK /\ Complete /\ WorkOK /\ SizedOK /\ pc = "send" /\ work.stage = "built" /\ Pair(plan)
    BY CompleteIsPair DEF IInv, OutOK, ControlOK
  <2>2. PICK s, b, b2, pre, list, swap :
          /\ SentIs(s, b, b2, pre, list, swap)
          /\ Positions(out.ixs, s \o b2, Tip, pre, list, plan.repay, plan.collateral, Len(s) + Len(b),
                       Len(s \o b2), Len(pre), k, Len(swap))
    BY SentLayout
  <2>3. k <= 1
    BY <2>1 DEF SizedOK
  <2>4. Len(pre) >= 2
    <3>1. pre \in Seq(Reserves) /\ plan.repay \in Range(pre) /\ plan.collateral \in Range(pre)
      BY <2>2 DEF SentIs, Planned
    <3>2. plan.repay # plan.collateral
      BY <2>1 DEF ChainOK, Complete
    <3>3. PICK i \in 1..Len(pre), j \in 1..Len(pre) : pre[i] = plan.repay /\ pre[j] = plan.collateral
      BY <3>1 DEF Range
    <3>4. i # j /\ Len(pre) \in Nat
      BY <3>1, <3>2, <3>3
    <3>. QED BY <3>4
  <2>5. (PlanFarms # <<>>) = (k # 0)
    <3>1. PlanFarms \in Seq({0, 1})
      BY <2>1, FarmsTyped DEF PlanFarms, Pair
    <3>. QED BY <3>1 DEF FarmCount, PlanFarms
  <2>6. work.first.required = PlanFarms /\ work.first.hasFarms = (k # 0) /\ work.final.hasFarms = (k # 0)
    BY <2>1, <2>5 DEF WorkOK, FirstOK, FinalOK
  <2>. HIDE DEF k
  <2>7. ValidWindow(out.ixs, k # 0, k # 0)
    BY <2>2, <2>3, <2>4, TipTyped, WindowStands
  <2>8. work.first.hasFarms = (k # 0) /\ (work.first.required # <<>> \/ work.final.hasFarms) = (k # 0)
    BY <2>5, <2>6
  <2>. QED BY <2>7, <2>8
<1>. QED BY <1>1, Inductive, PTL

\* A table gets an address twice only from a copy that is not the table.
THEOREM NoRepeatFromFreshCopy == Spec => RepeatsOnlyFromStaleCopy
<1>1. ASSUME LutOK, WorkOK, [Next]_vars, ~Repeated(Full), lut = chainLut
      PROVE  ~Repeated(Full')
  <2>1. /\ chainLut \in Tables /\ todo \in Seq(Reserves) /\ Table(chainLut) \in Seq(Reserves)
        /\ <<>> \in Seq(Reserves) /\ Table(NoTable) = <<>> /\ Table(<<>>) = <<>>
    BY <1>1, TableIs DEF LutOK, Table
  <2>2. Full \in Seq(Reserves) /\ NoRepeat(Full) /\ NoRepeat(Table(chainLut))
    <3>1. Table(chainLut) \o todo \in Seq(Reserves)
      BY <2>1, PartsDiffer
    <3>2. NoRepeat(Table(chainLut) \o todo)
      BY <1>1, <3>1, RepeatedOrNot DEF Full
    <3>3. NoRepeat(Table(chainLut))
      BY <2>1, <3>2, PartsDiffer
    <3>. QED BY <3>1, <3>2, <3>3 DEF Full
  <2>3. ASSUME Full' \in Seq(Reserves), NoRepeat(Full') PROVE ~Repeated(Full')
    BY <2>3, RepeatedOrNot
  <2>4. NoRepeat(<<>>)
    BY DEF NoRepeat
  <2>5. ASSUME todo' = <<>>, chainLut' \in {chainLut, NoTable, <<>>} PROVE ~Repeated(Full')
    <3>1. Table(chainLut') \in {Table(chainLut), <<>>}
      BY <2>1, <2>5
    <3>2. Full' = Table(chainLut')
      <4>1. \A q \in Seq(Reserves) : q \o <<>> = q
        OBVIOUS
      <4>. QED BY <2>1, <2>5, <3>1, <4>1 DEF Full
    <3>. QED BY <2>1, <2>2, <2>3, <2>4, <3>1, <3>2
  <2>6. CASE UNCHANGED <<chainLut, todo>>
    <3>1. Full' = Full
      BY <2>6 DEF Full, Table
    <3>. QED BY <1>1, <3>1
  <2>7. CASE Tick
    <3>1. CASE Load
      BY <2>6, <3>1 DEF Load
    <3>2. CASE CreateSent /\ pc = "idle"
      <4>1. todo' = <<>> /\ chainLut' \in {NoTable, <<>>}
        BY <1>1, <3>2 DEF CreateSent, LutOK
      <4>. QED BY <2>5, <4>1
    <3>. QED BY <2>7, <3>1, <3>2 DEF Tick
  <2>8. CASE Created
    <3>1. CASE CreateConfirmed
      BY <2>6, <3>1 DEF CreateConfirmed
    <3>2. CASE CreateFails /\ pc = "created"
      <4>1. todo' = <<>> /\ chainLut' \in {NoTable, chainLut}
        BY <1>1, <3>2 DEF CreateFails, Forgotten, LutOK
      <4>. QED BY <2>5, <4>1
    <3>. QED BY <2>8, <3>1, <3>2 DEF Created
  <2>9. CASE Loads
    BY <2>6, <2>9 DEF Loads, Load
  <2>10. CASE WarmsUp \/ GetOrBuild \/ ReadsObligation \/ Initial \/ Final \/ Atomic \/ \E answer : Sizing(answer)
    BY <2>6, <2>10 DEF WarmsUp, GetOrBuild, ReadsObligation, Initial, Final, Atomic, Sizing, lutVars
  <2>11. ASSUME NEW ixs, ixs \in {CandidateIxs, work.final.setup \o work.final.ixs},
                pc = "build", work.stage = "built", lut # NoTable, ExtendBegins(Candidates(ixs))
         PROVE  ~Repeated(Full')
    <3>1. Added(lut, Lacking(Candidates(ixs)))
      BY <1>1, <2>11, ExtensionFits
    <3>2. todo' = Lacking(Candidates(ixs)) /\ chainLut' = chainLut
      BY <2>11 DEF ExtendBegins
    <3>3. /\ todo' \in Seq(Reserves) /\ NoRepeat(todo') /\ Table(chainLut) = lut
          /\ \A i \in 1..Len(todo') : todo'[i] \notin Range(lut)
      BY <1>1, <2>1, <2>11, <3>1, <3>2, TableIs DEF Added
    <3>4. lut \o todo' \in Seq(Reserves) /\ NoRepeat(lut \o todo')
      BY <2>1, <2>2, <3>3, PartsDiffer
    <3>5. Full' = lut \o todo'
      BY <3>2, <3>3 DEF Full, Table
    <3>. QED BY <2>3, <3>4, <3>5
  <2>12. CASE WarmupCollects
    <3>1. lut # NoTable /\ pc = "build" /\ work.stage = "built"
      BY <1>1, <2>12 DEF WarmupCollects, Built, LutOK
    <3>. QED BY <2>11, <2>12, <3>1 DEF WarmupCollects
  <2>13. CASE PresubmitDecides \/ Extended
    BY <2>6, <2>13 DEF PresubmitDecides, Extended, lutVars
  <2>14. CASE ExecutorSizes
    <3>1. CASE UNCHANGED lutVars
      BY <2>6, <3>1 DEF lutVars
    <3>2. CASE lut # NoTable /\ ExtendBegins(Candidates(CandidateIxs))
      BY <2>11, <2>14, <3>2 DEF ExecutorSizes, Built
    <3>. QED BY <2>14, <3>1, <3>2 DEF ExecutorSizes
  <2>15. CASE Extends
    <3>. DEFINE rest == SubSeq(todo, Len(Batch) + 1, Len(todo))
    <3>1. todo # <<>> /\ lut # NoTable
      BY <1>1, <2>15 DEF Extends, BatchConfirmed, BatchFails, LutOK
    <3>2. chainLut \in Seq(Reserves) /\ Table(chainLut) = chainLut
      BY <1>1, <2>1, <3>1, TableIs
    <3>3. Batch \in Seq(Reserves) /\ rest \in Seq(Reserves) /\ Batch \o rest = todo
      BY <2>1, <3>1, BatchTaken
    <3>. HIDE DEF rest
    <3>4. chainLut \o Batch \in Seq(Reserves) /\ (chainLut \o Batch) \o rest = Full
      <4>1. Joined(Joined(chainLut, Batch), rest) = Joined(chainLut, Joined(Batch, rest))
        BY <3>2, <3>3, JoinedAssociates
      <4>2. Joined(Joined(chainLut, Batch), rest) = Joined(chainLut, todo)
        BY <3>3, <4>1 DEF Joined
      <4>3. chainLut \o Batch \in Seq(Reserves)
        BY <3>2, <3>3, PartsDiffer
      <4>. QED BY <3>2, <4>2, <4>3 DEF Joined, Full
    <3>5. NoRepeat(chainLut \o Batch)
      <4>. DEFINE j == chainLut \o Batch
      <4>1. j \in Seq(Reserves) /\ NoRepeat(j \o rest)
        BY <2>2, <3>4
      <4>. HIDE DEF j
      <4>2. NoRepeat(j)
        BY <3>3, <4>1, PartsDiffer
      <4>. QED BY <4>2 DEF j
    <3>6. Table(chainLut \o Batch) = chainLut \o Batch
      BY <3>4, NothingAssumption DEF Table
    <3>7. CASE BatchConfirmed
      <4>1. chainLut' = chainLut \o Batch /\ todo' = rest
        BY <3>7 DEF BatchConfirmed, rest
      <4>2. Table(chainLut') = chainLut'
        BY <3>6, <4>1
      <4>3. Full' = Full
        BY <3>4, <4>1, <4>2 DEF Full, Table
      <4>. QED BY <1>1, <4>3
    <3>8. CASE BatchFails
      <4>1. todo' = <<>> /\ chainLut' \in {chainLut, chainLut \o Batch}
        BY <3>8 DEF BatchFails
      <4>2. CASE chainLut' = chainLut
        BY <2>5, <4>1, <4>2
      <4>3. CASE chainLut' = chainLut \o Batch
        <5>1. Full' = (chainLut \o Batch) \o <<>>
          BY <3>6, <4>1, <4>3 DEF Full, Table
        <5>2. \A q \in Seq(Reserves) : q \o <<>> = q
          OBVIOUS
        <5>3. Full' = chainLut \o Batch
          BY <3>4, <5>1, <5>2
        <5>. QED BY <2>3, <3>4, <3>5, <5>3
      <4>. QED BY <4>1, <4>2, <4>3
    <3>. QED BY <2>15, <3>7, <3>8 DEF Extends
  <2>16. CASE SimulatesAtomic \/ Validates \/ Sends \/ Sent \/ ChainMoves \/ UNCHANGED vars
    BY <2>6, <2>16 DEF SimulatesAtomic, Validates, Sends, Sent, ChainMoves, lutVars, vars
  <2>17. CASE Crash
    <3>1. todo' = <<>> /\ chainLut' \in {NoTable, chainLut}
      BY <2>17 DEF Crash, LutCrash, Forgotten
    <3>. QED BY <2>5, <3>1
  <2>. QED BY <1>1, <2>7, <2>8, <2>9, <2>10, <2>12, <2>13, <2>14, <2>15, <2>16, <2>17 DEF Next
<1>2. ASSUME LutOK, WorkOK, [Next]_vars
      PROVE  [~Repeated(Full) /\ Repeated(Full') => lut # chainLut]_vars
  BY <1>1, <1>2
<1>3. IInv => LutOK /\ WorkOK
  BY DEF IInv
<1>. QED BY <1>2, <1>3, Inductive, PTL DEF Spec, RepeatsOnlyFromStaleCopy

=============================================================================
